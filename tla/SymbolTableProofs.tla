------------------------- MODULE SymbolTableProofs -------------------------
(***************************************************************************)
(* symbol_table.cc keeps the promise of Bindings, for any keys and values  *)
(* and any number of scopes: each operation changes the set of live        *)
(* bindings as promised, and the loop of Get, which the promise knows      *)
(* nothing of, ends with the deepest binding of its key.                   *)
(***************************************************************************)
EXTENDS SymbolTable, SequenceTheorems, TLAPS

\* A table: at least one scope, each of keys and values.
IsTable(t) == t \in Seq(Scopes) /\ Len(t) \in Nat \ {0}

Binding(d, k, v) == [depth |-> d, key |-> k, value |-> v]

\* The live bindings of any table.
BindingsOf(t) ==
  UNION {{Binding(d, k, t[d][k]) : k \in DOMAIN t[d]} : d \in 1 .. Len(t)}

\* b is the binding some scope of t makes.
IsBinding(t, b) ==
  /\ b.depth \in 1 .. Len(t)
  /\ b.key \in DOMAIN t[b.depth]
  /\ b = Binding(b.depth, b.key, t[b.depth][b.key])

LEMMA BindingsAre ==
  ASSUME NEW t, NEW b
  PROVE  b \in BindingsOf(t) <=> IsBinding(t, b)
<1>1. ASSUME b \in BindingsOf(t) PROVE IsBinding(t, b)
  <2>1. PICK d \in 1 .. Len(t) : \E k \in DOMAIN t[d] : b = Binding(d, k, t[d][k])
    BY <1>1 DEF BindingsOf
  <2>2. PICK k \in DOMAIN t[d] : b = Binding(d, k, t[d][k])
    BY <2>1
  <2>3. b.depth = d /\ b.key = k
    BY <2>2 DEF Binding
  <2> QED
    BY <2>2, <2>3 DEF IsBinding
<1>2. ASSUME IsBinding(t, b) PROVE b \in BindingsOf(t)
  BY <1>2 DEF BindingsOf, IsBinding
<1> QED
  BY <1>1, <1>2

LEMMA Made ==
  ASSUME NEW t, NEW d \in 1 .. Len(t), NEW k \in DOMAIN t[d]
  PROVE  /\ Binding(d, k, t[d][k]) \in BindingsOf(t)
         /\ Binding(d, k, t[d][k]).depth = d
         /\ Binding(d, k, t[d][k]).key = k
         /\ Binding(d, k, t[d][k]).value = t[d][k]
BY DEF BindingsOf, Binding

-----------------------------------------------------------------------------
(***************************************************************************)
(* What each operation does to a table and to its bindings.                *)
(***************************************************************************)
LEMMA Pushed ==
  ASSUME NEW t, IsTable(t)
  PROVE  /\ IsTable(Push(t)) /\ Len(Push(t)) = Len(t) + 1
         /\ BindingsOf(Push(t)) = BindingsOf(t)
<1>1. EmptyScope \in Scopes
  <2>1. EmptyScope \in [{} -> Values] /\ {} \in SUBSET Keys
    BY DEF EmptyScope
  <2> QED
    BY <2>1 DEF Scopes
<1>2. /\ Push(t) \in Seq(Scopes) /\ Len(Push(t)) = Len(t) + 1
      /\ \A d \in 1 .. Len(t) : Push(t)[d] = t[d]
      /\ Push(t)[Len(t) + 1] = EmptyScope
  BY <1>1 DEF Push, IsTable
<1>3. DOMAIN EmptyScope = {}
  BY DEF EmptyScope
<1>4. ASSUME NEW b PROVE IsBinding(Push(t), b) <=> IsBinding(t, b)
  <2>1. b.depth \in 1 .. Len(t) + 1 <=> b.depth \in 1 .. Len(t) \/ b.depth = Len(t) + 1
    BY DEF IsTable
  <2> QED
    BY <1>2, <1>3, <2>1 DEF IsBinding
<1>5. BindingsOf(Push(t)) = BindingsOf(t)
  BY <1>4, BindingsAre
<1> QED
  BY <1>2, <1>5 DEF IsTable

LEMMA Popped ==
  ASSUME NEW t, IsTable(t), CanPop(t)
  PROVE  /\ IsTable(Pop(t)) /\ Len(Pop(t)) = Len(t) - 1
         /\ BindingsOf(Pop(t)) = {b \in BindingsOf(t) : b.depth < Len(t)}
<1> DEFINE n == Len(t)
<1>1. t \in Seq(Scopes) /\ n \in Nat /\ n > 1
  BY DEF IsTable, CanPop
<1>2. /\ Pop(t) \in Seq(Scopes) /\ Len(Pop(t)) = n - 1
      /\ \A d \in 1 .. n - 1 : Pop(t)[d] = t[d]
  <2> HIDE DEF n
  <2>1. n - 1 \in Int /\ 1 \in Int /\ 1 <= n - 1 /\ n - 1 - 1 + 1 = n - 1
        /\ \A d \in 1 .. n - 1 : d \in 1 .. n /\ 1 + d - 1 = d
    BY <1>1
  <2>2. \A d \in 1 .. n - 1 : t[d] \in Scopes
    BY <1>1, <2>1 DEF n
  <2>3. /\ SubSeq(t, 1, n - 1) \in Seq(Scopes)
        /\ Len(SubSeq(t, 1, n - 1)) = n - 1
        /\ \A d \in 1 .. n - 1 : SubSeq(t, 1, n - 1)[d] = t[d]
    BY <2>1, <2>2, SubSeqProperties
  <2> QED
    BY <2>3 DEF Pop, n
<1>3. ASSUME NEW b
      PROVE  IsBinding(Pop(t), b) <=> IsBinding(t, b) /\ b.depth < Len(t)
  <2>1. b.depth \in 1 .. n - 1 <=> b.depth \in 1 .. n /\ b.depth < n
    BY <1>1
  <2> QED
    BY <1>2, <2>1 DEF IsBinding
<1>4. BindingsOf(Pop(t)) = {b \in BindingsOf(t) : b.depth < Len(t)}
  BY <1>3, BindingsAre
<1>5. n - 1 \in Nat \ {0}
  <2> HIDE DEF n
  <2> QED
    BY <1>1
<1> QED
  BY <1>2, <1>4, <1>5 DEF IsTable

\* u is t with the new key k bound to v in scope d.
Binds(t, u, d, k, v) ==
  /\ d \in 1 .. Len(t) /\ k \in Keys /\ v \in Values
  /\ k \notin DOMAIN t[d]
  /\ u = [t EXCEPT ![d] = Bind(t[d], k, v)]

LEMMA Bound ==
  ASSUME NEW t, IsTable(t), NEW u, NEW d, NEW k, NEW v, Binds(t, u, d, k, v)
  PROVE  /\ IsTable(u) /\ Len(u) = Len(t)
         /\ BindingsOf(u) = BindingsOf(t) \cup {Binding(d, k, v)}
<1> DEFINE s == Bind(t[d], k, v)
<1>0. /\ d \in 1 .. Len(t) /\ k \in Keys /\ v \in Values /\ k \notin DOMAIN t[d]
      /\ u = [t EXCEPT ![d] = s]
  BY DEF Binds
<1>1. t[d] \in Scopes
  BY <1>0 DEF IsTable
<1>2. s \in Scopes
  <2>1. PICK K \in SUBSET Keys : t[d] \in [K -> Values]
    BY <1>1 DEF Scopes
  <2>2. s \in [K \cup {k} -> Values] /\ K \cup {k} \in SUBSET Keys
    BY <1>0, <2>1 DEF Bind
  <2> QED
    BY <2>2 DEF Scopes
<1>3. /\ DOMAIN s = DOMAIN t[d] \cup {k} /\ s[k] = v
      /\ \A j \in DOMAIN t[d] : s[j] = t[d][j]
  BY <1>0 DEF Bind
<1> HIDE DEF s
<1>4. /\ u \in Seq(Scopes) /\ Len(u) = Len(t) /\ u[d] = s
      /\ \A e \in 1 .. Len(t) : e # d => u[e] = t[e]
  BY <1>0, <1>2 DEF IsTable
<1>5. ASSUME NEW b
      PROVE  IsBinding(u, b) <=> IsBinding(t, b) \/ b = Binding(d, k, v)
  <2>1. Binding(d, k, v).depth = d /\ Binding(d, k, v).key = k
    BY DEF Binding
  <2>2. CASE b.depth # d
    BY <1>0, <1>4, <2>1, <2>2 DEF IsBinding
  <2>3. CASE b.depth = d /\ b.key # k
    BY <1>0, <1>3, <1>4, <2>1, <2>3 DEF IsBinding
  <2>4. CASE b.depth = d /\ b.key = k
    BY <1>0, <1>3, <1>4, <2>1, <2>4 DEF IsBinding
  <2> QED
    BY <2>2, <2>3, <2>4
<1>6. BindingsOf(u) = BindingsOf(t) \cup {Binding(d, k, v)}
  BY <1>5, BindingsAre
<1>7. IsTable(u) /\ Len(u) = Len(t)
  BY <1>0, <1>4 DEF IsTable
<1> QED
  BY <1>6, <1>7

-----------------------------------------------------------------------------
(***************************************************************************)
(* The invariant: types, and what the loop of Get has passed.              *)
(***************************************************************************)
TInv == TypeOK /\ GetLooksFromTheTop /\ (Idle => i = 0)

LEMMA TInvTable ==
  ASSUME TInv
  PROVE  /\ IsTable(map_vector) /\ Len(map_vector) \in Nat
         /\ Len(map_vector) \in 1 .. Len(map_vector) /\ 1 \in 1 .. Len(map_vector)
         /\ bindings = BindingsOf(map_vector)
<1>1. map_vector \in Seq(Scopes) /\ Len(map_vector) \in 1 .. MaxDepth /\ MaxDepth \in Nat
  BY BoundsAssumption DEF TInv, TypeOK
<1>2. Len(map_vector) \in Nat \ {0}
  BY <1>1
<1>3. bindings = BindingsOf(map_vector)
  BY DEF bindings, BindingsOf, Binding
<1> QED
  BY <1>1, <1>2, <1>3 DEF IsTable

LEMMA Scoped ==
  ASSUME NEW t, IsTable(t), NEW d \in 1 .. Len(t), NEW k \in DOMAIN t[d]
  PROVE  k \in Keys /\ t[d][k] \in Values
<1>1. t[d] \in Scopes
  BY DEF IsTable
<1> QED
  BY <1>1 DEF Scopes

\* A step either leaves the scopes alone, or is one of these.
LEMMA TableSteps ==
  ASSUME TInv, [Next]_vars
  PROVE  \/ UNCHANGED map_vector
         \/ /\ Idle /\ Len(map_vector) < MaxDepth
            /\ map_vector' = Push(map_vector) /\ outcome' = Ok
         \/ /\ Idle /\ CanPop(map_vector)
            /\ map_vector' = Pop(map_vector) /\ outcome' = Ok
         \/ /\ Idle /\ outcome' = Ok
            /\ \E d \in {1, Len(map_vector)}, k \in Keys, v \in Values :
                 Binds(map_vector, map_vector', d, k, v)
<1> QED
  BY TInvTable DEF Next, DoPush, DoPop, DoPut, DoPutBottom, DoGetTopOnly, GetStart, GetStep, GetHit,
     GetMiss, GetThrow, InTop, Put, PutBottom, Binds, vars

LEMMA TablesTyped ==
  ASSUME TInv, [Next]_vars
  PROVE  map_vector' \in Seq(Scopes) /\ Len(map_vector') \in 1 .. MaxDepth
<1>1. /\ IsTable(map_vector) /\ Len(map_vector) \in 1 .. MaxDepth /\ MaxDepth \in Nat
      /\ Len(map_vector) \in Nat
  BY TInvTable, BoundsAssumption DEF TInv, TypeOK
<1>2. CASE UNCHANGED map_vector
  BY <1>1, <1>2 DEF IsTable
<1>3. CASE Len(map_vector) < MaxDepth /\ map_vector' = Push(map_vector)
  BY <1>1, <1>3, Pushed DEF IsTable
<1>4. CASE CanPop(map_vector) /\ map_vector' = Pop(map_vector)
  <2>1. /\ map_vector' \in Seq(Scopes) /\ Len(map_vector') = Len(map_vector) - 1
        /\ Len(map_vector') \in Nat \ {0}
    BY <1>1, <1>4, Popped DEF IsTable
  <2> QED
    BY <1>1, <2>1
<1>5. CASE \E d, k, v : Binds(map_vector, map_vector', d, k, v)
  <2>1. IsTable(map_vector') /\ Len(map_vector') = Len(map_vector)
    BY <1>1, <1>5, Bound
  <2> QED
    BY <1>1, <2>1 DEF IsTable
<1> QED
  BY <1>2, <1>3, <1>4, <1>5, TableSteps

LEMMA InitTInv == Init => TInv
<1> SUFFICES ASSUME Init PROVE TInv
  OBVIOUS
<1>1. EmptyScope \in Scopes
  <2>1. EmptyScope \in [{} -> Values] /\ {} \in SUBSET Keys
    BY DEF EmptyScope
  <2> QED
    BY <2>1 DEF Scopes
<1>2. map_vector = <<EmptyScope>>
  BY DEF Init, Push
<1>3. map_vector \in Seq(Scopes) /\ Len(map_vector) = 1
  BY <1>1, <1>2
<1>4. Ok \in Outcomes
  BY DEF Ok, Outcomes
<1>5. Len(map_vector) \in 1 .. MaxDepth /\ i \in 0 .. Len(map_vector)
  <2>1. MaxDepth \in Nat /\ MaxDepth >= 1
    BY BoundsAssumption
  <2>2. i = 0
    BY DEF Init
  <2> QED
    BY <1>3, <2>1, <2>2
<1> QED
  BY <1>3, <1>4, <1>5 DEF Init, TInv, TypeOK, GetLooksFromTheTop, Idle

LEMMA NextTInv == TInv /\ [Next]_vars => TInv'
<1> SUFFICES ASSUME TInv, [Next]_vars PROVE TInv'
  OBVIOUS
<1>1. map_vector' \in Seq(Scopes) /\ Len(map_vector') \in 1 .. MaxDepth
  BY TablesTyped
<1>2. /\ IsTable(map_vector) /\ Len(map_vector) \in Nat /\ i \in 0 .. Len(map_vector)
      /\ key \in Keys \cup {NoKey} /\ outcome \in Outcomes /\ NoKey \notin Keys
      /\ Len(map_vector) \in 1 .. Len(map_vector)
  BY TInvTable, BoundsAssumption DEF TInv, TypeOK
<1>3. Ok \in Outcomes /\ [status |-> "bottom_of_stack"] \in Outcomes
      /\ [status |-> "duplicate"] \in Outcomes /\ [status |-> "running"] \in Outcomes
      /\ \A j \in Keys : [status |-> "undefined", key |-> j] \in Outcomes
      /\ \A k \in Keys, v \in Values : [status |-> "found", key |-> k, value |-> v] \in Outcomes
  BY DEF Ok, Outcomes
<1>4. CASE UNCHANGED vars
  BY <1>1, <1>2, <1>4 DEF vars, TInv, TypeOK, GetLooksFromTheTop, Idle
<1>5. CASE GetStep
  <2>1. CASE GetHit
    <3>1. key \in Keys /\ map_vector[i][key] \in Values
      BY <1>2, <2>1, Scoped DEF GetHit, Idle
    <3>2. outcome' \in Outcomes
      BY <1>3, <2>1, <3>1 DEF GetHit
    <3>3. key' = NoKey /\ i' = 0 /\ i' \in 0 .. Len(map_vector')
      BY <1>1, <2>1 DEF GetHit
    <3> QED
      BY <1>1, <3>2, <3>3 DEF TInv, TypeOK, GetLooksFromTheTop, Idle
  <2>2. CASE GetMiss
    <3>1. i' = i - 1 /\ i' \in 0 .. Len(map_vector) /\ UNCHANGED <<map_vector, key, outcome>>
          /\ ~Idle /\ key \notin DOMAIN map_vector[i] /\ i \in 1 .. Len(map_vector)
      BY <1>2, <2>2 DEF GetMiss
    <3>2. ASSUME NEW j \in (i' + 1) .. Len(map_vector) PROVE key \notin DOMAIN map_vector[j]
      <4>1. j = i \/ j \in (i + 1) .. Len(map_vector)
        BY <1>2, <3>1
      <4> QED
        BY <3>1, <4>1 DEF TInv, GetLooksFromTheTop
    <3> QED
      BY <1>1, <1>2, <3>1, <3>2 DEF TInv, TypeOK, GetLooksFromTheTop, Idle
  <2>3. CASE GetThrow
    BY <1>1, <1>2, <1>3, <2>3 DEF GetThrow, TInv, TypeOK, GetLooksFromTheTop, Idle
  <2> QED
    BY <1>5, <2>1, <2>2, <2>3 DEF GetStep
<1>6. CASE \E k \in Keys : DoGetTopOnly(k) \/ GetStart(k)
  <2>1. PICK k \in Keys : DoGetTopOnly(k) \/ GetStart(k)
    BY <1>6
  <2>2. CASE DoGetTopOnly(k)
    <3>1. outcome' \in Outcomes
      BY <1>2, <1>3, <2>2, Scoped DEF DoGetTopOnly, InTop
    <3> QED
      BY <1>1, <1>2, <2>2, <3>1 DEF DoGetTopOnly, TInv, TypeOK, GetLooksFromTheTop, Idle
  <2>3. CASE GetStart(k)
    <3>1. ~Idle' /\ key' = k /\ i' = Len(map_vector) /\ UNCHANGED map_vector /\ outcome' \in Outcomes
      BY <1>2, <1>3, <2>3 DEF GetStart, FirstIndex, Idle
    <3>2. i' \in 0 .. Len(map_vector') /\ (i' + 1) .. Len(map_vector') = {}
      BY <1>2, <3>1
    <3> QED
      BY <1>1, <3>1, <3>2 DEF TInv, TypeOK, GetLooksFromTheTop
  <2> QED
    BY <2>1, <2>2, <2>3
<1>7. CASE DoPush \/ DoPop \/ \E k \in Keys, v \in Values : DoPut(k, v) \/ DoPutBottom(k, v)
  <2>1. Idle /\ outcome' \in Outcomes /\ UNCHANGED <<key, i>>
    BY <1>3, <1>7 DEF DoPush, DoPop, DoPut, DoPutBottom
  <2>2. i = 0 /\ i' \in 0 .. Len(map_vector')
    BY <1>1, <2>1 DEF TInv
  <2> QED
    BY <1>1, <1>2, <2>1, <2>2 DEF TInv, TypeOK, GetLooksFromTheTop, Idle
<1> QED
  BY <1>4, <1>5, <1>6, <1>7 DEF Next

\* Types are kept, for any keys, values and number of scopes.
THEOREM TableTyped == Spec => []TypeOK
<1> QED
  BY InitTInv, NextTInv, PTL DEF Spec, TInv

\* A running Get has passed no scope that binds its key (symbol_table.cc,
\* the downward loop of Get): the scope it is about to read is the innermost
\* one that can.
THEOREM LooksFromTheTop == Spec => []GetLooksFromTheTop
<1> QED
  BY InitTInv, NextTInv, PTL DEF Spec, TInv

-----------------------------------------------------------------------------
(***************************************************************************)
(* The refinement: each step of the table is a step of the promise, and    *)
(* each look of Get into a scope without its key is a stutter.             *)
(***************************************************************************)
LEMMA InitPromise == Init => Promise!Init
<1> SUFFICES ASSUME Init PROVE Promise!Init
  OBVIOUS
<1>1. map_vector = <<EmptyScope>> /\ DOMAIN EmptyScope = {}
  BY DEF Init, Push, EmptyScope
<1>2. Len(map_vector) = 1 /\ DOMAIN map_vector[1] = {}
  BY <1>1
<1>3. ASSUME NEW b \in bindings PROVE FALSE
  <2>1. bindings = BindingsOf(map_vector)
    BY DEF bindings, BindingsOf, Binding
  <2>2. IsBinding(map_vector, b)
    BY <1>3, <2>1, BindingsAre
  <2> QED
    BY <1>2, <2>2 DEF IsBinding
<1> QED
  BY <1>2, <1>3 DEF Promise!Init, Init, Ok

\* What the set of live bindings says of the key k is what the scopes say.
LEMMA BoundKeys ==
  ASSUME TInv, NEW k
  PROVE  /\ \A b \in Promise!Of(k) :
              /\ b.depth \in 1 .. Len(map_vector) /\ k \in DOMAIN map_vector[b.depth]
              /\ b.value = map_vector[b.depth][k]
         /\ \A d \in 1 .. Len(map_vector) : k \in DOMAIN map_vector[d] =>
              \E b \in Promise!Of(k) : b.depth = d /\ b.value = map_vector[d][k]
<1>1. bindings = BindingsOf(map_vector)
  BY TInvTable
<1>2. ASSUME NEW b \in Promise!Of(k)
      PROVE  /\ b.depth \in 1 .. Len(map_vector) /\ k \in DOMAIN map_vector[b.depth]
             /\ b.value = map_vector[b.depth][k]
  <2>1. IsBinding(map_vector, b) /\ b.key = k
    BY <1>1, BindingsAre DEF Promise!Of
  <2> QED
    BY <2>1 DEF IsBinding, Binding
<1>3. ASSUME NEW d \in 1 .. Len(map_vector), k \in DOMAIN map_vector[d]
      PROVE  \E b \in Promise!Of(k) : b.depth = d /\ b.value = map_vector[d][k]
  BY <1>1, <1>3, Made DEF Promise!Of
<1> QED
  BY <1>2, <1>3

\* The two answers a lookup among the bindings B may give.
LEMMA AnswerFound ==
  ASSUME NEW k, NEW B, NEW b \in B, \A c \in B : c.depth <= b.depth
  PROVE  [status |-> "found", key |-> k, value |-> b.value] \in Promise!Answers(k, B)
BY DEF Promise!Answers

LEMMA AnswerUndefined ==
  ASSUME NEW k
  PROVE  [status |-> "undefined", key |-> k] \in Promise!Answers(k, {})
BY DEF Promise!Answers

LEMMA ScopesPromise ==
  ASSUME TInv, DoPush \/ DoPop
  PROVE  Promise!Enter \/ Promise!Leave
<1>1. /\ IsTable(map_vector) /\ Len(map_vector) \in Nat \ {0}
      /\ bindings = BindingsOf(map_vector) /\ bindings' = BindingsOf(map_vector')
  BY TInvTable DEF IsTable, bindings, BindingsOf, Binding
<1>2. CASE DoPush
  BY <1>1, <1>2, Pushed DEF DoPush, Promise!Enter, Promise!Succeeds, Ok
<1>3. CASE DoPop /\ CanPop(map_vector)
  <2>1. /\ Len(map_vector') = Len(map_vector) - 1 /\ Len(map_vector) > 1
        /\ bindings' = {b \in bindings : b.depth < Len(map_vector)}
    BY <1>1, <1>3, Popped DEF DoPop, CanPop
  <2> QED
    BY <1>3, <2>1 DEF DoPop, Promise!Leave, Promise!Succeeds, Ok
<1>4. CASE DoPop /\ ~CanPop(map_vector)
  <2>1. Len(map_vector) = 1 /\ UNCHANGED map_vector
    BY <1>1, <1>4 DEF DoPop, CanPop
  <2> QED
    BY <1>1, <1>4, <2>1 DEF DoPop, Promise!Leave, Promise!Fails
<1> QED
  BY <1>2, <1>3, <1>4

LEMMA PutsPromise ==
  ASSUME TInv, NEW k \in Keys, NEW v \in Values, DoPut(k, v) \/ DoPutBottom(k, v)
  PROVE  \E d \in {1, Len(map_vector)} : Promise!Declare(d, k, v)
<1>1. /\ IsTable(map_vector) /\ 1 \in 1 .. Len(map_vector)
      /\ Len(map_vector) \in 1 .. Len(map_vector)
      /\ bindings = BindingsOf(map_vector) /\ bindings' = BindingsOf(map_vector')
  BY TInvTable DEF bindings, BindingsOf, Binding
<1>2. PICK d \in {1, Len(map_vector)} :
        IF k \in DOMAIN map_vector[d]
        THEN UNCHANGED map_vector /\ outcome' = [status |-> "duplicate"]
        ELSE /\ map_vector' = [map_vector EXCEPT ![d] = Bind(map_vector[d], k, v)]
             /\ outcome' = Ok
  BY DEF DoPut, DoPutBottom, InTop, Put, PutBottom
<1>3. UNCHANGED key /\ d \in 1 .. Len(map_vector)
  BY <1>1 DEF DoPut, DoPutBottom
<1>4. CASE k \in DOMAIN map_vector[d]
  <2>1. \E b \in Promise!Of(k) : b.depth = d
    BY <1>3, <1>4, BoundKeys
  <2> QED
    BY <1>1, <1>2, <1>3, <1>4, <2>1 DEF Promise!Declare, Promise!Fails
<1>5. CASE k \notin DOMAIN map_vector[d]
  <2>1. \A b \in Promise!Of(k) : b.depth # d
    BY <1>5, BoundKeys
  <2>2. Binds(map_vector, map_vector', d, k, v)
    BY <1>2, <1>3, <1>5 DEF Binds
  <2>3. Len(map_vector') = Len(map_vector) /\ bindings' = bindings \cup {Binding(d, k, v)}
    BY <1>1, <2>2, Bound
  <2> QED
    BY <1>2, <1>3, <1>5, <2>1, <2>3 DEF Promise!Declare, Promise!Succeeds, Ok, Binding
<1> QED
  BY <1>4, <1>5

LEMMA LookupPromise ==
  ASSUME TInv, NEW k \in Keys, DoGetTopOnly(k)
  PROVE  Promise!LookupHere(k)
<1> DEFINE n == Len(map_vector)
           B == {b \in Promise!Of(k) : b.depth = n}
<1>1. n \in 1 .. n /\ UNCHANGED <<map_vector, key>> /\ UNCHANGED bindings
  BY TInvTable DEF DoGetTopOnly, bindings
<1>2. CASE k \in DOMAIN map_vector[n]
  <2>1. PICK b \in B : b.value = map_vector[n][k]
    BY <1>1, <1>2, BoundKeys
  <2>2. \A c \in B : c.depth <= b.depth
    BY <1>1
  <2>3. [status |-> "found", key |-> k, value |-> b.value] \in Promise!Answers(k, B)
    BY <2>2, AnswerFound
  <2>4. outcome' = [status |-> "found", key |-> k, value |-> b.value]
    BY <1>2, <2>1 DEF DoGetTopOnly, InTop
  <2> QED
    BY <1>1, <2>3, <2>4 DEF Promise!LookupHere
<1>3. CASE k \notin DOMAIN map_vector[n]
  <2>1. B = {}
    BY <1>3, BoundKeys
  <2>2. outcome' = [status |-> "undefined", key |-> k]
    BY <1>3 DEF DoGetTopOnly, InTop
  <2> QED
    BY <1>1, <2>1, <2>2, AnswerUndefined DEF Promise!LookupHere
<1> QED
  BY <1>2, <1>3

\* Get's loop answers with the deepest binding because it has passed every
\* deeper scope.
LEMMA AnswerPromise ==
  ASSUME TInv, GetHit \/ GetThrow
  PROVE  Promise!Answer
<1> DEFINE n == Len(map_vector)
           B == Promise!Of(key)
<1>1. /\ ~Idle /\ i \in 0 .. n /\ n \in Nat /\ UNCHANGED map_vector /\ UNCHANGED bindings
      /\ key' = NoKey
  BY TInvTable DEF GetHit, GetThrow, TInv, TypeOK, bindings
<1>2. \A b \in B : b.depth \in 1 .. n /\ b.depth <= i
  <2> SUFFICES ASSUME NEW b \in B PROVE b.depth \in 1 .. n /\ b.depth <= i
    OBVIOUS
  <2>1. b.depth \in 1 .. n /\ key \in DOMAIN map_vector[b.depth]
    BY BoundKeys
  <2>2. b.depth \notin (i + 1) .. n
    BY <1>1, <2>1 DEF TInv, GetLooksFromTheTop
  <2> QED
    BY <1>1, <2>1, <2>2
<1>3. CASE GetHit
  <2>1. i \in 1 .. n /\ key \in DOMAIN map_vector[i]
    BY <1>1, <1>3 DEF GetHit
  <2>2. PICK b \in B : b.depth = i /\ b.value = map_vector[i][key]
    BY <2>1, BoundKeys
  <2>3. [status |-> "found", key |-> key, value |-> b.value] \in Promise!Answers(key, B)
    BY <1>2, <2>2, AnswerFound
  <2>4. outcome' = [status |-> "found", key |-> key, value |-> b.value]
    BY <1>3, <2>2 DEF GetHit
  <2> QED
    BY <1>1, <2>3, <2>4 DEF Promise!Answer, Idle
<1>4. CASE GetThrow
  <2>1. i = 0
    BY <1>4 DEF GetThrow
  <2>2. B = {}
    BY <1>2, <2>1
  <2>3. outcome' = [status |-> "undefined", key |-> key]
    BY <1>4 DEF GetThrow
  <2> QED
    BY <1>1, <2>2, <2>3, AnswerUndefined DEF Promise!Answer, Idle
<1> QED
  BY <1>3, <1>4

LEMMA NextPromise == TInv /\ [Next]_vars => [Promise!Next]_(Promise!vars)
<1> SUFFICES ASSUME TInv, [Next]_vars PROVE [Promise!Next]_(Promise!vars)
  OBVIOUS
<1>1. CASE UNCHANGED vars \/ GetMiss
  BY <1>1 DEF vars, GetMiss, Promise!vars, bindings
<1>2. CASE DoPush \/ DoPop
  BY <1>2, ScopesPromise DEF DoPush, DoPop, Idle, Promise!Next
<1>3. CASE \E k \in Keys, v \in Values : DoPut(k, v) \/ DoPutBottom(k, v)
  BY <1>3, PutsPromise DEF DoPut, DoPutBottom, Idle, Promise!Next
<1>4. CASE \E k \in Keys : DoGetTopOnly(k)
  BY <1>4, LookupPromise DEF DoGetTopOnly, Idle, Promise!Next
<1>5. CASE \E k \in Keys : GetStart(k)
  BY <1>5 DEF GetStart, Idle, Promise!Ask, Promise!Next, bindings
<1>6. CASE GetHit \/ GetThrow
  BY <1>6, AnswerPromise DEF Promise!Next
<1> QED
  BY <1>1, <1>2, <1>3, <1>4, <1>5, <1>6 DEF Next, GetStep

\* symbol_table.cc keeps the promise of Bindings: a lookup answers with the
\* binding of greatest depth, and leaving a scope forgets its bindings only.
THEOREM Implements == Spec => ImplementsBindings
<1> QED
  BY InitTInv, NextTInv, InitPromise, NextPromise, PTL
  DEF Spec, ImplementsBindings, Promise!Spec
=============================================================================
