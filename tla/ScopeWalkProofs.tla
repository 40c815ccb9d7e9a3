-------------------------- MODULE ScopeWalkProofs --------------------------
(***************************************************************************)
(* The type checker and the code generator agree on every local variable   *)
(* of every function, whatever its names, types, size and nesting, as long *)
(* as both type every expression alike.  The argument: at every node the   *)
(* generator's table is as deep as the checker's was, binds no more than   *)
(* it, and shows what it shows at every depth, save for the names that     *)
(* wait for the update of an enclosing FOR.                                *)
(***************************************************************************)
EXTENDS ScopeWalk, SequenceTheorems, WellFoundedInduction, TLAPS

-----------------------------------------------------------------------------
(***************************************************************************)
(* Tables: what the operations do to the scopes of one, as far as the      *)
(* proofs look.                                                            *)
(***************************************************************************)
Scopes(V) == UNION {[D -> V] : D \in SUBSET Names}
Tables(V) == {t \in Seq(Scopes(V)) : t # <<>>}
Registers == [type : Types, base : Nat, offset : Nat]

Pushed(t, u) ==
  /\ Len(u) = Len(t) + 1
  /\ \A d \in 1 .. Len(t) : u[d] = t[d]
  /\ DOMAIN u[Len(u)] = {}
Popped(t, u) ==
  /\ Len(t) = Len(u) + 1
  /\ \A d \in 1 .. Len(u) : u[d] = t[d]
Bound(t, u, k, v) ==
  /\ Len(u) = Len(t)
  /\ \A d \in 1 .. Len(t) : d # Len(t) => u[d] = t[d]
  /\ DOMAIN u[Len(t)] = DOMAIN t[Len(t)] \cup {k}
  /\ u[Len(t)][k] = v
  /\ \A x \in DOMAIN t[Len(t)] : x # k => u[Len(t)][x] = t[Len(t)][x]

\* A scope of a table binds names to values.
LEMMA ScopeOf ==
  ASSUME NEW V, NEW t \in Tables(V)
  PROVE  /\ Len(t) \in Nat \ {0} /\ t \in Seq(Scopes(V)) /\ Len(t) \in 1 .. Len(t)
         /\ \A d \in 1 .. Len(t) : /\ t[d] \in Scopes(V) /\ DOMAIN t[d] \subseteq Names
                                   /\ \A x \in DOMAIN t[d] : t[d][x] \in V
<1>1. t \in Seq(Scopes(V)) /\ t # <<>>
  BY DEF Tables
<1>2. Len(t) \in Nat \ {0} /\ Len(t) \in 1 .. Len(t)
  BY <1>1
<1>3. ASSUME NEW d \in 1 .. Len(t)
      PROVE  t[d] \in Scopes(V) /\ DOMAIN t[d] \subseteq Names
             /\ \A x \in DOMAIN t[d] : t[d][x] \in V
  <2>1. t[d] \in Scopes(V)
    BY <1>1
  <2>2. PICK D \in SUBSET Names : t[d] \in [D -> V]
    BY <2>1 DEF Scopes
  <2> QED
    BY <2>1, <2>2
<1> QED
  BY <1>1, <1>2, <1>3

\* Push, Pop and Put do to a table what they are said to do.
LEMMA PushIs ==
  ASSUME NEW V, NEW t \in Tables(V)
  PROVE  Push(t) \in Tables(V) /\ Pushed(t, Push(t))
<1>1. EmptyScope \in Scopes(V) /\ DOMAIN EmptyScope = {}
  <2>1. EmptyScope \in [{} -> V] /\ {} \in SUBSET Names
    BY DEF EmptyScope
  <2> QED
    BY <2>1 DEF Scopes
<1>2. /\ Push(t) \in Seq(Scopes(V)) /\ Len(Push(t)) = Len(t) + 1
      /\ \A d \in 1 .. Len(t) : Push(t)[d] = t[d]
      /\ Push(t)[Len(t) + 1] = EmptyScope
  BY <1>1, ScopeOf DEF Push
<1>3. Push(t) # <<>>
  BY <1>2, ScopeOf
<1> QED
  BY <1>1, <1>2, <1>3 DEF Tables, Pushed

LEMMA PopIs ==
  ASSUME NEW V, NEW t \in Tables(V), Len(t) > 1
  PROVE  Pop(t) \in Tables(V) /\ Popped(t, Pop(t))
<1> DEFINE n == Len(t) - 1
<1>1. /\ t \in Seq(Scopes(V)) /\ Len(t) \in Nat /\ n \in Nat /\ n >= 1 /\ Len(t) = n + 1
      /\ \A d \in 1 .. n : d \in 1 .. Len(t)
  BY ScopeOf
<1>2. Pop(t) = SubSeq(t, 1, n)
  BY DEF Pop
<1> HIDE DEF n
<1>3. /\ SubSeq(t, 1, n) \in Seq(Scopes(V)) /\ Len(SubSeq(t, 1, n)) = n
      /\ \A d \in 1 .. n : SubSeq(t, 1, n)[d] = t[d]
  <2>1. \A d \in 1 .. n : t[d] \in Scopes(V) /\ 1 + d - 1 = d
    BY <1>1
  <2>2. n - 1 + 1 = n /\ 1 \in Int /\ n \in Int /\ 1 <= n
    BY <1>1
  <2> QED
    BY <1>1, <2>1, <2>2, SubSeqProperties
<1>4. Pop(t) # <<>>
  BY <1>1, <1>2, <1>3
<1> QED
  BY <1>1, <1>2, <1>3, <1>4 DEF Tables, Popped

LEMMA PutIs ==
  ASSUME NEW V, NEW t \in Tables(V), NEW k \in Names, NEW v \in V
  PROVE  Put(t, k, v) \in Tables(V) /\ Bound(t, Put(t, k, v), k, v)
<1> DEFINE scope == t[Len(t)]
           more == Bind(scope, k, v)
<1>1. /\ t \in Seq(Scopes(V)) /\ Len(t) \in 1 .. Len(t) /\ DOMAIN scope \subseteq Names
      /\ \A x \in DOMAIN scope : scope[x] \in V
  BY ScopeOf
<1>2. /\ more \in Scopes(V) /\ DOMAIN more = DOMAIN scope \cup {k} /\ more[k] = v
      /\ \A x \in DOMAIN scope : x # k => more[x] = scope[x]
  <2>1. more \in [DOMAIN scope \cup {k} -> V] /\ DOMAIN scope \cup {k} \in SUBSET Names
    BY <1>1 DEF Bind
  <2> QED
    BY <2>1 DEF Scopes, Bind
<1> HIDE DEF more
<1>3. Put(t, k, v) = [t EXCEPT ![Len(t)] = more]
  BY DEF Put, more
<1>4. /\ Put(t, k, v) \in Seq(Scopes(V)) /\ Len(Put(t, k, v)) = Len(t)
      /\ \A d \in 1 .. Len(t) : d # Len(t) => Put(t, k, v)[d] = t[d]
      /\ Put(t, k, v)[Len(t)] = more
  BY <1>1, <1>2, <1>3
<1>5. Put(t, k, v) # <<>>
  BY <1>1, <1>4
<1> QED
  BY <1>2, <1>4, <1>5 DEF Tables, Bound

-----------------------------------------------------------------------------
(***************************************************************************)
(* Lookups.                                                                *)
(***************************************************************************)

\* A name that is bound at some depth is bound innermost at some depth.
LEMMA SomeInnermost ==
  ASSUME NEW t, NEW n \in Nat, NEW x, NEW e \in 1 .. n, x \in DOMAIN t[e]
  PROVE  \E i \in 1 .. n : IsInnermost(t, n, x, i)
<1> DEFINE above == {a \in 0 .. n - 1 : x \in DOMAIN t[n - a]}
<1>1. above \subseteq Nat /\ above # {}
  <2>1. n - e \in 0 .. n - 1 /\ n - (n - e) = e
    OBVIOUS
  <2> QED
    BY <2>1
<1>2. PICK a \in above : \A b \in above : ~(<<b, a>> \in OpToRel(<, Nat))
  BY <1>1, WFMin, NatLessThanWellFounded
<1>3. a \in 0 .. n - 1 /\ x \in DOMAIN t[n - a] /\ \A b \in above : ~(b < a)
  BY <1>1, <1>2 DEF OpToRel
<1>4. ASSUME NEW j \in (n - a) + 1 .. n PROVE x \notin DOMAIN t[j]
  <2>1. n - j \in 0 .. n - 1 /\ n - j < a /\ n - (n - j) = j
    BY <1>3
  <2> QED
    BY <1>3, <2>1
<1>5. n - a \in 1 .. n
  BY <1>3
<1> QED
  BY <1>3, <1>4, <1>5 DEF IsInnermost

\* Get returns the innermost binding.
LEMMA GetIs ==
  ASSUME NEW V, NEW t \in Tables(V), NEW x, NEW i \in 1 .. Len(t),
         IsInnermost(t, Len(t), x, i)
  PROVE  IsBound(t, x) /\ Get(t, x) = t[i][x] /\ t[i][x] \in V /\ x \in DOMAIN t[i]
<1>1. Len(t) \in Nat /\ x \in DOMAIN t[i]
  BY ScopeOf DEF IsInnermost
<1>2. ASSUME NEW j \in 1 .. Len(t), IsInnermost(t, Len(t), x, j) PROVE j = i
  BY <1>1, <1>2 DEF IsInnermost
<1>3. i = CHOOSE j \in 1 .. Len(t) : IsInnermost(t, Len(t), x, j)
  BY <1>2
<1> QED
  BY <1>1, <1>3, ScopeOf DEF IsBound, Get

\* What is bound has a value.
LEMMA BoundHas ==
  ASSUME NEW V, NEW t \in Tables(V), NEW x, IsBound(t, x)
  PROVE  \E i \in 1 .. Len(t) :
           /\ IsInnermost(t, Len(t), x, i) /\ Get(t, x) = t[i][x] /\ t[i][x] \in V
           /\ x \in Names
<1>1. PICK e \in 1 .. Len(t) : x \in DOMAIN t[e]
  BY DEF IsBound
<1>2. Len(t) \in Nat /\ x \in Names
  BY <1>1, ScopeOf
<1>3. PICK i \in 1 .. Len(t) : IsInnermost(t, Len(t), x, i)
  BY <1>1, <1>2, SomeInnermost
<1> QED
  BY <1>2, <1>3, GetIs

\* What is bound in the innermost scope is what Get finds.
LEMMA TopHas ==
  ASSUME NEW V, NEW t \in Tables(V), NEW x, InTop(t, x)
  PROVE  IsInnermost(t, Len(t), x, Len(t)) /\ Get(t, x) = t[Len(t)][x]
         /\ IsBound(t, x) /\ t[Len(t)][x] \in V
<1>1. Len(t) \in Nat /\ Len(t) \in 1 .. Len(t)
  BY ScopeOf
<1>2. IsInnermost(t, Len(t), x, Len(t))
  BY <1>1 DEF IsInnermost, InTop
<1> QED
  BY <1>1, <1>2, GetIs

-----------------------------------------------------------------------------
(***************************************************************************)
(* The invariant.                                                          *)
(***************************************************************************)

\* Both passes type every expression alike (no character literals).
Plain == \A e \in Expressions : e[1] = e[2]

Node ==
  [kind : {"param", "assign", "update", "use"},
   name : Names, type : Types, gen : Types] \cup {BlockNode, EndNode}
Update == [depth : Nat \ {0}, name : Names, gen : Types]

TypeInv ==
  /\ phase \in {"check", "rejected", "generate", "undefined", "done"}
  /\ ast \in Seq(Node)
  /\ seen \in Seq(Tables(Types)) /\ Len(seen) = Len(ast) + 1
  /\ symbol_table = seen[Len(seen)]
  /\ pos \in 0 .. Len(ast)
  /\ register_table \in Tables(Registers)
  /\ param_offset \in Nat
  /\ allocated \in Nat
  /\ updates \in Seq(Update)

\* The checker has bound x, of type ty, in the innermost scope, or had.
HasTop(s, t, x, ty) ==
  \/ ~InTop(s, x) /\ Bound(s, t, x, ty)
  \/ InTop(s, x) /\ s[Len(s)][x] = ty /\ t = s

\* What the checker does to its table at a node it accepts.
SemStep(node, s, t) ==
  /\ node.kind = "param" =>
       Len(s) = 1 /\ ~InTop(s, node.name) /\ Bound(s, t, node.name, node.type)
  /\ node.kind = "block" => Pushed(s, t)
  /\ node.kind = "end" => Len(s) > 1 /\ Popped(s, t)
  /\ node.kind \in {"assign", "update"} =>
       /\ node.gen = node.type
       /\ HasTop(s, t, node.name, node.type)
  /\ node.kind = "use" =>
       /\ t = s
       /\ \E i \in 1 .. Len(s) : /\ IsInnermost(s, Len(s), node.name, i)
                                 /\ s[i][node.name] = node.type

\* The nodes are those a checker accepted, and the generator starts with the
\* first of them when it has accepted the last.
TapeInv ==
  /\ \A k \in 1 .. Len(ast) : SemStep(ast[k], seen[k], seen[k + 1])
  /\ \A k \in 1 .. Len(ast) - 1 : ast[k].kind = "update" => ast[k + 1].kind = "block"
  /\ phase \in {"check", "rejected"} => pos = 0 /\ updates = <<>> /\ emitted = Nothing
  /\ phase = "undefined" => pos > 0 /\ ast[pos].kind = "use"

\* The table the checker had before the node the generator is at.
Sem == seen[pos + 1]

\* Scope by scope, the generator binds a part of what the checker binds.
BindsLess(s, r) ==
  \A d \in 1 .. Len(r) : \A x \in DOMAIN r[d] :
    x \in DOMAIN s[d] /\ r[d][x].type = s[d][x]

\* What s shows of x when d scopes are open, r shows.
Agree(s, r, d, x) ==
  \A i \in 1 .. d : IsInnermost(s, d, x, i) =>
    \E j \in 1 .. d : IsInnermost(r, d, x, j) /\ r[j][x].type = s[i][x]

AwaitedAt(pending, d, x) ==
  \E u \in 1 .. Len(pending) : pending[u].name = x /\ pending[u].depth <= d

Agreement(s, r, pending) ==
  \A d \in 1 .. Len(r) : \A x \in Names : AwaitedAt(pending, d, x) \/ Agree(s, r, d, x)

\* FOR updates are pending from the outside in, each at the scope the checker
\* has bound its variable in,
Waiting(s, r, pending) ==
  \A u \in 1 .. Len(pending) :
    /\ pending[u].depth \in 1 .. Len(r)
    /\ pending[u].name \in DOMAIN s[pending[u].depth]
    /\ s[pending[u].depth][pending[u].name] = pending[u].gen
    /\ \A v \in 1 .. u - 1 : pending[v].depth < pending[u].depth

\* and one that waits at the innermost scope is about to be generated or its
\* body to be entered.
DueInv ==
  \A u \in 1 .. Len(updates) :
    updates[u].depth = Len(register_table) =>
      pos > 0 /\ ast[pos].kind \in {"update", "end"}

Match(s, r, pending) ==
  /\ Len(r) = Len(s)
  /\ BindsLess(s, r)
  /\ Agreement(s, r, pending)
  /\ Waiting(s, r, pending)

IInv ==
  /\ TypeInv /\ TapeInv /\ DueInv /\ Match(Sem, register_table, updates)
  /\ StoresFitTheirSlots /\ LoadsMatchAnnotations /\ CheckedVariablesAreFound

-----------------------------------------------------------------------------
(***************************************************************************)
(* What steps of the two passes do to a pair of tables that match.         *)
(***************************************************************************)

\* Whatever lies in the scopes above, agreement at a depth looks only at the
\* scopes that are open there, and in them only at one name.
LEMMA SameBelow ==
  ASSUME NEW s, NEW t, NEW r, NEW q, NEW d \in Nat, NEW x, Agree(s, r, d, x),
         \A i \in 1 .. d : /\ x \in DOMAIN t[i] <=> x \in DOMAIN s[i]
                           /\ x \in DOMAIN q[i] <=> x \in DOMAIN r[i]
                           /\ x \in DOMAIN t[i] => t[i][x] = s[i][x]
                           /\ x \in DOMAIN q[i] => q[i][x] = r[i][x]
  PROVE  Agree(t, q, d, x)
<1>1. ASSUME NEW i \in 1 .. d
      PROVE  /\ IsInnermost(t, d, x, i) <=> IsInnermost(s, d, x, i)
             /\ IsInnermost(q, d, x, i) <=> IsInnermost(r, d, x, i)
  <2>1. \A j \in (i + 1) .. d : j \in 1 .. d
    OBVIOUS
  <2> QED
    BY <2>1 DEF IsInnermost
<1> SUFFICES ASSUME NEW i \in 1 .. d, IsInnermost(t, d, x, i)
             PROVE  \E j \in 1 .. d : IsInnermost(q, d, x, j) /\ q[j][x].type = t[i][x]
  BY DEF Agree
<1>2. IsInnermost(s, d, x, i) /\ t[i][x] = s[i][x]
  BY <1>1 DEF IsInnermost
<1>3. PICK j \in 1 .. d : IsInnermost(r, d, x, j) /\ r[j][x].type = s[i][x]
  BY <1>2 DEF Agree
<1>4. IsInnermost(q, d, x, j) /\ q[j][x] = r[j][x]
  BY <1>1, <1>3 DEF IsInnermost
<1> QED
  BY <1>2, <1>3, <1>4

\* Both passes enter a block, or leave one for which no update waits.
LEMMA MatchPush ==
  ASSUME NEW s \in Tables(Types), NEW t \in Tables(Types),
         NEW r \in Tables(Registers), NEW q \in Tables(Registers),
         NEW pending, Match(s, r, pending), Pushed(s, t), Pushed(r, q)
  PROVE  Match(t, q, pending)
<1> DEFINE n == Len(r)
<1>1. /\ n \in Nat \ {0} /\ Len(s) = n /\ Len(t) = n + 1 /\ Len(q) = n + 1
      /\ \A d \in 1 .. n : t[d] = s[d] /\ q[d] = r[d]
      /\ DOMAIN t[n + 1] = {} /\ DOMAIN q[n + 1] = {}
  BY ScopeOf DEF Match, Pushed
<1> HIDE DEF n
<1>2. \A d \in 1 .. n + 1 : d \in 1 .. n \/ d = n + 1
  BY <1>1
<1>3. BindsLess(t, q)
  BY <1>1, <1>2 DEF Match, BindsLess, n
<1>4. ASSUME NEW d \in 1 .. n, NEW x, Agree(s, r, d, x) PROVE Agree(t, q, d, x)
  <2>1. d \in Nat /\ \A i \in 1 .. d : i \in 1 .. n
    BY <1>1
  <2>2. \A i \in 1 .. d : t[i] = s[i] /\ q[i] = r[i]
    BY <1>1, <2>1
  <2> QED
    BY <1>4, <2>1, <2>2, SameBelow
<1>5. ASSUME NEW x, Agree(s, r, n, x) PROVE Agree(t, q, n + 1, x)
  <2>1. n \in 1 .. n
    BY <1>1
  <2>2. Agree(t, q, n, x)
    BY <1>4, <1>5, <2>1
  <2>3. ASSUME NEW i \in 1 .. n + 1
        PROVE  /\ IsInnermost(t, n + 1, x, i) <=> i \in 1 .. n /\ IsInnermost(t, n, x, i)
               /\ IsInnermost(q, n + 1, x, i) <=> i \in 1 .. n /\ IsInnermost(q, n, x, i)
    <3>1. \A j : j \in (i + 1) .. (n + 1) <=> j \in (i + 1) .. n \/ (j = n + 1 /\ i # n + 1)
      BY <1>1
    <3> QED
      BY <1>1, <1>2, <3>1 DEF IsInnermost
  <2>4. \A i \in 1 .. n : i \in 1 .. n + 1
    BY <1>1
  <2> QED
    BY <2>2, <2>3, <2>4 DEF Agree
<1>6. Agreement(t, q, pending)
  <2> SUFFICES ASSUME NEW d \in 1 .. n + 1, NEW x \in Names
               PROVE  AwaitedAt(pending, d, x) \/ Agree(t, q, d, x)
    BY <1>1 DEF Agreement
  <2>1. CASE d \in 1 .. n
    BY <1>4, <2>1 DEF Match, Agreement, n
  <2>2. CASE d = n + 1
    <3>1. n \in 1 .. n
      BY <1>1
    <3>2. Agree(s, r, n, x) \/ AwaitedAt(pending, n, x)
      BY <3>1 DEF Match, Agreement, n
    <3>3. AwaitedAt(pending, n, x) => AwaitedAt(pending, n + 1, x)
      <4>1. \A u \in 1 .. Len(pending) : pending[u].depth \in 1 .. n
        BY DEF Match, Waiting, n
      <4> QED
        BY <1>1, <4>1 DEF AwaitedAt
    <3> QED
      BY <1>5, <2>2, <3>2, <3>3
  <2> QED
    BY <1>2, <2>1, <2>2
<1>7. Waiting(t, q, pending)
  <2>1. \A d \in 1 .. n : d \in 1 .. n + 1
    BY <1>1
  <2> QED
    BY <1>1, <2>1 DEF Match, Waiting, n
<1> QED
  BY <1>1, <1>3, <1>6, <1>7 DEF Match

LEMMA MatchPop ==
  ASSUME NEW s \in Tables(Types), NEW t \in Tables(Types),
         NEW r \in Tables(Registers), NEW q \in Tables(Registers),
         NEW pending, Match(s, r, pending), Popped(s, t), Popped(r, q),
         \A u \in 1 .. Len(pending) : pending[u].depth # Len(r)
  PROVE  Match(t, q, pending)
<1> DEFINE n == Len(q)
<1>1. /\ n \in Nat \ {0} /\ Len(t) = n /\ Len(s) = n + 1 /\ Len(r) = n + 1
      /\ \A d \in 1 .. n : t[d] = s[d] /\ q[d] = r[d]
  BY ScopeOf DEF Match, Popped
<1> HIDE DEF n
<1>2. \A d \in 1 .. n : d \in 1 .. n + 1
  BY <1>1
<1>3. BindsLess(t, q)
  BY <1>1, <1>2 DEF Match, BindsLess, n
<1>4. ASSUME NEW d \in 1 .. n, NEW x, Agree(s, r, d, x) PROVE Agree(t, q, d, x)
  <2>1. d \in Nat /\ \A i \in 1 .. d : i \in 1 .. n
    BY <1>1
  <2>2. \A i \in 1 .. d : t[i] = s[i] /\ q[i] = r[i]
    BY <1>1, <2>1
  <2> QED
    BY <1>4, <2>1, <2>2, SameBelow
<1>5. Agreement(t, q, pending)
  BY <1>1, <1>2, <1>4 DEF Match, Agreement, n
<1>6. Waiting(t, q, pending)
  <2>1. \A u \in 1 .. Len(pending) : pending[u].depth \in 1 .. n
    BY <1>1 DEF Match, Waiting
  <2> QED
    BY <1>1, <2>1 DEF Match, Waiting, n
<1> QED
  BY <1>1, <1>3, <1>5, <1>6 DEF Match, n

\* The generator has x in the innermost scope, or shows it with the type ty.
Assigned(r, q, x, ty) ==
  \/ q = r /\ \E j \in 1 .. Len(r) : IsInnermost(r, Len(r), x, j) /\ r[j][x].type = ty
  \/ ~InTop(r, x) /\ \E reg \in Registers : reg.type = ty /\ Bound(r, q, x, reg)

\* An assignment, or the declaration of a parameter: x need not have matched.
LEMMA MatchAssign ==
  ASSUME NEW s \in Tables(Types), NEW t \in Tables(Types),
         NEW r \in Tables(Registers), NEW q \in Tables(Registers),
         NEW pending, NEW x \in Names, NEW ty \in Types,
         Len(r) = Len(s), BindsLess(s, r), Waiting(s, r, pending),
         \A d \in 1 .. Len(r) : \A y \in Names :
           AwaitedAt(pending, d, y) \/ Agree(s, r, d, y) \/ (d = Len(r) /\ y = x),
         HasTop(s, t, x, ty), Assigned(r, q, x, ty)
  PROVE  Match(t, q, pending)
<1> DEFINE n == Len(r)
<1>1. /\ n \in Nat \ {0} /\ n \in 1 .. n /\ Len(s) = n /\ Len(t) = n /\ Len(q) = n
      /\ \A d \in 1 .. n : d # n => t[d] = s[d] /\ q[d] = r[d]
  BY ScopeOf DEF HasTop, Assigned, Bound
<1>2. /\ DOMAIN t[n] = DOMAIN s[n] \cup {x} /\ t[n][x] = ty
      /\ \A y \in DOMAIN s[n] : t[n][y] = s[n][y]
  BY <1>1 DEF HasTop, Bound, InTop
<1>3. /\ DOMAIN r[n] \subseteq DOMAIN q[n] /\ DOMAIN q[n] \subseteq DOMAIN r[n] \cup {x}
      /\ \A y \in DOMAIN r[n] : q[n][y] = r[n][y]
      /\ x \in DOMAIN q[n] => q[n][x].type = ty
  <2>1. CASE q = r /\ \E j \in 1 .. n : IsInnermost(r, n, x, j) /\ r[j][x].type = ty
    <3>1. PICK j \in 1 .. n : IsInnermost(r, n, x, j) /\ r[j][x].type = ty
      BY <2>1
    <3>2. x \in DOMAIN r[n] => j = n
      BY <1>1, <3>1 DEF IsInnermost
    <3> QED
      BY <2>1, <3>1, <3>2
  <2>2. CASE ~InTop(r, x) /\ \E reg \in Registers : reg.type = ty /\ Bound(r, q, x, reg)
    BY <2>2 DEF Bound, InTop
  <2> QED
    BY <2>1, <2>2 DEF Assigned
<1>4. \E j \in 1 .. n : IsInnermost(q, n, x, j) /\ q[j][x].type = ty
  <2>1. CASE ~InTop(r, x) /\ \E reg \in Registers : reg.type = ty /\ Bound(r, q, x, reg)
    <3>1. x \in DOMAIN q[n] /\ q[n][x].type = ty
      BY <2>1 DEF Bound
    <3> QED
      BY <1>1, <3>1 DEF IsInnermost
  <2> QED
    BY <2>1 DEF Assigned
<1> HIDE DEF n
<1>5. BindsLess(t, q)
  <2> SUFFICES ASSUME NEW d \in 1 .. n, NEW y \in DOMAIN q[d]
               PROVE  y \in DOMAIN t[d] /\ q[d][y].type = t[d][y]
    BY <1>1 DEF BindsLess
  <2>1. \A z \in DOMAIN r[d] : z \in DOMAIN s[d] /\ r[d][z].type = s[d][z]
    BY DEF BindsLess, n
  <2> QED
    BY <1>1, <1>2, <1>3, <2>1
<1>6. Agree(t, q, n, x)
  <2> SUFFICES ASSUME NEW i \in 1 .. n, IsInnermost(t, n, x, i) PROVE t[i][x] = ty
    BY <1>4 DEF Agree
  <2>1. i = n
    BY <1>1, <1>2 DEF IsInnermost
  <2> QED
    BY <1>2, <2>1
<1>7. ASSUME NEW d \in 1 .. n, NEW y \in Names, d # n \/ y # x, Agree(s, r, d, y)
      PROVE  Agree(t, q, d, y)
  <2>1. d \in Nat /\ \A i \in 1 .. d : i \in 1 .. n /\ (d # n => i # n)
    BY <1>1
  <2>2. ASSUME NEW i \in 1 .. d
        PROVE  /\ y \in DOMAIN t[i] <=> y \in DOMAIN s[i]
               /\ y \in DOMAIN q[i] <=> y \in DOMAIN r[i]
               /\ y \in DOMAIN t[i] => t[i][y] = s[i][y]
               /\ y \in DOMAIN q[i] => q[i][y] = r[i][y]
    BY <1>1, <1>2, <1>3, <1>7, <2>1
  <2> QED
    BY <1>7, <2>1, <2>2, SameBelow
<1>8. Agreement(t, q, pending)
  BY <1>1, <1>6, <1>7 DEF Agreement, n
<1>9. Waiting(t, q, pending)
  BY <1>1, <1>2 DEF Waiting, n
<1> QED
  BY <1>1, <1>5, <1>8, <1>9 DEF Match

\* The checker goes on to a FOR's body: the variable of its update waits.
LEMMA MatchAwait ==
  ASSUME NEW s \in Tables(Types), NEW t \in Tables(Types),
         NEW r \in Tables(Registers),
         NEW pending \in Seq(Update), NEW x \in Names, NEW ty \in Types,
         Match(s, r, pending), HasTop(s, t, x, ty),
         \A u \in 1 .. Len(pending) : pending[u].depth # Len(r)
  PROVE  Match(t, r, Append(pending, [depth |-> Len(r), name |-> x, gen |-> ty]))
<1> DEFINE n == Len(r)
           m == Len(pending)
           more == Append(pending, [depth |-> n, name |-> x, gen |-> ty])
<1>1. /\ n \in Nat \ {0} /\ n \in 1 .. n /\ Len(s) = n /\ Len(t) = n /\ m \in Nat
      /\ \A d \in 1 .. n : d # n => t[d] = s[d]
  BY ScopeOf DEF HasTop, Bound, Match
<1>2. /\ DOMAIN t[n] = DOMAIN s[n] \cup {x} /\ t[n][x] = ty
      /\ \A y \in DOMAIN s[n] : t[n][y] = s[n][y]
  BY <1>1 DEF HasTop, Bound, InTop
<1>3. /\ Len(more) = m + 1 /\ \A u \in 1 .. m : more[u] = pending[u]
      /\ more[m + 1].depth = n /\ more[m + 1].name = x /\ more[m + 1].gen = ty
  OBVIOUS
<1> HIDE DEF n, m, more
<1>4. \A u \in 1 .. m + 1 : u \in 1 .. m \/ u = m + 1
  BY <1>1
<1>5. BindsLess(t, r)
  <2>1. \A d \in 1 .. n : \A y \in DOMAIN r[d] : y \in DOMAIN s[d] /\ r[d][y].type = s[d][y]
    BY DEF Match, BindsLess, n
  <2>2. \A d \in 1 .. n : \A y \in DOMAIN s[d] : y \in DOMAIN t[d] /\ t[d][y] = s[d][y]
    BY <1>1, <1>2
  <2> QED
    BY <2>1, <2>2 DEF BindsLess, n
<1>6. ASSUME NEW d \in 1 .. n, NEW y \in Names, d # n \/ y # x, Agree(s, r, d, y)
      PROVE  Agree(t, r, d, y)
  <2>1. d \in Nat /\ \A i \in 1 .. d : i \in 1 .. n /\ (d # n => i # n)
    BY <1>1
  <2>2. ASSUME NEW i \in 1 .. d
        PROVE  /\ y \in DOMAIN t[i] <=> y \in DOMAIN s[i]
               /\ y \in DOMAIN t[i] => t[i][y] = s[i][y]
    BY <1>1, <1>2, <1>6, <2>1
  <2> QED
    BY <1>6, <2>1, <2>2, SameBelow
<1>7. Agreement(t, r, more)
  <2> SUFFICES ASSUME NEW d \in 1 .. n, NEW y \in Names
               PROVE  AwaitedAt(more, d, y) \/ Agree(t, r, d, y)
    BY DEF Agreement, n
  <2>1. AwaitedAt(pending, d, y) \/ Agree(s, r, d, y)
    BY DEF Match, Agreement, n
  <2>2. \A u \in 1 .. m : u \in 1 .. m + 1
    BY <1>1
  <2>3. AwaitedAt(pending, d, y) => AwaitedAt(more, d, y)
    BY <1>3, <2>2 DEF AwaitedAt, m
  <2>4. d = n /\ y = x => AwaitedAt(more, d, y)
    <3>1. m + 1 \in 1 .. m + 1 /\ n <= n
      BY <1>1
    <3> QED
      BY <1>3, <3>1 DEF AwaitedAt
  <2> QED
    BY <1>6, <2>1, <2>3, <2>4
<1>8. Waiting(t, r, more)
  <2>1. \A u \in 1 .. m :
          /\ pending[u].depth \in 1 .. n /\ pending[u].depth < n
          /\ pending[u].name \in DOMAIN s[pending[u].depth]
          /\ s[pending[u].depth][pending[u].name] = pending[u].gen
          /\ \A v \in 1 .. u - 1 : pending[v].depth < pending[u].depth
    BY <1>1 DEF Match, Waiting, n, m
  <2>2. \A u \in 1 .. m : \A v \in 1 .. u - 1 : v \in 1 .. m
    BY <1>1
  <2>3. \A u \in 1 .. m + 1 :
          /\ more[u].depth \in 1 .. n
          /\ more[u].name \in DOMAIN t[more[u].depth]
          /\ t[more[u].depth][more[u].name] = more[u].gen
    <3>1. \A u \in 1 .. m :
            /\ more[u].depth \in 1 .. n
            /\ more[u].name \in DOMAIN t[more[u].depth]
            /\ t[more[u].depth][more[u].name] = more[u].gen
      <4> SUFFICES ASSUME NEW u \in 1 .. m
                   PROVE  /\ more[u].depth \in 1 .. n
                          /\ more[u].name \in DOMAIN t[more[u].depth]
                          /\ t[more[u].depth][more[u].name] = more[u].gen
        OBVIOUS
      <4>1. more[u] = pending[u] /\ pending[u].depth \in 1 .. n /\ pending[u].depth # n
        BY <1>1, <1>3, <2>1
      <4>2. t[pending[u].depth] = s[pending[u].depth]
        BY <1>1, <4>1
      <4> QED
        BY <2>1, <4>1, <4>2
    <3> QED
      BY <1>1, <1>2, <1>3, <1>4, <3>1
  <2>4. \A u \in 1 .. m + 1 : \A v \in 1 .. u - 1 : more[v].depth < more[u].depth
    <3>1. \A v \in 1 .. m + 1 - 1 : v \in 1 .. m
      BY <1>1
    <3> QED
      BY <1>3, <1>4, <2>1, <2>2, <3>1
  <2> QED
    BY <1>3, <2>3, <2>4 DEF Waiting, n
<1> QED
  BY <1>1, <1>5, <1>7, <1>8 DEF Match, n, more

-----------------------------------------------------------------------------
(***************************************************************************)
(* The type checker's steps.                                               *)
(***************************************************************************)

\* A node is accepted.
Accepts ==
  \E node \in Node, t \in Tables(Types) :
    /\ phase = "check" /\ phase' \in {"check", "generate"}
    /\ LastKind = "update" => node.kind = "block"
    /\ SemStep(node, symbol_table, t)
    /\ Accept(node, t)

\* What a checked name has is what Get finds.
LEMMA CheckAccepts ==
  ASSUME IInv, Plain, Check
  PROVE  Accepts \/ Reject
<1> DEFINE s == symbol_table
<1>1. s \in Tables(Types)
  <2>1. seen \in Seq(Tables(Types)) /\ Len(seen) = Len(ast) + 1 /\ s = seen[Len(seen)]
        /\ ast \in Seq(Node)
    BY DEF IInv, TypeInv
  <2>2. Len(seen) \in 1 .. Len(seen)
    BY <2>1
  <2> QED
    BY <2>1, <2>2
<1> HIDE DEF s
<1>2. ASSUME NEW n \in Names, NEW ty \in Types, CheckParam(n, ty) PROVE Accepts \/ Reject
  <2> DEFINE node == ParamNode(n, ty)
             t == Put(s, n, ty)
  <2>1. node \in Node /\ node.kind = "param" /\ node.name = n /\ node.type = ty
    BY DEF ParamNode, Node
  <2>2. t \in Tables(Types) /\ Bound(s, t, n, ty)
    BY <1>1, PutIs
  <2>3. CASE InTop(s, n)
    BY <1>2, <2>3 DEF CheckParam, s
  <2>4. CASE ~InTop(s, n)
    <3>1. Accept(node, t) /\ phase = "check" /\ phase' = phase /\ LastKind # "update"
          /\ ~InBody
      BY <1>2, <2>4 DEF CheckParam, MayWalk, s
    <3>2. Len(s) = 1
      <4>1. Len(s) \in Nat \ {0}
        BY <1>1, ScopeOf
      <4> QED
        BY <3>1, <4>1 DEF InBody, s
    <3>3. SemStep(node, s, t)
      BY <2>1, <2>2, <2>4, <3>2 DEF SemStep
    <3> HIDE DEF node, t
    <3> QED
      BY <2>1, <2>2, <3>1, <3>3 DEF Accepts, s
  <2> QED
    BY <2>3, <2>4
<1>3. CASE CheckBlock
  <2>1. BlockNode \in Node /\ BlockNode.kind = "block"
    BY DEF BlockNode, Node
  <2>2. Push(s) \in Tables(Types) /\ Pushed(s, Push(s))
    BY <1>1, PushIs
  <2>3. SemStep(BlockNode, s, Push(s))
    BY <2>1, <2>2 DEF SemStep
  <2>4. Accept(BlockNode, Push(s)) /\ phase = "check" /\ phase' = phase
    BY <1>3 DEF CheckBlock, s
  <2> QED
    BY <2>1, <2>2, <2>3, <2>4 DEF Accepts, s
<1>4. CASE CheckEnd
  <2>1. EndNode \in Node /\ EndNode.kind = "end"
    BY DEF EndNode, Node
  <2>2. Len(s) > 1 /\ Accept(EndNode, Pop(s)) /\ phase = "check" /\ LastKind # "update"
        /\ phase' \in {"check", "generate"}
    BY <1>4 DEF CheckEnd, MayWalk, InBody, s
  <2>3. Pop(s) \in Tables(Types) /\ Popped(s, Pop(s))
    BY <1>1, <2>2, PopIs
  <2>4. SemStep(EndNode, s, Pop(s))
    BY <2>1, <2>2, <2>3 DEF SemStep
  <2> QED
    BY <2>1, <2>2, <2>3, <2>4 DEF Accepts, s
<1>5. ASSUME NEW n \in Names, NEW e \in Expressions, NEW kind \in {"assign", "update"},
             CheckAssign(kind, n, e)
      PROVE  Accepts \/ Reject
  <2> DEFINE node == AssignNode(kind, n, e)
  <2>1. e[1] \in Types /\ e[2] = e[1]
    BY TypesAssumption DEF Plain
  <2>2. /\ node \in Node /\ node.kind = kind /\ node.name = n /\ node.type = e[1]
        /\ node.gen = e[1]
    BY <2>1 DEF AssignNode, Node
  <2>3. phase = "check" /\ LastKind # "update"
    BY <1>5 DEF CheckAssign, MayWalk
  <2> HIDE DEF node
  <2>4. CASE ~InTop(s, n) /\ Accept(node, Put(s, n, e[1])) /\ phase' = phase
    <3>1. Put(s, n, e[1]) \in Tables(Types) /\ Bound(s, Put(s, n, e[1]), n, e[1])
      BY <1>1, <2>1, PutIs
    <3>2. SemStep(node, s, Put(s, n, e[1]))
      BY <2>2, <2>4, <3>1 DEF SemStep, HasTop
    <3> QED
      BY <2>2, <2>3, <2>4, <3>1, <3>2 DEF Accepts, s
  <2>5. CASE InTop(s, n) /\ HasType(n, e[1]) /\ Accept(node, s) /\ phase' = phase
    <3>1. s[Len(s)][n] = e[1]
      BY <1>1, <2>5, TopHas DEF HasType, s
    <3>2. SemStep(node, s, s)
      BY <2>2, <2>5, <3>1 DEF SemStep, HasTop
    <3> QED
      BY <1>1, <2>2, <2>3, <2>5, <3>2 DEF Accepts, s
  <2> QED
    BY <1>5, <2>4, <2>5 DEF CheckAssign, s, node
<1>6. ASSUME NEW n \in Names, CheckUse(n) PROVE Accepts \/ Reject
  <2>1. phase = "check" /\ LastKind # "update"
    BY <1>6 DEF CheckUse, MayWalk
  <2>2. CASE ~IsBound(s, n)
    BY <1>6, <2>2 DEF CheckUse, s
  <2>3. CASE IsBound(s, n)
    <3> DEFINE node == UseNode(n, Get(s, n))
    <3>1. PICK i \in 1 .. Len(s) : IsInnermost(s, Len(s), n, i) /\ Get(s, n) = s[i][n]
                                   /\ s[i][n] \in Types
      BY <1>1, <2>3, BoundHas
    <3>2. node \in Node /\ node.kind = "use" /\ node.name = n /\ node.type = s[i][n]
      BY <3>1 DEF UseNode, Node
    <3>3. Accept(node, s) /\ phase' = phase
      BY <1>6, <2>3 DEF CheckUse, s
    <3> HIDE DEF node
    <3>4. SemStep(node, s, s)
      BY <3>1, <3>2 DEF SemStep
    <3> QED
      BY <1>1, <2>1, <3>2, <3>3, <3>4 DEF Accepts, s
  <2> QED
    BY <2>2, <2>3
<1> QED
  BY <1>2, <1>3, <1>4, <1>5, <1>6 DEF Check

\* The checker leaves what the generator will walk.
LEMMA CheckStep ==
  ASSUME IInv, Plain, Check
  PROVE  IInv'
<1>1. /\ ast \in Seq(Node) /\ seen \in Seq(Tables(Types)) /\ Len(seen) = Len(ast) + 1
      /\ symbol_table = seen[Len(seen)] /\ pos \in 0 .. Len(ast)
  BY DEF IInv, TypeInv
<1>2. CASE Reject
  <2>1. phase' = "rejected" /\ UNCHANGED <<ast, symbol_table, seen, gen_vars>>
    BY <1>2 DEF Reject, sem_vars
  <2>2. phase = "check"
    BY DEF Check, CheckParam, CheckBlock, CheckEnd, CheckAssign, CheckUse, MayWalk
  <2>3. TypeInv' /\ TapeInv'
    BY <2>1, <2>2 DEF IInv, TypeInv, TapeInv, gen_vars
  <2>4. DueInv' /\ Match(Sem, register_table, updates)'
    BY <2>1 DEF IInv, DueInv, Sem, gen_vars
  <2>5. (StoresFitTheirSlots /\ LoadsMatchAnnotations /\ CheckedVariablesAreFound)'
    BY <2>1 DEF IInv, gen_vars, StoresFitTheirSlots, LoadsMatchAnnotations, Awaited,
                CheckedVariablesAreFound
  <2> QED
    BY <2>3, <2>4, <2>5 DEF IInv
<1>3. CASE Accepts
  <2>1. PICK node \in Node, t \in Tables(Types) :
          /\ phase = "check" /\ phase' \in {"check", "generate"}
          /\ LastKind = "update" => node.kind = "block"
          /\ SemStep(node, symbol_table, t)
          /\ Accept(node, t)
    BY <1>3 DEF Accepts
  <2> DEFINE n == Len(ast)
  <2>2. /\ symbol_table' = t /\ ast' = Append(ast, node) /\ seen' = Append(seen, t)
        /\ UNCHANGED gen_vars
    BY <2>1 DEF Accept
  <2>3. /\ n \in Nat /\ ast' \in Seq(Node) /\ seen' \in Seq(Tables(Types))
        /\ Len(ast') = n + 1 /\ Len(seen') = n + 2 /\ Len(seen) = n + 1
        /\ \A k \in 1 .. n : ast'[k] = ast[k] /\ ast'[n + 1] = node
        /\ \A k \in 1 .. n + 1 : seen'[k] = seen[k]
        /\ seen'[n + 2] = t /\ ast'[n + 1] = node
    BY <1>1, <2>2
  <2> HIDE DEF n
  <2>4. pos = 0 /\ updates = <<>> /\ emitted = Nothing
    BY <2>1 DEF IInv, TapeInv
  <2>5. TypeInv'
    <3>1. pos \in 0 .. Len(ast') /\ symbol_table' = seen'[Len(seen')]
      BY <2>2, <2>3, <2>4
    <3> QED
      BY <2>1, <2>2, <2>3, <3>1 DEF IInv, TypeInv, gen_vars
  <2>6. TapeInv'
    <3>1. \A k \in 1 .. n : SemStep(ast[k], seen[k], seen[k + 1])
      BY DEF IInv, TapeInv, n
    <3>2. SemStep(ast'[n + 1], seen'[n + 1], seen'[n + 1 + 1])
      <4>1. seen'[n + 1] = symbol_table /\ n + 1 + 1 = n + 2
        BY <1>1, <2>3
      <4> QED
        BY <2>1, <2>3, <4>1
    <3>3. \A k \in 1 .. Len(ast') : SemStep(ast'[k], seen'[k], seen'[k + 1])
      <4>1. \A k \in 1 .. n + 1 : k = n + 1 \/ (k \in 1 .. n /\ k \in 1 .. n + 1 /\ k + 1 \in 1 .. n + 1)
        BY <2>3
      <4> QED
        BY <2>3, <3>1, <3>2, <4>1
    <3>4. \A k \in 1 .. n - 1 : ast[k].kind = "update" => ast[k + 1].kind = "block"
      BY DEF IInv, TapeInv, n
    <3>5. \A k \in 1 .. Len(ast') - 1 : ast'[k].kind = "update" => ast'[k + 1].kind = "block"
      <4>1. \A k \in 1 .. n + 1 - 1 : k \in 1 .. n /\ (k = n \/ (k \in 1 .. n - 1 /\ k + 1 \in 1 .. n))
        BY <2>3
      <4>2. n > 0 /\ ast[n].kind = "update" => node.kind = "block"
        BY <1>1, <2>1 DEF LastKind, n
      <4> QED
        BY <2>3, <3>4, <4>1, <4>2
    <3>6. (phase \in {"check", "rejected"} =>
             pos = 0 /\ updates = <<>> /\ emitted = Nothing)'
          /\ phase' # "undefined"
      BY <2>1, <2>2, <2>4 DEF gen_vars
    <3> QED
      BY <3>3, <3>5, <3>6 DEF TapeInv
  <2>7. Match(Sem, register_table, updates)'
    <3>1. seen'[pos' + 1] = seen[pos + 1] /\ register_table' = register_table
          /\ updates' = updates
      BY <2>2, <2>3, <2>4 DEF gen_vars
    <3> QED
      BY <3>1 DEF IInv, Sem
  <2>8. DueInv'
    BY <2>2, <2>4 DEF DueInv, gen_vars
  <2>9. (StoresFitTheirSlots /\ LoadsMatchAnnotations /\ CheckedVariablesAreFound)'
    BY <2>1, <2>2, <2>4 DEF gen_vars, StoresFitTheirSlots, LoadsMatchAnnotations, Nothing,
                CheckedVariablesAreFound
  <2> QED
    BY <2>5, <2>6, <2>7, <2>8, <2>9 DEF IInv
<1> QED
  BY <1>2, <1>3, CheckAccepts

-----------------------------------------------------------------------------
(***************************************************************************)
(* The code generator's steps.                                             *)
(***************************************************************************)

\* Only blocks and their ends have no name and type.
LEMMA Named ==
  ASSUME NEW node \in Node, node.kind \in {"param", "assign", "update", "use"}
  PROVE  node.name \in Names /\ node.type \in Types /\ node.gen \in Types
BY DEF Node, BlockNode, EndNode

\* The node the generator walks, what the checker did there, and that no
\* update waits at the innermost scope, except when the FOR's body begins.
LEMMA WalkingIs ==
  ASSUME IInv, NEW kind, Walking(kind)
  PROVE  /\ phase = "generate" /\ pos \in Nat /\ pos' = pos + 1 /\ pos + 1 \in 1 .. Len(ast)
         /\ ast[pos + 1] \in Node /\ ast[pos + 1].kind = kind
         /\ UNCHANGED <<ast, symbol_table, seen>>
         /\ Sem \in Tables(Types) /\ Sem' \in Tables(Types)
         /\ SemStep(ast[pos + 1], Sem, Sem')
         /\ kind # "block" =>
              \A u \in 1 .. Len(updates) : updates[u].depth # Len(register_table)
<1>1. /\ phase = "generate" /\ pos < Len(ast) /\ ~UpdateDue /\ ast[pos + 1].kind = kind
      /\ pos' = pos + 1 /\ UNCHANGED <<ast, symbol_table, seen>>
  BY DEF Walking, sem_vars
<1>2. /\ ast \in Seq(Node) /\ seen \in Seq(Tables(Types)) /\ Len(seen) = Len(ast) + 1
      /\ pos \in 0 .. Len(ast)
  BY DEF IInv, TypeInv
<1>3. /\ pos \in Nat /\ pos + 1 \in 1 .. Len(ast) /\ ast[pos + 1] \in Node
      /\ pos + 1 \in 1 .. Len(seen) /\ pos + 1 + 1 \in 1 .. Len(seen)
  BY <1>1, <1>2
<1>4. Sem \in Tables(Types) /\ Sem' \in Tables(Types) /\ Sem' = seen[pos + 1 + 1]
  BY <1>1, <1>2, <1>3 DEF Sem
<1>5. SemStep(ast[pos + 1], Sem, Sem')
  BY <1>3, <1>4 DEF IInv, TapeInv, Sem
<1>6. ASSUME kind # "block", NEW u \in 1 .. Len(updates),
             updates[u].depth = Len(register_table)
      PROVE  FALSE
  <2>1. pos > 0 /\ ast[pos].kind \in {"update", "end"}
    BY <1>6 DEF IInv, DueInv
  <2>2. ast[pos].kind # "update"
    <3>1. pos \in 1 .. Len(ast) - 1
      BY <1>1, <1>2, <2>1
    <3> QED
      BY <1>1, <1>6, <3>1 DEF IInv, TapeInv
  <2>3. updates \in Seq(Update) /\ Len(updates) \in Nat
    BY DEF IInv, TypeInv
  <2>4. updates # <<>> /\ Len(updates) \in 1 .. Len(updates)
    BY <1>6, <2>3
  <2>5. updates[Len(updates)].depth = Len(register_table)
    <3>1. CASE u = Len(updates)
      BY <1>6, <3>1
    <3>2. CASE u # Len(updates)
      <4>1. u \in 1 .. Len(updates) - 1
        BY <1>6, <2>3, <3>2
      <4>2. updates[u].depth < updates[Len(updates)].depth
            /\ updates[Len(updates)].depth \in 1 .. Len(register_table)
        BY <2>4, <4>1 DEF IInv, Match, Waiting
      <4>3. Len(register_table) \in Nat
        BY ScopeOf DEF IInv, TypeInv
      <4> QED
        BY <1>6, <4>2, <4>3
    <3> QED
      BY <3>1, <3>2
  <2> QED
    BY <1>1, <2>1, <2>2, <2>4, <2>5 DEF UpdateDue
<1> QED
  BY <1>1, <1>3, <1>4, <1>5, <1>6

\* What is left to show of a step that walks a node.
LEMMA WalkingStep ==
  ASSUME IInv, NEW kind, Walking(kind),
         phase' = phase \/ (phase' = "undefined" /\ kind = "use"),
         register_table' \in Tables(Registers), param_offset' \in Nat, allocated' \in Nat,
         updates' \in Seq(Update), Match(Sem', register_table', updates'), DueInv',
         StoresFitTheirSlots', LoadsMatchAnnotations', CheckedVariablesAreFound'
  PROVE  IInv'
<1>1. /\ phase = "generate" /\ pos \in Nat /\ pos' = pos + 1 /\ pos + 1 \in 1 .. Len(ast)
      /\ ast[pos + 1].kind = kind /\ UNCHANGED <<ast, symbol_table, seen>>
  BY WalkingIs
<1>2. TypeInv'
  <2>1. pos + 1 \in 0 .. Len(ast)
    BY <1>1
  <2> QED
    BY <1>1, <2>1 DEF IInv, TypeInv
<1>3. TapeInv'
  <2>1. (\A k \in 1 .. Len(ast) : SemStep(ast[k], seen[k], seen[k + 1]))'
        /\ (\A k \in 1 .. Len(ast) - 1 : ast[k].kind = "update" => ast[k + 1].kind = "block")'
    BY <1>1 DEF IInv, TapeInv
  <2>2. (phase = "undefined" => pos > 0 /\ ast[pos].kind = "use")'
    BY <1>1
  <2> QED
    BY <1>1, <2>1, <2>2 DEF TapeInv
<1> QED
  BY <1>2, <1>3 DEF IInv

\* WalkAssign, when a name that is bound in the innermost scope has the type.
LEMMA AssignIs ==
  ASSUME register_table \in Tables(Registers), allocated \in Nat,
         NEW x \in Names, NEW ty \in Types,
         InTop(register_table, x) =>
           register_table[Len(register_table)][x].type = ty,
         Assign(x, ty)
  PROVE  /\ register_table' \in Tables(Registers) /\ allocated' \in Nat
         /\ Assigned(register_table, register_table', x, ty)
         /\ emitted'.op = "store" /\ StoresFitTheirSlots'
         /\ \/ register_table' = register_table /\ allocated' = allocated
            \/ /\ ~InTop(register_table, x) /\ allocated' = allocated + 1
               /\ Bound(register_table, register_table', x, Register(ty, allocated + 1, 0))
<1> DEFINE r == register_table
           reg == Register(ty, allocated + 1, 0)
<1>1. CASE Reuses(x, ty)
  <2>1. register_table' = r /\ allocated' = allocated
        /\ emitted' = StoreOf(x, ty, Get(r, x).base)
    BY <1>1 DEF Assign
  <2>2. IsBound(r, x) /\ Get(r, x).type = ty
    BY <1>1, TopHas DEF Reuses
  <2>3. \E j \in 1 .. Len(r) : IsInnermost(r, Len(r), x, j) /\ r[j][x].type = ty
    BY <2>2, BoundHas
  <2>4. emitted'.op = "store" /\ emitted'.name = x /\ emitted'.type = ty
    BY <2>1 DEF StoreOf
  <2> QED
    BY <2>1, <2>2, <2>3, <2>4 DEF Assigned, StoresFitTheirSlots
<1>2. CASE ~Reuses(x, ty)
  <2>1. register_table' = Put(r, x, reg) /\ allocated' = allocated + 1
        /\ emitted' = StoreOf(x, ty, allocated + 1)
    BY <1>2 DEF Assign
  <2>2. ~InTop(r, x)
    BY <1>2 DEF Reuses
  <2>3. reg \in Registers /\ reg.type = ty
    BY DEF Register, Registers
  <2> HIDE DEF reg
  <2>4. register_table' \in Tables(Registers) /\ Bound(r, register_table', x, reg)
    BY <2>1, <2>3, PutIs
  <2>5. InTop(register_table', x)
        /\ register_table'[Len(register_table')][x] = reg
    BY <2>4 DEF Bound, InTop
  <2>6. IsBound(register_table', x) /\ Get(register_table', x) = reg
    BY <2>4, <2>5, TopHas
  <2>7. emitted'.op = "store" /\ emitted'.name = x /\ emitted'.type = ty
    BY <2>1 DEF StoreOf
  <2>8. StoresFitTheirSlots'
    BY <2>3, <2>6, <2>7 DEF StoresFitTheirSlots
  <2>9. Assigned(r, register_table', x, ty)
    BY <2>2, <2>3, <2>4 DEF Assigned
  <2> QED
    BY <2>1, <2>2, <2>4, <2>7, <2>8, <2>9 DEF reg
<1> QED
  BY <1>1, <1>2

\* One lemma for each action: blocks and their ends,
LEMMA GenBlockStep == IInv /\ GenBlock => IInv'
<1> SUFFICES ASSUME IInv, GenBlock PROVE IInv'
  OBVIOUS
<1> DEFINE r == register_table
           q == Push(r)
<1>1. /\ Walking("block") /\ register_table' = q /\ emitted' = Nothing
      /\ UNCHANGED <<phase, param_offset, allocated, updates>>
  BY DEF GenBlock
<1>2. /\ phase = "generate" /\ Sem \in Tables(Types) /\ Sem' \in Tables(Types)
      /\ SemStep(ast[pos + 1], Sem, Sem') /\ ast[pos + 1].kind = "block"
  BY <1>1, WalkingIs
<1>3. /\ r \in Tables(Registers) /\ Match(Sem, r, updates) /\ param_offset \in Nat
      /\ allocated \in Nat /\ updates \in Seq(Update)
  BY DEF IInv, TypeInv
<1>4. q \in Tables(Registers) /\ Pushed(r, q)
  BY <1>3, PushIs
<1> HIDE DEF q
<1>5. Match(Sem', q, updates)
  BY <1>2, <1>3, <1>4, MatchPush DEF SemStep
<1>6. DueInv'
  <2>1. Len(r) \in Nat /\ Len(q) = Len(r) + 1
    BY <1>3, <1>4, ScopeOf DEF Pushed
  <2>2. \A u \in 1 .. Len(updates) : updates[u].depth \in 1 .. Len(r)
    BY <1>3 DEF Match, Waiting
  <2> QED
    BY <1>1, <2>1, <2>2 DEF DueInv
<1>7. StoresFitTheirSlots' /\ LoadsMatchAnnotations' /\ CheckedVariablesAreFound'
  BY <1>1, <1>2 DEF Nothing, StoresFitTheirSlots, LoadsMatchAnnotations,
                    CheckedVariablesAreFound
<1> QED
  BY <1>1, <1>3, <1>4, <1>5, <1>6, <1>7, WalkingStep

LEMMA GenEndStep == IInv /\ GenEnd => IInv'
<1> SUFFICES ASSUME IInv, GenEnd PROVE IInv'
  OBVIOUS
<1> DEFINE r == register_table
           q == Pop(r)
<1>1. /\ Walking("end") /\ register_table' = q /\ emitted' = Nothing
      /\ UNCHANGED <<phase, param_offset, allocated, updates>>
  BY DEF GenEnd
<1>2. /\ phase = "generate" /\ Sem \in Tables(Types) /\ Sem' \in Tables(Types)
      /\ SemStep(ast[pos + 1], Sem, Sem') /\ ast[pos + 1].kind = "end"
      /\ \A u \in 1 .. Len(updates) : updates[u].depth # Len(r)
      /\ pos \in Nat /\ pos' = pos + 1 /\ ast' = ast
  BY <1>1, WalkingIs
<1>3. /\ r \in Tables(Registers) /\ Match(Sem, r, updates) /\ param_offset \in Nat
      /\ allocated \in Nat /\ updates \in Seq(Update)
  BY DEF IInv, TypeInv
<1>4. Len(Sem) > 1 /\ Popped(Sem, Sem')
  BY <1>2 DEF SemStep
<1>5. q \in Tables(Registers) /\ Popped(r, q)
  BY <1>3, <1>4, PopIs DEF Match
<1> HIDE DEF q
<1>6. Match(Sem', q, updates)
  BY <1>2, <1>3, <1>4, <1>5, MatchPop
<1>7. DueInv'
  BY <1>2 DEF DueInv
<1>8. StoresFitTheirSlots' /\ LoadsMatchAnnotations' /\ CheckedVariablesAreFound'
  BY <1>1, <1>2 DEF Nothing, StoresFitTheirSlots, LoadsMatchAnnotations,
                    CheckedVariablesAreFound
<1> QED
  BY <1>1, <1>3, <1>5, <1>6, <1>7, <1>8, WalkingStep

\* A parameter goes to a place of its own: the checker has seen to that.
LEMMA ParamIs ==
  ASSUME IInv, GenParam
  PROVE  LET node == ast[pos + 1]
             reg == Register(node.type, Args, param_offset)
         IN  /\ node.name \in Names /\ node.type \in Types /\ reg \in Registers
             /\ ~InTop(register_table, node.name)
             /\ register_table' \in Tables(Registers)
             /\ Bound(register_table, register_table', node.name, reg)
             /\ param_offset' = param_offset + Size[node.type] /\ param_offset' \in Nat
<1> DEFINE node == ast[pos + 1]
           reg == Register(node.type, Args, param_offset)
           r == register_table
<1>1. Walking("param") /\ register_table' = Put(r, node.name, reg)
      /\ param_offset' = param_offset + Size[node.type]
  BY DEF GenParam, OffsetAfter
<1>2. node \in Node /\ node.kind = "param" /\ SemStep(node, Sem, Sem')
  BY <1>1, WalkingIs
<1>3. node.name \in Names /\ node.type \in Types
  BY <1>2, Named
<1>4. r \in Tables(Registers) /\ Match(Sem, r, updates) /\ param_offset \in Nat
  BY DEF IInv, TypeInv
<1>5. ~InTop(r, node.name)
  <2>1. Len(r) \in 1 .. Len(r) /\ Len(Sem) = Len(r)
    BY <1>4, ScopeOf DEF Match
  <2>2. ~InTop(Sem, node.name)
    BY <1>2 DEF SemStep
  <2> QED
    BY <1>4, <2>1, <2>2 DEF InTop, Match, BindsLess
<1>6. reg \in Registers
  BY <1>3, <1>4 DEF Register, Registers, Args
<1>7. register_table' \in Tables(Registers) /\ Bound(r, register_table', node.name, reg)
  <2> HIDE DEF node, reg, r
  <2> QED
    BY <1>1, <1>3, <1>4, <1>6, PutIs
<1>8. param_offset + Size[node.type] \in Nat
  BY <1>3, <1>4, TypesAssumption
<1> QED
  BY <1>1, <1>3, <1>5, <1>6, <1>7, <1>8

\* parameters,
LEMMA GenParamStep == IInv /\ GenParam => IInv'
<1> SUFFICES ASSUME IInv, GenParam PROVE IInv'
  OBVIOUS
<1> DEFINE r == register_table
           q == register_table'
           node == ast[pos + 1]
           x == node.name
           ty == node.type
<1>1. /\ Walking("param") /\ emitted' = Nothing
      /\ UNCHANGED <<phase, allocated, updates>>
  BY DEF GenParam
<1>2. /\ phase = "generate" /\ Sem \in Tables(Types) /\ Sem' \in Tables(Types)
      /\ SemStep(node, Sem, Sem') /\ node.kind = "param"
      /\ \A u \in 1 .. Len(updates) : updates[u].depth # Len(r)
  BY <1>1, WalkingIs
<1>3. /\ r \in Tables(Registers) /\ Match(Sem, r, updates)
      /\ allocated \in Nat /\ updates \in Seq(Update)
  BY DEF IInv, TypeInv
<1>4. /\ x \in Names /\ ty \in Types /\ ~InTop(r, x) /\ q \in Tables(Registers)
      /\ param_offset' \in Nat
      /\ \E reg \in Registers : reg.type = ty /\ Bound(r, q, x, reg)
  <2>1. Register(ty, Args, param_offset).type = ty
    BY DEF Register
  <2> QED
    BY <2>1, ParamIs
<1>5. HasTop(Sem, Sem', x, ty) /\ Assigned(r, q, x, ty)
  BY <1>2, <1>4 DEF SemStep, HasTop, Assigned
<1>6. Len(q) = Len(r)
  BY <1>4 DEF Bound
<1> HIDE DEF x, ty, node, q
<1>7. Match(Sem', q, updates)
  BY <1>2, <1>3, <1>4, <1>5, MatchAssign DEF Match, Agreement, q
<1>8. DueInv'
  BY <1>1, <1>2, <1>6 DEF DueInv, q
<1>9. StoresFitTheirSlots' /\ LoadsMatchAnnotations' /\ CheckedVariablesAreFound'
  BY <1>1, <1>2 DEF Nothing, StoresFitTheirSlots, LoadsMatchAnnotations,
                    CheckedVariablesAreFound
<1> QED
  BY <1>1, <1>3, <1>4, <1>7, <1>8, <1>9, WalkingStep DEF q

\* assignments,
LEMMA GenAssignStep == IInv /\ GenAssign => IInv'
<1> SUFFICES ASSUME IInv, GenAssign PROVE IInv'
  OBVIOUS
<1> DEFINE r == register_table
           q == register_table'
           node == ast[pos + 1]
           x == node.name
           ty == node.type
<1>1. Walking("assign") /\ Assign(x, node.gen) /\ UNCHANGED <<phase, param_offset, updates>>
  BY DEF GenAssign
<1>2. /\ phase = "generate" /\ Sem \in Tables(Types) /\ Sem' \in Tables(Types)
      /\ node \in Node /\ SemStep(node, Sem, Sem') /\ node.kind = "assign"
      /\ \A u \in 1 .. Len(updates) : updates[u].depth # Len(r)
  BY <1>1, WalkingIs
<1>3. /\ r \in Tables(Registers) /\ Match(Sem, r, updates) /\ param_offset \in Nat
      /\ allocated \in Nat /\ updates \in Seq(Update)
  BY DEF IInv, TypeInv
<1>4. /\ x \in Names /\ ty \in Types /\ node.gen = ty /\ HasTop(Sem, Sem', x, ty)
  BY <1>2, Named DEF SemStep
<1>5. InTop(r, x) => r[Len(r)][x].type = ty
  <2>1. Len(r) \in 1 .. Len(r) /\ Len(Sem) = Len(r)
    BY <1>3, ScopeOf DEF Match
  <2>2. InTop(Sem, x) => Sem[Len(Sem)][x] = ty
    BY <1>4 DEF HasTop
  <2> QED
    BY <1>3, <2>1, <2>2 DEF InTop, Match, BindsLess
<1> HIDE DEF x, ty, node
<1>6. /\ q \in Tables(Registers) /\ allocated' \in Nat /\ Assigned(r, q, x, ty)
      /\ emitted'.op = "store" /\ StoresFitTheirSlots'
  BY <1>1, <1>3, <1>4, <1>5, AssignIs
<1>7. Len(q) = Len(r)
  BY <1>6 DEF Assigned, Bound
<1> HIDE DEF q
<1>8. Match(Sem', q, updates)
  BY <1>2, <1>3, <1>4, <1>6, MatchAssign DEF Match, Agreement
<1>9. DueInv'
  BY <1>1, <1>2, <1>7 DEF DueInv, q
<1>10. LoadsMatchAnnotations' /\ CheckedVariablesAreFound'
  BY <1>1, <1>2, <1>6 DEF LoadsMatchAnnotations, CheckedVariablesAreFound
<1> QED
  BY <1>1, <1>3, <1>6, <1>8, <1>9, <1>10, WalkingStep DEF q

\* the update of a FOR, which is passed over and now waits,
LEMMA GenForBodyStep == IInv /\ GenForBody => IInv'
<1> SUFFICES ASSUME IInv, GenForBody PROVE IInv'
  OBVIOUS
<1> DEFINE r == register_table
           node == ast[pos + 1]
           x == node.name
           ty == node.type
           more == updates'
<1>1. /\ Walking("update") /\ more = Pending(node) /\ emitted' = Nothing
      /\ UNCHANGED <<phase, register_table, param_offset, allocated>>
  BY DEF GenForBody
<1>2. /\ phase = "generate" /\ Sem \in Tables(Types) /\ Sem' \in Tables(Types)
      /\ node \in Node /\ SemStep(node, Sem, Sem') /\ node.kind = "update"
      /\ \A u \in 1 .. Len(updates) : updates[u].depth # Len(r)
      /\ pos \in Nat /\ pos' = pos + 1 /\ ast' = ast
  BY <1>1, WalkingIs
<1>3. /\ r \in Tables(Registers) /\ Match(Sem, r, updates) /\ param_offset \in Nat
      /\ allocated \in Nat /\ updates \in Seq(Update)
  BY DEF IInv, TypeInv
<1>4. /\ x \in Names /\ ty \in Types /\ node.gen = ty /\ HasTop(Sem, Sem', x, ty)
  BY <1>2, Named DEF SemStep
<1>5. more = Append(updates, [depth |-> Len(r), name |-> x, gen |-> ty])
  BY <1>1, <1>4 DEF Pending
<1>6. more \in Seq(Update)
  <2>1. Len(r) \in Nat \ {0}
    BY <1>3, ScopeOf
  <2>2. [depth |-> Len(r), name |-> x, gen |-> ty] \in Update
    BY <1>4, <2>1 DEF Update
  <2> QED
    BY <1>3, <1>5, <2>2
<1>7. DueInv'
  BY <1>2 DEF DueInv
<1> HIDE DEF x, ty, node, more
<1>8. Match(Sem', r, more)
  <2> DEFINE s == Sem
             t == Sem'
  <2>1. /\ s \in Tables(Types) /\ t \in Tables(Types) /\ HasTop(s, t, x, ty)
        /\ Match(s, r, updates)
    BY <1>2, <1>3, <1>4
  <2> HIDE DEF s, t
  <2>2. Match(t, r, more)
    BY <1>2, <1>3, <1>4, <1>5, <2>1, MatchAwait
  <2> QED
    BY <2>2 DEF t
<1>9. StoresFitTheirSlots' /\ LoadsMatchAnnotations' /\ CheckedVariablesAreFound'
  BY <1>1, <1>2 DEF Nothing, StoresFitTheirSlots, LoadsMatchAnnotations,
                    CheckedVariablesAreFound
<1> QED
  BY <1>1, <1>3, <1>6, <1>7, <1>8, <1>9, WalkingStep DEF more

\* and is generated later: its variable need not have matched until now.
LEMMA GenUpdateStep == IInv /\ GenUpdate => IInv'
<1> SUFFICES ASSUME IInv, GenUpdate PROVE IInv'
  OBVIOUS
<1> DEFINE r == register_table
           q == register_table'
           m == Len(updates)
           last == updates[m]
           x == last.name
           ty == last.gen
           less == SubSeq(updates, 1, m - 1)
<1>1. /\ phase = "generate" /\ UpdateDue /\ Assign(x, ty) /\ updates' = less
      /\ UNCHANGED <<phase, ast, symbol_table, seen, pos, param_offset>>
  BY DEF GenUpdate, sem_vars
<1>2. /\ TypeInv /\ r \in Tables(Registers) /\ Match(Sem, r, updates)
      /\ param_offset \in Nat /\ allocated \in Nat /\ updates \in Seq(Update)
      /\ Sem \in Tables(Types)
  <2>1. seen \in Seq(Tables(Types)) /\ pos + 1 \in 1 .. Len(seen)
    BY DEF IInv, TypeInv
  <2> QED
    BY <2>1 DEF IInv, TypeInv, Sem
<1>3. /\ m \in Nat \ {0} /\ m \in 1 .. m /\ last \in Update /\ last.depth = Len(r)
      /\ x \in Names /\ ty \in Types
  <2>1. m \in Nat \ {0} /\ m \in 1 .. m /\ last \in Update
    BY <1>1, <1>2 DEF UpdateDue
  <2> QED
    BY <1>1, <2>1 DEF UpdateDue, Update
<1>4. /\ Len(less) = m - 1 /\ less \in Seq(Update)
      /\ \A u \in 1 .. m - 1 : less[u] = updates[u]
  <2> DEFINE k == m - 1
  <2>1. k \in Nat /\ \A u \in 1 .. k : updates[u] \in Update /\ 1 + u - 1 = u
    BY <1>2, <1>3
  <2>2. 1 \in Int /\ k \in Int /\ k - 1 + 1 = k /\ (1 <= k => 1 <= k + 1)
    BY <2>1
  <2> HIDE DEF k
  <2>3. less = SubSeq(updates, 1, k)
    BY DEF k
  <2> HIDE DEF less
  <2>4. /\ less \in Seq(Update) /\ Len(less) = k /\ \A u \in 1 .. k : less[u] = updates[u]
    <3>1. CASE k = 0
      <4>1. less = <<>>
        BY <2>3, <3>1, <1>2, SubSeqEmpty
      <4> QED
        BY <3>1, <4>1
    <3>2. CASE k # 0
      BY <2>1, <2>2, <2>3, <3>2, SubSeqProperties
    <3> QED
      BY <3>1, <3>2
  <2> QED
    BY <2>4 DEF k
<1>5. /\ HasTop(Sem, Sem, x, ty)
      /\ InTop(r, x) => r[Len(r)][x].type = ty
  <2>1. /\ x \in DOMAIN Sem[Len(r)] /\ Sem[Len(r)][x] = ty /\ Len(Sem) = Len(r)
        /\ Len(r) \in 1 .. Len(r)
    BY <1>2, <1>3, ScopeOf DEF Match, Waiting
  <2> QED
    BY <1>2, <2>1 DEF InTop, HasTop, Match, BindsLess
<1>6. /\ Len(r) = Len(Sem) /\ BindsLess(Sem, r) /\ Waiting(Sem, r, less)
      /\ \A u \in 1 .. Len(less) : less[u].depth < Len(r)
  <2>1. \A u \in 1 .. m - 1 : u \in 1 .. m /\ \A v \in 1 .. u - 1 : v \in 1 .. m - 1
    BY <1>3
  <2>2. \A u \in 1 .. m - 1 : updates[u].depth < last.depth
    BY <1>2, <1>3 DEF Match, Waiting
  <2>3. Waiting(Sem, r, less)
    BY <1>2, <1>4, <2>1 DEF Match, Waiting
  <2> QED
    BY <1>2, <1>3, <1>4, <2>2, <2>3 DEF Match
<1>7. ASSUME NEW d \in 1 .. Len(r), NEW y \in Names
      PROVE  AwaitedAt(less, d, y) \/ Agree(Sem, r, d, y) \/ (d = Len(r) /\ y = x)
  <2>1. AwaitedAt(updates, d, y) \/ Agree(Sem, r, d, y)
    BY <1>2 DEF Match, Agreement
  <2>2. ASSUME NEW u \in 1 .. m, updates[u].name = y, updates[u].depth <= d
        PROVE  AwaitedAt(less, d, y) \/ (d = Len(r) /\ y = x)
    <3>1. CASE u = m
      <4>1. Len(r) \in Nat /\ Len(r) <= d
        BY <1>2, <1>3, <2>2, <3>1, ScopeOf
      <4> QED
        BY <2>2, <3>1, <4>1
    <3>2. CASE u # m
      <4>1. u \in 1 .. m - 1
        BY <1>3, <3>2
      <4> QED
        BY <1>4, <2>2, <4>1 DEF AwaitedAt
    <3> QED
      BY <3>1, <3>2
  <2> QED
    BY <2>1, <2>2 DEF AwaitedAt
<1> HIDE DEF x, ty, last, less, m
<1>8. /\ q \in Tables(Registers) /\ allocated' \in Nat /\ Assigned(r, q, x, ty)
      /\ emitted'.op = "store" /\ StoresFitTheirSlots'
  BY <1>1, <1>2, <1>3, <1>5, AssignIs
<1>9. Len(q) = Len(r)
  BY <1>8 DEF Assigned, Bound
<1> HIDE DEF q
<1>10. Match(Sem, q, less)
  BY <1>2, <1>3, <1>5, <1>6, <1>7, <1>8, MatchAssign
<1>11. Match(Sem, register_table, updates)'
  BY <1>1, <1>10 DEF Sem, q
<1>12. DueInv'
  <2>1. Len(r) \in Nat
    BY <1>2, ScopeOf
  <2>2. \A u \in 1 .. Len(less) : less[u].depth # Len(r)
    <3>1. \A u \in 1 .. Len(less) : less[u] \in Update
      BY <1>4
    <3> QED
      BY <1>6, <2>1, <3>1 DEF Update
  <2> QED
    BY <1>1, <1>9, <2>2 DEF DueInv, q
<1>13. LoadsMatchAnnotations' /\ CheckedVariablesAreFound'
  BY <1>1, <1>8 DEF LoadsMatchAnnotations, CheckedVariablesAreFound
<1>14. TypeInv' /\ TapeInv'
  BY <1>1, <1>2, <1>4, <1>8 DEF IInv, TypeInv, TapeInv, q
<1> QED
  BY <1>8, <1>11, <1>12, <1>13, <1>14 DEF IInv

\* References.
LEMMA GenUseStep == IInv /\ GenUse => IInv'
<1> SUFFICES ASSUME IInv, GenUse PROVE IInv'
  OBVIOUS
<1> DEFINE r == register_table
           node == ast[pos + 1]
           x == node.name
<1>1. /\ Walking("use") /\ UNCHANGED <<register_table, param_offset, allocated, updates>>
      /\ \/ IsBound(r, x) /\ emitted' = LoadOf(x, Get(r, x), node.type) /\ phase' = phase
         \/ ~IsBound(r, x) /\ emitted' = Nothing /\ phase' = "undefined"
  BY DEF GenUse
<1>2. /\ phase = "generate" /\ Sem \in Tables(Types) /\ Sem' \in Tables(Types)
      /\ node \in Node /\ SemStep(node, Sem, Sem') /\ node.kind = "use"
      /\ \A u \in 1 .. Len(updates) : updates[u].depth # Len(r)
      /\ pos' = pos + 1 /\ ast' = ast
  BY <1>1, WalkingIs
<1>3. /\ r \in Tables(Registers) /\ Match(Sem, r, updates) /\ param_offset \in Nat
      /\ allocated \in Nat /\ updates \in Seq(Update)
  BY DEF IInv, TypeInv
<1>4. Sem' = Sem /\ x \in Names
      /\ \E i \in 1 .. Len(Sem) : /\ IsInnermost(Sem, Len(Sem), x, i)
                                  /\ Sem[i][x] = node.type
  BY <1>2, Named DEF SemStep
<1>5. x \in Awaited \/ (IsBound(r, x) /\ Get(r, x).type = node.type)
  <2>1. Len(r) \in 1 .. Len(r) /\ Len(Sem) = Len(r)
    BY <1>3, ScopeOf DEF Match
  <2>2. CASE AwaitedAt(updates, Len(r), x)
    BY <2>2 DEF AwaitedAt, Awaited
  <2>3. CASE Agree(Sem, r, Len(r), x)
    <3>1. PICK i \in 1 .. Len(r) : IsInnermost(Sem, Len(r), x, i) /\ Sem[i][x] = node.type
      BY <1>4, <2>1
    <3>2. PICK j \in 1 .. Len(r) : IsInnermost(r, Len(r), x, j) /\ r[j][x].type = node.type
      BY <2>3, <3>1 DEF Agree
    <3> QED
      BY <1>3, <3>2, GetIs
  <2> QED
    BY <1>3, <1>4, <2>1, <2>2, <2>3 DEF Match, Agreement
<1>6. Awaited' = Awaited
  BY <1>1 DEF Awaited
<1>7. LoadsMatchAnnotations'
  BY <1>1, <1>5, <1>6 DEF LoadsMatchAnnotations, LoadOf, Nothing
<1>8. CheckedVariablesAreFound'
  BY <1>1, <1>2, <1>5, <1>6 DEF CheckedVariablesAreFound
<1>9. StoresFitTheirSlots'
  BY <1>1 DEF StoresFitTheirSlots, LoadOf, Nothing
<1>10. DueInv'
  BY <1>1, <1>2 DEF DueInv
<1> HIDE DEF node, x
<1>11. Match(Sem', r, updates)
  BY <1>3, <1>4
<1> QED
  BY <1>1, <1>3, <1>7, <1>8, <1>9, <1>10, <1>11, WalkingStep

\* The end.
LEMMA GenDoneStep == IInv /\ (GenDone \/ UNCHANGED vars) => IInv'
<1> SUFFICES ASSUME IInv, GenDone \/ UNCHANGED vars PROVE IInv'
  OBVIOUS
<1>1. /\ UNCHANGED <<ast, symbol_table, seen, gen_vars>>
      /\ phase' = phase \/ phase' = "done"
  BY DEF GenDone, vars, sem_vars
<1>2. TypeInv' /\ TapeInv' /\ DueInv' /\ Match(Sem, register_table, updates)'
  BY <1>1 DEF IInv, TypeInv, TapeInv, DueInv, Sem, gen_vars
<1>3. StoresFitTheirSlots' /\ LoadsMatchAnnotations' /\ CheckedVariablesAreFound'
  BY <1>1 DEF IInv, gen_vars, StoresFitTheirSlots, LoadsMatchAnnotations, Awaited,
              CheckedVariablesAreFound
<1> QED
  BY <1>2, <1>3 DEF IInv

\* Both tables begin with one empty scope.
LEMMA InitIInv == Init => IInv
<1> SUFFICES ASSUME Init PROVE IInv
  OBVIOUS
<1>1. Push(<<>>) \in Tables(Types) /\ Push(<<>>) \in Tables(Registers)
  <2>1. \A V : EmptyScope \in Scopes(V)
    <3>1. \A V : EmptyScope \in [{} -> V] /\ {} \in SUBSET Names
      BY DEF EmptyScope
    <3> QED
      BY <3>1 DEF Scopes
  <2>2. Push(<<>>) = <<EmptyScope>>
    BY DEF Push
  <2> HIDE DEF EmptyScope
  <2>3. ASSUME NEW V PROVE <<EmptyScope>> \in Seq(Scopes(V)) /\ <<EmptyScope>> # <<>>
    <3>1. EmptyScope \in Scopes(V)
      BY <2>1
    <3> QED
      BY <3>1
  <2> QED
    BY <2>2, <2>3 DEF Tables
<1>2. Len(Push(<<>>)) = 1 /\ DOMAIN Push(<<>>)[1] = {}
  BY DEF Push, EmptyScope
<1> DEFINE empty == Push(<<>>)
<1>3. empty \in Tables(Types) /\ empty \in Tables(Registers) /\ Len(empty) = 1
      /\ DOMAIN empty[1] = {}
  BY <1>1, <1>2
<1>4. /\ phase = "check" /\ ast = <<>> /\ symbol_table = empty /\ seen = <<empty>> /\ pos = 0
      /\ register_table = empty /\ param_offset = 0 /\ allocated = 0 /\ updates = <<>>
      /\ emitted = Nothing
  BY DEF Init
<1> HIDE DEF empty
<1>5. TypeInv
  BY <1>3, <1>4 DEF TypeInv
<1>6. TapeInv /\ DueInv
  BY <1>4 DEF TapeInv, DueInv
<1>7. Match(Sem, register_table, updates)
  <2>1. Sem = empty
    BY <1>4 DEF Sem
  <2>2. BindsLess(empty, empty)
    BY <1>3 DEF BindsLess
  <2>3. Agreement(empty, empty, <<>>)
    BY <1>3 DEF Agreement, Agree, IsInnermost
  <2>4. Waiting(empty, empty, <<>>)
    BY DEF Waiting
  <2> QED
    BY <1>4, <2>1, <2>2, <2>3, <2>4 DEF Match
<1>8. StoresFitTheirSlots /\ LoadsMatchAnnotations /\ CheckedVariablesAreFound
  BY <1>4 DEF Nothing, StoresFitTheirSlots, LoadsMatchAnnotations, CheckedVariablesAreFound
<1> QED
  BY <1>5, <1>6, <1>7, <1>8 DEF IInv

LEMMA StepIInv == Plain /\ IInv /\ [Next]_vars => IInv'
BY CheckStep, GenBlockStep, GenEndStep, GenParamStep, GenAssignStep, GenForBodyStep,
   GenUpdateStep, GenUseStep, GenDoneStep DEF Next, Generate

LEMMA Inductive == ASSUME Plain PROVE Spec => []IInv
<1>1. IInv /\ [Next]_vars => IInv'
  BY StepIInv
<1> QED
  BY InitIInv, <1>1, PTL DEF Spec

-----------------------------------------------------------------------------
(***************************************************************************)
(* Storage.                                                                *)
(***************************************************************************)

\* What is known of a register, and of two: parameters lie one after the
\* other below param_offset, and a stack slot belongs to one variable.
Placed(reg, slots, bytes) ==
  /\ reg.base <= slots
  /\ reg.base = Args => reg.offset + Size[reg.type] <= bytes
Apart(reg, other) ==
  reg.base = other.base =>
    \/ reg.offset + Size[reg.type] <= other.offset
    \/ other.offset + Size[other.type] <= reg.offset

StorageInv ==
  /\ \A d \in 1 .. Len(register_table) : \A x \in DOMAIN register_table[d] :
       Placed(register_table[d][x], allocated, param_offset)
  /\ StorageIsDisjoint

\* A register that is new is placed, and apart from those there were.
LEMMA StorageBound ==
  ASSUME IInv, StorageInv, IInv', NEW k, NEW reg \in Registers,
         Bound(register_table, register_table', k, reg), ~InTop(register_table, k),
         param_offset' >= param_offset, allocated' >= allocated,
         Placed(reg, allocated', param_offset'),
         \A old \in Registers : Placed(old, allocated, param_offset) => Apart(old, reg)
  PROVE  StorageInv'
<1> DEFINE r == register_table
           q == register_table'
           n == Len(r)
<1>1. /\ r \in Tables(Registers) /\ param_offset \in Nat /\ allocated \in Nat
      /\ param_offset' \in Nat /\ allocated' \in Nat
  BY DEF IInv, TypeInv
<1>2. /\ n \in Nat /\ n \in 1 .. n /\ Len(q) = n
      /\ \A d \in 1 .. n : d # n => q[d] = r[d]
      /\ DOMAIN q[n] = DOMAIN r[n] \cup {k} /\ k \notin DOMAIN r[n]
      /\ q[n][k] = reg
      /\ \A x \in DOMAIN r[n] : x # k => q[n][x] = r[n][x]
  BY <1>1, ScopeOf DEF Bound, InTop
<1>3. \A d \in 1 .. n : \A x \in DOMAIN r[d] :
        r[d][x] \in Registers /\ Placed(r[d][x], allocated, param_offset)
  BY <1>1, ScopeOf DEF StorageInv
<1>4. ASSUME NEW d \in 1 .. n, NEW x \in DOMAIN q[d]
      PROVE  \/ d = n /\ x = k /\ q[d][x] = reg
             \/ x \in DOMAIN r[d] /\ q[d][x] = r[d][x] /\ (d = n => x # k)
  BY <1>2, <1>4
<1> HIDE DEF n
<1>5. ASSUME NEW old \in Registers, Placed(old, allocated, param_offset)
      PROVE  Placed(old, allocated', param_offset')
  <2>1. old.base \in Nat /\ old.offset \in Nat /\ Size[old.type] \in Nat
    BY TypesAssumption DEF Registers
  <2> QED
    BY <1>1, <1>5, <2>1 DEF Placed
<1>6. ASSUME NEW d \in 1 .. n, NEW x \in DOMAIN q[d]
      PROVE  Placed(q[d][x], allocated', param_offset')
  BY <1>3, <1>4, <1>5
<1>7. ASSUME NEW d1 \in 1 .. n, NEW d2 \in 1 .. n, NEW x \in DOMAIN q[d1], NEW y \in DOMAIN q[d2],
             <<d1, x>> # <<d2, y>>
      PROVE  Apart(q[d1][x], q[d2][y])
  <2>1. CASE d1 = n /\ x = k /\ q[d1][x] = reg
    <3>1. y \in DOMAIN r[d2] /\ q[d2][y] = r[d2][y]
      BY <1>4, <1>7, <2>1
    <3>2. Apart(r[d2][y], reg)
      BY <1>3, <3>1
    <3> QED
      BY <2>1, <3>1, <3>2 DEF Apart
  <2>2. CASE x \in DOMAIN r[d1] /\ q[d1][x] = r[d1][x] /\ (d1 = n => x # k)
    <3>1. CASE q[d2][y] = reg
      BY <1>3, <2>2, <3>1
    <3>2. CASE y \in DOMAIN r[d2] /\ q[d2][y] = r[d2][y]
      <4>1. Apart(r[d1][x], r[d2][y])
        BY <1>7, <2>2, <3>2 DEF StorageInv, StorageIsDisjoint, Apart, n
      <4> QED
        BY <2>2, <3>2, <4>1
    <3> QED
      BY <1>4, <3>1, <3>2
  <2> QED
    BY <1>4, <2>1, <2>2
<1>8. StorageIsDisjoint'
  BY <1>2, <1>7 DEF StorageIsDisjoint, Apart
<1> QED
  BY <1>2, <1>6, <1>8 DEF StorageInv, n

\* All that any step does to the generator's table and its two counters.
Declares(k, reg) ==
  /\ reg \in Registers
  /\ Bound(register_table, register_table', k, reg) /\ ~InTop(register_table, k)
  /\ \/ /\ reg.base = Args /\ reg.offset = param_offset
        /\ param_offset' = param_offset + Size[reg.type] /\ allocated' = allocated
     \/ /\ reg.base = allocated + 1
        /\ param_offset' = param_offset /\ allocated' = allocated + 1
Moves ==
  \/ UNCHANGED <<register_table, param_offset, allocated>>
  \/ Pushed(register_table, register_table') /\ UNCHANGED <<param_offset, allocated>>
  \/ Popped(register_table, register_table') /\ UNCHANGED <<param_offset, allocated>>
  \/ \E k, reg : Declares(k, reg)

\* An assignment declares at most one variable.
LEMMA AssignMoves ==
  ASSUME IInv, NEW x \in Names, NEW ty \in Types, Assign(x, ty), param_offset' = param_offset,
         InTop(register_table, x) => register_table[Len(register_table)][x].type = ty
  PROVE  Moves
<1> DEFINE reg == Register(ty, allocated + 1, 0)
<1>1. register_table \in Tables(Registers) /\ allocated \in Nat
  BY DEF IInv, TypeInv
<1>2. \/ register_table' = register_table /\ allocated' = allocated
      \/ /\ ~InTop(register_table, x) /\ allocated' = allocated + 1
         /\ Bound(register_table, register_table', x, reg)
  BY <1>1, AssignIs
<1>3. reg \in Registers /\ reg.base = allocated + 1
  BY <1>1 DEF Register, Registers
<1> HIDE DEF reg
<1> QED
  BY <1>2, <1>3 DEF Moves, Declares

\* And so does every other step.
LEMMA NextMoves == IInv /\ Next => Moves
<1> SUFFICES ASSUME IInv, Next PROVE Moves
  OBVIOUS
<1>1. register_table \in Tables(Registers) /\ Match(Sem, register_table, updates)
  BY DEF IInv, TypeInv
<1>2. CASE Check \/ GenForBody \/ GenUse \/ GenDone
  BY <1>2 DEF Check, CheckParam, CheckBlock, CheckEnd, CheckAssign, CheckUse, Accept, Reject,
              GenForBody, GenUse, GenDone, gen_vars, Moves
<1>3. CASE GenBlock
  BY <1>1, <1>3, PushIs DEF GenBlock, Moves
<1>4. CASE GenEnd
  <2>1. Walking("end") /\ register_table' = Pop(register_table)
        /\ UNCHANGED <<param_offset, allocated>>
    BY <1>4 DEF GenEnd
  <2>2. SemStep(ast[pos + 1], Sem, Sem') /\ ast[pos + 1].kind = "end"
    BY <2>1, WalkingIs
  <2>3. Len(register_table) > 1
    BY <1>1, <2>2 DEF SemStep, Match
  <2> QED
    BY <1>1, <2>1, <2>3, PopIs DEF Moves
<1>5. CASE GenParam
  <2> DEFINE node == ast[pos + 1]
             reg == Register(node.type, Args, param_offset)
  <2>1. /\ node.name \in Names /\ node.type \in Types /\ reg \in Registers
        /\ ~InTop(register_table, node.name)
        /\ Bound(register_table, register_table', node.name, reg)
        /\ param_offset' = param_offset + Size[node.type]
    BY <1>5, ParamIs
  <2>2. allocated' = allocated
    BY <1>5 DEF GenParam
  <2>3. reg.base = Args /\ reg.offset = param_offset /\ reg.type = node.type
    BY DEF Register
  <2> HIDE DEF reg, node
  <2> QED
    BY <2>1, <2>2, <2>3 DEF Moves, Declares
<1>6. CASE GenAssign
  <2> DEFINE node == ast[pos + 1]
  <2>1. Walking("assign") /\ Assign(node.name, node.gen) /\ param_offset' = param_offset
    BY <1>6 DEF GenAssign
  <2>2. node \in Node /\ SemStep(node, Sem, Sem') /\ node.kind = "assign"
    BY <2>1, WalkingIs
  <2>3. /\ node.name \in Names /\ node.gen \in Types
        /\ InTop(Sem, node.name) => Sem[Len(Sem)][node.name] = node.gen
    BY <2>2, Named DEF SemStep, HasTop
  <2>4. Len(register_table) \in 1 .. Len(register_table) /\ Len(Sem) = Len(register_table)
    BY <1>1, ScopeOf DEF Match
  <2>5. InTop(register_table, node.name) =>
          register_table[Len(register_table)][node.name].type = node.gen
    BY <1>1, <2>3, <2>4 DEF InTop, Match, BindsLess
  <2> HIDE DEF node
  <2> QED
    BY <2>1, <2>3, <2>5, AssignMoves
<1>7. CASE GenUpdate
  <2> DEFINE last == updates[Len(updates)]
  <2>1. UpdateDue /\ Assign(last.name, last.gen) /\ param_offset' = param_offset
    BY <1>7 DEF GenUpdate
  <2>2. updates \in Seq(Update) /\ Len(updates) \in 1 .. Len(updates)
    BY <2>1 DEF UpdateDue, IInv, TypeInv
  <2>3. last \in Update /\ last.depth = Len(register_table)
    BY <2>1, <2>2 DEF UpdateDue
  <2>4. /\ last.name \in Names /\ last.gen \in Types
        /\ Sem[last.depth][last.name] = last.gen
    BY <1>1, <2>2, <2>3 DEF Update, Match, Waiting
  <2>5. Len(register_table) \in 1 .. Len(register_table)
    BY <1>1, ScopeOf
  <2> HIDE DEF last
  <2>6. InTop(register_table, last.name) =>
          register_table[Len(register_table)][last.name].type = last.gen
    BY <1>1, <2>3, <2>4, <2>5 DEF InTop, Match, BindsLess
  <2> QED
    BY <2>1, <2>4, <2>6, AssignMoves
<1> QED
  BY <1>2, <1>3, <1>4, <1>5, <1>6, <1>7 DEF Next, Generate

\* Storage stays disjoint.
LEMMA StorageStep == IInv /\ IInv' /\ StorageInv /\ [Next]_vars => StorageInv'
<1> SUFFICES ASSUME IInv, IInv', StorageInv, [Next]_vars PROVE StorageInv'
  OBVIOUS
<1> DEFINE r == register_table
           q == register_table'
<1>1. Moves
  BY NextMoves DEF vars, gen_vars, Moves
<1>2. r \in Tables(Registers) /\ q \in Tables(Registers)
      /\ param_offset \in Nat /\ allocated \in Nat
  BY DEF IInv, TypeInv
<1>3. Len(r) \in Nat /\ Len(q) \in Nat
  BY <1>2, ScopeOf
<1>4. CASE UNCHANGED <<register_table, param_offset, allocated>>
  BY <1>4 DEF StorageInv, StorageIsDisjoint
<1>5. CASE (Pushed(r, q) \/ Popped(r, q)) /\ UNCHANGED <<param_offset, allocated>>
  <2>1. \A d \in 1 .. Len(q) : \A x \in DOMAIN q[d] :
          d \in 1 .. Len(r) /\ x \in DOMAIN r[d] /\ q[d][x] = r[d][x]
    BY <1>3, <1>5 DEF Pushed, Popped
  <2> QED
    BY <1>5, <2>1 DEF StorageInv, StorageIsDisjoint
<1>6. ASSUME NEW k, NEW reg, Declares(k, reg) PROVE StorageInv'
  <2>1. reg \in Registers /\ reg.base \in Nat /\ reg.offset \in Nat /\ Size[reg.type] \in Nat
    BY <1>6, TypesAssumption DEF Declares, Registers
  <2>2. param_offset' >= param_offset /\ allocated' >= allocated
    BY <1>2, <1>6, <2>1 DEF Declares
  <2>3. Placed(reg, allocated', param_offset')
    BY <1>2, <1>6, <2>1 DEF Declares, Placed, Args
  <2>4. ASSUME NEW old \in Registers, Placed(old, allocated, param_offset)
        PROVE  Apart(old, reg)
    <3>1. old.base \in Nat /\ old.offset \in Nat /\ Size[old.type] \in Nat
      BY TypesAssumption DEF Registers
    <3> QED
      BY <1>2, <1>6, <2>1, <2>4, <3>1 DEF Declares, Placed, Apart, Args
  <2> QED
    BY <1>6, <2>1, <2>2, <2>3, <2>4, StorageBound DEF Declares
<1> QED
  BY <1>1, <1>4, <1>5, <1>6 DEF Moves

\* No step rebinds anything in a scope that stays open.
LEMMA StableStep ==
  IInv /\ Plain /\ [Next]_vars =>
    [Extends(symbol_table, symbol_table') /\ Extends(register_table, register_table')]_vars
<1> SUFFICES ASSUME IInv, Plain, Next
             PROVE  Extends(symbol_table, symbol_table') /\ Extends(register_table, register_table')
  OBVIOUS
<1>1. symbol_table \in Tables(Types) /\ register_table \in Tables(Registers)
  <2>1. seen \in Seq(Tables(Types)) /\ Len(seen) \in 1 .. Len(seen)
        /\ symbol_table = seen[Len(seen)] /\ register_table \in Tables(Registers)
    BY DEF IInv, TypeInv
  <2> QED
    BY <2>1
<1>2. ASSUME NEW t, NEW u, Len(t) \in Nat, Len(u) \in Nat,
             t = u \/ Pushed(t, u) \/ Popped(t, u)
               \/ \E k, v : Bound(t, u, k, v) /\ ~InTop(t, k)
      PROVE  Extends(t, u)
  BY <1>2 DEF Extends, Pushed, Popped, Bound, InTop
<1>3. Len(symbol_table) \in Nat /\ Len(register_table) \in Nat
  BY <1>1, ScopeOf
<1>4. Extends(register_table, register_table')
  <2>1. Len(register_table') \in Nat
    BY <1>3, NextMoves DEF Moves, Pushed, Popped, Declares, Bound
  <2> QED
    BY <1>2, <1>3, <2>1, NextMoves DEF Moves, Declares
<1>5. Extends(symbol_table, symbol_table')
  <2>1. CASE Check
    <3>1. CASE Reject
      BY <1>2, <1>3, <3>1 DEF Reject, sem_vars
    <3>2. CASE Accepts
      <4>1. PICK node \in Node, t \in Tables(Types) :
              SemStep(node, symbol_table, t) /\ symbol_table' = t
        BY <3>2 DEF Accepts, Accept
      <4>2. Len(t) \in Nat
        BY ScopeOf
      <4>3. node.kind \in {"param", "assign", "update", "use", "block", "end"}
        BY DEF Node, BlockNode, EndNode
      <4>4. t = symbol_table \/ Pushed(symbol_table, t) \/ Popped(symbol_table, t)
              \/ \E k, v : Bound(symbol_table, t, k, v) /\ ~InTop(symbol_table, k)
        BY <4>1, <4>3 DEF SemStep, HasTop
      <4> QED
        BY <1>2, <1>3, <4>1, <4>2, <4>4
    <3> QED
      BY <2>1, <3>1, <3>2, CheckAccepts
  <2>2. CASE Generate
    <3>1. symbol_table' = symbol_table
      BY <2>2 DEF Generate, GenParam, GenBlock, GenEnd, GenAssign, GenForBody, GenUpdate, GenUse,
                  GenDone, Walking, sem_vars
    <3> QED
      BY <1>2, <1>3, <3>1
  <2> QED
    BY <2>1, <2>2 DEF Next
<1> QED
  BY <1>4, <1>5

-----------------------------------------------------------------------------
(***************************************************************************)
(* The theorems, for any names, types, sizes, expressions, and any number  *)
(* of nodes and scopes.                                                    *)
(***************************************************************************)

\* A store is emitted for the type its variable's register was made for: in
\* WalkAssign, neither reuse of a register nor a FOR's late update can differ.
THEOREM StoresFit == ASSUME Plain PROVE Spec => []StoresFitTheirSlots
<1>1. IInv => StoresFitTheirSlots
  BY DEF IInv
<1> QED
  BY <1>1, Inductive, PTL

\* A load is emitted for the type the checker gave the reference, unless the
\* name waits for a FOR's update (WalkVariable in both walkers).
THEOREM LoadsMatch == ASSUME Plain PROVE Spec => []LoadsMatchAnnotations
<1>1. IInv => LoadsMatchAnnotations
  BY DEF IInv
<1> QED
  BY <1>1, Inductive, PTL

\* A reference the checker accepted is found by the generator, unless the name
\* waits for a FOR's update (WalkVariable).
THEOREM VariablesFound == ASSUME Plain PROVE Spec => []CheckedVariablesAreFound
<1>1. IInv => CheckedVariablesAreFound
  BY DEF IInv
<1> QED
  BY <1>1, Inductive, PTL

\* No two variables share a byte: not two parameters, whatever their sizes
\* (param_offset_), not two locals, and not one of each.
THEOREM Disjoint == ASSUME Plain PROVE Spec => []StorageIsDisjoint
<1>1. Init => StorageInv
  <2>1. ASSUME Init PROVE register_table = Push(<<>>)
    BY <2>1 DEF Init
  <2>2. Len(Push(<<>>)) = 1 /\ DOMAIN Push(<<>>)[1] = {}
    BY DEF Push, EmptyScope
  <2> QED
    BY <2>1, <2>2 DEF StorageInv, StorageIsDisjoint
<1>2. StorageInv => StorageIsDisjoint
  BY DEF StorageInv
<1> QED
  BY <1>1, <1>2, StorageStep, Inductive, PTL DEF Spec

\* While a scope is open nothing in it is rebound, in either table.
THEOREM Stable == ASSUME Plain PROVE Spec => BindingsAreStable
<1>1. IInv /\ [Next]_vars =>
        [Extends(symbol_table, symbol_table') /\ Extends(register_table, register_table')]_vars
  BY StableStep
<1> QED
  BY <1>1, Inductive, PTL DEF Spec, BindingsAreStable
=============================================================================
