------------------------- MODULE DeclarationsProofs -------------------------
(***************************************************************************)
(* What the two passes make of any module.  The argument: a pass has left  *)
(* some specs, headers, properties and bodies behind it; each table holds  *)
(* exactly those, under their mangled names, and once a round has ended    *)
(* these are all of the program, in whatever order they were written.  So  *)
(* a lookup finds what the program means, by the checker and then by the   *)
(* generator; and what both sum, the sizes of properties, are values of    *)
(* one function of how many came before.                                   *)
(***************************************************************************)
EXTENDS Declarations, SequenceTheorems, FiniteSetTheorems, TLAPS

-----------------------------------------------------------------------------
(***************************************************************************)
(* Tables of one scope and of two.                                         *)
(***************************************************************************)
LEMMA LookInOne ==
  ASSUME NEW B, NEW k
  PROVE  Look(<<B>>, k) = IF k \in DOMAIN B THEN {B[k]} ELSE {}
<1> DEFINE t == <<B>>
<1>1. Len(t) = 1 /\ t[1] = B
  OBVIOUS
<1> HIDE DEF t
<1>2. IsBound(t, k) <=> k \in DOMAIN B
  BY <1>1 DEF IsBound
<1>3. ASSUME k \in DOMAIN B PROVE Get(t, k) = B[k]
  <2>1. \A i : IsInnermost(t, 1, k, i) <=> i = 1
    BY <1>1, <1>3 DEF IsInnermost
  <2>2. (CHOOSE i \in 1 .. Len(t) : IsInnermost(t, Len(t), k, i)) = 1
    BY <1>1, <2>1
  <2> QED
    BY <1>1, <2>2 DEF Get
<1>4. Look(t, k) = IF k \in DOMAIN B THEN {B[k]} ELSE {}
  BY <1>2, <1>3 DEF Look
<1> QED
  BY <1>4 DEF t

LEMMA LookInTwo ==
  ASSUME NEW B, NEW S, NEW k
  PROVE  Look(<<B, S>>, k) =
           IF k \in DOMAIN S THEN {S[k]} ELSE IF k \in DOMAIN B THEN {B[k]} ELSE {}
<1> DEFINE t == <<B, S>>
<1>1. Len(t) = 2 /\ t[1] = B /\ t[2] = S
  OBVIOUS
<1> HIDE DEF t
<1>2. IsBound(t, k) <=> k \in DOMAIN B \/ k \in DOMAIN S
  <2>1. \A i : i \in 1 .. 2 <=> i = 1 \/ i = 2
    OBVIOUS
  <2> QED
    BY <1>1, <2>1 DEF IsBound
<1>3. ASSUME k \in DOMAIN S PROVE Get(t, k) = S[k]
  <2>1. \A i : IsInnermost(t, 2, k, i) <=> i = 2
    BY <1>1, <1>3 DEF IsInnermost
  <2>2. (CHOOSE i \in 1 .. Len(t) : IsInnermost(t, Len(t), k, i)) = 2
    BY <1>1, <2>1
  <2> QED
    BY <1>1, <2>2 DEF Get
<1>4. ASSUME k \notin DOMAIN S, k \in DOMAIN B PROVE Get(t, k) = B[k]
  <2>1. \A i : IsInnermost(t, 2, k, i) <=> i = 1
    BY <1>1, <1>4 DEF IsInnermost
  <2>2. (CHOOSE i \in 1 .. Len(t) : IsInnermost(t, Len(t), k, i)) = 1
    BY <1>1, <2>1
  <2> QED
    BY <1>1, <2>2 DEF Get
<1>5. Look(t, k) = IF k \in DOMAIN S THEN {S[k]} ELSE IF k \in DOMAIN B THEN {B[k]} ELSE {}
  BY <1>2, <1>3, <1>4 DEF Look
<1> QED
  BY <1>5 DEF t

LEMMA TheOnly ==
  ASSUME NEW s
  PROVE  The({s}) = s
BY DEF The

-----------------------------------------------------------------------------
(***************************************************************************)
(* Names.  A mangled name says what it is the name of.                     *)
(***************************************************************************)
AllMarks(m) == \A n \in 2 .. Len(m) : m[n] = "~"
LEMMA MarkedIs ==
  ASSUME NEW name, NEW S, NEW params \in Seq(S)
  PROVE  /\ Marked(name, params) \in Seq({name, "~"})
         /\ Len(Marked(name, params)) = Len(params) + 1
         /\ Marked(name, params)[1] = name
         /\ AllMarks(Marked(name, params))
<1> DEFINE marks == [i \in DOMAIN params |-> "~"]
<1>1. DOMAIN params = 1 .. Len(params) /\ Len(params) \in Nat
  OBVIOUS
<1>2. marks \in Seq({name, "~"}) /\ Len(marks) = Len(params)
  BY <1>1
<1>3. \A n \in 1 .. Len(params) : marks[n] = "~"
  BY <1>1
<1> HIDE DEF marks
<1>4. <<name>> \in Seq({name, "~"}) /\ Len(<<name>>) = 1 /\ <<name>>[1] = name
  OBVIOUS
<1> DEFINE m == <<name>> \o marks
<1>5. m \in Seq({name, "~"}) /\ Len(m) = Len(params) + 1
  BY <1>1, <1>2, <1>4
<1>6. m[1] = name
  BY <1>1, <1>2, <1>4
<1>7. \A n \in 2 .. Len(params) + 1 : m[n] = "~"
  <2> SUFFICES ASSUME NEW n \in 2 .. Len(params) + 1 PROVE m[n] = "~"
    OBVIOUS
  <2>1. m[n] = marks[n - 1] /\ n - 1 \in 1 .. Len(params)
    BY <1>1, <1>2, <1>4
  <2> QED
    BY <2>1, <1>3
<1>8. m = Marked(name, params)
  BY DEF Marked, marks
<1>9. AllMarks(m)
  BY <1>5, <1>7 DEF AllMarks
<1> HIDE DEF m
<1> QED
  BY <1>5, <1>6, <1>8, <1>9

LEMMA MarkedRest ==
  ASSUME NEW name, NEW S, NEW params \in Seq(S), NEW n \in 2 .. Len(params) + 1
  PROVE  Marked(name, params)[n] = "~"
<1>1. AllMarks(Marked(name, params)) /\ Len(Marked(name, params)) = Len(params) + 1
  BY MarkedIs, Zenon
<1> QED
  BY <1>1, Zenon DEF AllMarks

LEMMA MarkedLen ==
  ASSUME NEW name, NEW S, NEW params \in Seq(S)
  PROVE  Len(Marked(name, params)) = Len(params) + 1 /\ Marked(name, params)[1] = name
BY MarkedIs, Zenon

SameMarked(a, p, b, q) == Marked(a, p) = Marked(b, q) <=> a = b /\ Len(p) = Len(q)
LEMMA MarkedSame ==
  ASSUME NEW a, NEW b, NEW S, NEW p \in Seq(S), NEW U, NEW q \in Seq(U)
  PROVE  SameMarked(a, p, b, q)
<1>1. /\ Len(Marked(a, p)) = Len(p) + 1 /\ Marked(a, p)[1] = a
      /\ Len(Marked(b, q)) = Len(q) + 1 /\ Marked(b, q)[1] = b
  BY MarkedLen, Zenon
<1>n. Len(p) \in Nat /\ Len(q) \in Nat
  OBVIOUS
<1>2. ASSUME Marked(a, p) = Marked(b, q) PROVE a = b /\ Len(p) = Len(q)
  <2>1. a = b
    BY <1>1, <1>2, Zenon
  <2>2. Len(p) + 1 = Len(q) + 1
    BY <1>1, <1>2, Zenon
  <2> QED
    BY <2>1, <2>2, <1>n
<1>3. ASSUME a = b, Len(p) = Len(q) PROVE Marked(a, p) = Marked(b, q)
  <2> DEFINE x == Marked(a, p)  y == Marked(b, q)
  <2>a. x \in Seq({a, "~"}) /\ y \in Seq({b, "~"})
    BY MarkedIs, Zenon
  <2>b. Len(x) = Len(p) + 1 /\ Len(y) = Len(q) + 1 /\ x[1] = a /\ y[1] = b
    BY MarkedLen, Zenon
  <2>c. /\ \A n \in 2 .. Len(p) + 1 : x[n] = "~"
        /\ \A n \in 2 .. Len(q) + 1 : y[n] = "~"
    BY MarkedRest, Zenon
  <2> HIDE DEF x, y
  <2>1. x \in Seq({a, "~"}) /\ y \in Seq({a, "~"}) /\ Len(x) = Len(y) /\ Len(x) = Len(p) + 1
    BY <1>3, <2>a, <2>b
  <2>2. /\ x[1] = a /\ \A n \in 2 .. Len(p) + 1 : x[n] = "~"
        /\ y[1] = a /\ \A n \in 2 .. Len(p) + 1 : y[n] = "~"
    BY <1>3, <2>b, <2>c
  <2> HIDE DEF x, y
  <2>3. \A n \in 1 .. Len(x) : x[n] = y[n]
    BY <2>1, <2>2, <1>n
  <2>4. x = y
    BY <2>1, <2>3, SeqEqual
  <2> QED
    BY <2>4 DEF x, y
<1> QED
  BY <1>2, <1>3 DEF SameMarked

PlainMarked(a, p, b) == Marked(a, p) = <<b>> <=> a = b /\ p = <<>>
LEMMA MarkedPlain ==
  ASSUME NEW a, NEW b, NEW S, NEW p \in Seq(S)
  PROVE  PlainMarked(a, p, b) /\ Marked(a, p) # <<>>
<1>1. <<>> \in Seq(S) /\ Len(<<>>) = 0
  OBVIOUS
<1>2. Marked(b, <<>>) = <<b>>
  <2> DEFINE m == Marked(b, <<>>)
  <2>a. m \in Seq({b, "~"})
    BY <1>1, MarkedIs, Zenon
  <2>b. Len(m) = Len(<<>>) + 1 /\ m[1] = b
    BY <1>1, MarkedLen, Zenon
  <2> HIDE DEF m
  <2>1. m \in Seq({b, "~"}) /\ Len(m) = 1 /\ m[1] = b
    BY <2>a, <2>b
  <2>2. m = <<b>>
    BY <2>1
  <2> QED
    BY <2>2 DEF m
<1>3. Marked(a, p) = Marked(b, <<>>) <=> a = b /\ Len(p) = Len(<<>>)
  <2> DEFINE e == <<>>
  <2>1. e \in Seq(S)
    OBVIOUS
  <2> HIDE DEF e
  <2>2. SameMarked(a, p, b, e)
    BY <2>1, MarkedSame, Zenon
  <2> QED
    BY <2>2 DEF e, SameMarked
<1>4. Len(p) = 0 <=> p = <<>>
  OBVIOUS
<1>5. Marked(a, p) # <<>>
  <2>1. Len(Marked(a, p)) = Len(p) + 1 /\ Len(p) \in Nat
    <3>1. Len(Marked(a, p)) = Len(p) + 1
      BY MarkedLen, Zenon
    <3> QED
      BY <3>1
  <2>2. Len(Marked(a, p)) # Len(<<>>)
    BY <2>1
  <2> QED
    BY <2>2, Zenon
<1> QED
  BY <1>1, <1>2, <1>3, <1>4, <1>5 DEF PlainMarked

\* The name of an instance of a generic spec is no mangled name.
InstanceName(name, args) == <<name, "<", [n \in DOMAIN args |-> <<args[n]>>]>>
LEMMA MarkedNoInstance ==
  ASSUME NEW a, NEW S, NEW p \in Seq(S), NEW b, NEW args
  PROVE  Marked(a, p) # InstanceName(b, args) /\ InstanceName(b, args) # <<>>
<1> DEFINE x == [n \in DOMAIN args |-> <<args[n]>>]
<1>1. InstanceName(b, args) = <<b, "<", x>>
  BY DEF InstanceName
<1> HIDE DEF x
<1>2. Len(InstanceName(b, args)) = 3 /\ InstanceName(b, args)[2] = "<"
  BY <1>1
<1>3. ASSUME Marked(a, p) = InstanceName(b, args) PROVE FALSE
  <2>1. Len(Marked(a, p)) = Len(p) + 1
    BY MarkedLen, Zenon
  <2>r. \A n \in 2 .. Len(p) + 1 : Marked(a, p)[n] = "~"
    BY MarkedRest, Zenon
  <2>2. Len(p) + 1 = 3
    BY <1>2, <1>3, <2>1, Zenon
  <2>3. Marked(a, p)[2] = "~"
    BY <2>r, <2>2
  <2>4. Marked(a, p)[2] = "<"
    BY <1>2, <1>3, Zenon
  <2> QED
    BY <2>3, <2>4
<1> QED
  BY <1>2, <1>3

LEMMA InstanceSame ==
  ASSUME NEW a, NEW b, NEW p \in Seq(STRING), NEW q \in Seq(STRING),
         InstanceName(a, p) = InstanceName(b, q)
  PROVE  a = b /\ p = q
<1> DEFINE x == [n \in DOMAIN p |-> <<p[n]>>]  y == [n \in DOMAIN q |-> <<q[n]>>]
<1>1. <<a, "<", x>> = <<b, "<", y>>
  BY DEF InstanceName
<1>x. DOMAIN x = DOMAIN p /\ DOMAIN y = DOMAIN q
  OBVIOUS
<1>y. /\ \A n \in DOMAIN p : x[n] = <<p[n]>>
      /\ \A n \in DOMAIN q : y[n] = <<q[n]>>
  OBVIOUS
<1> HIDE DEF x, y
<1>2. a = b /\ x = y
  BY <1>1
<1>3. DOMAIN p = DOMAIN q
  BY <1>2, <1>x
<1>4. \A n \in DOMAIN p : p[n] = q[n]
  <2> SUFFICES ASSUME NEW n \in DOMAIN p PROVE p[n] = q[n]
    OBVIOUS
  <2>1. <<p[n]>> = <<q[n]>>
    BY <1>2, <1>3, <1>y
  <2> QED
    BY <2>1
<1>5. Len(p) = Len(q)
  BY <1>3
<1>6. p = q
  BY <1>4, <1>5, SeqEqual
<1> QED
  BY <1>2, <1>6

\* The name of the symbol a type node resolves to, if it does.
TypeName(t) == IF t.args = <<>> THEN <<t.name>> ELSE InstanceName(t.name, t.args)
NamesIn(types) == [n \in DOMAIN types |-> TypeName(types[n])]

LEMMA TypeNameSame ==
  ASSUME NEW s \in TypeNodes, NEW t \in TypeNodes
  PROVE  TypeName(s) = TypeName(t) <=> s = t
<1>0. /\ s.args \in Seq(STRING) /\ t.args \in Seq(STRING)
      /\ s = [name |-> s.name, args |-> s.args] /\ t = [name |-> t.name, args |-> t.args]
  BY DEF TypeNodes
<1> SUFFICES ASSUME TypeName(s) = TypeName(t) PROVE s = t
  OBVIOUS
<1>1. s.args # <<>> => TypeName(s) = InstanceName(s.name, s.args)
  BY DEF TypeName
<1>2. t.args # <<>> => TypeName(t) = InstanceName(t.name, t.args)
  BY DEF TypeName
<1>3. \A a, b, args : <<a>> # InstanceName(b, args)
  <2> TAKE a, b, args
  <2>1. <<>> \in Seq(STRING) /\ Marked(a, <<>>) = <<a>>
    <3>1. <<>> \in Seq(STRING)
      OBVIOUS
    <3> QED
      BY <3>1, MarkedPlain, Zenon DEF PlainMarked
  <2> QED
    BY <2>1, MarkedNoInstance, Zenon
<1>4. s.name = t.name /\ s.args = t.args
  <2>1. CASE s.args = <<>> /\ t.args = <<>>
    <3>1. <<s.name>> = <<t.name>>
      BY <2>1 DEF TypeName
    <3> QED
      BY <3>1, <2>1
  <2>2. CASE s.args # <<>> /\ t.args # <<>>
    BY <2>2, <1>0, <1>1, <1>2, InstanceSame
  <2>3. CASE s.args = <<>> /\ t.args # <<>>
    <3>1. TypeName(s) = <<s.name>>
      BY <2>3 DEF TypeName
    <3> QED
      BY <3>1, <2>3, <1>2, <1>3
  <2>4. CASE s.args # <<>> /\ t.args = <<>>
    <3>1. TypeName(t) = <<t.name>>
      BY <2>4 DEF TypeName
    <3> QED
      BY <3>1, <2>4, <1>1, <1>3
  <2> QED
    BY <2>1, <2>2, <2>3, <2>4
<1> QED
  BY <1>0, <1>4

\* Nor is a key of one sort a key of another.
LEMMA KeysApart ==
  ASSUME NEW x, NEW a, NEW b, NEW c, NEW d, NEW e, NEW f, NEW g
  PROVE  /\ TypeKey(x) # FunctionKey(a, b, c) /\ TypeKey(x) # GetKey(d, e)
         /\ TypeKey(x) # SetKey(f, g) /\ TypeKey(x) # This
         /\ FunctionKey(a, b, c) # GetKey(d, e) /\ FunctionKey(a, b, c) # SetKey(f, g)
         /\ FunctionKey(a, b, c) # This /\ GetKey(d, e) # SetKey(f, g)
         /\ GetKey(d, e) # This /\ SetKey(f, g) # This
BY DEF TypeKey, FunctionKey, GetKey, SetKey, This

LEMMA KeysSame ==
  ASSUME NEW a, NEW b, NEW c, NEW x, NEW y, NEW z
  PROVE  /\ TypeKey(a) = TypeKey(x) <=> a = x
         /\ FunctionKey(a, b, c) = FunctionKey(x, y, z) <=> a = x /\ b = y /\ c = z
         /\ GetKey(a, b) = GetKey(x, y) <=> a = x /\ b = y
         /\ SetKey(a, b) = SetKey(x, y) <=> a = x /\ b = y
BY DEF TypeKey, FunctionKey, GetKey, SetKey

-----------------------------------------------------------------------------
(***************************************************************************)
(* Programs.                                                               *)
(***************************************************************************)
Typed == program \in Programs

LEMMA Shape ==
  ASSUME Typed
  PROVE  /\ program.specs \in Seq(SpecNodes)
         /\ \A i \in Specs : program.specs[i] \in SpecNodes /\ i \in Nat /\ i # 0
         /\ \A i \in Owners : FunctionsOf(i) \in Seq(FunctionNodes)
         /\ \A i \in Owners : PropertiesOf(i) \in Seq(PropertyNodes)
         /\ PropertiesOf(0) = <<>>
<1>1. program \in ProgramNodes
  BY ProgramsAssumption DEF Typed
<1>2. program.specs \in Seq(SpecNodes) /\ program.functions \in Seq(FunctionNodes)
  BY <1>1 DEF ProgramNodes
<1>3. \A i \in Specs : program.specs[i] \in SpecNodes /\ i \in Nat /\ i # 0
  BY <1>2 DEF Specs
<1>4. \A s \in SpecNodes : s.functions \in Seq(FunctionNodes) /\ s.properties \in Seq(PropertyNodes)
  BY DEF SpecNodes
<1>5. \A i \in Owners : i = 0 \/ i \in Specs
  BY DEF Owners
<1>6. <<>> \in Seq(PropertyNodes)
  OBVIOUS
<1>7. \A i \in Owners : FunctionsOf(i) \in Seq(FunctionNodes)
  BY <1>2, <1>3, <1>4, <1>5 DEF FunctionsOf
<1>8. \A i \in Owners : PropertiesOf(i) \in Seq(PropertyNodes)
  BY <1>3, <1>4, <1>5, <1>6 DEF PropertiesOf
<1>9. PropertiesOf(0) = <<>>
  BY DEF PropertiesOf
<1> QED
  BY <1>2, <1>3, <1>7, <1>8, <1>9

LEMMA FunctionShape ==
  ASSUME NEW f \in FunctionNodes
  PROVE  /\ f.name \in STRING /\ f.ret \in TypeNodes
         /\ f.params \in Seq(TypeNodes) /\ f.uses \in Seq(Uses)
BY DEF FunctionNodes

LEMMA TypeShape ==
  ASSUME NEW t \in TypeNodes
  PROVE  t.name \in STRING /\ t.name # "this" /\ t.args \in Seq(STRING)
BY DEF TypeNodes

LEMMA SpecShape ==
  ASSUME NEW s \in SpecNodes
  PROVE  s.name \in STRING /\ s.params \in Seq(STRING)
BY DEF SpecNodes

LEMMA SpecNames ==
  ASSUME Typed, NEW i \in Specs
  PROVE  /\ SpecName(i) = Marked(program.specs[i].name, program.specs[i].params)
         /\ SpecName(i) # <<>>
         /\ \A name : SpecName(i) = <<name>> <=> program.specs[i].name = name /\ ~IsGeneric(i)
         /\ \A name, args : SpecName(i) # InstanceName(name, args)
<1>1. i # 0 /\ program.specs[i].params \in Seq(STRING)
  BY Shape, SpecShape
<1>2. SpecName(i) = Marked(program.specs[i].name, program.specs[i].params)
  BY <1>1 DEF SpecName
<1>3. SpecName(i) # <<>>
  <2>1. \A a, p : p \in Seq(STRING) => Marked(a, p) # <<>>
    BY MarkedPlain, Zenon
  <2> QED
    BY <1>1, <1>2, <2>1
<1>4. \A name : SpecName(i) = <<name>> <=> program.specs[i].name = name /\ ~IsGeneric(i)
  <2> TAKE name
  <2>1. PlainMarked(program.specs[i].name, program.specs[i].params, name)
    BY <1>1, MarkedPlain, Zenon
  <2> QED
    BY <1>2, <2>1 DEF IsGeneric, PlainMarked
<1>5. \A name, args : SpecName(i) # InstanceName(name, args)
  BY <1>1, <1>2, MarkedNoInstance, Zenon
<1> QED
  BY <1>2, <1>3, <1>4, <1>5

LEMMA SpecName0 == SpecName(0) = <<>>
BY DEF SpecName

LEMMA SpecNamesSame ==
  ASSUME Typed, NEW i \in Specs, NEW name, NEW args \in Seq(STRING)
  PROVE  SpecName(i) = Marked(name, args)
           <=> program.specs[i].name = name /\ Len(program.specs[i].params) = Len(args)
<1>1. program.specs[i].params \in Seq(STRING)
  BY Shape, SpecShape
<1>2. SameMarked(program.specs[i].name, program.specs[i].params, name, args)
  BY <1>1, MarkedSame, Zenon
<1> QED
  BY <1>2, SpecNames DEF SameMarked

LEMMA Builtin ==
  ASSUME NEW b \in BUILTIN_TYPES
  PROVE  /\ \E t \in Sizes!BuiltinTypes :
              b = [kind |-> "type", name |-> <<t>>, size |-> Sizes!SizeOf(t)]
         /\ b.kind = "type" /\ b.name = <<b.name[1]>> /\ b.size = Sizes!SizeOf(b.name[1])
         /\ b.name[1] \in Sizes!BuiltinTypes
<1>1. PICK t \in Sizes!BuiltinTypes :
        b = [kind |-> "type", name |-> <<t>>, size |-> Sizes!SizeOf(t)]
  BY DEF BUILTIN_TYPES
<1>2. b.name = <<t>> /\ b.kind = "type" /\ b.size = Sizes!SizeOf(t)
  BY <1>1
<1>3. b.name[1] = t
  BY <1>2
<1> QED
  BY <1>1, <1>2, <1>3

-----------------------------------------------------------------------------
(***************************************************************************)
(* Meanings.  A type node that means something means the same everywhere,  *)
(* and nothing else means that.                                            *)
(***************************************************************************)
PlainKnown(i, name) ==
  \/ \E b \in BUILTIN_TYPES : b.name = <<name>>
  \/ \E k \in Specs : SpecName(k) = <<name>>
  \/ i # 0 /\ name \in Elements(program.specs[i].params)

IsMeaning(i, name, m) ==
  \/ m = <<"built in", name>> /\ \E b \in BUILTIN_TYPES : b.name = <<name>>
  \/ \E k \in Specs : m = <<"spec", k>> /\ SpecName(k) = <<name>>
  \/ /\ m = <<"parameter", name>>
     /\ ~ \E b \in BUILTIN_TYPES : b.name = <<name>>
     /\ ~ \E k \in Specs : SpecName(k) = <<name>>
     /\ i # 0 /\ name \in Elements(program.specs[i].params)

LEMMA PlainIs ==
  ASSUME Typed, NEW i, NEW name, NEW m
  PROVE  m \in PlainMeanings(i, name) <=> IsMeaning(i, name, m)
<1> DEFINE bs == {<<"built in", s.name[1]>> : s \in {b \in BUILTIN_TYPES : b.name = <<name>>}}
           ks == {<<"spec", k>> : k \in {k \in Specs : program.specs[k].name = name
                                                        /\ ~IsGeneric(k)}}
           ps == IF i = 0 THEN {} ELSE Elements(program.specs[i].params)
<1>1. PlainMeanings(i, name) =
        IF bs \cup ks # {} THEN bs \cup ks ELSE {<<"parameter", name>> : p \in {name} \cap ps}
  BY DEF PlainMeanings
<1>2. m \in bs <=> m = <<"built in", name>> /\ \E b \in BUILTIN_TYPES : b.name = <<name>>
  <2>1. \A b \in BUILTIN_TYPES : b.name = <<name>> => b.name[1] = name
    OBVIOUS
  <2> QED
    BY <2>1
<1>3. m \in ks <=> \E k \in Specs : m = <<"spec", k>> /\ SpecName(k) = <<name>>
  BY SpecNames, Zenon
<1>4. bs # {} <=> \E b \in BUILTIN_TYPES : b.name = <<name>>
  OBVIOUS
<1>5. ks # {} <=> \E k \in Specs : SpecName(k) = <<name>>
  BY SpecNames, Zenon
<1>6. m \in {<<"parameter", name>> : p \in {name} \cap ps}
        <=> m = <<"parameter", name>> /\ i # 0 /\ name \in Elements(program.specs[i].params)
  OBVIOUS
<1> HIDE DEF bs, ks, ps
<1> QED
  BY <1>1, <1>2, <1>3, <1>4, <1>5, <1>6 DEF IsMeaning

LEMMA PlainIff ==
  ASSUME Typed, NEW i, NEW name
  PROVE  PlainMeanings(i, name) # {} <=> PlainKnown(i, name)
<1>1. ASSUME NEW m \in PlainMeanings(i, name) PROVE PlainKnown(i, name)
  BY PlainIs DEF IsMeaning, PlainKnown
<1>2. ASSUME PlainKnown(i, name) PROVE \E m : IsMeaning(i, name, m)
  <2>1. CASE \E b \in BUILTIN_TYPES : b.name = <<name>>
    <3>1. IsMeaning(i, name, <<"built in", name>>)
      BY <2>1 DEF IsMeaning
    <3> QED
      BY <3>1
  <2>2. CASE \E k \in Specs : SpecName(k) = <<name>>
    <3>1. PICK k \in Specs : SpecName(k) = <<name>>
      BY <2>2
    <3>2. IsMeaning(i, name, <<"spec", k>>)
      BY <3>1 DEF IsMeaning
    <3> QED
      BY <3>2
  <2>3. CASE /\ ~ (\E b \in BUILTIN_TYPES : b.name = <<name>>)
             /\ ~ (\E k \in Specs : SpecName(k) = <<name>>)
    <3>1. IsMeaning(i, name, <<"parameter", name>>)
      BY <2>3, <1>2 DEF IsMeaning, PlainKnown
    <3> QED
      BY <3>1
  <2> QED
    BY <2>1, <2>2, <2>3
<1> QED
  BY <1>1, <1>2, PlainIs

LEMMA PlainAnywhere ==
  ASSUME Typed, NEW i, NEW k, NEW name,
         PlainMeanings(i, name) # {}, PlainMeanings(k, name) # {}
  PROVE  PlainMeanings(i, name) = PlainMeanings(k, name)
<1>1. PlainKnown(i, name) /\ PlainKnown(k, name)
  BY PlainIff
<1>2. \A m : IsMeaning(i, name, m) <=> IsMeaning(k, name, m)
  BY <1>1 DEF IsMeaning, PlainKnown
<1>3. \A m : m \in PlainMeanings(i, name) <=> m \in PlainMeanings(k, name)
  BY <1>2, PlainIs
<1> QED
  BY <1>3

LEMMA PlainInjective ==
  ASSUME Typed, NEW i, NEW k, NEW name, NEW other,
         PlainMeanings(i, name) # {}, PlainMeanings(i, name) = PlainMeanings(k, other)
  PROVE  name = other
<1>1. PICK m : m \in PlainMeanings(i, name)
  OBVIOUS
<1>2. IsMeaning(i, name, m) /\ IsMeaning(k, other, m)
  BY <1>1, PlainIs
<1>3. CASE m = <<"built in", name>>
  BY <1>2, <1>3 DEF IsMeaning
<1>4. CASE \E l \in Specs : m = <<"spec", l>> /\ SpecName(l) = <<name>>
  BY <1>2, <1>4 DEF IsMeaning
<1>5. CASE m = <<"parameter", name>>
  BY <1>2, <1>5 DEF IsMeaning
<1> QED
  BY <1>2, <1>3, <1>4, <1>5 DEF IsMeaning

LEMMA PlainTags ==
  ASSUME Typed, NEW i, NEW name, NEW m \in PlainMeanings(i, name)
  PROVE  m[1] # "instance" /\ (m[1] = "spec" => \E k \in Specs : m = <<"spec", k>> /\ SpecName(k) = <<name>>)
<1>1. IsMeaning(i, name, m)
  BY PlainIs
<1>2. CASE m = <<"built in", name>>
  BY <1>2
<1>3. CASE \E k \in Specs : m = <<"spec", k>> /\ SpecName(k) = <<name>>
  BY <1>3
<1>4. CASE m = <<"parameter", name>>
  BY <1>4
<1> QED
  BY <1>1, <1>2, <1>3, <1>4 DEF IsMeaning

\* Whether a type node stands for an instance of spec k.
Instantiates(i, t, k) ==
  /\ program.specs[k].name = t.name
  /\ Len(program.specs[k].params) = Len(t.args)
  /\ \A n \in DOMAIN t.args : PlainMeanings(i, t.args[n]) # {}
InstanceOf(i, t, k) == <<"instance", k, [n \in DOMAIN t.args |-> PlainMeanings(i, t.args[n])]>>

LEMMA MeaningsAre ==
  ASSUME Typed, NEW i, NEW t \in TypeNodes
  PROVE  /\ t.args = <<>> => Meanings(i, t) = PlainMeanings(i, t.name)
         /\ t.args # <<>> =>
              \A m : m \in Meanings(i, t)
                       <=> \E k \in Specs : Instantiates(i, t, k) /\ m = InstanceOf(i, t, k)
<1>1. t.name # "this"
  BY TypeShape
<1>2. ASSUME t.args # <<>>, NEW m
      PROVE  m \in Meanings(i, t) <=> \E k \in Specs : Instantiates(i, t, k) /\ m = InstanceOf(i, t, k)
  BY <1>1, <1>2 DEF Meanings, Instantiates, InstanceOf
<1>3. t.args = <<>> => Meanings(i, t) = PlainMeanings(i, t.name)
  BY <1>1 DEF Meanings
<1> QED
  BY <1>2, <1>3

LEMMA MeansAnywhere ==
  ASSUME Typed, NEW i, NEW k, NEW t \in TypeNodes, Means(i, t), Means(k, t)
  PROVE  Meanings(i, t) = Meanings(k, t)
<1>1. CASE t.args = <<>>
  BY <1>1, MeaningsAre, PlainAnywhere DEF Means
<1>2. CASE t.args # <<>>
  <2>1. /\ \A n \in DOMAIN t.args : PlainMeanings(i, t.args[n]) # {}
        /\ \A n \in DOMAIN t.args : PlainMeanings(k, t.args[n]) # {}
    BY <1>2, MeaningsAre DEF Means, Instantiates
  <2>2. \A n \in DOMAIN t.args : PlainMeanings(i, t.args[n]) = PlainMeanings(k, t.args[n])
    BY <2>1, PlainAnywhere
  <2>3. \A l : InstanceOf(i, t, l) = InstanceOf(k, t, l)
    BY <2>2 DEF InstanceOf
  <2>4. \A l : Instantiates(i, t, l) <=> Instantiates(k, t, l)
    BY <2>1 DEF Instantiates
  <2>5. \A m : m \in Meanings(i, t) <=> m \in Meanings(k, t)
    BY <1>2, <2>3, <2>4, MeaningsAre
  <2> QED
    BY <2>5
<1> QED
  BY <1>1, <1>2

LEMMA MeansInjective ==
  ASSUME Typed, NEW i, NEW k, NEW s \in TypeNodes, NEW t \in TypeNodes,
         Means(i, s), Meanings(i, s) = Meanings(k, t)
  PROVE  s = t
<1>1. PICK m : m \in Meanings(i, s) /\ m \in Meanings(k, t)
  BY DEF Means
<1>0. /\ s.args \in Seq(STRING) /\ t.args \in Seq(STRING)
      /\ s = [name |-> s.name, args |-> s.args] /\ t = [name |-> t.name, args |-> t.args]
  BY DEF TypeNodes
<1>2. s.args # <<>> => m[1] = "instance"
  BY <1>1, MeaningsAre DEF InstanceOf
<1>3. t.args # <<>> => m[1] = "instance"
  BY <1>1, MeaningsAre DEF InstanceOf
<1>4. s.args = <<>> => m[1] # "instance"
  BY <1>1, MeaningsAre, PlainTags
<1>5. t.args = <<>> => m[1] # "instance"
  BY <1>1, MeaningsAre, PlainTags
<1>6. CASE s.args = <<>>
  <2>1. t.args = <<>>
    BY <1>6, <1>3, <1>4
  <2>2. s.name = t.name
    BY <1>6, <2>1, <1>1, MeaningsAre, PlainInjective
  <2> QED
    BY <1>0, <1>6, <2>1, <2>2
<1>7. CASE s.args # <<>>
  <2>1. t.args # <<>>
    BY <1>7, <1>2, <1>5
  <2>2. PICK x \in Specs : Instantiates(i, s, x) /\ m = InstanceOf(i, s, x)
    BY <1>7, <1>1, MeaningsAre
  <2>3. PICK y \in Specs : Instantiates(k, t, y) /\ m = InstanceOf(k, t, y)
    BY <2>1, <1>1, MeaningsAre
  <2> DEFINE f == [n \in DOMAIN s.args |-> PlainMeanings(i, s.args[n])]
             g == [n \in DOMAIN t.args |-> PlainMeanings(k, t.args[n])]
  <2>4. m = <<"instance", x, f>> /\ m = <<"instance", y, g>>
    BY <2>2, <2>3 DEF InstanceOf
  <2>a. DOMAIN f = DOMAIN s.args /\ DOMAIN g = DOMAIN t.args
    OBVIOUS
  <2>b. /\ \A n \in DOMAIN s.args : f[n] = PlainMeanings(i, s.args[n])
        /\ \A n \in DOMAIN t.args : g[n] = PlainMeanings(k, t.args[n])
    OBVIOUS
  <2> HIDE DEF f, g
  <2>5. x = y /\ f = g
    BY <2>4
  <2>6. s.name = t.name /\ Len(s.args) = Len(t.args)
    BY <2>2, <2>3, <2>5 DEF Instantiates
  <2>7. DOMAIN s.args = DOMAIN t.args
    BY <2>5, <2>a
  <2>8. \A n \in DOMAIN s.args : s.args[n] = t.args[n]
    <3> SUFFICES ASSUME NEW n \in DOMAIN s.args PROVE s.args[n] = t.args[n]
      OBVIOUS
    <3>1. PlainMeanings(i, s.args[n]) = PlainMeanings(k, t.args[n])
      BY <2>5, <2>7, <2>b
    <3>2. PlainMeanings(i, s.args[n]) # {}
      BY <2>2 DEF Instantiates
    <3> QED
      BY <3>1, <3>2, PlainInjective
  <2>9. s.args = t.args
    BY <1>0, <2>6, <2>8, SeqEqual
  <2> QED
    BY <1>0, <2>6, <2>9
<1> QED
  BY <1>6, <1>7

\* The same of sequences of types.
AllMean(i, types) == \A n \in DOMAIN types : Means(i, types[n])
SameTypes(i, k, ss, ts) ==
  /\ Signature(i, ss) = Signature(k, ts) <=> ss = ts
  /\ NamesIn(ss) = NamesIn(ts) <=> ss = ts
LEMMA SignatureSame ==
  ASSUME Typed, NEW i, NEW k, NEW ss \in Seq(TypeNodes), NEW ts \in Seq(TypeNodes),
         AllMean(i, ss), AllMean(k, ts)
  PROVE  SameTypes(i, k, ss, ts)
<1>0. /\ \A n \in DOMAIN ss : ss[n] \in TypeNodes
      /\ \A n \in DOMAIN ts : ts[n] \in TypeNodes
  OBVIOUS
<1>d. DOMAIN ss = DOMAIN ts => Len(ss) = Len(ts)
  OBVIOUS
<1>s. /\ DOMAIN Signature(i, ss) = DOMAIN ss /\ \A n \in DOMAIN ss : Signature(i, ss)[n] = Meanings(i, ss[n])
      /\ DOMAIN Signature(k, ts) = DOMAIN ts /\ \A n \in DOMAIN ts : Signature(k, ts)[n] = Meanings(k, ts[n])
  BY DEF Signature
<1>n. /\ DOMAIN NamesIn(ss) = DOMAIN ss /\ \A n \in DOMAIN ss : NamesIn(ss)[n] = TypeName(ss[n])
      /\ DOMAIN NamesIn(ts) = DOMAIN ts /\ \A n \in DOMAIN ts : NamesIn(ts)[n] = TypeName(ts[n])
  BY DEF NamesIn
<1>1. ASSUME Signature(i, ss) = Signature(k, ts) PROVE ss = ts
  <2>1. DOMAIN ss = DOMAIN ts /\ \A n \in DOMAIN ss : Meanings(i, ss[n]) = Meanings(k, ts[n])
    BY <1>s, <1>1, Zenon
  <2>2. \A n \in DOMAIN ss : ss[n] = ts[n]
    BY <2>1, <1>0, MeansInjective DEF AllMean
  <2> QED
    BY <2>1, <2>2, <1>d, SeqEqual
<1>2. ASSUME NamesIn(ss) = NamesIn(ts) PROVE ss = ts
  <2>1. DOMAIN ss = DOMAIN ts /\ \A n \in DOMAIN ss : TypeName(ss[n]) = TypeName(ts[n])
    BY <1>n, <1>2, Zenon
  <2>2. \A n \in DOMAIN ss : ss[n] = ts[n]
    BY <2>1, <1>0, TypeNameSame, Zenon
  <2> QED
    BY <2>1, <2>2, <1>d, SeqEqual
<1>3. ASSUME ss = ts PROVE Signature(i, ss) = Signature(k, ts)
  <2>1. \A n \in DOMAIN ss : Meanings(i, ss[n]) = Meanings(k, ss[n])
    BY <1>3, <1>0, MeansAnywhere DEF AllMean
  <2> QED
    BY <1>3, <2>1 DEF Signature
<1> QED
  BY <1>1, <1>2, <1>3 DEF SameTypes

-----------------------------------------------------------------------------
(***************************************************************************)
(* Resolution.  In a table that holds every type, with the parameters of   *)
(* spec i on top, a type node is found if it means something in spec i.    *)
(***************************************************************************)
HoldsTypes(B) ==
  /\ \A b \in BUILTIN_TYPES : TypeKey(b.name) \in DOMAIN B /\ B[TypeKey(b.name)] = b
  /\ \A k \in Specs : TypeKey(SpecName(k)) \in DOMAIN B /\ B[TypeKey(SpecName(k))] = SpecSymbol(k)
  /\ \A x : TypeKey(x) \in DOMAIN B =>
              (\E b \in BUILTIN_TYPES : x = b.name) \/ (\E k \in Specs : x = SpecName(k))
  /\ This \notin DOMAIN B

TableOf(B, i) == IF i = 0 THEN <<B>> ELSE <<B, ParamScope(i)>>

LEMMA ParamScopeIs ==
  ASSUME NEW i, NEW k
  PROVE  /\ k \in DOMAIN ParamScope(i) <=>
              k = This \/ \E name \in Elements(program.specs[i].params) : k = TypeKey(<<name>>)
         /\ ParamScope(i)[This] = SpecSymbol(i)
         /\ \A name \in Elements(program.specs[i].params) :
              ParamScope(i)[TypeKey(<<name>>)] = TemplateType(name)
<1>1. DOMAIN ParamScope(i) = ParamKeys(i) \cup {This}
  BY DEF ParamScope
<1>2. k \in ParamKeys(i) <=> \E name \in Elements(program.specs[i].params) : k = TypeKey(<<name>>)
  BY DEF ParamKeys, Elements
<1>3. ParamScope(i)[This] = SpecSymbol(i)
  BY DEF ParamScope
<1>4. ASSUME NEW name \in Elements(program.specs[i].params)
      PROVE  ParamScope(i)[TypeKey(<<name>>)] = TemplateType(name)
  <2>1. TypeKey(<<name>>) \in ParamKeys(i)
    BY DEF ParamKeys, Elements
  <2>2. TypeKey(<<name>>) # This
    BY KeysApart
  <2>3. TypeKey(<<name>>)[2][1] = name
    BY DEF TypeKey
  <2> QED
    BY <2>1, <2>2, <2>3 DEF ParamScope
<1> QED
  BY <1>1, <1>2, <1>3, <1>4

LEMMA LookIn ==
  ASSUME NEW B, NEW i, NEW k
  PROVE  Look(TableOf(B, i), k) =
           IF i # 0 /\ k \in DOMAIN ParamScope(i) THEN {ParamScope(i)[k]}
           ELSE IF k \in DOMAIN B THEN {B[k]} ELSE {}
BY LookInOne, LookInTwo DEF TableOf

\* A symbol that is found for a plain name.
PlainSymbol(s, name) == s.name = <<name>> /\ s.kind # "generic"
LEMMA ArgumentIs ==
  ASSUME Typed, NEW B, HoldsTypes(B), NEW i \in Owners, NEW name
  PROVE  /\ PlainKnown(i, name) =>
              \E s : Argument(TableOf(B, i), name) = {s} /\ PlainSymbol(s, name)
         /\ ~PlainKnown(i, name) => Argument(TableOf(B, i), name) = {}
<1> DEFINE key == TypeKey(<<name>>)
<1>a. Argument(TableOf(B, i), name) = Look(TableOf(B, i), key)
  BY DEF Argument
<1>b. key # This
  BY KeysApart
<1>1. CASE i # 0 /\ name \in Elements(program.specs[i].params)
  <2>1. key \in DOMAIN ParamScope(i) /\ ParamScope(i)[key] = TemplateType(name)
    BY <1>1, ParamScopeIs
  <2>2. Argument(TableOf(B, i), name) = {TemplateType(name)}
    BY <1>1, <1>a, <2>1, LookIn
  <2>3. PlainSymbol(TemplateType(name), name)
    BY DEF TemplateType, PlainSymbol
  <2> QED
    BY <2>2, <2>3, <1>1 DEF PlainKnown
<1>2. CASE ~ (i # 0 /\ name \in Elements(program.specs[i].params))
  <2>1. ~ (i # 0 /\ key \in DOMAIN ParamScope(i))
    <3> SUFFICES ASSUME i # 0, key \in DOMAIN ParamScope(i) PROVE FALSE
      OBVIOUS
    <3>1. PICK other \in Elements(program.specs[i].params) : key = TypeKey(<<other>>)
      BY <1>b, ParamScopeIs
    <3>2. <<name>> = <<other>>
      BY <3>1, KeysSame
    <3> QED
      BY <3>1, <3>2, <1>2
  <2>2. Argument(TableOf(B, i), name) = IF key \in DOMAIN B THEN {B[key]} ELSE {}
    BY <2>1, <1>a, LookIn
  <2>3. CASE \E b \in BUILTIN_TYPES : b.name = <<name>>
    <3>1. PICK b \in BUILTIN_TYPES : b.name = <<name>>
      BY <2>3
    <3>2. key \in DOMAIN B /\ B[key] = b
      BY <3>1 DEF HoldsTypes
    <3>3. PlainSymbol(b, name)
      BY <3>1, Builtin DEF PlainSymbol
    <3> QED
      BY <2>2, <2>3, <3>2, <3>3 DEF PlainKnown
  <2>4. CASE \E k \in Specs : SpecName(k) = <<name>>
    <3>1. PICK k \in Specs : SpecName(k) = <<name>>
      BY <2>4
    <3>2. key \in DOMAIN B /\ B[key] = SpecSymbol(k)
      BY <3>1 DEF HoldsTypes
    <3>3. ~IsGeneric(k)
      BY <3>1, SpecNames
    <3>4. PlainSymbol(SpecSymbol(k), name)
      BY <3>1, <3>3 DEF PlainSymbol, SpecSymbol, IsGeneric
    <3> QED
      BY <2>2, <2>4, <3>2, <3>4 DEF PlainKnown
  <2>5. CASE ~ (\E b \in BUILTIN_TYPES : b.name = <<name>>) /\ ~ (\E k \in Specs : SpecName(k) = <<name>>)
    <3>1. key \notin DOMAIN B
      BY <2>5 DEF HoldsTypes
    <3>2. ~PlainKnown(i, name)
      BY <2>5, <1>2 DEF PlainKnown
    <3> QED
      BY <3>1, <3>2, <2>2
  <2> QED
    BY <2>3, <2>4, <2>5
<1> QED
  BY <1>1, <1>2

\* Table t resolves type node "type" to s.
ResolvesTo(table, type, s) == Resolve(table, type) = {s} /\ s.name = TypeName(type)

LEMMA ResolvePlain ==
  ASSUME Typed, NEW B, HoldsTypes(B), NEW i \in Owners, NEW t \in TypeNodes, t.args = <<>>
  PROVE  /\ Means(i, t) => \E s : ResolvesTo(TableOf(B, i), t, s)
         /\ ~Means(i, t) => Resolve(TableOf(B, i), t) = {}
<1> DEFINE table == TableOf(B, i)
<1>1. Means(i, t) <=> PlainKnown(i, t.name)
  BY MeaningsAre, PlainIff DEF Means
<1>2. Marked(t.name, t.args) = <<t.name>>
  <2>1. t.args \in Seq(STRING)
    BY TypeShape
  <2>2. PlainMarked(t.name, t.args, t.name)
    BY <2>1, MarkedPlain, Zenon
  <2> QED
    BY <2>2 DEF PlainMarked
<1>3. Look(table, TypeKey(Marked(t.name, t.args))) = Argument(table, t.name)
  BY <1>2 DEF Argument
<1> HIDE DEF table
<1>4. ASSUME PlainKnown(i, t.name) PROVE \E s : ResolvesTo(table, t, s)
  <2>1. PICK s : Argument(table, t.name) = {s} /\ PlainSymbol(s, t.name)
    BY <1>4, ArgumentIs DEF table
  <2>2. Resolve(table, t) = {s}
    BY <2>1, <1>3 DEF Resolve, PlainSymbol
  <2>3. TypeName(t) = <<t.name>>
    BY DEF TypeName
  <2> QED
    BY <2>1, <2>2, <2>3 DEF ResolvesTo, PlainSymbol
<1>5. ASSUME ~PlainKnown(i, t.name) PROVE Resolve(table, t) = {}
  <2>1. Argument(table, t.name) = {}
    BY <1>5, ArgumentIs DEF table
  <2> QED
    BY <2>1, <1>3 DEF Resolve
<1> QED
  BY <1>1, <1>4, <1>5 DEF table

LEMMA ResolveInstance ==
  ASSUME Typed, NEW B, HoldsTypes(B), NEW i \in Owners, NEW t \in TypeNodes, t.args # <<>>
  PROVE  /\ Means(i, t) => \E s : ResolvesTo(TableOf(B, i), t, s)
         /\ ~Means(i, t) => Resolve(TableOf(B, i), t) = {}
<1> DEFINE table == TableOf(B, i)
           key == TypeKey(Marked(t.name, t.args))
<1>0. t.args \in Seq(STRING)
  BY TypeShape
<1>1. \A name : Marked(t.name, t.args) # <<name>>
  <2> TAKE name
  <2>1. PlainMarked(t.name, t.args, name)
    BY <1>0, MarkedPlain, Zenon
  <2> QED
    BY <2>1 DEF PlainMarked
<1>2. Look(table, key) = IF key \in DOMAIN B THEN {B[key]} ELSE {}
  <2>1. key # This /\ \A name : key # TypeKey(<<name>>)
    BY <1>1, KeysApart, KeysSame
  <2>2. key \notin DOMAIN ParamScope(i)
    BY <2>1, ParamScopeIs
  <2> QED
    BY <2>2, LookIn
<1>3. key \in DOMAIN B <=> \E k \in Specs : SpecName(k) = Marked(t.name, t.args)
  <2>1. \A b \in BUILTIN_TYPES : Marked(t.name, t.args) # b.name
    BY <1>1, Builtin
  <2> QED
    BY <2>1 DEF HoldsTypes
<1>4. ASSUME NEW k \in Specs, SpecName(k) = Marked(t.name, t.args)
      PROVE  key \in DOMAIN B /\ B[key] = SpecSymbol(k) /\ SpecSymbol(k).kind = "generic"
  <2>1. key \in DOMAIN B /\ B[key] = SpecSymbol(k)
    BY <1>4 DEF HoldsTypes
  <2>2. Len(program.specs[k].params) = Len(t.args)
    BY <1>0, <1>4, SpecNamesSame
  <2>3. program.specs[k].params # <<>>
    BY <1>0, <2>2
  <2> QED
    BY <2>1, <2>3 DEF SpecSymbol
<1> DEFINE allfound == \A n \in DOMAIN t.args : Argument(table, t.args[n]) # {}
<1>5. allfound <=> \A n \in DOMAIN t.args : PlainMeanings(i, t.args[n]) # {}
  <2>1. \A n \in DOMAIN t.args : Argument(table, t.args[n]) # {} <=> PlainKnown(i, t.args[n])
    <3> TAKE n \in DOMAIN t.args
    <3> QED
      BY ArgumentIs
  <2> QED
    BY <2>1, PlainIff
<1>6. Means(i, t) <=> allfound /\ \E k \in Specs : SpecName(k) = Marked(t.name, t.args)
  <2>1. Means(i, t) <=> \E k \in Specs : Instantiates(i, t, k)
    BY MeaningsAre DEF Means
  <2>2. \A k \in Specs : Instantiates(i, t, k) <=> allfound /\ SpecName(k) = Marked(t.name, t.args)
    BY <1>0, <1>5, SpecNamesSame DEF Instantiates
  <2> HIDE DEF allfound
  <2> QED
    BY <2>1, <2>2
<1> HIDE DEF table, key
<1>7. ASSUME Means(i, t) PROVE \E s : ResolvesTo(table, t, s)
  <2>1. PICK k \in Specs : SpecName(k) = Marked(t.name, t.args)
    BY <1>6, <1>7
  <2>2. Look(table, key) = {SpecSymbol(k)} /\ SpecSymbol(k).kind = "generic"
    BY <2>1, <1>2, <1>4
  <2>3. Resolve(table, t) = {Instance(table, t)}
    BY <2>2, <1>6, <1>7 DEF Resolve, key
  <2>4. \A n \in DOMAIN t.args : The(Argument(table, t.args[n])).name = <<t.args[n]>>
    <3> TAKE n \in DOMAIN t.args
    <3>1. PlainKnown(i, t.args[n])
      BY <1>5, <1>6, <1>7, PlainIff
    <3>2. PICK s : Argument(table, t.args[n]) = {s} /\ PlainSymbol(s, t.args[n])
      BY <3>1, ArgumentIs DEF table
    <3> QED
      BY <3>2, TheOnly DEF PlainSymbol
  <2>5. Instance(table, t).name = InstanceName(t.name, t.args)
    BY <2>4 DEF Instance, InstanceName
  <2>6. TypeName(t) = InstanceName(t.name, t.args)
    BY DEF TypeName
  <2> QED
    BY <2>3, <2>5, <2>6 DEF ResolvesTo
<1>8. ASSUME ~Means(i, t) PROVE Resolve(table, t) = {}
  <2>1. CASE \E k \in Specs : SpecName(k) = Marked(t.name, t.args)
    <3>1. PICK k \in Specs : SpecName(k) = Marked(t.name, t.args)
      BY <2>1
    <3>2. Look(table, key) = {SpecSymbol(k)} /\ SpecSymbol(k).kind = "generic"
      BY <3>1, <1>2, <1>4
    <3>3. ~allfound
      BY <2>1, <1>6, <1>8
    <3> QED
      BY <3>2, <3>3 DEF Resolve, key
  <2>2. CASE ~ \E k \in Specs : SpecName(k) = Marked(t.name, t.args)
    <3>1. Look(table, key) = {}
      BY <2>2, <1>2, <1>3
    <3> QED
      BY <3>1 DEF Resolve, key
  <2> QED
    BY <2>1, <2>2
<1> QED
  BY <1>7, <1>8 DEF table

LEMMA ResolveIs ==
  ASSUME Typed, NEW B, HoldsTypes(B), NEW i \in Owners, NEW t \in TypeNodes
  PROVE  /\ Means(i, t) => \E s : ResolvesTo(TableOf(B, i), t, s)
         /\ ~Means(i, t) => Resolve(TableOf(B, i), t) = {}
BY ResolvePlain, ResolveInstance, Zenon

\* The same of sequences of type nodes.
ResolveTo(table, types, ss) ==
  /\ ResolveAll(table, types) = {ss}
  /\ DOMAIN ss = DOMAIN types
  /\ \A n \in DOMAIN types : ss[n].name = TypeName(types[n])

LEMMA ResolveAllIs ==
  ASSUME Typed, NEW B, HoldsTypes(B), NEW i \in Owners, NEW types \in Seq(TypeNodes)
  PROVE  /\ AllMean(i, types) => \E ss : ResolveTo(TableOf(B, i), types, ss)
         /\ ~AllMean(i, types) => ResolveAll(TableOf(B, i), types) = {}
<1> DEFINE table == TableOf(B, i)
<1>0. \A n \in DOMAIN types : types[n] \in TypeNodes
  OBVIOUS
<1>1. \A n \in DOMAIN types : Means(i, types[n]) => \E s : ResolvesTo(table, types[n], s)
  BY <1>0, ResolveIs, Zenon
<1>2. \A n \in DOMAIN types : ~Means(i, types[n]) => Resolve(table, types[n]) = {}
  BY <1>0, ResolveIs, Zenon
<1> HIDE DEF table
<1>3. ASSUME AllMean(i, types) PROVE \E ss : ResolveTo(table, types, ss)
  <2> DEFINE ss == [n \in DOMAIN types |-> The(Resolve(table, types[n]))]
  <2>1. \A n \in DOMAIN types : Resolve(table, types[n]) # {} /\ ss[n].name = TypeName(types[n])
    <3> TAKE n \in DOMAIN types
    <3>1. PICK s : ResolvesTo(table, types[n], s)
      BY <1>1, <1>3 DEF AllMean
    <3>2. ss[n] = s
      BY <3>1, TheOnly DEF ResolvesTo
    <3> QED
      BY <3>1, <3>2 DEF ResolvesTo
  <2>2. ResolveAll(table, types) = {ss}
    BY <2>1 DEF ResolveAll
  <2>3. DOMAIN ss = DOMAIN types
    OBVIOUS
  <2> HIDE DEF ss
  <2>4. ResolveTo(table, types, ss)
    BY <2>1, <2>2, <2>3 DEF ResolveTo
  <2> QED
    BY <2>4
<1>4. ASSUME ~AllMean(i, types) PROVE ResolveAll(table, types) = {}
  BY <1>2, <1>4 DEF AllMean, ResolveAll
<1> QED
  BY <1>3, <1>4 DEF table

LEMMA NamesResolved ==
  ASSUME NEW table, NEW types, NEW ss, ResolveTo(table, types, ss)
  PROVE  NamesOf(ss) = NamesIn(types)
BY DEF ResolveTo, NamesOf, NamesIn

-----------------------------------------------------------------------------
(***************************************************************************)
(* The walk.  What lies behind the place a pass is at.                     *)
(***************************************************************************)
Beyond(scan, i, j) ==
  \/ at.scan > scan
  \/ at.scan = scan /\ (at.spec > i \/ (at.spec = i /\ at.item > j))

AllHeaders == {v \in Owners \X Nat : v[2] \in DOMAIN FunctionsOf(v[1])}
AllProperties == {v \in Specs \X Nat : v[2] \in DOMAIN PropertiesOf(v[1])}

Defs == {i \in Specs : Beyond(1, i, 0)}
Sized == {i \in Specs : Beyond(1, i, Len(PropertiesOf(i)))}
Entries == {i \in Specs : Beyond(2, i, 0)}
Heads == {v \in AllHeaders : Beyond(2, v[1], v[2])}
Props == {v \in AllProperties : Beyond(2, v[1], Len(FunctionsOf(v[1])) + v[2])}
Bodies == {v \in AllHeaders : Beyond(3, v[1], v[2])}

AtOK ==
  /\ at \in [scan : 1 .. 4, spec : 0 .. Len(program.specs), item : Nat]
  /\ at.spec = 0 => at.item >= 1
  /\ at.scan <= 3 /\ phase \in {"check", "generate"} =>
       at.item <= Last(at.scan, at.spec) + 1 \/ at.spec = 0
  /\ at.scan = 4 => at.spec = 0

\* The scope that is open: of the spec the pass is in, or none.
Open ==
  IF at.scan \in {2, 3} /\ at.spec # 0 /\ at.item \in 1 .. Last(at.scan, at.spec)
  THEN at.spec ELSE 0

LEMMA OwnerSet ==
  ASSUME Typed
  PROVE  /\ Specs = 1 .. Len(program.specs) /\ Len(program.specs) \in Nat
         /\ Owners = 0 .. Len(program.specs)
         /\ \A i \in Owners : Len(FunctionsOf(i)) \in Nat /\ Len(PropertiesOf(i)) \in Nat
         /\ \A i \in Owners : DOMAIN FunctionsOf(i) = 1 .. Len(FunctionsOf(i))
         /\ \A i \in Owners : DOMAIN PropertiesOf(i) = 1 .. Len(PropertiesOf(i))
         /\ PropertiesOf(0) = <<>> /\ Len(PropertiesOf(0)) = 0
<1>1. program.specs \in Seq(SpecNodes)
  BY Shape
<1>2. Specs = 1 .. Len(program.specs) /\ Len(program.specs) \in Nat
  BY <1>1 DEF Specs
<1>3. Owners = 0 .. Len(program.specs)
  BY <1>2 DEF Owners
<1>4. \A i \in Owners : Len(FunctionsOf(i)) \in Nat /\ DOMAIN FunctionsOf(i) = 1 .. Len(FunctionsOf(i))
  <2>1. \A i \in Owners : FunctionsOf(i) \in Seq(FunctionNodes)
    BY Shape
  <2> QED
    BY <2>1
<1>5. \A i \in Owners : Len(PropertiesOf(i)) \in Nat /\ DOMAIN PropertiesOf(i) = 1 .. Len(PropertiesOf(i))
  <2>1. \A i \in Owners : PropertiesOf(i) \in Seq(PropertyNodes)
    BY Shape
  <2> QED
    BY <2>1
<1>6. PropertiesOf(0) = <<>>
  BY Shape
<1> QED
  BY <1>2, <1>3, <1>4, <1>5, <1>6

LEMMA LastIs ==
         /\ Last(1, at.spec) = IF phase = "generate" THEN Len(PropertiesOf(at.spec)) ELSE 0
         /\ Last(2, at.spec) = Len(FunctionsOf(at.spec)) + Len(PropertiesOf(at.spec))
                                + (IF at.spec = 0 THEN 0 ELSE 1)
         /\ Last(3, at.spec) = Len(FunctionsOf(at.spec)) + (IF at.spec = 0 THEN 0 ELSE 1)
BY DEF Last, SCAN_SPEC_DEF, SCAN_PROP_FUNC_DEF, SCAN_IMPL_DEF

\* What a visit says of where the pass is.
Property == at.item - Len(FunctionsOf(at.spec))
AtSize ==
  /\ at.scan = 1 /\ at.spec \in Specs /\ at.item < Len(PropertiesOf(at.spec))
  /\ Here = Visit("size", at.spec, at.item + 1)
AtSpec ==
  /\ at.scan = 1 /\ at.spec \in Specs
  /\ at.item = IF phase = "generate" THEN Len(PropertiesOf(at.spec)) ELSE 0
  /\ Here = Visit("spec", at.spec, 0)
AtEnter ==
  /\ at.scan \in {2, 3} /\ at.spec \in Specs /\ at.item = 0
  /\ Here = Visit("enter", at.spec, 0)
AtHeader ==
  /\ at.scan = 2 /\ at.item \in DOMAIN FunctionsOf(at.spec)
  /\ Here = Visit("header", at.spec, at.item)
AtBody ==
  /\ at.scan = 3 /\ at.item \in DOMAIN FunctionsOf(at.spec)
  /\ Here = Visit("body", at.spec, at.item)
AtProperty ==
  /\ at.scan = 2 /\ at.spec \in Specs /\ Property \in DOMAIN PropertiesOf(at.spec)
  /\ at.item = Len(FunctionsOf(at.spec)) + Property
  /\ Here = Visit("property", at.spec, Property)
AtLeave ==
  /\ at.scan \in {2, 3} /\ at.spec \in Specs /\ at.item = Last(at.scan, at.spec)
  /\ at.item > Len(FunctionsOf(at.spec)) + (IF at.scan = 2 THEN Len(PropertiesOf(at.spec)) ELSE 0)
  /\ Here = Visit("leave", at.spec, 0)
AtVisit(op) ==
  \/ op = "size" /\ AtSize
  \/ op = "spec" /\ AtSpec
  \/ op = "enter" /\ AtEnter
  \/ op = "header" /\ AtHeader
  \/ op = "body" /\ AtBody
  \/ op = "property" /\ AtProperty
  \/ op = "leave" /\ AtLeave

LEMMA ReachesIs ==
  ASSUME Typed, AtOK, NEW pass, NEW op, Reaches(pass, op)
  PROVE  AtVisit(op) /\ phase = pass /\ at.spec \in Owners /\ program' = program
         /\ at.item <= Last(at.scan, at.spec)
<1>1. phase = pass /\ at.scan \in 1 .. 3 /\ at.item <= Last(at.scan, at.spec) /\ Here.op = op
      /\ program' = program
  BY DEF Reaches, Walking, AtOK, SCAN_IMPL_DEF
<1>2. at.spec \in Owners /\ at.item \in Nat /\ (at.spec = 0 => at.item >= 1)
  BY OwnerSet DEF AtOK
<1>3. at.spec # 0 => at.spec \in Specs
  BY <1>2 DEF Owners
<1>g. SUFFICES AtVisit(op)
  BY <1>1, <1>2
<1> DEFINE i == at.spec  p == at.item - Len(FunctionsOf(at.spec))
<1>4. /\ DOMAIN FunctionsOf(i) = 1 .. Len(FunctionsOf(i)) /\ Len(FunctionsOf(i)) \in Nat
      /\ DOMAIN PropertiesOf(i) = 1 .. Len(PropertiesOf(i)) /\ Len(PropertiesOf(i)) \in Nat
      /\ i = 0 => Len(PropertiesOf(i)) = 0
  BY <1>2, OwnerSet
<1>5. \A o, a, b : Visit(o, a, b).op = o
  BY DEF Visit
<1>6. CASE at.scan = 1
  <2>1. i # 0
    BY <1>1, <1>2, <1>4, <1>6, LastIs
  <2>2. Here = IF phase = "generate" /\ at.item < Len(PropertiesOf(i))
               THEN Visit("size", i, at.item + 1) ELSE Visit("spec", i, 0)
    BY <1>2, <1>4, <1>6 DEF Here, SCAN_SPEC_DEF, SCAN_PROP_FUNC_DEF, SCAN_IMPL_DEF
  <2>3. at.item <= IF phase = "generate" THEN Len(PropertiesOf(i)) ELSE 0
    BY <1>1, <1>6, LastIs
  <2>4. CASE phase = "generate" /\ at.item < Len(PropertiesOf(i))
    <3>1. op = "size"
      BY <1>1, <1>5, <2>2, <2>4
    <3>2. AtSize
      BY <1>3, <1>6, <2>1, <2>2, <2>4 DEF AtSize
    <3> QED
      BY <3>1, <3>2 DEF AtVisit
  <2>5. CASE ~ (phase = "generate" /\ at.item < Len(PropertiesOf(i)))
    <3>1. op = "spec"
      BY <1>1, <1>5, <2>2, <2>5
    <3>2. AtSpec
      BY <1>2, <1>3, <1>4, <1>6, <2>1, <2>2, <2>3, <2>5 DEF AtSpec
    <3> QED
      BY <3>1, <3>2 DEF AtVisit
  <2> QED
    BY <2>4, <2>5
<1>7. CASE at.scan = 2
  <2>1. Here = CASE at.item = 0 -> Visit("enter", i, 0)
                 [] at.item # 0 /\ at.item \in DOMAIN FunctionsOf(i) -> Visit("header", i, at.item)
                 [] at.item # 0 /\ p \in DOMAIN PropertiesOf(i) -> Visit("property", i, p)
                 [] OTHER -> Visit("leave", i, 0)
    BY <1>2, <1>4, <1>7 DEF Here, SCAN_SPEC_DEF, SCAN_PROP_FUNC_DEF, SCAN_IMPL_DEF
  <2>2. CASE at.item = 0
    <3>1. op = "enter"
      BY <1>1, <1>5, <2>1, <2>2
    <3>2. AtEnter
      BY <1>1, <1>2, <1>3, <1>7, <2>1, <2>2, <1>4, LastIs DEF AtEnter
    <3> QED
      BY <3>1, <3>2 DEF AtVisit
  <2>3. CASE at.item # 0 /\ at.item \in DOMAIN FunctionsOf(i)
    <3>1. Here = Visit("header", i, at.item)
      BY <1>2, <1>4, <2>1, <2>3
    <3> QED
      <4>1. op = "header"
        BY <1>1, <1>5, <3>1
      <4>2. AtHeader
        BY <1>7, <2>3, <3>1 DEF AtHeader, Property
      <4> QED
        BY <4>1, <4>2 DEF AtVisit
  <2>4. CASE at.item # 0 /\ p \in DOMAIN PropertiesOf(i)
    <3>1. Here = Visit("property", i, p) /\ at.item = Len(FunctionsOf(i)) + p /\ i # 0
      BY <1>2, <1>4, <2>1, <2>4
    <3> QED
      <4>1. op = "property"
        BY <1>1, <1>5, <3>1
      <4>2. AtProperty
        BY <1>3, <1>7, <2>4, <3>1 DEF AtProperty, Property
      <4> QED
        BY <4>1, <4>2 DEF AtVisit
  <2>5. CASE at.item # 0 /\ at.item \notin DOMAIN FunctionsOf(i) /\ p \notin DOMAIN PropertiesOf(i)
    <3>1. Here = Visit("leave", i, 0)
      BY <2>1, <2>5
    <3>2. at.item > Len(FunctionsOf(i)) + Len(PropertiesOf(i))
      BY <1>2, <1>4, <2>5
    <3>3. i # 0 /\ at.item = Last(2, i)
      BY <1>1, <1>2, <1>4, <1>7, <3>2, LastIs
    <3> QED
      <4>1. op = "leave"
        BY <1>1, <1>5, <3>1
      <4>2. AtLeave
        BY <1>3, <1>7, <3>1, <3>2, <3>3 DEF AtLeave, Property
      <4> QED
        BY <4>1, <4>2 DEF AtVisit
  <2> QED
    BY <2>2, <2>3, <2>4, <2>5
<1>8. CASE at.scan = 3
  <2>1. Here = CASE at.item = 0 -> Visit("enter", i, 0)
                 [] at.item # 0 /\ at.item \in DOMAIN FunctionsOf(i) -> Visit("body", i, at.item)
                 [] OTHER -> Visit("leave", i, 0)
    BY <1>2, <1>4, <1>8 DEF Here, SCAN_SPEC_DEF, SCAN_PROP_FUNC_DEF, SCAN_IMPL_DEF
  <2>2. CASE at.item = 0
    <3>1. op = "enter"
      BY <1>1, <1>5, <2>1, <2>2
    <3>2. AtEnter
      BY <1>1, <1>2, <1>3, <1>8, <2>1, <2>2, <1>4, LastIs DEF AtEnter
    <3> QED
      BY <3>1, <3>2 DEF AtVisit
  <2>3. CASE at.item # 0 /\ at.item \in DOMAIN FunctionsOf(i)
    <3>1. Here = Visit("body", i, at.item)
      BY <2>1, <2>3
    <3> QED
      <4>1. op = "body"
        BY <1>1, <1>5, <3>1
      <4>2. AtBody
        BY <1>8, <2>3, <3>1 DEF AtBody, Property
      <4> QED
        BY <4>1, <4>2 DEF AtVisit
  <2>5. CASE at.item # 0 /\ at.item \notin DOMAIN FunctionsOf(i)
    <3>1. Here = Visit("leave", i, 0)
      BY <2>1, <2>5
    <3>2. at.item > Len(FunctionsOf(i))
      BY <1>2, <1>4, <2>5
    <3>3. i # 0 /\ at.item = Last(3, i)
      BY <1>1, <1>2, <1>4, <1>8, <3>2, LastIs
    <3> QED
      <4>1. op = "leave"
        BY <1>1, <1>5, <3>1
      <4>2. AtLeave
        BY <1>3, <1>4, <1>8, <3>1, <3>2, <3>3 DEF AtLeave, Property
      <4> QED
        BY <4>1, <4>2 DEF AtVisit
  <2> QED
    BY <2>2, <2>3, <2>5
<1> QED
  BY <1>1, <1>6, <1>7, <1>8

\* Nothing that is read off the program changes.
LEMMA Frozen ==
  ASSUME program' = program
  PROVE  /\ Specs' = Specs /\ Owners' = Owners
         /\ \A i : FunctionsOf(i)' = FunctionsOf(i)
         /\ \A i : PropertiesOf(i)' = PropertiesOf(i)
         /\ \A i : SpecName(i)' = SpecName(i)
         /\ \A i : SpecSymbol(i)' = SpecSymbol(i)
         /\ \A i : ParamScope(i)' = ParamScope(i)
<1>1. Specs' = Specs
  BY DEF Specs
<1>2. Owners' = Owners
  BY <1>1 DEF Owners
<1>3. \A i : FunctionsOf(i)' = FunctionsOf(i)
  BY DEF FunctionsOf
<1>4. \A i : PropertiesOf(i)' = PropertiesOf(i)
  BY DEF PropertiesOf
<1>5. \A i : SpecName(i)' = SpecName(i)
  BY DEF SpecName
<1>6. \A i : SpecSymbol(i)' = SpecSymbol(i)
  BY <1>5 DEF SpecSymbol
<1>7. \A i : ParamScope(i)' = ParamScope(i)
  BY <1>6 DEF ParamScope, ParamKeys
<1> QED
  BY <1>1, <1>2, <1>3, <1>4, <1>5, <1>6, <1>7

LEMMA FrozenSets ==
  ASSUME program' = program
  PROVE  AllHeaders' = AllHeaders /\ AllProperties' = AllProperties
BY Frozen DEF AllHeaders, AllProperties

LEMMA FrozenPlaces ==
  ASSUME program' = program, at' = at
  PROVE  /\ Defs' = Defs /\ Sized' = Sized /\ Entries' = Entries
         /\ Heads' = Heads /\ Props' = Props /\ Bodies' = Bodies
<1>1. \A s, i, j : Beyond(s, i, j)' <=> Beyond(s, i, j)
  BY DEF Beyond
<1>2. Defs' = Defs
  BY <1>1, Frozen DEF Defs
<1>3. Sized' = Sized
  BY <1>1, Frozen DEF Sized
<1>4. Entries' = Entries
  BY <1>1, Frozen DEF Entries
<1>5. Heads' = Heads
  BY <1>1, FrozenSets DEF Heads
<1>6. Props' = Props
  BY <1>1, Frozen, FrozenSets DEF Props
<1>7. Bodies' = Bodies
  BY <1>1, FrozenSets DEF Bodies
<1> QED
  BY <1>2, <1>3, <1>4, <1>5, <1>6, <1>7

\* One item further.
LEMMA OnwardIs ==
  ASSUME Typed, AtOK, program' = program, Onward, at.scan <= 3,
         at.item <= Last(at.scan, at.spec), phase \in {"check", "generate"},
         phase' = phase \/ phase' \notin {"check", "generate"}
  PROVE  /\ AtOK'
         /\ at'.scan = at.scan /\ at'.spec = at.spec /\ at'.item = at.item + 1
         /\ \A s, i, j : j \in Nat =>
              (Beyond(s, i, j)' <=> Beyond(s, i, j) \/ (s = at.scan /\ i = at.spec /\ j = at.item))
<1>0. /\ at \in [scan : 1 .. 4, spec : 0 .. Len(program.specs), item : Nat]
      /\ at.scan \in Nat /\ at.spec \in Nat /\ at.item \in Nat
  BY OwnerSet DEF AtOK
<1>1. /\ at' \in [scan : 1 .. 4, spec : 0 .. Len(program.specs), item : Nat]
      /\ at'.scan = at.scan /\ at'.spec = at.spec /\ at'.item = at.item + 1
  BY <1>0 DEF Onward
<1>2. AtOK'
  <2>1. (Last(at.scan, at.spec) = Last(at.scan, at.spec)') \/ phase' # phase
    <3>1. CASE phase' = phase
      BY <1>1, <3>1, Frozen DEF Last
    <3> QED
      BY <3>1
  <2>2. phase' \in {"check", "generate"} => at'.item <= Last(at.scan, at.spec)' + 1
    <3> SUFFICES ASSUME phase' \in {"check", "generate"} PROVE at'.item <= Last(at.scan, at.spec)' + 1
      OBVIOUS
    <3>1. Last(at.scan, at.spec)' = Last(at.scan, at.spec)
      BY <2>1
    <3>2. Last(at.scan, at.spec) \in Nat
      <4>1. at.spec \in Owners /\ at.scan \in 1 .. 3
        BY <1>0, OwnerSet
      <4>2. Len(FunctionsOf(at.spec)) \in Nat /\ Len(PropertiesOf(at.spec)) \in Nat
        BY <4>1, OwnerSet
      <4> QED
        BY <4>1, <4>2, LastIs
    <3> QED
      BY <1>0, <1>1, <3>1, <3>2
  <2> QED
    BY <1>0, <1>1, <2>2 DEF AtOK
<1>3. \A s, i, j : j \in Nat =>
        (Beyond(s, i, j)' <=> Beyond(s, i, j) \/ (s = at.scan /\ i = at.spec /\ j = at.item))
  <2> TAKE s, i, j
  <2> SUFFICES ASSUME j \in Nat
               PROVE Beyond(s, i, j)' <=> Beyond(s, i, j) \/ (s = at.scan /\ i = at.spec /\ j = at.item)
    OBVIOUS
  <2>1. at.item + 1 > j <=> at.item > j \/ j = at.item
    BY <1>0
  <2> QED
    BY <1>1, <2>1 DEF Beyond
<1> QED
  BY <1>1, <1>2, <1>3

LEMMA OnwardSets ==
  ASSUME Typed, AtOK, program' = program, Onward, at.scan <= 3,
         at.item <= Last(at.scan, at.spec), phase \in {"check", "generate"},
         phase' = phase \/ phase' \notin {"check", "generate"}
  PROVE  /\ Defs' = Defs \cup {i \in Specs : at.scan = 1 /\ at.spec = i /\ at.item = 0}
         /\ Sized' = Sized \cup {i \in Specs : at.scan = 1 /\ at.spec = i
                                               /\ at.item = Len(PropertiesOf(i))}
         /\ Entries' = Entries \cup {i \in Specs : at.scan = 2 /\ at.spec = i /\ at.item = 0}
         /\ Heads' = Heads \cup {v \in AllHeaders : at.scan = 2 /\ v = <<at.spec, at.item>>}
         /\ Props' = Props \cup {v \in AllProperties : at.scan = 2 /\ v = <<at.spec, Property>>}
         /\ Bodies' = Bodies \cup {v \in AllHeaders : at.scan = 3 /\ v = <<at.spec, at.item>>}
<1>1. \A s, i, j : j \in Nat =>
        (Beyond(s, i, j)' <=> Beyond(s, i, j) \/ (s = at.scan /\ i = at.spec /\ j = at.item))
  BY OnwardIs
<1>2. Defs' = Defs \cup {i \in Specs : at.scan = 1 /\ at.spec = i /\ at.item = 0}
  BY <1>1, Frozen DEF Defs
<1>3. Sized' = Sized \cup {i \in Specs : at.scan = 1 /\ at.spec = i /\ at.item = Len(PropertiesOf(i))}
  <2>1. \A i \in Specs : Len(PropertiesOf(i)) \in Nat
    BY OwnerSet DEF Owners
  <2> QED
    BY <1>1, <2>1, Frozen DEF Sized
<1>4. Entries' = Entries \cup {i \in Specs : at.scan = 2 /\ at.spec = i /\ at.item = 0}
  BY <1>1, Frozen DEF Entries
<1>5. \A v \in AllHeaders : v = <<v[1], v[2]>> /\ v[2] \in Nat /\ v[1] \in Owners
  BY DEF AllHeaders
<1>6. Heads' = Heads \cup {v \in AllHeaders : at.scan = 2 /\ v = <<at.spec, at.item>>}
  <2>1. \A v \in AllHeaders : v = <<at.spec, at.item>> <=> v[1] = at.spec /\ v[2] = at.item
    BY <1>5
  <2>2. \A v \in AllHeaders : Beyond(2, v[1], v[2])' <=> Beyond(2, v[1], v[2])
          \/ (at.scan = 2 /\ v = <<at.spec, at.item>>)
    BY <1>1, <1>5, <2>1
  <2> QED
    BY <2>2, FrozenSets DEF Heads
<1>7. Bodies' = Bodies \cup {v \in AllHeaders : at.scan = 3 /\ v = <<at.spec, at.item>>}
  <2>1. \A v \in AllHeaders : v = <<at.spec, at.item>> <=> v[1] = at.spec /\ v[2] = at.item
    BY <1>5
  <2>2. \A v \in AllHeaders : Beyond(3, v[1], v[2])' <=> Beyond(3, v[1], v[2])
          \/ (at.scan = 3 /\ v = <<at.spec, at.item>>)
    BY <1>1, <1>5, <2>1
  <2> QED
    BY <2>2, FrozenSets DEF Bodies
<1>8. Props' = Props \cup {v \in AllProperties : at.scan = 2 /\ v = <<at.spec, Property>>}
  <2>1. \A v \in AllProperties : /\ v = <<v[1], v[2]>> /\ v[2] \in Nat /\ v[1] \in Owners
                                 /\ Len(FunctionsOf(v[1])) \in Nat
    BY OwnerSet DEF AllProperties, Owners
  <2>a. at.item \in Nat
    BY DEF AtOK
  <2>2. \A v \in AllProperties : v = <<at.spec, Property>>
          <=> v[1] = at.spec /\ Len(FunctionsOf(v[1])) + v[2] = at.item
    BY <2>1, <2>a DEF Property
  <2>3. \A v \in AllProperties :
          Beyond(2, v[1], Len(FunctionsOf(v[1])) + v[2])'
            <=> Beyond(2, v[1], Len(FunctionsOf(v[1])) + v[2])
                  \/ (at.scan = 2 /\ v = <<at.spec, Property>>)
    <3> TAKE v \in AllProperties
    <3>1. Len(FunctionsOf(v[1])) + v[2] \in Nat
      BY <2>1
    <3>2. PICK n : n = Len(FunctionsOf(v[1])) + v[2]
      OBVIOUS
    <3>3. Beyond(2, v[1], n)' <=> Beyond(2, v[1], n) \/ (at.scan = 2 /\ v[1] = at.spec /\ n = at.item)
      BY <1>1, <3>1, <3>2
    <3>4. (Beyond(2, v[1], Len(FunctionsOf(v[1])) + v[2]))' <=> Beyond(2, v[1], n)'
      BY <3>2, Frozen DEF Beyond
    <3> QED
      BY <3>2, <3>3, <3>4, <2>2
  <2> QED
    BY <2>3, FrozenSets, Frozen DEF Props
<1> QED
  BY <1>2, <1>3, <1>4, <1>6, <1>7, <1>8

LEMMA FunctionSums ==
  ASSUME Typed, NEW i \in Owners
  PROVE  /\ Len(FunctionsOf(i)) \in Nat /\ Len(PropertiesOf(i)) \in Nat
         /\ DOMAIN FunctionsOf(i) = 1 .. Len(FunctionsOf(i))
         /\ DOMAIN PropertiesOf(i) = 1 .. Len(PropertiesOf(i))
BY OwnerSet

\* The end of a spec, or of a scan.
LEMMA TurnIs ==
  ASSUME Typed, AtOK, Turn
  PROVE  /\ AtOK' /\ Open = 0 /\ Open' = 0
         /\ Defs' = Defs /\ Entries' = Entries /\ Heads' = Heads /\ Props' = Props
         /\ Bodies' = Bodies /\ (phase = "generate" => Sized' = Sized)
<1> DEFINE N == Len(program.specs)
<1>0. /\ program' = program /\ phase' = phase /\ phase \in {"check", "generate"}
      /\ at.scan \in 1 .. 3 /\ at.spec \in 0 .. N /\ at.item \in Nat
      /\ at.item > Last(at.scan, at.spec) /\ at' = NextBlock(at.scan, at.spec)
      /\ N \in Nat /\ Specs = 1 .. N /\ Owners = 0 .. N
  BY OwnerSet DEF Turn, Walking, AtOK, SCAN_IMPL_DEF
<1>1. \/ /\ at.spec < N /\ at'.scan = at.scan /\ at'.spec = at.spec + 1 /\ at'.item = 0
         /\ at' \in [scan : 1 .. 4, spec : 0 .. N, item : Nat]
      \/ /\ at.spec = N /\ at'.scan = at.scan + 1 /\ at'.spec = 0 /\ at'.item = 1
         /\ at' \in [scan : 1 .. 4, spec : 0 .. N, item : Nat]
  BY <1>0 DEF NextBlock, Start
<1> HIDE DEF N
<1>2. ASSUME NEW s \in 1 .. 3, NEW i \in 0 .. N, NEW j \in Nat, i = 0 => j >= 1,
             s = at.scan /\ i = at.spec => j <= Last(at.scan, at.spec)
      PROVE  Beyond(s, i, j)' <=> Beyond(s, i, j)
  <2>0. s = at.scan /\ i = at.spec => j < at.item
    <3>1. Last(at.scan, at.spec) \in Nat
      <4>1. at.spec \in Owners
        BY <1>0
      <4> QED
        BY <4>1, <1>0, FunctionSums, LastIs
    <3> QED
      BY <1>0, <1>2, <3>1
  <2>1. CASE at.spec < N /\ at'.scan = at.scan /\ at'.spec = at.spec + 1 /\ at'.item = 0
    <3>1. Beyond(s, i, j)' <=> at.scan > s \/ (at.scan = s /\ at.spec + 1 > i)
      BY <2>1, <1>0 DEF Beyond
    <3>2. Beyond(s, i, j) <=> at.scan > s \/ (at.scan = s /\ (at.spec > i \/ at.spec = i))
      BY <2>0, <1>0 DEF Beyond
    <3> QED
      BY <3>1, <3>2, <1>0
  <2>2. CASE at.spec = N /\ at'.scan = at.scan + 1 /\ at'.spec = 0 /\ at'.item = 1
    <3>1. Beyond(s, i, j)' <=> at.scan + 1 > s
      BY <2>2, <1>0, <1>2 DEF Beyond
    <3>2. Beyond(s, i, j) <=> at.scan > s \/ at.scan = s
      BY <2>0, <2>2, <1>0 DEF Beyond
    <3> QED
      BY <3>1, <3>2, <1>0
  <2> QED
    BY <1>1, <2>1, <2>2
<1>3. AtOK'
  <2>1. at'.item <= 1
    BY <1>1
  <2>2. at'.spec # 0 /\ at'.scan <= 3 => at'.item <= Last(at.scan, at.spec)' + 1
    <3>1. at'.spec # 0 /\ at'.scan <= 3 => at'.item = 0 /\ at'.scan = at.scan /\ at'.spec \in Owners
      BY <1>0, <1>1
    <3>2. at'.spec \in Owners /\ at'.scan \in 1 .. 3 => Last(at.scan, at.spec)' \in Nat
      BY FunctionSums, Frozen, <1>0 DEF Last, SCAN_SPEC_DEF, SCAN_PROP_FUNC_DEF, SCAN_IMPL_DEF
    <3> QED
      BY <3>1, <3>2, <1>0
  <2> QED
    BY <1>0, <1>1, <2>2 DEF AtOK, N
<1>4. Open = 0 /\ Open' = 0
  <2>1. at.item \notin 1 .. Last(at.scan, at.spec)
    <3>1. Last(at.scan, at.spec) \in Nat
      BY <1>0, FunctionSums, LastIs
    <3> QED
      BY <1>0, <3>1
  <2>2. at'.spec = 0 \/ at'.item = 0
    BY <1>1
  <2> QED
    BY <2>1, <2>2 DEF Open
<1>l. \A i \in Owners : Len(FunctionsOf(i)) \in Nat /\ Len(PropertiesOf(i)) \in Nat
  BY FunctionSums
<1>s. \A i \in Specs : i \in 0 .. N /\ i # 0 /\ i \in Owners
  BY <1>0
<1>5. Defs' = Defs
  <2>1. \A i \in Specs : Beyond(1, i, 0)' <=> Beyond(1, i, 0)
    <3> TAKE i \in Specs
    <3>1. at.scan = 1 => 0 <= Last(at.scan, at.spec)
      BY <1>0, <1>l, LastIs
    <3> QED
      BY <1>2, <1>s, <3>1
  <2> QED
    BY <2>1, Frozen, <1>0 DEF Defs
<1>6. Entries' = Entries
  <2>1. \A i \in Specs : Beyond(2, i, 0)' <=> Beyond(2, i, 0)
    <3> TAKE i \in Specs
    <3>1. at.scan = 2 => 0 <= Last(at.scan, at.spec)
      BY <1>0, <1>l, LastIs
    <3> QED
      BY <1>2, <1>s, <3>1
  <2> QED
    BY <2>1, Frozen, <1>0 DEF Entries
<1>7. ASSUME NEW v \in AllHeaders
      PROVE  /\ Beyond(2, v[1], v[2])' <=> Beyond(2, v[1], v[2])
             /\ Beyond(3, v[1], v[2])' <=> Beyond(3, v[1], v[2])
  <2>1. v[1] \in 0 .. N /\ v[2] \in Nat /\ v[2] >= 1 /\ v[2] <= Len(FunctionsOf(v[1])) /\ v[1] \in Owners
    BY <1>0, FunctionSums DEF AllHeaders
  <2>2. PICK i, j : i = v[1] /\ j = v[2]
    OBVIOUS
  <2>3. at.scan = 2 /\ i = at.spec => j <= Last(at.scan, at.spec)
    BY <2>1, <2>2, <1>l, LastIs
  <2>4. at.scan = 3 /\ i = at.spec => j <= Last(at.scan, at.spec)
    BY <2>1, <2>2, <1>l, LastIs
  <2>5. Beyond(2, i, j)' <=> Beyond(2, i, j)
    BY <1>2, <2>1, <2>2, <2>3
  <2>6. Beyond(3, i, j)' <=> Beyond(3, i, j)
    BY <1>2, <2>1, <2>2, <2>4
  <2> QED
    BY <2>2, <2>5, <2>6
<1>8. Heads' = Heads /\ Bodies' = Bodies
  BY <1>7, FrozenSets, <1>0 DEF Heads, Bodies
<1>9. Props' = Props
  <2>1. ASSUME NEW v \in AllProperties
        PROVE  Beyond(2, v[1], Len(FunctionsOf(v[1])) + v[2])' <=> Beyond(2, v[1], Len(FunctionsOf(v[1])) + v[2])
    <3>0. v[1] \in Specs /\ v[2] \in DOMAIN PropertiesOf(v[1])
      BY DEF AllProperties
    <3>1. /\ v[1] \in 0 .. N /\ v[2] \in Nat /\ v[2] >= 1 /\ v[2] <= Len(PropertiesOf(v[1]))
          /\ v[1] \in Owners
      <4>1. v[1] \in Owners
        BY <3>0, <1>s
      <4>2. DOMAIN PropertiesOf(v[1]) = 1 .. Len(PropertiesOf(v[1]))
        BY <4>1, FunctionSums
      <4>3. v[2] \in 1 .. Len(PropertiesOf(v[1]))
        BY <3>0, <4>2
      <4> QED
        BY <3>0, <1>s, <4>1, <4>3, <1>l
    <3>2. PICK i, j : i = v[1] /\ j = Len(FunctionsOf(v[1])) + v[2]
      OBVIOUS
    <3>3. j \in Nat /\ j >= 1 /\ (at.scan = 2 /\ i = at.spec => j <= Last(at.scan, at.spec))
      BY <3>1, <3>2, <1>l, LastIs
    <3>4. Beyond(2, i, j)' <=> Beyond(2, i, j)
      BY <1>2, <3>1, <3>2, <3>3
    <3>5. Beyond(2, v[1], Len(FunctionsOf(v[1])) + v[2])' <=> Beyond(2, i, j)'
      BY <3>2, Frozen, <1>0 DEF Beyond
    <3> QED
      BY <3>2, <3>4, <3>5
  <2> QED
    BY <2>1, FrozenSets, Frozen, <1>0 DEF Props
<1>10. ASSUME phase = "generate" PROVE Sized' = Sized
  <2>1. ASSUME NEW i \in Specs
        PROVE  Beyond(1, i, Len(PropertiesOf(i)))' <=> Beyond(1, i, Len(PropertiesOf(i)))
    <3>2. PICK j : j = Len(PropertiesOf(i))
      OBVIOUS
    <3>3. j \in Nat /\ (at.scan = 1 /\ i = at.spec => j <= Last(at.scan, at.spec))
      BY <3>2, <1>l, <1>s, <1>10, LastIs
    <3>4. Beyond(1, i, j)' <=> Beyond(1, i, j)
      BY <1>2, <1>s, <3>3
    <3>5. Beyond(1, i, Len(PropertiesOf(i)))' <=> Beyond(1, i, j)'
      BY <3>2, Frozen, <1>0 DEF Beyond
    <3> QED
      BY <3>2, <3>4, <3>5
  <2> QED
    BY <2>1, Frozen, <1>0 DEF Sized
<1> QED
  BY <1>3, <1>4, <1>5, <1>6, <1>8, <1>9, <1>10

-----------------------------------------------------------------------------
(***************************************************************************)
(* What a visit that comes to its end adds to what lies behind.            *)
(***************************************************************************)
Unmoved ==
  /\ Defs' = Defs /\ Sized' = Sized /\ Entries' = Entries
  /\ Heads' = Heads /\ Props' = Props /\ Bodies' = Bodies

\* What one item more puts behind the pass.
NewDefs == {i \in Specs : at.scan = 1 /\ at.spec = i /\ at.item = 0}
NewSized == {i \in Specs : at.scan = 1 /\ at.spec = i /\ at.item = Len(PropertiesOf(i))}
NewEntries == {i \in Specs : at.scan = 2 /\ at.spec = i /\ at.item = 0}
NewHeads == {v \in AllHeaders : at.scan = 2 /\ v = <<at.spec, at.item>>}
NewProps == {v \in AllProperties : at.scan = 2 /\ v = <<at.spec, Property>>}
NewBodies == {v \in AllHeaders : at.scan = 3 /\ v = <<at.spec, at.item>>}

\* A visit has been made: the pass goes on, or has failed.
Made(op) ==
  /\ AtVisit(op) /\ phase \in {"check", "generate"} /\ at.spec \in Owners
  /\ program' = program /\ Onward /\ at.item <= Last(at.scan, at.spec)
  /\ phase' = phase \/ phase' \notin {"check", "generate"}

LEMMA MadeOnward ==
  ASSUME Typed, AtOK, NEW op, Made(op)
  PROVE  /\ at.scan \in 1 .. 3 /\ at.spec \in Owners /\ at.item \in Nat
         /\ AtOK' /\ at'.scan = at.scan /\ at'.spec = at.spec /\ at'.item = at.item + 1
         /\ Defs' = Defs \cup NewDefs /\ Sized' = Sized \cup NewSized
         /\ Entries' = Entries \cup NewEntries /\ Heads' = Heads \cup NewHeads
         /\ Props' = Props \cup NewProps /\ Bodies' = Bodies \cup NewBodies
<1>1. at.scan \in 1 .. 3
  <2>1. at.scan \in {1, 2, 3}
    <3>1. AtVisit(op)
      BY DEF Made
    <3> QED
      BY <3>1, Zenon
         DEF AtVisit, AtSize, AtSpec, AtEnter, AtHeader, AtBody, AtProperty, AtLeave
  <2> QED
    BY <2>1
<1>2. /\ program' = program /\ Onward /\ at.item <= Last(at.scan, at.spec)
      /\ phase \in {"check", "generate"} /\ (phase' = phase \/ phase' \notin {"check", "generate"})
      /\ at.spec \in Owners
  BY DEF Made
<1>3. at.scan <= 3
  BY <1>1
<1>4. AtOK' /\ at'.scan = at.scan /\ at'.spec = at.spec /\ at'.item = at.item + 1
  BY <1>2, <1>3, OnwardIs
<1>5. /\ Defs' = Defs \cup NewDefs /\ Sized' = Sized \cup NewSized
      /\ Entries' = Entries \cup NewEntries /\ Heads' = Heads \cup NewHeads
      /\ Props' = Props \cup NewProps /\ Bodies' = Bodies \cup NewBodies
  BY <1>2, <1>3, OnwardSets, Zenon
     DEF NewDefs, NewSized, NewEntries, NewHeads, NewProps, NewBodies
<1>6. at.item \in Nat
  BY DEF AtOK
<1> QED
  BY <1>1, <1>2, <1>4, <1>5, <1>6

LEMMA OpenOnward ==
  ASSUME Typed, AtOK, NEW op, Made(op), at.scan \in {2, 3}
  PROVE  Open' = IF at.spec # 0 /\ at.item < Last(at.scan, at.spec) THEN at.spec ELSE 0
<1>0. /\ at'.scan = at.scan /\ at'.spec = at.spec /\ at'.item = at.item + 1
      /\ at.item \in Nat
  BY OnwardIs DEF Made, AtOK
<1>1. Last(at.scan, at.spec)' = Last(at.scan, at.spec) /\ Last(at.scan, at.spec) \in Nat
  <2>1. /\ Len(FunctionsOf(at.spec)) \in Nat /\ Len(PropertiesOf(at.spec)) \in Nat
        /\ program' = program
    BY FunctionSums DEF Made
  <2> QED
    BY <1>0, <2>1, Frozen DEF Last, SCAN_SPEC_DEF, SCAN_PROP_FUNC_DEF, SCAN_IMPL_DEF
<1>2. at'.item \in 1 .. Last(at.scan, at.spec)' <=> at.item < Last(at.scan, at.spec)
  BY <1>0, <1>1
<1> QED
  BY <1>0, <1>2 DEF Open

LEMMA MadeSpec ==
  ASSUME Typed, AtOK, Made("spec")
  PROVE  /\ AtOK' /\ Open = 0 /\ Open' = 0 /\ Here = Visit("spec", at.spec, 0) /\ at.spec \in Specs
         /\ Entries' = Entries /\ Heads' = Heads /\ Props' = Props /\ Bodies' = Bodies
         /\ phase = "check" => Defs' = Defs \cup {at.spec}
         /\ phase = "generate" => Sized' = Sized \cup {at.spec}
<1>1. AtSpec
  BY DEF Made, AtVisit
<1>2. at.scan = 1 /\ at.spec \in Specs
  BY <1>1 DEF AtSpec
<1>3. NewEntries = {} /\ NewHeads = {} /\ NewProps = {} /\ NewBodies = {}
  BY <1>2 DEF NewEntries, NewHeads, NewProps, NewBodies
<1>4. phase = "check" => NewDefs = {at.spec}
  BY <1>1, <1>2 DEF NewDefs, AtSpec
<1>5. phase = "generate" => NewSized = {at.spec}
  BY <1>1, <1>2 DEF NewSized, AtSpec
<1>6. Open = 0 /\ Open' = 0
  BY <1>2, MadeOnward DEF Open
<1> QED
  BY <1>1, <1>3, <1>4, <1>5, <1>6, MadeOnward DEF AtSpec

LEMMA MadeSize ==
  ASSUME Typed, AtOK, Made("size"), phase = "generate"
  PROVE  /\ AtOK' /\ Open = 0 /\ Open' = 0 /\ at.spec \in Specs /\ at.scan = 1
         /\ Here = Visit("size", at.spec, at.item + 1) /\ at.item + 1 \in DOMAIN PropertiesOf(at.spec)
         /\ at'.scan = 1 /\ at'.spec = at.spec /\ at'.item = at.item + 1
         /\ Sized' = Sized /\ Entries' = Entries /\ Heads' = Heads /\ Props' = Props
         /\ Bodies' = Bodies
<1>1. AtSize
  BY DEF Made, AtVisit
<1>2. at.scan = 1 /\ at.spec \in Specs /\ at.item < Len(PropertiesOf(at.spec))
  BY <1>1 DEF AtSize
<1>3. at.item + 1 \in DOMAIN PropertiesOf(at.spec)
  BY <1>2, MadeOnward, FunctionSums
<1>4. NewEntries = {} /\ NewHeads = {} /\ NewProps = {} /\ NewBodies = {}
  BY <1>2 DEF NewEntries, NewHeads, NewProps, NewBodies
<1>5. NewSized = {}
  BY <1>2, MadeOnward, FunctionSums DEF NewSized
<1>6. Open = 0 /\ Open' = 0
  BY <1>2, MadeOnward DEF Open
<1> QED
  BY <1>1, <1>2, <1>3, <1>4, <1>5, <1>6, MadeOnward DEF AtSize

LEMMA MadeEnter ==
  ASSUME Typed, AtOK, Made("enter")
  PROVE  /\ AtOK' /\ Open = 0 /\ Open' = at.spec /\ Here = Visit("enter", at.spec, 0)
         /\ at.spec \in Specs /\ at.scan \in {2, 3}
         /\ Defs' = Defs /\ Sized' = Sized /\ Heads' = Heads /\ Props' = Props /\ Bodies' = Bodies
         /\ Entries' = IF at.scan = 2 THEN Entries \cup {at.spec} ELSE Entries
<1>1. AtEnter
  BY DEF Made, AtVisit
<1>2. at.scan \in {2, 3} /\ at.spec \in Specs /\ AtOK' /\ at.item = 0
  BY <1>1, OnwardIs DEF Made, AtEnter
<1>3. Open = 0
  BY <1>2 DEF Open
<1>4. Open' = at.spec
  <2>1. at.spec # 0 /\ Last(at.scan, at.spec) > 0
    BY <1>2, FunctionSums, Shape, LastIs DEF Made
  <2> QED
    BY <1>2, <2>1, OpenOnward
<1>5. /\ \A v \in AllHeaders : v # <<at.spec, at.item>>
      /\ \A v \in AllProperties : v # <<at.spec, Property>>
  <2>1. \A v \in AllHeaders : v[2] # 0
    BY FunctionSums DEF AllHeaders
  <2>2. \A v \in AllProperties : v[2] > 0
    <3> TAKE v \in AllProperties
    <3>1. v[1] \in Owners /\ v[2] \in DOMAIN PropertiesOf(v[1])
      BY DEF AllProperties, Owners
    <3> QED
      BY <3>1, FunctionSums
  <2>3. Property <= 0 /\ Property \in Int
    BY <1>2, FunctionSums DEF Property, Made
  <2> QED
    BY <1>2, <2>1, <2>2, <2>3
<1>6. NewDefs = {} /\ NewSized = {} /\ NewEntries = IF at.scan = 2 THEN {at.spec} ELSE {}
  BY <1>2 DEF NewDefs, NewSized, NewEntries
<1>7. NewHeads = {} /\ NewProps = {} /\ NewBodies = {}
  BY <1>5 DEF NewHeads, NewProps, NewBodies
<1> QED
  BY <1>1, <1>2, <1>3, <1>4, <1>6, <1>7, MadeOnward DEF AtEnter

\* Where there are functions, in either scan.
LEMMA AtFunction ==
  ASSUME Typed, AtOK, at.spec \in Owners, at.scan \in {2, 3}, at.item \in DOMAIN FunctionsOf(at.spec)
  PROVE  /\ <<at.spec, at.item>> \in AllHeaders /\ at.item # 0
         /\ \A v \in AllProperties : v # <<at.spec, Property>>
         /\ Open = at.spec
         /\ at.spec # 0 => at.item < Last(at.scan, at.spec)
<1>1. /\ at.item \in Nat /\ at.item >= 1 /\ at.item <= Len(FunctionsOf(at.spec))
      /\ Len(FunctionsOf(at.spec)) \in Nat /\ Len(PropertiesOf(at.spec)) \in Nat
  BY FunctionSums
<1>2. <<at.spec, at.item>> \in AllHeaders
  BY <1>1 DEF AllHeaders
<1>3. \A v \in AllProperties : v # <<at.spec, Property>>
  <2> SUFFICES ASSUME NEW v \in AllProperties, v = <<at.spec, Property>> PROVE FALSE
    OBVIOUS
  <2>1. v[1] \in Owners /\ v[2] \in DOMAIN PropertiesOf(v[1])
    BY DEF AllProperties, Owners
  <2>2. v[2] > 0
    BY <2>1, FunctionSums
  <2> QED
    BY <1>1, <2>2 DEF Property
<1>4. at.spec # 0 => at.item < Last(at.scan, at.spec)
  BY <1>1, LastIs
<1>5. Open = at.spec
  <2>1. at.spec # 0 => at.item \in 1 .. Last(at.scan, at.spec)
    <3>1. Last(at.scan, at.spec) \in Nat
      BY <1>1, LastIs
    <3> QED
      BY <1>1, <1>4, <3>1
  <2> QED
    BY <2>1 DEF Open
<1> QED
  BY <1>1, <1>2, <1>3, <1>4, <1>5

LEMMA MadeHeader ==
  ASSUME Typed, AtOK, Made("header")
  PROVE  /\ AtOK' /\ Open = at.spec /\ Open' = at.spec
         /\ Here = Visit("header", at.spec, at.item) /\ <<at.spec, at.item>> \in AllHeaders
         /\ at.scan = 2
         /\ Defs' = Defs /\ Sized' = Sized /\ Entries' = Entries /\ Props' = Props /\ Bodies' = Bodies
         /\ Heads' = Heads \cup {<<at.spec, at.item>>}
<1>1. AtHeader
  BY DEF Made, AtVisit
<1>2. at.scan = 2 /\ AtOK' /\ at.item \in DOMAIN FunctionsOf(at.spec) /\ at.spec \in Owners
  BY <1>1, OnwardIs DEF Made, AtHeader
<1>3. /\ <<at.spec, at.item>> \in AllHeaders /\ at.item # 0
      /\ \A v \in AllProperties : v # <<at.spec, Property>>
      /\ Open = at.spec
      /\ at.spec # 0 => at.item < Last(at.scan, at.spec)
  BY <1>2, AtFunction
<1>4. Open' = at.spec
  BY <1>2, <1>3, OpenOnward
<1>5. NewDefs = {} /\ NewSized = {} /\ NewEntries = {} /\ NewBodies = {}
  BY <1>2, <1>3 DEF NewDefs, NewSized, NewEntries, NewBodies
<1>6. NewProps = {} /\ NewHeads = {<<at.spec, at.item>>}
  BY <1>2, <1>3 DEF NewProps, NewHeads
<1> QED
  BY <1>1, <1>2, <1>3, <1>4, <1>5, <1>6, MadeOnward DEF AtHeader

LEMMA MadeBody ==
  ASSUME Typed, AtOK, Made("body")
  PROVE  /\ AtOK' /\ Open = at.spec /\ Open' = at.spec
         /\ Here = Visit("body", at.spec, at.item) /\ <<at.spec, at.item>> \in AllHeaders
         /\ at.scan = 3
         /\ Defs' = Defs /\ Sized' = Sized /\ Entries' = Entries /\ Props' = Props /\ Heads' = Heads
         /\ Bodies' = Bodies \cup {<<at.spec, at.item>>}
<1>1. AtBody
  BY DEF Made, AtVisit
<1>2. at.scan = 3 /\ AtOK' /\ at.item \in DOMAIN FunctionsOf(at.spec) /\ at.spec \in Owners
  BY <1>1, OnwardIs DEF Made, AtBody
<1>3. /\ <<at.spec, at.item>> \in AllHeaders /\ at.item # 0
      /\ Open = at.spec
      /\ at.spec # 0 => at.item < Last(at.scan, at.spec)
  BY <1>2, AtFunction
<1>4. Open' = at.spec
  BY <1>2, <1>3, OpenOnward
<1>5. /\ NewDefs = {} /\ NewSized = {} /\ NewEntries = {} /\ NewHeads = {} /\ NewProps = {}
      /\ NewBodies = {<<at.spec, at.item>>}
  BY <1>2, <1>3 DEF NewDefs, NewSized, NewEntries, NewHeads, NewProps, NewBodies
<1> QED
  BY <1>1, <1>2, <1>3, <1>4, <1>5, MadeOnward DEF AtBody

LEMMA MadeProperty ==
  ASSUME Typed, AtOK, Made("property")
  PROVE  /\ AtOK' /\ Open = at.spec /\ Open' = at.spec /\ at.spec \in Specs
         /\ Here = Visit("property", at.spec, Property) /\ <<at.spec, Property>> \in AllProperties
         /\ at.scan = 2 /\ Property \in DOMAIN PropertiesOf(at.spec)
         /\ Defs' = Defs /\ Sized' = Sized /\ Entries' = Entries /\ Heads' = Heads /\ Bodies' = Bodies
         /\ Props' = Props \cup {<<at.spec, Property>>}
<1>1. AtProperty
  BY DEF Made, AtVisit
<1>2. /\ at.scan = 2 /\ AtOK' /\ Property \in DOMAIN PropertiesOf(at.spec) /\ at.spec \in Owners
      /\ at.item = Len(FunctionsOf(at.spec)) + Property /\ at.spec \in Specs /\ at.spec # 0
  BY <1>1, OnwardIs, Shape DEF Made, AtProperty
<1>3. /\ Len(FunctionsOf(at.spec)) \in Nat /\ Len(PropertiesOf(at.spec)) \in Nat
      /\ Property \in 1 .. Len(PropertiesOf(at.spec))
      /\ DOMAIN FunctionsOf(at.spec) = 1 .. Len(FunctionsOf(at.spec))
  BY <1>2, FunctionSums
<1>4. at.item # 0 /\ at.item < Last(at.scan, at.spec) /\ at.item \in 1 .. Last(at.scan, at.spec)
  BY <1>2, <1>3, LastIs
<1>5. Open = at.spec /\ Open' = at.spec
  BY <1>2, <1>4, OpenOnward DEF Open
<1>6. \A v \in AllHeaders : v # <<at.spec, at.item>>
  BY <1>2, <1>3 DEF AllHeaders
<1>7. <<at.spec, Property>> \in AllProperties
  BY <1>2, <1>3 DEF AllProperties
<1>8. NewDefs = {} /\ NewSized = {} /\ NewEntries = {} /\ NewBodies = {}
  BY <1>2, <1>4 DEF NewDefs, NewSized, NewEntries, NewBodies
<1>9. NewHeads = {} /\ NewProps = {<<at.spec, Property>>}
  BY <1>2, <1>6, <1>7 DEF NewHeads, NewProps
<1> QED
  BY <1>1, <1>2, <1>5, <1>7, <1>8, <1>9, MadeOnward DEF AtProperty

LEMMA MadeLeave ==
  ASSUME Typed, AtOK, Made("leave")
  PROVE  /\ AtOK' /\ Open = at.spec /\ Open' = 0 /\ Here = Visit("leave", at.spec, 0)
         /\ at.spec \in Specs
         /\ Unmoved
<1>1. AtLeave
  BY DEF Made, AtVisit
<1>2. /\ at.scan \in {2, 3} /\ at.spec \in Specs /\ AtOK' /\ at.spec # 0 /\ at.spec \in Owners
      /\ at.item = Last(at.scan, at.spec) /\ at.item \in Nat
      /\ at.item > Len(FunctionsOf(at.spec)) + (IF at.scan = 2 THEN Len(PropertiesOf(at.spec)) ELSE 0)
  BY <1>1, OnwardIs, Shape DEF Made, AtLeave, AtOK
<1>3. /\ Len(FunctionsOf(at.spec)) \in Nat /\ Len(PropertiesOf(at.spec)) \in Nat
      /\ DOMAIN FunctionsOf(at.spec) = 1 .. Len(FunctionsOf(at.spec))
      /\ DOMAIN PropertiesOf(at.spec) = 1 .. Len(PropertiesOf(at.spec))
  BY <1>2, FunctionSums
<1>4. at.item # 0 /\ at.item \in 1 .. Last(at.scan, at.spec)
  <2>1. at.item >= 1
    <3>1. CASE at.scan = 2
      <4>1. at.item > Len(FunctionsOf(at.spec)) + Len(PropertiesOf(at.spec))
        BY <1>2, <3>1
      <4> QED
        BY <1>2, <1>3, <4>1
    <3>2. CASE at.scan = 3
      BY <1>2, <1>3, <3>2
    <3> QED
      BY <1>2, <3>1, <3>2
  <2>2. at.item \in 1 .. at.item /\ at.item # 0
    BY <1>2, <2>1
  <2> QED
    BY <1>2, <2>2
<1>5. Open = at.spec
  BY <1>2, <1>4 DEF Open
<1>6. Open' = 0
  BY <1>2, OpenOnward
<1>7. \A v \in AllHeaders : v # <<at.spec, at.item>>
  <2> SUFFICES ASSUME NEW v \in AllHeaders, v = <<at.spec, at.item>> PROVE FALSE
    OBVIOUS
  <2>1. at.item \in 1 .. Len(FunctionsOf(at.spec))
    BY <1>3 DEF AllHeaders
  <2>2. at.item > Len(FunctionsOf(at.spec))
    <3>1. CASE at.scan = 2
      <4>1. at.item > Len(FunctionsOf(at.spec)) + Len(PropertiesOf(at.spec))
        BY <1>2, <3>1
      <4> QED
        BY <1>2, <1>3, <4>1
    <3>2. CASE at.scan = 3
      BY <1>2, <1>3, <3>2
    <3> QED
      BY <1>2, <3>1, <3>2
  <2> QED
    BY <1>2, <1>3, <2>1, <2>2
<1>8. at.scan = 2 => \A v \in AllProperties : v # <<at.spec, Property>>
  <2> SUFFICES ASSUME at.scan = 2, NEW v \in AllProperties, v = <<at.spec, Property>> PROVE FALSE
    OBVIOUS
  <2>1. Property \in 1 .. Len(PropertiesOf(at.spec))
    BY <1>3 DEF AllProperties
  <2>2. at.item > Len(FunctionsOf(at.spec)) + Len(PropertiesOf(at.spec))
    BY <1>2
  <2> QED
    BY <1>2, <1>3, <2>1, <2>2 DEF Property
<1>9. NewDefs = {} /\ NewSized = {} /\ NewEntries = {}
  BY <1>2, <1>4 DEF NewDefs, NewSized, NewEntries
<1>10. NewHeads = {} /\ NewBodies = {} /\ NewProps = {}
  BY <1>2, <1>7, <1>8 DEF NewHeads, NewBodies, NewProps
<1> QED
  BY <1>1, <1>2, <1>5, <1>6, <1>9, <1>10, MadeOnward DEF AtLeave, Unmoved

-----------------------------------------------------------------------------
(***************************************************************************)
(* What the scope of the module holds: the types, functions and properties *)
(* that the checker has come to, and nothing else.                         *)
(***************************************************************************)
VoidNode == [name |-> "void", args |-> <<>>]
HeaderOf(v) == FunctionsOf(v[1])[v[2]]
HeaderKey(v) == FunctionKey(SpecName(v[1]), HeaderOf(v).name, NamesIn(HeaderOf(v).params))
HeaderSymbol(v) == FunctionSymbol(v[1], v[2], HeaderKey(v))
PropertyOf(v) == PropertiesOf(v[1])[v[2]]
GetterKey(v) == GetKey(SpecName(v[1]), PropertyOf(v).name)
SetterKey(v) == SetKey(SpecName(v[1]), PropertyOf(v).name)
Accessor(v, key, access) ==
  [kind |-> "property", key |-> key, access |-> access, spec_name |-> SpecName(v[1]),
   item |-> Visit("property", v[1], v[2]), size |-> SizeOfType(v[1], PropertyOf(v).type)]
Getter(v) == Accessor(v, GetterKey(v), PropertyOf(v).get)
Setter(v) == Accessor(v, SetterKey(v), PropertyOf(v).set)

TypesPart(B, D) ==
  /\ \A b \in BUILTIN_TYPES : TypeKey(b.name) \in DOMAIN B /\ B[TypeKey(b.name)] = b
  /\ \A k \in D : TypeKey(SpecName(k)) \in DOMAIN B /\ B[TypeKey(SpecName(k))] = SpecSymbol(k)
  /\ \A x : TypeKey(x) \in DOMAIN B =>
              (\E b \in BUILTIN_TYPES : x = b.name) \/ (\E k \in D : x = SpecName(k))
  /\ This \notin DOMAIN B
FunctionsPart(B, H) ==
  /\ \A v \in H : HeaderKey(v) \in DOMAIN B /\ B[HeaderKey(v)] = HeaderSymbol(v)
  /\ \A a, b, c : FunctionKey(a, b, c) \in DOMAIN B => \E v \in H : FunctionKey(a, b, c) = HeaderKey(v)
PropertiesPart(B, Q) ==
  /\ \A v \in Q : /\ GetterKey(v) \in DOMAIN B /\ B[GetterKey(v)] = Getter(v)
                  /\ SetterKey(v) \in DOMAIN B /\ B[SetterKey(v)] = Setter(v)
  /\ \A a, b : GetKey(a, b) \in DOMAIN B => \E v \in Q : GetKey(a, b) = GetterKey(v)
  /\ \A a, b : SetKey(a, b) \in DOMAIN B => \E v \in Q : SetKey(a, b) = SetterKey(v)

\* What a program that passes the visits so far is known to be.
SpecsFit(D) ==
  \A i \in D : /\ \A b \in BUILTIN_TYPES : b.name # SpecName(i)
               /\ \A k \in D : SpecName(k) = SpecName(i) => k = i
ParamsFit(E) == \A i \in E : Distinct(program.specs[i].params)
HeaderTypes(v) ==
  /\ Means(v[1], HeaderOf(v).ret)
  /\ AllMean(v[1], HeaderOf(v).params)
  /\ \A n \in DOMAIN HeaderOf(v).params : HeaderOf(v).params[n] # VoidNode
HeadersFit(H) ==
  /\ \A v \in H : HeaderTypes(v)
  /\ \A v, w \in H : HeaderKey(v) = HeaderKey(w) => v = w
PropertiesFit(Q) ==
  /\ \A v \in Q : Means(v[1], PropertyOf(v).type)
  /\ \A v, w \in Q : GetterKey(v) = GetterKey(w) => v = w
FitBody(v) ==
  HeaderOf(v).uses = <<>> \/
    \E item \in Denotes(v[1], HeaderOf(v).uses[1]) : MayUse(v[1], HeaderOf(v).uses[1], item)
BodiesFit(H) == \A v \in H : FitBody(v)

LEMMA BindIs ==
  ASSUME NEW B, NEW k, NEW s
  PROVE  /\ \A x : x \in DOMAIN Bind(B, k, s) <=> x \in DOMAIN B \/ x = k
         /\ Bind(B, k, s)[k] = s
         /\ \A x \in DOMAIN B : x # k => Bind(B, k, s)[x] = B[x]
BY DEF Bind

LEMMA TableFirst ==
  ASSUME NEW B, NEW i
  PROVE  TableOf(B, i)[1] = B /\ (i = 0 => TableOf(B, i) = <<B>>)
BY DEF TableOf

LEMMA TablePut ==
  ASSUME NEW B, NEW i, NEW k, NEW s
  PROVE  PutBottom(TableOf(B, i), k, s) = TableOf(Bind(B, k, s), i)
<1>1. CASE i = 0
  BY <1>1 DEF TableOf, PutBottom
<1>2. CASE i # 0
  BY <1>2 DEF TableOf, PutBottom
<1> QED
  BY <1>1, <1>2

LEMMA AppendOne ==
  ASSUME NEW a, NEW b
  PROVE  Append(<<a>>, b) = <<a, b>>
<1> DEFINE T == {a, b}  x == <<a>>  y == <<a, b>>
<1>1. x \in Seq(T) /\ Len(x) = 1 /\ x[1] = a /\ b \in T
  OBVIOUS
<1>2. y \in Seq(T) /\ Len(y) = 2 /\ y[1] = a /\ y[2] = b
  OBVIOUS
<1> HIDE DEF T, x, y
<1>3. Append(x, b) \in Seq(T) /\ Len(Append(x, b)) = Len(x) + 1
  BY <1>1, AppendProperties
<1>4. Append(x, b)[1] = a /\ Append(x, b)[2] = b
  <2>1. \A n \in 1 .. Len(x) : Append(x, b)[n] = x[n]
    BY <1>1, AppendProperties
  <2>2. Append(x, b)[Len(x) + 1] = b
    BY <1>1, AppendProperties
  <2> QED
    BY <1>1, <2>1, <2>2
<1>5. \A n \in 1 .. 2 : Append(x, b)[n] = y[n]
  <2>1. \A n \in 1 .. 2 : n = 1 \/ n = 2
    OBVIOUS
  <2> QED
    BY <1>2, <1>4, <2>1, Zenon
<1>6. Append(x, b) = y
  BY <1>1, <1>2, <1>3, <1>5, SeqEqual
<1> QED
  BY <1>6 DEF x, y

LEMMA TableEnter ==
  ASSUME NEW B, NEW i, i # 0
  PROVE  Append(TableOf(B, 0), ParamScope(i)) = TableOf(B, i)
<1> DEFINE S == ParamScope(i)
<1> HIDE DEF S
<1>1. TableOf(B, 0) = <<B>> /\ TableOf(B, i) = <<B, S>>
  BY DEF TableOf, S
<1>2. Append(<<B>>, S) = <<B, S>>
  BY AppendOne
<1> QED
  BY <1>1, <1>2 DEF S

LEMMA TableLeave ==
  ASSUME NEW B, NEW i, i # 0
  PROVE  Pop(TableOf(B, i)) = TableOf(B, 0)
<1> DEFINE S == ParamScope(i)
<1> HIDE DEF S
<1> DEFINE x == <<B>>  y == <<B, S>>
<1>1. x \in Seq({B, S}) /\ Len(x) = 1 /\ x[1] = B
  OBVIOUS
<1>2. y \in Seq({B, S}) /\ Len(y) = 2 /\ y[1] = B
  OBVIOUS
<1>3. TableOf(B, 0) = x /\ TableOf(B, i) = y
  BY DEF TableOf, S
<1> HIDE DEF x, y
<1>4. Pop(y) \in Seq({B, S}) /\ Len(Pop(y)) = 1 /\ Pop(y)[1] = B
  BY <1>2 DEF Pop
<1>5. \A n \in 1 .. 1 : Pop(y)[n] = x[n]
  BY <1>1, <1>4
<1>6. Pop(y) = x
  BY <1>1, <1>4, <1>5, SeqEqual
<1> QED
  BY <1>3, <1>6

LEMMA BindSpec ==
  ASSUME Typed, NEW B, NEW D, NEW H, NEW Q, NEW i \in Specs,
         TypesPart(B, D), FunctionsPart(B, H), PropertiesPart(B, Q), SpecsFit(D),
         TypeKey(SpecName(i)) \notin DOMAIN B
  PROVE  /\ TypesPart(Bind(B, TypeKey(SpecName(i)), SpecSymbol(i)), D \cup {i})
         /\ FunctionsPart(Bind(B, TypeKey(SpecName(i)), SpecSymbol(i)), H)
         /\ PropertiesPart(Bind(B, TypeKey(SpecName(i)), SpecSymbol(i)), Q)
         /\ SpecsFit(D \cup {i})
<1> DEFINE key == TypeKey(SpecName(i))  C == Bind(B, key, SpecSymbol(i))
<1>1. /\ \A x : x \in DOMAIN C <=> x \in DOMAIN B \/ x = key
      /\ C[key] = SpecSymbol(i)
      /\ \A x \in DOMAIN B : x # key => C[x] = B[x]
  BY BindIs
<1> HIDE DEF C
<1>2. TypesPart(C, D \cup {i})
  <2>1. \A b \in BUILTIN_TYPES : TypeKey(b.name) \in DOMAIN C /\ C[TypeKey(b.name)] = b
    BY <1>1 DEF TypesPart
  <2>2. \A k \in D \cup {i} : TypeKey(SpecName(k)) \in DOMAIN C /\ C[TypeKey(SpecName(k))] = SpecSymbol(k)
    BY <1>1 DEF TypesPart
  <2>3. \A x : TypeKey(x) \in DOMAIN C =>
          (\E b \in BUILTIN_TYPES : x = b.name) \/ (\E k \in D \cup {i} : x = SpecName(k))
    <3>1. \A x : TypeKey(x) = key => x = SpecName(i)
      BY KeysSame
    <3> QED
      BY <1>1, <3>1 DEF TypesPart
  <2>4. This \notin DOMAIN C
    BY <1>1, KeysApart DEF TypesPart
  <2> QED
    BY <2>1, <2>2, <2>3, <2>4 DEF TypesPart
<1>3. FunctionsPart(C, H)
  <2>1. \A a, b, c : FunctionKey(a, b, c) # key
    BY KeysApart
  <2>2. \A a, b, c : FunctionKey(a, b, c) \in DOMAIN C =>
           FunctionKey(a, b, c) \in DOMAIN B
    BY <1>1, <2>1
  <2>3. \A v : HeaderKey(v) \in DOMAIN B =>
           HeaderKey(v) \in DOMAIN C /\ C[HeaderKey(v)] = B[HeaderKey(v)]
    BY <1>1, <2>1 DEF HeaderKey
  <2> QED
    BY <2>2, <2>3 DEF FunctionsPart
<1>4. PropertiesPart(C, Q)
  <2>1. \A a, b : GetKey(a, b) # key /\ SetKey(a, b) # key
    BY KeysApart
  <2>2. \A a, b : /\ GetKey(a, b) \in DOMAIN C => GetKey(a, b) \in DOMAIN B
                  /\ SetKey(a, b) \in DOMAIN C => SetKey(a, b) \in DOMAIN B
    BY <1>1, <2>1
  <2>3. \A v : /\ GetterKey(v) \in DOMAIN B =>
                    GetterKey(v) \in DOMAIN C /\ C[GetterKey(v)] = B[GetterKey(v)]
               /\ SetterKey(v) \in DOMAIN B =>
                    SetterKey(v) \in DOMAIN C /\ C[SetterKey(v)] = B[SetterKey(v)]
    BY <1>1, <2>1 DEF GetterKey, SetterKey
  <2> QED
    BY <2>2, <2>3 DEF PropertiesPart
<1>5. SpecsFit(D \cup {i})
  BY DEF SpecsFit, TypesPart
<1> QED
  BY <1>2, <1>3, <1>4, <1>5 DEF C

LEMMA BindHeader ==
  ASSUME NEW B, NEW D, NEW H, NEW Q, NEW v,
         TypesPart(B, D), FunctionsPart(B, H), PropertiesPart(B, Q),
         HeaderKey(v) \notin DOMAIN B
  PROVE  /\ TypesPart(Bind(B, HeaderKey(v), HeaderSymbol(v)), D)
         /\ FunctionsPart(Bind(B, HeaderKey(v), HeaderSymbol(v)), H \cup {v})
         /\ PropertiesPart(Bind(B, HeaderKey(v), HeaderSymbol(v)), Q)
         /\ \A w \in H : HeaderKey(w) # HeaderKey(v)
<1> DEFINE key == HeaderKey(v)  C == Bind(B, key, HeaderSymbol(v))
<1>1. /\ \A x : x \in DOMAIN C <=> x \in DOMAIN B \/ x = key
      /\ C[key] = HeaderSymbol(v)
      /\ \A x \in DOMAIN B : x # key => C[x] = B[x]
  BY BindIs
<1>a. PICK a, b, c : key = FunctionKey(a, b, c)
  BY DEF HeaderKey
<1>b. /\ \A x : TypeKey(x) # key
      /\ \A x, y : GetKey(x, y) # key /\ SetKey(x, y) # key
      /\ This # key
  BY <1>a, KeysApart
<1> HIDE DEF C
<1>2. TypesPart(C, D)
  <2>1. \A x : TypeKey(x) \in DOMAIN B <=> TypeKey(x) \in DOMAIN C
    BY <1>1, <1>b
  <2>2. \A x : TypeKey(x) \in DOMAIN B => C[TypeKey(x)] = B[TypeKey(x)]
    BY <1>1, <1>b
  <2>3. This \notin DOMAIN C
    BY <1>1, <1>b DEF TypesPart
  <2> QED
    BY <2>1, <2>2, <2>3 DEF TypesPart
<1>3. FunctionsPart(C, H \cup {v})
  BY <1>1 DEF FunctionsPart
<1>4. PropertiesPart(C, Q)
  <2>2. \A x, y : /\ GetKey(x, y) \in DOMAIN C => GetKey(x, y) \in DOMAIN B
                  /\ SetKey(x, y) \in DOMAIN C => SetKey(x, y) \in DOMAIN B
    BY <1>1, <1>b
  <2>3. \A w : /\ GetterKey(w) \in DOMAIN B =>
                    GetterKey(w) \in DOMAIN C /\ C[GetterKey(w)] = B[GetterKey(w)]
               /\ SetterKey(w) \in DOMAIN B =>
                    SetterKey(w) \in DOMAIN C /\ C[SetterKey(w)] = B[SetterKey(w)]
    BY <1>1, <1>b DEF GetterKey, SetterKey
  <2> QED
    BY <2>2, <2>3 DEF PropertiesPart
<1>5. \A w \in H : HeaderKey(w) # HeaderKey(v)
  BY DEF FunctionsPart
<1> QED
  BY <1>2, <1>3, <1>4, <1>5 DEF C

LEMMA BindProperty ==
  ASSUME NEW B, NEW D, NEW H, NEW Q, NEW v,
         TypesPart(B, D), FunctionsPart(B, H), PropertiesPart(B, Q),
         GetterKey(v) \notin DOMAIN B, SetterKey(v) \notin DOMAIN B
  PROVE  LET C == Bind(Bind(B, GetterKey(v), Getter(v)), SetterKey(v), Setter(v)) IN
         /\ TypesPart(C, D) /\ FunctionsPart(C, H) /\ PropertiesPart(C, Q \cup {v})
         /\ \A w \in Q : GetterKey(w) # GetterKey(v)
<1> DEFINE g == GetterKey(v)  s == SetterKey(v)
           A == Bind(B, g, Getter(v))  C == Bind(A, s, Setter(v))
<1>1. /\ \A x : x \in DOMAIN A <=> x \in DOMAIN B \/ x = g
      /\ A[g] = Getter(v)
      /\ \A x \in DOMAIN B : x # g => A[x] = B[x]
  BY BindIs
<1>2. /\ \A x : x \in DOMAIN C <=> x \in DOMAIN A \/ x = s
      /\ C[s] = Setter(v)
      /\ \A x \in DOMAIN A : x # s => C[x] = A[x]
  BY BindIs
<1> HIDE DEF A, C
<1>3. g # s
  BY KeysApart DEF GetterKey, SetterKey
<1>4. /\ \A x : x \in DOMAIN C <=> x \in DOMAIN B \/ x = g \/ x = s
      /\ C[g] = Getter(v) /\ C[s] = Setter(v)
      /\ \A x \in DOMAIN B : x # g /\ x # s => C[x] = B[x]
  BY <1>1, <1>2, <1>3
<1>b. /\ \A x : TypeKey(x) # g /\ TypeKey(x) # s
      /\ \A a, b, c : FunctionKey(a, b, c) # g /\ FunctionKey(a, b, c) # s
      /\ This # g /\ This # s
  BY KeysApart DEF GetterKey, SetterKey
<1>c. \A a, b : GetKey(a, b) # s /\ SetKey(a, b) # g
  BY KeysApart DEF GetterKey, SetterKey
<1>5. TypesPart(C, D)
  <2>1. \A x : TypeKey(x) \in DOMAIN B <=> TypeKey(x) \in DOMAIN C
    BY <1>4, <1>b
  <2>2. \A x : TypeKey(x) \in DOMAIN B => C[TypeKey(x)] = B[TypeKey(x)]
    BY <1>4, <1>b
  <2>3. This \notin DOMAIN C
    BY <1>4, <1>b DEF TypesPart
  <2> QED
    BY <2>1, <2>2, <2>3 DEF TypesPart
<1>6. FunctionsPart(C, H)
  <2>2. \A x, y, z : FunctionKey(x, y, z) \in DOMAIN C => FunctionKey(x, y, z) \in DOMAIN B
    BY <1>4, <1>b
  <2>3. \A w : HeaderKey(w) \in DOMAIN B =>
           HeaderKey(w) \in DOMAIN C /\ C[HeaderKey(w)] = B[HeaderKey(w)]
    BY <1>4, <1>b DEF HeaderKey
  <2> QED
    BY <2>2, <2>3 DEF FunctionsPart
<1>7. PropertiesPart(C, Q \cup {v})
  <2>1. \A w \in Q : GetterKey(w) # g /\ GetterKey(w) # s /\ SetterKey(w) # g /\ SetterKey(w) # s
    <3>1. \A w \in Q : GetterKey(w) # g /\ SetterKey(w) # s
      BY DEF PropertiesPart
    <3> QED
      BY <3>1, <1>c DEF GetterKey, SetterKey
  <2>2. \A w \in Q \cup {v} : /\ GetterKey(w) \in DOMAIN C /\ C[GetterKey(w)] = Getter(w)
                              /\ SetterKey(w) \in DOMAIN C /\ C[SetterKey(w)] = Setter(w)
    BY <1>4, <2>1 DEF PropertiesPart
  <2>3. \A a, b : GetKey(a, b) \in DOMAIN C => \E w \in Q \cup {v} : GetKey(a, b) = GetterKey(w)
    BY <1>4, <1>c DEF PropertiesPart
  <2>4. \A a, b : SetKey(a, b) \in DOMAIN C => \E w \in Q \cup {v} : SetKey(a, b) = SetterKey(w)
    BY <1>4, <1>c DEF PropertiesPart
  <2> QED
    BY <2>2, <2>3, <2>4 DEF PropertiesPart
<1>8. \A w \in Q : GetterKey(w) # GetterKey(v)
  BY DEF PropertiesPart
<1> QED
  BY <1>5, <1>6, <1>7, <1>8 DEF A, C

-----------------------------------------------------------------------------
(***************************************************************************)
(* A program is well formed if every visit finds it to fit.                *)
(***************************************************************************)
Verified ==
  /\ SpecsFit(Specs) /\ ParamsFit(Specs) /\ HeadersFit(AllHeaders)
  /\ PropertiesFit(AllProperties) /\ BodiesFit(AllHeaders)

SpecsApart ==
  /\ Distinct([i \in Specs |-> <<program.specs[i].name, Len(program.specs[i].params)>>])
  /\ \A i \in Specs : IsGeneric(i) \/ \A b \in BUILTIN_TYPES : b.name # <<program.specs[i].name>>
PropertiesApart(i) ==
  /\ Distinct([n \in DOMAIN PropertiesOf(i) |-> PropertiesOf(i)[n].name])
  /\ \A p \in Elements(PropertiesOf(i)) : Means(i, p.type)
FunctionsApart(i) ==
  Distinct([n \in DOMAIN FunctionsOf(i) |->
              <<FunctionsOf(i)[n].name, Signature(i, FunctionsOf(i)[n].params)>>])
FunctionFits(i, f) ==
  /\ Means(i, f.ret)
  /\ \A t \in Elements(f.params) : Means(i, t) /\ t # [name |-> "void", args |-> <<>>]
  /\ \A use \in Elements(f.uses) : \E item \in Denotes(i, use) : MayUse(i, use, item)

LEMMA WellFormedIs ==
  WellFormed <=>
    /\ SpecsApart /\ ParamsFit(Specs)
    /\ \A i \in Specs : PropertiesApart(i)
    /\ \A i \in Owners : FunctionsApart(i) /\ \A f \in Elements(FunctionsOf(i)) : FunctionFits(i, f)
BY Zenon DEF WellFormed, SpecsApart, ParamsFit, PropertiesApart, FunctionsApart, FunctionFits

LEMMA SpecPair ==
  ASSUME Typed, NEW i \in Specs, NEW k \in Specs
  PROVE  SpecName(i) = SpecName(k)
           <=> <<program.specs[i].name, Len(program.specs[i].params)>>
               = <<program.specs[k].name, Len(program.specs[k].params)>>
<1>1. program.specs[k].params \in Seq(STRING)
  BY Shape, SpecShape
<1>2. SpecName(k) = Marked(program.specs[k].name, program.specs[k].params)
  BY SpecNames
<1>3. SpecName(i) = Marked(program.specs[k].name, program.specs[k].params)
        <=> program.specs[i].name = program.specs[k].name
            /\ Len(program.specs[i].params) = Len(program.specs[k].params)
  BY <1>1, SpecNamesSame
<1> QED
  BY <1>2, <1>3

LEMMA SpecsFitIff ==
  ASSUME Typed
  PROVE  SpecsFit(Specs) <=> SpecsApart
<1> DEFINE pairs == [i \in Specs |-> <<program.specs[i].name, Len(program.specs[i].params)>>]
<1>1. DOMAIN pairs = Specs /\ \A i, k \in Specs : pairs[i] = pairs[k] <=> SpecName(i) = SpecName(k)
  BY SpecPair
<1> HIDE DEF pairs
<1>2. Distinct(pairs) <=> \A i, k \in Specs : SpecName(k) = SpecName(i) => k = i
  BY <1>1 DEF Distinct
<1>3. ASSUME NEW i \in Specs
      PROVE  (IsGeneric(i) \/ \A b \in BUILTIN_TYPES : b.name # <<program.specs[i].name>>)
               <=> \A b \in BUILTIN_TYPES : b.name # SpecName(i)
  <2>1. \A b \in BUILTIN_TYPES : b.name = <<b.name[1]>>
    BY Builtin
  <2>2. \A name : SpecName(i) = <<name>> <=> program.specs[i].name = name /\ ~IsGeneric(i)
    BY SpecNames
  <2>3. CASE IsGeneric(i)
    BY <2>1, <2>2, <2>3
  <2>4. CASE ~IsGeneric(i)
    BY <2>2, <2>4
  <2> QED
    BY <2>3, <2>4
<1>4. SpecsApart <=> /\ Distinct(pairs)
                     /\ \A i \in Specs : \A b \in BUILTIN_TYPES : b.name # SpecName(i)
  BY <1>3, Zenon DEF SpecsApart, pairs
<1> QED
  BY <1>2, <1>4, Zenon DEF SpecsFit

LEMMA OwnersSame ==
  ASSUME Typed, SpecsFit(Specs), NEW i \in Owners, NEW k \in Owners
  PROVE  SpecName(i) = SpecName(k) <=> i = k
<1>1. CASE i = 0 \/ k = 0
  <2>1. \A l \in Specs : SpecName(l) # <<>>
    BY SpecNames
  <2> QED
    BY <1>1, <2>1, SpecName0 DEF Owners
<1>2. CASE i # 0 /\ k # 0
  BY <1>2 DEF Owners, SpecsFit
<1> QED
  BY <1>1, <1>2

LEMMA HeaderShape ==
  ASSUME Typed, NEW v \in AllHeaders
  PROVE  /\ v[1] \in Owners /\ v[2] \in DOMAIN FunctionsOf(v[1]) /\ v = <<v[1], v[2]>>
         /\ HeaderOf(v) \in FunctionNodes /\ HeaderOf(v) \in Elements(FunctionsOf(v[1]))
         /\ v[2] \in Nat
<1>1. v[1] \in Owners /\ v[2] \in DOMAIN FunctionsOf(v[1]) /\ v = <<v[1], v[2]>> /\ v[2] \in Nat
  BY DEF AllHeaders
<1>2. FunctionsOf(v[1]) \in Seq(FunctionNodes)
  BY <1>1, Shape
<1> QED
  BY <1>1, <1>2 DEF HeaderOf, Elements

LEMMA PropertyShape ==
  ASSUME Typed, NEW v \in AllProperties
  PROVE  /\ v[1] \in Specs /\ v[2] \in DOMAIN PropertiesOf(v[1]) /\ v = <<v[1], v[2]>>
         /\ PropertyOf(v) \in PropertyNodes /\ PropertyOf(v).type \in TypeNodes
         /\ PropertyOf(v) \in Elements(PropertiesOf(v[1])) /\ v[1] \in Owners /\ v[1] # 0
         /\ v[2] \in Nat
<1>1. v[1] \in Specs /\ v[2] \in DOMAIN PropertiesOf(v[1]) /\ v = <<v[1], v[2]>> /\ v[2] \in Nat
  BY DEF AllProperties
<1>2. PropertiesOf(v[1]) \in Seq(PropertyNodes) /\ v[1] \in Owners /\ v[1] # 0
  BY <1>1, Shape DEF Owners
<1>3. PropertyOf(v) \in PropertyNodes
  BY <1>1, <1>2 DEF PropertyOf
<1> QED
  BY <1>1, <1>2, <1>3 DEF PropertyOf, Elements, PropertyNodes

LEMMA HeaderPair ==
  ASSUME Typed, NEW i \in Owners, NEW n \in DOMAIN FunctionsOf(i)
  PROVE  <<i, n>> \in AllHeaders /\ HeaderOf(<<i, n>>) = FunctionsOf(i)[n]
BY FunctionSums DEF AllHeaders, HeaderOf

LEMMA PropertyPair ==
  ASSUME Typed, NEW i \in Specs, NEW n \in DOMAIN PropertiesOf(i)
  PROVE  <<i, n>> \in AllProperties /\ PropertyOf(<<i, n>>) = PropertiesOf(i)[n]
<1>1. i \in Owners
  BY DEF Owners
<1>2. n \in Nat
  BY <1>1, FunctionSums
<1> QED
  BY <1>2 DEF AllProperties, PropertyOf

LEMMA PropertiesFitIff ==
  ASSUME Typed, SpecsFit(Specs)
  PROVE  PropertiesFit(AllProperties) <=> \A i \in Specs : PropertiesApart(i)
<1>1. ASSUME PropertiesFit(AllProperties), NEW i \in Specs PROVE PropertiesApart(i)
  <2> DEFINE names == [n \in DOMAIN PropertiesOf(i) |-> PropertiesOf(i)[n].name]
  <2>1. DOMAIN names = DOMAIN PropertiesOf(i) /\ \A n \in DOMAIN names : names[n] = PropertiesOf(i)[n].name
    OBVIOUS
  <2> HIDE DEF names
  <2>2. ASSUME NEW m \in DOMAIN names, NEW n \in DOMAIN names, names[m] = names[n] PROVE m = n
    <3>1. <<i, m>> \in AllProperties /\ <<i, n>> \in AllProperties
      BY <2>1, PropertyPair
    <3>2. GetterKey(<<i, m>>) = GetterKey(<<i, n>>)
      BY <2>1, <2>2 DEF GetterKey, PropertyOf
    <3>3. <<i, m>> = <<i, n>>
      BY <3>1, <3>2, <1>1 DEF PropertiesFit
    <3> QED
      BY <3>3
  <2>3. ASSUME NEW p \in Elements(PropertiesOf(i)) PROVE Means(i, p.type)
    <3>1. PICK n \in DOMAIN PropertiesOf(i) : p = PropertiesOf(i)[n]
      BY DEF Elements
    <3>2. <<i, n>> \in AllProperties /\ PropertyOf(<<i, n>>) = p
      BY <3>1, PropertyPair
    <3> QED
      BY <3>2, <1>1 DEF PropertiesFit
  <2> QED
    BY <2>2, <2>3 DEF PropertiesApart, Distinct, names
<1>2. ASSUME \A i \in Specs : PropertiesApart(i) PROVE PropertiesFit(AllProperties)
  <2>1. ASSUME NEW v \in AllProperties PROVE Means(v[1], PropertyOf(v).type)
    BY <1>2, PropertyShape DEF PropertiesApart
  <2>2. ASSUME NEW v \in AllProperties, NEW w \in AllProperties, GetterKey(v) = GetterKey(w)
        PROVE  v = w
    <3>1. /\ v[1] \in Specs /\ v[2] \in DOMAIN PropertiesOf(v[1]) /\ v = <<v[1], v[2]>>
          /\ w[1] \in Specs /\ w[2] \in DOMAIN PropertiesOf(w[1]) /\ w = <<w[1], w[2]>>
      BY PropertyShape
    <3>2. SpecName(v[1]) = SpecName(w[1]) /\ PropertyOf(v).name = PropertyOf(w).name
      BY <2>2, KeysSame DEF GetterKey
    <3>3. v[1] = w[1]
      BY <3>1, <3>2 DEF SpecsFit
    <3> DEFINE names == [n \in DOMAIN PropertiesOf(v[1]) |-> PropertiesOf(v[1])[n].name]
    <3>4. Distinct(names)
      BY <1>2, <3>1 DEF PropertiesApart
    <3>5. /\ DOMAIN names = DOMAIN PropertiesOf(v[1])
          /\ names[v[2]] = PropertyOf(v).name /\ names[w[2]] = PropertyOf(w).name
      BY <3>1, <3>3 DEF PropertyOf
    <3> HIDE DEF names
    <3>6. v[2] = w[2]
      BY <3>1, <3>2, <3>3, <3>4, <3>5 DEF Distinct
    <3> QED
      BY <3>1, <3>3, <3>6
  <2> QED
    BY <2>1, <2>2 DEF PropertiesFit
<1> QED
  BY <1>1, <1>2

FunctionTypes(i, f) ==
  /\ Means(i, f.ret)
  /\ \A t \in Elements(f.params) : Means(i, t) /\ t # [name |-> "void", args |-> <<>>]
LEMMA HeaderTypesIs ==
  ASSUME Typed, NEW v \in AllHeaders
  PROVE  HeaderTypes(v) <=> FunctionTypes(v[1], HeaderOf(v))
BY DEF HeaderTypes, FunctionTypes, AllMean, Elements, VoidNode

LEMMA HeadersFitIff ==
  ASSUME Typed, SpecsFit(Specs)
  PROVE  HeadersFit(AllHeaders)
           <=> \A i \in Owners : FunctionsApart(i)
                                 /\ \A f \in Elements(FunctionsOf(i)) : FunctionTypes(i, f)
<1> DEFINE pairs(i) == [n \in DOMAIN FunctionsOf(i) |->
                          <<FunctionsOf(i)[n].name, Signature(i, FunctionsOf(i)[n].params)>>]
<1>0. \A i : /\ DOMAIN pairs(i) = DOMAIN FunctionsOf(i)
             /\ \A n \in DOMAIN FunctionsOf(i) : pairs(i)[n] =
                  <<FunctionsOf(i)[n].name, Signature(i, FunctionsOf(i)[n].params)>>
             /\ FunctionsApart(i) <=> Distinct(pairs(i))
  BY DEF FunctionsApart
<1> HIDE DEF pairs
<1>s. ASSUME NEW v \in AllHeaders, NEW w \in AllHeaders, HeaderTypes(v), HeaderTypes(w), v[1] = w[1]
      PROVE  pairs(v[1])[v[2]] = pairs(w[1])[w[2]] <=> HeaderKey(v) = HeaderKey(w)
  <2>1. /\ HeaderOf(v).params \in Seq(TypeNodes) /\ AllMean(v[1], HeaderOf(v).params)
        /\ HeaderOf(w).params \in Seq(TypeNodes) /\ AllMean(w[1], HeaderOf(w).params)
    BY <1>s, HeaderShape, FunctionShape DEF HeaderTypes
  <2>2. Signature(v[1], HeaderOf(v).params) = Signature(w[1], HeaderOf(w).params)
          <=> NamesIn(HeaderOf(v).params) = NamesIn(HeaderOf(w).params)
    <3>1. SameTypes(v[1], w[1], HeaderOf(v).params, HeaderOf(w).params)
      BY <2>1, SignatureSame, Zenon
    <3> QED
      BY <3>1 DEF SameTypes
  <2>3. /\ pairs(v[1])[v[2]] = <<HeaderOf(v).name, Signature(v[1], HeaderOf(v).params)>>
        /\ pairs(w[1])[w[2]] = <<HeaderOf(w).name, Signature(w[1], HeaderOf(w).params)>>
    BY <1>0, HeaderShape DEF HeaderOf
  <2>4. HeaderKey(v) = HeaderKey(w) <=>
          /\ HeaderOf(v).name = HeaderOf(w).name
          /\ NamesIn(HeaderOf(v).params) = NamesIn(HeaderOf(w).params)
    BY <1>s, KeysSame DEF HeaderKey
  <2> QED
    BY <2>2, <2>3, <2>4
<1>1. ASSUME HeadersFit(AllHeaders), NEW i \in Owners
      PROVE  FunctionsApart(i) /\ \A f \in Elements(FunctionsOf(i)) : FunctionTypes(i, f)
  <2>1. ASSUME NEW m \in DOMAIN FunctionsOf(i), NEW n \in DOMAIN FunctionsOf(i),
               pairs(i)[m] = pairs(i)[n]
        PROVE  m = n
    <3> DEFINE v == <<i, m>>  w == <<i, n>>
    <3>1. v \in AllHeaders /\ w \in AllHeaders
      BY HeaderPair
    <3>2. v[1] = i /\ w[1] = i /\ v[2] = m /\ w[2] = n
      OBVIOUS
    <3> HIDE DEF v, w
    <3>3. HeaderTypes(v) /\ HeaderTypes(w)
      BY <1>1, <3>1 DEF HeadersFit
    <3>4. HeaderKey(v) = HeaderKey(w)
      BY <1>s, <2>1, <3>1, <3>2, <3>3
    <3>5. v = w
      BY <1>1, <3>1, <3>4 DEF HeadersFit
    <3> QED
      BY <3>2, <3>5
  <2>2. ASSUME NEW f \in Elements(FunctionsOf(i)) PROVE FunctionTypes(i, f)
    <3>1. PICK n \in DOMAIN FunctionsOf(i) : f = FunctionsOf(i)[n]
      BY DEF Elements
    <3>2. <<i, n>> \in AllHeaders /\ HeaderOf(<<i, n>>) = f
      BY <3>1, HeaderPair
    <3>3. HeaderTypes(<<i, n>>)
      BY <3>2, <1>1 DEF HeadersFit
    <3>4. FunctionTypes(<<i, n>>[1], HeaderOf(<<i, n>>))
      BY <3>2, <3>3, HeaderTypesIs
    <3> QED
      BY <3>2, <3>4
  <2>3. Distinct(pairs(i))
    BY <1>0, <2>1 DEF Distinct
  <2> QED
    BY <1>0, <2>2, <2>3
<1>2. ASSUME \A i \in Owners : FunctionsApart(i)
                                 /\ \A f \in Elements(FunctionsOf(i)) : FunctionTypes(i, f)
      PROVE  HeadersFit(AllHeaders)
  <2>1. ASSUME NEW v \in AllHeaders PROVE HeaderTypes(v)
    BY <1>2, HeaderShape, HeaderTypesIs
  <2>2. ASSUME NEW v \in AllHeaders, NEW w \in AllHeaders, HeaderKey(v) = HeaderKey(w) PROVE v = w
    <3>1. /\ v[1] \in Owners /\ v[2] \in DOMAIN FunctionsOf(v[1]) /\ v = <<v[1], v[2]>>
          /\ w[1] \in Owners /\ w[2] \in DOMAIN FunctionsOf(w[1]) /\ w = <<w[1], w[2]>>
      BY HeaderShape
    <3>2. SpecName(v[1]) = SpecName(w[1])
      BY <2>2, KeysSame DEF HeaderKey
    <3>3. v[1] = w[1]
      BY <3>1, <3>2, OwnersSame
    <3>4. pairs(v[1])[v[2]] = pairs(v[1])[w[2]]
      BY <1>s, <2>1, <2>2, <3>3
    <3>5. Distinct(pairs(v[1])) /\ DOMAIN pairs(v[1]) = DOMAIN FunctionsOf(v[1])
      BY <1>0, <1>2, <3>1
    <3>6. v[2] = w[2]
      BY <3>1, <3>3, <3>4, <3>5 DEF Distinct
    <3> QED
      BY <3>1, <3>3, <3>6
  <2> QED
    BY <2>1, <2>2 DEF HeadersFit
<1> QED
  BY <1>1, <1>2

FunctionUses(i, f) ==
  \A use \in Elements(f.uses) : \E item \in Denotes(i, use) : MayUse(i, use, item)
LEMMA OneUseIs ==
  ASSUME Typed, NEW v \in AllHeaders
  PROVE  /\ HeaderOf(v).uses \in Seq(Uses)
         /\ HeaderOf(v).uses # <<>> =>
              1 \in DOMAIN HeaderOf(v).uses /\ Elements(HeaderOf(v).uses) = {HeaderOf(v).uses[1]}
         /\ HeaderOf(v).uses = <<>> => Elements(HeaderOf(v).uses) = {}
<1>1. HeaderOf(v).uses \in Seq(Uses)
  BY HeaderShape, FunctionShape
<1>2. Len(HeaderOf(v).uses) <= 1
  <2>1. OneUse(program.functions) /\ \A i \in DOMAIN program.specs : OneUse(program.specs[i].functions)
    BY ProgramsAssumption DEF Typed
  <2>2. OneUse(FunctionsOf(v[1]))
    BY <2>1, HeaderShape DEF FunctionsOf, Owners, Specs
  <2> QED
    BY <2>2, HeaderShape DEF OneUse, HeaderOf
<1> DEFINE s == HeaderOf(v).uses
<1> HIDE DEF s
<1>3. s \in Seq(Uses) /\ Len(s) <= 1
  BY <1>1, <1>2 DEF s
<1>4. s # <<>> => Len(s) = 1
  <2>1. s # <<>> => Len(s) \in Nat \ {0}
    BY <1>3, EmptySeq
  <2>2. \A n \in Nat \ {0} : n <= 1 => n = 1
    OBVIOUS
  <2> QED
    BY <1>3, <2>1, <2>2, Zenon
<1>5. s # <<>> => DOMAIN s = {1}
  BY <1>3, <1>4
<1>6. s # <<>> => 1 \in DOMAIN s /\ Elements(s) = {s[1]}
  BY <1>5 DEF Elements
<1>7. s = <<>> => Elements(s) = {}
  BY DEF Elements
<1> QED
  BY <1>1, <1>6, <1>7 DEF s

LEMMA FitBodyIs ==
  ASSUME Typed, NEW v \in AllHeaders
  PROVE  FitBody(v) <=> FunctionUses(v[1], HeaderOf(v))
BY OneUseIs, Zenon DEF FitBody, FunctionUses

LEMMA BodiesFitIff ==
  ASSUME Typed
  PROVE  BodiesFit(AllHeaders)
           <=> \A i \in Owners : \A f \in Elements(FunctionsOf(i)) : FunctionUses(i, f)
<1>1. ASSUME BodiesFit(AllHeaders), NEW i \in Owners, NEW f \in Elements(FunctionsOf(i))
      PROVE  FunctionUses(i, f)
  <2>1. PICK n \in DOMAIN FunctionsOf(i) : f = FunctionsOf(i)[n]
    BY DEF Elements
  <2>2. <<i, n>> \in AllHeaders /\ HeaderOf(<<i, n>>) = f
    BY <2>1, HeaderPair
  <2>3. FitBody(<<i, n>>)
    BY <2>2, <1>1 DEF BodiesFit
  <2>4. FunctionUses(<<i, n>>[1], HeaderOf(<<i, n>>))
    BY <2>2, <2>3, FitBodyIs
  <2> QED
    BY <2>2, <2>4
<1>2. ASSUME \A i \in Owners : \A f \in Elements(FunctionsOf(i)) : FunctionUses(i, f)
      PROVE  BodiesFit(AllHeaders)
  BY <1>2, HeaderShape, FitBodyIs DEF BodiesFit
<1> QED
  BY <1>1, <1>2

LEMMA WellFormedIff ==
  ASSUME Typed
  PROVE  WellFormed <=> Verified
<1>1. \A i, f : FunctionFits(i, f) <=> FunctionTypes(i, f) /\ FunctionUses(i, f)
  BY DEF FunctionFits, FunctionTypes, FunctionUses
<1>2. SpecsFit(Specs) => (PropertiesFit(AllProperties) <=> \A i \in Specs : PropertiesApart(i))
  BY PropertiesFitIff
<1>3. SpecsFit(Specs) =>
        (HeadersFit(AllHeaders)
           <=> \A i \in Owners : FunctionsApart(i)
                                 /\ \A f \in Elements(FunctionsOf(i)) : FunctionTypes(i, f))
  BY HeadersFitIff
<1> QED
  BY <1>1, <1>2, <1>3, WellFormedIs, SpecsFitIff, BodiesFitIff, Zenon DEF Verified

-----------------------------------------------------------------------------
(***************************************************************************)
(* Uses.  With every header in the table, and the parameters of spec i on  *)
(* top, what a use in spec i finds is what it denotes.                     *)
(***************************************************************************)
Ready(B) ==
  /\ HoldsTypes(B) /\ FunctionsPart(B, AllHeaders) /\ PropertiesPart(B, AllProperties)
  /\ SpecsFit(Specs) /\ HeadersFit(AllHeaders) /\ PropertiesFit(AllProperties)

LEMMA LookKey ==
  ASSUME NEW B, NEW i, NEW a, NEW b, NEW c
  PROVE  /\ Look(TableOf(B, i), FunctionKey(a, b, c)) =
              IF FunctionKey(a, b, c) \in DOMAIN B THEN {B[FunctionKey(a, b, c)]} ELSE {}
         /\ Look(TableOf(B, i), GetKey(a, b)) =
              IF GetKey(a, b) \in DOMAIN B THEN {B[GetKey(a, b)]} ELSE {}
         /\ Look(TableOf(B, i), SetKey(a, b)) =
              IF SetKey(a, b) \in DOMAIN B THEN {B[SetKey(a, b)]} ELSE {}
<1>1. /\ \A x : TypeKey(x) # FunctionKey(a, b, c) /\ TypeKey(x) # GetKey(a, b)
                 /\ TypeKey(x) # SetKey(a, b)
      /\ This # FunctionKey(a, b, c) /\ This # GetKey(a, b) /\ This # SetKey(a, b)
  BY KeysApart
<1>2. /\ FunctionKey(a, b, c) \notin DOMAIN ParamScope(i) /\ GetKey(a, b) \notin DOMAIN ParamScope(i)
      /\ SetKey(a, b) \notin DOMAIN ParamScope(i)
  BY <1>1, ParamScopeIs
<1> QED
  BY <1>2, LookIn

\* Function v is of spec k, has this name and takes these types.
Takes(v, k, name, args) ==
  /\ v \in AllHeaders /\ v[1] = k
  /\ HeaderOf(v).name = name /\ HeaderOf(v).params = args
Named(v, k, name) == v \in AllProperties /\ v[1] = k /\ PropertyOf(v).name = name

LEMMA FoundFunction ==
  ASSUME Typed, NEW B, Ready(B), NEW i \in Owners, NEW k \in Owners, NEW name,
         NEW args \in Seq(TypeNodes), AllMean(i, args), NEW s
  PROVE  s \in Look(TableOf(B, i), FunctionKey(SpecName(k), name, NamesIn(args)))
           <=> \E v : Takes(v, k, name, args) /\ s = HeaderSymbol(v)
<1> DEFINE key == FunctionKey(SpecName(k), name, NamesIn(args))
<1>1. s \in Look(TableOf(B, i), key) <=> key \in DOMAIN B /\ s = B[key]
  BY LookKey
<1>2. ASSUME NEW v \in AllHeaders PROVE HeaderKey(v) = key <=> Takes(v, k, name, args)
  <2>1. v[1] \in Owners /\ HeaderOf(v).params \in Seq(TypeNodes) /\ AllMean(v[1], HeaderOf(v).params)
    BY HeaderShape, FunctionShape DEF Ready, HeadersFit, HeaderTypes
  <2>2. SpecName(v[1]) = SpecName(k) <=> v[1] = k
    BY <2>1, OwnersSame DEF Ready
  <2>3. SameTypes(v[1], i, HeaderOf(v).params, args)
    BY <2>1, SignatureSame, Zenon
  <2>4. HeaderKey(v) = key <=> /\ SpecName(v[1]) = SpecName(k) /\ HeaderOf(v).name = name
                               /\ NamesIn(HeaderOf(v).params) = NamesIn(args)
    BY KeysSame DEF HeaderKey
  <2> QED
    BY <2>2, <2>3, <2>4 DEF SameTypes, Takes
<1>3. key \in DOMAIN B => \E v \in AllHeaders : key = HeaderKey(v)
  BY DEF Ready, FunctionsPart
<1>4. \A v \in AllHeaders : HeaderKey(v) \in DOMAIN B /\ B[HeaderKey(v)] = HeaderSymbol(v)
  BY DEF Ready, FunctionsPart
<1> HIDE DEF key
<1>5. s \in Look(TableOf(B, i), key) <=> \E v : Takes(v, k, name, args) /\ s = HeaderSymbol(v)
  <2>1. \A v : Takes(v, k, name, args) => v \in AllHeaders
    BY DEF Takes
  <2> QED
    BY <1>1, <1>2, <1>3, <1>4, <2>1
<1> QED
  BY <1>5 DEF key

LEMMA TakingIs ==
  ASSUME Typed, NEW B, Ready(B), NEW i \in Owners, NEW k \in Owners, NEW name,
         NEW args \in Seq(TypeNodes), AllMean(i, args), NEW item
  PROVE  item \in Taking(k, name, Signature(i, args))
           <=> \E v : Takes(v, k, name, args) /\ item = Visit("header", v[1], v[2])
<1>1. ASSUME NEW j \in DOMAIN FunctionsOf(k)
      PROVE  /\ <<k, j>> \in AllHeaders /\ HeaderOf(<<k, j>>) = FunctionsOf(k)[j]
             /\ Signature(k, FunctionsOf(k)[j].params) = Signature(i, args)
                  <=> FunctionsOf(k)[j].params = args
  <2> DEFINE v == <<k, j>>
  <2>1. v \in AllHeaders /\ HeaderOf(v) = FunctionsOf(k)[j] /\ v[1] = k
    BY HeaderPair
  <2> HIDE DEF v
  <2>2. v[1] \in Owners /\ HeaderOf(v).params \in Seq(TypeNodes) /\ AllMean(v[1], HeaderOf(v).params)
    BY <2>1, HeaderShape, FunctionShape DEF Ready, HeadersFit, HeaderTypes
  <2>3. SameTypes(v[1], i, HeaderOf(v).params, args)
    BY <2>2, SignatureSame, Zenon
  <2> QED
    BY <2>1, <2>3 DEF SameTypes, v
<1>2. ASSUME item \in Taking(k, name, Signature(i, args))
      PROVE  \E v : Takes(v, k, name, args) /\ item = Visit("header", v[1], v[2])
  <2>1. PICK j \in DOMAIN FunctionsOf(k) :
          /\ item = Visit("header", k, j) /\ FunctionsOf(k)[j].name = name
          /\ Signature(k, FunctionsOf(k)[j].params) = Signature(i, args)
    BY <1>2 DEF Taking
  <2>2. Takes(<<k, j>>, k, name, args) /\ item = Visit("header", <<k, j>>[1], <<k, j>>[2])
    BY <1>1, <2>1 DEF Takes
  <2> QED
    BY <2>2
<1>3. ASSUME NEW v, Takes(v, k, name, args), item = Visit("header", v[1], v[2])
      PROVE  item \in Taking(k, name, Signature(i, args))
  <2>1. v[2] \in DOMAIN FunctionsOf(k) /\ HeaderOf(v) = FunctionsOf(k)[v[2]]
    BY <1>3, HeaderShape DEF Takes, HeaderOf
  <2> QED
    BY <1>1, <1>3, <2>1 DEF Taking, Takes
<1> QED
  BY <1>2, <1>3

LEMMA FoundGetter ==
  ASSUME Typed, NEW B, Ready(B), NEW i \in Owners, NEW k \in Specs, NEW name, NEW s
  PROVE  /\ s \in Look(TableOf(B, i), GetKey(SpecName(k), name))
              <=> \E v : Named(v, k, name) /\ s = Getter(v)
         /\ s \in Look(TableOf(B, i), SetKey(SpecName(k), name))
              <=> \E v : Named(v, k, name) /\ s = Setter(v)
<1> DEFINE get == GetKey(SpecName(k), name)  set == SetKey(SpecName(k), name)
<1>1. /\ s \in Look(TableOf(B, i), get) <=> get \in DOMAIN B /\ s = B[get]
      /\ s \in Look(TableOf(B, i), set) <=> set \in DOMAIN B /\ s = B[set]
  <2>1. /\ Look(TableOf(B, i), get) = IF get \in DOMAIN B THEN {B[get]} ELSE {}
        /\ Look(TableOf(B, i), set) = IF set \in DOMAIN B THEN {B[set]} ELSE {}
    BY LookKey, Zenon
  <2> HIDE DEF get, set
  <2> QED
    BY <2>1
<1>2. ASSUME NEW v \in AllProperties
      PROVE  /\ GetterKey(v) = get <=> Named(v, k, name)
             /\ SetterKey(v) = set <=> Named(v, k, name)
  <2>1. v[1] \in Owners /\ k \in Owners
    BY PropertyShape DEF Owners
  <2>2. SpecName(v[1]) = SpecName(k) <=> v[1] = k
    BY <2>1, OwnersSame DEF Ready
  <2>3. /\ GetterKey(v) = get <=> SpecName(v[1]) = SpecName(k) /\ PropertyOf(v).name = name
        /\ SetterKey(v) = set <=> SpecName(v[1]) = SpecName(k) /\ PropertyOf(v).name = name
    BY KeysSame DEF GetterKey, SetterKey
  <2> QED
    BY <2>2, <2>3 DEF Named
<1>3. /\ get \in DOMAIN B => \E v \in AllProperties : get = GetterKey(v)
      /\ set \in DOMAIN B => \E v \in AllProperties : set = SetterKey(v)
  BY DEF Ready, PropertiesPart
<1>4. \A v \in AllProperties :
        /\ GetterKey(v) \in DOMAIN B /\ B[GetterKey(v)] = Getter(v)
        /\ SetterKey(v) \in DOMAIN B /\ B[SetterKey(v)] = Setter(v)
  BY DEF Ready, PropertiesPart
<1>v. \A v : Named(v, k, name) => v \in AllProperties
  BY DEF Named
<1> HIDE DEF get, set
<1>5. s \in Look(TableOf(B, i), get) <=> \E v : Named(v, k, name) /\ s = Getter(v)
  BY <1>1, <1>2, <1>3, <1>4, <1>v
<1>6. s \in Look(TableOf(B, i), set) <=> \E v : Named(v, k, name) /\ s = Setter(v)
  BY <1>1, <1>2, <1>3, <1>4, <1>v
<1> QED
  BY <1>5, <1>6 DEF get, set

LEMMA CalledIs ==
  ASSUME Typed, NEW k \in Specs, NEW name, NEW item
  PROVE  item \in Called(k, name)
           <=> \E v : Named(v, k, name) /\ item = Visit("property", v[1], v[2])
<1>1. ASSUME item \in Called(k, name)
      PROVE  \E v : Named(v, k, name) /\ item = Visit("property", v[1], v[2])
  <2>1. PICK j \in DOMAIN PropertiesOf(k) :
          item = Visit("property", k, j) /\ PropertiesOf(k)[j].name = name
    BY <1>1 DEF Called
  <2>2. Named(<<k, j>>, k, name) /\ item = Visit("property", <<k, j>>[1], <<k, j>>[2])
    BY <2>1, PropertyPair DEF Named
  <2> QED
    BY <2>2
<1>2. ASSUME NEW v, Named(v, k, name), item = Visit("property", v[1], v[2])
      PROVE  item \in Called(k, name)
  <2>1. v[2] \in DOMAIN PropertiesOf(k) /\ PropertyOf(v) = PropertiesOf(k)[v[2]]
    BY <1>2, PropertyShape DEF Named, PropertyOf
  <2> QED
    BY <1>2, <2>1 DEF Called, Named
<1> QED
  BY <1>1, <1>2

\* A name that no spec has owns nothing.
LEMMA FoundNothing ==
  ASSUME Typed, NEW B, Ready(B), NEW i, NEW a, \A k \in Owners : SpecName(k) # a, NEW b, NEW c
  PROVE  /\ Look(TableOf(B, i), FunctionKey(a, b, c)) = {}
         /\ Look(TableOf(B, i), GetKey(a, b)) = {} /\ Look(TableOf(B, i), SetKey(a, b)) = {}
<1>1. \A v \in AllHeaders : HeaderKey(v) # FunctionKey(a, b, c)
  BY HeaderShape, KeysSame DEF HeaderKey
<1>2. \A v \in AllProperties : GetterKey(v) # GetKey(a, b) /\ SetterKey(v) # SetKey(a, b)
  BY PropertyShape, KeysSame DEF GetterKey, SetterKey
<1>3. /\ FunctionKey(a, b, c) \notin DOMAIN B /\ GetKey(a, b) \notin DOMAIN B
      /\ SetKey(a, b) \notin DOMAIN B
  BY <1>1, <1>2 DEF Ready, FunctionsPart, PropertiesPart
<1> QED
  BY <1>3, LookKey

-----------------------------------------------------------------------------
LEMMA UseShape ==
  ASSUME NEW use \in Uses
  PROVE  /\ use.op \in {"new", "call", "member", "get", "set"}
         /\ use.args \in Seq(TypeNodes)
         /\ use.on \in TypeNodes \/ (use.on = ThisObject /\ use.op # "new")
         /\ use.on.name = "this" <=> use.on = ThisObject
BY DEF Uses, ThisObject, TypeNodes

\* The name of what the members of a use are looked up in.
ObjectName(i, use) ==
  IF use.on.name = "this" THEN SpecName(i)
  ELSE IF use.op = "new" THEN Marked(use.on.name, use.on.args) ELSE TypeName(use.on)

LEMMA OwnersThis ==
  ASSUME Typed, SpecsFit(Specs), NEW i \in Owners, NEW use \in Uses, use.on.name = "this",
         Means(i, use.on), NEW k
  PROVE  k \in OwnersOf(i, use) <=> k \in Specs /\ SpecName(k) = ObjectName(i, use)
<1>1. Meanings(i, use.on) = {<<"spec", i>> : l \in {i} \ {0}}
  BY DEF Meanings
<1>2. i # 0 /\ Meanings(i, use.on) = {<<"spec", i>>}
  BY <1>1 DEF Means
<1>3. OwnersOf(i, use) = {i}
  <2> DEFINE m == <<"spec", i>>
  <2>1. m[1] = "spec" /\ m[2] = i /\ Meanings(i, use.on) = {m}
    BY <1>2
  <2> HIDE DEF m
  <2> QED
    BY <2>1 DEF OwnersOf
<1>4. i \in Specs /\ ObjectName(i, use) = SpecName(i)
  BY <1>2 DEF Owners, ObjectName
<1> QED
  BY <1>3, <1>4 DEF SpecsFit

LEMMA OwnersPlain ==
  ASSUME Typed, NEW i \in Owners, NEW use \in Uses, use.on \in TypeNodes, use.on.args = <<>>,
         Means(i, use.on), NEW k
  PROVE  k \in OwnersOf(i, use) <=> k \in Specs /\ SpecName(k) = ObjectName(i, use)
<1> DEFINE name == use.on.name
<1>1. Meanings(i, use.on) = PlainMeanings(i, name) /\ name # "this"
  BY MeaningsAre, TypeShape
<1>2. ObjectName(i, use) = <<name>>
  <2>1. use.on.args \in Seq(STRING)
    BY TypeShape
  <2>2. PlainMarked(name, use.on.args, name)
    BY <2>1, MarkedPlain, Zenon
  <2>3. Marked(name, use.on.args) = <<name>>
    BY <2>2 DEF PlainMarked
  <2>4. TypeName(use.on) = <<name>>
    BY DEF TypeName
  <2> QED
    BY <1>1, <2>3, <2>4 DEF ObjectName
<1>3. \A m \in PlainMeanings(i, name) :
        /\ m[1] # "instance"
        /\ m[1] = "spec" => \E l \in Specs : m = <<"spec", l>> /\ SpecName(l) = <<name>>
  BY PlainTags
<1>4. ASSUME k \in OwnersOf(i, use) PROVE k \in Specs /\ SpecName(k) = <<name>>
  <2>1. PICK m \in PlainMeanings(i, name) : k = m[2] /\ (m[1] = "spec" \/ m[1] = "instance")
    BY <1>1, <1>4 DEF OwnersOf
  <2>2. PICK l \in Specs : m = <<"spec", l>> /\ SpecName(l) = <<name>>
    BY <1>3, <2>1
  <2> QED
    BY <2>1, <2>2
<1>5. ASSUME k \in Specs, SpecName(k) = <<name>> PROVE k \in OwnersOf(i, use)
  <2> DEFINE m == <<"spec", k>>
  <2>1. IsMeaning(i, name, m)
    BY <1>5 DEF IsMeaning
  <2>2. m \in Meanings(i, use.on)
    BY <1>1, <2>1, PlainIs
  <2>3. m[1] = "spec" /\ m[2] = k
    OBVIOUS
  <2> HIDE DEF m
  <2> QED
    BY <2>2, <2>3 DEF OwnersOf
<1> QED
  BY <1>2, <1>4, <1>5

LEMMA OwnersInstance ==
  ASSUME Typed, NEW i \in Owners, NEW use \in Uses, use.on \in TypeNodes, use.on.args # <<>>,
         Means(i, use.on), NEW k
  PROVE  k \in OwnersOf(i, use) <=> k \in Specs /\ SpecName(k) = ObjectName(i, use)
<1> DEFINE t == use.on
<1>1. t.name # "this" /\ t.args \in Seq(STRING)
  BY TypeShape
<1>2. \A m : m \in Meanings(i, t)
                <=> \E l \in Specs : Instantiates(i, t, l) /\ m = InstanceOf(i, t, l)
  BY MeaningsAre
<1>3. \A l : InstanceOf(i, t, l)[1] = "instance" /\ InstanceOf(i, t, l)[2] = l
  BY DEF InstanceOf
<1>4. \A l \in Specs : Instantiates(i, t, l) <=> SpecName(l) = Marked(t.name, t.args)
  <2>1. \A l \in Specs : SpecName(l) = Marked(t.name, t.args) <=>
           program.specs[l].name = t.name /\ Len(program.specs[l].params) = Len(t.args)
    BY <1>1, SpecNamesSame
  <2>2. \A n \in DOMAIN t.args : PlainMeanings(i, t.args[n]) # {}
    BY <1>2 DEF Means, Instantiates
  <2> QED
    BY <2>1, <2>2 DEF Instantiates
<1>5. CASE use.op = "new"
  <2>1. ObjectName(i, use) = Marked(t.name, t.args)
    BY <1>1, <1>5 DEF ObjectName
  <2>2. k \in OwnersOf(i, use) <=> \E m \in Meanings(i, t) : k = m[2]
    BY <1>2, <1>3, <1>5 DEF OwnersOf
  <2>3. (\E m \in Meanings(i, t) : k = m[2]) <=> k \in Specs /\ Instantiates(i, t, k)
    BY <1>2, <1>3
  <2> QED
    BY <1>4, <2>1, <2>2, <2>3
<1>6. CASE use.op # "new"
  <2>1. ObjectName(i, use) = InstanceName(t.name, t.args)
    BY <1>1, <1>6 DEF ObjectName, TypeName
  <2>2. OwnersOf(i, use) = {}
    BY <1>2, <1>3, <1>6 DEF OwnersOf
  <2>3. \A l \in Specs : SpecName(l) # InstanceName(t.name, t.args)
    BY SpecNames
  <2> QED
    BY <2>1, <2>2, <2>3
<1> QED
  BY <1>5, <1>6

LEMMA OwnersAre ==
  ASSUME Typed, SpecsFit(Specs), NEW i \in Owners, NEW use \in Uses, Means(i, use.on), NEW k
  PROVE  k \in OwnersOf(i, use) <=> k \in Specs /\ SpecName(k) = ObjectName(i, use)
<1>1. CASE use.on.name = "this"
  BY <1>1, OwnersThis
<1>2. CASE use.on.name # "this"
  <2>1. use.on \in TypeNodes
    BY <1>2, UseShape DEF ThisObject
  <2> QED
    BY <2>1, OwnersPlain, OwnersInstance
<1> QED
  BY <1>1, <1>2

\* Nor is anything of no spec found in an object.
LEMMA ObjectNamed ==
  ASSUME Typed, NEW i \in Owners, NEW use \in Uses, Means(i, use.on)
  PROVE  ObjectName(i, use) # <<>>
<1>1. CASE use.on.name = "this"
  <2>1. Meanings(i, use.on) = {<<"spec", i>> : l \in {i} \ {0}}
    BY <1>1 DEF Meanings
  <2>2. i \in Specs
    BY <2>1 DEF Means, Owners
  <2> QED
    BY <1>1, <2>2, SpecNames DEF ObjectName
<1>2. CASE use.on.name # "this"
  <2>1. use.on \in TypeNodes
    BY <1>2, UseShape DEF ThisObject
  <2>2. use.on.args \in Seq(STRING)
    BY <2>1, TypeShape
  <2>3. Marked(use.on.name, use.on.args) # <<>>
    BY <2>2, MarkedPlain, Zenon
  <2>4. InstanceName(use.on.name, use.on.args) # <<>>
    BY <2>2, MarkedNoInstance, Zenon
  <2>5. TypeName(use.on) # <<>>
    <3> DEFINE x == <<use.on.name>>
    <3>1. x # <<>>
      OBVIOUS
    <3> HIDE DEF x
    <3>2. TypeName(use.on) = IF use.on.args = <<>> THEN x ELSE InstanceName(use.on.name, use.on.args)
      BY DEF TypeName, x
    <3> QED
      BY <2>4, <3>1, <3>2, Zenon
  <2> QED
    BY <1>2, <2>3, <2>5 DEF ObjectName
<1> QED
  BY <1>1, <1>2

LEMMA ObjectIs ==
  ASSUME Typed, NEW B, HoldsTypes(B), NEW i \in Owners, symbol_table = TableOf(B, i),
         NEW use \in Uses
  PROVE  /\ Means(i, use.on) =>
              \E s : /\ Object(use.on) = {s}
                     /\ use.op # "new" => s.name = ObjectName(i, use)
                     /\ use.op = "new" => s.name = TypeName(use.on)
         /\ ~Means(i, use.on) => Object(use.on) = {}
<1>1. CASE use.on.name = "this"
  <2>1. Object(use.on) = Look(TableOf(B, i), This)
    BY <1>1 DEF Object
  <2>2. Look(TableOf(B, i), This) = IF i # 0 THEN {SpecSymbol(i)} ELSE {}
    BY LookIn, ParamScopeIs DEF HoldsTypes
  <2>3. Meanings(i, use.on) = {<<"spec", i>> : l \in {i} \ {0}}
    BY <1>1 DEF Meanings
  <2>4. Means(i, use.on) <=> i # 0
    BY <2>3 DEF Means
  <2>5. SpecSymbol(i).name = ObjectName(i, use)
    BY <1>1 DEF SpecSymbol, ObjectName
  <2>6. use.op # "new"
    BY <1>1, UseShape, TypeShape
  <2> QED
    BY <2>1, <2>2, <2>4, <2>5, <2>6
<1>2. CASE use.on.name # "this"
  <2>1. use.on \in TypeNodes
    BY <1>2, UseShape DEF ThisObject
  <2>2. Object(use.on) = Resolve(TableOf(B, i), use.on)
    BY <1>2 DEF Object
  <2>3. use.op # "new" => ObjectName(i, use) = TypeName(use.on)
    BY <1>2 DEF ObjectName
  <2> QED
    BY <2>1, <2>2, <2>3, ResolveIs DEF ResolvesTo
<1> QED
  BY <1>1, <1>2

\* What is looked up in the object of a use.
LEMMA MembersFound ==
  ASSUME Typed, NEW B, Ready(B), NEW i \in Owners, NEW use \in Uses, Means(i, use.on),
         AllMean(i, use.args), NEW s
  PROVE  s \in Look(TableOf(B, i), FunctionKey(ObjectName(i, use), use.name, NamesIn(use.args)))
           <=> \E k \in OwnersOf(i, use) : \E v : Takes(v, k, use.name, use.args)
                                                  /\ s = HeaderSymbol(v)
<1>0. use.args \in Seq(TypeNodes) /\ SpecsFit(Specs)
  BY UseShape DEF Ready
<1>1. \A k : k \in OwnersOf(i, use) <=> k \in Specs /\ SpecName(k) = ObjectName(i, use)
  BY <1>0, OwnersAre
<1>2. CASE \E k \in Specs : SpecName(k) = ObjectName(i, use)
  <2>1. PICK k \in Specs : SpecName(k) = ObjectName(i, use)
    BY <1>2
  <2>2. \A l : l \in OwnersOf(i, use) <=> l = k
    BY <1>0, <1>1, <2>1 DEF SpecsFit
  <2>3. k \in Owners
    BY DEF Owners
  <2>4. s \in Look(TableOf(B, i), FunctionKey(SpecName(k), use.name, NamesIn(use.args)))
          <=> \E v : Takes(v, k, use.name, use.args) /\ s = HeaderSymbol(v)
    BY <1>0, <2>3, FoundFunction
  <2> QED
    BY <2>1, <2>2, <2>4
<1>3. CASE ~ \E k \in Specs : SpecName(k) = ObjectName(i, use)
  <2>1. \A k \in Owners : SpecName(k) # ObjectName(i, use)
    BY <1>3, ObjectNamed, SpecName0 DEF Owners
  <2>2. Look(TableOf(B, i), FunctionKey(ObjectName(i, use), use.name, NamesIn(use.args))) = {}
    BY <2>1, FoundNothing
  <2> QED
    BY <1>1, <1>3, <2>2
<1> QED
  BY <1>2, <1>3

LEMMA AccessorsFound ==
  ASSUME Typed, NEW B, Ready(B), NEW i \in Owners, NEW use \in Uses, Means(i, use.on), NEW s
  PROVE  /\ s \in Look(TableOf(B, i), GetKey(ObjectName(i, use), use.name))
              <=> \E k \in OwnersOf(i, use) : \E v : Named(v, k, use.name) /\ s = Getter(v)
         /\ s \in Look(TableOf(B, i), SetKey(ObjectName(i, use), use.name))
              <=> \E k \in OwnersOf(i, use) : \E v : Named(v, k, use.name) /\ s = Setter(v)
<1>0. SpecsFit(Specs)
  BY DEF Ready
<1>1. \A k : k \in OwnersOf(i, use) <=> k \in Specs /\ SpecName(k) = ObjectName(i, use)
  BY <1>0, OwnersAre
<1>2. CASE \E k \in Specs : SpecName(k) = ObjectName(i, use)
  <2>1. PICK k \in Specs : SpecName(k) = ObjectName(i, use)
    BY <1>2
  <2>2. \A l : l \in OwnersOf(i, use) <=> l = k
    BY <1>0, <1>1, <2>1 DEF SpecsFit
  <2>4. /\ s \in Look(TableOf(B, i), GetKey(SpecName(k), use.name))
             <=> \E v : Named(v, k, use.name) /\ s = Getter(v)
        /\ s \in Look(TableOf(B, i), SetKey(SpecName(k), use.name))
             <=> \E v : Named(v, k, use.name) /\ s = Setter(v)
    BY FoundGetter
  <2> QED
    BY <2>1, <2>2, <2>4
<1>3. CASE ~ \E k \in Specs : SpecName(k) = ObjectName(i, use)
  <2>1. \A k \in Owners : SpecName(k) # ObjectName(i, use)
    BY <1>3, ObjectNamed, SpecName0 DEF Owners
  <2>2. /\ Look(TableOf(B, i), GetKey(ObjectName(i, use), use.name)) = {}
        /\ Look(TableOf(B, i), SetKey(ObjectName(i, use), use.name)) = {}
    BY <2>1, FoundNothing
  <2> QED
    BY <1>1, <1>3, <2>2
<1> QED
  BY <1>2, <1>3

\* The functions and the properties that a use may be a use of.
Understood(i, use) == AllMean(i, use.args) /\ (use.op = "call" \/ Means(i, use.on))
HasMember(i, use) == \E k \in OwnersOf(i, use) : \E v : Takes(v, k, use.name, use.args)
Callees(i, use) ==
  IF use.op = "call" \/ (use.op = "member" /\ ~HasMember(i, use)) THEN {0} ELSE OwnersOf(i, use)
Calls(i, use, v) ==
  /\ use.op \in {"call", "member", "new"}
  /\ \E k \in Callees(i, use) : Takes(v, k, use.name, use.args)
Names(i, use, v) ==
  use.op \in {"get", "set"} /\ \E k \in OwnersOf(i, use) : Named(v, k, use.name)
FoundBy(i, use, s, v) ==
  /\ Understood(i, use)
  /\ \/ Calls(i, use, v) /\ s = HeaderSymbol(v)
     \/ Names(i, use, v) /\ s = IF use.op = "get" THEN Getter(v) ELSE Setter(v)

LEMMA FindingStatic ==
  ASSUME Typed, NEW B, Ready(B), NEW i \in Owners, NEW name, NEW args \in Seq(TypeNodes),
         AllMean(i, args), NEW s
  PROVE  s \in Look(TableOf(B, i), FunctionKey(<<>>, name, NamesIn(args)))
           <=> \E v : Takes(v, 0, name, args) /\ s = HeaderSymbol(v)
<1>1. 0 \in Owners
  BY DEF Owners
<1>2. s \in Look(TableOf(B, i), FunctionKey(SpecName(0), name, NamesIn(args)))
        <=> \E v : Takes(v, 0, name, args) /\ s = HeaderSymbol(v)
  BY <1>1, FoundFunction
<1> QED
  BY <1>2, SpecName0

LEMMA FindingIs ==
  ASSUME Typed, NEW B, Ready(B), NEW i \in Owners, symbol_table = TableOf(B, i), NEW use \in Uses,
         AllMean(i, use.args), NEW s
  PROVE  s \in Finding(use, NamesIn(use.args)) <=> \E v : FoundBy(i, use, s, v)
<1> DEFINE table == TableOf(B, i)  names == NamesIn(use.args)
           static == Look(table, FunctionKey(<<>>, use.name, names))
<1>0. /\ use.op \in {"new", "call", "member", "get", "set"} /\ use.args \in Seq(TypeNodes)
      /\ use.on.name = "this" => use.op # "new"
  BY UseShape, TypeShape
<1>1. s \in static <=> \E v : Takes(v, 0, use.name, use.args) /\ s = HeaderSymbol(v)
  BY <1>0, FindingStatic
<1>2. CASE use.op = "call"
  <2>1. Finding(use, names) = static
    BY <1>2 DEF Finding, Static
  <2>2. \A v : FoundBy(i, use, s, v) <=> Takes(v, 0, use.name, use.args) /\ s = HeaderSymbol(v)
    BY <1>2 DEF FoundBy, Understood, Calls, Callees, Names
  <2> QED
    BY <1>1, <2>1, <2>2
<1>h. HoldsTypes(B)
  BY DEF Ready
<1>3. CASE use.op # "call" /\ ~Means(i, use.on)
  <2>1. Object(use.on) = {}
    BY <1>h, <1>3, ObjectIs
  <2>2. Finding(use, names) = {}
    BY <1>0, <1>3, <2>1 DEF Finding
  <2> QED
    BY <1>3, <2>2 DEF FoundBy, Understood
<1>4. CASE use.op # "call" /\ Means(i, use.on)
  <2>1. PICK o : /\ Object(use.on) = {o}
                 /\ use.op # "new" => o.name = ObjectName(i, use)
    BY <1>h, <1>4, ObjectIs
  <2> DEFINE member == Look(table, FunctionKey(ObjectName(i, use), use.name, names))
             get == Look(table, GetKey(ObjectName(i, use), use.name))
             set == Look(table, SetKey(ObjectName(i, use), use.name))
  <2>2. \A x : x \in member
          <=> \E k \in OwnersOf(i, use) : \E v : Takes(v, k, use.name, use.args)
                                                 /\ x = HeaderSymbol(v)
    BY <1>4, MembersFound
  <2>3. /\ s \in get <=> \E k \in OwnersOf(i, use) : \E v : Named(v, k, use.name) /\ s = Getter(v)
        /\ s \in set <=> \E k \in OwnersOf(i, use) : \E v : Named(v, k, use.name) /\ s = Setter(v)
    BY <1>4, AccessorsFound
  <2>u. Understood(i, use)
    BY <1>4 DEF Understood
  <2>4. CASE use.op = "member"
    <3>1. Finding(use, names) = UNION {IF member # {} THEN member ELSE static : on \in {o}}
      BY <2>1, <2>4 DEF Finding, Member, Static
    <3> HIDE DEF member, static
    <3>2. Finding(use, names) = IF member # {} THEN member ELSE static
      BY <3>1
    <3>3. member # {} <=> HasMember(i, use)
      BY <2>2 DEF HasMember
    <3>4. \A v : FoundBy(i, use, s, v) <=> /\ \E k \in Callees(i, use) : Takes(v, k, use.name, use.args)
                                           /\ s = HeaderSymbol(v)
      BY <2>4, <2>u DEF FoundBy, Calls, Names
    <3> QED
      BY <1>1, <2>2, <2>4, <3>2, <3>3, <3>4 DEF Callees
  <2>5. CASE use.op = "get"
    <3>1. Finding(use, names) = UNION {get : on \in {o}}
      BY <2>1, <2>5 DEF Finding
    <3> HIDE DEF get
    <3>2. Finding(use, names) = get
      BY <3>1
    <3>3. \A v : FoundBy(i, use, s, v) <=> /\ \E k \in OwnersOf(i, use) : Named(v, k, use.name)
                                           /\ s = Getter(v)
      BY <2>5, <2>u DEF FoundBy, Calls, Names
    <3> QED
      BY <2>3, <3>2, <3>3
  <2>6. CASE use.op = "set"
    <3>1. Finding(use, names) = UNION {set : on \in {o}}
      BY <2>1, <2>6 DEF Finding
    <3> HIDE DEF set
    <3>2. Finding(use, names) = set
      BY <3>1
    <3>3. \A v : FoundBy(i, use, s, v) <=> /\ \E k \in OwnersOf(i, use) : Named(v, k, use.name)
                                           /\ s = Setter(v)
      BY <2>6, <2>u DEF FoundBy, Calls, Names
    <3> QED
      BY <2>3, <3>2, <3>3
  <2>7. CASE use.op = "new"
    <3>0. ObjectName(i, use) = Marked(use.on.name, use.on.args)
      BY <1>0, <2>7 DEF ObjectName
    <3>1. Finding(use, names) = UNION {member : on \in {o}}
      BY <2>1, <2>7, <3>0 DEF Finding, Member
    <3> HIDE DEF member
    <3>2. Finding(use, names) = member
      BY <3>1
    <3>3. \A v : FoundBy(i, use, s, v) <=> /\ \E k \in OwnersOf(i, use) : Takes(v, k, use.name, use.args)
                                           /\ s = HeaderSymbol(v)
      BY <2>7, <2>u DEF FoundBy, Calls, Names, Callees
    <3> QED
      BY <2>2, <3>2, <3>3
  <2> QED
    BY <1>0, <1>4, <2>4, <2>5, <2>6, <2>7
<1> QED
  BY <1>2, <1>3, <1>4

LEMMA FindsIs ==
  ASSUME Typed, NEW B, Ready(B), NEW i \in Owners, symbol_table = TableOf(B, i), NEW use \in Uses,
         NEW s
  PROVE  s \in Finds(use) <=> \E v : FoundBy(i, use, s, v)
<1>0. use.args \in Seq(TypeNodes) /\ HoldsTypes(B)
  BY UseShape DEF Ready
<1>1. CASE AllMean(i, use.args)
  <2>1. PICK ss : ResolveTo(TableOf(B, i), use.args, ss)
    BY <1>0, <1>1, ResolveAllIs
  <2>2. ResolveAll(symbol_table, use.args) = {ss}
    BY <2>1 DEF ResolveTo
  <2>3. NamesOf(ss) = NamesIn(use.args)
    BY <2>1, NamesResolved
  <2>4. Finds(use) = Finding(use, NamesIn(use.args))
    BY <2>2, <2>3 DEF Finds
  <2> QED
    BY <1>1, <2>4, FindingIs
<1>2. CASE ~AllMean(i, use.args)
  <2>1. ResolveAll(symbol_table, use.args) = {}
    BY <1>0, <1>2, ResolveAllIs
  <2> QED
    BY <1>2, <2>1 DEF Finds, FoundBy, Understood
<1> QED
  BY <1>1, <1>2

LEMMA DenotesIs ==
  ASSUME Typed, NEW B, Ready(B), NEW i \in Owners, NEW use \in Uses, NEW item
  PROVE  item \in Denotes(i, use)
           <=> /\ Understood(i, use)
               /\ \E v : \/ Calls(i, use, v) /\ item = Visit("header", v[1], v[2])
                         \/ Names(i, use, v) /\ item = Visit("property", v[1], v[2])
<1>0. /\ use.op \in {"new", "call", "member", "get", "set"} /\ use.args \in Seq(TypeNodes)
      /\ SpecsFit(Specs) /\ 0 \in Owners
  BY UseShape DEF Ready, Owners
<1>1. (\E n \in DOMAIN use.args : ~Means(i, use.args[n])) <=> ~AllMean(i, use.args)
  BY DEF AllMean
<1>2. CASE ~Understood(i, use)
  BY <1>1, <1>2 DEF Denotes, Understood
<1>3. CASE Understood(i, use)
  <2> DEFINE members == UNION {Taking(k, use.name, Signature(i, use.args)) : k \in OwnersOf(i, use)}
             statics == Taking(0, use.name, Signature(i, use.args))
             called == UNION {Called(k, use.name) : k \in OwnersOf(i, use)}
  <2>1. AllMean(i, use.args)
    BY <1>3 DEF Understood
  <2>2. use.op # "call" => \A k \in OwnersOf(i, use) : k \in Specs /\ k \in Owners
    BY <1>0, <1>3, OwnersAre DEF Understood, Owners
  <2>3. item \in statics <=> \E v : Takes(v, 0, use.name, use.args) /\ item = Visit("header", v[1], v[2])
    BY <1>0, <2>1, TakingIs
  <2>4. use.op # "call" => \A x : x \in members <=>
          \E k \in OwnersOf(i, use) : \E v : Takes(v, k, use.name, use.args)
                                             /\ x = Visit("header", v[1], v[2])
    <3> SUFFICES ASSUME use.op # "call", NEW x
                 PROVE  x \in members <=>
                          \E k \in OwnersOf(i, use) : \E v : Takes(v, k, use.name, use.args)
                                                             /\ x = Visit("header", v[1], v[2])
      OBVIOUS
    <3>1. \A k \in OwnersOf(i, use) : x \in Taking(k, use.name, Signature(i, use.args))
            <=> \E v : Takes(v, k, use.name, use.args) /\ x = Visit("header", v[1], v[2])
      BY <1>0, <2>1, <2>2, TakingIs
    <3> QED
      BY <3>1
  <2>5. use.op # "call" => (item \in called <=>
          \E k \in OwnersOf(i, use) : \E v : Named(v, k, use.name)
                                             /\ item = Visit("property", v[1], v[2]))
    <3> SUFFICES ASSUME use.op # "call"
                 PROVE  item \in called <=>
                          \E k \in OwnersOf(i, use) : \E v : Named(v, k, use.name)
                                                             /\ item = Visit("property", v[1], v[2])
      OBVIOUS
    <3>1. \A k \in OwnersOf(i, use) : item \in Called(k, use.name)
            <=> \E v : Named(v, k, use.name) /\ item = Visit("property", v[1], v[2])
      BY <2>2, CalledIs
    <3> QED
      BY <3>1
  <2>6. Denotes(i, use) = IF use.op = "call" THEN statics
                          ELSE IF use.op \in {"get", "set"} THEN called
                          ELSE IF use.op = "member" /\ members = {} THEN statics ELSE members
    BY <1>1, <1>3, <2>1 DEF Denotes, Understood
  <2> HIDE DEF members, statics, called
  <2>7. use.op # "call" => (members = {} <=> ~HasMember(i, use))
    BY <2>4 DEF HasMember
  <2>8. CASE use.op \in {"get", "set"}
    <3>1. Denotes(i, use) = called
      BY <2>6, <2>8
    <3>2. \A v : ~Calls(i, use, v)
                 /\ (Names(i, use, v) <=> \E k \in OwnersOf(i, use) : Named(v, k, use.name))
      BY <2>8 DEF Calls, Names
    <3> QED
      BY <1>3, <2>5, <2>8, <3>1, <3>2
  <2>9. CASE use.op \in {"call", "member", "new"}
    <3>2. \A v : ~Names(i, use, v)
                 /\ (Calls(i, use, v) <=> \E k \in Callees(i, use) : Takes(v, k, use.name, use.args))
      BY <2>9 DEF Calls, Names
    <3>3. CASE use.op = "call" \/ (use.op = "member" /\ ~HasMember(i, use))
      <4>1. Denotes(i, use) = statics
        BY <2>6, <2>7, <3>3
      <4>2. Callees(i, use) = {0}
        BY <3>3 DEF Callees
      <4> QED
        BY <1>3, <2>3, <3>2, <4>1, <4>2
    <3>4. CASE ~ (use.op = "call" \/ (use.op = "member" /\ ~HasMember(i, use)))
      <4>1. Denotes(i, use) = members
        BY <2>6, <2>7, <2>9, <3>4
      <4>2. Callees(i, use) = OwnersOf(i, use)
        BY <3>4 DEF Callees
      <4>3. item \in members <=>
          \E k \in OwnersOf(i, use) : \E v : Takes(v, k, use.name, use.args)
                                             /\ item = Visit("header", v[1], v[2])
        BY <2>4, <3>4
      <4> QED
        BY <1>3, <4>3, <3>2, <4>1, <4>2
    <3> QED
      BY <3>3, <3>4
  <2> QED
    BY <1>0, <2>8, <2>9
<1> QED
  BY <1>2, <1>3

LEMMA ItemIs ==
  ASSUME NEW op, NEW i, NEW j
  PROVE  Visit(op, i, j).op = op /\ Visit(op, i, j).spec = i /\ Visit(op, i, j).item = j
BY DEF Visit

LEMMA CallAccess ==
  ASSUME Typed, SpecsFit(Specs), NEW i \in Owners, Here.spec = i, NEW use \in Uses,
         Understood(i, use), NEW v, Calls(i, use, v)
  PROVE  Accessible(HeaderSymbol(v), use) <=> MayUse(i, use, Visit("header", v[1], v[2]))
<1> DEFINE s == HeaderSymbol(v)  item == Visit("header", v[1], v[2])
<1>1. PICK k \in Callees(i, use) : Takes(v, k, use.name, use.args)
  BY DEF Calls
<1>2. v[1] = k /\ use.op \in {"call", "member", "new"}
  BY <1>1 DEF Takes, Calls
<1>3. /\ s.access = FunctionsOf(v[1])[v[2]].access
      /\ s.spec_name = IF v[1] = 0 THEN <<>> ELSE <<program.specs[v[1]].name>>
  BY DEF HeaderSymbol, FunctionSymbol
<1>4. AccessOf(use, item) = FunctionsOf(v[1])[v[2]].access
  BY <1>2, ItemIs DEF AccessOf
<1>5. MayUse(i, use, item) <=> \/ use.op = "new" \/ s.access = "public"
                               \/ /\ s.access = "concealed" /\ k = i
                                  /\ i = 0 \/ ~IsGeneric(i)
  <2>1. item.op = "header" /\ item.spec = k
    BY <1>2, ItemIs
  <2> HIDE DEF s, item
  <2> QED
    BY <1>3, <1>4, <2>1 DEF MayUse
<1>6. use.op # "new" => (s.spec_name = SpecName(i) <=> k = i /\ (i = 0 \/ ~IsGeneric(i)))
  <2>0. SUFFICES ASSUME use.op # "new"
                 PROVE  s.spec_name = SpecName(i) <=> k = i /\ (i = 0 \/ ~IsGeneric(i))
    OBVIOUS
  <2>1. CASE k = 0
    <3>1. s.spec_name = <<>> /\ (i # 0 => i \in Specs)
      BY <1>2, <1>3, <2>1 DEF Owners
    <3> QED
      BY <2>1, <3>1, SpecNames, SpecName0
  <2>2. CASE k # 0
    <3>1. use.op = "member" /\ k \in OwnersOf(i, use) /\ Means(i, use.on)
      BY <1>2, <2>0, <2>2 DEF Callees, Understood
    <3>2. k \in Specs /\ SpecName(k) = ObjectName(i, use)
      BY <3>1, OwnersAre
    <3>3. s.spec_name = <<program.specs[k].name>>
      BY <1>2, <1>3, <2>2
    <3>4. SpecName(k) = <<program.specs[k].name>> <=> ~IsGeneric(k)
      BY <3>2, SpecNames
    <3>5. k \in Owners
      BY <3>2 DEF Owners
    <3>6. CASE use.on.name = "this"
      <4>1. SpecName(k) = SpecName(i)
        BY <3>2, <3>6 DEF ObjectName
      <4>2. k = i
        BY <3>5, <4>1, OwnersSame
      <4> QED
        BY <2>2, <3>3, <3>4, <4>2
    <3>7. CASE use.on.name # "this"
      <4>1. SpecName(k) = TypeName(use.on)
        BY <3>1, <3>2, <3>7 DEF ObjectName
      <4>2. SpecName(k) # InstanceName(use.on.name, use.on.args)
        BY <3>2, SpecNames
      <4>3. SpecName(k) = <<use.on.name>>
        BY <4>1, <4>2 DEF TypeName
      <4>4. ~IsGeneric(k) /\ SpecName(k) = s.spec_name
        BY <3>2, <3>3, <3>4, <4>3, SpecNames
      <4>5. SpecName(k) = SpecName(i) <=> k = i
        BY <3>5, OwnersSame
      <4> QED
        BY <4>4, <4>5
    <3> QED
      BY <3>6, <3>7
  <2> QED
    BY <2>1, <2>2
<1> HIDE DEF s, item
<1>7. Accessible(s, use) <=> MayUse(i, use, item)
  BY <1>5, <1>6 DEF Accessible
<1> QED
  BY <1>7 DEF s, item

LEMMA NameAccess ==
  ASSUME Typed, SpecsFit(Specs), NEW i \in Owners, Here.spec = i, NEW use \in Uses,
         NEW v, Names(i, use, v), NEW s, s = IF use.op = "get" THEN Getter(v) ELSE Setter(v)
  PROVE  Accessible(s, use) <=> MayUse(i, use, Visit("property", v[1], v[2]))
<1> DEFINE item == Visit("property", v[1], v[2])
<1>1. v \in AllProperties /\ use.op \in {"get", "set"}
  BY DEF Names, Named
<1>2. v[1] \in Owners
  BY <1>1, PropertyShape
<1>3. /\ s.spec_name = SpecName(v[1])
      /\ s.access = IF use.op = "get" THEN PropertyOf(v).get ELSE PropertyOf(v).set
  <2>1. Getter(v).spec_name = SpecName(v[1]) /\ Setter(v).spec_name = SpecName(v[1])
    BY DEF Getter, Setter, Accessor
  <2>2. Getter(v).access = PropertyOf(v).get /\ Setter(v).access = PropertyOf(v).set
    BY DEF Getter, Setter, Accessor
  <2> QED
    BY <2>1, <2>2, Zenon
<1>4. AccessOf(use, item) = s.access
  <2>1. item.spec = v[1] /\ item.item = v[2]
    BY ItemIs
  <2> HIDE DEF item
  <2> QED
    BY <1>1, <1>3, <2>1 DEF AccessOf, PropertyOf
<1>5. item.op = "property" /\ item.spec = v[1]
  BY ItemIs
<1>6. s.spec_name = SpecName(i) <=> v[1] = i
  BY <1>2, <1>3, OwnersSame
<1> HIDE DEF item
<1>7. Accessible(s, use) <=> MayUse(i, use, item)
  BY <1>1, <1>4, <1>5, <1>6 DEF Accessible, MayUse
<1> QED
  BY <1>7 DEF item

\* The key of something that the checker has put in its table.
KnownKey(key) ==
  \/ \E v \in AllHeaders : key = HeaderKey(v)
  \/ \E v \in AllProperties : key = GetterKey(v) \/ key = SetterKey(v)

\* What is noted of a use that is accepted.
UseNote(i, use, note) ==
  /\ note.found.item \in Denotes(i, use)
  /\ KnownKey(note.found.key)
  /\ use.op = "new" =>
       /\ note.type = TypeName(use.on) /\ use.on \in TypeNodes
       /\ use.on.args = <<>> => \E k \in Specs : note.type = SpecName(k)

LEMMA FoundIs ==
  ASSUME Typed, NEW B, Ready(B), NEW i \in Owners, symbol_table = TableOf(B, i), Here.spec = i,
         NEW use \in Uses
  PROVE  /\ \A s : s \in Finds(use) =>
              s.item \in Denotes(i, use) /\ (Accessible(s, use) <=> MayUse(i, use, s.item))
         /\ \A item : item \in Denotes(i, use) => \E s : s \in Finds(use) /\ s.item = item
<1>0. SpecsFit(Specs)
  BY DEF Ready
<1>i. \A v : /\ HeaderSymbol(v).item = Visit("header", v[1], v[2])
             /\ Getter(v).item = Visit("property", v[1], v[2])
             /\ Setter(v).item = Visit("property", v[1], v[2])
  BY DEF HeaderSymbol, FunctionSymbol, Getter, Setter, Accessor
<1>1. ASSUME NEW s, s \in Finds(use)
      PROVE  s.item \in Denotes(i, use) /\ (Accessible(s, use) <=> MayUse(i, use, s.item))
  <2>1. PICK v : FoundBy(i, use, s, v)
    BY <1>1, FindsIs
  <2>2. CASE Calls(i, use, v) /\ s = HeaderSymbol(v)
    <3>1. s.item = Visit("header", v[1], v[2])
      BY <1>i, <2>2
    <3>2. s.item \in Denotes(i, use)
      BY <2>1, <2>2, <3>1, DenotesIs DEF FoundBy
    <3> QED
      BY <1>0, <2>1, <2>2, <3>1, <3>2, CallAccess DEF FoundBy
  <2>3. CASE Names(i, use, v) /\ s = IF use.op = "get" THEN Getter(v) ELSE Setter(v)
    <3>1. s.item = Visit("property", v[1], v[2])
      BY <1>i, <2>3, Zenon
    <3>2. s.item \in Denotes(i, use)
      BY <2>1, <2>3, <3>1, DenotesIs DEF FoundBy
    <3> QED
      BY <1>0, <2>3, <3>1, <3>2, NameAccess
  <2> QED
    BY <2>1, <2>2, <2>3 DEF FoundBy
<1>2. ASSUME NEW item, item \in Denotes(i, use) PROVE \E s : s \in Finds(use) /\ s.item = item
  <2>1. PICK v : \/ Calls(i, use, v) /\ item = Visit("header", v[1], v[2])
                 \/ Names(i, use, v) /\ item = Visit("property", v[1], v[2])
    BY <1>2, DenotesIs
  <2>2. Understood(i, use)
    BY <1>2, DenotesIs
  <2>3. CASE Calls(i, use, v) /\ item = Visit("header", v[1], v[2])
    <3>1. FoundBy(i, use, HeaderSymbol(v), v) /\ HeaderSymbol(v).item = item
      BY <1>i, <2>2, <2>3 DEF FoundBy
    <3> QED
      BY <3>1, FindsIs
  <2>4. CASE Names(i, use, v) /\ item = Visit("property", v[1], v[2])
    <3> DEFINE s == IF use.op = "get" THEN Getter(v) ELSE Setter(v)
    <3>1. FoundBy(i, use, s, v)
      BY <2>2, <2>4 DEF FoundBy
    <3>2. s.item = item
      BY <1>i, <2>4, Zenon
    <3> HIDE DEF s
    <3> QED
      BY <3>1, <3>2, FindsIs
  <2> QED
    BY <2>1, <2>3, <2>4
<1> QED
  BY <1>1, <1>2

LEMMA NotedIs ==
  ASSUME Typed, NEW B, Ready(B), NEW i \in Owners, symbol_table = TableOf(B, i),
         NEW use \in Uses, NEW s \in Finds(use), s.item \in Denotes(i, use)
  PROVE  UseNote(i, use, [found |-> s,
                          type |-> IF use.op = "new" THEN The(Object(use.on)).name ELSE <<>>])
<1> DEFINE type == IF use.op = "new" THEN The(Object(use.on)).name ELSE <<>>
           note == [found |-> s, type |-> type]
<1>1. PICK v : FoundBy(i, use, s, v)
  BY FindsIs
<1>2. KnownKey(s.key)
  <2>1. CASE Calls(i, use, v) /\ s = HeaderSymbol(v)
    <3>1. s.key = HeaderKey(v) /\ v \in AllHeaders
      BY <2>1 DEF HeaderSymbol, FunctionSymbol, Calls, Takes
    <3> QED
      BY <3>1 DEF KnownKey
  <2>2. CASE Names(i, use, v) /\ s = IF use.op = "get" THEN Getter(v) ELSE Setter(v)
    <3>1. v \in AllProperties
      BY <2>2 DEF Names, Named
    <3>2. Getter(v).key = GetterKey(v) /\ Setter(v).key = SetterKey(v)
      BY DEF Getter, Setter, Accessor
    <3>3. s.key = GetterKey(v) \/ s.key = SetterKey(v)
      BY <2>2, <3>2, Zenon
    <3> QED
      BY <3>1, <3>3 DEF KnownKey
  <2> QED
    BY <1>1, <2>1, <2>2 DEF FoundBy
<1>3. ASSUME use.op = "new"
      PROVE  /\ type = TypeName(use.on) /\ use.on \in TypeNodes
             /\ use.on.args = <<>> => \E k \in Specs : type = SpecName(k)
  <2>1. use.on \in TypeNodes /\ Means(i, use.on)
    BY <1>1, <1>3, UseShape DEF FoundBy, Understood
  <2>2. HoldsTypes(B) /\ SpecsFit(Specs)
    BY DEF Ready
  <2>3. PICK o : Object(use.on) = {o} /\ o.name = TypeName(use.on)
    BY <1>3, <2>1, <2>2, ObjectIs
  <2>4. type = TypeName(use.on)
    BY <1>3, <2>3, TheOnly
  <2>5. PICK k \in OwnersOf(i, use) : TRUE
    BY <1>1, <1>3 DEF FoundBy, Calls, Callees, Names
  <2>6. k \in Specs /\ SpecName(k) = ObjectName(i, use)
    BY <2>1, <2>2, <2>5, OwnersAre
  <2>7. ObjectName(i, use) = Marked(use.on.name, use.on.args)
    BY <1>3, <2>1, TypeShape DEF ObjectName
  <2>8. use.on.args = <<>> => Marked(use.on.name, use.on.args) = TypeName(use.on)
    <3>1. use.on.args \in Seq(STRING)
      BY <2>1, TypeShape
    <3>2. PlainMarked(use.on.name, use.on.args, use.on.name)
      BY <3>1, MarkedPlain, Zenon
    <3> QED
      BY <3>2 DEF PlainMarked, TypeName
  <2> HIDE DEF type
  <2> QED
    BY <2>1, <2>4, <2>6, <2>7, <2>8
<1>4. note.found = s /\ note.type = type
  OBVIOUS
<1> HIDE DEF type, note
<1>5. UseNote(i, use, note)
  BY <1>2, <1>3, <1>4 DEF UseNote
<1> QED
  BY <1>5 DEF note, type

-----------------------------------------------------------------------------
(***************************************************************************)
(* Sizes.  A type resolves to a symbol of its size.                        *)
(***************************************************************************)
LEMMA SizesAre == \A x : Sizes!SizeOf(x) \in Nat
<1>1. \A x : Sizes!SizeOf(x) \in {0, 1, 4, 8}
  BY DEF Sizes!SizeOf, Sizes!FormatOf
<1> QED
  BY <1>1

LEMMA SizeOfPlain ==
  ASSUME Typed, NEW B, HoldsTypes(B), SpecsFit(Specs), NEW i \in Specs, NEW t \in TypeNodes,
         t.args = <<>>, Means(i, t), NEW s \in Argument(TableOf(B, i), t.name)
  PROVE  s.size = SizeOfType(i, t)
<1> DEFINE name == t.name  key == TypeKey(<<name>>)  params == Elements(program.specs[i].params)
           m == The(Meanings(i, t))
<1>0. i # 0 /\ i \in Owners
  BY Shape DEF Owners
<1>1. m \in Meanings(i, t) /\ Meanings(i, t) = PlainMeanings(i, name)
  BY MeaningsAre DEF Means, The
<1>2. IsMeaning(i, name, m)
  BY <1>1, PlainIs
<1>3. SizeOfType(i, t) = IF m[1] = "built in" /\ name \notin params THEN Sizes!SizeOf(m[2]) ELSE 8
  BY DEF SizeOfType
<1> HIDE DEF m
<1>4. s \in Look(TableOf(B, i), key)
  BY DEF Argument
<1>5. CASE name \in params
  <2>1. key \in DOMAIN ParamScope(i) /\ ParamScope(i)[key] = TemplateType(name)
    BY <1>5, ParamScopeIs
  <2>2. s = TemplateType(name)
    BY <1>0, <1>4, <2>1, LookIn
  <2> QED
    BY <1>3, <1>5, <2>2 DEF TemplateType
<1>6. CASE name \notin params
  <2>1. key \notin DOMAIN ParamScope(i)
    <3>1. key # This
      BY KeysApart
    <3>2. \A x : key = TypeKey(<<x>>) <=> x = name
      <4>1. \A x : key = TypeKey(<<x>>) <=> <<name>> = <<x>>
        BY KeysSame
      <4> QED
        BY <4>1
    <3>3. key \in DOMAIN ParamScope(i) <=> key = This \/ \E x \in params : key = TypeKey(<<x>>)
      BY ParamScopeIs
    <3> HIDE DEF key, params
    <3> QED
      BY <1>6, <3>1, <3>2, <3>3
  <2>2. key \in DOMAIN B /\ s = B[key]
    BY <1>4, <2>1, LookIn
  <2>3. CASE \E b \in BUILTIN_TYPES : b.name = <<name>>
    <3>1. PICK b \in BUILTIN_TYPES : b.name = <<name>>
      BY <2>3
    <3>2. s = b
      BY <2>2, <3>1 DEF HoldsTypes
    <3>3. b.size = Sizes!SizeOf(b.name[1]) /\ b.name[1] = name
      BY <3>1, Builtin
    <3>4. ~ \E k \in Specs : SpecName(k) = <<name>>
      BY <3>1 DEF SpecsFit
    <3>5. m = <<"built in", name>>
      BY <1>2, <2>3, <3>4 DEF IsMeaning
    <3>6. m[1] = "built in" /\ m[2] = name
      BY <3>5
    <3> QED
      BY <1>3, <1>6, <3>2, <3>3, <3>6
  <2>4. CASE ~ \E b \in BUILTIN_TYPES : b.name = <<name>>
    <3>1. PICK k \in Specs : SpecName(k) = <<name>>
      BY <2>2, <2>4 DEF HoldsTypes
    <3>2. s = SpecSymbol(k)
      BY <2>2, <3>1 DEF HoldsTypes
    <3>3. s.size = 8
      BY <3>2 DEF SpecSymbol
    <3>4. \E l \in Specs : m = <<"spec", l>>
      BY <1>2, <2>4, <3>1 DEF IsMeaning
    <3>5. m[1] # "built in"
      BY <3>4
    <3> QED
      BY <1>3, <3>3, <3>5
  <2> QED
    BY <2>3, <2>4
<1> QED
  BY <1>5, <1>6

LEMMA ResolveSize ==
  ASSUME Typed, NEW B, HoldsTypes(B), SpecsFit(Specs), NEW i \in Specs, NEW t \in TypeNodes,
         Means(i, t), NEW s, Resolve(TableOf(B, i), t) = {s}
  PROVE  s.size = SizeOfType(i, t) /\ SizeOfType(i, t) \in Nat
<1> DEFINE table == TableOf(B, i)
<1>0. i \in Owners
  BY DEF Owners
<1>1. SizeOfType(i, t) \in Nat
  BY SizesAre DEF SizeOfType
<1>2. CASE t.args = <<>>
  <2>1. Marked(t.name, t.args) = <<t.name>>
    <3>1. t.args \in Seq(STRING)
      BY TypeShape
    <3>2. PlainMarked(t.name, t.args, t.name)
      BY <3>1, MarkedPlain, Zenon
    <3> QED
      BY <1>2, <3>2 DEF PlainMarked
  <2>2. Look(table, TypeKey(Marked(t.name, t.args))) = Argument(table, t.name)
    BY <2>1 DEF Argument
  <2>3. PlainKnown(i, t.name)
    BY <1>2, MeaningsAre, PlainIff DEF Means
  <2>4. PICK a : Argument(table, t.name) = {a} /\ PlainSymbol(a, t.name)
    BY <1>0, <2>3, ArgumentIs
  <2>5. Resolve(table, t) = {a}
    BY <2>2, <2>4 DEF Resolve, PlainSymbol
  <2>6. s = a
    BY <2>5
  <2> QED
    BY <1>1, <1>2, <2>4, <2>6, SizeOfPlain
<1>3. CASE t.args # <<>>
  <2>1. SizeOfType(i, t) = 8
    <3> DEFINE m == The(Meanings(i, t))
    <3>1. m \in Meanings(i, t)
      BY DEF Means, The
    <3>2. m[1] = "instance"
      BY <1>3, <3>1, MeaningsAre DEF InstanceOf
    <3> QED
      BY <3>2 DEF SizeOfType
  <2>2. \A x : Instance(table, t) = x => x.size = 8
    BY DEF Instance
  <2>3. s.size = 8
    <3> DEFINE found == Look(table, TypeKey(Marked(t.name, t.args)))
    <3>1. \A n : Marked(t.name, t.args) # <<n>>
      <4>1. t.args \in Seq(STRING)
        BY TypeShape
      <4>2. \A n : PlainMarked(t.name, t.args, n)
        BY <4>1, MarkedPlain, Zenon
      <4> QED
        BY <1>3, <4>2 DEF PlainMarked
    <3>2. TypeKey(Marked(t.name, t.args)) \notin DOMAIN ParamScope(i)
      <4>1. TypeKey(Marked(t.name, t.args)) # This
        BY KeysApart
      <4>2. \A x : TypeKey(Marked(t.name, t.args)) # TypeKey(<<x>>)
        BY <3>1, KeysSame
      <4> QED
        BY <4>1, <4>2, ParamScopeIs
    <3>3. \A x \in found : \E k \in Specs : x = SpecSymbol(k)
      <4>1. \A x \in found : TypeKey(Marked(t.name, t.args)) \in DOMAIN B
                             /\ x = B[TypeKey(Marked(t.name, t.args))]
        BY <3>2, LookIn
      <4>2. \A b \in BUILTIN_TYPES : b.name # Marked(t.name, t.args)
        BY <3>1, Builtin
      <4> QED
        BY <4>1, <4>2 DEF HoldsTypes
    <3>4. \A x \in found : x.size = 8
      BY <3>3 DEF SpecSymbol
    <3> HIDE DEF found
    <3>5. Resolve(table, t) = IF \A x \in found : x.kind # "generic" THEN found
              ELSE IF \A n \in DOMAIN t.args : Argument(table, t.args[n]) # {}
              THEN {Instance(table, t)} ELSE {}
      BY DEF Resolve, found
    <3>6. s \in found \/ s = Instance(table, t)
      BY <3>5
    <3> QED
      BY <2>2, <3>4, <3>6
  <2> QED
    BY <1>1, <2>1, <2>3
<1> QED
  BY <1>2, <1>3

-----------------------------------------------------------------------------
(***************************************************************************)
(* The type checker's invariant.                                           *)
(***************************************************************************)
SpecNote(i) ==
  Visit("spec", i, 0) \in DOMAIN symbols /\ symbols[Visit("spec", i, 0)] = SpecSymbol(i)
HeaderNote(v) ==
  /\ Visit("header", v[1], v[2]) \in DOMAIN symbols
  /\ symbols[Visit("header", v[1], v[2])] = HeaderSymbol(v)
PropertyNote(v) ==
  /\ Visit("property", v[1], v[2]) \in DOMAIN symbols
  /\ symbols[Visit("property", v[1], v[2])] = [get |-> Getter(v), set |-> Setter(v)]
BodyNote(v) ==
  /\ Visit("body", v[1], v[2]) \in DOMAIN symbols
  /\ HeaderOf(v).uses # <<>> =>
       UseNote(v[1], HeaderOf(v).uses[1], symbols[Visit("body", v[1], v[2])])
Noted(D, H, Q, N) ==
  /\ \A i \in D : SpecNote(i)
  /\ \A v \in H : HeaderNote(v)
  /\ \A v \in Q : PropertyNote(v)
  /\ \A v \in N : BodyNote(v)
Holds(B, D, H, Q) == TypesPart(B, D) /\ FunctionsPart(B, H) /\ PropertiesPart(B, Q)
Fits(D, E, H, Q, N) ==
  SpecsFit(D) /\ ParamsFit(E) /\ HeadersFit(H) /\ PropertiesFit(Q) /\ BodiesFit(N)
Fresh ==
  /\ register_table = <<EmptyScope>> /\ type_size_table = EmptyScope
  /\ property_offset = 0 /\ compiled_size = 0
Checking ==
  /\ symbol_table = TableOf(symbol_table[1], Open)
  /\ Holds(symbol_table[1], Defs, Heads, Props)
  /\ Fits(Defs, Entries, Heads, Props, Bodies)
  /\ Noted(Defs, Heads, Props, Bodies)
  /\ Fresh
Checked == Verified /\ Noted(Specs, AllHeaders, AllProperties, AllHeaders)

VerdictInv ==
  /\ Typed /\ AtOK /\ phase \in {"check", "rejected", "generate", "failed", "uncaught", "done"}
  /\ phase = "check" => Checking
  /\ phase = "rejected" => ~Verified
  /\ Accepted => Checked

LEMMA FrozenMeanings ==
  ASSUME program' = program
  PROVE  /\ \A i, t : Meanings(i, t)' = Meanings(i, t)
         /\ \A i, t : Means(i, t)' <=> Means(i, t)
         /\ \A i, types : Signature(i, types)' = Signature(i, types)
         /\ \A i, t : SizeOfType(i, t)' = SizeOfType(i, t)
<1>1. \A i : IsGeneric(i)' <=> IsGeneric(i)
  BY DEF IsGeneric
<1>2. \A i, name : PlainMeanings(i, name)' = PlainMeanings(i, name)
  BY <1>1, Frozen DEF PlainMeanings
<1>3. \A i, t : Meanings(i, t)' = Meanings(i, t)
  BY <1>2, Frozen DEF Meanings
<1>4. \A i, t : Means(i, t)' <=> Means(i, t)
  BY <1>3 DEF Means
<1>5. \A i, types : Signature(i, types)' = Signature(i, types)
  BY <1>3 DEF Signature
<1>6. \A i, t : SizeOfType(i, t)' = SizeOfType(i, t)
  BY <1>3, Frozen DEF SizeOfType, Elements
<1> QED
  BY <1>3, <1>4, <1>5, <1>6

LEMMA FrozenDenotes ==
  ASSUME program' = program
  PROVE  /\ \A i, use : Denotes(i, use)' = Denotes(i, use)
         /\ \A i, use, item : MayUse(i, use, item)' <=> MayUse(i, use, item)
<1>1. \A k, name, signature : Taking(k, name, signature)' = Taking(k, name, signature)
  BY Frozen, FrozenMeanings DEF Taking
<1>2. \A k, name : Called(k, name)' = Called(k, name)
  BY Frozen DEF Called
<1>3. \A i, use : OwnersOf(i, use)' = OwnersOf(i, use)
  BY FrozenMeanings DEF OwnersOf
<1>4. \A i, use : Denotes(i, use)' = Denotes(i, use)
  <2> TAKE i, use
  <2> DEFINE signature == Signature(i, use.args)  owners == OwnersOf(i, use)
             members == UNION {Taking(k, use.name, signature) : k \in owners}
             statics == Taking(0, use.name, signature)
             called == UNION {Called(k, use.name) : k \in owners}
             known == \E n \in DOMAIN use.args : ~Means(i, use.args[n])
  <2>1. signature' = signature /\ owners' = owners /\ (known' <=> known)
    BY <1>3, FrozenMeanings
  <2> HIDE DEF signature, owners, known
  <2>2. statics' = statics /\ members' = members /\ called' = called
    BY <1>1, <1>2, <2>1
  <2> HIDE DEF statics, members, called
  <2>3. Denotes(i, use) =
          IF known THEN {} ELSE IF use.op = "call" THEN statics
          ELSE IF ~Means(i, use.on) THEN {} ELSE IF use.op \in {"get", "set"} THEN called
          ELSE IF use.op = "member" /\ members = {} THEN statics ELSE members
    BY Zenon DEF Denotes, known, statics, members, called, signature, owners
  <2>4. Denotes(i, use)' =
          IF known' THEN {} ELSE IF use.op = "call" THEN statics'
          ELSE IF ~Means(i, use.on)' THEN {} ELSE IF use.op \in {"get", "set"} THEN called'
          ELSE IF use.op = "member" /\ members' = {} THEN statics' ELSE members'
    BY Zenon DEF Denotes, known, statics, members, called, signature, owners
  <2> QED
    BY <2>1, <2>2, <2>3, <2>4, FrozenMeanings
<1>5. \A use, item : AccessOf(use, item)' = AccessOf(use, item)
  BY Frozen DEF AccessOf
<1>6. \A i : IsGeneric(i)' <=> IsGeneric(i)
  BY DEF IsGeneric
<1>7. \A i, use, item : MayUse(i, use, item)' <=> MayUse(i, use, item)
  BY <1>5, <1>6 DEF MayUse
<1> QED
  BY <1>4, <1>7

LEMMA FrozenSymbols ==
  ASSUME program' = program
  PROVE  /\ \A v : HeaderOf(v)' = HeaderOf(v) /\ PropertyOf(v)' = PropertyOf(v)
         /\ \A v : HeaderKey(v)' = HeaderKey(v) /\ HeaderSymbol(v)' = HeaderSymbol(v)
         /\ \A v : GetterKey(v)' = GetterKey(v) /\ Getter(v)' = Getter(v)
         /\ \A v : SetterKey(v)' = SetterKey(v) /\ Setter(v)' = Setter(v)
<1>1. \A v : HeaderOf(v)' = HeaderOf(v) /\ PropertyOf(v)' = PropertyOf(v)
  BY Frozen DEF HeaderOf, PropertyOf
<1>2. \A v : HeaderKey(v)' = HeaderKey(v)
  BY <1>1, Frozen DEF HeaderKey
<1>3. \A v : HeaderSymbol(v)' = HeaderSymbol(v)
  BY <1>2, Frozen DEF HeaderSymbol, FunctionSymbol
<1>4. \A v : GetterKey(v)' = GetterKey(v) /\ SetterKey(v)' = SetterKey(v)
  BY <1>1, Frozen DEF GetterKey, SetterKey
<1>5. \A v, key, access : Accessor(v, key, access)' = Accessor(v, key, access)
  BY <1>1, Frozen, FrozenMeanings DEF Accessor
<1>6. \A v : Getter(v)' = Getter(v) /\ Setter(v)' = Setter(v)
  BY <1>1, <1>4, <1>5 DEF Getter, Setter
<1> QED
  BY <1>1, <1>2, <1>3, <1>4, <1>6

LEMMA FrozenHolds ==
  ASSUME program' = program, NEW B, NEW D, NEW H, NEW Q, NEW i
  PROVE  /\ Holds(B, D, H, Q)' <=> Holds(B, D, H, Q)
         /\ TableOf(B, i)' = TableOf(B, i)
<1>1. TypesPart(B, D)' <=> TypesPart(B, D)
  BY Frozen DEF TypesPart
<1>2. FunctionsPart(B, H)' <=> FunctionsPart(B, H)
  BY FrozenSymbols DEF FunctionsPart
<1>3. PropertiesPart(B, Q)' <=> PropertiesPart(B, Q)
  BY FrozenSymbols DEF PropertiesPart
<1>4. TableOf(B, i)' = TableOf(B, i)
  BY Frozen DEF TableOf
<1> QED
  BY <1>1, <1>2, <1>3, <1>4 DEF Holds

LEMMA FrozenFits ==
  ASSUME program' = program, NEW D, NEW E, NEW H, NEW Q, NEW N
  PROVE  Fits(D, E, H, Q, N)' <=> Fits(D, E, H, Q, N)
<1>1. SpecsFit(D)' <=> SpecsFit(D)
  BY Frozen DEF SpecsFit
<1>2. ParamsFit(E)' <=> ParamsFit(E)
  BY DEF ParamsFit
<1>3. \A v : HeaderTypes(v)' <=> HeaderTypes(v)
  BY FrozenSymbols, FrozenMeanings DEF HeaderTypes, AllMean
<1>4. HeadersFit(H)' <=> HeadersFit(H)
  BY <1>3, FrozenSymbols DEF HeadersFit
<1>5. PropertiesFit(Q)' <=> PropertiesFit(Q)
  BY FrozenSymbols, FrozenMeanings DEF PropertiesFit
<1>6. \A v : FitBody(v)' <=> FitBody(v)
  BY FrozenSymbols, FrozenDenotes DEF FitBody
<1>7. BodiesFit(N)' <=> BodiesFit(N)
  BY <1>6 DEF BodiesFit
<1> QED
  BY <1>1, <1>2, <1>4, <1>5, <1>7 DEF Fits

LEMMA FrozenVerified ==
  ASSUME program' = program
  PROVE  Verified' <=> Verified
<1>1. Verified <=> Fits(Specs, Specs, AllHeaders, AllProperties, AllHeaders)
  BY DEF Verified, Fits
<1>2. Verified' <=> Fits(Specs, Specs, AllHeaders, AllProperties, AllHeaders)'
  BY DEF Verified, Fits
<1>3. Specs' = Specs /\ AllHeaders' = AllHeaders /\ AllProperties' = AllProperties
  BY Frozen, FrozenSets
<1> QED
  BY <1>1, <1>2, <1>3, FrozenFits

LEMMA FrozenNote ==
  ASSUME program' = program, NEW i, NEW use, NEW note
  PROVE  UseNote(i, use, note)' <=> UseNote(i, use, note)
<1>1. \A key : KnownKey(key)' <=> KnownKey(key)
  BY FrozenSymbols, FrozenSets DEF KnownKey
<1> QED
  BY <1>1, Frozen, FrozenDenotes DEF UseNote

\* What is on a node stays there.
Kept(x) == x \in DOMAIN symbols => x \in DOMAIN symbols' /\ symbols'[x] = symbols[x]
LEMMA KeptNotes ==
  ASSUME program' = program
  PROVE  /\ \A i : Kept(Visit("spec", i, 0)) /\ SpecNote(i) => SpecNote(i)'
         /\ \A v : Kept(Visit("header", v[1], v[2])) /\ HeaderNote(v) => HeaderNote(v)'
         /\ \A v : Kept(Visit("property", v[1], v[2])) /\ PropertyNote(v) => PropertyNote(v)'
         /\ \A v : Kept(Visit("body", v[1], v[2])) /\ BodyNote(v) => BodyNote(v)'
<1>1. \A i : Kept(Visit("spec", i, 0)) /\ SpecNote(i) => SpecNote(i)'
  BY Frozen DEF Kept, SpecNote, Visit
<1>2. \A v : Kept(Visit("header", v[1], v[2])) /\ HeaderNote(v) => HeaderNote(v)'
  BY FrozenSymbols DEF Kept, HeaderNote, Visit
<1>3. \A v : Kept(Visit("property", v[1], v[2])) /\ PropertyNote(v) => PropertyNote(v)'
  BY FrozenSymbols DEF Kept, PropertyNote, Visit
<1>4. \A v : Kept(Visit("body", v[1], v[2])) /\ BodyNote(v) => BodyNote(v)'
  <2> TAKE v
  <2> DEFINE x == Visit("body", v[1], v[2])
  <2>0. x' = x
    BY DEF Visit
  <2>1. SUFFICES ASSUME Kept(x), BodyNote(v) PROVE BodyNote(v)'
    OBVIOUS
  <2>2. x \in DOMAIN symbols' /\ symbols'[x] = symbols[x]
    BY <2>1 DEF BodyNote, Kept
  <2>3. HeaderOf(v)' = HeaderOf(v)
    BY FrozenSymbols
  <2>4. ASSUME HeaderOf(v).uses # <<>>
        PROVE  UseNote(v[1], HeaderOf(v).uses[1], symbols[x])'
    <3>1. PICK n, u : n = symbols[x] /\ u = HeaderOf(v).uses[1]
      OBVIOUS
    <3>2. UseNote(v[1], u, n)
      BY <2>1, <2>4, <3>1 DEF BodyNote
    <3>3. UseNote(v[1], u, n)'
      BY <3>2, FrozenNote
    <3>4. n = symbols'[x] /\ u = HeaderOf(v)'.uses[1]
      BY <2>2, <2>3, <3>1
    <3> QED
      BY <3>3, <3>4
  <2> QED
    BY <2>2, <2>3, <2>4 DEF BodyNote
<1> QED
  BY <1>1, <1>2, <1>3, <1>4

LEMMA VisitSame ==
  ASSUME NEW a, NEW i, NEW j, NEW b, NEW k, NEW l
  PROVE  Visit(a, i, j) = Visit(b, k, l) <=> a = b /\ i = k /\ j = l
BY DEF Visit

LEMMA BindKeeps ==
  ASSUME NEW s, symbols' = Bind(symbols, Here, s)
  PROVE  /\ \A x : x # Here => Kept(x)
         /\ Here \in DOMAIN symbols' /\ symbols'[Here] = s
BY BindIs DEF Kept

LEMMA NotedSpec ==
  ASSUME NEW i, Here = Visit("spec", i, 0), program' = program,
         symbols' = Bind(symbols, Here, SpecSymbol(i)),
         NEW D, NEW H, NEW Q, NEW N, Noted(D, H, Q, N)
  PROVE  Noted(D \cup {i}, H, Q, N)'
<1>1. /\ \A x : x # Here => Kept(x)
      /\ Here \in DOMAIN symbols' /\ symbols'[Here] = SpecSymbol(i)
  BY BindKeeps
<1>2. /\ \A k : k # i => Kept(Visit("spec", k, 0))
      /\ \A k, j : Kept(Visit("header", k, j)) /\ Kept(Visit("property", k, j))
                   /\ Kept(Visit("body", k, j))
  BY <1>1, VisitSame
<1>3. SpecNote(i)'
  BY <1>1, Frozen DEF SpecNote, Visit
<1>4. \A k \in D \cup {i} : SpecNote(k)'
  BY <1>2, <1>3, KeptNotes DEF Noted
<1>5. /\ \A v \in H : HeaderNote(v)'
      /\ \A v \in Q : PropertyNote(v)'
      /\ \A v \in N : BodyNote(v)'
  BY <1>2, KeptNotes DEF Noted
<1> QED
  BY <1>4, <1>5 DEF Noted

LEMMA NotedScope ==
  ASSUME NEW i, NEW op \in {"enter", "leave"}, Here = Visit(op, i, 0), program' = program,
         NEW s, symbols' = Bind(symbols, Here, s),
         NEW D, NEW H, NEW Q, NEW N, Noted(D, H, Q, N)
  PROVE  Noted(D, H, Q, N)'
<1>1. /\ \A x : x # Here => Kept(x)
      /\ Here \in DOMAIN symbols' /\ symbols'[Here] = s
  BY BindKeeps
<1>2. /\ \A k : Kept(Visit("spec", k, 0))
      /\ \A k, j : Kept(Visit("header", k, j)) /\ Kept(Visit("property", k, j))
                   /\ Kept(Visit("body", k, j))
  BY <1>1, VisitSame
<1> QED
  BY <1>2, KeptNotes DEF Noted

LEMMA NotedHeader ==
  ASSUME NEW v \in AllHeaders, Here = Visit("header", v[1], v[2]), program' = program,
         symbols' = Bind(symbols, Here, HeaderSymbol(v)),
         NEW D, NEW H \in SUBSET AllHeaders, NEW Q, NEW N, Noted(D, H, Q, N)
  PROVE  Noted(D, H \cup {v}, Q, N)'
<1>1. /\ \A x : x # Here => Kept(x)
      /\ Here \in DOMAIN symbols' /\ symbols'[Here] = HeaderSymbol(v)
  BY BindKeeps
<1>0. \A w \in H : w # v => w[1] # v[1] \/ w[2] # v[2]
  BY DEF AllHeaders
<1>2. /\ \A k : Kept(Visit("spec", k, 0))
      /\ \A k, j : Kept(Visit("property", k, j)) /\ Kept(Visit("body", k, j))
      /\ \A w \in H : w # v => Kept(Visit("header", w[1], w[2]))
  BY <1>0, <1>1, VisitSame
<1>3. HeaderNote(v)'
  BY <1>1, FrozenSymbols DEF HeaderNote, Visit
<1>4. \A w \in H \cup {v} : HeaderNote(w)'
  BY <1>2, <1>3, KeptNotes DEF Noted
<1>5. /\ \A k \in D : SpecNote(k)'
      /\ \A w \in Q : PropertyNote(w)'
      /\ \A w \in N : BodyNote(w)'
  BY <1>2, KeptNotes DEF Noted
<1> QED
  BY <1>4, <1>5 DEF Noted

LEMMA NotedProperty ==
  ASSUME NEW v \in AllProperties, Here = Visit("property", v[1], v[2]), program' = program,
         symbols' = Bind(symbols, Here, [get |-> Getter(v), set |-> Setter(v)]),
         NEW D, NEW H, NEW Q \in SUBSET AllProperties, NEW N, Noted(D, H, Q, N)
  PROVE  Noted(D, H, Q \cup {v}, N)'
<1>1. /\ \A x : x # Here => Kept(x)
      /\ Here \in DOMAIN symbols' /\ symbols'[Here] = [get |-> Getter(v), set |-> Setter(v)]
  BY BindKeeps
<1>0. \A w \in Q : w # v => w[1] # v[1] \/ w[2] # v[2]
  BY DEF AllProperties
<1>2. /\ \A k : Kept(Visit("spec", k, 0))
      /\ \A k, j : Kept(Visit("header", k, j)) /\ Kept(Visit("body", k, j))
      /\ \A w \in Q : w # v => Kept(Visit("property", w[1], w[2]))
  BY <1>0, <1>1, VisitSame
<1>3. PropertyNote(v)'
  BY <1>1, FrozenSymbols DEF PropertyNote, Visit
<1>4. \A w \in Q \cup {v} : PropertyNote(w)'
  BY <1>2, <1>3, KeptNotes DEF Noted
<1>5. /\ \A k \in D : SpecNote(k)'
      /\ \A w \in H : HeaderNote(w)'
      /\ \A w \in N : BodyNote(w)'
  BY <1>2, KeptNotes DEF Noted
<1> QED
  BY <1>4, <1>5 DEF Noted

LEMMA NotedBody ==
  ASSUME NEW v \in AllHeaders, Here = Visit("body", v[1], v[2]), program' = program, NEW s,
         symbols' = Bind(symbols, Here, s),
         HeaderOf(v).uses # <<>> => UseNote(v[1], HeaderOf(v).uses[1], s),
         NEW D, NEW H, NEW Q, NEW N \in SUBSET AllHeaders, Noted(D, H, Q, N)
  PROVE  Noted(D, H, Q, N \cup {v})'
<1>1. /\ \A x : x # Here => Kept(x)
      /\ Here \in DOMAIN symbols' /\ symbols'[Here] = s
  BY BindKeeps
<1>0. \A w \in N : w # v => w[1] # v[1] \/ w[2] # v[2]
  BY DEF AllHeaders
<1>2. /\ \A k : Kept(Visit("spec", k, 0))
      /\ \A k, j : Kept(Visit("header", k, j)) /\ Kept(Visit("property", k, j))
      /\ \A w \in N : w # v => Kept(Visit("body", w[1], w[2]))
  BY <1>0, <1>1, VisitSame
<1>3. BodyNote(v)'
  <2>1. HeaderOf(v)' = HeaderOf(v)
    BY FrozenSymbols
  <2>2. ASSUME HeaderOf(v).uses # <<>>
        PROVE  UseNote(v[1], HeaderOf(v).uses[1], symbols[Visit("body", v[1], v[2])])'
    <3>1. PICK u : u = HeaderOf(v).uses[1]
      OBVIOUS
    <3>2. UseNote(v[1], u, s)'
      BY <2>2, <3>1, FrozenNote
    <3>3. s = symbols'[Visit("body", v[1], v[2])] /\ u = HeaderOf(v)'.uses[1]
      BY <1>1, <2>1, <3>1
    <3> QED
      BY <3>2, <3>3 DEF Visit
  <2>3. Visit("body", v[1], v[2]) \in DOMAIN symbols'
    BY <1>1
  <2> QED
    BY <2>1, <2>2, <2>3 DEF BodyNote, Visit
<1>4. \A w \in N \cup {v} : BodyNote(w)'
  BY <1>2, <1>3, KeptNotes DEF Noted
<1>5. /\ \A k \in D : SpecNote(k)'
      /\ \A w \in H : HeaderNote(w)'
      /\ \A w \in Q : PropertyNote(w)'
  BY <1>2, KeptNotes DEF Noted
<1> QED
  BY <1>4, <1>5 DEF Noted

LEMMA NotedStay ==
  ASSUME program' = program, symbols' = symbols, NEW D, NEW H, NEW Q, NEW N, Noted(D, H, Q, N)
  PROVE  Noted(D, H, Q, N)'
<1>1. \A x : Kept(x)
  BY DEF Kept
<1> QED
  BY <1>1, KeptNotes DEF Noted

\* The invariant after a step that leaves table C.
LEMMA CheckingNext ==
  ASSUME program' = program, NEW C, NEW o, NEW D, NEW E, NEW H, NEW Q, NEW N,
         o = Open', D = Defs', E = Entries', H = Heads', Q = Props', N = Bodies',
         symbol_table' = TableOf(C, o), Holds(C, D, H, Q), Fits(D, E, H, Q, N),
         Noted(D, H, Q, N)', Fresh, UNCHANGED gen_vars
  PROVE  Checking'
<1>1. symbol_table'[1] = C
  BY TableFirst
<1>2. (symbol_table = TableOf(symbol_table[1], Open))'
  <2>1. TableOf(C, o)' = TableOf(C, o)
    BY FrozenHolds
  <2> QED
    BY <1>1, <2>1
<1>3. Holds(symbol_table[1], Defs, Heads, Props)'
  <2>1. Holds(C, D, H, Q)'
    BY FrozenHolds
  <2> QED
    BY <1>1, <2>1
<1>4. Fits(Defs, Entries, Heads, Props, Bodies)'
  <2>1. Fits(D, E, H, Q, N)'
    BY FrozenFits
  <2> QED
    BY <2>1
<1>5. Noted(Defs, Heads, Props, Bodies)'
  OBVIOUS
<1>6. Fresh'
  BY DEF Fresh, gen_vars
<1> QED
  BY <1>2, <1>3, <1>4, <1>5, <1>6 DEF Checking


-----------------------------------------------------------------------------
(***************************************************************************)
(* The steps of the type checker.                                          *)
(***************************************************************************)
LEMMA DistinctCount ==
  ASSUME NEW S, NEW s \in Seq(S)
  PROVE  Cardinality({s[n] : n \in DOMAIN s}) = Len(s) <=> Distinct(s)
<1> DEFINE X == DOMAIN s  T == {s[n] : n \in X}
<1>1. X = 1 .. Len(s) /\ Len(s) \in Nat
  OBVIOUS
<1>2. IsFiniteSet(X) /\ Cardinality(X) = Len(s)
  <2>1. /\ IsFiniteSet(1 .. Len(s))
        /\ Cardinality(1 .. Len(s)) = IF 1 > Len(s) THEN 0 ELSE Len(s) - 1 + 1
    BY <1>1, FS_Interval
  <2> QED
    BY <1>1, <2>1
<1>3. s \in [X -> T]
  <2>1. s = [n \in X |-> s[n]]
    OBVIOUS
  <2> QED
    BY <2>1
<1>4. s \in Surjection(X, T)
  BY <1>3 DEF Surjection
<1> HIDE DEF X, T
<1>5. Cardinality(T) = Cardinality(X) <=> s \in Injection(X, T)
  BY <1>2, <1>4, FS_Surjection
<1>6. s \in Injection(X, T) <=> Distinct(s)
  BY <1>3 DEF Injection, IsInjective, Distinct, X
<1>7. Cardinality(T) = Len(s) <=> Distinct(s)
  BY <1>2, <1>5, <1>6
<1> QED
  BY <1>7 DEF T, X

\* The parameters of a function, as the checker resolves them.
LEMMA ParamsAre ==
  ASSUME Typed, NEW B, HoldsTypes(B), NEW i \in Owners, symbol_table = TableOf(B, i),
         NEW f \in FunctionNodes
  PROVE  /\ Params(f) # {} <=> AllMean(i, f.params)
                               /\ \A n \in DOMAIN f.params : f.params[n] # VoidNode
         /\ Params(f) # {} => NamesOf(The(Params(f))) = NamesIn(f.params)
<1>1. f.params \in Seq(TypeNodes)
  BY FunctionShape
<1>2. CASE ~AllMean(i, f.params)
  <2>1. ResolveAll(symbol_table, f.params) = {}
    BY <1>1, <1>2, ResolveAllIs
  <2> QED
    BY <1>2, <2>1 DEF Params
<1>3. CASE AllMean(i, f.params)
  <2>1. PICK ss : ResolveTo(symbol_table, f.params, ss)
    BY <1>1, <1>3, ResolveAllIs
  <2>2. \A n \in DOMAIN ss : IsVoid(ss[n]) <=> f.params[n] = VoidNode
    <3> TAKE n \in DOMAIN ss
    <3>1. n \in DOMAIN f.params /\ f.params[n] \in TypeNodes /\ ss[n].name = TypeName(f.params[n])
      BY <1>1, <2>1 DEF ResolveTo
    <3> PICK t : t = f.params[n]
      OBVIOUS
    <3>2. t.args \in Seq(STRING) /\ t = [name |-> t.name, args |-> t.args]
      BY <3>1 DEF TypeNodes
    <3>3. CASE t.args = <<>>
      <4>1. TypeName(t) = <<"void">> <=> t.name = "void"
        BY <3>3 DEF TypeName
      <4>2. t = VoidNode <=> t.name = "void"
        BY <3>2, <3>3 DEF VoidNode
      <4> QED
        BY <3>1, <4>1, <4>2 DEF IsVoid
    <3>4. CASE t.args # <<>>
      <4>1. TypeName(t) = InstanceName(t.name, t.args)
        BY <3>4 DEF TypeName
      <4>2. <<"void">> # InstanceName(t.name, t.args)
        <5>1. <<>> \in Seq(STRING) /\ Marked("void", <<>>) = <<"void">>
          <6>1. <<>> \in Seq(STRING)
            OBVIOUS
          <6> QED
            BY <6>1, MarkedPlain, Zenon DEF PlainMarked
        <5> QED
          BY <3>2, <5>1, MarkedNoInstance, Zenon
      <4>3. t # VoidNode
        BY <3>4 DEF VoidNode
      <4> QED
        BY <3>1, <4>1, <4>2, <4>3 DEF IsVoid
    <3> QED
      BY <3>3, <3>4
  <2>3. Params(f) = {s \in {ss} : \A n \in DOMAIN ss : ~IsVoid(ss[n])}
    BY <2>1 DEF Params, ResolveTo
  <2>4. Params(f) # {} => Params(f) = {ss}
    BY <2>3
  <2>5. Params(f) # {} => NamesOf(The(Params(f))) = NamesIn(f.params)
    BY <2>1, <2>4, TheOnly, NamesResolved
  <2>6. DOMAIN ss = DOMAIN f.params
    BY <2>1 DEF ResolveTo
  <2> QED
    BY <1>3, <2>2, <2>3, <2>5, <2>6
<1> QED
  BY <1>2, <1>3

\* What lies behind a pass that has come to a scan.
LEMMA Behind ==
  ASSUME Typed, AtOK
  PROVE  /\ at.scan >= 2 => Defs = Specs /\ Sized = Specs
         /\ at.scan >= 3 => Entries = Specs /\ Heads = AllHeaders /\ Props = AllProperties
         /\ at.scan >= 4 => Bodies = AllHeaders
         /\ Defs \subseteq Specs /\ Entries \subseteq Specs
         /\ Heads \subseteq AllHeaders /\ Props \subseteq AllProperties
         /\ Bodies \subseteq AllHeaders
BY DEF AtOK, Beyond, Defs, Sized, Entries, Heads, Props, Bodies

LEMMA NotBehind ==
  ASSUME Typed, AtOK
  PROVE  /\ at.scan = 1 /\ at.item = 0 => at.spec \notin Defs
         /\ at.scan = 2 => <<at.spec, at.item>> \notin Heads /\ <<at.spec, Property>> \notin Props
<1>1. at.scan \in Nat /\ at.spec \in Nat /\ at.item \in Nat
  BY OwnerSet DEF AtOK
<1>2. at.scan = 1 /\ at.item = 0 => at.spec \notin Defs
  BY <1>1 DEF Defs, Beyond
<1>3. at.scan = 2 => <<at.spec, at.item>> \notin Heads
  BY <1>1 DEF Heads, Beyond
<1>4. at.scan = 2 => <<at.spec, Property>> \notin Props
  <2> SUFFICES ASSUME at.scan = 2, <<at.spec, Property>> \in Props PROVE FALSE
    OBVIOUS
  <2>1. at.spec \in Owners /\ Beyond(2, at.spec, Len(FunctionsOf(at.spec)) + Property)
    BY DEF Props, AllProperties, Owners
  <2>2. Len(FunctionsOf(at.spec)) + Property = at.item
    BY <1>1, <2>1, FunctionSums DEF Property
  <2> QED
    BY <1>1, <2>1, <2>2 DEF Beyond
<1> QED
  BY <1>2, <1>3, <1>4

\* A visit by the checker ends well, or the program is rejected.
LEMMA CheckMade ==
  ASSUME Typed, AtOK, NEW op, Reaches("check", op), Onward, UNCHANGED phase
  PROVE  Made(op) /\ phase = "check"
BY ReachesIs DEF Made

LEMMA Refuse ==
  ASSUME VerdictInv, program' = program, at' = at, phase' = "rejected", ~Verified
  PROVE  VerdictInv'
<1>1. Typed'
  BY DEF VerdictInv, Typed
<1>2. AtOK'
  BY DEF VerdictInv, AtOK
<1>3. ~Verified'
  BY FrozenVerified
<1> QED
  BY <1>1, <1>2, <1>3 DEF VerdictInv, Accepted

\* What holds while the checker runs; and what is left to show of a visit.
LEMMA Running ==
  ASSUME VerdictInv, phase = "check"
  PROVE  /\ Typed /\ AtOK /\ Checking /\ Fresh
         /\ symbol_table = TableOf(symbol_table[1], Open)
         /\ Holds(symbol_table[1], Defs, Heads, Props)
         /\ Fits(Defs, Entries, Heads, Props, Bodies)
         /\ Noted(Defs, Heads, Props, Bodies)
BY DEF VerdictInv, Checking

LEMMA RunsOn ==
  ASSUME Typed, program' = program, AtOK', phase' = "check", Checking'
  PROVE  VerdictInv'
<1>1. Typed'
  BY DEF Typed
<1> QED
  BY <1>1 DEF VerdictInv, Accepted

LEMMA StepSpec ==
  ASSUME VerdictInv, CheckSpec
  PROVE  VerdictInv'
<1>0. Reaches("check", "spec") /\ VerdictInv /\ phase = "check" /\ Typed /\ AtOK
  BY DEF CheckSpec, Checks, Reaches, Walking, VerdictInv
<1>1. AtSpec /\ program' = program
  BY <1>0, ReachesIs DEF AtVisit
<1>2. at.scan = 1 /\ at.spec \in Specs /\ at.item = 0 /\ Here = Visit("spec", at.spec, 0)
  BY <1>0, <1>1 DEF AtSpec
<1> PICK i, B, D, E, H, Q, N : /\ i = at.spec /\ B = symbol_table[1]
                               /\ D = Defs /\ E = Entries /\ H = Heads /\ Q = Props /\ N = Bodies
  OBVIOUS
<1> DEFINE key == TypeKey(SpecName(i))
<1>3. /\ symbol_table = TableOf(B, Open) /\ Holds(B, D, H, Q) /\ Fits(D, E, H, Q, N)
      /\ Noted(D, H, Q, N) /\ Fresh
  BY <1>0, Running
<1>4. i \in Specs /\ D \subseteq Specs /\ i \notin D /\ Here.spec = i
  BY <1>0, <1>2, Behind, NotBehind DEF Visit
<1>5. SpecSymbol(i).name = SpecName(i)
  BY DEF SpecSymbol
<1>6. /\ UNCHANGED gen_vars
      /\ \/ key \in DOMAIN B /\ phase' = "rejected" /\ at' = at
         \/ /\ key \notin DOMAIN B /\ Onward /\ UNCHANGED phase
            /\ symbol_table' = PutBottom(symbol_table, key, SpecSymbol(i))
            /\ symbols' = Bind(symbols, Here, SpecSymbol(i))
  BY <1>4, <1>5 DEF CheckSpec, Checks, Unbound
<1>7. CASE key \in DOMAIN B /\ phase' = "rejected" /\ at' = at
  <2>1. ~SpecsFit(Specs)
    <3>1. (\E b \in BUILTIN_TYPES : SpecName(i) = b.name) \/ (\E k \in D : SpecName(i) = SpecName(k))
      BY <1>3, <1>7 DEF Holds, TypesPart
    <3> QED
      BY <1>4, <3>1 DEF SpecsFit
  <2> QED
    BY <1>0, <1>1, <1>7, <2>1, Refuse DEF Verified
<1>8. CASE /\ key \notin DOMAIN B /\ Onward /\ UNCHANGED phase
           /\ symbol_table' = PutBottom(symbol_table, key, SpecSymbol(i))
           /\ symbols' = Bind(symbols, Here, SpecSymbol(i))
  <2>1. Made("spec")
    BY <1>0, <1>8, CheckMade
  <2>2. /\ AtOK' /\ Open = 0 /\ Open' = 0
        /\ D \cup {i} = Defs' /\ E = Entries' /\ H = Heads' /\ Q = Props' /\ N = Bodies'
    BY <1>0, <2>1, MadeSpec
  <2>3. /\ Holds(Bind(B, key, SpecSymbol(i)), D \cup {i}, H, Q) /\ SpecsFit(D \cup {i})
    BY <1>0, <1>3, <1>4, <1>8, BindSpec DEF Holds, Fits
  <2>4. Fits(D \cup {i}, E, H, Q, N)
    BY <1>3, <2>3 DEF Fits
  <2>5. Noted(D \cup {i}, H, Q, N)'
    BY <1>1, <1>2, <1>3, <1>8, NotedSpec
  <2>6. symbol_table' = TableOf(Bind(B, key, SpecSymbol(i)), 0)
    BY <1>3, <1>8, <2>2, TablePut
  <2>7. Checking'
    BY <1>1, <1>3, <1>6, <2>2, <2>3, <2>4, <2>5, <2>6, CheckingNext
  <2> QED
    BY <1>0, <1>1, <1>8, <2>2, <2>7, RunsOn
<1> QED
  BY <1>6, <1>7, <1>8

LEMMA StepEnter ==
  ASSUME VerdictInv, CheckEnter
  PROVE  VerdictInv'
<1>0. Reaches("check", "enter") /\ VerdictInv /\ phase = "check" /\ Typed /\ AtOK
  BY DEF CheckEnter, Checks, Reaches, Walking, VerdictInv
<1>1. AtEnter /\ program' = program
  BY <1>0, ReachesIs DEF AtVisit
<1>2. at.scan \in {2, 3} /\ at.spec \in Specs /\ at.item = 0 /\ Here = Visit("enter", at.spec, 0)
  BY <1>0, <1>1 DEF AtEnter
<1> PICK i, B, D, E, H, Q, N : /\ i = at.spec /\ B = symbol_table[1]
                               /\ D = Defs /\ E = Entries /\ H = Heads /\ Q = Props /\ N = Bodies
  OBVIOUS
<1> DEFINE params == program.specs[i].params
           apart == Cardinality({params[n] : n \in DOMAIN params}) = Len(params)
<1>3. /\ symbol_table = TableOf(B, Open) /\ Holds(B, D, H, Q) /\ Fits(D, E, H, Q, N)
      /\ Noted(D, H, Q, N) /\ Fresh
  BY <1>0, Running
<1>4. i \in Specs /\ i # 0 /\ Here.spec = i
  BY <1>0, <1>2, Shape DEF Visit
<1>5. apart <=> Distinct(params)
  <2>1. params \in Seq(STRING)
    BY <1>0, <1>4, Shape, SpecShape
  <2> QED
    BY <2>1, DistinctCount
<1>6. /\ UNCHANGED gen_vars
      /\ \/ ~apart /\ phase' = "rejected" /\ at' = at
         \/ /\ apart /\ Onward /\ UNCHANGED phase
            /\ symbol_table' = Append(symbol_table, ParamScope(i))
            /\ symbols' = Bind(symbols, Here, SpecSymbol(i))
  BY <1>4 DEF CheckEnter, Checks
<1> HIDE DEF apart
<1>7. CASE ~apart /\ phase' = "rejected" /\ at' = at
  <2>1. ~ParamsFit(Specs)
    BY <1>4, <1>5, <1>7 DEF ParamsFit
  <2> QED
    BY <1>0, <1>1, <1>7, <2>1, Refuse DEF Verified
<1>8. CASE /\ apart /\ Onward /\ UNCHANGED phase
           /\ symbol_table' = Append(symbol_table, ParamScope(i))
           /\ symbols' = Bind(symbols, Here, SpecSymbol(i))
  <2>1. Made("enter")
    BY <1>0, <1>8, CheckMade
  <2>2. /\ AtOK' /\ Open = 0 /\ Open' = i
        /\ D = Defs' /\ H = Heads' /\ Q = Props' /\ N = Bodies'
        /\ Entries' = E \/ Entries' = E \cup {i}
    BY <1>0, <2>1, MadeEnter
  <2> PICK F : F = Entries'
    OBVIOUS
  <2>4. Fits(D, F, H, Q, N)
    BY <1>3, <1>5, <1>8, <2>2 DEF Fits, ParamsFit
  <2>5. Noted(D, H, Q, N)'
    BY <1>1, <1>2, <1>3, <1>8, NotedScope
  <2>6. symbol_table' = TableOf(B, i)
    BY <1>3, <1>4, <1>8, <2>2, TableEnter
  <2>7. Checking'
    BY <1>1, <1>3, <1>6, <2>2, <2>4, <2>5, <2>6, CheckingNext
  <2> QED
    BY <1>0, <1>1, <1>8, <2>2, <2>7, RunsOn
<1> QED
  BY <1>6, <1>7, <1>8

LEMMA StepLeave ==
  ASSUME VerdictInv, CheckLeave
  PROVE  VerdictInv'
<1>0. Reaches("check", "leave") /\ VerdictInv /\ phase = "check" /\ Typed /\ AtOK
  BY DEF CheckLeave, Checks, Reaches, Walking, VerdictInv
<1>1. AtLeave /\ program' = program
  BY <1>0, ReachesIs DEF AtVisit
<1>2. at.spec \in Specs /\ Here = Visit("leave", at.spec, 0)
  BY <1>0, <1>1 DEF AtLeave
<1> PICK i, B, D, E, H, Q, N : /\ i = at.spec /\ B = symbol_table[1]
                               /\ D = Defs /\ E = Entries /\ H = Heads /\ Q = Props /\ N = Bodies
  OBVIOUS
<1>3. /\ symbol_table = TableOf(B, Open) /\ Holds(B, D, H, Q) /\ Fits(D, E, H, Q, N)
      /\ Noted(D, H, Q, N) /\ Fresh
  BY <1>0, Running
<1>4. i \in Specs /\ i # 0 /\ Here.spec = i
  BY <1>0, <1>2, Shape DEF Visit
<1>6. /\ UNCHANGED gen_vars /\ Onward /\ UNCHANGED phase
      /\ symbol_table' = Pop(symbol_table)
      /\ symbols' = Bind(symbols, Here, SpecSymbol(i))
  BY <1>4 DEF CheckLeave, Checks
<1>7. Made("leave")
  BY <1>0, <1>6, CheckMade
<1>8. /\ AtOK' /\ Open = i /\ Open' = 0
      /\ D = Defs' /\ E = Entries' /\ H = Heads' /\ Q = Props' /\ N = Bodies'
  BY <1>0, <1>7, MadeLeave DEF Unmoved
<1>9. Noted(D, H, Q, N)'
  BY <1>1, <1>2, <1>3, <1>6, NotedScope
<1>10. symbol_table' = TableOf(B, 0)
  BY <1>3, <1>4, <1>6, <1>8, TableLeave
<1>11. Checking'
  BY <1>1, <1>3, <1>6, <1>8, <1>9, <1>10, CheckingNext
<1> QED
  BY <1>0, <1>1, <1>6, <1>8, <1>11, RunsOn

LEMMA StepHeader ==
  ASSUME VerdictInv, CheckHeader
  PROVE  VerdictInv'
<1>0. Reaches("check", "header") /\ VerdictInv /\ phase = "check" /\ Typed /\ AtOK
  BY DEF CheckHeader, Checks, Reaches, Walking, VerdictInv
<1>1. AtHeader /\ program' = program /\ at.spec \in Owners
  BY <1>0, ReachesIs DEF AtVisit
<1>2. at.scan = 2 /\ at.item \in DOMAIN FunctionsOf(at.spec) /\ Here = Visit("header", at.spec, at.item)
  BY <1>0, <1>1 DEF AtHeader
<1> PICK i, j, B, D, E, H, Q, N :
      /\ i = at.spec /\ j = at.item /\ B = symbol_table[1]
      /\ D = Defs /\ E = Entries /\ H = Heads /\ Q = Props /\ N = Bodies
  OBVIOUS
<1> PICK v : v = <<i, j>>
  OBVIOUS
<1>3. /\ symbol_table = TableOf(B, Open) /\ Holds(B, D, H, Q) /\ Fits(D, E, H, Q, N)
      /\ Noted(D, H, Q, N) /\ Fresh
  BY <1>0, Running
<1>4. /\ i \in Owners /\ v \in AllHeaders /\ v[1] = i /\ v[2] = j
      /\ Here.spec = i /\ Here.item = j /\ Here = Visit("header", v[1], v[2])
      /\ HeaderOf(v) = FunctionsOf(i)[j] /\ H \subseteq AllHeaders /\ v \notin H /\ D = Specs
      /\ Open = i
  <2>1. v \in AllHeaders /\ HeaderOf(v) = FunctionsOf(i)[j]
    BY <1>0, <1>1, <1>2, HeaderPair
  <2>2. H \subseteq AllHeaders /\ v \notin H /\ D = Specs
    BY <1>0, <1>2, Behind, NotBehind
  <2>3. Open = i
    BY <1>0, <1>1, <1>2, AtFunction
  <2> QED
    BY <1>1, <1>2, <2>1, <2>2, <2>3 DEF Visit
<1> DEFINE f == HeaderOf(v)
           params == Params(f)
           key == FunctionKey(SpecName(i), f.name, NamesOf(The(params)))
           allowed == params # {} /\ Resolve(symbol_table, f.ret) # {} /\ Unbound(key)
<1>5. /\ UNCHANGED gen_vars
      /\ \/ ~allowed /\ phase' = "rejected" /\ at' = at
         \/ /\ allowed /\ Onward /\ UNCHANGED phase
            /\ symbol_table' = PutBottom(symbol_table, key, FunctionSymbol(i, j, key))
            /\ symbols' = Bind(symbols, Here, FunctionSymbol(i, j, key))
  BY <1>4 DEF CheckHeader, Checks
<1>6. /\ f \in FunctionNodes /\ f.ret \in TypeNodes /\ HoldsTypes(B) /\ symbol_table = TableOf(B, i)
  <2>1. HoldsTypes(B)
    BY <1>3, <1>4 DEF Holds, TypesPart, HoldsTypes
  <2> QED
    BY <1>0, <1>3, <1>4, <2>1, HeaderShape, FunctionShape
<1>7. /\ params # {} <=> AllMean(i, f.params) /\ \A n \in DOMAIN f.params : f.params[n] # VoidNode
      /\ params # {} => NamesOf(The(params)) = NamesIn(f.params)
  BY <1>0, <1>4, <1>6, ParamsAre
<1>8. Resolve(symbol_table, f.ret) # {} <=> Means(i, f.ret)
  BY <1>0, <1>4, <1>6, ResolveIs DEF ResolvesTo
<1>9. params # {} => key = HeaderKey(v)
  BY <1>4, <1>7 DEF HeaderKey
<1>10. allowed <=> HeaderTypes(v) /\ HeaderKey(v) \notin DOMAIN B
  BY <1>4, <1>7, <1>8, <1>9 DEF HeaderTypes, Unbound
<1>11. allowed => key = HeaderKey(v) /\ FunctionSymbol(i, j, key) = HeaderSymbol(v)
  BY <1>4, <1>9 DEF HeaderSymbol
<1> HIDE DEF allowed, key
<1>12. CASE ~allowed /\ phase' = "rejected" /\ at' = at
  <2>1. ~HeadersFit(AllHeaders)
    <3>1. CASE ~HeaderTypes(v)
      BY <1>4, <3>1 DEF HeadersFit
    <3>2. CASE HeaderKey(v) \in DOMAIN B
      <4>1. PICK w \in H : HeaderKey(v) = HeaderKey(w)
        BY <1>3, <3>2 DEF Holds, FunctionsPart, HeaderKey
      <4> QED
        BY <1>4, <4>1 DEF HeadersFit
    <3> QED
      BY <1>10, <1>12, <3>1, <3>2
  <2> QED
    BY <1>0, <1>1, <1>12, <2>1, Refuse DEF Verified
<1>13. CASE /\ allowed /\ Onward /\ UNCHANGED phase
            /\ symbol_table' = PutBottom(symbol_table, key, FunctionSymbol(i, j, key))
            /\ symbols' = Bind(symbols, Here, FunctionSymbol(i, j, key))
  <2>1. Made("header")
    BY <1>0, <1>13, CheckMade
  <2>2. /\ AtOK' /\ Open' = i
        /\ D = Defs' /\ E = Entries' /\ H \cup {v} = Heads' /\ Q = Props' /\ N = Bodies'
    BY <1>0, <2>1, MadeHeader
  <2> DEFINE C == Bind(B, HeaderKey(v), HeaderSymbol(v))
  <2>3. Holds(C, D, H \cup {v}, Q) /\ \A w \in H : HeaderKey(w) # HeaderKey(v)
    BY <1>3, <1>10, <1>13, BindHeader DEF Holds
  <2>4. Fits(D, E, H \cup {v}, Q, N)
    <3>1. HeaderTypes(v) /\ HeadersFit(H)
      BY <1>3, <1>10, <1>13 DEF Fits
    <3>2. HeadersFit(H \cup {v})
      BY <2>3, <3>1 DEF HeadersFit
    <3> QED
      BY <1>3, <3>2 DEF Fits
  <2>5. Noted(D, H \cup {v}, Q, N)'
    <3>1. symbols' = Bind(symbols, Here, HeaderSymbol(v))
      BY <1>11, <1>13
    <3> QED
      BY <1>1, <1>3, <1>4, <3>1, NotedHeader
  <2>6. symbol_table' = TableOf(C, i)
    <3>1. symbol_table' = PutBottom(TableOf(B, i), HeaderKey(v), HeaderSymbol(v))
      BY <1>6, <1>11, <1>13
    <3> QED
      BY <3>1, TablePut
  <2> HIDE DEF C
  <2>7. Checking'
    BY <1>1, <1>3, <1>5, <2>2, <2>3, <2>4, <2>5, <2>6, CheckingNext
  <2> QED
    BY <1>0, <1>1, <1>13, <2>2, <2>7, RunsOn
<1> QED
  BY <1>5, <1>12, <1>13

LEMMA StepProperty ==
  ASSUME VerdictInv, CheckProperty
  PROVE  VerdictInv'
<1>0. Reaches("check", "property") /\ VerdictInv /\ phase = "check" /\ Typed /\ AtOK
  BY DEF CheckProperty, Checks, Reaches, Walking, VerdictInv
<1>1. AtProperty /\ program' = program /\ at.spec \in Owners
  BY <1>0, ReachesIs DEF AtVisit
<1>2. /\ at.scan = 2 /\ at.spec \in Specs /\ Property \in DOMAIN PropertiesOf(at.spec)
      /\ at.item = Len(FunctionsOf(at.spec)) + Property
      /\ Here = Visit("property", at.spec, Property)
  BY <1>0, <1>1 DEF AtProperty
<1> PICK i, j, B, D, E, H, Q, N :
      /\ i = at.spec /\ j = Property /\ B = symbol_table[1]
      /\ D = Defs /\ E = Entries /\ H = Heads /\ Q = Props /\ N = Bodies
  OBVIOUS
<1> PICK v : v = <<i, j>>
  OBVIOUS
<1>3. /\ symbol_table = TableOf(B, Open) /\ Holds(B, D, H, Q) /\ Fits(D, E, H, Q, N)
      /\ Noted(D, H, Q, N) /\ Fresh
  BY <1>0, Running
<1>4. /\ i \in Specs /\ i \in Owners /\ v \in AllProperties /\ v[1] = i /\ v[2] = j
      /\ Here.spec = i /\ Here.item = j /\ Here = Visit("property", v[1], v[2])
      /\ PropertyOf(v) = PropertiesOf(i)[j] /\ Q \subseteq AllProperties /\ v \notin Q /\ D = Specs
  <2>1. v \in AllProperties /\ PropertyOf(v) = PropertiesOf(i)[j]
    BY <1>0, <1>2, PropertyPair
  <2>2. Q \subseteq AllProperties /\ v \notin Q /\ D = Specs
    BY <1>0, <1>2, Behind, NotBehind
  <2> QED
    BY <1>1, <1>2, <2>1, <2>2 DEF Visit
<1> DEFINE p == PropertyOf(v)
           types == Resolve(symbol_table, p.type)
           get == PropertySymbol(i, j, GetterKey(v), p.get, The(types))
           set == PropertySymbol(i, j, SetterKey(v), p.set, The(types))
           allowed == types # {} /\ Unbound(GetterKey(v)) /\ Unbound(SetterKey(v))
<1>k. GetterKey(v) = GetKey(SpecName(i), p.name) /\ SetterKey(v) = SetKey(SpecName(i), p.name)
  BY <1>4 DEF GetterKey, SetterKey
<1>a. get.key = GetterKey(v) /\ set.key = SetterKey(v)
  BY DEF PropertySymbol
<1>5. /\ UNCHANGED gen_vars
      /\ \/ ~allowed /\ phase' = "rejected" /\ at' = at
         \/ /\ allowed /\ Onward /\ UNCHANGED phase
            /\ symbol_table' = PutBottom(PutBottom(symbol_table, GetterKey(v), get), SetterKey(v), set)
            /\ symbols' = Bind(symbols, Here, [get |-> get, set |-> set])
  BY <1>4, <1>k, <1>a DEF CheckProperty, Checks
<1>6. /\ HoldsTypes(B) /\ SpecsFit(Specs) /\ p.type \in TypeNodes
  <2>1. HoldsTypes(B)
    BY <1>3, <1>4 DEF Holds, TypesPart, HoldsTypes
  <2> QED
    BY <1>0, <1>3, <1>4, <2>1, PropertyShape DEF Fits
<1>o. Open = i
  <2>1. at.spec # 0 /\ at.item \in 1 .. Last(at.scan, at.spec)
    <3>1. /\ Len(FunctionsOf(i)) \in Nat /\ Len(PropertiesOf(i)) \in Nat
          /\ j \in 1 .. Len(PropertiesOf(i)) /\ i # 0
      BY <1>0, <1>2, <1>4, FunctionSums, Shape
    <3> QED
      BY <1>2, <3>1, LastIs
  <2> QED
    BY <1>2, <2>1 DEF Open
<1>7. types # {} <=> Means(i, p.type)
  BY <1>0, <1>3, <1>4, <1>6, <1>o, ResolveIs DEF ResolvesTo
<1>8. types # {} => The(types).size = SizeOfType(i, p.type)
  <2> SUFFICES ASSUME types # {} PROVE The(types).size = SizeOfType(i, p.type)
    OBVIOUS
  <2>1. PICK s : types = {s}
    <3>1. \E s : ResolvesTo(TableOf(B, i), p.type, s)
      BY <1>0, <1>4, <1>6, <1>7, ResolveIs, Zenon
    <3> QED
      BY <1>3, <1>o, <3>1 DEF ResolvesTo
  <2>2. s.size = SizeOfType(i, p.type)
    BY <1>0, <1>3, <1>4, <1>6, <1>7, <1>o, <2>1, ResolveSize
  <2> QED
    BY <2>1, <2>2, TheOnly
<1>9. types # {} => get = Getter(v) /\ set = Setter(v)
  BY <1>4, <1>8 DEF PropertySymbol, Getter, Setter, Accessor
<1>10. allowed <=> Means(i, p.type) /\ GetterKey(v) \notin DOMAIN B /\ SetterKey(v) \notin DOMAIN B
  BY <1>7 DEF Unbound
<1>11. allowed => get = Getter(v) /\ set = Setter(v)
  BY <1>9
<1> HIDE DEF allowed, get, set
<1>12. CASE ~allowed /\ phase' = "rejected" /\ at' = at
  <2>1. ~PropertiesFit(AllProperties)
    <3>1. CASE ~Means(i, p.type)
      BY <1>4, <3>1 DEF PropertiesFit
    <3>2. CASE GetterKey(v) \in DOMAIN B \/ SetterKey(v) \in DOMAIN B
      <4>1. PICK w \in Q : GetterKey(v) = GetterKey(w) \/ SetterKey(v) = SetterKey(w)
        BY <1>3, <3>2 DEF Holds, PropertiesPart, GetterKey, SetterKey
      <4>2. GetterKey(v) = GetterKey(w)
        BY <4>1, KeysSame DEF GetterKey, SetterKey
      <4> QED
        BY <1>4, <4>1, <4>2 DEF PropertiesFit
    <3> QED
      BY <1>10, <1>12, <3>1, <3>2
  <2> QED
    BY <1>0, <1>1, <1>12, <2>1, Refuse DEF Verified
<1>13. CASE /\ allowed /\ Onward /\ UNCHANGED phase
            /\ symbol_table' = PutBottom(PutBottom(symbol_table, GetterKey(v), get), SetterKey(v), set)
            /\ symbols' = Bind(symbols, Here, [get |-> get, set |-> set])
  <2>1. Made("property")
    BY <1>0, <1>13, CheckMade
  <2>2. /\ AtOK' /\ Open = i /\ Open' = i
        /\ D = Defs' /\ E = Entries' /\ H = Heads' /\ Q \cup {v} = Props' /\ N = Bodies'
    BY <1>0, <2>1, MadeProperty
  <2> DEFINE A == Bind(B, GetterKey(v), Getter(v))  C == Bind(A, SetterKey(v), Setter(v))
  <2>3. Holds(C, D, H, Q \cup {v}) /\ \A w \in Q : GetterKey(w) # GetterKey(v)
    BY <1>3, <1>10, <1>13, BindProperty DEF Holds
  <2>4. Fits(D, E, H, Q \cup {v}, N)
    <3>1. Means(v[1], p.type) /\ PropertiesFit(Q)
      BY <1>3, <1>4, <1>10, <1>13 DEF Fits
    <3>2. PropertiesFit(Q \cup {v})
      BY <2>3, <3>1 DEF PropertiesFit
    <3> QED
      BY <1>3, <3>2 DEF Fits
  <2>5. Noted(D, H, Q \cup {v}, N)'
    <3>1. symbols' = Bind(symbols, Here, [get |-> Getter(v), set |-> Setter(v)])
      BY <1>11, <1>13
    <3> QED
      BY <1>1, <1>3, <1>4, <3>1, NotedProperty
  <2>6. symbol_table' = TableOf(C, i)
    <3>1. symbol_table' = PutBottom(PutBottom(TableOf(B, i), GetterKey(v), Getter(v)), SetterKey(v), Setter(v))
      BY <1>3, <1>11, <1>13, <2>2
    <3> QED
      BY <3>1, TablePut
  <2> HIDE DEF A, C
  <2>7. Checking'
    BY <1>1, <1>3, <1>5, <2>2, <2>3, <2>4, <2>5, <2>6, CheckingNext
  <2> QED
    BY <1>0, <1>1, <1>13, <2>2, <2>7, RunsOn
<1> QED
  BY <1>5, <1>12, <1>13

LEMMA StepBody ==
  ASSUME VerdictInv, CheckBody
  PROVE  VerdictInv'
<1>0. Reaches("check", "body") /\ VerdictInv /\ phase = "check" /\ Typed /\ AtOK
  BY DEF CheckBody, Checks, Reaches, Walking, VerdictInv
<1>1. AtBody /\ program' = program /\ at.spec \in Owners
  BY <1>0, ReachesIs DEF AtVisit
<1>2. at.scan = 3 /\ at.item \in DOMAIN FunctionsOf(at.spec) /\ Here = Visit("body", at.spec, at.item)
  BY <1>0, <1>1 DEF AtBody
<1> PICK i, j, B, D, E, H, Q, N :
      /\ i = at.spec /\ j = at.item /\ B = symbol_table[1]
      /\ D = Defs /\ E = Entries /\ H = Heads /\ Q = Props /\ N = Bodies
  OBVIOUS
<1> PICK v : v = <<i, j>>
  OBVIOUS
<1>3. /\ symbol_table = TableOf(B, Open) /\ Holds(B, D, H, Q) /\ Fits(D, E, H, Q, N)
      /\ Noted(D, H, Q, N) /\ Fresh
  BY <1>0, Running
<1>4. /\ i \in Owners /\ v \in AllHeaders /\ v[1] = i /\ v[2] = j
      /\ Here.spec = i /\ Here.item = j /\ Here = Visit("body", v[1], v[2])
      /\ HeaderOf(v) = FunctionsOf(i)[j] /\ N \subseteq AllHeaders
      /\ D = Specs /\ H = AllHeaders /\ Q = AllProperties /\ Open = i
  <2>1. v \in AllHeaders /\ HeaderOf(v) = FunctionsOf(i)[j]
    BY <1>0, <1>1, <1>2, HeaderPair
  <2>2. N \subseteq AllHeaders /\ D = Specs /\ H = AllHeaders /\ Q = AllProperties
    BY <1>0, <1>2, Behind
  <2>3. Open = i
    BY <1>0, <1>1, <1>2, AtFunction
  <2> QED
    BY <1>1, <1>2, <2>1, <2>2, <2>3 DEF Visit
<1> DEFINE f == HeaderOf(v)
           use == f.uses[1]
           found == {s \in Finds(use) : Accessible(s, use)}
           type == IF use.op = "new" THEN The(Object(use.on)).name ELSE <<>>
           note == IF f.uses = <<>> THEN {} ELSE [found |-> The(found), type |-> type]
           allowed == Params(f) # {} /\ (f.uses = <<>> \/ found # {})
<1>5. /\ UNCHANGED gen_vars
      /\ \/ ~allowed /\ phase' = "rejected" /\ at' = at
         \/ /\ allowed /\ Onward /\ UNCHANGED phase
            /\ symbol_table' = symbol_table /\ symbols' = Bind(symbols, Here, note)
  BY <1>4 DEF CheckBody, Checks
<1>6. /\ f \in FunctionNodes /\ HoldsTypes(B) /\ Ready(B) /\ symbol_table = TableOf(B, i)
  <2>1. HoldsTypes(B)
    BY <1>3, <1>4 DEF Holds, TypesPart, HoldsTypes
  <2>2. Ready(B)
    BY <1>3, <1>4, <2>1 DEF Ready, Holds, Fits
  <2> QED
    BY <1>0, <1>3, <1>4, <2>1, <2>2, HeaderShape
<1>7. Params(f) # {}
  <2>1. HeaderTypes(v)
    BY <1>4, <1>6 DEF Ready, HeadersFit
  <2> QED
    BY <1>0, <1>4, <1>6, <2>1, ParamsAre DEF HeaderTypes
<1>8. f.uses # <<>> => use \in Uses
  BY <1>0, <1>4, OneUseIs
<1>9. ASSUME f.uses # <<>>
      PROVE  /\ found # {} <=> \E item \in Denotes(i, use) : MayUse(i, use, item)
             /\ found # {} => UseNote(i, use, note)
  <2>1. /\ \A s : s \in Finds(use) =>
              s.item \in Denotes(i, use) /\ (Accessible(s, use) <=> MayUse(i, use, s.item))
        /\ \A item : item \in Denotes(i, use) => \E s : s \in Finds(use) /\ s.item = item
    BY <1>0, <1>4, <1>6, <1>8, <1>9, FoundIs
  <2>2. found # {} <=> \E item \in Denotes(i, use) : MayUse(i, use, item)
    BY <2>1
  <2>3. ASSUME found # {} PROVE UseNote(i, use, note)
    <3>1. The(found) \in found
      BY <2>3 DEF The
    <3> PICK s : s = The(found)
      OBVIOUS
    <3>2. s \in Finds(use) /\ s.item \in Denotes(i, use)
      BY <2>1, <3>1
    <3>3. UseNote(i, use, [found |-> s, type |-> type])
      BY <1>0, <1>4, <1>6, <1>8, <1>9, <3>2, NotedIs
    <3> QED
      BY <1>9, <3>3
  <2> QED
    BY <2>2, <2>3
<1>10. allowed <=> FitBody(v)
  BY <1>4, <1>7, <1>9 DEF FitBody
<1>11. allowed /\ f.uses # <<>> => UseNote(i, use, note)
  BY <1>9
<1> HIDE DEF allowed, note
<1>12. CASE ~allowed /\ phase' = "rejected" /\ at' = at
  <2>1. ~BodiesFit(AllHeaders)
    BY <1>4, <1>10, <1>12 DEF BodiesFit
  <2> QED
    BY <1>0, <1>1, <1>12, <2>1, Refuse DEF Verified
<1>13. CASE /\ allowed /\ Onward /\ UNCHANGED phase
            /\ symbol_table' = symbol_table /\ symbols' = Bind(symbols, Here, note)
  <2>1. Made("body")
    BY <1>0, <1>13, CheckMade
  <2>2. /\ AtOK' /\ Open' = i
        /\ D = Defs' /\ E = Entries' /\ H = Heads' /\ Q = Props' /\ N \cup {v} = Bodies'
    BY <1>0, <2>1, MadeBody
  <2>4. Fits(D, E, H, Q, N \cup {v})
    <3>1. BodiesFit(N \cup {v})
      BY <1>3, <1>10, <1>13 DEF Fits, BodiesFit
    <3> QED
      BY <1>3, <3>1 DEF Fits
  <2>5. Noted(D, H, Q, N \cup {v})'
    <3> PICK n : n = note
      OBVIOUS
    <3>1. /\ symbols' = Bind(symbols, Here, n)
          /\ HeaderOf(v).uses # <<>> => UseNote(v[1], HeaderOf(v).uses[1], n)
      BY <1>4, <1>11, <1>13
    <3> QED
      BY <1>1, <1>3, <1>4, <3>1, NotedBody
  <2>6. symbol_table' = TableOf(B, i)
    BY <1>6, <1>13
  <2>7. Checking'
    BY <1>1, <1>3, <1>5, <2>2, <2>4, <2>5, <2>6, CheckingNext
  <2> QED
    BY <1>0, <1>1, <1>13, <2>2, <2>7, RunsOn
<1> QED
  BY <1>5, <1>12, <1>13

LEMMA Stays ==
  ASSUME VerdictInv, Accepted, program' = program, symbols' = symbols, AtOK',
         phase' \in {"generate", "failed", "uncaught", "done"}
  PROVE  VerdictInv'
<1>1. Checked /\ Typed
  BY DEF VerdictInv
<1>2. Verified'
  BY <1>1, FrozenVerified DEF Checked
<1>3. Noted(Specs, AllHeaders, AllProperties, AllHeaders)'
  <2> PICK D, H, Q : D = Specs /\ H = AllHeaders /\ Q = AllProperties
    OBVIOUS
  <2>1. Noted(D, H, Q, H)'
    BY <1>1, NotedStay DEF Checked
  <2>2. D = Specs' /\ H = AllHeaders' /\ Q = AllProperties'
    BY Frozen, FrozenSets
  <2> QED
    BY <2>1, <2>2
<1>4. Typed'
  BY <1>1 DEF Typed
<1> QED
  BY <1>2, <1>3, <1>4 DEF VerdictInv, Checked

LEMMA StepEnd ==
  ASSUME VerdictInv, CheckEnd
  PROVE  VerdictInv'
<1>1. /\ Typed /\ AtOK /\ phase = "check" /\ at.scan >= 4 /\ phase' = "generate"
      /\ at' = Start(1, 0) /\ program' = program /\ symbols' = symbols
  BY DEF VerdictInv, AtOK, CheckEnd, SCAN_IMPL_DEF, SCAN_SPEC_DEF, sem_vars
<1>2. /\ Defs = Specs /\ Entries = Specs /\ Heads = AllHeaders /\ Props = AllProperties
      /\ Bodies = AllHeaders
  BY <1>1, Behind DEF AtOK
<1>3. Verified
  BY <1>1, <1>2, Running DEF Fits, Verified
<1>4. Noted(Specs, AllHeaders, AllProperties, AllHeaders)
  BY <1>1, <1>2, Running
<1>5. AtOK'
  <2>1. at' = [scan |-> 1, spec |-> 0, item |-> 1]
    BY <1>1 DEF Start
  <2>2. Len(program.specs) \in Nat
    BY <1>1, OwnerSet
  <2> QED
    BY <1>1, <2>1, <2>2 DEF AtOK
<1>6. Verified'
  BY <1>1, <1>3, FrozenVerified
<1>7. Noted(Specs, AllHeaders, AllProperties, AllHeaders)'
  <2> PICK D, H, Q : D = Specs /\ H = AllHeaders /\ Q = AllProperties
    OBVIOUS
  <2>1. Noted(D, H, Q, H)'
    BY <1>1, <1>4, NotedStay
  <2>2. D = Specs' /\ H = AllHeaders' /\ Q = AllProperties'
    BY <1>1, Frozen, FrozenSets
  <2> QED
    BY <2>1, <2>2
<1>8. Typed'
  BY <1>1 DEF Typed
<1> QED
  BY <1>1, <1>5, <1>6, <1>7, <1>8 DEF VerdictInv, Checked

LEMMA StepTurn ==
  ASSUME VerdictInv, Turn
  PROVE  VerdictInv'
<1>1. /\ Typed /\ AtOK /\ phase \in {"check", "generate"} /\ phase' = phase
      /\ program' = program /\ UNCHANGED sem_vars /\ UNCHANGED gen_vars
  BY DEF VerdictInv, Turn, Walking
<1>2. /\ AtOK' /\ Open = 0 /\ Open' = 0
      /\ Defs' = Defs /\ Entries' = Entries /\ Heads' = Heads /\ Props' = Props
      /\ Bodies' = Bodies
  BY <1>1, TurnIs
<1>3. CASE phase = "generate"
  <2>1. Accepted
    BY <1>3 DEF Accepted
  <2> QED
    BY <1>1, <1>2, <1>3, <2>1, Stays DEF sem_vars
<1>4. CASE phase = "check"
  <2> PICK B, D, E, H, Q, N :
      /\ B = symbol_table[1]
      /\ D = Defs /\ E = Entries /\ H = Heads /\ Q = Props /\ N = Bodies
    OBVIOUS
  <2>1. /\ symbol_table = TableOf(B, 0) /\ Holds(B, D, H, Q) /\ Fits(D, E, H, Q, N)
        /\ Noted(D, H, Q, N) /\ Fresh
    BY <1>2, <1>4, Running
  <2>2. Noted(D, H, Q, N)'
    BY <1>1, <2>1, NotedStay DEF sem_vars
  <2>3. symbol_table' = TableOf(B, 0)
    BY <1>1, <2>1 DEF sem_vars
  <2>4. Checking'
    BY <1>1, <1>2, <2>1, <2>2, <2>3, CheckingNext
  <2> QED
    BY <1>1, <1>2, <1>4, <2>4, RunsOn
<1> QED
  BY <1>1, <1>3, <1>4

\* A visit of the generator.
LEMMA Generated ==
  ASSUME VerdictInv, NEW op, NEW fate \in {"generate", "failed", "uncaught"}, Generates(op, fate)
  PROVE  /\ Made(op) /\ phase = "generate" /\ phase' = fate /\ AtOK' /\ VerdictInv'
         /\ Typed /\ AtOK /\ Checked /\ UNCHANGED <<program, sem_vars>>
<1>1. Typed /\ AtOK /\ Reaches("generate", op) /\ phase' = fate /\ Onward /\ UNCHANGED sem_vars
  BY DEF VerdictInv, Generates
<1>2. /\ AtVisit(op) /\ phase = "generate" /\ at.spec \in Owners /\ program' = program
      /\ at.item <= Last(at.scan, at.spec)
  BY <1>1, ReachesIs
<1>3. Made(op)
  BY <1>1, <1>2 DEF Made
<1>4. AtOK'
  BY <1>1, <1>3, MadeOnward
<1>5. Accepted /\ Checked
  BY <1>2 DEF Accepted, VerdictInv
<1>6. VerdictInv'
  BY <1>1, <1>2, <1>4, <1>5, Stays DEF sem_vars
<1> QED
  BY <1>1, <1>2, <1>3, <1>4, <1>5, <1>6

LEMMA StepGenerate ==
  ASSUME VerdictInv, Generate
  PROVE  VerdictInv'
<1>1. CASE GenSize
  BY <1>1, Generated DEF GenSize
<1>2. CASE GenSpec
  BY <1>2, Generated DEF GenSpec
<1>3. CASE GenEnter
  BY <1>3, Generated DEF GenEnter
<1>4. CASE GenLeave
  BY <1>4, Generated DEF GenLeave
<1>5. CASE GenHeader
  <2>1. \E fate \in {"generate", "failed", "uncaught"} : Generates("header", fate)
    BY <1>5 DEF GenHeader
  <2> QED
    BY <2>1, Generated
<1>6. CASE GenProperty
  <2>1. \E fate \in {"generate", "failed", "uncaught"} : Generates("property", fate)
    BY <1>6 DEF GenProperty
  <2> QED
    BY <2>1, Generated
<1>7. CASE GenBody
  <2>1. \E fate \in {"generate", "failed", "uncaught"} : Generates("body", fate)
    BY <1>7 DEF GenBody
  <2> QED
    BY <2>1, Generated
<1>8. CASE GenEnd
  <2>1. /\ phase = "generate" /\ phase' = "done" /\ UNCHANGED <<program, at, sem_vars>>
    BY <1>8 DEF GenEnd
  <2>2. Accepted /\ AtOK'
    BY <2>1 DEF Accepted, VerdictInv, AtOK
  <2> QED
    BY <2>1, <2>2, Stays DEF sem_vars
<1> QED
  BY <1>1, <1>2, <1>3, <1>4, <1>5, <1>6, <1>7, <1>8 DEF Generate

LEMMA StepNothing ==
  ASSUME VerdictInv, UNCHANGED vars
  PROVE  VerdictInv'
<1>1. /\ UNCHANGED <<program, phase, at>> /\ UNCHANGED sem_vars /\ UNCHANGED gen_vars
      /\ UNCHANGED <<symbol_table, symbols>> /\ Typed /\ AtOK
  BY DEF vars, sem_vars, gen_vars, VerdictInv
<1>2. Typed' /\ AtOK'
  BY <1>1 DEF Typed, AtOK, Last, FunctionsOf, PropertiesOf
<1>3. CASE phase = "check"
  <2> PICK B, o, D, E, H, Q, N :
      /\ B = symbol_table[1] /\ o = Open
      /\ D = Defs /\ E = Entries /\ H = Heads /\ Q = Props /\ N = Bodies
    OBVIOUS
  <2>1. /\ symbol_table = TableOf(B, o) /\ Holds(B, D, H, Q) /\ Fits(D, E, H, Q, N)
        /\ Noted(D, H, Q, N) /\ Fresh
    BY <1>3, Running
  <2>2. Noted(D, H, Q, N)'
    BY <1>1, <2>1, NotedStay
  <2>3. symbol_table' = TableOf(B, o) /\ o = Open'
    BY <1>1, <2>1 DEF Open, Last, FunctionsOf, PropertiesOf
  <2>4. D = Defs' /\ E = Entries' /\ H = Heads' /\ Q = Props' /\ N = Bodies'
    BY <1>1, FrozenPlaces
  <2>5. Checking'
    BY <1>1, <2>1, <2>2, <2>3, <2>4, CheckingNext
  <2> QED
    BY <1>1, <1>2, <1>3, <2>5, RunsOn
<1>4. CASE Accepted
  BY <1>1, <1>2, <1>4, Stays DEF Accepted
<1>5. CASE phase = "rejected"
  <2>1. ~Verified
    BY <1>5 DEF VerdictInv
  <2> QED
    BY <1>1, <1>5, <2>1, Refuse
<1> QED
  BY <1>3, <1>4, <1>5 DEF VerdictInv, Accepted

LEMMA VerdictStart ==
  ASSUME Init
  PROVE  VerdictInv
<1>1. /\ Typed /\ phase = "check" /\ at = [scan |-> 1, spec |-> 0, item |-> 1] /\ Fresh
      /\ symbols = EmptyScope
  BY DEF Init, Typed, Start, SCAN_SPEC_DEF, Fresh
<1>2. AtOK
  <2>1. Len(program.specs) \in Nat
    BY <1>1, OwnerSet
  <2> QED
    BY <1>1, <2>1 DEF AtOK
<1> DEFINE keys == {TypeKey(s.name) : s \in BUILTIN_TYPES}
           B == [k \in keys |-> CHOOSE s \in BUILTIN_TYPES : TypeKey(s.name) = k]
<1>3. symbol_table = <<B>>
  BY DEF Init
<1>4. /\ \A k : k \in DOMAIN B <=> \E b \in BUILTIN_TYPES : k = TypeKey(b.name)
      /\ \A b \in BUILTIN_TYPES : B[TypeKey(b.name)] = b
  <2>1. \A b, c \in BUILTIN_TYPES : TypeKey(b.name) = TypeKey(c.name) => b = c
    BY Builtin, KeysSame
  <2>2. \A b \in BUILTIN_TYPES : (CHOOSE s \in BUILTIN_TYPES : TypeKey(s.name) = TypeKey(b.name)) = b
    BY <2>1
  <2> QED
    BY <2>2
<1> HIDE DEF B, keys
<1>5. symbol_table[1] = B /\ Open = 0 /\ symbol_table = TableOf(B, 0)
  BY <1>1, <1>3 DEF Open, TableOf
<1>6. /\ Defs = {} /\ Entries = {} /\ Heads = {} /\ Props = {} /\ Bodies = {}
  <2>1. \A i \in Specs : i \in Nat /\ i # 0
    BY <1>1, Shape
  <2> QED
    BY <1>1, <2>1 DEF Defs, Entries, Heads, Props, Bodies, Beyond
<1>7. Holds(B, {}, {}, {})
  <2>1. TypesPart(B, {})
    BY <1>4, KeysApart, KeysSame DEF TypesPart
  <2>2. FunctionsPart(B, {})
    BY <1>4, KeysApart DEF FunctionsPart
  <2>3. PropertiesPart(B, {})
    BY <1>4, KeysApart DEF PropertiesPart
  <2> QED
    BY <2>1, <2>2, <2>3 DEF Holds
<1>8. Fits({}, {}, {}, {}, {})
  BY DEF Fits, SpecsFit, ParamsFit, HeadersFit, PropertiesFit, BodiesFit
<1>9. Noted({}, {}, {}, {})
  BY DEF Noted
<1>10. Checking
  BY <1>1, <1>5, <1>6, <1>7, <1>8, <1>9 DEF Checking
<1> QED
  BY <1>1, <1>2, <1>10 DEF VerdictInv, Accepted

LEMMA VerdictStep ==
  ASSUME VerdictInv, [Next]_vars
  PROVE  VerdictInv'
<1>1. CASE Check
  BY <1>1, StepSpec, StepEnter, StepLeave, StepHeader, StepProperty, StepBody, StepEnd DEF Check
<1> QED
  BY <1>1, StepTurn, StepGenerate, StepNothing DEF Next

LEMMA VerdictIs ==
  ASSUME VerdictInv
  PROVE  VerdictFitsProgram
<1>1. phase = "rejected" => ~WellFormed
  BY WellFormedIff DEF VerdictInv
<1>2. ASSUME Accepted PROVE WellFormed
  BY <1>2, WellFormedIff DEF VerdictInv, Checked
<1>3. ASSUME Accepted, NEW i \in Owners, NEW j \in UsesIn(i)
      PROVE  symbols[Visit("body", i, j)].found.item \in Denotes(i, FunctionsOf(i)[j].uses[1])
  <2> DEFINE v == <<i, j>>
  <2>1. v \in AllHeaders /\ HeaderOf(v) = FunctionsOf(i)[j] /\ HeaderOf(v).uses # <<>>
    BY HeaderPair DEF UsesIn, VerdictInv
  <2>2. BodyNote(v)
    BY <1>3, <2>1 DEF VerdictInv, Checked, Noted
  <2>3. v[1] = i /\ v[2] = j
    OBVIOUS
  <2> HIDE DEF v
  <2> QED
    BY <2>1, <2>2, <2>3 DEF BodyNote, UseNote
<1> QED
  BY <1>1, <1>2, <1>3 DEF VerdictFitsProgram

(* The type checker accepts exactly the programs that mean something, and  *)
(* every use in an accepted program finds what it denotes, whatever the    *)
(* specs, functions and properties and the order they are written in       *)
(* (SemanticAstWalker over AstWalker::WalkModuleChildren).                 *)
THEOREM Judged == Spec => []VerdictFitsProgram
<1>1. Init => VerdictInv
  BY VerdictStart
<1>2. VerdictInv /\ [Next]_vars => VerdictInv'
  BY VerdictStep
<1>3. VerdictInv => VerdictFitsProgram
  BY VerdictIs
<1> QED
  BY <1>1, <1>2, <1>3, PTL DEF Spec

-----------------------------------------------------------------------------
(***************************************************************************)
(* The code generator.  What its tables hold, and how the properties of an *)
(* object are laid out: at the sums of the sizes of those before them.     *)
(***************************************************************************)
SizeAt(i, j) == SizeOfType(i, PropertiesOf(i)[j].type)
\* f[j] is the size of the first j properties of spec i, for every j to n.
SumsTo(i, f, n) ==
  /\ f \in [0 .. n -> Nat] /\ f[0] = 0
  /\ \A m \in 1 .. n : f[m] = f[m - 1] + SizeAt(i, m)
  /\ \A a, b \in 0 .. n : a <= b => f[a] <= f[b]

Frames(R, o) == IF o = 0 THEN <<R>> ELSE <<R, EmptyScope>>
Registers(R, H, Q) ==
  \A k : k \in DOMAIN R <=> \/ \E v \in H : k = HeaderKey(v)
                            \/ \E v \in Q : k = GetterKey(v) \/ k = SetterKey(v)
Objects(T, S) == \A x : x \in DOMAIN T <=> \E k \in S : x = SpecName(k)
NoInstances(N) == \A v \in N : HeaderOf(v).uses # <<>> => ~MakesInstance(v[1], v[2])

LayOut(i, f, T, R, Q) ==
  /\ SumsTo(i, f, Len(PropertiesOf(i)))
  /\ T[SpecName(i)] = f[Len(PropertiesOf(i))]
  /\ \A v \in Q : v[1] = i => R[GetterKey(v)] = f[v[2] - 1] /\ R[SetterKey(v)] = f[v[2] - 1]
\* The second scan has passed the first j properties of spec i.
Passed(i, j) ==
  /\ at.scan = 2 /\ at.spec = i /\ at.item >= 1
  /\ \/ at.item = Len(FunctionsOf(i)) + j + 1
     \/ j = 0 /\ at.item <= Len(FunctionsOf(i))
OffsetIs(i, f) ==
  \A j \in 0 .. Len(PropertiesOf(i)) : Passed(i, j) => property_offset = f[j]
Laid(T, R, Q, S) == \A i \in S : \E f : LayOut(i, f, T, R, Q) /\ OffsetIs(i, f)
\* The first scan is summing the properties of a spec, or is between specs.
Summing == at.spec # 0 /\ at.item <= Len(PropertiesOf(at.spec))
Summed ==
  at.scan = 1 =>
    /\ Summing => \E f : SumsTo(at.spec, f, at.item) /\ compiled_size = f[at.item]
    /\ ~Summing => compiled_size = 0

Generating ==
  /\ register_table = Frames(register_table[1], Open)
  /\ Registers(register_table[1], Heads, Props)
  /\ Objects(type_size_table, Sized)
  /\ NoInstances(Bodies)
  /\ Laid(type_size_table, register_table[1], Props, Sized)
  /\ Summed
GeneratorInv ==
  /\ VerdictInv
  /\ phase # "failed"
  /\ phase = "uncaught" => \E i \in Owners : \E j \in UsesIn(i) : MakesInstance(i, j)
  /\ phase \in {"generate", "done"} => Generating
  /\ phase = "done" => at.scan = 4

LEMMA SizeAtIs == \A i, j : SizeAt(i, j) \in Nat
BY SizesAre DEF SizeAt, SizeOfType

LEMMA SumsStart ==
  ASSUME NEW i
  PROVE  \E f : SumsTo(i, f, 0) /\ f[0] = 0
<1> DEFINE f == [m \in 0 .. 0 |-> 0]
<1>1. f \in [0 .. 0 -> Nat] /\ \A m \in 0 .. 0 : f[m] = 0
  OBVIOUS
<1> HIDE DEF f
<1>2. SumsTo(i, f, 0)
  BY <1>1 DEF SumsTo
<1> QED
  BY <1>1, <1>2

LEMMA SumsMore ==
  ASSUME NEW i, NEW n \in Nat, NEW f, SumsTo(i, f, n)
  PROVE  \E g : SumsTo(i, g, n + 1) /\ g[n + 1] = f[n] + SizeAt(i, n + 1)
<1> DEFINE more == SizeAt(i, n + 1)
           g == [m \in 0 .. (n + 1) |-> IF m = n + 1 THEN f[n] + more ELSE f[m]]
<1>1. more \in Nat
  BY SizeAtIs
<1>2. /\ f \in [0 .. n -> Nat] /\ f[0] = 0
      /\ \A m \in 1 .. n : f[m] = f[m - 1] + SizeAt(i, m)
      /\ \A a, b \in 0 .. n : a <= b => f[a] <= f[b]
  BY DEF SumsTo
<1> HIDE DEF more
<1>3. /\ g \in [0 .. (n + 1) -> Nat] /\ g[n + 1] = f[n] + more
      /\ \A m \in 0 .. n : g[m] = f[m]
  BY <1>1, <1>2
<1> HIDE DEF g
<1>4. g[0] = 0
  BY <1>2, <1>3
<1>5. \A m \in 1 .. (n + 1) : g[m] = g[m - 1] + SizeAt(i, m)
  <2> TAKE m \in 1 .. (n + 1)
  <2>1. CASE m = n + 1
    BY <1>3, <2>1 DEF more
  <2>2. CASE m # n + 1
    <3>1. m \in 1 .. n /\ m \in 0 .. n /\ m - 1 \in 0 .. n
      BY <2>2
    <3> QED
      BY <1>2, <1>3, <3>1
  <2> QED
    BY <2>1, <2>2
<1>6. \A a, b \in 0 .. (n + 1) : a <= b => g[a] <= g[b]
  <2> SUFFICES ASSUME NEW a \in 0 .. (n + 1), NEW b \in 0 .. (n + 1), a <= b PROVE g[a] <= g[b]
    OBVIOUS
  <2>1. CASE b # n + 1
    <3>1. a \in 0 .. n /\ b \in 0 .. n
      BY <2>1
    <3> QED
      BY <1>2, <1>3, <3>1
  <2>2. CASE b = n + 1 /\ a = n + 1
    BY <1>3, <2>2
  <2>3. CASE b = n + 1 /\ a # n + 1
    <3>1. a \in 0 .. n /\ n \in 0 .. n /\ a <= n
      BY <2>3
    <3>2. f[a] <= f[n] /\ f[a] \in Nat /\ f[n] \in Nat /\ g[a] = f[a]
      BY <1>2, <1>3, <3>1
    <3> QED
      BY <1>1, <1>3, <2>3, <3>2
  <2> QED
    BY <2>1, <2>2, <2>3
<1>7. SumsTo(i, g, n + 1) /\ g[n + 1] = f[n] + SizeAt(i, n + 1)
  BY <1>3, <1>4, <1>5, <1>6 DEF SumsTo, more
<1> QED
  BY <1>7

LEMMA FramesFirst ==
  ASSUME NEW R, NEW o
  PROVE  Frames(R, o)[1] = R /\ (o = 0 => Frames(R, o) = <<R>>)
         /\ \A k \in DOMAIN R : IsBound(Frames(R, o), k)
<1>1. CASE o = 0
  <2> DEFINE t == <<R>>
  <2>1. Len(t) = 1 /\ t[1] = R
    OBVIOUS
  <2>2. Frames(R, o) = t
    BY <1>1 DEF Frames
  <2> HIDE DEF t
  <2>3. \A k \in DOMAIN R : IsBound(t, k)
    BY <2>1 DEF IsBound
  <2> QED
    BY <2>1, <2>2, <2>3 DEF t
<1>2. CASE o # 0
  <2> DEFINE S == EmptyScope
  <2> HIDE DEF S
  <2> DEFINE t == <<R, S>>
  <2>1. Len(t) = 2 /\ t[1] = R
    OBVIOUS
  <2>2. Frames(R, o) = t
    BY <1>2 DEF Frames, S
  <2> HIDE DEF t
  <2>3. \A k \in DOMAIN R : IsBound(t, k)
    BY <2>1 DEF IsBound
  <2> QED
    BY <1>2, <2>1, <2>2, <2>3
<1> QED
  BY <1>1, <1>2

LEMMA FramesPut ==
  ASSUME NEW R, NEW o, NEW k, NEW s
  PROVE  PutBottom(Frames(R, o), k, s) = Frames(Bind(R, k, s), o)
<1>1. CASE o = 0
  BY <1>1 DEF Frames, PutBottom
<1>2. CASE o # 0
  BY <1>2 DEF Frames, PutBottom
<1> QED
  BY <1>1, <1>2

LEMMA FramesEnter ==
  ASSUME NEW R, NEW o, o # 0
  PROVE  Push(Frames(R, 0)) = Frames(R, o)
<1> DEFINE S == EmptyScope
<1> HIDE DEF S
<1>1. Frames(R, 0) = <<R>> /\ Frames(R, o) = <<R, S>>
  BY DEF Frames, S
<1>2. Append(<<R>>, S) = <<R, S>>
  BY AppendOne
<1> QED
  BY <1>1, <1>2 DEF S, Push

LEMMA FramesLeave ==
  ASSUME NEW R, NEW o, o # 0
  PROVE  Pop(Frames(R, o)) = Frames(R, 0)
<1> DEFINE S == EmptyScope
<1> HIDE DEF S
<1> DEFINE x == <<R>>  y == <<R, S>>
<1>1. x \in Seq({R, S}) /\ Len(x) = 1 /\ x[1] = R
  OBVIOUS
<1>2. y \in Seq({R, S}) /\ Len(y) = 2 /\ y[1] = R
  OBVIOUS
<1>3. Frames(R, 0) = x /\ Frames(R, o) = y
  BY DEF Frames, S
<1> HIDE DEF x, y
<1>4. Pop(y) \in Seq({R, S}) /\ Len(Pop(y)) = 1 /\ Pop(y)[1] = R
  BY <1>2 DEF Pop
<1>5. \A n \in 1 .. 1 : Pop(y)[n] = x[n]
  BY <1>1, <1>4
<1>6. Pop(y) = x
  BY <1>1, <1>4, <1>5, SeqEqual
<1> QED
  BY <1>3, <1>6

LEMMA FrozenLayOut ==
  ASSUME program' = program, NEW R, NEW H, NEW Q, NEW T, NEW S, NEW N, NEW i, NEW f, NEW n
  PROVE  /\ Registers(R, H, Q)' <=> Registers(R, H, Q)
         /\ Objects(T, S)' <=> Objects(T, S)
         /\ NoInstances(N)' <=> NoInstances(N)
         /\ SumsTo(i, f, n)' <=> SumsTo(i, f, n)
         /\ LayOut(i, f, T, R, Q)' <=> LayOut(i, f, T, R, Q)
<1>1. Registers(R, H, Q)' <=> Registers(R, H, Q)
  BY FrozenSymbols DEF Registers
<1>2. Objects(T, S)' <=> Objects(T, S)
  BY Frozen DEF Objects
<1>3. NoInstances(N)' <=> NoInstances(N)
  BY Frozen, FrozenSymbols DEF NoInstances, MakesInstance
<1>4. \A j : SizeAt(i, j)' = SizeAt(i, j)
  <2> TAKE j
  <2> PICK t : t = PropertiesOf(i)[j].type
    OBVIOUS
  <2>1. t = PropertiesOf(i)'[j].type
    BY Frozen
  <2>2. SizeOfType(i, t)' = SizeOfType(i, t)
    BY FrozenMeanings
  <2> QED
    BY <2>1, <2>2 DEF SizeAt
<1>5. \A m : SumsTo(i, f, m)' <=> SumsTo(i, f, m)
  BY <1>4 DEF SumsTo
<1>6. LayOut(i, f, T, R, Q)' <=> LayOut(i, f, T, R, Q)
  <2> PICK l : l = Len(PropertiesOf(i))
    OBVIOUS
  <2>1. l = Len(PropertiesOf(i))'
    BY Frozen
  <2> QED
    BY <1>5, <2>1, Frozen, FrozenSymbols DEF LayOut
<1> QED
  BY <1>1, <1>2, <1>3, <1>5, <1>6

\* The invariant after a step that leaves these tables.
LEMMA GeneratingNext ==
  ASSUME program' = program, NEW R, NEW o, NEW T, NEW S, NEW H, NEW Q, NEW N,
         o = Open', S = Sized', H = Heads', Q = Props', N = Bodies',
         T = type_size_table', register_table' = Frames(R, o),
         Registers(R, H, Q), Objects(T, S), NoInstances(N),
         \A i \in S : \E f : LayOut(i, f, T, R, Q) /\ OffsetIs(i, f)', Summed'
  PROVE  Generating'
<1>1. register_table'[1] = R
  BY FramesFirst
<1>2. (register_table = Frames(register_table[1], Open))'
  BY <1>1 DEF Frames
<1>3. Registers(register_table[1], Heads, Props)'
  <2>1. Registers(R, H, Q)'
    BY FrozenLayOut
  <2> QED
    BY <1>1, <2>1
<1>4. Objects(type_size_table, Sized)'
  <2>1. Objects(T, S)'
    BY FrozenLayOut
  <2> QED
    BY <2>1
<1>5. NoInstances(Bodies)'
  <2>1. NoInstances(N)'
    BY FrozenLayOut
  <2> QED
    BY <2>1
<1>6. Laid(type_size_table, register_table[1], Props, Sized)'
  <2>1. \A i \in S : \E f : LayOut(i, f, T, R, Q)' /\ OffsetIs(i, f)'
    BY FrozenLayOut
  <2>2. Laid(T, R, Q, S)'
    BY <2>1 DEF Laid
  <2> QED
    BY <1>1, <2>2
<1> QED
  BY <1>2, <1>3, <1>4, <1>5, <1>6 DEF Generating

LEMMA GeneratorRuns ==
  ASSUME GeneratorInv, phase = "generate"
  PROVE  /\ VerdictInv /\ Typed /\ AtOK /\ Verified
         /\ Noted(Specs, AllHeaders, AllProperties, AllHeaders)
         /\ SpecsFit(Specs) /\ HeadersFit(AllHeaders) /\ PropertiesFit(AllProperties)
         /\ register_table = Frames(register_table[1], Open)
         /\ Registers(register_table[1], Heads, Props)
         /\ Objects(type_size_table, Sized)
         /\ NoInstances(Bodies)
         /\ Laid(type_size_table, register_table[1], Props, Sized)
         /\ Summed
BY DEF GeneratorInv, VerdictInv, Accepted, Checked, Verified, Generating

LEMMA GoesOn ==
  ASSUME VerdictInv', phase' = "generate", Generating'
  PROVE  GeneratorInv'
BY DEF GeneratorInv

\* Outside of the second scan, or of a spec, no offset is counted.
LEMMA OffsetIdle ==
  ASSUME NEW i, NEW f, at'.scan # 2 \/ at'.item = 0 \/ at'.spec # i
  PROVE  OffsetIs(i, f)'
<1>1. \A j : ~Passed(i, j)'
  BY DEF Passed
<1> QED
  BY <1>1 DEF OffsetIs

-----------------------------------------------------------------------------
(***************************************************************************)
(* The steps of the code generator.                                        *)
(***************************************************************************)
LEMMA GenerateSize ==
  ASSUME GeneratorInv, GenSize
  PROVE  GeneratorInv'
<1>0. /\ Generates("size", "generate") /\ VerdictInv
      /\ compiled_size' = compiled_size + symbols[Visit("property", Here.spec, Here.item)].get.size
      /\ UNCHANGED <<register_table, type_size_table, property_offset>>
  BY DEF GenSize, GeneratorInv
<1>1. Made("size") /\ phase = "generate" /\ phase' = "generate" /\ VerdictInv' /\ program' = program
      /\ Typed /\ AtOK
  BY <1>0, Generated
<1> PICK i, j, R, T, S, H, Q, N :
      /\ i = at.spec /\ j = at.item /\ R = register_table[1] /\ T = type_size_table
      /\ S = Sized /\ H = Heads /\ Q = Props /\ N = Bodies
  OBVIOUS
<1>2. /\ Open = 0 /\ Open' = 0 /\ i \in Specs /\ at.scan = 1 /\ Here = Visit("size", i, j + 1)
      /\ j + 1 \in DOMAIN PropertiesOf(i) /\ at'.scan = 1 /\ at'.spec = i /\ at'.item = j + 1
      /\ Sized' = S /\ Heads' = H /\ Props' = Q /\ Bodies' = N
  BY <1>1, MadeSize
<1>3. /\ register_table = Frames(R, Open) /\ Registers(R, H, Q) /\ Objects(T, S) /\ NoInstances(N)
      /\ Laid(T, R, Q, S) /\ Summed /\ Noted(Specs, AllHeaders, AllProperties, AllHeaders)
  BY <1>1, GeneratorRuns
<1>4. register_table' = Frames(R, 0) /\ type_size_table' = T
  BY <1>0, <1>2, <1>3
<1>5. \A k \in S : \E f : LayOut(k, f, T, R, Q) /\ OffsetIs(k, f)'
  <2>1. \A k, f : OffsetIs(k, f)'
    BY <1>2, OffsetIdle
  <2> QED
    BY <1>3, <2>1 DEF Laid
<1>6. Summed'
  <2>1. i # 0 /\ i \in Owners /\ j \in Nat /\ j + 1 <= Len(PropertiesOf(i)) /\ Len(PropertiesOf(i)) \in Nat
    BY <1>1, <1>2, Shape, FunctionSums, MadeOnward
  <2>2. Summing
    BY <2>1 DEF Summing
  <2>3. PICK f : SumsTo(i, f, j) /\ compiled_size = f[j]
    BY <1>2, <1>3, <2>2 DEF Summed
  <2>4. symbols[Visit("property", i, j + 1)].get.size = SizeAt(i, j + 1)
    <3> DEFINE v == <<i, j + 1>>
    <3>1. v \in AllProperties /\ PropertyOf(v) = PropertiesOf(i)[j + 1]
      BY <1>1, <1>2, PropertyPair
    <3>2. v[1] = i /\ v[2] = j + 1
      OBVIOUS
    <3> HIDE DEF v
    <3>3. symbols[Visit("property", i, j + 1)] = [get |-> Getter(v), set |-> Setter(v)]
      BY <1>3, <3>1, <3>2 DEF Noted, PropertyNote
    <3> QED
      BY <3>1, <3>2, <3>3 DEF Getter, Accessor, SizeAt
  <2>5. compiled_size' = f[j] + SizeAt(i, j + 1)
    BY <1>0, <1>2, <2>3, <2>4 DEF Visit
  <2>6. PICK g : SumsTo(i, g, j + 1) /\ g[j + 1] = f[j] + SizeAt(i, j + 1)
    BY <2>1, <2>3, SumsMore
  <2>7. SumsTo(i, g, j + 1)'
    BY <1>1, <2>6, FrozenLayOut
  <2>8. Summing'
    BY <1>1, <1>2, <2>1, Frozen DEF Summing
  <2>9. compiled_size' = g[j + 1]
    BY <2>5, <2>6
  <2>10. (\E h : SumsTo(at.spec, h, at.item) /\ compiled_size = h[at.item])'
    BY <1>2, <2>7, <2>9
  <2> QED
    BY <2>8, <2>10 DEF Summed
<1>7. Generating'
  BY <1>1, <1>2, <1>3, <1>4, <1>5, <1>6, GeneratingNext
<1> QED
  BY <1>1, <1>7, GoesOn

LEMMA GenerateSpec ==
  ASSUME GeneratorInv, GenSpec
  PROVE  GeneratorInv'
<1>0. /\ Generates("spec", "generate") /\ VerdictInv
      /\ type_size_table' = IF Symbol.name \in DOMAIN type_size_table THEN type_size_table
                            ELSE Bind(type_size_table, Symbol.name, compiled_size)
      /\ compiled_size' = 0 /\ UNCHANGED register_table
  BY DEF GenSpec, GeneratorInv
<1>1. Made("spec") /\ phase = "generate" /\ phase' = "generate" /\ VerdictInv' /\ program' = program
      /\ Typed /\ AtOK
  BY <1>0, Generated
<1> PICK i, R, T, S, H, Q, N, t :
      /\ i = at.spec /\ R = register_table[1] /\ T = type_size_table
      /\ S = Sized /\ H = Heads /\ Q = Props /\ N = Bodies /\ t = compiled_size
  OBVIOUS
<1>2. /\ Open = 0 /\ Open' = 0 /\ i \in Specs /\ Here = Visit("spec", i, 0)
      /\ Sized' = S \cup {i} /\ Heads' = H /\ Props' = Q /\ Bodies' = N
  BY <1>1, MadeSpec
<1>3. /\ register_table = Frames(R, Open) /\ Registers(R, H, Q) /\ Objects(T, S) /\ NoInstances(N)
      /\ Laid(T, R, Q, S) /\ Summed /\ Noted(Specs, AllHeaders, AllProperties, AllHeaders)
      /\ SpecsFit(Specs)
  BY <1>1, GeneratorRuns
<1>4. /\ at.scan = 1 /\ at.item = Len(PropertiesOf(i)) /\ i # 0 /\ Len(PropertiesOf(i)) \in Nat
      /\ at'.scan = 1 /\ at'.spec = i /\ at'.item = Len(PropertiesOf(i)) + 1
  <2>1. AtSpec
    BY <1>1 DEF Made, AtVisit
  <2>2. i # 0 /\ Len(PropertiesOf(i)) \in Nat
    BY <1>1, <1>2, Shape, FunctionSums DEF Owners
  <2> QED
    BY <1>1, <2>1, <2>2, MadeOnward DEF AtSpec
<1>5. S \subseteq Specs /\ i \notin S /\ Q = {}
  BY <1>4, OwnerSet, <1>1 DEF Sized, Props, Beyond, AtOK
<1>6. Symbol.name = SpecName(i)
  <2>1. symbols[Visit("spec", i, 0)] = SpecSymbol(i)
    BY <1>2, <1>3 DEF Noted, SpecNote
  <2> QED
    BY <1>2, <2>1 DEF Symbol, SpecSymbol
<1>7. SpecName(i) \notin DOMAIN T /\ \A k \in S : SpecName(k) # SpecName(i)
  BY <1>2, <1>3, <1>5 DEF Objects, SpecsFit
<1> DEFINE U == Bind(T, SpecName(i), t)
<1>8. /\ type_size_table' = U
      /\ \A x : x \in DOMAIN U <=> x \in DOMAIN T \/ x = SpecName(i)
      /\ U[SpecName(i)] = t /\ \A x \in DOMAIN T : x # SpecName(i) => U[x] = T[x]
  BY <1>0, <1>6, <1>7, BindIs
<1> HIDE DEF U
<1>9. Objects(U, S \cup {i})
  BY <1>3, <1>8 DEF Objects
<1>10. \A k \in S \cup {i} : \E f : LayOut(k, f, U, R, Q) /\ OffsetIs(k, f)'
  <2>1. \A k, f : OffsetIs(k, f)'
    BY <1>4, OffsetIdle
  <2>2. ASSUME NEW k \in S PROVE \E f : LayOut(k, f, U, R, Q)
    <3>1. PICK f : LayOut(k, f, T, R, Q)
      BY <1>3 DEF Laid
    <3>2. U[SpecName(k)] = T[SpecName(k)]
      BY <1>3, <1>7, <1>8 DEF Objects
    <3>3. LayOut(k, f, U, R, Q)
      BY <3>1, <3>2 DEF LayOut
    <3> QED
      BY <3>3
  <2>3. \E f : LayOut(i, f, U, R, Q)
    <3>1. Summing
      BY <1>4 DEF Summing
    <3>2. PICK f : SumsTo(i, f, Len(PropertiesOf(i))) /\ compiled_size = f[Len(PropertiesOf(i))]
      BY <1>3, <1>4, <3>1 DEF Summed
    <3>3. LayOut(i, f, U, R, Q)
      BY <1>5, <1>8, <3>2 DEF LayOut
    <3> QED
      BY <3>3
  <2> QED
    BY <2>1, <2>2, <2>3
<1>11. Summed'
  <2>1. ~Summing'
    BY <1>1, <1>4, Frozen DEF Summing
  <2> QED
    BY <1>0, <2>1 DEF Summed
<1>12. register_table' = Frames(R, 0)
  BY <1>0, <1>2, <1>3
<1>13. Generating'
  BY <1>1, <1>2, <1>3, <1>8, <1>9, <1>10, <1>11, <1>12, GeneratingNext
<1> QED
  BY <1>1, <1>13, GoesOn

\* In the scans that follow the first, nothing is summed.
LEMMA SummedIdle ==
  ASSUME at'.scan # 1
  PROVE  Summed'
BY DEF Summed

LEMMA GenerateEnter ==
  ASSUME GeneratorInv, GenEnter
  PROVE  GeneratorInv'
<1>0. /\ Generates("enter", "generate") /\ VerdictInv
      /\ register_table' = Push(register_table) /\ property_offset' = 0
      /\ UNCHANGED <<type_size_table, compiled_size>>
  BY DEF GenEnter, GeneratorInv
<1>1. Made("enter") /\ phase = "generate" /\ phase' = "generate" /\ VerdictInv' /\ program' = program
      /\ Typed /\ AtOK
  BY <1>0, Generated
<1> PICK i, R, T, S, H, Q, N :
      /\ i = at.spec /\ R = register_table[1] /\ T = type_size_table
      /\ S = Sized /\ H = Heads /\ Q = Props /\ N = Bodies
  OBVIOUS
<1>2. /\ Open = 0 /\ Open' = i /\ i \in Specs /\ i # 0 /\ at.scan \in {2, 3}
      /\ Sized' = S /\ Heads' = H /\ Props' = Q /\ Bodies' = N
  BY <1>1, MadeEnter, Shape
<1>3. /\ register_table = Frames(R, Open) /\ Registers(R, H, Q) /\ Objects(T, S) /\ NoInstances(N)
      /\ Laid(T, R, Q, S)
  BY <1>1, GeneratorRuns
<1>4. at'.scan = at.scan /\ at'.spec = i /\ at'.item = 1
  <2>1. at.item = 0
    BY <1>1 DEF Made, AtVisit, AtEnter
  <2> QED
    BY <1>1, <2>1, MadeOnward
<1>5. \A k \in S : \E f : LayOut(k, f, T, R, Q) /\ OffsetIs(k, f)'
  <2> TAKE k \in S
  <2>1. PICK f : LayOut(k, f, T, R, Q)
    BY <1>3 DEF Laid
  <2>2. f[0] = 0
    BY <2>1 DEF LayOut, SumsTo
  <2>3. ASSUME NEW j \in 0 .. Len(PropertiesOf(k))', Passed(k, j)' PROVE property_offset' = f[j]
    <3>1. /\ k = i /\ j \in Int /\ j >= 0
          /\ \/ 1 = Len(FunctionsOf(k)) + j + 1
             \/ j = 0
      BY <1>1, <1>4, <2>3, Frozen DEF Passed
    <3>2. Len(FunctionsOf(k)) \in Nat
      BY <1>1, <1>2, <3>1, FunctionSums DEF Owners
    <3>3. j = 0
      BY <3>1, <3>2
    <3> QED
      BY <1>0, <2>2, <3>3
  <2>4. OffsetIs(k, f)'
    BY <2>3 DEF OffsetIs
  <2> QED
    BY <2>1, <2>4
<1>6. register_table' = Frames(R, i) /\ type_size_table' = T
  BY <1>0, <1>2, <1>3, FramesEnter
<1>7. Summed'
  BY <1>2, <1>4, SummedIdle
<1>8. Generating'
  BY <1>1, <1>2, <1>3, <1>5, <1>6, <1>7, GeneratingNext
<1> QED
  BY <1>1, <1>8, GoesOn

LEMMA GenerateLeave ==
  ASSUME GeneratorInv, GenLeave
  PROVE  GeneratorInv'
<1>0. /\ Generates("leave", "generate") /\ VerdictInv
      /\ register_table' = Pop(register_table)
      /\ UNCHANGED <<type_size_table, property_offset, compiled_size>>
  BY DEF GenLeave, GeneratorInv
<1>1. Made("leave") /\ phase = "generate" /\ phase' = "generate" /\ VerdictInv' /\ program' = program
      /\ Typed /\ AtOK
  BY <1>0, Generated
<1> PICK i, R, T, S, H, Q, N :
      /\ i = at.spec /\ R = register_table[1] /\ T = type_size_table
      /\ S = Sized /\ H = Heads /\ Q = Props /\ N = Bodies
  OBVIOUS
<1>2. /\ Open = i /\ Open' = 0 /\ i \in Specs /\ i # 0
      /\ Sized' = S /\ Heads' = H /\ Props' = Q /\ Bodies' = N
  BY <1>1, MadeLeave, Shape DEF Unmoved
<1>3. /\ register_table = Frames(R, Open) /\ Registers(R, H, Q) /\ Objects(T, S) /\ NoInstances(N)
      /\ Laid(T, R, Q, S)
  BY <1>1, GeneratorRuns
<1>4. /\ at'.scan = at.scan /\ at'.spec = i /\ at'.item = at.item + 1
      /\ at.scan \in {2, 3} /\ at.item = Last(at.scan, i)
  BY <1>1, MadeOnward DEF Made, AtVisit, AtLeave
<1>5. \A k \in S : \E f : LayOut(k, f, T, R, Q) /\ OffsetIs(k, f)'
  <2> TAKE k \in S
  <2>1. PICK f : LayOut(k, f, T, R, Q)
    BY <1>3 DEF Laid
  <2>2. ASSUME NEW j \in 0 .. Len(PropertiesOf(k))', Passed(k, j)' PROVE FALSE
    <3>1. /\ k = i /\ at.scan = 2 /\ j \in 0 .. Len(PropertiesOf(k))
          /\ \/ at.item + 1 = Len(FunctionsOf(k)) + j + 1
             \/ at.item + 1 <= Len(FunctionsOf(k))
      BY <1>1, <1>4, <2>2, Frozen DEF Passed
    <3>2. Len(FunctionsOf(k)) \in Nat /\ Len(PropertiesOf(k)) \in Nat
      BY <1>1, <1>2, <3>1, FunctionSums DEF Owners
    <3>3. at.item = Len(FunctionsOf(k)) + Len(PropertiesOf(k)) + 1
      BY <1>2, <1>4, <3>1, LastIs
    <3> QED
      BY <3>1, <3>2, <3>3
  <2>3. OffsetIs(k, f)'
    BY <2>2 DEF OffsetIs
  <2> QED
    BY <2>1, <2>3
<1>6. register_table' = Frames(R, 0) /\ type_size_table' = T
  BY <1>0, <1>2, <1>3, FramesLeave
<1>7. Summed'
  BY <1>4, SummedIdle
<1>8. Generating'
  BY <1>1, <1>2, <1>3, <1>5, <1>6, <1>7, GeneratingNext
<1> QED
  BY <1>1, <1>8, GoesOn

LEMMA GenerateHeader ==
  ASSUME GeneratorInv, GenHeader
  PROVE  GeneratorInv'
<1> DEFINE new == Symbol.key \notin DOMAIN register_table[1]
<1>0. /\ Generates("header", IF new THEN "generate" ELSE "failed") /\ VerdictInv
      /\ register_table' = IF new THEN PutBottom(register_table, Symbol.key, 0) ELSE register_table
      /\ UNCHANGED <<type_size_table, property_offset, compiled_size>>
  BY DEF GenHeader, GeneratorInv
<1> HIDE DEF new
<1>1. /\ Made("header") /\ phase = "generate" /\ phase' = (IF new THEN "generate" ELSE "failed")
      /\ VerdictInv' /\ program' = program /\ Typed /\ AtOK
  <2>1. (IF new THEN "generate" ELSE "failed") \in {"generate", "failed", "uncaught"}
    OBVIOUS
  <2> QED
    BY <1>0, <2>1, Generated
<1> PICK i, j, R, T, S, H, Q, N :
      /\ i = at.spec /\ j = at.item /\ R = register_table[1] /\ T = type_size_table
      /\ S = Sized /\ H = Heads /\ Q = Props /\ N = Bodies
  OBVIOUS
<1> PICK v : v = <<i, j>>
  OBVIOUS
<1>2. /\ Open = i /\ Open' = i /\ Here = Visit("header", i, j) /\ v \in AllHeaders /\ at.scan = 2
      /\ Sized' = S /\ Heads' = H \cup {v} /\ Props' = Q /\ Bodies' = N
  BY <1>1, MadeHeader
<1>3. /\ register_table = Frames(R, Open) /\ Registers(R, H, Q) /\ Objects(T, S) /\ NoInstances(N)
      /\ Laid(T, R, Q, S) /\ Noted(Specs, AllHeaders, AllProperties, AllHeaders)
      /\ HeadersFit(AllHeaders)
  BY <1>1, GeneratorRuns
<1>4. /\ at'.scan = at.scan /\ at'.spec = i /\ at'.item = j + 1 /\ j \in Nat
      /\ i \in Owners /\ j \in DOMAIN FunctionsOf(i) /\ v[1] = i /\ v[2] = j
  BY <1>1, MadeOnward DEF Made, AtVisit, AtHeader
<1>5. H \subseteq AllHeaders /\ v \notin H /\ S \subseteq Specs
  BY <1>1, <1>2, Behind, NotBehind
<1>6. Symbol.key = HeaderKey(v)
  <2>1. symbols[Visit("header", i, j)] = HeaderSymbol(v)
    BY <1>2, <1>3, <1>4 DEF Noted, HeaderNote
  <2> QED
    BY <1>2, <2>1 DEF Symbol, HeaderSymbol, FunctionSymbol
<1>7. HeaderKey(v) \notin DOMAIN R
  <2>1. \A w \in H : HeaderKey(w) # HeaderKey(v)
    BY <1>2, <1>3, <1>5 DEF HeadersFit
  <2>2. \A w : HeaderKey(v) # GetterKey(w) /\ HeaderKey(v) # SetterKey(w)
    BY KeysApart DEF HeaderKey, GetterKey, SetterKey
  <2> QED
    BY <1>3, <2>1, <2>2 DEF Registers
<1>8. new
  BY <1>6, <1>7 DEF new
<1> DEFINE C == Bind(R, HeaderKey(v), 0)
<1>9. /\ register_table' = Frames(C, i) /\ type_size_table' = T /\ phase' = "generate"
      /\ property_offset' = property_offset
  BY <1>0, <1>1, <1>2, <1>3, <1>6, <1>8, FramesPut
<1>10. /\ \A x : x \in DOMAIN C <=> x \in DOMAIN R \/ x = HeaderKey(v)
       /\ \A x \in DOMAIN R : x # HeaderKey(v) => C[x] = R[x]
  BY BindIs
<1> HIDE DEF C
<1>11. Registers(C, H \cup {v}, Q)
  BY <1>3, <1>10 DEF Registers
<1>12. \A k \in S : \E f : LayOut(k, f, T, C, Q) /\ OffsetIs(k, f)'
  <2> TAKE k \in S
  <2>1. PICK f : LayOut(k, f, T, R, Q) /\ OffsetIs(k, f)
    BY <1>3 DEF Laid
  <2>2. \A w \in Q : /\ GetterKey(w) \in DOMAIN R /\ SetterKey(w) \in DOMAIN R
    BY <1>3 DEF Registers
  <2>3. \A w \in Q : C[GetterKey(w)] = R[GetterKey(w)] /\ C[SetterKey(w)] = R[SetterKey(w)]
    BY <1>7, <1>10, <2>2
  <2>4. LayOut(k, f, T, C, Q)
    BY <2>1, <2>3 DEF LayOut
  <2>5. ASSUME NEW l \in 0 .. Len(PropertiesOf(k))', Passed(k, l)' PROVE property_offset' = f[l]
    <3>1. /\ k = i /\ l \in 0 .. Len(PropertiesOf(k))
          /\ \/ j + 1 = Len(FunctionsOf(k)) + l + 1
             \/ l = 0 /\ j + 1 <= Len(FunctionsOf(k))
      BY <1>1, <1>4, <2>5, Frozen DEF Passed
    <3>2. j \in 1 .. Len(FunctionsOf(k)) /\ Len(FunctionsOf(k)) \in Nat
      BY <1>1, <1>4, <3>1, FunctionSums
    <3>3. l = 0 /\ j >= 1 /\ j <= Len(FunctionsOf(k))
      BY <3>1, <3>2
    <3>4. Passed(k, l)
      BY <1>2, <3>1, <3>3 DEF Passed
    <3>5. property_offset = f[l]
      BY <2>1, <3>1, <3>4 DEF OffsetIs
    <3> QED
      BY <1>9, <3>5
  <2>6. OffsetIs(k, f)'
    BY <2>5 DEF OffsetIs
  <2> QED
    BY <2>4, <2>6
<1>13. Summed'
  BY <1>2, <1>4, SummedIdle
<1>14. Generating'
  BY <1>1, <1>2, <1>3, <1>9, <1>11, <1>12, <1>13, GeneratingNext
<1> QED
  BY <1>1, <1>9, <1>14, GoesOn

LEMMA GenerateProperty ==
  ASSUME GeneratorInv, GenProperty
  PROVE  GeneratorInv'
<1> DEFINE get == Symbol.get.key  set == Symbol.set.key
           new == {get, set} \cap DOMAIN register_table[1] = {}
<1>0. /\ Generates("property", IF new THEN "generate" ELSE "failed") /\ VerdictInv
      /\ register_table' =
           IF new THEN PutBottom(PutBottom(register_table, get, property_offset), set, property_offset)
           ELSE register_table
      /\ property_offset' = property_offset + Symbol.get.size
      /\ UNCHANGED <<type_size_table, compiled_size>>
  BY DEF GenProperty, GeneratorInv
<1> HIDE DEF new, get, set
<1>1. /\ Made("property") /\ phase = "generate" /\ phase' = (IF new THEN "generate" ELSE "failed")
      /\ VerdictInv' /\ program' = program /\ Typed /\ AtOK
  <2>1. (IF new THEN "generate" ELSE "failed") \in {"generate", "failed", "uncaught"}
    OBVIOUS
  <2> QED
    BY <1>0, <2>1, Generated
<1> PICK i, j, R, T, S, H, Q, N, off :
      /\ i = at.spec /\ j = Property /\ R = register_table[1] /\ T = type_size_table
      /\ S = Sized /\ H = Heads /\ Q = Props /\ N = Bodies /\ off = property_offset
  OBVIOUS
<1> PICK v : v = <<i, j>>
  OBVIOUS
<1>2. /\ Open = i /\ Open' = i /\ Here = Visit("property", i, j) /\ v \in AllProperties
      /\ at.scan = 2 /\ i \in Specs /\ j \in DOMAIN PropertiesOf(i)
      /\ Sized' = S /\ Heads' = H /\ Props' = Q \cup {v} /\ Bodies' = N
  BY <1>1, MadeProperty
<1>3. /\ register_table = Frames(R, Open) /\ Registers(R, H, Q) /\ Objects(T, S) /\ NoInstances(N)
      /\ Laid(T, R, Q, S) /\ Noted(Specs, AllHeaders, AllProperties, AllHeaders)
      /\ PropertiesFit(AllProperties)
  BY <1>1, GeneratorRuns
<1>4. /\ at'.scan = at.scan /\ at'.spec = i /\ at'.item = at.item + 1
      /\ at.item = Len(FunctionsOf(i)) + j /\ v[1] = i /\ v[2] = j
  BY <1>1, MadeOnward DEF Made, AtVisit, AtProperty
<1>l. /\ Len(FunctionsOf(i)) \in Nat /\ Len(PropertiesOf(i)) \in Nat
      /\ j \in 1 .. Len(PropertiesOf(i)) /\ j - 1 \in 0 .. Len(PropertiesOf(i))
  <2>1. /\ Len(FunctionsOf(i)) \in Nat /\ Len(PropertiesOf(i)) \in Nat
        /\ j \in 1 .. Len(PropertiesOf(i))
    BY <1>1, <1>2, FunctionSums DEF Owners
  <2> QED
    BY <2>1
<1>5. Q \subseteq AllProperties /\ v \notin Q /\ S = Specs
  BY <1>1, <1>2, Behind, NotBehind DEF AtOK
<1>6. get = GetterKey(v) /\ set = SetterKey(v) /\ Symbol.get.size = SizeAt(i, j)
  <2>1. symbols[Visit("property", i, j)] = [get |-> Getter(v), set |-> Setter(v)]
    BY <1>2, <1>3, <1>4 DEF Noted, PropertyNote
  <2>2. PropertyOf(v) = PropertiesOf(i)[j]
    BY <1>4 DEF PropertyOf
  <2> QED
    BY <1>2, <1>4, <2>1, <2>2 DEF Symbol, Getter, Setter, Accessor, SizeAt, get, set
<1>7. /\ GetterKey(v) \notin DOMAIN R /\ SetterKey(v) \notin DOMAIN R
      /\ \A w \in Q : GetterKey(w) # GetterKey(v) /\ SetterKey(w) # SetterKey(v)
  <2>1. \A w \in Q : GetterKey(w) # GetterKey(v)
    BY <1>2, <1>3, <1>5 DEF PropertiesFit
  <2>2. \A w : GetterKey(w) = GetterKey(v) <=> SetterKey(w) = SetterKey(v)
    BY KeysSame DEF GetterKey, SetterKey
  <2>3. \A w : /\ HeaderKey(w) # GetterKey(v) /\ HeaderKey(w) # SetterKey(v)
               /\ GetterKey(w) # SetterKey(v) /\ SetterKey(w) # GetterKey(v)
    BY KeysApart DEF HeaderKey, GetterKey, SetterKey
  <2> QED
    BY <1>3, <2>1, <2>2, <2>3 DEF Registers
<1>8. new
  BY <1>6, <1>7 DEF new
<1> DEFINE A == Bind(R, GetterKey(v), off)  C == Bind(A, SetterKey(v), off)
<1>9. /\ register_table' = Frames(C, i) /\ type_size_table' = T /\ phase' = "generate"
      /\ property_offset' = off + SizeAt(i, j)
  BY <1>0, <1>1, <1>2, <1>3, <1>6, <1>8, FramesPut
<1>10. /\ \A x : x \in DOMAIN C <=> x \in DOMAIN R \/ x = GetterKey(v) \/ x = SetterKey(v)
       /\ \A x \in DOMAIN R : x # GetterKey(v) /\ x # SetterKey(v) => C[x] = R[x]
       /\ C[GetterKey(v)] = off /\ C[SetterKey(v)] = off
  <2>1. /\ \A x : x \in DOMAIN A <=> x \in DOMAIN R \/ x = GetterKey(v)
        /\ A[GetterKey(v)] = off
        /\ \A x \in DOMAIN R : x # GetterKey(v) => A[x] = R[x]
    BY BindIs
  <2>2. /\ \A x : x \in DOMAIN C <=> x \in DOMAIN A \/ x = SetterKey(v)
        /\ C[SetterKey(v)] = off
        /\ \A x \in DOMAIN A : x # SetterKey(v) => C[x] = A[x]
    BY BindIs
  <2>3. GetterKey(v) # SetterKey(v)
    BY KeysApart DEF GetterKey, SetterKey
  <2> HIDE DEF A, C
  <2> QED
    BY <2>1, <2>2, <2>3
<1> HIDE DEF C, A
<1>11. Registers(C, H, Q \cup {v})
  BY <1>3, <1>10 DEF Registers
<1>12. \A k \in S : \E f : LayOut(k, f, T, C, Q \cup {v}) /\ OffsetIs(k, f)'
  <2> TAKE k \in S
  <2>1. PICK f : LayOut(k, f, T, R, Q) /\ OffsetIs(k, f)
    BY <1>3 DEF Laid
  <2>2. \A w \in Q : /\ GetterKey(w) \in DOMAIN R /\ SetterKey(w) \in DOMAIN R
    BY <1>3 DEF Registers
  <2>3. \A w \in Q : C[GetterKey(w)] = R[GetterKey(w)] /\ C[SetterKey(w)] = R[SetterKey(w)]
    BY <1>7, <1>10, <2>2
  <2>4. k = i => off = f[j - 1]
    <3> SUFFICES ASSUME k = i PROVE off = f[j - 1]
      OBVIOUS
    <3>1. at.item >= 1 /\ at.item = Len(FunctionsOf(i)) + (j - 1) + 1
      BY <1>4, <1>l
    <3>2. Passed(i, j - 1)
      BY <1>2, <3>1 DEF Passed
    <3> QED
      BY <1>l, <2>1, <3>2 DEF OffsetIs
  <2>5. LayOut(k, f, T, C, Q \cup {v})
    BY <1>4, <1>10, <2>1, <2>3, <2>4 DEF LayOut
  <2>6. ASSUME NEW l \in 0 .. Len(PropertiesOf(k))', Passed(k, l)' PROVE property_offset' = f[l]
    <3>1. /\ k = i /\ l \in 0 .. Len(PropertiesOf(k))
          /\ \/ at.item + 1 = Len(FunctionsOf(k)) + l + 1
             \/ at.item + 1 <= Len(FunctionsOf(k))
      BY <1>1, <1>4, <2>6, Frozen DEF Passed
    <3>2. l = j
      BY <1>4, <1>l, <3>1
    <3>3. f[j] = f[j - 1] + SizeAt(i, j)
      BY <1>l, <2>1, <3>1 DEF LayOut, SumsTo
    <3> QED
      BY <1>9, <2>4, <3>1, <3>2, <3>3
  <2>7. OffsetIs(k, f)'
    BY <2>6 DEF OffsetIs
  <2> QED
    BY <2>5, <2>7
<1>13. Summed'
  BY <1>2, <1>4, SummedIdle
<1>14. Generating'
  BY <1>1, <1>2, <1>3, <1>9, <1>11, <1>12, <1>13, GeneratingNext
<1> QED
  BY <1>1, <1>9, <1>14, GoesOn

\* What the generator does of the use in function v.
LEMMA UseGenerated ==
  ASSUME GeneratorInv, phase = "generate", at.scan = 3, NEW v \in AllHeaders,
         HeaderOf(v).uses # <<>>, NEW note, note = symbols[Visit("body", v[1], v[2])]
  PROVE  /\ IsBound(register_table, note.found.key)
         /\ HeaderOf(v).uses[1].op = "new" =>
              (note.type \notin DOMAIN type_size_table <=> MakesInstance(v[1], v[2]))
         /\ v[1] \in Owners /\ v[2] \in UsesIn(v[1])
         /\ HeaderOf(v).uses[1].op # "new" => ~MakesInstance(v[1], v[2])
<1> DEFINE use == HeaderOf(v).uses[1]
<1>1. /\ Typed /\ AtOK /\ Registers(register_table[1], Heads, Props)
      /\ register_table = Frames(register_table[1], Open) /\ Objects(type_size_table, Sized)
      /\ Noted(Specs, AllHeaders, AllProperties, AllHeaders)
  BY GeneratorRuns
<1>2. Heads = AllHeaders /\ Props = AllProperties /\ Sized = Specs
  BY <1>1, Behind
<1>3. UseNote(v[1], use, note)
  BY <1>1 DEF Noted, BodyNote
<1>4. note.found.key \in DOMAIN register_table[1]
  BY <1>1, <1>2, <1>3 DEF UseNote, KnownKey, Registers
<1>5. IsBound(register_table, note.found.key)
  BY <1>1, <1>4, FramesFirst
<1>6. v[1] \in Owners /\ v[2] \in UsesIn(v[1]) /\ HeaderOf(v) = FunctionsOf(v[1])[v[2]]
  BY <1>1, HeaderShape DEF UsesIn, HeaderOf
<1>7. MakesInstance(v[1], v[2]) <=> use.op = "new" /\ use.on.args # <<>>
  BY <1>6 DEF MakesInstance
<1>8. ASSUME use.op = "new" PROVE note.type \notin DOMAIN type_size_table <=> use.on.args # <<>>
  <2>1. /\ note.type = TypeName(use.on)
        /\ use.on.args = <<>> => \E k \in Specs : note.type = SpecName(k)
    BY <1>3, <1>8 DEF UseNote
  <2>2. note.type \in DOMAIN type_size_table <=> \E k \in Specs : note.type = SpecName(k)
    BY <1>1, <1>2 DEF Objects
  <2>3. use.on.args # <<>> => \A k \in Specs : SpecName(k) # TypeName(use.on)
    BY <1>1, SpecNames DEF TypeName
  <2> HIDE DEF use
  <2> QED
    BY <2>1, <2>2, <2>3
<1> QED
  BY <1>5, <1>6, <1>7, <1>8

LEMMA GenerateBody ==
  ASSUME GeneratorInv, GenBody
  PROVE  GeneratorInv'
<1> DEFINE uses == FunctionsOf(Here.spec)[Here.item].uses
           fate == IF uses = <<>> THEN "generate"
                   ELSE IF uses[1].op = "new" /\ Symbol.type \notin DOMAIN type_size_table
                   THEN "uncaught"
                   ELSE IF ~IsBound(register_table, Symbol.found.key) THEN "failed"
                   ELSE "generate"
<1>0. Generates("body", fate) /\ VerdictInv /\ UNCHANGED gen_vars
  BY DEF GenBody, GeneratorInv
<1>f. fate \in {"generate", "failed", "uncaught"}
  OBVIOUS
<1> HIDE DEF fate
<1>1. Made("body") /\ phase = "generate" /\ phase' = fate /\ VerdictInv' /\ program' = program
      /\ Typed /\ AtOK
  BY <1>0, <1>f, Generated
<1> PICK i, j, R, T, S, H, Q, N :
      /\ i = at.spec /\ j = at.item /\ R = register_table[1] /\ T = type_size_table
      /\ S = Sized /\ H = Heads /\ Q = Props /\ N = Bodies
  OBVIOUS
<1> PICK v : v = <<i, j>>
  OBVIOUS
<1>2. /\ Open = i /\ Open' = i /\ Here = Visit("body", i, j) /\ v \in AllHeaders /\ at.scan = 3
      /\ Sized' = S /\ Heads' = H /\ Props' = Q /\ Bodies' = N \cup {v}
  BY <1>1, MadeBody
<1>3. /\ register_table = Frames(R, Open) /\ Registers(R, H, Q) /\ Objects(T, S) /\ NoInstances(N)
      /\ Laid(T, R, Q, S)
  BY <1>1, GeneratorRuns
<1>4. at'.scan = 3 /\ v[1] = i /\ v[2] = j
  BY <1>1, <1>2, MadeOnward
<1>5. uses = HeaderOf(v).uses
  BY <1>2, <1>4 DEF HeaderOf, Visit
<1>6. HeaderOf(v).uses # <<>> =>
        /\ IsBound(register_table, Symbol.found.key)
        /\ HeaderOf(v).uses[1].op = "new" =>
             (Symbol.type \notin DOMAIN type_size_table <=> MakesInstance(i, j))
        /\ i \in Owners /\ j \in UsesIn(i)
        /\ HeaderOf(v).uses[1].op # "new" => ~MakesInstance(i, j)
  BY <1>1, <1>2, <1>4, UseGenerated DEF Symbol
<1>7. /\ fate \in {"generate", "uncaught"}
      /\ fate = "uncaught" => i \in Owners /\ j \in UsesIn(i) /\ MakesInstance(i, j)
      /\ fate = "generate" => HeaderOf(v).uses = <<>> \/ ~MakesInstance(i, j)
  <2>1. CASE HeaderOf(v).uses = <<>>
    BY <1>5, <2>1 DEF fate
  <2>2. CASE HeaderOf(v).uses # <<>>
    BY <1>5, <1>6, <2>2 DEF fate
  <2> QED
    BY <2>1, <2>2
<1>8. CASE fate = "uncaught"
  <2>1. (\E k \in Owners : \E l \in UsesIn(k) : MakesInstance(k, l))'
    <3>1. \A k, l : MakesInstance(k, l)' <=> MakesInstance(k, l)
      BY <1>1, Frozen DEF MakesInstance
    <3>2. Owners' = Owners /\ \A k : UsesIn(k)' = UsesIn(k)
      BY <1>1, Frozen DEF UsesIn
    <3> QED
      BY <1>7, <1>8, <3>1, <3>2
  <2> QED
    BY <1>1, <1>8, <2>1 DEF GeneratorInv
<1>9. CASE fate = "generate"
  <2>1. NoInstances(N \cup {v})
    BY <1>3, <1>4, <1>7, <1>9 DEF NoInstances
  <2>2. \A k \in S : \E f : LayOut(k, f, T, R, Q) /\ OffsetIs(k, f)'
    <3>1. \A k, f : OffsetIs(k, f)'
      BY <1>4, OffsetIdle
    <3> QED
      BY <1>3, <3>1 DEF Laid
  <2>3. register_table' = Frames(R, i) /\ type_size_table' = T
    BY <1>0, <1>2, <1>3 DEF gen_vars
  <2>4. Summed'
    BY <1>4, SummedIdle
  <2>5. Generating'
    BY <1>1, <1>2, <1>3, <2>1, <2>2, <2>3, <2>4, GeneratingNext
  <2> QED
    BY <1>1, <1>9, <2>5, GoesOn
<1> QED
  BY <1>7, <1>8, <1>9

LEMMA GenerateTurn ==
  ASSUME GeneratorInv, Turn, phase = "generate"
  PROVE  GeneratorInv'
<1>1. /\ Typed /\ AtOK /\ phase' = "generate" /\ program' = program /\ UNCHANGED gen_vars
      /\ VerdictInv' /\ at.item > Last(at.scan, at.spec) /\ at' = NextBlock(at.scan, at.spec)
  BY GeneratorRuns, StepTurn DEF Turn
<1> PICK R, T, S, H, Q, N :
      /\ R = register_table[1] /\ T = type_size_table
      /\ S = Sized /\ H = Heads /\ Q = Props /\ N = Bodies
  OBVIOUS
<1>2. /\ Open = 0 /\ Open' = 0
      /\ Sized' = S /\ Heads' = H /\ Props' = Q /\ Bodies' = N
  BY <1>1, TurnIs
<1>3. /\ register_table = Frames(R, Open) /\ Registers(R, H, Q) /\ Objects(T, S) /\ NoInstances(N)
      /\ Laid(T, R, Q, S) /\ Summed
  BY GeneratorRuns
<1>4. /\ \/ at'.scan = at.scan /\ at'.spec = at.spec + 1 /\ at'.item = 0
         \/ at'.scan = at.scan + 1 /\ at'.spec = 0
      /\ at.scan \in Nat /\ at.scan >= 1 /\ at.spec \in Nat /\ at.spec \in Owners /\ at.item \in Nat
  <2>1. at.scan \in Nat /\ at.scan >= 1 /\ at.spec \in Nat /\ at.spec \in Owners /\ at.item \in Nat
    BY <1>1, OwnerSet DEF AtOK
  <2> QED
    BY <1>1, <2>1 DEF NextBlock, Start
<1>5. \A k \in S : \E f : LayOut(k, f, T, R, Q) /\ OffsetIs(k, f)'
  <2>1. \A k \in S : k # 0
    BY <1>1, Shape DEF Sized
  <2>2. \A k \in S : \A f : OffsetIs(k, f)'
    BY <1>4, <2>1, OffsetIdle
  <2> QED
    BY <1>3, <2>2 DEF Laid
<1>6. Summed'
  <2>1. CASE at'.scan = 1
    <3>1. at.scan = 1 /\ at'.spec = at.spec + 1 /\ at'.item = 0
      BY <1>4, <2>1
    <3>2. ~Summing
      <4>1. Len(PropertiesOf(at.spec)) \in Nat
        BY <1>1, <1>4, FunctionSums
      <4>2. at.item > Len(PropertiesOf(at.spec))
        <5>1. Last(1, at.spec) = Len(PropertiesOf(at.spec))
          BY LastIs
        <5> QED
          BY <1>1, <3>1, <5>1
      <4> QED
        BY <1>4, <4>1, <4>2 DEF Summing
    <3>3. compiled_size' = 0
      BY <1>1, <1>3, <3>1, <3>2 DEF Summed, gen_vars
    <3> PICK k : k = at'.spec
      OBVIOUS
    <3>4. PICK f : SumsTo(k, f, 0) /\ f[0] = 0
      BY SumsStart
    <3>5. SumsTo(k, f, 0)'
      BY <1>1, <3>4, FrozenLayOut
    <3>6. (\E h : SumsTo(at.spec, h, at.item) /\ compiled_size = h[at.item])'
      BY <3>1, <3>3, <3>4, <3>5
    <3> QED
      BY <3>3, <3>6 DEF Summed
  <2>2. CASE at'.scan # 1
    BY <2>2, SummedIdle
  <2> QED
    BY <2>1, <2>2
<1>7. register_table' = Frames(R, 0) /\ type_size_table' = T
  BY <1>1, <1>2, <1>3 DEF gen_vars
<1>8. Generating'
  BY <1>1, <1>2, <1>3, <1>5, <1>6, <1>7, GeneratingNext
<1> QED
  BY <1>1, <1>8, GoesOn

LEMMA GeneratorStarts ==
  ASSUME VerdictInv, CheckEnd
  PROVE  GeneratorInv'
<1>1. /\ Typed /\ phase = "check" /\ phase' = "generate" /\ at' = Start(1, 0) /\ program' = program
      /\ UNCHANGED gen_vars /\ VerdictInv' /\ Fresh
  BY StepEnd DEF VerdictInv, Checking, CheckEnd, SCAN_SPEC_DEF
<1>2. at' = [scan |-> 1, spec |-> 0, item |-> 1]
  BY <1>1 DEF Start
<1>3. Open' = 0
  BY <1>2 DEF Open
<1>4. /\ Sized' = {} /\ Heads' = {} /\ Props' = {} /\ Bodies' = {}
  <2>1. \A i \in Specs : i \in Nat /\ i # 0
    BY <1>1, Shape
  <2>2. \A s, i, j : s \in {1, 2, 3} /\ i \in Nat /\ (s = 1 => i # 0) => ~Beyond(s, i, j)' \/ i = 0
    BY <1>2 DEF Beyond
  <2>3. \A s, i, j : s \in {2, 3} => ~Beyond(s, i, j)'
    BY <1>2 DEF Beyond
  <2>4. Specs' = Specs
    BY <1>1, Frozen
  <2> QED
    BY <2>1, <2>2, <2>3, <2>4 DEF Sized, Heads, Props, Bodies
<1>5. register_table' = Frames(EmptyScope, 0) /\ type_size_table' = EmptyScope /\ compiled_size' = 0
  BY <1>1 DEF Fresh, gen_vars, Frames
<1>6. DOMAIN EmptyScope = {}
  BY DEF EmptyScope
<1>7. Registers(EmptyScope, {}, {}) /\ Objects(EmptyScope, {}) /\ NoInstances({})
  BY <1>6 DEF Registers, Objects, NoInstances
<1>8. Summed'
  <2>1. ~Summing'
    BY <1>2 DEF Summing
  <2> QED
    BY <1>5, <2>1 DEF Summed
<1>9. Generating'
  <2>1. \A i \in {} : \E f : LayOut(i, f, EmptyScope, EmptyScope, {}) /\ OffsetIs(i, f)'
    OBVIOUS
  <2> DEFINE Z == EmptyScope
  <2> HIDE DEF Z
  <2>2. /\ register_table' = Frames(Z, 0) /\ type_size_table' = Z /\ Registers(Z, {}, {})
        /\ Objects(Z, {})
    BY <1>5, <1>7 DEF Z
  <2> QED
    BY <1>1, <1>3, <1>4, <1>7, <1>8, <2>2, GeneratingNext
<1> QED
  BY <1>1, <1>9, GoesOn

\* Nothing moves, and the generator goes on or is done.
LEMMA GeneratorRests ==
  ASSUME GeneratorInv, phase \in {"generate", "done"}, phase' \in {"generate", "done"},
         phase' = phase \/ at.scan > 3,
         UNCHANGED <<program, at>>, UNCHANGED gen_vars
  PROVE  Generating'
<1>1. Generating /\ program' = program /\ at' = at
  BY DEF GeneratorInv
<1> PICK R, o, T, S, H, Q, N :
      /\ R = register_table[1] /\ T = type_size_table /\ o = Open
      /\ S = Sized /\ H = Heads /\ Q = Props /\ N = Bodies
  OBVIOUS
<1>2. Sized' = S /\ Heads' = H /\ Props' = Q /\ Bodies' = N
  BY <1>1, FrozenPlaces
<1>3. Open' = o
  <2>1. CASE phase' = phase
    BY <1>1, <2>1, Frozen DEF Open, Last
  <2>2. CASE at.scan > 3
    <3>1. at.scan \notin {2, 3}
      BY <2>2
    <3> QED
      BY <1>1, <3>1 DEF Open
  <2> QED
    BY <2>1, <2>2
<1>4. /\ register_table = Frames(R, o) /\ Registers(R, H, Q) /\ Objects(T, S) /\ NoInstances(N)
      /\ Laid(T, R, Q, S) /\ Summed
  BY <1>1 DEF Generating
<1>5. register_table' = Frames(R, o) /\ type_size_table' = T
  BY <1>4 DEF gen_vars
<1>6. \A k \in S : \E f : LayOut(k, f, T, R, Q) /\ OffsetIs(k, f)'
  <2>1. \A k, f : OffsetIs(k, f) => OffsetIs(k, f)'
    <3>1. \A k, j : Passed(k, j)' <=> Passed(k, j)
      BY <1>1, Frozen DEF Passed
    <3>2. \A k : PropertiesOf(k)' = PropertiesOf(k)
      BY <1>1, Frozen
    <3>3. property_offset' = property_offset
      BY DEF gen_vars
    <3> QED
      BY <3>1, <3>2, <3>3 DEF OffsetIs
  <2> QED
    BY <1>4, <2>1 DEF Laid
<1>7. Summed'
  <2>1. Summing' <=> Summing
    BY <1>1, Frozen DEF Summing
  <2> PICK k, n : k = at.spec /\ n = at.item
    OBVIOUS
  <2>2. \A f : SumsTo(k, f, n)' <=> SumsTo(k, f, n)
    BY <1>1, FrozenLayOut
  <2>3. compiled_size' = compiled_size
    BY DEF gen_vars
  <2> QED
    BY <1>1, <1>4, <2>1, <2>2, <2>3 DEF Summed
<1> QED
  BY <1>1, <1>2, <1>3, <1>4, <1>5, <1>6, <1>7, GeneratingNext

\* What an object made of an instance means does not change.
LEMMA FrozenMakes ==
  ASSUME program' = program
  PROVE  (\E k \in Owners : \E l \in UsesIn(k) : MakesInstance(k, l))'
           <=> (\E k \in Owners : \E l \in UsesIn(k) : MakesInstance(k, l))
<1>1. \A k, l : MakesInstance(k, l)' <=> MakesInstance(k, l)
  BY Frozen DEF MakesInstance
<1>2. Owners' = Owners /\ \A k : UsesIn(k)' = UsesIn(k)
  BY Frozen DEF UsesIn
<1> QED
  BY <1>1, <1>2

LEMMA GeneratorEnds ==
  ASSUME GeneratorInv, GenEnd
  PROVE  GeneratorInv'
<1>1. /\ phase = "generate" /\ phase' = "done" /\ at.scan > 3 /\ UNCHANGED <<program, at>>
      /\ UNCHANGED gen_vars
  BY DEF GenEnd, SCAN_IMPL_DEF
<1>2. VerdictInv'
  BY StepGenerate DEF GeneratorInv, Generate
<1>3. at'.scan = 4
  <2>1. at.scan \in 1 .. 4
    BY DEF GeneratorInv, VerdictInv, AtOK
  <2> QED
    BY <1>1, <2>1
<1>4. Generating'
  BY <1>1, GeneratorRests
<1> QED
  BY <1>1, <1>2, <1>3, <1>4 DEF GeneratorInv

LEMMA GeneratorStops ==
  ASSUME GeneratorInv, UNCHANGED vars
  PROVE  GeneratorInv'
<1>1. UNCHANGED <<program, phase, at>> /\ UNCHANGED gen_vars
  BY DEF vars
<1>2. VerdictInv'
  BY StepNothing DEF GeneratorInv
<1>3. phase \in {"generate", "done"} => Generating'
  BY <1>1, GeneratorRests
<1>4. phase' = "done" => at'.scan = 4
  BY <1>1 DEF GeneratorInv
<1>5. phase' = "uncaught" => (\E k \in Owners : \E l \in UsesIn(k) : MakesInstance(k, l))'
  BY <1>1, FrozenMakes DEF GeneratorInv
<1> QED
  BY <1>1, <1>2, <1>3, <1>4, <1>5 DEF GeneratorInv

\* Until the type checker has ended, the generator has done nothing.
LEMMA GeneratorWaits ==
  ASSUME GeneratorInv, [Next]_vars, phase' \in {"check", "rejected"}
  PROVE  GeneratorInv'
<1>1. VerdictInv'
  BY VerdictStep DEF GeneratorInv
<1> QED
  BY <1>1 DEF GeneratorInv

LEMMA CheckPhases ==
  ASSUME Check, ~CheckEnd
  PROVE  phase' \in {"check", "rejected"}
BY DEF Check, CheckSpec, CheckEnter, CheckLeave, CheckHeader, CheckProperty, CheckBody,
       Checks, Reaches, Walking

LEMMA GeneratorStart ==
  ASSUME Init
  PROVE  GeneratorInv
<1>1. VerdictInv /\ phase = "check"
  BY VerdictStart DEF Init
<1> QED
  BY <1>1 DEF GeneratorInv

LEMMA GeneratorStep ==
  ASSUME GeneratorInv, [Next]_vars
  PROVE  GeneratorInv'
<1>1. CASE Turn
  <2>1. CASE phase = "generate"
    BY <1>1, <2>1, GenerateTurn
  <2>2. CASE phase # "generate"
    <3>1. phase' = "check"
      BY <1>1, <2>2 DEF Turn, Walking
    <3> QED
      BY <3>1, GeneratorWaits
  <2> QED
    BY <2>1, <2>2
<1>2. CASE Check
  <2>1. CASE CheckEnd
    BY <2>1, GeneratorStarts DEF GeneratorInv
  <2>2. CASE ~CheckEnd
    BY <1>2, <2>2, CheckPhases, GeneratorWaits
  <2> QED
    BY <2>1, <2>2
<1>3. CASE Generate
  BY <1>3, GenerateSize, GenerateSpec, GenerateEnter, GenerateLeave, GenerateHeader,
     GenerateProperty, GenerateBody, GeneratorEnds DEF Generate
<1>4. CASE UNCHANGED vars
  BY <1>4, GeneratorStops
<1> QED
  BY <1>1, <1>2, <1>3, <1>4 DEF Next

LEMMA GeneratedIs ==
  ASSUME GeneratorInv
  PROVE  AcceptedUsesAreGenerated
<1>1. phase # "failed"
  BY DEF GeneratorInv
<1>2. phase = "uncaught" => \E i \in Owners : \E j \in UsesIn(i) : MakesInstance(i, j)
  BY DEF GeneratorInv
<1>3. ASSUME phase = "done", NEW i \in Owners, NEW j \in UsesIn(i)
      PROVE  ~MakesInstance(i, j)
  <2>1. Typed /\ AtOK /\ at.scan >= 4 /\ NoInstances(Bodies)
    BY <1>3 DEF GeneratorInv, VerdictInv, Generating
  <2>2. Bodies = AllHeaders
    BY <2>1, Behind
  <2> DEFINE v == <<i, j>>
  <2>3. v \in AllHeaders /\ HeaderOf(v) = FunctionsOf(i)[j] /\ FunctionsOf(i)[j].uses # <<>>
    BY <2>1, HeaderPair DEF UsesIn
  <2>4. v[1] = i /\ v[2] = j
    OBVIOUS
  <2> HIDE DEF v
  <2> QED
    BY <2>1, <2>2, <2>3, <2>4 DEF NoInstances
<1> QED
  BY <1>1, <1>2, <1>3 DEF AcceptedUsesAreGenerated

\* Pieces that end where the next begins lie apart.
LEMMA PiecesApart ==
  ASSUME NEW i, NEW f, NEW n \in Nat, SumsTo(i, f, n)
  PROVE  \A j \in 1 .. n :
           /\ f[j - 1] .. (f[j - 1] + SizeAt(i, j) - 1) \subseteq 0 .. (f[n] - 1)
           /\ \A k \in 1 .. (j - 1) :
                (f[j - 1] .. (f[j - 1] + SizeAt(i, j) - 1))
                  \cap (f[k - 1] .. (f[k - 1] + SizeAt(i, k) - 1)) = {}
<1>1. /\ f \in [0 .. n -> Nat]
      /\ \A m \in 1 .. n : f[m] = f[m - 1] + SizeAt(i, m)
      /\ \A a, b \in 0 .. n : a <= b => f[a] <= f[b]
  BY DEF SumsTo
<1> TAKE j \in 1 .. n
<1>2. j - 1 \in 0 .. n /\ j \in 0 .. n /\ n \in 0 .. n /\ j <= n
  OBVIOUS
<1>3. f[j] = f[j - 1] + SizeAt(i, j) /\ f[j] <= f[n] /\ f[j - 1] \in Nat /\ f[j] \in Nat /\ f[n] \in Nat
  BY <1>1, <1>2
<1>4. f[j - 1] .. (f[j - 1] + SizeAt(i, j) - 1) = f[j - 1] .. (f[j] - 1)
  <2> PICK a, b, s : a = f[j - 1] /\ b = f[j] /\ s = SizeAt(i, j)
    OBVIOUS
  <2>1. b = a + s /\ a \in Nat /\ s \in Nat
    BY <1>3, SizeAtIs
  <2>2. a .. (a + s - 1) = a .. (b - 1)
    BY <2>1
  <2> QED
    BY <2>2
<1> PICK x, y, z : x = f[j - 1] /\ y = f[j] /\ z = f[n]
  OBVIOUS
<1>5. f[j - 1] .. (f[j] - 1) \subseteq 0 .. (f[n] - 1)
  <2>1. x \in Nat /\ y \in Nat /\ z \in Nat /\ y <= z
    BY <1>3
  <2>2. x .. (y - 1) \subseteq 0 .. (z - 1)
    BY <2>1
  <2> QED
    BY <2>2
<1>6. ASSUME NEW k \in 1 .. (j - 1)
      PROVE  (f[j - 1] .. (f[j - 1] + SizeAt(i, j) - 1))
               \cap (f[k - 1] .. (f[k - 1] + SizeAt(i, k) - 1)) = {}
  <2>1. k \in 1 .. n /\ k \in 0 .. n /\ k - 1 \in 0 .. n /\ k <= j - 1
    OBVIOUS
  <2>2. f[k] = f[k - 1] + SizeAt(i, k) /\ f[k] <= f[j - 1] /\ f[k - 1] \in Nat /\ f[k] \in Nat
    BY <1>1, <1>2, <2>1
  <2>3. f[k - 1] .. (f[k - 1] + SizeAt(i, k) - 1) = f[k - 1] .. (f[k] - 1)
    <3> PICK a, b, s : a = f[k - 1] /\ b = f[k] /\ s = SizeAt(i, k)
      OBVIOUS
    <3>1. b = a + s /\ a \in Nat /\ s \in Nat
      BY <2>2, SizeAtIs
    <3>2. a .. (a + s - 1) = a .. (b - 1)
      BY <3>1
    <3> QED
      BY <3>2
  <2>4. (f[j - 1] .. (f[j] - 1)) \cap (f[k - 1] .. (f[k] - 1)) = {}
    <3> PICK a, b : a = f[k - 1] /\ b = f[k]
      OBVIOUS
    <3>1. x \in Nat /\ y \in Nat /\ a \in Nat /\ b \in Nat /\ b <= x
      BY <1>3, <2>2
    <3>2. (x .. (y - 1)) \cap (a .. (b - 1)) = {}
      BY <3>1
    <3> QED
      BY <3>2
  <2> QED
    BY <1>4, <2>3, <2>4
<1> QED
  BY <1>4, <1>5, <1>6

LEMMA LaidOutIs ==
  ASSUME GeneratorInv
  PROVE  ObjectsHoldTheirProperties
<1> SUFFICES ASSUME phase = "done" PROVE ObjectsHoldTheirProperties
  BY DEF ObjectsHoldTheirProperties
<1> DEFINE R == register_table[1]  T == type_size_table
<1>1. Typed /\ AtOK /\ at.scan >= 4 /\ Laid(T, R, Props, Sized)
  BY DEF GeneratorInv, VerdictInv, Generating
<1>2. Props = AllProperties /\ Sized = Specs
  BY <1>1, Behind DEF AtOK
<1> HIDE DEF R, T
<1>3. ASSUME NEW i \in Specs, NEW j \in DOMAIN PropertiesOf(i)
      PROVE  LET Offset(l) == R[GetKey(SpecName(i), PropertiesOf(i)[l].name)]
                 Bytes(l) == Offset(l) .. (Offset(l) + SizeOfType(i, PropertiesOf(i)[l].type) - 1)
             IN  /\ R[SetKey(SpecName(i), PropertiesOf(i)[j].name)] = Offset(j)
                 /\ Bytes(j) \subseteq 0 .. (T[SpecName(i)] - 1)
                 /\ \A k \in 1 .. (j - 1) : Bytes(j) \cap Bytes(k) = {}
  <2> DEFINE Offset(l) == R[GetKey(SpecName(i), PropertiesOf(i)[l].name)]
             Bytes(l) == Offset(l) .. (Offset(l) + SizeOfType(i, PropertiesOf(i)[l].type) - 1)
             n == Len(PropertiesOf(i))
  <2>1. PICK f : LayOut(i, f, T, R, AllProperties)
    BY <1>1, <1>2 DEF Laid
  <2>2. n \in Nat /\ DOMAIN PropertiesOf(i) = 1 .. n
    BY <1>1, FunctionSums DEF Owners
  <2>3. SumsTo(i, f, n) /\ T[SpecName(i)] = f[n]
    BY <2>1 DEF LayOut
  <2>4. ASSUME NEW l \in DOMAIN PropertiesOf(i)
        PROVE  /\ Offset(l) = f[l - 1]
               /\ R[SetKey(SpecName(i), PropertiesOf(i)[l].name)] = f[l - 1]
    <3> DEFINE v == <<i, l>>
    <3>1. v \in AllProperties /\ PropertyOf(v) = PropertiesOf(i)[l]
      BY <1>1, PropertyPair
    <3>2. v[1] = i /\ v[2] = l
      OBVIOUS
    <3> HIDE DEF v
    <3>3. R[GetterKey(v)] = f[l - 1] /\ R[SetterKey(v)] = f[l - 1]
      BY <2>1, <3>1, <3>2 DEF LayOut
    <3> QED
      BY <3>1, <3>2, <3>3 DEF GetterKey, SetterKey
  <2>5. \A l \in DOMAIN PropertiesOf(i) : Bytes(l) = f[l - 1] .. (f[l - 1] + SizeAt(i, l) - 1)
    BY <2>4 DEF SizeAt
  <2> HIDE DEF Offset, Bytes, n
  <2>6. /\ f[j - 1] .. (f[j - 1] + SizeAt(i, j) - 1) \subseteq 0 .. (f[n] - 1)
        /\ \A k \in 1 .. (j - 1) :
             (f[j - 1] .. (f[j - 1] + SizeAt(i, j) - 1))
               \cap (f[k - 1] .. (f[k - 1] + SizeAt(i, k) - 1)) = {}
    BY <2>2, <2>3, PiecesApart
  <2>7. R[SetKey(SpecName(i), PropertiesOf(i)[j].name)] = Offset(j)
    BY <2>4
  <2>8. Bytes(j) \subseteq 0 .. (T[SpecName(i)] - 1)
    BY <2>3, <2>5, <2>6
  <2>9. \A k \in 1 .. (j - 1) : k \in DOMAIN PropertiesOf(i)
    BY <2>2
  <2>10. \A k \in 1 .. (j - 1) : Bytes(j) \cap Bytes(k) = {}
    BY <2>5, <2>6, <2>9
  <2> QED
    BY <2>7, <2>8, <2>10 DEF Offset, Bytes
<1> QED
  BY <1>3 DEF ObjectsHoldTheirProperties, R, T

(* Whatever the program, the generator finds all that the checker found in *)
(* the table it fills by the same walk; only the making of an instance of  *)
(* a generic spec ends it, and it never gets past one                      *)
(* (LIRGenAstWalker::WalkFunctionCall, WalkNewExpression).                 *)
THEOREM AllGenerated == Spec => []AcceptedUsesAreGenerated
<1>1. Init => GeneratorInv
  BY GeneratorStart
<1>2. GeneratorInv /\ [Next]_vars => GeneratorInv'
  BY GeneratorStep
<1>3. GeneratorInv => AcceptedUsesAreGenerated
  BY GeneratedIs
<1> QED
  BY <1>1, <1>2, <1>3, PTL DEF Spec

(* In every program that is generated, the properties of every object lie  *)
(* apart and inside what is allocated for it, and getter and setter agree  *)
(* on where, however many there are and of whatever types                  *)
(* (LIRGenAstWalker::WalkSpecDeclaration, WalkSpecPropertyDeclaration).    *)
THEOREM ObjectsLaidOut == Spec => []ObjectsHoldTheirProperties
<1>1. Init => GeneratorInv
  BY GeneratorStart
<1>2. GeneratorInv /\ [Next]_vars => GeneratorInv'
  BY GeneratorStep
<1>3. GeneratorInv => ObjectsHoldTheirProperties
  BY LaidOutIs
<1> QED
  BY <1>1, <1>2, <1>3, PTL DEF Spec
=============================================================================
