----------------------- MODULE ModuleLifecycleProofs -----------------------
(***************************************************************************)
(* The function table is right for every set of source programs and every  *)
(* host.  The argument: both walks visit the functions in the same total   *)
(* order, so the slot of a function and its position in symbols_vector are *)
(* both the number of functions before it.                                 *)
(***************************************************************************)
EXTENDS ModuleLifecycle, FiniteSetTheorems, SequenceTheorems, TLAPS

\* The functions the walk has passed when it is at c.
Before(p, c) ==
  {f \in FunctionsOf(p) : f[1] < c[1] \/ (f[1] = c[1] /\ f[2] < c[2])}
Rank(p, f) == Cardinality(Before(p, f))

\* A position the walk over p can be at.
IsCursor(p, c) ==
  /\ c \in (Nat \ {0}) \X (Nat \ {0})
  /\ c[1] \in DOMAIN p.counts
  /\ c[2] <= p.counts[c[1]] + 1

-----------------------------------------------------------------------------
(***************************************************************************)
(* Counting functions.                                                     *)
(***************************************************************************)

\* What a function of a program is.
LEMMA FunctionsDef ==
  ASSUME NEW p \in Programs
  PROVE  /\ p.counts \in Seq(Nat) /\ Len(p.counts) \in Nat \ {0}
         /\ DOMAIN p.counts = 1 .. Len(p.counts)
         /\ \A g \in DOMAIN p.counts : p.counts[g] \in Nat
         /\ \A f : f \in FunctionsOf(p) <=>
              /\ f \in (Nat \ {0}) \X (Nat \ {0})
              /\ f[1] \in DOMAIN p.counts
              /\ f[2] <= p.counts[f[1]]
         /\ \A f : f \in FunctionsOf(p) => f = <<f[1], f[2]>>
<1>1. p.counts \in Seq(Nat) /\ Len(p.counts) \in Nat \ {0}
  BY ProgramsAssumption DEF ProgramType
<1>2. DOMAIN p.counts = 1 .. Len(p.counts) /\ \A g \in DOMAIN p.counts : p.counts[g] \in Nat
  BY <1>1
<1>3. \A f : f \in FunctionsOf(p) <=>
         \E g \in DOMAIN p.counts : \E j \in 1 .. p.counts[g] : f = <<g, j>>
  BY DEF FunctionsOf, GroupOf
<1> QED
  BY <1>1, <1>2, <1>3

\* A source has finitely many functions.
LEMMA FunctionsAreFinite ==
  ASSUME NEW p \in Programs
  PROVE  IsFiniteSet(FunctionsOf(p))
<1> DEFINE D == DOMAIN p.counts
           G == {GroupOf(p, g) : g \in D}
           pick == [g \in D |-> GroupOf(p, g)]
<1>1. D = 1 .. Len(p.counts) /\ Len(p.counts) \in Nat /\ \A g \in D : p.counts[g] \in Nat
  BY FunctionsDef
<1>2. IsFiniteSet(D)
  <2>1. 1 \in Int /\ Len(p.counts) \in Int
    BY <1>1
  <2>2. IsFiniteSet(1 .. Len(p.counts))
    BY <2>1, FS_Interval
  <2> QED
    BY <1>1, <2>2
<1>3. IsFiniteSet(G)
  <2>1. pick \in Surjection(D, G)
    BY DEF Surjection
  <2> QED
    BY <2>1, <1>2, FS_Surjection
<1>4. \A T \in G : IsFiniteSet(T)
  <2> SUFFICES ASSUME NEW g \in D PROVE IsFiniteSet(GroupOf(p, g))
    OBVIOUS
  <2>1. GroupOf(p, g) \in SUBSET ({g} \X (1 .. p.counts[g]))
    BY DEF GroupOf
  <2>2. IsFiniteSet({g} \X (1 .. p.counts[g]))
    <3>1. 1 \in Int /\ p.counts[g] \in Int
      BY <1>1
    <3>2. IsFiniteSet(1 .. p.counts[g]) /\ IsFiniteSet({g})
      BY <3>1, FS_Singleton, FS_Interval
    <3> QED
      BY <3>2, FS_Product
  <2> QED
    BY <2>1, <2>2, FS_Subset
<1> HIDE DEF G
<1>5. IsFiniteSet(UNION G)
  BY <1>3, <1>4, FS_UNION
<1> QED
  BY <1>5 DEF FunctionsOf, G

LEMMA BeforeIsFinite ==
  ASSUME NEW p \in Programs, NEW c
  PROVE  IsFiniteSet(Before(p, c)) /\ Rank(p, c) \in Nat
<1>1. Before(p, c) \in SUBSET FunctionsOf(p)
  BY DEF Before
<1>2. IsFiniteSet(Before(p, c))
  BY <1>1, FunctionsAreFinite, FS_Subset
<1> QED
  BY <1>2, FS_CardinalityType DEF Rank

\* The walk starts before every function,
LEMMA BeforeFirst ==
  ASSUME NEW p \in Programs
  PROVE  /\ Before(p, <<1, 1>>) = {}
         /\ Rank(p, <<1, 1>>) = 0
         /\ IsCursor(p, <<1, 1>>)
<1>1. Before(p, <<1, 1>>) = {}
  BY FunctionsDef DEF Before
<1>2. IsCursor(p, <<1, 1>>)
  <2>1. 1 \in DOMAIN p.counts /\ p.counts[1] \in Nat
    BY FunctionsDef
  <2> QED
    BY <2>1 DEF IsCursor
<1> QED
  BY <1>1, <1>2, FS_EmptySet DEF Rank

\* passes the function it is at,
LEMMA BeforeNext ==
  ASSUME NEW p \in Programs, NEW c, IsCursor(p, c), c[2] <= p.counts[c[1]]
  PROVE  LET d == <<c[1], c[2] + 1>>
         IN  /\ IsCursor(p, d)
             /\ c \in FunctionsOf(p)
             /\ c \notin Before(p, c)
             /\ Before(p, d) = Before(p, c) \cup {c}
             /\ Rank(p, d) = Rank(p, c) + 1
<1> DEFINE d == <<c[1], c[2] + 1>>
<1>0. c[1] \in Nat /\ c[2] \in Nat /\ c = <<c[1], c[2]>> /\ p.counts[c[1]] \in Nat
  BY FunctionsDef DEF IsCursor
<1>1. IsCursor(p, d)
  BY <1>0 DEF IsCursor
<1>2. c \in FunctionsOf(p)
  BY FunctionsDef DEF IsCursor
<1>3. c \notin Before(p, c)
  BY <1>0 DEF Before
<1>4. Before(p, d) = Before(p, c) \cup {c}
  <2> SUFFICES ASSUME NEW f \in FunctionsOf(p)
               PROVE  f \in Before(p, d) <=> f \in Before(p, c) \/ f = c
    BY <1>2 DEF Before
  <2>1. f[1] \in Nat /\ f[2] \in Nat /\ f = <<f[1], f[2]>>
    BY FunctionsDef
  <2>2. f = c <=> f[1] = c[1] /\ f[2] = c[2]
    BY <2>1, <1>0
  <2>3. d[1] = c[1] /\ d[2] = c[2] + 1
    OBVIOUS
  <2>4. f[2] < c[2] + 1 <=> f[2] < c[2] \/ f[2] = c[2]
    BY <1>0, <2>1
  <2>5. f[1] = c[1] => ~(f[1] < c[1])
    BY <1>0, <2>1
  <2> QED
    BY <2>2, <2>3, <2>4, <2>5 DEF Before
<1>5. Rank(p, d) = Rank(p, c) + 1
  <2>1. IsFiniteSet(Before(p, c))
    BY BeforeIsFinite
  <2> QED
    BY <2>1, <1>3, <1>4, FS_AddElement DEF Rank
<1> QED
  BY <1>1, <1>2, <1>3, <1>4, <1>5

\* passes nothing between two groups,
LEMMA BeforeNextGroup ==
  ASSUME NEW p \in Programs, NEW c, IsCursor(p, c), ~(c[2] <= p.counts[c[1]]),
         c[1] < Len(p.counts)
  PROVE  LET d == <<c[1] + 1, 1>>
         IN  /\ IsCursor(p, d)
             /\ Before(p, d) = Before(p, c)
             /\ Rank(p, d) = Rank(p, c)
<1> DEFINE d == <<c[1] + 1, 1>>
<1>0. c[1] \in Nat /\ c[2] \in Nat /\ p.counts[c[1]] \in Nat /\ c[2] = p.counts[c[1]] + 1
  BY FunctionsDef DEF IsCursor
<1>1. IsCursor(p, d)
  <2>1. c[1] + 1 \in DOMAIN p.counts
    BY <1>0, FunctionsDef
  <2>2. p.counts[c[1] + 1] \in Nat
    BY <2>1, FunctionsDef
  <2> QED
    BY <1>0, <2>1, <2>2 DEF IsCursor
<1>2. Before(p, d) = Before(p, c)
  <2> SUFFICES ASSUME NEW f \in FunctionsOf(p)
               PROVE  f \in Before(p, d) <=> f \in Before(p, c)
    BY DEF Before
  <2>1. f[1] \in Nat /\ f[2] \in Nat \ {0} /\ f[2] <= p.counts[f[1]]
    BY FunctionsDef
  <2> QED
    BY <1>0, <2>1 DEF Before
<1> QED
  BY <1>1, <1>2 DEF Rank

\* and has passed every function when it is past the last group.
LEMMA BeforeLast ==
  ASSUME NEW p \in Programs, NEW c, IsCursor(p, c), ~(c[2] <= p.counts[c[1]]),
         ~(c[1] < Len(p.counts))
  PROVE  Before(p, c) = FunctionsOf(p)
<1>0. c[1] \in Nat /\ c[2] \in Nat /\ p.counts[c[1]] \in Nat /\ c[2] = p.counts[c[1]] + 1
      /\ c[1] = Len(p.counts)
  BY FunctionsDef DEF IsCursor
<1> SUFFICES ASSUME NEW f \in FunctionsOf(p) PROVE f \in Before(p, c)
  BY DEF Before
<1>1. f[1] \in Nat /\ f[2] \in Nat \ {0} /\ f[2] <= p.counts[f[1]] /\ f[1] <= Len(p.counts)
  BY FunctionsDef
<1> QED
  BY <1>0, <1>1 DEF Before

\* A function's number is below the number of functions.
LEMMA RankIsBelowCount ==
  ASSUME NEW p \in Programs, NEW f \in FunctionsOf(p)
  PROVE  Rank(p, f) \in 0 .. CountFunctions(p) - 1
<1>1. IsFiniteSet(FunctionsOf(p)) /\ IsFiniteSet(Before(p, f)) /\ Rank(p, f) \in Nat
  BY FunctionsAreFinite, BeforeIsFinite
<1>2. f \notin Before(p, f) /\ Before(p, f) \in SUBSET FunctionsOf(p)
  <2>1. f[1] \in Nat /\ f[2] \in Nat
    BY FunctionsDef
  <2> QED
    BY <2>1 DEF Before
<1>3. /\ CountFunctions(p) \in Nat
      /\ Rank(p, f) <= CountFunctions(p)
      /\ Rank(p, f) # CountFunctions(p)
  BY <1>1, <1>2, FS_Subset, FS_CardinalityType DEF Rank, CountFunctions
<1> QED
  BY <1>1, <1>3

\* Two functions have two numbers.
LEMMA RankIsInjective ==
  ASSUME NEW p \in Programs, NEW f \in FunctionsOf(p), NEW h \in FunctionsOf(p),
         Rank(p, f) = Rank(p, h)
  PROVE  f = h
<1>1. ASSUME NEW a \in FunctionsOf(p), NEW b \in FunctionsOf(p), a \in Before(p, b)
      PROVE  Rank(p, a) # Rank(p, b)
  <2>0. a[1] \in Nat /\ a[2] \in Nat /\ b[1] \in Nat /\ b[2] \in Nat
    BY FunctionsDef
  <2>1. a \notin Before(p, a)
    BY <2>0 DEF Before
  <2>2. Before(p, a) \in SUBSET Before(p, b)
    <3> SUFFICES ASSUME NEW x \in Before(p, a) PROVE x \in Before(p, b)
      OBVIOUS
    <3>1. x \in FunctionsOf(p) /\ x[1] \in Nat /\ x[2] \in Nat
      BY FunctionsDef DEF Before
    <3> QED
      BY <1>1, <2>0, <3>1 DEF Before
  <2>3. Before(p, a) # Before(p, b)
    BY <1>1, <2>1
  <2>4. IsFiniteSet(Before(p, b))
    BY BeforeIsFinite
  <2> QED
    BY <2>2, <2>3, <2>4, FS_Subset DEF Rank
<1>2. f \in Before(p, h) \/ h \in Before(p, f) \/ f = h
  <2>1. /\ f[1] \in Nat /\ f[2] \in Nat /\ h[1] \in Nat /\ h[2] \in Nat
        /\ f = <<f[1], f[2]>> /\ h = <<h[1], h[2]>>
    BY FunctionsDef
  <2> QED
    BY <2>1 DEF Before
<1> QED
  BY <1>1, <1>2

-----------------------------------------------------------------------------
(***************************************************************************)
(* The inductive invariant.                                                *)
(***************************************************************************)
Generated == {symbols[k] : k \in 1 .. Len(symbols)}

\* How far the walks have come.
WalkInv ==
  /\ ~compiled => DOMAIN slot = {} /\ symbols = <<>> /\ table = NoTable
  /\ stage \in {"prescan", "implement"} =>
       compiled /\ table = NoTable /\ IsCursor(built, cursor)
  /\ stage = "prescan" => symbols = <<>> /\ DOMAIN slot = Before(built, cursor)
  /\ stage = "implement" =>
       /\ DOMAIN slot = FunctionsOf(built)
       /\ Len(symbols) = Rank(built, cursor)
       /\ Generated = Before(built, cursor)

\* Slots and positions both count the functions before.
NumberInv ==
  /\ \A f \in DOMAIN slot : slot[f] = Rank(built, f)
  /\ \A k \in 1 .. Len(symbols) :
       symbols[k] \in DOMAIN slot /\ Rank(built, symbols[k]) = k - 1

\* A table belongs to a complete module and is filled position by position.
TableInv ==
  table # NoTable =>
    /\ compiled
    /\ DOMAIN slot = FunctionsOf(built)
    /\ Generated = FunctionsOf(built)
    /\ Len(symbols) = CountFunctions(built)
    /\ \A k \in 1 .. Len(symbols) : table[k - 1] \in {Garbage, symbols[k]}

IInv == TypeOK /\ WalkInv /\ NumberInv /\ TableInv /\ CallsReachTheirFunction

LEMMA InitIInv == Init => IInv
<1> SUFFICES ASSUME Init PROVE IInv
  OBVIOUS
<1>1. TypeOK
  <2>1. slot \in [DOMAIN slot -> Nat] /\ DOMAIN slot = {}
    BY DEF Init
  <2>2. cursor \in FunctionName /\ symbols \in Seq(FunctionName) /\ Len(symbols) = 0
    BY DEF Init, FunctionName
  <2>3. running \in (Nat \X Nat) \X (Nat \X Nat)
    BY DEF Init, None
  <2>4. native \subseteq 1 .. Len(symbols) /\ next \in 1 .. (Len(symbols) + 1)
    BY <2>2 DEF Init
  <2>5. /\ stage = "idle" /\ source \in Programs /\ built \in Programs
        /\ ast = "none" /\ compiled = FALSE /\ assembled = FALSE
        /\ table = NoTable /\ afterwards = "host" /\ failed = FALSE /\ careless = FALSE
    BY DEF Init
  <2> QED
    BY <2>1, <2>2, <2>3, <2>4, <2>5 DEF TypeOK
<1>2. WalkInv /\ NumberInv /\ TableInv /\ CallsReachTheirFunction
  BY DEF Init, WalkInv, NumberInv, TableInv, CallsReachTheirFunction
<1> QED
  BY <1>1, <1>2 DEF IInv

\* A step outside the walks that leaves alone what they built keeps the
\* invariant, as far as it is about that.
LEMMA Frame ==
  ASSUME IInv, stage' \notin {"prescan", "implement"},
         UNCHANGED <<compiled, built, slot, symbols, table>>
  PROVE  WalkInv' /\ NumberInv' /\ TableInv'
<1>1. WalkInv'
  BY DEF IInv, WalkInv
<1>2. NumberInv'
  BY DEF IInv, NumberInv, Rank, Before
<1>3. TableInv'
  BY DEF IInv, TableInv, Generated
<1> QED
  BY <1>1, <1>2, <1>3

\* The functions of the program built are names of functions.
LEMMA FunctionNames ==
  ASSUME NEW p \in Programs
  PROVE  FunctionsOf(p) \subseteq FunctionName
BY FunctionsDef DEF FunctionName

LEMMA CompileKeepsIInv ==
  ASSUME IInv, NEW p \in Programs, Compile(p)
  PROVE  IInv'
<1>1. TypeOK'
  BY DEF IInv, TypeOK, Compile, vm_vars, Building, Assembling
<1>2. WalkInv' /\ NumberInv' /\ TableInv'
  BY Frame DEF Compile
<1>3. CallsReachTheirFunction'
  BY DEF Compile, CallsReachTheirFunction
<1> QED
  BY <1>1, <1>2, <1>3 DEF IInv

LEMMA ParseKeepsIInv ==
  ASSUME IInv, Parse
  PROVE  IInv'
<1>1. TypeOK'
  BY DEF IInv, TypeOK, Parse, vm_vars, Building, Assembling
<1>2. WalkInv' /\ NumberInv' /\ TableInv'
  BY Frame DEF Parse
<1>3. CallsReachTheirFunction'
  BY DEF Parse, CallsReachTheirFunction
<1> QED
  BY <1>1, <1>2, <1>3 DEF IInv

LEMMA TypeCheckKeepsIInv ==
  ASSUME IInv, TypeCheck
  PROVE  IInv'
<1>1. TypeOK'
  BY DEF IInv, TypeOK, TypeCheck, Throw, vm_vars, Building, Assembling
<1>2. WalkInv' /\ NumberInv' /\ TableInv'
  BY Frame DEF TypeCheck, Throw
<1>3. CallsReachTheirFunction'
  BY DEF TypeCheck, Throw, CallsReachTheirFunction
<1> QED
  BY <1>1, <1>2, <1>3 DEF IInv

LEMMA GenerateKeepsIInv ==
  ASSUME IInv, Generate
  PROVE  IInv'
<1>1. CASE ~MayGenerate
  <2>1. TypeOK'
    BY <1>1 DEF IInv, TypeOK, Generate, Throw, vm_vars, Building, Assembling
  <2>2. WalkInv' /\ NumberInv' /\ TableInv'
    BY <1>1, Frame DEF Generate, Throw
  <2>3. CallsReachTheirFunction'
    BY <1>1 DEF Generate, Throw, CallsReachTheirFunction
  <2> QED
    BY <2>1, <2>2, <2>3 DEF IInv
<1>2. CASE MayGenerate
  <2>1. /\ symbols = <<>> /\ symbols' = <<>> /\ table = NoTable /\ table' = NoTable
        /\ compiled' = TRUE /\ built' = source /\ built' \in Programs
        /\ slot' = [f \in {} |-> 0] /\ cursor' = <<1, 1>>
        /\ stage' \in {"idle", "prescan"}
    BY <1>2 DEF IInv, TypeOK, WalkInv, Generate, MayGenerate, Throw
  <2>2. TypeOK'
    <3>1. slot' \in [DOMAIN slot' -> Nat] /\ DOMAIN slot' = {}
      BY <2>1
    <3>2. cursor' \in FunctionName
      BY <2>1 DEF FunctionName
    <3>3. stage' \in {"idle"} \cup Building
      BY <2>1 DEF Building
    <3>4. ast' \in {"none", "live", "freed"} /\ failed' \in BOOLEAN
      BY <1>2 DEF IInv, TypeOK, Generate, Throw
    <3>5. UNCHANGED <<source, symbols, native, next, running, afterwards, assembled, careless>>
      BY <1>2 DEF Generate, vm_vars
    <3> QED
      BY <2>1, <3>1, <3>2, <3>3, <3>4, <3>5 DEF IInv, TypeOK
  <2>3. IsCursor(built', <<1, 1>>) /\ Before(built', <<1, 1>>) = {}
    BY <2>1, BeforeFirst
  <2>4. WalkInv'
    BY <2>1, <2>3 DEF WalkInv
  <2>5. NumberInv' /\ TableInv'
    BY <2>1 DEF NumberInv, TableInv
  <2>6. CallsReachTheirFunction'
    BY <2>1 DEF CallsReachTheirFunction
  <2> QED
    BY <2>2, <2>4, <2>5, <2>6 DEF IInv
<1> QED
  BY <1>1, <1>2

LEMMA PrescanFunctionKeepsIInv ==
  ASSUME IInv, PrescanFunction
  PROVE  IInv'
<1> DEFINE c == cursor
<1>0. /\ stage = "prescan" /\ built \in Programs /\ IsCursor(built, c)
      /\ compiled /\ table = NoTable /\ symbols = <<>>
      /\ DOMAIN slot = Before(built, c)
      /\ c = <<c[1], c[2]>> /\ c[2] <= built.counts[c[1]]
  BY DEF IInv, TypeOK, WalkInv, PrescanFunction, PrescanGroup, AtFunction, IsCursor, FunctionName
<1>1. /\ slot' = [h \in DOMAIN slot \cup {c} |->
                   IF h = c THEN Cardinality(DOMAIN slot) ELSE slot[h]]
      /\ cursor' = <<c[1], c[2] + 1>>
      /\ UNCHANGED <<stage, source, ast, compiled, built, symbols, table, failed>>
      /\ UNCHANGED <<native, next, running, afterwards, assembled, careless>>
  BY <1>0 DEF PrescanFunction, PrescanGroup, StepFunction, vm_vars
<1>2. /\ IsCursor(built, cursor')
      /\ c \in FunctionsOf(built)
      /\ c \notin Before(built, c)
      /\ Before(built, cursor') = Before(built, c) \cup {c}
  BY <1>0, <1>1, BeforeNext
<1>3. DOMAIN slot' = Before(built, cursor')
  BY <1>0, <1>1, <1>2
<1>4. \A f \in DOMAIN slot' : slot'[f] = Rank(built, f)
  BY <1>0, <1>1 DEF IInv, NumberInv, Rank
<1>5. TypeOK'
  <2>1. DOMAIN slot' \subseteq FunctionsOf(built)
    BY <1>3 DEF Before
  <2>2. slot' \in [DOMAIN slot' -> Nat]
    <3>1. \A f \in DOMAIN slot' : slot'[f] \in Nat
      BY <1>0, <1>4, BeforeIsFinite
    <3> QED
      BY <1>1, <3>1
  <2>3. cursor' \in FunctionName
    BY <1>2 DEF IsCursor, FunctionName
  <2> QED
    BY <1>0, <1>1, <2>1, <2>2, <2>3 DEF IInv, TypeOK
<1>6. WalkInv'
  BY <1>0, <1>1, <1>2, <1>3 DEF WalkInv
<1>7. NumberInv' /\ TableInv'
  <2>1. \A f \in DOMAIN slot' : slot'[f] = Rank(built', f)
    BY <1>1, <1>4
  <2>2. symbols' = <<>> /\ table' = NoTable
    BY <1>0, <1>1
  <2> QED
    BY <2>1, <2>2 DEF NumberInv, TableInv
<1>8. CallsReachTheirFunction'
  BY <1>0, <1>1 DEF CallsReachTheirFunction
<1> QED
  BY <1>5, <1>6, <1>7, <1>8 DEF IInv

LEMMA PrescanGroupEndKeepsIInv ==
  ASSUME IInv, PrescanGroupEnd
  PROVE  IInv'
<1> DEFINE c == cursor
<1>0. /\ stage = "prescan" /\ built \in Programs /\ IsCursor(built, c)
      /\ compiled /\ table = NoTable /\ symbols = <<>>
      /\ DOMAIN slot = Before(built, c)
      /\ ~(c[2] <= built.counts[c[1]])
  BY DEF IInv, TypeOK, WalkInv, PrescanGroupEnd, PrescanGroup, AtFunction
<1>1. /\ UNCHANGED <<source, ast, compiled, built, slot, symbols, table, failed>>
      /\ UNCHANGED <<native, next, running, afterwards, assembled, careless>>
  BY DEF PrescanGroupEnd, vm_vars
<1>2. NumberInv' /\ TableInv'
  BY <1>0, <1>1 DEF IInv, NumberInv, TableInv, Rank, Before
<1>3. CASE c[1] < Len(built.counts)
  <2>1. cursor' = <<c[1] + 1, 1>> /\ stage' = "prescan"
    BY <1>0, <1>3 DEF PrescanGroupEnd, StepGroup
  <2>2. IsCursor(built, cursor') /\ Before(built, cursor') = Before(built, c)
    BY <1>0, <1>3, <2>1, BeforeNextGroup
  <2>3. TypeOK'
    BY <1>0, <1>1, <2>1, <2>2 DEF IInv, TypeOK, IsCursor, FunctionName
  <2>4. WalkInv'
    BY <1>0, <1>1, <2>1, <2>2 DEF WalkInv
  <2>5. CallsReachTheirFunction'
    BY <2>1 DEF CallsReachTheirFunction
  <2> QED
    BY <1>2, <2>3, <2>4, <2>5 DEF IInv
<1>4. CASE ~(c[1] < Len(built.counts))
  <2>1. cursor' = <<1, 1>> /\ stage' = "implement"
    BY <1>0, <1>4 DEF PrescanGroupEnd, StepGroup
  <2>2. /\ IsCursor(built, cursor')
        /\ Before(built, cursor') = {} /\ Rank(built, cursor') = 0
        /\ DOMAIN slot = FunctionsOf(built)
    BY <1>0, <1>4, <2>1, BeforeFirst, BeforeLast
  <2>3. TypeOK'
    BY <1>0, <1>1, <2>1, <2>2 DEF IInv, TypeOK, IsCursor, FunctionName, Building
  <2>4. Len(symbols') = 0 /\ Generated' = {}
    BY <1>0, <1>1 DEF Generated
  <2>5. WalkInv'
    BY <1>0, <1>1, <2>1, <2>2, <2>4 DEF WalkInv
  <2>6. CallsReachTheirFunction'
    BY <2>1 DEF CallsReachTheirFunction
  <2> QED
    BY <1>2, <2>3, <2>5, <2>6 DEF IInv
<1> QED
  BY <1>3, <1>4

LEMMA ImplementFunctionKeepsIInv ==
  ASSUME IInv, ImplementFunction
  PROVE  IInv'
<1> DEFINE c == cursor
<1>0. /\ stage = "implement" /\ built \in Programs /\ IsCursor(built, c)
      /\ compiled /\ table = NoTable
      /\ DOMAIN slot = FunctionsOf(built)
      /\ Len(symbols) = Rank(built, c)
      /\ Generated = Before(built, c)
      /\ symbols \in Seq(FunctionName)
      /\ c = <<c[1], c[2]>> /\ c[2] <= built.counts[c[1]]
  BY DEF IInv, TypeOK, WalkInv, ImplementFunction, ImplementGroup, AtFunction, IsCursor, FunctionName
<1>1. /\ UNCHANGED <<source, compiled, built, slot, table>>
      /\ UNCHANGED <<native, next, running, afterwards, assembled, careless>>
  BY DEF ImplementFunction, vm_vars
<1>2. CASE /\ symbols' = Append(symbols, c)
           /\ cursor' = <<c[1], c[2] + 1>>
           /\ UNCHANGED <<stage, ast, failed>>
  <2>1. /\ IsCursor(built, cursor')
        /\ c \in FunctionsOf(built)
        /\ Before(built, cursor') = Before(built, c) \cup {c}
        /\ Rank(built, cursor') = Rank(built, c) + 1
    BY <1>0, <1>2, BeforeNext
  <2>2. c \in FunctionName
    BY <1>0, <2>1, FunctionNames
  <2>3. /\ symbols' \in Seq(FunctionName)
        /\ Len(symbols') = Len(symbols) + 1 /\ Len(symbols) \in Nat
        /\ \A k \in 1 .. Len(symbols') :
             symbols'[k] = IF k = Len(symbols) + 1 THEN c ELSE symbols[k]
    BY <1>0, <1>2, <2>2
  <2>4. Generated' = Generated \cup {c}
    <3>1. ASSUME NEW f \in Generated PROVE f \in Generated'
      <4> PICK k \in 1 .. Len(symbols) : f = symbols[k]
        BY <3>1 DEF Generated
      <4>1. k \in 1 .. Len(symbols') /\ symbols'[k] = f
        BY <2>3
      <4> QED
        BY <4>1 DEF Generated
    <3>2. c \in Generated'
      <4>1. Len(symbols) + 1 \in 1 .. Len(symbols') /\ symbols'[Len(symbols) + 1] = c
        BY <2>3
      <4> QED
        BY <4>1 DEF Generated
    <3>3. ASSUME NEW f \in Generated' PROVE f \in Generated \cup {c}
      <4> PICK k \in 1 .. Len(symbols') : f = symbols'[k]
        BY <3>3 DEF Generated
      <4>1. f = c \/ (k \in 1 .. Len(symbols) /\ f = symbols[k])
        BY <2>3
      <4> QED
        BY <4>1 DEF Generated
    <3> QED
      BY <3>1, <3>2, <3>3
  <2>5. TypeOK'
    <3>1. cursor' \in FunctionName
      BY <2>1 DEF IsCursor, FunctionName
    <3>2. native' \subseteq 1 .. Len(symbols') /\ next' \in 1 .. (Len(symbols') + 1)
      BY <1>1, <2>3 DEF IInv, TypeOK
    <3> QED
      BY <1>0, <1>1, <1>2, <2>3, <3>1, <3>2 DEF IInv, TypeOK
  <2>6. WalkInv'
    BY <1>0, <1>1, <1>2, <2>1, <2>3, <2>4 DEF WalkInv
  <2>7. NumberInv'
    <3>1. \A f \in DOMAIN slot' : slot'[f] = Rank(built', f)
      BY <1>1 DEF IInv, NumberInv
    <3>2. ASSUME NEW k \in 1 .. Len(symbols')
          PROVE  symbols'[k] \in DOMAIN slot' /\ Rank(built', symbols'[k]) = k - 1
      <4>1. CASE k = Len(symbols) + 1
        BY <1>0, <1>1, <2>1, <2>3, <4>1
      <4>2. CASE k \in 1 .. Len(symbols)
        BY <1>1, <2>3, <4>2 DEF IInv, NumberInv
      <4> QED
        BY <2>3, <4>1, <4>2
    <3> QED
      BY <3>1, <3>2 DEF NumberInv
  <2>8. TableInv' /\ CallsReachTheirFunction'
    BY <1>0, <1>1, <1>2 DEF TableInv, CallsReachTheirFunction
  <2> QED
    BY <2>5, <2>6, <2>7, <2>8 DEF IInv
<1>3. CASE /\ \E e \in {"Exception", "out_of_range"} : Throw(e)
           /\ failed' = TRUE
           /\ UNCHANGED <<symbols, cursor>>
  <2>1. stage' = "idle" /\ ast' \in {"none", "live", "freed"}
    BY <1>3 DEF IInv, TypeOK, Throw
  <2>2. TypeOK'
    BY <1>1, <1>3, <2>1 DEF IInv, TypeOK
  <2>3. WalkInv' /\ NumberInv' /\ TableInv'
    BY <1>1, <1>3, <2>1, Frame
  <2>4. CallsReachTheirFunction'
    BY <2>1 DEF CallsReachTheirFunction
  <2> QED
    BY <2>2, <2>3, <2>4 DEF IInv
<1> QED
  BY <1>0, <1>2, <1>3 DEF ImplementFunction, ImplementGroup, StepFunction

LEMMA ImplementGroupEndKeepsIInv ==
  ASSUME IInv, ImplementGroupEnd
  PROVE  IInv'
<1> DEFINE c == cursor
<1>0. /\ stage = "implement" /\ built \in Programs /\ IsCursor(built, c)
      /\ compiled /\ table = NoTable
      /\ DOMAIN slot = FunctionsOf(built)
      /\ Len(symbols) = Rank(built, c)
      /\ Generated = Before(built, c)
      /\ ~(c[2] <= built.counts[c[1]])
  BY DEF IInv, TypeOK, WalkInv, ImplementGroupEnd, ImplementGroup, AtFunction
<1>1. /\ UNCHANGED <<source, compiled, built, slot, symbols, failed>>
      /\ UNCHANGED <<native, next, running, afterwards, assembled, careless>>
  BY DEF ImplementGroupEnd, vm_vars
<1>2. NumberInv'
  BY <1>1 DEF IInv, NumberInv, Rank, Before
<1>3. CASE c[1] < Len(built.counts)
  <2>1. cursor' = <<c[1] + 1, 1>> /\ stage' = "implement" /\ UNCHANGED <<table, ast>>
    BY <1>0, <1>3 DEF ImplementGroupEnd, StepGroup
  <2>2. /\ IsCursor(built, cursor')
        /\ Before(built, cursor') = Before(built, c)
        /\ Rank(built, cursor') = Rank(built, c)
    BY <1>0, <1>3, <2>1, BeforeNextGroup
  <2>3. TypeOK'
    BY <1>0, <1>1, <2>1, <2>2 DEF IInv, TypeOK, IsCursor, FunctionName
  <2>4. WalkInv'
    BY <1>0, <1>1, <2>1, <2>2 DEF WalkInv, Generated
  <2>5. TableInv' /\ CallsReachTheirFunction'
    BY <1>0, <2>1 DEF TableInv, CallsReachTheirFunction
  <2> QED
    BY <1>2, <2>3, <2>4, <2>5 DEF IInv
<1>4. CASE ~(c[1] < Len(built.counts))
  <2>1. /\ cursor' = <<1, 1>> /\ stage' = "idle" /\ ast' = "freed"
        /\ table' = [k \in 0 .. CountFunctions(built) - 1 |-> Garbage]
    BY <1>0, <1>4 DEF ImplementGroupEnd, StepGroup
  <2>2. Before(built, c) = FunctionsOf(built)
    BY <1>0, <1>4, BeforeLast
  <2>3. Generated' = FunctionsOf(built) /\ Len(symbols') = CountFunctions(built)
    BY <1>0, <1>1, <2>2 DEF Generated, Rank, CountFunctions
  <2>4. TypeOK'
    <3>1. cursor' \in FunctionName
      BY <2>1 DEF FunctionName
    <3>2. table' \in [0 .. CountFunctions(built) - 1 -> FunctionName \cup {Garbage}]
      BY <2>1
    <3> QED
      BY <1>0, <1>1, <2>1, <3>1, <3>2 DEF IInv, TypeOK
  <2>5. WalkInv'
    BY <1>0, <1>1, <2>1 DEF WalkInv
  <2>6. TableInv'
    <3>1. Len(symbols) \in Nat
      BY DEF IInv, TypeOK
    <3>2. \A k \in 1 .. Len(symbols') : table'[k - 1] = Garbage
      BY <1>1, <2>1, <2>3, <3>1
    <3> QED
      BY <1>0, <1>1, <2>3, <3>2 DEF TableInv
  <2>7. CallsReachTheirFunction'
    BY <2>1 DEF CallsReachTheirFunction
  <2> QED
    BY <1>2, <2>4, <2>5, <2>6, <2>7 DEF IInv
<1> QED
  BY <1>3, <1>4

LEMMA AssembleModuleKeepsIInv ==
  ASSUME IInv, NEW caller \in {"host", "run"}, AssembleModule(caller)
  PROVE  IInv'
<1>1. /\ stage' \in {"assembled", "assemble"} /\ assembled' = TRUE /\ next' = 1
      /\ afterwards' \in {"host", "run"}
      /\ UNCHANGED <<source, ast, compiled, built, slot, cursor, symbols>>
      /\ UNCHANGED <<native, running, table, failed>>
      /\ careless' \in BOOLEAN
  BY DEF AssembleModule, IsCareful, IInv, TypeOK, compile_vars
<1>2. TypeOK'
  <2>1. 1 \in 1 .. (Len(symbols) + 1)
    BY DEF IInv, TypeOK
  <2> QED
    BY <1>1, <2>1 DEF IInv, TypeOK, Assembling
<1>3. WalkInv' /\ NumberInv' /\ TableInv'
  BY <1>1, Frame
<1>4. CallsReachTheirFunction'
  BY <1>1 DEF CallsReachTheirFunction
<1> QED
  BY <1>2, <1>3, <1>4 DEF IInv

LEMMA AssembleFunctionKeepsIInv ==
  ASSUME IInv, AssembleFunction
  PROVE  IInv'
<1>0. /\ stage = "assemble" /\ next \in 1 .. Len(symbols) /\ Len(symbols) \in Nat
      /\ UNCHANGED <<source, ast, compiled, built, slot, cursor, symbols>>
      /\ UNCHANGED <<assembled, running, afterwards, careless>>
  BY DEF IInv, TypeOK, AssembleFunction, compile_vars
<1>1. CASE table' = table
  <2>1. /\ stage' \in {"assemble", "crashed", "idle"} /\ failed' \in BOOLEAN
        /\ native' \subseteq 1 .. Len(symbols) /\ next' \in 1 .. (Len(symbols) + 1)
    <3>1. /\ stage' \in {"assemble", "crashed", "idle"} /\ failed' \in BOOLEAN
          /\ native' \in {native, native \cup {next}} /\ next' \in {next, next + 1}
      BY <1>0, <1>1 DEF IInv, TypeOK, AssembleFunction
    <3> QED
      BY <1>0, <3>1 DEF IInv, TypeOK
  <2>2. TypeOK'
    BY <1>0, <1>1, <2>1 DEF IInv, TypeOK, Assembling
  <2>3. WalkInv' /\ NumberInv' /\ TableInv'
    BY <1>0, <1>1, <2>1, Frame
  <2>4. CallsReachTheirFunction'
    BY <2>1 DEF CallsReachTheirFunction
  <2> QED
    BY <2>2, <2>3, <2>4 DEF IInv
<1>2. CASE table' # table
  <2>1. /\ table # NoTable /\ table' = [table EXCEPT ![next - 1] = symbols[next]]
        /\ native' = native \cup {next} /\ next' = next + 1
        /\ UNCHANGED <<stage, failed>>
    BY <1>0, <1>2 DEF AssembleFunction, FillSlot
  <2>2. /\ compiled /\ DOMAIN slot = FunctionsOf(built)
        /\ Generated = FunctionsOf(built) /\ Len(symbols) = CountFunctions(built)
        /\ \A k \in 1 .. Len(symbols) : table[k - 1] \in {Garbage, symbols[k]}
        /\ table \in [0 .. Len(symbols) - 1 -> FunctionName \cup {Garbage}]
    BY <2>1 DEF IInv, TypeOK, TableInv
  <2>3. symbols[next] \in FunctionName
    BY <1>0 DEF IInv, TypeOK
  <2>4. next - 1 \in 0 .. Len(symbols) - 1
    BY <1>0
  <2>5. table' \in [0 .. Len(symbols) - 1 -> FunctionName \cup {Garbage}]
    BY <2>1, <2>2, <2>3, <2>4
  <2>6. TypeOK'
    <3>1. native' \subseteq 1 .. Len(symbols) /\ next' \in 1 .. (Len(symbols) + 1)
      BY <1>0, <2>1 DEF IInv, TypeOK
    <3>2. table' \in [0 .. CountFunctions(built)' - 1 -> FunctionName \cup {Garbage}]
      BY <1>0, <2>2, <2>5
    <3> QED
      BY <1>0, <2>1, <3>1, <3>2 DEF IInv, TypeOK
  <2>7. ASSUME NEW k \in 1 .. Len(symbols)
        PROVE  table'[k - 1] \in {Garbage, symbols[k]}
    <3>1. k - 1 \in 0 .. Len(symbols) - 1
      BY <1>0
    <3> QED
      BY <1>0, <2>1, <2>2, <3>1
  <2>8. WalkInv' /\ NumberInv'
    BY <1>0, <2>1, <2>2 DEF IInv, WalkInv, NumberInv, Rank, Before
  <2>9. TableInv'
    BY <1>0, <2>2, <2>7 DEF TableInv, Generated
  <2>10. CallsReachTheirFunction'
    BY <1>0, <2>1 DEF CallsReachTheirFunction
  <2> QED
    BY <2>6, <2>8, <2>9, <2>10 DEF IInv
<1> QED
  BY <1>1, <1>2

LEMMA AssembleEndsKeepIInv ==
  ASSUME IInv, AssembleEnd \/ AssembleReturns \/ RunReturns
  PROVE  IInv'
<1>1. /\ stage' \in {"assembled", "idle"}
      /\ UNCHANGED <<source, ast, compiled, built, slot, cursor, symbols>>
      /\ UNCHANGED <<assembled, native, next, running, afterwards, table, failed, careless>>
  BY DEF AssembleEnd, AssembleReturns, RunReturns, compile_vars, vm_vars
<1>2. TypeOK'
  BY <1>1 DEF IInv, TypeOK, Assembling
<1>3. WalkInv' /\ NumberInv' /\ TableInv'
  BY <1>1, Frame
<1>4. CallsReachTheirFunction'
  BY <1>1 DEF CallsReachTheirFunction
<1> QED
  BY <1>2, <1>3, <1>4 DEF IInv

LEMMA RunMainKeepsIInv ==
  ASSUME IInv, RunMain
  PROVE  IInv'
<1>1. /\ stage' \in {"idle", "crashed", "run"}
      /\ UNCHANGED <<source, ast, compiled, built, slot, cursor, symbols>>
      /\ UNCHANGED <<assembled, native, next, afterwards, table, failed, careless>>
  BY DEF RunMain, compile_vars
<1>2. \/ stage' # "run" /\ running' = running
      \/ \E f \in FunctionName : running' = <<f, f>>
  BY DEF IInv, TypeOK, RunMain, MainIndexes
<1>3. FunctionName \subseteq Nat \X Nat
  BY DEF FunctionName
<1>4. TypeOK'
  <2>1. running' \in (Nat \X Nat) \X (Nat \X Nat)
    BY <1>2, <1>3 DEF IInv, TypeOK
  <2> QED
    BY <1>1, <2>1 DEF IInv, TypeOK
<1>5. WalkInv' /\ NumberInv' /\ TableInv'
  BY <1>1, Frame
<1>6. CallsReachTheirFunction'
  BY <1>2 DEF CallsReachTheirFunction
<1> QED
  BY <1>4, <1>5, <1>6 DEF IInv

\* What a slot holds while a script runs, or at any other time.
LEMMA SlotsLeadToTheirFunctions ==
  IInv => FilledSlotsAreRight
<1> SUFFICES ASSUME IInv, table # NoTable, NEW f \in DOMAIN slot
             PROVE  table[slot[f]] \in {Garbage, f}
  BY DEF FilledSlotsAreRight
<1>1. built \in Programs /\ f \in FunctionsOf(built) /\ slot[f] = Rank(built, f)
  BY DEF IInv, TypeOK, NumberInv
<1>2. slot[f] \in 0 .. Len(symbols) - 1
  BY <1>1, RankIsBelowCount DEF IInv, TableInv
<1> DEFINE k == slot[f] + 1
<1>3. k \in 1 .. Len(symbols) /\ k - 1 = slot[f]
  BY <1>2 DEF IInv, TypeOK
<1>4. symbols[k] \in FunctionsOf(built) /\ Rank(built, symbols[k]) = slot[f]
  BY <1>3 DEF IInv, TypeOK, NumberInv
<1>5. symbols[k] = f
  BY <1>1, <1>4, RankIsInjective
<1>6. table[k - 1] \in {Garbage, symbols[k]}
  BY <1>3 DEF IInv, TableInv
<1> QED
  BY <1>3, <1>5, <1>6

LEMMA CallKeepsIInv ==
  ASSUME IInv, NEW f \in DOMAIN slot, Call(f)
  PROVE  IInv'
<1> DEFINE target == IF table = NoTable THEN Garbage ELSE table[slot[f]]
<1>1. /\ stage' = IF target = Garbage THEN "crashed" ELSE "run"
      /\ running' = <<f, IF target = Garbage THEN None ELSE target>>
      /\ UNCHANGED <<source, ast, compiled, built, slot, cursor, symbols>>
      /\ UNCHANGED <<assembled, native, next, afterwards, table, failed, careless>>
  BY DEF Call, compile_vars
<1>2. target \in {Garbage, f}
  BY SlotsLeadToTheirFunctions DEF FilledSlotsAreRight
<1>3. f \in Nat \X Nat
  BY FunctionNames DEF IInv, TypeOK, FunctionName
<1>4. TypeOK'
  <2>1. running' \in (Nat \X Nat) \X (Nat \X Nat)
    BY <1>1, <1>2, <1>3 DEF None
  <2>2. stage' \in {"crashed", "run"}
    BY <1>1
  <2> HIDE DEF target
  <2> QED
    BY <1>1, <2>1, <2>2 DEF IInv, TypeOK
<1>5. WalkInv' /\ NumberInv' /\ TableInv'
  BY <1>1, Frame
<1>6. CallsReachTheirFunction'
  BY <1>1, <1>2 DEF CallsReachTheirFunction
<1> QED
  BY <1>4, <1>5, <1>6 DEF IInv

LEMMA StutterKeepsIInv ==
  ASSUME IInv, UNCHANGED vars
  PROVE  IInv'
<1>1. /\ UNCHANGED <<stage, source, ast, compiled, built, slot, cursor, symbols>>
      /\ UNCHANGED <<assembled, native, next, running, afterwards, table, failed, careless>>
  BY DEF vars, compile_vars, vm_vars
<1>2. TypeOK'
  BY <1>1 DEF IInv, TypeOK
<1>3. WalkInv' /\ TableInv'
  BY <1>1 DEF IInv, WalkInv, TableInv, Rank, Before, Generated
<1>4. NumberInv'
  BY <1>1 DEF IInv, NumberInv, Rank, Before
<1>5. CallsReachTheirFunction'
  BY <1>1 DEF IInv, CallsReachTheirFunction
<1> QED
  BY <1>2, <1>3, <1>4, <1>5 DEF IInv

LEMMA NextKeepsIInv == IInv /\ [Next]_vars => IInv'
<1> SUFFICES ASSUME IInv, [Next]_vars PROVE IInv'
  OBVIOUS
<1>1. CASE CompileStep
  BY <1>1, ParseKeepsIInv, TypeCheckKeepsIInv, GenerateKeepsIInv,
     PrescanFunctionKeepsIInv, PrescanGroupEndKeepsIInv,
     ImplementFunctionKeepsIInv, ImplementGroupEndKeepsIInv
     DEF CompileStep
<1>2. CASE AssembleStep \/ RunReturns
  BY <1>2, AssembleFunctionKeepsIInv, AssembleEndsKeepIInv, RunMainKeepsIInv
     DEF AssembleStep
<1>3. CASE \E p \in Programs : Compile(p)
  BY <1>3, CompileKeepsIInv
<1>4. CASE \E caller \in {"host", "run"} : AssembleModule(caller)
  BY <1>4, AssembleModuleKeepsIInv
<1>5. CASE \E f \in DOMAIN slot : Call(f)
  BY <1>5, CallKeepsIInv
<1>6. CASE UNCHANGED vars
  BY <1>6, StutterKeepsIInv
<1> QED
  BY <1>1, <1>2, <1>3, <1>4, <1>5, <1>6 DEF Next

-----------------------------------------------------------------------------
(***************************************************************************)
(* The theorems.                                                           *)
(***************************************************************************)

\* Everything the numbering argument needs holds in every reachable state.
THEOREM Numbering == Spec => []IInv
<1>1. Init => IInv
  BY InitIInv
<1>2. IInv /\ [Next]_vars => IInv'
  BY NextKeepsIInv
<1> QED
  BY <1>1, <1>2, PTL DEF Spec

\* The state is always well typed.
THEOREM Typed == Spec => []TypeOK
<1>1. IInv => TypeOK
  BY DEF IInv
<1> QED
  BY <1>1, Numbering, PTL

\* The prescan numbers the functions as symbols_vector does, for every source
\* ("in EXACTLY the same order", lirgen_ast_walker.cc).
THEOREM SameOrder == Spec => []SlotsMatchSymbols
<1>1. IInv => SlotsMatchSymbols
  BY DEF IInv, NumberInv, SlotsMatchSymbols
<1> QED
  BY <1>1, Numbering, PTL

\* CountFunctions leaves room for every function, for every source.
THEOREM EnoughRoom == Spec => []TableHasRoom
<1>1. ASSUME IInv, NEW f \in DOMAIN slot PROVE slot[f] < CountFunctions(built)
  <2>1. built \in Programs /\ f \in FunctionsOf(built) /\ slot[f] = Rank(built, f)
    BY <1>1 DEF IInv, TypeOK, NumberInv
  <2>2. CountFunctions(built) \in Nat
    BY <2>1, FunctionsAreFinite, FS_CardinalityType DEF CountFunctions
  <2> QED
    BY <2>1, <2>2, RankIsBelowCount
<1>2. IInv => TableHasRoom
  BY <1>1 DEF TableHasRoom
<1> QED
  BY <1>2, Numbering, PTL

\* A filled slot leads to the function whose calls go through it, wherever
\* building stopped and whatever the host did before.
THEOREM RightSlots == Spec => []FilledSlotsAreRight
BY SlotsLeadToTheirFunctions, Numbering, PTL

\* A module with a function table holds all functions of its source.
THEOREM CompleteTable == Spec => []TableMeansComplete
<1>1. IInv => TableMeansComplete
  BY DEF IInv, TableInv, TableMeansComplete, Generated
<1> QED
  BY <1>1, Numbering, PTL

\* Every call of a running script lands in the function it names.
THEOREM RightCallee == Spec => []CallsReachTheirFunction
<1>1. IInv => CallsReachTheirFunction
  BY DEF IInv
<1> QED
  BY <1>1, Numbering, PTL

\* A module is generated into at most once: nothing the host does later
\* changes its functions or the slots their calls use.
THEOREM Once == Spec => GeneratedOnlyOnce
<1> DEFINE Kept == compiled /\ stage \notin {"prescan", "implement"} =>
                     UNCHANGED <<built, slot, symbols>>
<1>1. ASSUME Next PROVE Kept
  <2>1. CASE CompileStep
    <3>1. Parse \/ TypeCheck => UNCHANGED <<built, slot, symbols>>
      BY DEF Parse, TypeCheck
    <3>2. Generate /\ compiled => UNCHANGED <<built, slot, symbols>>
      BY DEF Generate, MayGenerate
    <3>3. PrescanFunction \/ PrescanGroupEnd => stage = "prescan"
      BY DEF PrescanFunction, PrescanGroupEnd
    <3>4. ImplementFunction \/ ImplementGroupEnd => stage = "implement"
      BY DEF ImplementFunction, ImplementGroupEnd
    <3> QED
      BY <2>1, <3>1, <3>2, <3>3, <3>4 DEF CompileStep
  <2>2. CASE AssembleStep \/ RunReturns
    BY <2>2 DEF AssembleStep, RunReturns, AssembleFunction, AssembleEnd, AssembleReturns,
       RunMain, compile_vars
  <2>3. CASE \E p \in Programs : Compile(p)
    BY <2>3 DEF Compile
  <2>4. CASE \E caller \in {"host", "run"} : AssembleModule(caller)
    BY <2>4 DEF AssembleModule, compile_vars
  <2>5. CASE \E f \in DOMAIN slot : Call(f)
    BY <2>5 DEF Call, compile_vars
  <2> QED
    BY <1>1, <2>1, <2>2, <2>3, <2>4, <2>5 DEF Next
<1>2. [Next]_vars => [Kept]_vars
  BY <1>1
<1> QED
  BY <1>2, PTL DEF Spec, GeneratedOnlyOnce

\* Compile frees the tree however it ends, as long as every failure of code
\* generation is an Exception.
FreeInv == TreeIsFreed /\ (stage = "parse" => ast # "live")

THEOREM Freed ==
  ASSUME ~GenericNew
  PROVE  Spec => []TreeIsFreed
<1>1. Init => FreeInv
  BY DEF Init, FreeInv, TreeIsFreed
<1>2. FreeInv /\ [Next]_vars => FreeInv'
  <2> SUFFICES ASSUME FreeInv, [Next]_vars PROVE FreeInv'
    OBVIOUS
  <2> USE DEF FreeInv, TreeIsFreed, Building
  <2>1. CASE Parse \/ TypeCheck \/ Generate
    BY <2>1 DEF Parse, TypeCheck, Generate, Throw
  <2>2. CASE PrescanFunction \/ PrescanGroupEnd
    BY <2>2 DEF PrescanFunction, PrescanGroupEnd, StepGroup
  <2>3. CASE ImplementFunction \/ ImplementGroupEnd
    <3>1. CASE ImplementFunction
      BY <3>1 DEF ImplementFunction, Throw
    <3>2. CASE ImplementGroupEnd
      BY <3>2 DEF ImplementGroupEnd, StepGroup
    <3> QED
      BY <2>3, <3>1, <3>2
  <2>4. CASE AssembleStep \/ RunReturns
    BY <2>4 DEF AssembleStep, RunReturns, AssembleFunction, AssembleEnd, AssembleReturns,
       RunMain, compile_vars
  <2>5. CASE \E p \in Programs : Compile(p)
    BY <2>5 DEF Compile
  <2>6. CASE \E caller \in {"host", "run"} : AssembleModule(caller)
    BY <2>6 DEF AssembleModule, compile_vars
  <2>7. CASE \E f \in DOMAIN slot : Call(f)
    BY <2>7 DEF Call, compile_vars
  <2>8. CASE UNCHANGED vars
    BY <2>8 DEF vars, compile_vars
  <2> QED
    BY <2>1, <2>2, <2>3, <2>4, <2>5, <2>6, <2>7, <2>8 DEF Next, CompileStep
<1> QED
  BY <1>1, <1>2, PTL DEF Spec, FreeInv

-----------------------------------------------------------------------------
(***************************************************************************)
(* A host that is careful meets no null table, no function without code    *)
(* and no unfilled slot, whatever the sources.  The argument: as long as   *)
(* the host has been careful, a module that has been assembled without a   *)
(* failure has native code for each of its functions and a table that is   *)
(* full, and AssembleModule has got as far as "next" with both.            *)
(***************************************************************************)

\* The first n functions have native code, and their slots lead to it.
Filled(n) ==
  /\ native = 1 .. n
  /\ \A k \in 1 .. n : table[k - 1] = symbols[k]

CareInv ==
  ~careless =>
    /\ stage # "crashed"
    /\ failed => stage = "idle"
    /\ assembled => table # NoTable
    /\ ~assembled => native = {}
    /\ stage \in Assembling \cup {"run"} => assembled
    /\ stage \in Assembling /\ afterwards = "run" => built.main # 0
    /\ stage = "assemble" => Filled(next - 1)
    /\ assembled /\ ~failed /\ stage # "assemble" => Filled(Len(symbols))

\* Compile, up to code generation, touches nothing an assembled module needs.
LEMMA FrontKeepsCareInv ==
  ASSUME IInv, CareInv,
         Parse \/ TypeCheck \/ Generate \/ \E p \in Programs : Compile(p)
  PROVE  CareInv'
<1> SUFFICES ASSUME ~careless' PROVE CareInv'
  BY DEF CareInv
<1>1. ~careless /\ ~failed
  <2>1. CASE \E p \in Programs : Compile(p)
    <3>1. ~(careless \/ failed)
      BY <2>1 DEF Compile
    <3> QED
      BY <3>1
  <2>2. CASE Parse \/ TypeCheck \/ Generate
    <3>1. ~careless /\ stage # "idle"
      BY <2>2 DEF Parse, TypeCheck, Generate
    <3> QED
      BY <3>1 DEF CareInv
  <2> QED
    BY <2>1, <2>2
<1>2. /\ stage' \in {"parse", "check", "generate", "prescan", "idle"}
      /\ UNCHANGED <<symbols, table, assembled, native, next>>
      /\ failed' => stage' = "idle" /\ ~compiled
  BY <1>1 DEF IInv, WalkInv, Parse, TypeCheck, Generate, MayGenerate, Throw, Compile, vm_vars
<1>3. /\ assembled => table # NoTable /\ Filled(Len(symbols))
      /\ ~assembled => native = {}
  BY <1>1 DEF CareInv, Parse, TypeCheck, Generate, Compile
<1>4. ~compiled => ~assembled
  BY <1>3 DEF IInv, WalkInv
<1> QED
  BY <1>2, <1>3, <1>4 DEF CareInv, Filled, Assembling

\* While the walks run there is no table, so nothing has been assembled.
LEMMA WalksKeepCareInv ==
  ASSUME IInv, CareInv,
         PrescanFunction \/ PrescanGroupEnd \/ ImplementFunction \/ ImplementGroupEnd
  PROVE  CareInv'
<1> SUFFICES ASSUME ~careless' PROVE CareInv'
  BY DEF CareInv
<1>1. stage \in {"prescan", "implement"} /\ ~careless
  BY DEF PrescanFunction, PrescanGroupEnd, ImplementFunction, ImplementGroupEnd
<1>2. ~failed /\ ~assembled /\ native = {}
  BY <1>1 DEF CareInv, IInv, WalkInv
<1>3. UNCHANGED <<assembled, native>>
  BY DEF PrescanFunction, PrescanGroupEnd, ImplementFunction, ImplementGroupEnd, vm_vars
<1>4. stage' \in {"prescan", "implement", "idle"} /\ (failed' => stage' = "idle")
  <2>1. CASE PrescanFunction \/ PrescanGroupEnd
    BY <1>1, <1>2, <2>1 DEF PrescanFunction, PrescanGroupEnd, StepGroup
  <2>2. CASE ImplementFunction \/ ImplementGroupEnd
    BY <1>1, <1>2, <2>2 DEF ImplementFunction, ImplementGroupEnd, StepGroup, Throw
  <2> QED
    BY <2>1, <2>2
<1> QED
  BY <1>2, <1>3, <1>4 DEF CareInv, Assembling

LEMMA AssembleModuleKeepsCareInv ==
  ASSUME IInv, CareInv, NEW caller \in {"host", "run"}, AssembleModule(caller)
  PROVE  CareInv'
<1> SUFFICES ASSUME ~careless' PROVE CareInv'
  BY DEF CareInv
<1>1. /\ stage = "idle" /\ ~careless /\ ~failed /\ table # NoTable
      /\ caller = "run" => built.main # 0
  BY DEF AssembleModule, IsCareful
<1>2. /\ stage' = IF assembled THEN "assembled" ELSE "assemble"
      /\ assembled' = TRUE /\ next' = 1 /\ afterwards' = caller
      /\ UNCHANGED <<built, symbols, native, table, failed>>
  BY DEF AssembleModule, compile_vars
<1>3. CASE assembled
  BY <1>1, <1>2, <1>3 DEF CareInv, Filled, Assembling
<1>4. CASE ~assembled
  <2>1. Filled(next - 1)'
    BY <1>1, <1>2, <1>4 DEF CareInv, Filled
  <2> QED
    BY <1>1, <1>2, <1>4, <2>1 DEF CareInv, Assembling
<1> QED
  BY <1>3, <1>4 DEF IInv, TypeOK

LEMMA AssembleFunctionKeepsCareInv ==
  ASSUME IInv, CareInv, AssembleFunction
  PROVE  CareInv'
<1> SUFFICES ASSUME ~careless' PROVE CareInv'
  BY DEF CareInv
<1>1. /\ stage = "assemble" /\ next \in 1 .. Len(symbols) /\ Len(symbols) \in Nat
      /\ ~careless /\ ~failed /\ assembled /\ table # NoTable
      /\ Filled(next - 1)
      /\ afterwards = "run" => built.main # 0
      /\ UNCHANGED <<built, symbols, assembled, afterwards>>
  BY DEF CareInv, IInv, TypeOK, AssembleFunction, Assembling, compile_vars
<1>2. CASE stage' = "idle" /\ failed' = TRUE /\ UNCHANGED <<native, next, table>>
  BY <1>1, <1>2 DEF CareInv, Assembling
<1>3. CASE /\ native' = native \cup {next} /\ next' = next + 1
           /\ FillSlot(next) /\ UNCHANGED <<stage, failed>>
  <2>1. table \in [0 .. Len(symbols) - 1 -> FunctionName \cup {Garbage}]
    BY <1>1 DEF IInv, TypeOK, TableInv
  <2>2. ASSUME NEW k \in 1 .. next PROVE table'[k - 1] = symbols'[k]
    <3>1. next - 1 \in 0 .. Len(symbols) - 1 /\ k - 1 \in 0 .. Len(symbols) - 1
      BY <1>1
    <3>2. CASE k = next
      BY <1>1, <1>3, <2>1, <3>1, <3>2 DEF FillSlot
    <3>3. CASE k # next
      <4>1. k \in 1 .. next - 1 /\ k - 1 # next - 1
        BY <1>1, <3>3
      <4> QED
        BY <1>1, <1>3, <2>1, <3>1, <4>1 DEF FillSlot, Filled
    <3> QED
      BY <3>2, <3>3
  <2>3. native' = 1 .. next /\ next' - 1 = next
    BY <1>1, <1>3 DEF Filled
  <2>4. Filled(next - 1)'
    BY <2>2, <2>3 DEF Filled
  <2>5. table' # NoTable
    <3>1. next - 1 \in 0 .. Len(symbols) - 1 /\ symbols[next] \in FunctionName
      BY <1>1 DEF IInv, TypeOK
    <3>2. table' \in [0 .. Len(symbols) - 1 -> FunctionName \cup {Garbage}]
      BY <1>3, <2>1, <3>1 DEF FillSlot
    <3>3. built \in Programs /\ Len(symbols) = Cardinality(FunctionsOf(built))
      BY <1>1 DEF IInv, TypeOK, TableInv, CountFunctions
    <3> QED
      BY <3>2, <3>3, GarbageAssumption
  <2> QED
    BY <1>1, <1>3, <2>4, <2>5 DEF CareInv, Assembling
<1> QED
  BY <1>1, <1>2, <1>3 DEF AssembleFunction

LEMMA AssembleEndKeepsCareInv ==
  ASSUME IInv, CareInv, AssembleEnd \/ AssembleReturns
  PROVE  CareInv'
<1> SUFFICES ASSUME ~careless' PROVE CareInv'
  BY DEF CareInv
<1>1. /\ stage \in Assembling /\ ~careless /\ ~failed /\ assembled /\ table # NoTable
      /\ afterwards = "run" => built.main # 0
      /\ UNCHANGED <<built, symbols, assembled, native, afterwards, table, failed>>
  BY DEF CareInv, AssembleEnd, AssembleReturns, Assembling, compile_vars, vm_vars
<1>2. Filled(Len(symbols)) /\ stage' \in {"assembled", "idle"}
  <2>1. CASE AssembleEnd
    <3>1. next - 1 = Len(symbols) /\ Filled(next - 1)
      BY <1>1, <2>1 DEF AssembleEnd, IInv, TypeOK, CareInv
    <3> QED
      BY <2>1, <3>1 DEF AssembleEnd
  <2>2. CASE AssembleReturns
    BY <1>1, <2>2 DEF AssembleReturns, CareInv
  <2> QED
    BY <2>1, <2>2
<1> QED
  BY <1>1, <1>2 DEF CareInv, Filled, Assembling

\* Run finds ::main among the symbols and its native code.
LEMMA RunMainKeepsCareInv ==
  ASSUME IInv, CareInv, RunMain
  PROVE  CareInv'
<1> SUFFICES ASSUME ~careless' PROVE CareInv'
  BY DEF CareInv
<1>1. /\ stage = "assembled" /\ ~careless /\ ~failed /\ assembled /\ table # NoTable
      /\ built.main # 0 /\ Filled(Len(symbols))
      /\ UNCHANGED <<symbols, assembled, native, table, failed>>
  BY DEF CareInv, RunMain, Assembling, compile_vars
<1>2. MainIndexes # {}
  <2>1. built \in Programs /\ Generated = FunctionsOf(built)
    BY <1>1 DEF IInv, TypeOK, TableInv
  <2>2. built.main \in 1 .. built.counts[1] /\ 1 \in DOMAIN built.counts
    <3>1. built.main \in 0 .. built.counts[1] /\ built.counts[1] \in Nat
          /\ 1 \in DOMAIN built.counts
      BY <2>1, FunctionsDef, ProgramsAssumption
    <3> QED
      BY <1>1, <3>1
  <2>3. <<1, built.main>> \in Generated
    BY <2>1, <2>2 DEF FunctionsOf, GroupOf
  <2> QED
    BY <2>3 DEF Generated, MainIndexes
<1>3. stage' = "run"
  BY <1>1, <1>2 DEF RunMain, MainIndexes, Filled
<1> QED
  BY <1>1, <1>3 DEF CareInv, Filled, Assembling

\* A call finds its slot filled.
LEMMA CallKeepsCareInv ==
  ASSUME IInv, CareInv, NEW f \in DOMAIN slot, Call(f)
  PROVE  CareInv'
<1> SUFFICES ASSUME ~careless' PROVE CareInv'
  BY DEF CareInv
<1>1. /\ stage = "run" /\ ~careless /\ ~failed /\ assembled /\ table # NoTable
      /\ Filled(Len(symbols))
      /\ UNCHANGED <<symbols, assembled, native, table, failed>>
  BY DEF CareInv, Call, compile_vars
<1>2. table[slot[f]] # Garbage
  <2>1. slot[f] \in 0 .. Len(symbols) - 1 /\ Len(symbols) \in Nat
    BY <1>1, RankIsBelowCount DEF IInv, TypeOK, NumberInv, TableInv
  <2> DEFINE k == slot[f] + 1
  <2>2. k \in 1 .. Len(symbols) /\ slot[f] = k - 1
    BY <2>1
  <2>3. table[k - 1] = symbols[k] /\ symbols[k] \in FunctionName
    BY <1>1, <2>2 DEF Filled, IInv, TypeOK
  <2> QED
    BY <2>2, <2>3, GarbageAssumption
<1>3. stage' = "run"
  BY <1>1, <1>2 DEF Call
<1> QED
  BY <1>1, <1>3 DEF CareInv, Filled, Assembling

LEMMA RunReturnsKeepsCareInv ==
  ASSUME IInv, CareInv, RunReturns \/ UNCHANGED vars
  PROVE  CareInv'
<1>1. UNCHANGED <<built, symbols, assembled, native, next, afterwards, table, failed, careless>>
  BY DEF RunReturns, vars, compile_vars, vm_vars
<1>2. stage' = stage \/ (stage = "run" /\ stage' = "idle")
  BY DEF RunReturns, vars
<1> QED
  BY <1>1, <1>2 DEF CareInv, Filled, Assembling

LEMMA NextKeepsCareInv == IInv /\ CareInv /\ [Next]_vars => CareInv'
<1> SUFFICES ASSUME IInv, CareInv, [Next]_vars PROVE CareInv'
  OBVIOUS
<1>1. CASE CompileStep
  BY <1>1, FrontKeepsCareInv, WalksKeepCareInv DEF CompileStep
<1>2. CASE AssembleStep \/ RunReturns \/ UNCHANGED vars
  BY <1>2, AssembleFunctionKeepsCareInv, AssembleEndKeepsCareInv, RunMainKeepsCareInv,
     RunReturnsKeepsCareInv
     DEF AssembleStep
<1>3. CASE \E p \in Programs : Compile(p)
  BY <1>3, FrontKeepsCareInv
<1>4. CASE \E caller \in {"host", "run"} : AssembleModule(caller)
  BY <1>4, AssembleModuleKeepsCareInv
<1>5. CASE \E f \in DOMAIN slot : Call(f)
  BY <1>5, CallKeepsCareInv
<1> QED
  BY <1>1, <1>2, <1>3, <1>4, <1>5 DEF Next

\* A host that stops at the first failure, assembles only what it has compiled
\* and runs only what has a ::main never jumps through a null table or an
\* unfilled slot and never into a function that has no code (HackyRunScriptMain
\* and the calls generated code makes), for every source.
THEOREM CarefulHost == Spec => []NothingCrashes
<1>1. Init => CareInv
  <2> SUFFICES ASSUME Init PROVE CareInv
    OBVIOUS
  <2> QED
    BY DEF Init, CareInv, Assembling
<1>2. Spec => [](IInv /\ CareInv)
  BY <1>1, NextKeepsCareInv, Numbering, PTL DEF Spec
<1>3. CareInv => NothingCrashes
  BY DEF CareInv, NothingCrashes
<1> QED
  BY <1>2, <1>3, PTL
=============================================================================
