---------------------------- MODULE ParserProofs ----------------------------
(***************************************************************************)
(* Every node the parser makes has one owner, and what Parse returns is    *)
(* one whole tree, whatever the source.  The argument has two halves.      *)
(* First, each function of the grammar, taken by itself, keeps to rules:   *)
(* it uses variables it has set, it gives up a node once, it deletes what  *)
(* it owns only before it throws, and it ends owning nothing but what it   *)
(* returns (Fit, AllFit).  Then, as long as the functions on the stack     *)
(* keep to them, so do the nodes: each is owned by one variable of one     *)
(* function, or the child of one node, once (Sound, ParserInv).            *)
(***************************************************************************)
EXTENDS Parser, SequenceTheorems, FiniteSetTheorems, TLAPS

-----------------------------------------------------------------------------
(***************************************************************************)
(* Which node belongs to whom, read off the program of a function: the     *)
(* variables it knows, and those it owns.  A point of a function is what   *)
(* is left of it to execute, with both; "op" says that the current token   *)
(* is an operator, "gives" that the function returns a node.               *)
(***************************************************************************)
Point(c, D, O, op, r) == [code |-> c, known |-> D, owned |-> O, op |-> op, gives |-> r]

\* The parameters of a function.  A parameter named "left" is handed over,
\* the others are lent; the functions that build on a node they are lent
\* return nothing, the others return a node.
Adopters == {"AssignExpressionB", "OrExpression", "AndExpressionB", "ComparisonExpressionB",
             "PrimaryExpressionB", "SecondaryExpressionB", "TertiaryExpressionB"}
Makers == {"Module", "AssignExpressionA", "AndExpressionA", "ComparisonExpressionA",
           "PrimaryExpressionA", "SecondaryExpressionA", "TertiaryExpressionA",
           "InvertExpression", "AtomicExpression", "ValueExpression", "NamedValueExpression",
           "CallExpression", "NewExpression", "DefaultExpression", "VariableExpression",
           "StringConstant"}
Lent(f) == IF f \in Adopters \cup Makers THEN {}
           ELSE IF f = "PropertyBodyFunction" THEN {"getter", "setter"} ELSE {"node"}
Handed(f) == IF f \in Adopters THEN {"left"} ELSE {}
Gives(f) == f \in Adopters \cup Makers
Entry(f) == Point(Code[f], Lent(f) \cup Handed(f), Handed(f), FALSE, Gives(f))

\* One of the points P is at this code, and asks for no more variables.
Goes(P, c, D, O, r) == \E E \in SUBSET D : Point(c, E, O, FALSE, r) \in P

MayEnd(t) == t.code = <<>> => t.owned = {} /\ ~t.gives

MayNew(P, i, c, D, O, r) ==
  i[1] = "new" =>
    /\ i[2] \notin O /\ i[3] \in Rules \ {"freed"}
    /\ i[4] = Nothing => Goes(P, c, D \cup {i[2]}, O \cup {i[2]}, r)
    /\ i[4] # Nothing => i[4] \in D /\ Goes(P, c, D \cup {i[2]}, O, r)

MayOperate(P, i, c, D, O, op, r) ==
  i[1] = "operation" =>
    op /\ i[2] \notin O /\ Goes(P, c, D \cup {i[2]}, O \cup {i[2]}, r)

MayAdd(P, i, c, D, O, r) ==
  i[1] = "add" => i[2] \in D /\ i[3] \in O \ {"module"} /\ Goes(P, c, D, O \ {i[3]}, r)

MayDelete(P, i, c, D, O, r) ==
  i[1] = "delete" => i[2] \in O /\ c # <<>> /\ Head(c)[1] = "throw"

MayPass(P, i, c, D, O, r) ==
  i[1] \in {"advance", "end try"} => Goes(P, c, D, O, r)

MayTry(P, i, c, D, O, r) ==
  i[1] = "try" => i[2] \in D /\ Goes(P, c, D, O, r)

MayLet(P, i, c, D, O, r) ==
  i[1] = "let" => i[2] \notin O /\ i[3] \in D /\ Goes(P, c, D \cup {i[2]}, O, r)

Tells(c) == c[1] = "current" /\ c[2] \subseteq Operators

MayBranch(P, i, c, D, O, r) ==
  i[1] = "if" =>
    /\ Goes(P, i[4] \o c, D, O, r)
    /\ \/ Goes(P, i[3] \o c, D, O, r)
       \/ Tells(i[2]) /\ \E E \in SUBSET D : Point(i[3] \o c, E, O, TRUE, r) \in P

MayLoop(P, i, c, D, O, r) ==
  i[1] = "while" => Goes(P, Append(i[3], i) \o c, D, O, r) /\ Goes(P, c, D, O, r)

HandedOver(args) == {args[p] : p \in DOMAIN args \cap {"left"}}

MayCall(P, i, c, D, O, r) ==
  i[1] = "call" =>
    /\ i[3] \in DOMAIN Code
    /\ DOMAIN i[4] = Lent(i[3]) \cup Handed(i[3])
    /\ \A p \in DOMAIN i[4] : i[4][p] \in D
    /\ HandedOver(i[4]) \subseteq O \ {"module"}
    /\ Gives(i[3]) => /\ i[2] # Nothing /\ i[2] \notin O \ HandedOver(i[4])
                      /\ Goes(P, c, D \cup {i[2]}, (O \ HandedOver(i[4])) \cup {i[2]}, r)
    /\ ~Gives(i[3]) => i[2] = Nothing /\ Goes(P, c, D, O, r)

MayReturn(P, i, c, D, O, r) ==
  i[1] = "return" => IF i[2] = Nothing THEN O = {} /\ ~r ELSE O = {i[2]} /\ r

Obeys(P, i, c, D, O, op, r) ==
  /\ MayNew(P, i, c, D, O, r) /\ MayOperate(P, i, c, D, O, op, r)
  /\ MayAdd(P, i, c, D, O, r) /\ MayDelete(P, i, c, D, O, r)
  /\ MayPass(P, i, c, D, O, r) /\ MayTry(P, i, c, D, O, r) /\ MayLet(P, i, c, D, O, r)
  /\ MayBranch(P, i, c, D, O, r) /\ MayLoop(P, i, c, D, O, r)
  /\ MayCall(P, i, c, D, O, r) /\ MayReturn(P, i, c, D, O, r)

Listed(c) == c \in Seq({c[i] : i \in DOMAIN c})

\* What the instruction of a point does keeps to the rules, and what comes
\* after it is one of the points P.
Moves(P, t) ==
  /\ t.owned \subseteq t.known /\ Listed(t.code)
  /\ MayEnd(t)
  /\ t.code # <<>> =>
       Obeys(P, Head(t.code), Tail(t.code), t.known, t.owned, t.op, t.gives)

\* A point from which every step keeps to the rules, for ever.
Fit(t) == \E P : t \in P /\ \A u \in P : Moves(P, u)

\* The same, for as long as none of the points Q is reached.
Leads(Q, c, D, O, r) ==
  \E P : Goes(P, c, D, O, r) /\ \A u \in P : u \in Q \/ Moves(P \cup Q, u)

\* A piece of a program: however it goes on, to get through it leads to one
\* of the states X, which are what is known and what is owned after it.
Block(c, D, O, X, r) ==
  /\ Listed(c)
  /\ \A Q, rest : /\ Listed(rest)
                  /\ \A x \in X : Leads(Q, rest, x[1], x[2], r)
                  => Leads(Q, c \o rest, D, O, r)

-----------------------------------------------------------------------------
\* What leads to some points leads to more points.
LEMMA WiderGoes ==
  ASSUME NEW P, NEW R, P \subseteq R, NEW c, NEW D, NEW O, NEW r, Goes(P, c, D, O, r)
  PROVE Goes(R, c, D, O, r)
BY DEF Goes

LEMMA WiderObeys ==
  ASSUME NEW P, NEW R, P \subseteq R, NEW i, NEW c, NEW D, NEW O, NEW op, NEW r,
         Obeys(P, i, c, D, O, op, r)
  PROVE Obeys(R, i, c, D, O, op, r)
<1> USE WiderGoes
<1>1. MayNew(R, i, c, D, O, r) /\ MayOperate(R, i, c, D, O, op, r)
  BY DEF Obeys, MayNew, MayOperate
<1>2. MayAdd(R, i, c, D, O, r) /\ MayDelete(R, i, c, D, O, r)
  BY DEF Obeys, MayAdd, MayDelete
<1>3. MayPass(R, i, c, D, O, r) /\ MayTry(R, i, c, D, O, r) /\ MayLet(R, i, c, D, O, r)
  BY DEF Obeys, MayPass, MayTry, MayLet
<1>4. MayBranch(R, i, c, D, O, r)
  BY DEF Obeys, MayBranch
<1>5. MayLoop(R, i, c, D, O, r)
  BY DEF Obeys, MayLoop
<1>6. MayCall(R, i, c, D, O, r) /\ MayReturn(R, i, c, D, O, r)
  BY DEF Obeys, MayCall, MayReturn
<1>7. QED
  BY <1>1, <1>2, <1>3, <1>4, <1>5, <1>6 DEF Obeys

LEMMA WiderMoves ==
  ASSUME NEW P, NEW R, P \subseteq R, NEW t, Moves(P, t)
  PROVE Moves(R, t)
BY WiderObeys DEF Moves

\* The fields of a point.
LEMMA Points ==
  ASSUME NEW c, NEW D, NEW O, NEW op, NEW r
  PROVE LET t == Point(c, D, O, op, r)
        IN  t.code = c /\ t.known = D /\ t.owned = O /\ t.op = op /\ t.gives = r
BY DEF Point

\* A point that moves to where Leads leads to, leads there.
LEMMA Step ==
  ASSUME NEW Q, NEW P, NEW c, NEW D, NEW O, NEW r,
         \A u \in P : u \in Q \/ Moves(P \cup Q, u),
         Moves(P \cup Q, Point(c, D, O, FALSE, r))
  PROVE Leads(Q, c, D, O, r)
<1> DEFINE t == Point(c, D, O, FALSE, r)
           R == P \cup {t}
<1>1. Goes(R, c, D, O, r)
  BY DEF Goes
<1>2. ASSUME NEW u \in R PROVE u \in Q \/ Moves(R \cup Q, u)
  <2>1. P \cup Q \subseteq R \cup Q
    OBVIOUS
  <2>2. u \in Q \/ Moves(P \cup Q, u)
    OBVIOUS
  <2>3. QED
    BY <2>1, <2>2, WiderMoves
<1>3. QED
  BY <1>1, <1>2 DEF Leads

\* What leads to some of the points leads to all of them.
LEMMA LeadsWider ==
  ASSUME NEW Q, NEW R, Q \subseteq R, NEW c, NEW D, NEW E, D \subseteq E, NEW O, NEW r,
         Leads(Q, c, D, O, r)
  PROVE Leads(R, c, E, O, r)
<1>1. PICK P : Goes(P, c, D, O, r) /\ \A u \in P : u \in Q \/ Moves(P \cup Q, u)
  BY DEF Leads
<1>2. Goes(P, c, E, O, r)
  BY <1>1 DEF Goes
<1>3. ASSUME NEW u \in P PROVE u \in R \/ Moves(P \cup R, u)
  <2>1. P \cup Q \subseteq P \cup R
    OBVIOUS
  <2>2. QED
    BY <1>1, <2>1, WiderMoves
<1>4. QED
  BY <1>2, <1>3 DEF Leads

-----------------------------------------------------------------------------
(***************************************************************************)
(* Pieces of programs, put together.                                       *)
(***************************************************************************)
LEMMA ListedIn ==
  ASSUME NEW S, NEW c \in Seq(S)
  PROVE Listed(c)
<1>1. c \in [1 .. Len(c) -> {c[i] : i \in DOMAIN c}] /\ Len(c) \in Nat
  OBVIOUS
<1>2. QED
  BY <1>1 DEF Listed

LEMMA ListedFacts ==
  ASSUME NEW a, NEW b, NEW c, Listed(a), Listed(b), Listed(c)
  PROVE /\ a \o (b \o c) = (a \o b) \o c
        /\ a \o <<>> = a /\ <<>> \o a = a
        /\ Listed(a \o b)
<1> DEFINE S == {a[i] : i \in DOMAIN a} \cup {b[i] : i \in DOMAIN b} \cup {c[i] : i \in DOMAIN c}
<1>1. a \in Seq(S) /\ b \in Seq(S) /\ c \in Seq(S)
  BY DEF Listed
<1> HIDE DEF S
<1>2. a \o b \in Seq(S)
  BY <1>1
<1>3. Listed(a \o b)
  BY <1>2, ListedIn
<1>4. a \o (b \o c) = (a \o b) \o c
  BY <1>1
<1>5. a \o <<>> = a /\ <<>> \o a = a
  BY <1>1
<1>6. QED
  BY <1>3, <1>4, <1>5

LEMMA FirstFacts ==
  ASSUME NEW i, NEW c, Listed(c)
  PROVE /\ Head(<<i>> \o c) = i /\ Tail(<<i>> \o c) = c /\ <<i>> \o c # <<>>
        /\ Listed(<<i>>) /\ Listed(<<i>> \o c)
<1> DEFINE S == {i} \cup {c[j] : j \in DOMAIN c}
<1>1. c \in Seq(S) /\ i \in S
  BY DEF Listed
<1> HIDE DEF S
<1>2. <<i>> \in Seq(S) /\ <<i>> \o c \in Seq(S)
  BY <1>1
<1>3. Listed(<<i>>) /\ Listed(<<i>> \o c)
  BY <1>2, ListedIn
<1>4. QED
  BY <1>1, <1>3

LEMMA NilListed == Listed(<<>>)
BY ListedIn, <<>> \in Seq({})

\* An instruction that is obeyed at a point of Q or P before its rest.
LEMMA FirstStep ==
  ASSUME NEW Q, NEW P, NEW i, NEW c, Listed(c), NEW D, NEW O, O \subseteq D, NEW r,
         \A u \in P : u \in Q \/ Moves(P \cup Q, u),
         Obeys(P \cup Q, i, c, D, O, FALSE, r)
  PROVE Leads(Q, <<i>> \o c, D, O, r)
<1> DEFINE t == Point(<<i>> \o c, D, O, FALSE, r)
<1>1. t.code = <<i>> \o c /\ t.known = D /\ t.owned = O /\ t.op = FALSE /\ t.gives = r
  BY DEF Point
<1> HIDE DEF t
<1>2. Moves(P \cup Q, t)
  BY <1>1, FirstFacts DEF Moves, MayEnd
<1>3. QED
  BY <1>2, Step DEF t

LEMMA OneStep ==
  ASSUME NEW i, NEW D, NEW O, O \subseteq D, NEW E, NEW N, NEW r,
         \A P, c : Goes(P, c, E, N, r) => Obeys(P, i, c, D, O, FALSE, r)
  PROVE Block(<<i>>, D, O, {<<E, N>>}, r)
<1>1. Listed(<<i>>)
  BY FirstFacts, NilListed
<1>2. ASSUME NEW Q, NEW rest, Listed(rest), \A x \in {<<E, N>>} : Leads(Q, rest, x[1], x[2], r)
      PROVE Leads(Q, <<i>> \o rest, D, O, r)
  <2>1. PICK P : Goes(P, rest, E, N, r) /\ \A u \in P : u \in Q \/ Moves(P \cup Q, u)
    <3>1. Leads(Q, rest, E, N, r)
      BY <1>2
    <3>2. QED
      BY <3>1 DEF Leads
  <2>2. Goes(P \cup Q, rest, E, N, r)
    BY <2>1, WiderGoes
  <2>3. Obeys(P \cup Q, i, rest, D, O, FALSE, r)
    BY <2>2
  <2>4. QED
    BY <1>2, <2>1, <2>3, FirstStep
<1>3. QED
  BY <1>1, <1>2 DEF Block

LEMMA LastStep ==
  ASSUME NEW i, NEW D, NEW O, O \subseteq D, NEW r,
         \A P, c : Obeys(P, i, c, D, O, FALSE, r)
  PROVE Block(<<i>>, D, O, {}, r)
<1>1. Listed(<<i>>)
  BY FirstFacts, NilListed
<1>2. ASSUME NEW Q, NEW rest, Listed(rest)
      PROVE Leads(Q, <<i>> \o rest, D, O, r)
  <2>1. Obeys({} \cup Q, i, rest, D, O, FALSE, r)
    OBVIOUS
  <2>2. \A u \in {} : u \in Q \/ Moves({} \cup Q, u)
    OBVIOUS
  <2>3. QED
    BY <1>2, <2>1, <2>2, FirstStep
<1>3. QED
  BY <1>1, <1>2 DEF Block

\* The instructions that only go on.
LEMMA Kinds ==
  ASSUME NEW P, NEW i, NEW c, NEW D, NEW O, NEW op, NEW r
  PROVE /\ i[1] = "new" /\ MayNew(P, i, c, D, O, r) => Obeys(P, i, c, D, O, op, r)
        /\ i[1] = "operation" /\ MayOperate(P, i, c, D, O, op, r) => Obeys(P, i, c, D, O, op, r)
        /\ i[1] = "add" /\ MayAdd(P, i, c, D, O, r) => Obeys(P, i, c, D, O, op, r)
        /\ i[1] = "delete" /\ MayDelete(P, i, c, D, O, r) => Obeys(P, i, c, D, O, op, r)
        /\ i[1] \in {"advance", "end try"} /\ MayPass(P, i, c, D, O, r) => Obeys(P, i, c, D, O, op, r)
        /\ i[1] = "try" /\ MayTry(P, i, c, D, O, r) => Obeys(P, i, c, D, O, op, r)
        /\ i[1] = "let" /\ MayLet(P, i, c, D, O, r) => Obeys(P, i, c, D, O, op, r)
        /\ i[1] = "if" /\ MayBranch(P, i, c, D, O, r) => Obeys(P, i, c, D, O, op, r)
        /\ i[1] = "while" /\ MayLoop(P, i, c, D, O, r) => Obeys(P, i, c, D, O, op, r)
        /\ i[1] = "call" /\ MayCall(P, i, c, D, O, r) => Obeys(P, i, c, D, O, op, r)
        /\ i[1] = "return" /\ MayReturn(P, i, c, D, O, r) => Obeys(P, i, c, D, O, op, r)
        /\ i[1] = "throw" => Obeys(P, i, c, D, O, op, r)
<1>1. i[1] = "new" /\ MayNew(P, i, c, D, O, r) => Obeys(P, i, c, D, O, op, r)
  BY DEF Obeys, MayOperate, MayAdd, MayDelete, MayPass, MayTry, MayLet, MayBranch, MayLoop, MayCall, MayReturn
<1>2. i[1] = "operation" /\ MayOperate(P, i, c, D, O, op, r) => Obeys(P, i, c, D, O, op, r)
  BY DEF Obeys, MayNew, MayAdd, MayDelete, MayPass, MayTry, MayLet, MayBranch, MayLoop, MayCall, MayReturn
<1>3. i[1] = "add" /\ MayAdd(P, i, c, D, O, r) => Obeys(P, i, c, D, O, op, r)
  BY DEF Obeys, MayNew, MayOperate, MayDelete, MayPass, MayTry, MayLet, MayBranch, MayLoop, MayCall, MayReturn
<1>4. i[1] = "delete" /\ MayDelete(P, i, c, D, O, r) => Obeys(P, i, c, D, O, op, r)
  BY DEF Obeys, MayNew, MayOperate, MayAdd, MayPass, MayTry, MayLet, MayBranch, MayLoop, MayCall, MayReturn
<1>5. i[1] \in {"advance", "end try"} /\ MayPass(P, i, c, D, O, r) => Obeys(P, i, c, D, O, op, r)
  BY DEF Obeys, MayNew, MayOperate, MayAdd, MayDelete, MayTry, MayLet, MayBranch, MayLoop, MayCall, MayReturn
<1>6. i[1] = "try" /\ MayTry(P, i, c, D, O, r) => Obeys(P, i, c, D, O, op, r)
  BY DEF Obeys, MayNew, MayOperate, MayAdd, MayDelete, MayPass, MayLet, MayBranch, MayLoop, MayCall, MayReturn
<1>7. i[1] = "let" /\ MayLet(P, i, c, D, O, r) => Obeys(P, i, c, D, O, op, r)
  BY DEF Obeys, MayNew, MayOperate, MayAdd, MayDelete, MayPass, MayTry, MayBranch, MayLoop, MayCall, MayReturn
<1>8. i[1] = "if" /\ MayBranch(P, i, c, D, O, r) => Obeys(P, i, c, D, O, op, r)
  BY DEF Obeys, MayNew, MayOperate, MayAdd, MayDelete, MayPass, MayTry, MayLet, MayLoop, MayCall, MayReturn
<1>9. i[1] = "while" /\ MayLoop(P, i, c, D, O, r) => Obeys(P, i, c, D, O, op, r)
  BY DEF Obeys, MayNew, MayOperate, MayAdd, MayDelete, MayPass, MayTry, MayLet, MayBranch, MayCall, MayReturn
<1>10. i[1] = "call" /\ MayCall(P, i, c, D, O, r) => Obeys(P, i, c, D, O, op, r)
  BY DEF Obeys, MayNew, MayOperate, MayAdd, MayDelete, MayPass, MayTry, MayLet, MayBranch, MayLoop, MayReturn
<1>11. i[1] = "return" /\ MayReturn(P, i, c, D, O, r) => Obeys(P, i, c, D, O, op, r)
  BY DEF Obeys, MayNew, MayOperate, MayAdd, MayDelete, MayPass, MayTry, MayLet, MayBranch, MayLoop, MayCall
<1>12. i[1] = "throw" => Obeys(P, i, c, D, O, op, r)
  BY DEF Obeys, MayNew, MayOperate, MayAdd, MayDelete, MayPass, MayTry, MayLet, MayBranch, MayLoop, MayCall, MayReturn
<1>13. QED
  BY <1>1, <1>2, <1>3, <1>4, <1>5, <1>6, <1>7, <1>8, <1>9, <1>10, <1>11, <1>12

\* A new node without a parent is owned by its variable.
LEMMA NewBlock ==
  ASSUME NEW v, NEW rule \in Rules \ {"freed"}, NEW D, NEW O \in SUBSET D, v \notin O, NEW r,
         NEW E, E = D \cup {v}, NEW N, N = O \cup {v}
  PROVE Block(<<New(v, rule, Nothing)>>, D, O, {<<E, N>>}, r)
<1> DEFINE i == New(v, rule, Nothing)
<1>1. i[1] = "new" /\ i[2] = v /\ i[3] = rule /\ i[4] = Nothing
  BY DEF New
<1> HIDE DEF i
<1>2. ASSUME NEW P, NEW c, Goes(P, c, E, N, r)
      PROVE Obeys(P, i, c, D, O, FALSE, r)
  <2>1. MayNew(P, i, c, D, O, r)
    BY <1>1, <1>2 DEF MayNew
  <2>2. QED
    BY <1>1, <2>1, Kinds
<1>3. QED
  BY <1>2, OneStep DEF i

\* A new node with a parent is known and not owned.
LEMMA NewKidBlock ==
  ASSUME NEW v, NEW rule \in Rules \ {"freed"}, NEW D, NEW p \in D, p # Nothing,
         NEW O \in SUBSET D, v \notin O, NEW r, NEW E, E = D \cup {v}
  PROVE Block(<<New(v, rule, p)>>, D, O, {<<E, O>>}, r)
<1> DEFINE i == New(v, rule, p)
<1>1. i[1] = "new" /\ i[2] = v /\ i[3] = rule /\ i[4] = p
  BY DEF New
<1> HIDE DEF i
<1>2. ASSUME NEW P, NEW c, Goes(P, c, E, O, r)
      PROVE Obeys(P, i, c, D, O, FALSE, r)
  <2>1. MayNew(P, i, c, D, O, r)
    BY <1>1, <1>2 DEF MayNew
  <2>2. QED
    BY <1>1, <2>1, Kinds
<1>3. QED
  BY <1>2, OneStep DEF i

\* To add a child is to own it no longer.
LEMMA AddBlock ==
  ASSUME NEW D, NEW O \in SUBSET D, NEW p \in D, NEW c \in O \ {"module"}, NEW r,
         NEW N, N = O \ {c}
  PROVE Block(<<Add(p, c)>>, D, O, {<<D, N>>}, r)
<1> DEFINE i == Add(p, c)
<1>1. i[1] = "add" /\ i[2] = p /\ i[3] = c
  BY DEF Add
<1> HIDE DEF i
<1>2. ASSUME NEW P, NEW d, Goes(P, d, D, N, r)
      PROVE Obeys(P, i, d, D, O, FALSE, r)
  <2>1. MayAdd(P, i, d, D, O, r)
    BY <1>1, <1>2 DEF MayAdd
  <2>2. QED
    BY <1>1, <2>1, Kinds
<1>3. QED
  BY <1>2, OneStep DEF i

\* A second name for a node does not own it.
LEMMA LetBlock ==
  ASSUME NEW D, NEW O \in SUBSET D, NEW v, v \notin O, NEW w \in D, NEW r,
         NEW E, E = D \cup {v}
  PROVE Block(<<Let(v, w)>>, D, O, {<<E, O>>}, r)
<1> DEFINE i == Let(v, w)
<1>1. i[1] = "let" /\ i[2] = v /\ i[3] = w
  BY DEF Let
<1> HIDE DEF i
<1>2. ASSUME NEW P, NEW d, Goes(P, d, E, O, r)
      PROVE Obeys(P, i, d, D, O, FALSE, r)
  <2>1. MayLet(P, i, d, D, O, r)
    BY <1>1, <1>2 DEF MayLet
  <2>2. QED
    BY <1>1, <2>1, Kinds
<1>3. QED
  BY <1>2, OneStep DEF i

\* Instructions that touch no node: advance, the end of a try.
LEMMA PassBlock ==
  ASSUME NEW i, NEW D, NEW O \in SUBSET D, NEW r,
         i[1] \in {"advance", "end try"} \/ (i[1] = "try" /\ i[2] \in D)
  PROVE Block(<<i>>, D, O, {<<D, O>>}, r)
<1>1. ASSUME NEW P, NEW c, Goes(P, c, D, O, r)
      PROVE Obeys(P, i, c, D, O, FALSE, r)
  <2>1. CASE i[1] \in {"advance", "end try"}
    BY <1>1, <2>1, Kinds DEF MayPass
  <2>2. CASE i[1] = "try" /\ i[2] \in D
    BY <1>1, <2>2, Kinds DEF MayTry
  <2>3. QED
    BY <2>1, <2>2
<1>2. QED
  BY <1>1, OneStep

LEMMA AdvanceBlock ==
  ASSUME NEW D, NEW O \in SUBSET D, NEW r
  PROVE Block(<<Advance>>, D, O, {<<D, O>>}, r)
<1>1. Advance[1] \in {"advance", "end try"}
  BY DEF Advance
<1>2. Advance[1] \in {"advance", "end try"} \/ (Advance[1] = "try" /\ Advance[2] \in D)
  BY <1>1
<1>3. QED
  BY <1>2, PassBlock

\* Nothing comes after a throw, or a return.
LEMMA ThrowBlock ==
  ASSUME NEW D, NEW O \in SUBSET D, NEW r
  PROVE Block(<<Throw>>, D, O, {}, r)
<1>1. Throw[1] = "throw"
  BY DEF Throw
<1>2. \A P, c : Obeys(P, Throw, c, D, O, FALSE, r)
  BY <1>1, Kinds
<1>3. QED
  BY <1>2, LastStep

LEMMA ReturnBlock ==
  ASSUME NEW D, NEW v \in D, v # Nothing
  PROVE Block(<<Return(v)>>, D, {v}, {}, TRUE)
<1> DEFINE i == Return(v)
<1>1. i[1] = "return" /\ i[2] = v
  BY DEF Return
<1> HIDE DEF i
<1>2. ASSUME NEW P, NEW c PROVE Obeys(P, i, c, D, {v}, FALSE, TRUE)
  BY <1>1, Kinds DEF MayReturn
<1>3. QED
  BY <1>2, LastStep DEF i

LEMMA LeaveBlock ==
  ASSUME NEW D
  PROVE Block(<<Return(Nothing)>>, D, {}, {}, FALSE)
<1> DEFINE i == Return(Nothing)
<1>1. i[1] = "return" /\ i[2] = Nothing
  BY DEF Return
<1> HIDE DEF i
<1>2. ASSUME NEW P, NEW c PROVE Obeys(P, i, c, D, {}, FALSE, FALSE)
  BY <1>1, Kinds DEF MayReturn
<1>3. QED
  BY <1>2, LastStep DEF i

\* What is found before the end of a piece that gives up.
LEMMA DeadBlock ==
  ASSUME NEW c, NEW D, NEW O, NEW X, NEW r, Block(c, D, O, {}, r)
  PROVE Block(c, D, O, X, r)
BY DEF Block

LEMMA NilBlock ==
  ASSUME NEW D, NEW O, NEW r
  PROVE Block(<<>>, D, O, {<<D, O>>}, r)
<1>1. ASSUME NEW Q, NEW rest, Listed(rest), \A x \in {<<D, O>>} : Leads(Q, rest, x[1], x[2], r)
      PROVE Leads(Q, <<>> \o rest, D, O, r)
  <2>1. <<>> \o rest = rest
    BY <1>1, NilListed, ListedFacts
  <2>2. Leads(Q, rest, D, O, r)
    BY <1>1
  <2>3. QED
    BY <2>1, <2>2
<1>2. QED
  BY <1>1, NilListed DEF Block

\* More may be known before a piece, and less after it.
LEMMA WiderBlock ==
  ASSUME NEW c, NEW D, NEW F, NEW O, NEW E, NEW N, NEW G, NEW r,
         D \subseteq F, G \subseteq E, Block(c, D, O, {<<E, N>>}, r)
  PROVE Block(c, F, O, {<<G, N>>}, r)
<1>1. Listed(c)
  BY DEF Block
<1>2. ASSUME NEW Q, NEW rest, Listed(rest), \A x \in {<<G, N>>} : Leads(Q, rest, x[1], x[2], r)
      PROVE Leads(Q, c \o rest, F, O, r)
  <2>1. Leads(Q, rest, G, N, r)
    BY <1>2
  <2>2. Leads(Q, rest, E, N, r)
    BY <2>1, LeadsWider
  <2>3. \A x \in {<<E, N>>} : Leads(Q, rest, x[1], x[2], r)
    BY <2>2
  <2>4. Leads(Q, c \o rest, D, O, r)
    BY <1>2, <2>3 DEF Block
  <2>5. QED
    BY <2>4, LeadsWider
<1>3. QED
  BY <1>1, <1>2 DEF Block

\* Two pieces in a row: every way out of the first is a way into the second.
LEMMA Sequence ==
  ASSUME NEW a, NEW b, NEW D, NEW O, NEW E, NEW N, NEW X, NEW r,
         Block(a, D, O, {<<E, N>>}, r), Block(b, E, N, X, r)
  PROVE Block(a \o b, D, O, X, r)
<1>1. Listed(a) /\ Listed(b)
  BY DEF Block
<1>2. Listed(a \o b)
  BY <1>1, ListedFacts
<1>3. ASSUME NEW Q, NEW rest, Listed(rest), \A x \in X : Leads(Q, rest, x[1], x[2], r)
      PROVE Leads(Q, (a \o b) \o rest, D, O, r)
  <2>1. Leads(Q, b \o rest, E, N, r)
    BY <1>3 DEF Block
  <2>2. Listed(b \o rest) /\ (a \o b) \o rest = a \o (b \o rest)
    BY <1>1, <1>3, ListedFacts
  <2>3. \A x \in {<<E, N>>} : Leads(Q, b \o rest, x[1], x[2], r)
    BY <2>1
  <2>4. Leads(Q, a \o (b \o rest), D, O, r)
    BY <2>2, <2>3 DEF Block
  <2>5. QED
    BY <2>2, <2>4
<1>4. QED
  BY <1>2, <1>3 DEF Block

\* An instruction before a piece: what a tuple of instructions is made of.
LEMMA Cons ==
  ASSUME NEW i, NEW b, NEW D, NEW O, NEW E, NEW N, NEW X, NEW r,
         Block(<<i>>, D, O, {<<E, N>>}, r), Block(b, E, N, X, r)
  PROVE Block(<<i>> \o b, D, O, X, r)
BY Sequence

\* Two points of P that both go on: all of what either leads to.
LEMMA BothLead ==
  ASSUME NEW Q, NEW c, NEW D, NEW O, NEW d, NEW E, NEW N, NEW r,
         Leads(Q, c, D, O, r), Leads(Q, d, E, N, r)
  PROVE \E P : /\ Goes(P, c, D, O, r) /\ Goes(P, d, E, N, r)
               /\ \A u \in P : u \in Q \/ Moves(P \cup Q, u)
<1>1. PICK A : Goes(A, c, D, O, r) /\ \A u \in A : u \in Q \/ Moves(A \cup Q, u)
  BY DEF Leads
<1>2. PICK B : Goes(B, d, E, N, r) /\ \A u \in B : u \in Q \/ Moves(B \cup Q, u)
  BY DEF Leads
<1> DEFINE P == A \cup B
<1>3. A \subseteq P /\ B \subseteq P /\ A \cup Q \subseteq P \cup Q /\ B \cup Q \subseteq P \cup Q
  OBVIOUS
<1>4. Goes(P, c, D, O, r) /\ Goes(P, d, E, N, r)
  BY <1>1, <1>2, <1>3, WiderGoes
<1>5. ASSUME NEW u \in P PROVE u \in Q \/ Moves(P \cup Q, u)
  <2>1. CASE u \in A
    BY <1>1, <1>3, <2>1, WiderMoves
  <2>2. CASE u \in B
    BY <1>2, <1>3, <2>2, WiderMoves
  <2>3. QED
    BY <2>1, <2>2
<1>6. QED
  BY <1>4, <1>5

\* The ways out of a branch are those of its two sides.
LEMMA IfBlock ==
  ASSUME NEW test, NEW yes, NEW no, NEW D, NEW O \in SUBSET D, NEW X, NEW r,
         Block(yes, D, O, X, r), Block(no, D, O, X, r)
  PROVE Block(<<If(test, yes, no)>>, D, O, X, r)
<1> DEFINE i == If(test, yes, no)
<1>1. i[1] = "if" /\ i[2] = test /\ i[3] = yes /\ i[4] = no
  BY DEF If
<1> HIDE DEF i
<1>2. Listed(<<i>>)
  BY FirstFacts, NilListed
<1>3. ASSUME NEW Q, NEW rest, Listed(rest), \A x \in X : Leads(Q, rest, x[1], x[2], r)
      PROVE Leads(Q, <<i>> \o rest, D, O, r)
  <2>1. Leads(Q, yes \o rest, D, O, r) /\ Leads(Q, no \o rest, D, O, r)
    BY <1>3 DEF Block
  <2>2. PICK P : /\ Goes(P, yes \o rest, D, O, r) /\ Goes(P, no \o rest, D, O, r)
                 /\ \A u \in P : u \in Q \/ Moves(P \cup Q, u)
    BY <2>1, BothLead
  <2>3. Goes(P \cup Q, yes \o rest, D, O, r) /\ Goes(P \cup Q, no \o rest, D, O, r)
    BY <2>2, WiderGoes
  <2>4. MayBranch(P \cup Q, i, rest, D, O, r)
    BY <1>1, <2>3 DEF MayBranch
  <2>5. Obeys(P \cup Q, i, rest, D, O, FALSE, r)
    BY <1>1, <2>4, Kinds
  <2>6. QED
    BY <1>3, <2>2, <2>5, FirstStep
<1>4. Block(<<i>>, D, O, X, r)
  BY <1>2, <1>3 DEF Block
<1>5. QED
  BY <1>4 DEF i

\* The token is an operator: its node is made.
LEMMA OperationBlock ==
  ASSUME NEW S \in SUBSET Operators, NEW v, NEW no,
         NEW D, NEW O \in SUBSET D, v \notin O, NEW r, Block(no, D, O, {}, r),
         NEW E, E = D \cup {v}, NEW N, N = O \cup {v}
  PROVE Block(<<If(Current(S), <<NewOperation(v)>>, no)>>, D, O, {<<E, N>>}, r)
<1> DEFINE o == NewOperation(v)
           test == Current(S)
           i == If(test, <<o>>, no)
<1>1. o[1] = "operation" /\ o[2] = v
  BY DEF NewOperation
<1>2. Tells(test)
  BY DEF Current, Tells
<1> HIDE DEF o, test
<1>3. i[1] = "if" /\ i[2] = test /\ i[3] = <<o>> /\ i[4] = no
  BY DEF If
<1> HIDE DEF i
<1>4. Listed(<<i>>)
  BY FirstFacts, NilListed
<1>5. ASSUME NEW Q, NEW rest, Listed(rest), Leads(Q, rest, E, N, r)
      PROVE Leads(Q, <<i>> \o rest, D, O, r)
  <2>1. Leads(Q, no \o rest, D, O, r)
    BY <1>5 DEF Block
  <2>2. PICK A : /\ Goes(A, no \o rest, D, O, r) /\ Goes(A, rest, E, N, r)
                 /\ \A u \in A : u \in Q \/ Moves(A \cup Q, u)
    BY <1>5, <2>1, BothLead
  <2> DEFINE t == Point(<<o>> \o rest, D, O, TRUE, r)
             P == A \cup {t}
  <2>3. A \cup Q \subseteq P \cup Q /\ t \in P \cup Q /\ A \subseteq P \cup Q
    OBVIOUS
  <2>4. Goes(P \cup Q, no \o rest, D, O, r) /\ Goes(P \cup Q, rest, E, N, r)
    BY <2>2, <2>3, WiderGoes
  <2>5. t.code = <<o>> \o rest /\ t.known = D /\ t.owned = O /\ t.op = TRUE /\ t.gives = r
    BY DEF Point
  <2>6. Tells(i[2]) /\ \E F \in SUBSET D : Point(i[3] \o rest, F, O, TRUE, r) \in P \cup Q
    BY <1>2, <1>3, <2>3
  <2> HIDE DEF t, P
  <2>7. MayOperate(P \cup Q, o, rest, D, O, TRUE, r)
    BY <1>1, <2>4 DEF MayOperate
  <2>8. Obeys(P \cup Q, o, rest, D, O, TRUE, r)
    BY <1>1, <2>7, Kinds
  <2>9. Moves(P \cup Q, t)
    BY <1>5, <2>5, <2>8, FirstFacts DEF Moves, MayEnd
  <2>10. \A u \in P : u \in Q \/ Moves(P \cup Q, u)
    <3>1. SUFFICES ASSUME NEW u \in P PROVE u \in Q \/ Moves(P \cup Q, u)
      OBVIOUS
    <3>2. CASE u = t
      BY <2>9, <3>2
    <3>3. CASE u \in A
      BY <2>2, <2>3, <3>3, WiderMoves
    <3>4. QED
      BY <3>2, <3>3 DEF P
  <2>11. MayBranch(P \cup Q, i, rest, D, O, r)
    BY <1>3, <2>4, <2>6 DEF MayBranch
  <2>12. Obeys(P \cup Q, i, rest, D, O, FALSE, r)
    BY <1>3, <2>11, Kinds
  <2>13. QED
    BY <1>5, <2>10, <2>12, FirstStep
<1>6. ASSUME NEW Q, NEW rest, Listed(rest),
             \A x \in {<<E, N>>} : Leads(Q, rest, x[1], x[2], r)
      PROVE Leads(Q, <<i>> \o rest, D, O, r)
  BY <1>5, <1>6
<1>7. Block(<<i>>, D, O, {<<E, N>>}, r)
  BY <1>4, <1>6 DEF Block
<1>8. QED
  BY <1>7 DEF i, o, test

\* A body that leaves behind what it finds may be repeated: the points of the
\* loop are the points of its body and the loop itself.
LEMMA WhileBlock ==
  ASSUME NEW test, NEW body, NEW D, NEW O \in SUBSET D, NEW r, Block(body, D, O, {<<D, O>>}, r)
  PROVE Block(<<While(test, body)>>, D, O, {<<D, O>>}, r)
<1> DEFINE i == While(test, body)
<1>1. i[1] = "while" /\ i[2] = test /\ i[3] = body
  BY DEF While
<1> HIDE DEF i
<1>2. Listed(<<i>>) /\ Listed(body)
  BY FirstFacts, NilListed DEF Block
<1>3. ASSUME NEW Q, NEW rest, Listed(rest), Leads(Q, rest, D, O, r)
      PROVE Leads(Q, <<i>> \o rest, D, O, r)
  <2> DEFINE again == <<i>> \o rest
             w == Point(again, D, O, FALSE, r)
             R == Q \cup {w}
  <2>1. Listed(again) /\ again # <<>> /\ Head(again) = i /\ Tail(again) = rest
    BY <1>3, FirstFacts
  <2>2. Append(body, i) \o rest = body \o again
    <3>1. Append(body, i) = body \o <<i>>
      <4> DEFINE S == {body[j] : j \in DOMAIN body} \cup {i}
      <4>1. body \in Seq(S) /\ i \in S
        BY <1>2 DEF Listed
      <4> HIDE DEF S
      <4>2. QED
        BY <4>1
    <3>2. QED
      BY <1>2, <1>3, <3>1, ListedFacts
  <2>3. w.code = again /\ w.known = D /\ w.owned = O /\ w.op = FALSE /\ w.gives = r
    BY DEF Point
  <2>4. Leads(R, again, D, O, r)
    <3>1. Goes({w}, again, D, O, r)
      BY DEF Goes
    <3>2. QED
      BY <3>1 DEF Leads
  <2> HIDE DEF again, w
  <2>5. \A x \in {<<D, O>>} : Leads(R, again, x[1], x[2], r)
    BY <2>4
  <2>6. Leads(R, body \o again, D, O, r)
    BY <2>1, <2>5 DEF Block
  <2>7. Leads(R, rest, D, O, r)
    BY <1>3, LeadsWider
  <2>8. PICK A : /\ Goes(A, body \o again, D, O, r) /\ Goes(A, rest, D, O, r)
                 /\ \A u \in A : u \in R \/ Moves(A \cup R, u)
    BY <2>6, <2>7, BothLead
  <2> DEFINE P == A \cup {w}
  <2>9. A \cup R = P \cup Q /\ A \subseteq P \cup Q /\ w \in P
    OBVIOUS
  <2>10. Goes(P \cup Q, body \o again, D, O, r) /\ Goes(P \cup Q, rest, D, O, r)
    BY <2>8, <2>9, WiderGoes
  <2>11. MayLoop(P \cup Q, i, rest, D, O, r)
    BY <1>1, <2>2, <2>10 DEF MayLoop
  <2>12. Obeys(P \cup Q, i, rest, D, O, FALSE, r)
    BY <1>1, <2>11, Kinds
  <2>13. Moves(P \cup Q, w)
    BY <2>1, <2>3, <2>12 DEF Moves, MayEnd
  <2>14. \A u \in P : u \in Q \/ Moves(P \cup Q, u)
    BY <2>8, <2>9, <2>13
  <2>15. QED
    BY <1>3, <2>12, <2>14, FirstStep
<1>4. ASSUME NEW Q, NEW rest, Listed(rest), \A x \in {<<D, O>>} : Leads(Q, rest, x[1], x[2], r)
      PROVE Leads(Q, <<i>> \o rest, D, O, r)
  BY <1>3, <1>4
<1>5. Block(<<i>>, D, O, {<<D, O>>}, r)
  BY <1>2, <1>4 DEF Block
<1>6. QED
  BY <1>5 DEF i

\* A tuple of instructions is its first one and the rest.
LEMMA Split2 ==
  ASSUME NEW c1, NEW c2
  PROVE <<c1, c2>> = <<c1>> \o <<c2>>
<1> DEFINE S == {c1, c2}
           a == <<c1, c2>>
           b == <<c1>> \o <<c2>>
<1>0. c1 \in S /\ c2 \in S
  OBVIOUS
<1>1. a \in Seq(S) /\ Len(a) = 2 /\ a[1] = c1 /\ a[2] = c2
  OBVIOUS
<1>2. <<c1>> \in Seq(S) /\ <<c2>> \in Seq(S) /\ Len(<<c1>>) = 1 /\ Len(<<c2>>) = 1 
  BY <1>0
<1> HIDE DEF S, a
<1>3. b \in Seq(S) /\ Len(b) = 2 /\ b[1] = c1 /\ b[2] = c2
  BY <1>0, <1>2, ConcatProperties
<1> HIDE DEF b
<1>4. \A i \in 1 .. Len(a) : a[i] = b[i]
  BY <1>1, <1>3
<1>5. a = b
  BY <1>1, <1>3, <1>4, SeqEqual
<1>6. QED
  BY <1>5, Zenon DEF a, b

LEMMA Split3 ==
  ASSUME NEW c1, NEW c2, NEW c3
  PROVE <<c1, c2, c3>> = <<c1>> \o <<c2, c3>>
<1> DEFINE S == {c1, c2, c3}
<1>1. c1 \in S /\ c2 \in S /\ c3 \in S
  OBVIOUS
<1> HIDE DEF S
<1>2. QED
  BY <1>1

LEMMA Split4 ==
  ASSUME NEW c1, NEW c2, NEW c3, NEW c4
  PROVE <<c1, c2, c3, c4>> = <<c1>> \o <<c2, c3, c4>>
<1> DEFINE S == {c1, c2, c3, c4}
<1>1. c1 \in S /\ c2 \in S /\ c3 \in S /\ c4 \in S
  OBVIOUS
<1> HIDE DEF S
<1>2. QED
  BY <1>1

LEMMA Split5 ==
  ASSUME NEW c1, NEW c2, NEW c3, NEW c4, NEW c5
  PROVE <<c1, c2, c3, c4, c5>> = <<c1>> \o <<c2, c3, c4, c5>>
<1> DEFINE S == {c1, c2, c3, c4, c5}
<1>1. c1 \in S /\ c2 \in S /\ c3 \in S /\ c4 \in S /\ c5 \in S
  OBVIOUS
<1> HIDE DEF S
<1>2. QED
  BY <1>1

LEMMA Split6 ==
  ASSUME NEW c1, NEW c2, NEW c3, NEW c4, NEW c5, NEW c6
  PROVE <<c1, c2, c3, c4, c5, c6>> = <<c1>> \o <<c2, c3, c4, c5, c6>>
<1> DEFINE S == {c1, c2, c3, c4, c5, c6}
<1>1. c1 \in S /\ c2 \in S /\ c3 \in S /\ c4 \in S /\ c5 \in S /\ c6 \in S
  OBVIOUS
<1> HIDE DEF S
<1>2. QED
  BY <1>1

LEMMA Split7 ==
  ASSUME NEW c1, NEW c2, NEW c3, NEW c4, NEW c5, NEW c6, NEW c7
  PROVE <<c1, c2, c3, c4, c5, c6, c7>> = <<c1>> \o <<c2, c3, c4, c5, c6, c7>>
<1> DEFINE S == {c1, c2, c3, c4, c5, c6, c7}
<1>1. c1 \in S /\ c2 \in S /\ c3 \in S /\ c4 \in S /\ c5 \in S /\ c6 \in S /\ c7 \in S
  OBVIOUS
<1> HIDE DEF S
<1>2. QED
  BY <1>1

LEMMA Split8 ==
  ASSUME NEW c1, NEW c2, NEW c3, NEW c4, NEW c5, NEW c6, NEW c7, NEW c8
  PROVE <<c1, c2, c3, c4, c5, c6, c7, c8>> = <<c1>> \o <<c2, c3, c4, c5, c6, c7, c8>>
<1> DEFINE S == {c1, c2, c3, c4, c5, c6, c7, c8}
<1>1. c1 \in S /\ c2 \in S /\ c3 \in S /\ c4 \in S /\ c5 \in S /\ c6 \in S /\ c7 \in S /\ c8 \in S
  OBVIOUS
<1> HIDE DEF S
<1>2. QED
  BY <1>1

LEMMA Split9 ==
  ASSUME NEW c1, NEW c2, NEW c3, NEW c4, NEW c5, NEW c6, NEW c7, NEW c8, NEW c9
  PROVE <<c1, c2, c3, c4, c5, c6, c7, c8, c9>> = <<c1>> \o <<c2, c3, c4, c5, c6, c7, c8, c9>>
<1> DEFINE S == {c1, c2, c3, c4, c5, c6, c7, c8, c9}
<1>1. c1 \in S /\ c2 \in S /\ c3 \in S /\ c4 \in S /\ c5 \in S /\ c6 \in S /\ c7 \in S /\ c8 \in S /\ c9 \in S
  OBVIOUS
<1> HIDE DEF S
<1>2. QED
  BY <1>1

LEMMA Split10 ==
  ASSUME NEW c1, NEW c2, NEW c3, NEW c4, NEW c5, NEW c6, NEW c7, NEW c8, NEW c9, NEW c10
  PROVE <<c1, c2, c3, c4, c5, c6, c7, c8, c9, c10>> = <<c1>> \o <<c2, c3, c4, c5, c6, c7, c8, c9, c10>>
<1> DEFINE S == {c1, c2, c3, c4, c5, c6, c7, c8, c9, c10}
<1>1. c1 \in S /\ c2 \in S /\ c3 \in S /\ c4 \in S /\ c5 \in S /\ c6 \in S /\ c7 \in S /\ c8 \in S /\ c9 \in S /\ c10 \in S
  OBVIOUS
<1> HIDE DEF S
<1>2. QED
  BY <1>1

\* A deletion is the last thing before the exception.
LEMMA DeleteBlock ==
  ASSUME NEW v, NEW D, NEW O \in SUBSET D, v \in O, NEW r
  PROVE Block(<<Delete(v), Throw>>, D, O, {}, r)
<1> DEFINE i == Delete(v)
           j == Throw
<1>1. i[1] = "delete" /\ i[2] = v /\ j[1] = "throw"
  BY DEF Delete, Throw
<1> HIDE DEF i, j
<1>2. Listed(<<j>>) /\ Listed(<<i>>)
  BY FirstFacts, NilListed
<1>3. <<i, j>> = <<i>> \o <<j>>
  BY Split2
<1>4. Listed(<<i, j>>)
  BY <1>2, <1>3, FirstFacts
<1>5. ASSUME NEW Q, NEW rest, Listed(rest)
      PROVE Leads(Q, <<i, j>> \o rest, D, O, r)
  <2> DEFINE c == <<j>> \o rest
  <2>1. c # <<>> /\ Head(c) = j /\ Listed(c)
    BY <1>5, FirstFacts
  <2>2. <<i, j>> \o rest = <<i>> \o c
    BY <1>2, <1>3, <1>5, ListedFacts
  <2> HIDE DEF c
  <2>3. MayDelete({} \cup Q, i, c, D, O, r)
    BY <1>1, <2>1 DEF MayDelete
  <2>4. Obeys({} \cup Q, i, c, D, O, FALSE, r)
    BY <1>1, <2>3, Kinds
  <2>5. \A u \in {} : u \in Q \/ Moves({} \cup Q, u)
    OBVIOUS
  <2>6. QED
    BY <2>1, <2>2, <2>4, <2>5, FirstStep
<1>6. Block(<<i, j>>, D, O, {}, r)
  BY <1>4, <1>5 DEF Block
<1>7. QED
  BY <1>6 DEF i, j

\* A call of a function that builds on the nodes it is lent.
LEMMA LendBlock ==
  ASSUME NEW f \in DOMAIN Code, ~Gives(f), NEW args, DOMAIN args = Lent(f),
         NEW D, \A p \in DOMAIN args : args[p] \in D, NEW O \in SUBSET D, NEW r
  PROVE Block(<<Call(Nothing, f, args)>>, D, O, {<<D, O>>}, r)
<1> DEFINE i == Call(Nothing, f, args)
<1>1. i[1] = "call" /\ i[2] = Nothing /\ i[3] = f /\ i[4] = args
  BY DEF Call
<1> HIDE DEF i
<1>2. Handed(f) = {}
  BY DEF Handed, Gives
<1>3. "left" \notin DOMAIN args
  BY DEF Lent
<1>4. HandedOver(args) = {}
  BY <1>3 DEF HandedOver
<1>5. ASSUME NEW P, NEW c, Goes(P, c, D, O, r)
      PROVE Obeys(P, i, c, D, O, FALSE, r)
  <2>1. MayCall(P, i, c, D, O, r)
    BY <1>1, <1>2, <1>4, <1>5 DEF MayCall
  <2>2. QED
    BY <1>1, <2>1, Kinds
<1>6. QED
  BY <1>5, OneStep DEF i

\* A call of a function that makes a node.
LEMMA MakeBlock ==
  ASSUME NEW f \in Makers, f \in DOMAIN Code, NEW v, v # Nothing,
         NEW D, NEW O \in SUBSET D, v \notin O, NEW r,
         NEW E, E = D \cup {v}, NEW N, N = O \cup {v}
  PROVE Block(<<Call(v, f, NoArguments)>>, D, O, {<<E, N>>}, r)
<1> DEFINE i == Call(v, f, NoArguments)
<1>1. i[1] = "call" /\ i[2] = v /\ i[3] = f /\ i[4] = NoArguments
  BY DEF Call
<1> HIDE DEF i
<1>2. Handed(f) = {} /\ Lent(f) = {} /\ Gives(f)
  BY DEF Handed, Lent, Gives, Makers, Adopters
<1>3. DOMAIN NoArguments = {}
  BY DEF NoArguments
<1>4. HandedOver(NoArguments) = {}
  BY <1>3 DEF HandedOver
<1>5. ASSUME NEW P, NEW c, Goes(P, c, E, N, r)
      PROVE Obeys(P, i, c, D, O, FALSE, r)
  <2>1. O \ {} = O
    OBVIOUS
  <2>2. MayCall(P, i, c, D, O, r)
    BY <1>1, <1>2, <1>3, <1>4, <1>5, <2>1 DEF MayCall
  <2>3. QED
    BY <1>1, <2>2, Kinds
<1>6. QED
  BY <1>5, OneStep DEF i

\* A call of a function that is given a node and gives one back.
LEMMA HandBlock ==
  ASSUME NEW f \in Adopters, f \in DOMAIN Code, NEW v, v # Nothing, NEW w, w # "module",
         NEW D, NEW O \in SUBSET D, w \in O, v \notin O \ {w}, NEW r,
         NEW E, E = D \cup {v}, NEW N, N = (O \ {w}) \cup {v}
  PROVE Block(<<Call(v, f, [left |-> w])>>, D, O, {<<E, N>>}, r)
<1> DEFINE args == [left |-> w]
           i == Call(v, f, args)
<1>1. i[1] = "call" /\ i[2] = v /\ i[3] = f /\ i[4] = args
  BY DEF Call
<1>2. DOMAIN args = {"left"} /\ args["left"] = w
  OBVIOUS
<1> HIDE DEF i, args
<1>3. Handed(f) = {"left"} /\ Lent(f) = {} /\ Gives(f)
  BY DEF Handed, Lent, Gives
<1>4. HandedOver(args) = {w}
  BY <1>2 DEF HandedOver
<1>5. ASSUME NEW P, NEW c, Goes(P, c, E, N, r)
      PROVE Obeys(P, i, c, D, O, FALSE, r)
  <2>1. DOMAIN i[4] = Lent(f) \cup Handed(f) /\ \A p \in DOMAIN args : args[p] \in D
    BY <1>1, <1>2, <1>3
  <2>2. MayCall(P, i, c, D, O, r)
    BY <1>1, <1>3, <1>4, <1>5, <2>1 DEF MayCall
  <2>3. QED
    BY <1>1, <2>2, Kinds
<1>6. Block(<<i>>, D, O, {<<E, N>>}, r)
  BY <1>5, OneStep
<1>7. QED
  BY <1>6 DEF i, args

\* What a function is to do for its program to be fit.
LEMMA FitEntry ==
  ASSUME NEW f, \/ Gives(f) /\ Block(Code[f], Lent(f) \cup Handed(f), Handed(f), {}, TRUE)
                \/ ~Gives(f) /\ \E D : Block(Code[f], Lent(f) \cup Handed(f), Handed(f), {<<D, {}>>}, FALSE)
  PROVE \E E \in SUBSET (Lent(f) \cup Handed(f)) : Fit(Point(Code[f], E, Handed(f), FALSE, Gives(f)))
<1> DEFINE c == Code[f]
           K == Lent(f) \cup Handed(f)
           N == Handed(f)
           r == Gives(f)
<1>0. r \in BOOLEAN
  BY DEF Gives
<1>1. Leads({}, c \o <<>>, K, N, r) /\ Listed(c)
  <2>1. CASE r
    <3>1. r = TRUE
      BY <2>1, <1>0
    <3>2. Block(c, K, N, {}, r)
      BY <2>1, <3>1
    <3> HIDE DEF c, K, N, r
    <3>3. QED
      BY <3>2, NilListed DEF Block
  <2>2. CASE ~r
    <3>1. r = FALSE
      BY <2>2, <1>0
    <3>2. PICK D : Block(c, K, N, {<<D, {}>>}, r)
      BY <2>2, <3>1
    <3> HIDE DEF c, K, N, r
    <3> DEFINE t == Point(<<>>, D, {}, FALSE, r)
    <3>3. t.code = <<>> /\ t.known = D /\ t.owned = {} /\ t.gives = r
      BY DEF Point
    <3>4. Moves({t} \cup {}, t)
      BY <3>1, <3>3, NilListed DEF Moves, MayEnd
    <3>5. Goes({t}, <<>>, D, {}, r)
      BY DEF Goes
    <3> HIDE DEF t
    <3>6. Leads({}, <<>>, D, {}, r)
      BY <3>4, <3>5 DEF Leads
    <3>7. \A x \in {<<D, {}>>} : Leads({}, <<>>, x[1], x[2], r)
      BY <3>6
    <3>8. QED
      BY <3>2, <3>7, NilListed DEF Block
  <2>3. QED
    BY <2>1, <2>2
<1> HIDE DEF c, K, N, r
<1>2. c \o <<>> = c
  BY <1>1, NilListed, ListedFacts
<1>3. PICK P : Goes(P, c, K, N, r) /\ \A u \in P : u \in {} \/ Moves(P \cup {}, u)
  BY <1>1, <1>2 DEF Leads
<1>4. P \cup {} = P
  OBVIOUS
<1>5. \A u \in P : Moves(P, u)
  BY <1>3, <1>4
<1>6. PICK E \in SUBSET K : Point(c, E, N, FALSE, r) \in P
  BY <1>3 DEF Goes
<1>7. Fit(Point(c, E, N, FALSE, r))
  BY <1>5, <1>6 DEF Fit
<1>8. QED
  BY <1>7 DEF c, K, N, r

\* Tuples of instructions, one after the other.
LEMMA Tuple2 ==
  ASSUME NEW c1, NEW c2,
         NEW D0, NEW O0, NEW D1, NEW O1,
         NEW X, NEW r,
         Block(<<c1>>, D0, O0, {<<D1, O1>>}, r),
         Block(<<c2>>, D1, O1, X, r)
  PROVE Block(<<c1, c2>>, D0, O0, X, r)
<1>1. Block(<<c1>> \o <<c2>>, D0, O0, X, r)
  BY Cons
<1>2. QED
  BY <1>1, Split2

LEMMA Tuple3 ==
  ASSUME NEW c1, NEW c2, NEW c3,
         NEW D0, NEW O0, NEW D1, NEW O1, NEW D2, NEW O2,
         NEW X, NEW r,
         Block(<<c1>>, D0, O0, {<<D1, O1>>}, r),
         Block(<<c2>>, D1, O1, {<<D2, O2>>}, r),
         Block(<<c3>>, D2, O2, X, r)
  PROVE Block(<<c1, c2, c3>>, D0, O0, X, r)
<1>1. Block(<<c2, c3>>, D1, O1, X, r)
  BY Tuple2
<1>2. Block(<<c1>> \o <<c2, c3>>, D0, O0, X, r)
  BY <1>1, Cons
<1>3. QED
  BY <1>2, Split3

LEMMA Tuple4 ==
  ASSUME NEW c1, NEW c2, NEW c3, NEW c4,
         NEW D0, NEW O0, NEW D1, NEW O1, NEW D2, NEW O2, NEW D3, NEW O3,
         NEW X, NEW r,
         Block(<<c1>>, D0, O0, {<<D1, O1>>}, r),
         Block(<<c2>>, D1, O1, {<<D2, O2>>}, r),
         Block(<<c3>>, D2, O2, {<<D3, O3>>}, r),
         Block(<<c4>>, D3, O3, X, r)
  PROVE Block(<<c1, c2, c3, c4>>, D0, O0, X, r)
<1>1. Block(<<c2, c3, c4>>, D1, O1, X, r)
  BY Tuple3
<1>2. Block(<<c1>> \o <<c2, c3, c4>>, D0, O0, X, r)
  BY <1>1, Cons
<1>3. QED
  BY <1>2, Split4

LEMMA Tuple5 ==
  ASSUME NEW c1, NEW c2, NEW c3, NEW c4, NEW c5,
         NEW D0, NEW O0, NEW D1, NEW O1, NEW D2, NEW O2, NEW D3, NEW O3, NEW D4, NEW O4,
         NEW X, NEW r,
         Block(<<c1>>, D0, O0, {<<D1, O1>>}, r),
         Block(<<c2>>, D1, O1, {<<D2, O2>>}, r),
         Block(<<c3>>, D2, O2, {<<D3, O3>>}, r),
         Block(<<c4>>, D3, O3, {<<D4, O4>>}, r),
         Block(<<c5>>, D4, O4, X, r)
  PROVE Block(<<c1, c2, c3, c4, c5>>, D0, O0, X, r)
<1>1. Block(<<c2, c3, c4, c5>>, D1, O1, X, r)
  BY Tuple4
<1>2. Block(<<c1>> \o <<c2, c3, c4, c5>>, D0, O0, X, r)
  BY <1>1, Cons
<1>3. QED
  BY <1>2, Split5

LEMMA Tuple6 ==
  ASSUME NEW c1, NEW c2, NEW c3, NEW c4, NEW c5, NEW c6,
         NEW D0, NEW O0, NEW D1, NEW O1, NEW D2, NEW O2, NEW D3, NEW O3, NEW D4, NEW O4, NEW D5, NEW O5,
         NEW X, NEW r,
         Block(<<c1>>, D0, O0, {<<D1, O1>>}, r),
         Block(<<c2>>, D1, O1, {<<D2, O2>>}, r),
         Block(<<c3>>, D2, O2, {<<D3, O3>>}, r),
         Block(<<c4>>, D3, O3, {<<D4, O4>>}, r),
         Block(<<c5>>, D4, O4, {<<D5, O5>>}, r),
         Block(<<c6>>, D5, O5, X, r)
  PROVE Block(<<c1, c2, c3, c4, c5, c6>>, D0, O0, X, r)
<1>1. Block(<<c2, c3, c4, c5, c6>>, D1, O1, X, r)
  BY Tuple5
<1>2. Block(<<c1>> \o <<c2, c3, c4, c5, c6>>, D0, O0, X, r)
  BY <1>1, Cons
<1>3. QED
  BY <1>2, Split6

LEMMA Tuple7 ==
  ASSUME NEW c1, NEW c2, NEW c3, NEW c4, NEW c5, NEW c6, NEW c7,
         NEW D0, NEW O0, NEW D1, NEW O1, NEW D2, NEW O2, NEW D3, NEW O3, NEW D4, NEW O4, NEW D5, NEW O5, NEW D6, NEW O6,
         NEW X, NEW r,
         Block(<<c1>>, D0, O0, {<<D1, O1>>}, r),
         Block(<<c2>>, D1, O1, {<<D2, O2>>}, r),
         Block(<<c3>>, D2, O2, {<<D3, O3>>}, r),
         Block(<<c4>>, D3, O3, {<<D4, O4>>}, r),
         Block(<<c5>>, D4, O4, {<<D5, O5>>}, r),
         Block(<<c6>>, D5, O5, {<<D6, O6>>}, r),
         Block(<<c7>>, D6, O6, X, r)
  PROVE Block(<<c1, c2, c3, c4, c5, c6, c7>>, D0, O0, X, r)
<1>1. Block(<<c2, c3, c4, c5, c6, c7>>, D1, O1, X, r)
  BY Tuple6
<1>2. Block(<<c1>> \o <<c2, c3, c4, c5, c6, c7>>, D0, O0, X, r)
  BY <1>1, Cons
<1>3. QED
  BY <1>2, Split7

LEMMA Tuple8 ==
  ASSUME NEW c1, NEW c2, NEW c3, NEW c4, NEW c5, NEW c6, NEW c7, NEW c8,
         NEW D0, NEW O0, NEW D1, NEW O1, NEW D2, NEW O2, NEW D3, NEW O3, NEW D4, NEW O4, NEW D5, NEW O5, NEW D6, NEW O6, NEW D7, NEW O7,
         NEW X, NEW r,
         Block(<<c1>>, D0, O0, {<<D1, O1>>}, r),
         Block(<<c2>>, D1, O1, {<<D2, O2>>}, r),
         Block(<<c3>>, D2, O2, {<<D3, O3>>}, r),
         Block(<<c4>>, D3, O3, {<<D4, O4>>}, r),
         Block(<<c5>>, D4, O4, {<<D5, O5>>}, r),
         Block(<<c6>>, D5, O5, {<<D6, O6>>}, r),
         Block(<<c7>>, D6, O6, {<<D7, O7>>}, r),
         Block(<<c8>>, D7, O7, X, r)
  PROVE Block(<<c1, c2, c3, c4, c5, c6, c7, c8>>, D0, O0, X, r)
<1>1. Block(<<c2, c3, c4, c5, c6, c7, c8>>, D1, O1, X, r)
  BY Tuple7
<1>2. Block(<<c1>> \o <<c2, c3, c4, c5, c6, c7, c8>>, D0, O0, X, r)
  BY <1>1, Cons
<1>3. QED
  BY <1>2, Split8

LEMMA Tuple9 ==
  ASSUME NEW c1, NEW c2, NEW c3, NEW c4, NEW c5, NEW c6, NEW c7, NEW c8, NEW c9,
         NEW D0, NEW O0, NEW D1, NEW O1, NEW D2, NEW O2, NEW D3, NEW O3, NEW D4, NEW O4, NEW D5, NEW O5, NEW D6, NEW O6, NEW D7, NEW O7, NEW D8, NEW O8,
         NEW X, NEW r,
         Block(<<c1>>, D0, O0, {<<D1, O1>>}, r),
         Block(<<c2>>, D1, O1, {<<D2, O2>>}, r),
         Block(<<c3>>, D2, O2, {<<D3, O3>>}, r),
         Block(<<c4>>, D3, O3, {<<D4, O4>>}, r),
         Block(<<c5>>, D4, O4, {<<D5, O5>>}, r),
         Block(<<c6>>, D5, O5, {<<D6, O6>>}, r),
         Block(<<c7>>, D6, O6, {<<D7, O7>>}, r),
         Block(<<c8>>, D7, O7, {<<D8, O8>>}, r),
         Block(<<c9>>, D8, O8, X, r)
  PROVE Block(<<c1, c2, c3, c4, c5, c6, c7, c8, c9>>, D0, O0, X, r)
<1>1. Block(<<c2, c3, c4, c5, c6, c7, c8, c9>>, D1, O1, X, r)
  BY Tuple8
<1>2. Block(<<c1>> \o <<c2, c3, c4, c5, c6, c7, c8, c9>>, D0, O0, X, r)
  BY <1>1, Cons
<1>3. QED
  BY <1>2, Split9

LEMMA Tuple10 ==
  ASSUME NEW c1, NEW c2, NEW c3, NEW c4, NEW c5, NEW c6, NEW c7, NEW c8, NEW c9, NEW c10,
         NEW D0, NEW O0, NEW D1, NEW O1, NEW D2, NEW O2, NEW D3, NEW O3, NEW D4, NEW O4, NEW D5, NEW O5, NEW D6, NEW O6, NEW D7, NEW O7, NEW D8, NEW O8, NEW D9, NEW O9,
         NEW X, NEW r,
         Block(<<c1>>, D0, O0, {<<D1, O1>>}, r),
         Block(<<c2>>, D1, O1, {<<D2, O2>>}, r),
         Block(<<c3>>, D2, O2, {<<D3, O3>>}, r),
         Block(<<c4>>, D3, O3, {<<D4, O4>>}, r),
         Block(<<c5>>, D4, O4, {<<D5, O5>>}, r),
         Block(<<c6>>, D5, O5, {<<D6, O6>>}, r),
         Block(<<c7>>, D6, O6, {<<D7, O7>>}, r),
         Block(<<c8>>, D7, O7, {<<D8, O8>>}, r),
         Block(<<c9>>, D8, O8, {<<D9, O9>>}, r),
         Block(<<c10>>, D9, O9, X, r)
  PROVE Block(<<c1, c2, c3, c4, c5, c6, c7, c8, c9, c10>>, D0, O0, X, r)
<1>1. Block(<<c2, c3, c4, c5, c6, c7, c8, c9, c10>>, D1, O1, X, r)
  BY Tuple9
<1>2. Block(<<c1>> \o <<c2, c3, c4, c5, c6, c7, c8, c9, c10>>, D0, O0, X, r)
  BY <1>1, Cons
<1>3. QED
  BY <1>2, Split10

-----------------------------------------------------------------------------
(***************************************************************************)
(* The idioms of the parser's functions.                                   *)
(***************************************************************************)
LEMMA NeedBlock ==
  ASSUME NEW test, NEW D, NEW O \in SUBSET D, NEW r
  PROVE Block(<<Need(test)>>, D, O, {<<D, O>>}, r)
<1>1. Block(<<Throw>>, D, O, {<<D, O>>}, r)
  BY ThrowBlock, DeadBlock
<1>2. Block(<<If(test, <<>>, <<Throw>>)>>, D, O, {<<D, O>>}, r)
  BY <1>1, NilBlock, IfBlock
<1>3. QED
  BY <1>2 DEF Need

\* A test that throws when it succeeds, an advance to a token, a semicolon, a
\* try with its handler.
LEMMA UnlessBlock ==
  ASSUME NEW test, NEW body, NEW D, NEW O \in SUBSET D, NEW r,
         Block(body, D, O, {<<D, O>>}, r)
  PROVE Block(<<Unless(test, body)>>, D, O, {<<D, O>>}, r)
<1>1. Block(<<If(test, <<>>, body)>>, D, O, {<<D, O>>}, r)
  BY NilBlock, IfBlock
<1>2. QED
  BY <1>1 DEF Unless

LEMMA AdvanceToBlock ==
  ASSUME NEW S, NEW D, NEW O \in SUBSET D, NEW r
  PROVE Block(AdvanceTo(S), D, O, {<<D, O>>}, r)
<1>1. Block(<<Need(Current(S))>>, D, O, {<<D, O>>}, r)
  BY NeedBlock
<1>2. Block(<<Advance, Need(Current(S))>>, D, O, {<<D, O>>}, r)
  BY <1>1, AdvanceBlock, Tuple2
<1>3. QED
  BY <1>2 DEF AdvanceTo

LEMMA SemicolonBlock ==
  ASSUME NEW D, NEW O \in SUBSET D, NEW r
  PROVE Block(<<ParseSemicolon>>, D, O, {<<D, O>>}, r)
BY NeedBlock DEF ParseSemicolon

LEMMA TryBlock ==
  ASSUME NEW D, NEW v \in D, NEW body, NEW O \in SUBSET D, NEW E, NEW N \in SUBSET E, NEW r,
         Block(body, D, O, {<<E, N>>}, r)
  PROVE Block(Try(v, body), D, O, {<<E, N>>}, r)
<1> DEFINE i == <<"try", v>>
           j == <<"end try">>
<1>1. (i[1] = "try" /\ i[2] \in D) /\ j[1] \in {"advance", "end try"}
  OBVIOUS
<1> HIDE DEF i, j
<1>2. Block(<<i>>, D, O, {<<D, O>>}, r) /\ Block(<<j>>, E, N, {<<E, N>>}, r)
  BY <1>1, PassBlock
<1>3. Block(<<i>> \o body, D, O, {<<E, N>>}, r)
  BY <1>2, Sequence
<1>4. Block((<<i>> \o body) \o <<j>>, D, O, {<<E, N>>}, r)
  BY <1>2, <1>3, Sequence
<1>5. QED
  BY <1>4 DEF Try, i, j

\* The functions that build on a node they are lent, by their parameter.
OnNode == {"PackageDeclaration", "DependsStatements", "DependsStatement", "ModuleBody",
           "SpecDefinition", "SpecBody", "Property", "PropertyBody", "StaticFunction",
           "SpecFunction", "FunctionParameters", "FunctionParameter", "TypeExpression",
           "BlockStatement", "Statement", "KeywordStatement", "IfStatement", "ElIfStatement",
           "WhileStatement", "ForStatement", "ReturnStatement", "NameStatement", "Expression",
           "CallParameters"}

LEMMA FunctionNames ==
  DOMAIN Code = OnNode \cup {"PropertyBodyFunction"} \cup Adopters \cup Makers
BY DEF Code, OnNode, Adopters, Makers

\* What each function is lent and handed, and whether it returns a node.
LEMMA Signatures ==
  /\ \A f \in OnNode : ~Gives(f) /\ Lent(f) = {"node"} /\ Handed(f) = {}
  /\ \A f \in Adopters : Gives(f) /\ Lent(f) = {} /\ Handed(f) = {"left"}
  /\ \A f \in Makers : Gives(f) /\ Lent(f) = {} /\ Handed(f) = {}
  /\ ~Gives("PropertyBodyFunction") /\ Lent("PropertyBodyFunction") = {"getter", "setter"}
  /\ Handed("PropertyBodyFunction") = {}
BY DEF Gives, Lent, Handed, OnNode, Adopters, Makers

\* A function that adds to the node it is lent; and one that takes over what
\* another has made.
LEMMA IntoBlock ==
  ASSUME NEW f \in OnNode, NEW D, NEW v \in D, NEW O \in SUBSET D, NEW r
  PROVE Block(<<Into(f, v)>>, D, O, {<<D, O>>}, r)
<1> DEFINE args == [node |-> v]
<1>1. DOMAIN args = Lent(f) /\ \A p \in DOMAIN args : args[p] \in D
  BY Signatures
<1> HIDE DEF args
<1>2. f \in DOMAIN Code /\ ~Gives(f)
  BY FunctionNames, Signatures
<1>3. Block(<<Call(Nothing, f, args)>>, D, O, {<<D, O>>}, r)
  BY <1>1, <1>2, LendBlock
<1>4. QED
  BY <1>3 DEF Into, args

LEMMA FeedBlock ==
  ASSUME NEW f \in Adopters, NEW g \in Makers, NEW D
  PROVE Block(Feed(f, g), D, {}, {}, TRUE)
<1> DEFINE E == D \cup {"left"}
           F == E \cup {"result"}
<1>1. f \in DOMAIN Code /\ g \in DOMAIN Code
  BY FunctionNames
<1>2. Nothing # "left" /\ Nothing # "result"
  BY DEF Nothing
<1>3. Block(<<Call("left", g, NoArguments)>>, D, {}, {<<E, {"left"}>>}, TRUE)
  BY <1>1, <1>2, MakeBlock
<1>4. Block(<<Call("result", f, [left |-> "left"])>>, E, {"left"}, {<<F, {"result"}>>}, TRUE)
  <2>1. {"result"} = ({"left"} \ {"left"}) \cup {"result"}
    OBVIOUS
  <2>2. {"left"} \in SUBSET E /\ "result" \notin {"left"} \ {"left"} /\ "left" # "module"
    OBVIOUS
  <2>3. QED
    BY <1>1, <1>2, <2>1, <2>2, HandBlock
<1>5. Block(<<Return("result")>>, F, {"result"}, {}, TRUE)
  BY <1>2, ReturnBlock
<1> HIDE DEF E, F
<1>6. Block(<<Call("left", g, NoArguments), Call("result", f, [left |-> "left"]), Return("result")>>,
            D, {}, {}, TRUE)
  BY <1>3, <1>4, <1>5, Tuple3
<1>7. QED
  BY <1>6 DEF Feed

LEMMA AccessorBlock ==
  ASSUME NEW D, "getter" \in D, "setter" \in D, NEW O \in SUBSET D, NEW r
  PROVE Block(<<Call(Nothing, "PropertyBodyFunction", [getter |-> "getter", setter |-> "setter"])>>,
              D, O, {<<D, O>>}, r)
<1> DEFINE args == [getter |-> "getter", setter |-> "setter"]
           f == "PropertyBodyFunction"
<1>1. DOMAIN args = Lent(f) /\ \A p \in DOMAIN args : args[p] \in D
  BY Signatures
<1> HIDE DEF args
<1>2. f \in DOMAIN Code /\ ~Gives(f)
  BY FunctionNames, Signatures
<1>3. Block(<<Call(Nothing, f, args)>>, D, O, {<<D, O>>}, r)
  BY <1>1, <1>2, LendBlock
<1>4. QED
  BY <1>3 DEF args

LEMMA RuleNames ==
  {"ACCESS_MODIFIER", "ANY_TYPE", "ASSIGN", "BLOCK", "BOOL", "CALL", "CALL_PARAMETERS",
   "DEFAULT", "DEPENDS", "EXPRESSION", "FOR", "FUNCTION", "FUNCTIONS", "FUNCTION_PARAMETER",
   "FUNCTION_PARAMETERS", "IF", "LITERAL", "LOOP_CONDITION", "LOOP_INITIALIZE", "LOOP_UPDATE",
   "MODULE", "NAME", "NEW", "PROPERTIES", "PROPERTY", "PROPERTY_FUNCTION", "RETURN", "SPEC",
   "SPECS", "STRING", "SYMBOL", "TYPE"} \subseteq Rules \ {"freed"}
BY DEF Rules, Operand, Binary, Statement

\* The functions of the grammar, one after the other.
LEMMA ModuleBlocks ==
  Block(ParseModule, {}, {}, {}, TRUE)
<1>1. Block(<<New("module", "MODULE", Nothing)>> \o Try("module", <<Into("PackageDeclaration",
      "module"), Into("DependsStatements", "module"), Into("ModuleBody", "module")>>)
      \o <<Return("module")>>, {}, {}, {}, TRUE)
  <2>1. Block(<<New("module", "MODULE", Nothing)>>, {}, {}, {<<{"module"}, {"module"}>>}, TRUE)
    BY NewBlock, RuleNames
  <2>2. Block(Try("module", <<Into("PackageDeclaration", "module"), Into("DependsStatements",
        "module"), Into("ModuleBody", "module")>>), {"module"}, {"module"}, {<<{"module"},
        {"module"}>>}, TRUE)
    <3>1. Block(<<Into("PackageDeclaration", "module"), Into("DependsStatements", "module"),
          Into("ModuleBody", "module")>>, {"module"}, {"module"}, {<<{"module"}, {"module"}>>},
          TRUE)
      <4>1. Block(<<Into("PackageDeclaration", "module")>>, {"module"}, {"module"},
            {<<{"module"}, {"module"}>>}, TRUE)
        BY IntoBlock DEF OnNode
      <4>2. Block(<<Into("DependsStatements", "module")>>, {"module"}, {"module"}, {<<{"module"},
            {"module"}>>}, TRUE)
        BY IntoBlock DEF OnNode
      <4>3. Block(<<Into("ModuleBody", "module")>>, {"module"}, {"module"}, {<<{"module"},
            {"module"}>>}, TRUE)
        BY IntoBlock DEF OnNode
      <4>4. QED
        BY <4>1, <4>2, <4>3, Tuple3
    <3>2. QED
      BY <3>1, TryBlock
  <2>3. Block(<<New("module", "MODULE", Nothing)>> \o Try("module", <<Into("PackageDeclaration",
        "module"), Into("DependsStatements", "module"), Into("ModuleBody", "module")>>), {}, {},
        {<<{"module"}, {"module"}>>}, TRUE)
    BY <2>1, <2>2, Sequence
  <2>4. Block(<<Return("module")>>, {"module"}, {"module"}, {}, TRUE)
    BY ReturnBlock DEF Nothing
  <2>5. QED
    BY <2>3, <2>4, Sequence
<1>2. QED
  BY <1>1 DEF ParseModule

LEMMA PackageDeclarationBlocks ==
  Block(ParsePackageDeclaration, {"node"}, {}, {<<{"node", "name"}, {}>>}, FALSE)
<1> DEFINE K1 == {"node", "name"}
<1>1. Block(AdvanceTo({"package"}) \o AdvanceTo({"string"}) \o <<New("name", "NAME", "node"),
      Advance, ParseSemicolon>>, {"node"}, {}, {<<K1, {}>>}, FALSE)
  <2>1. Block(AdvanceTo({"package"}), {"node"}, {}, {<<{"node"}, {}>>}, FALSE)
    BY AdvanceToBlock
  <2>2. Block(AdvanceTo({"string"}), {"node"}, {}, {<<{"node"}, {}>>}, FALSE)
    BY AdvanceToBlock
  <2>3. Block(AdvanceTo({"package"}) \o AdvanceTo({"string"}), {"node"}, {}, {<<{"node"}, {}>>},
        FALSE)
    BY <2>1, <2>2, Sequence
  <2>4. Block(<<New("name", "NAME", "node"), Advance, ParseSemicolon>>, {"node"}, {}, {<<K1,
        {}>>}, FALSE)
    <3>1. Block(<<New("name", "NAME", "node")>>, {"node"}, {}, {<<K1, {}>>}, FALSE)
      BY NewKidBlock, RuleNames DEF Nothing
    <3>2. Block(<<Advance>>, K1, {}, {<<K1, {}>>}, FALSE)
      BY AdvanceBlock
    <3>3. Block(<<ParseSemicolon>>, K1, {}, {<<K1, {}>>}, FALSE)
      BY SemicolonBlock
    <3>4. QED
      BY <3>1, <3>2, <3>3, Tuple3
  <2>5. QED
    BY <2>3, <2>4, Sequence
<1>2. QED
  BY <1>1 DEF ParsePackageDeclaration

LEMMA DependsStatementsBlocks ==
  Block(ParseDependsStatements, {"node"}, {}, {<<{"node", "depends"}, {}>>}, FALSE)
<1> DEFINE c1 == If(HasNext, <<Advance>>, <<>>)
           c2 == While(Current({"depends"}), <<Into("DependsStatement", "depends"), c1>>)
           K1 == {"node", "depends"}
<1>1. Block(<<New("depends", "DEPENDS", "node"), c1, c2>>, {"node"}, {}, {<<K1, {}>>}, FALSE)
  <2>1. Block(<<New("depends", "DEPENDS", "node")>>, {"node"}, {}, {<<K1, {}>>}, FALSE)
    BY NewKidBlock, RuleNames DEF Nothing
  <2>2. Block(<<c1>>, K1, {}, {<<K1, {}>>}, FALSE)
    <3>1. Block(<<Advance>>, K1, {}, {<<K1, {}>>}, FALSE)
      BY AdvanceBlock
    <3>2. QED
      BY <3>1, NilBlock, IfBlock
  <2>3. Block(<<c2>>, K1, {}, {<<K1, {}>>}, FALSE)
    <3>1. Block(<<Into("DependsStatement", "depends"), c1>>, K1, {}, {<<K1, {}>>}, FALSE)
      <4>1. Block(<<Into("DependsStatement", "depends")>>, K1, {}, {<<K1, {}>>}, FALSE)
        BY IntoBlock DEF OnNode
      <4>2. Block(<<c1>>, K1, {}, {<<K1, {}>>}, FALSE)
        <5>1. Block(<<Advance>>, K1, {}, {<<K1, {}>>}, FALSE)
          BY AdvanceBlock
        <5>2. QED
          BY <5>1, NilBlock, IfBlock
      <4>3. QED
        BY <4>1, <4>2, Tuple2
    <3>2. QED
      BY <3>1, WhileBlock
  <2>4. QED
    BY <2>1, <2>2, <2>3, Tuple3
<1>2. QED
  BY <1>1 DEF ParseDependsStatements

LEMMA DependsStatementBlocks ==
  Block(ParseDependsStatement, {"node"}, {}, {<<{"node", "name"}, {}>>}, FALSE)
<1> DEFINE K1 == {"node", "name"}
<1>1. Block(<<Need(Current({"depends"}))>> \o AdvanceTo({"string"}) \o <<New("name", "NAME",
      "node"), Advance, ParseSemicolon>>, {"node"}, {}, {<<K1, {}>>}, FALSE)
  <2>1. Block(<<Need(Current({"depends"}))>>, {"node"}, {}, {<<{"node"}, {}>>}, FALSE)
    BY NeedBlock
  <2>2. Block(AdvanceTo({"string"}), {"node"}, {}, {<<{"node"}, {}>>}, FALSE)
    BY AdvanceToBlock
  <2>3. Block(<<Need(Current({"depends"}))>> \o AdvanceTo({"string"}), {"node"}, {}, {<<{"node"},
        {}>>}, FALSE)
    BY <2>1, <2>2, Sequence
  <2>4. Block(<<New("name", "NAME", "node"), Advance, ParseSemicolon>>, {"node"}, {}, {<<K1,
        {}>>}, FALSE)
    <3>1. Block(<<New("name", "NAME", "node")>>, {"node"}, {}, {<<K1, {}>>}, FALSE)
      BY NewKidBlock, RuleNames DEF Nothing
    <3>2. Block(<<Advance>>, K1, {}, {<<K1, {}>>}, FALSE)
      BY AdvanceBlock
    <3>3. Block(<<ParseSemicolon>>, K1, {}, {<<K1, {}>>}, FALSE)
      BY SemicolonBlock
    <3>4. QED
      BY <3>1, <3>2, <3>3, Tuple3
  <2>5. QED
    BY <2>3, <2>4, Sequence
<1>2. QED
  BY <1>1 DEF ParseDependsStatement

LEMMA ModuleBodyBlocks ==
  Block(ParseModuleBody, {"node"}, {}, {<<{"node", "specs", "functions"}, {}>>}, FALSE)
<1> DEFINE c1 == If(Current({"modifier"}), <<Need(HasNext)>>, <<>>)
           c2 == If(NextIs({"spec"}), <<Into("SpecDefinition", "specs")>>,
                 <<Into("StaticFunction", "functions")>>)
           c3 == If(HasNext, <<Advance>>, <<>>)
           c4 == While(HasNext, <<Need(Current({"modifier"})), c2, c3>>)
           K1 == {"node", "specs", "functions"}
           K2 == {"node", "specs"}
<1>1. Block(<<New("specs", "SPECS", "node"), New("functions", "FUNCTIONS", "node"), c1, c4>>,
      {"node"}, {}, {<<K1, {}>>}, FALSE)
  <2>1. Block(<<New("specs", "SPECS", "node")>>, {"node"}, {}, {<<K2, {}>>}, FALSE)
    BY NewKidBlock, RuleNames DEF Nothing
  <2>2. Block(<<New("functions", "FUNCTIONS", "node")>>, K2, {}, {<<K1, {}>>}, FALSE)
    BY NewKidBlock, RuleNames DEF Nothing
  <2>3. Block(<<c1>>, K1, {}, {<<K1, {}>>}, FALSE)
    <3>1. Block(<<Need(HasNext)>>, K1, {}, {<<K1, {}>>}, FALSE)
      BY NeedBlock
    <3>2. QED
      BY <3>1, NilBlock, IfBlock
  <2>4. Block(<<c4>>, K1, {}, {<<K1, {}>>}, FALSE)
    <3>1. Block(<<Need(Current({"modifier"})), c2, c3>>, K1, {}, {<<K1, {}>>}, FALSE)
      <4>1. Block(<<Need(Current({"modifier"}))>>, K1, {}, {<<K1, {}>>}, FALSE)
        BY NeedBlock
      <4>2. Block(<<c2>>, K1, {}, {<<K1, {}>>}, FALSE)
        <5>1. Block(<<Into("SpecDefinition", "specs")>>, K1, {}, {<<K1, {}>>}, FALSE)
          BY IntoBlock DEF OnNode
        <5>2. Block(<<Into("StaticFunction", "functions")>>, K1, {}, {<<K1, {}>>}, FALSE)
          BY IntoBlock DEF OnNode
        <5>3. QED
          BY <5>1, <5>2, IfBlock
      <4>3. Block(<<c3>>, K1, {}, {<<K1, {}>>}, FALSE)
        <5>1. Block(<<Advance>>, K1, {}, {<<K1, {}>>}, FALSE)
          BY AdvanceBlock
        <5>2. QED
          BY <5>1, NilBlock, IfBlock
      <4>4. QED
        BY <4>1, <4>2, <4>3, Tuple3
    <3>2. QED
      BY <3>1, WhileBlock
  <2>5. QED
    BY <2>1, <2>2, <2>3, <2>4, Tuple4
<1>2. QED
  BY <1>1 DEF ParseModuleBody

LEMMA SpecDefinitionBlocks ==
  Block(ParseSpecDefinition, {"node"}, {}, {<<{"node", "spec", "modifier"}, {}>>}, FALSE)
<1> DEFINE K1 == {"node", "spec", "modifier"}
           K2 == {"node", "spec"}
<1>1. Block(<<New("spec", "SPEC", "node"), Need(Current({"modifier"})), New("modifier",
      "ACCESS_MODIFIER", "spec")>> \o AdvanceTo({"spec"}) \o AdvanceTo({"name"})
      \o <<Into("TypeExpression", "spec"), Need(Current({"{"})), Into("SpecBody", "spec"),
      Need(Current({"}"}))>>, {"node"}, {}, {<<K1, {}>>}, FALSE)
  <2>1. Block(<<New("spec", "SPEC", "node"), Need(Current({"modifier"})), New("modifier",
        "ACCESS_MODIFIER", "spec")>>, {"node"}, {}, {<<K1, {}>>}, FALSE)
    <3>1. Block(<<New("spec", "SPEC", "node")>>, {"node"}, {}, {<<K2, {}>>}, FALSE)
      BY NewKidBlock, RuleNames DEF Nothing
    <3>2. Block(<<Need(Current({"modifier"}))>>, K2, {}, {<<K2, {}>>}, FALSE)
      BY NeedBlock
    <3>3. Block(<<New("modifier", "ACCESS_MODIFIER", "spec")>>, K2, {}, {<<K1, {}>>}, FALSE)
      BY NewKidBlock, RuleNames DEF Nothing
    <3>4. QED
      BY <3>1, <3>2, <3>3, Tuple3
  <2>2. Block(AdvanceTo({"spec"}), K1, {}, {<<K1, {}>>}, FALSE)
    BY AdvanceToBlock
  <2>3. Block(<<New("spec", "SPEC", "node"), Need(Current({"modifier"})), New("modifier",
        "ACCESS_MODIFIER", "spec")>> \o AdvanceTo({"spec"}), {"node"}, {}, {<<K1, {}>>}, FALSE)
    BY <2>1, <2>2, Sequence
  <2>4. Block(AdvanceTo({"name"}), K1, {}, {<<K1, {}>>}, FALSE)
    BY AdvanceToBlock
  <2>5. Block((<<New("spec", "SPEC", "node"), Need(Current({"modifier"})), New("modifier",
        "ACCESS_MODIFIER", "spec")>> \o AdvanceTo({"spec"})) \o AdvanceTo({"name"}), {"node"},
        {}, {<<K1, {}>>}, FALSE)
    BY <2>3, <2>4, Sequence
  <2>6. Block(<<Into("TypeExpression", "spec"), Need(Current({"{"})), Into("SpecBody", "spec"),
        Need(Current({"}"}))>>, K1, {}, {<<K1, {}>>}, FALSE)
    <3>1. Block(<<Into("TypeExpression", "spec")>>, K1, {}, {<<K1, {}>>}, FALSE)
      BY IntoBlock DEF OnNode
    <3>2. Block(<<Need(Current({"{"}))>>, K1, {}, {<<K1, {}>>}, FALSE)
      BY NeedBlock
    <3>3. Block(<<Into("SpecBody", "spec")>>, K1, {}, {<<K1, {}>>}, FALSE)
      BY IntoBlock DEF OnNode
    <3>4. Block(<<Need(Current({"}"}))>>, K1, {}, {<<K1, {}>>}, FALSE)
      BY NeedBlock
    <3>5. QED
      BY <3>1, <3>2, <3>3, <3>4, Tuple4
  <2>7. QED
    BY <2>5, <2>6, Sequence
<1>2. QED
  BY <1>1 DEF ParseSpecDefinition

LEMMA SpecBodyBlocks ==
  Block(ParseSpecBody, {"node"}, {}, {<<{"node", "properties", "functions"}, {}>>}, FALSE)
<1> DEFINE c1 == If(Current({"modifier"}), <<Into("SpecFunction", "functions")>>,
      <<Need(Current({"name"})), Into("Property", "properties")>>)
           c2 == While(Not(Current({"}"})), <<c1, Advance>>)
           K1 == {"node", "properties", "functions"}
           K2 == {"node", "properties"}
<1>1. Block(<<New("properties", "PROPERTIES", Nothing), New("functions", "FUNCTIONS", Nothing),
      Add("node", "functions"), Add("node", "properties"), Advance, c2>>, {"node"}, {}, {<<K1,
      {}>>}, FALSE)
  <2>1. Block(<<New("properties", "PROPERTIES", Nothing)>>, {"node"}, {}, {<<K2,
        {"properties"}>>}, FALSE)
    BY NewBlock, RuleNames
  <2>2. Block(<<New("functions", "FUNCTIONS", Nothing)>>, K2, {"properties"}, {<<K1,
        {"properties", "functions"}>>}, FALSE)
    BY NewBlock, RuleNames
  <2>3. Block(<<Add("node", "functions")>>, K1, {"properties", "functions"}, {<<K1,
        {"properties"}>>}, FALSE)
    BY AddBlock
  <2>4. Block(<<Add("node", "properties")>>, K1, {"properties"}, {<<K1, {}>>}, FALSE)
    BY AddBlock
  <2>5. Block(<<Advance>>, K1, {}, {<<K1, {}>>}, FALSE)
    BY AdvanceBlock
  <2>6. Block(<<c2>>, K1, {}, {<<K1, {}>>}, FALSE)
    <3>1. Block(<<c1, Advance>>, K1, {}, {<<K1, {}>>}, FALSE)
      <4>1. Block(<<c1>>, K1, {}, {<<K1, {}>>}, FALSE)
        <5>1. Block(<<Into("SpecFunction", "functions")>>, K1, {}, {<<K1, {}>>}, FALSE)
          BY IntoBlock DEF OnNode
        <5>2. Block(<<Need(Current({"name"})), Into("Property", "properties")>>, K1, {}, {<<K1,
              {}>>}, FALSE)
          <6>1. Block(<<Need(Current({"name"}))>>, K1, {}, {<<K1, {}>>}, FALSE)
            BY NeedBlock
          <6>2. Block(<<Into("Property", "properties")>>, K1, {}, {<<K1, {}>>}, FALSE)
            BY IntoBlock DEF OnNode
          <6>3. QED
            BY <6>1, <6>2, Tuple2
        <5>3. QED
          BY <5>1, <5>2, IfBlock
      <4>2. Block(<<Advance>>, K1, {}, {<<K1, {}>>}, FALSE)
        BY AdvanceBlock
      <4>3. QED
        BY <4>1, <4>2, Tuple2
    <3>2. QED
      BY <3>1, WhileBlock
  <2>7. QED
    BY <2>1, <2>2, <2>3, <2>4, <2>5, <2>6, Tuple6
<1>2. QED
  BY <1>1 DEF ParseSpecBody

LEMMA PropertyBlocks ==
  Block(ParseProperty, {"node"}, {}, {<<{"node", "property", "name"}, {}>>}, FALSE)
<1> DEFINE K1 == {"node", "property", "name"}
           K2 == {"node", "property"}
<1>1. Block(<<New("property", "PROPERTY", "node"), Need(Current({"name"})),
      Into("TypeExpression", "property"), Need(Current({"name"})), New("name", "NAME",
      "property")>> \o AdvanceTo({"{"}) \o <<Advance, Into("PropertyBody", "property"),
      Need(Current({"}"}))>>, {"node"}, {}, {<<K1, {}>>}, FALSE)
  <2>1. Block(<<New("property", "PROPERTY", "node"), Need(Current({"name"})),
        Into("TypeExpression", "property"), Need(Current({"name"})), New("name", "NAME",
        "property")>>, {"node"}, {}, {<<K1, {}>>}, FALSE)
    <3>1. Block(<<New("property", "PROPERTY", "node")>>, {"node"}, {}, {<<K2, {}>>}, FALSE)
      BY NewKidBlock, RuleNames DEF Nothing
    <3>2. Block(<<Need(Current({"name"}))>>, K2, {}, {<<K2, {}>>}, FALSE)
      BY NeedBlock
    <3>3. Block(<<Into("TypeExpression", "property")>>, K2, {}, {<<K2, {}>>}, FALSE)
      BY IntoBlock DEF OnNode
    <3>4. Block(<<Need(Current({"name"}))>>, K2, {}, {<<K2, {}>>}, FALSE)
      BY NeedBlock
    <3>5. Block(<<New("name", "NAME", "property")>>, K2, {}, {<<K1, {}>>}, FALSE)
      BY NewKidBlock, RuleNames DEF Nothing
    <3>6. QED
      BY <3>1, <3>2, <3>3, <3>4, <3>5, Tuple5
  <2>2. Block(AdvanceTo({"{"}), K1, {}, {<<K1, {}>>}, FALSE)
    BY AdvanceToBlock
  <2>3. Block(<<New("property", "PROPERTY", "node"), Need(Current({"name"})),
        Into("TypeExpression", "property"), Need(Current({"name"})), New("name", "NAME",
        "property")>> \o AdvanceTo({"{"}), {"node"}, {}, {<<K1, {}>>}, FALSE)
    BY <2>1, <2>2, Sequence
  <2>4. Block(<<Advance, Into("PropertyBody", "property"), Need(Current({"}"}))>>, K1, {}, {<<K1,
        {}>>}, FALSE)
    <3>1. Block(<<Advance>>, K1, {}, {<<K1, {}>>}, FALSE)
      BY AdvanceBlock
    <3>2. Block(<<Into("PropertyBody", "property")>>, K1, {}, {<<K1, {}>>}, FALSE)
      BY IntoBlock DEF OnNode
    <3>3. Block(<<Need(Current({"}"}))>>, K1, {}, {<<K1, {}>>}, FALSE)
      BY NeedBlock
    <3>4. QED
      BY <3>1, <3>2, <3>3, Tuple3
  <2>5. QED
    BY <2>3, <2>4, Sequence
<1>2. QED
  BY <1>1 DEF ParseProperty

LEMMA PropertyBodyBlocks ==
  Block(ParsePropertyBody, {"node"}, {}, {<<{"node", "getter", "setter"}, {}>>}, FALSE)
<1> DEFINE K1 == {"node", "getter", "setter"}
           K2 == {"node", "getter"}
<1>1. Block(<<New("getter", "PROPERTY_FUNCTION", "node"), New("setter", "PROPERTY_FUNCTION",
      "node"), Call(Nothing, "PropertyBodyFunction", [getter |-> "getter", setter |-> "setter"]),
      Call(Nothing, "PropertyBodyFunction", [getter |-> "getter", setter |-> "setter"]),
      Need(Not(Childless("getter"))), Need(Not(Childless("setter")))>>, {"node"}, {}, {<<K1,
      {}>>}, FALSE)
  <2>1. Block(<<New("getter", "PROPERTY_FUNCTION", "node")>>, {"node"}, {}, {<<K2, {}>>}, FALSE)
    BY NewKidBlock, RuleNames DEF Nothing
  <2>2. Block(<<New("setter", "PROPERTY_FUNCTION", "node")>>, K2, {}, {<<K1, {}>>}, FALSE)
    BY NewKidBlock, RuleNames DEF Nothing
  <2>3. Block(<<Call(Nothing, "PropertyBodyFunction", [getter |-> "getter",
        setter |-> "setter"])>>, K1, {}, {<<K1, {}>>}, FALSE)
    BY AccessorBlock
  <2>4. Block(<<Call(Nothing, "PropertyBodyFunction", [getter |-> "getter",
        setter |-> "setter"])>>, K1, {}, {<<K1, {}>>}, FALSE)
    BY AccessorBlock
  <2>5. Block(<<Need(Not(Childless("getter")))>>, K1, {}, {<<K1, {}>>}, FALSE)
    BY NeedBlock
  <2>6. Block(<<Need(Not(Childless("setter")))>>, K1, {}, {<<K1, {}>>}, FALSE)
    BY NeedBlock
  <2>7. QED
    BY <2>1, <2>2, <2>3, <2>4, <2>5, <2>6, Tuple6
<1>2. QED
  BY <1>1 DEF ParsePropertyBody

LEMMA PropertyBodyFunctionBlocks ==
  Block(ParsePropertyBodyFunction, {"getter", "setter"}, {}, {<<{"getter", "setter", "node",
        "modifier"}, {}>>}, FALSE)
<1> DEFINE c1 == If(Current({"}"}), <<Return(Nothing)>>, <<>>)
           c2 == If(Current({"get"}), <<Let("node", "getter")>>, <<Need(Current({"set"})),
                 Let("node", "setter")>>)
           c3 == If(Current({";"}), <<Advance, Return(Nothing)>>, <<>>)
           K1 == {"getter", "setter"}
           K2 == K1 \cup {"node", "modifier"}
           K3 == K1 \cup {"node"}
<1>1. Block(<<c1, Need(Current({"modifier"})), Advance, c2, Need(Childless("node")),
      New("modifier", "ACCESS_MODIFIER", "node"), Advance, c3, Into("BlockStatement", "node"),
      Advance>>, K1, {}, {<<K2, {}>>}, FALSE)
  <2>1. Block(<<c1>>, K1, {}, {<<K1, {}>>}, FALSE)
    <3>1. Block(<<Return(Nothing)>>, K1, {}, {}, FALSE)
      BY LeaveBlock
    <3>2. QED
      BY <3>1, DeadBlock, NilBlock, IfBlock
  <2>2. Block(<<Need(Current({"modifier"}))>>, K1, {}, {<<K1, {}>>}, FALSE)
    BY NeedBlock
  <2>3. Block(<<Advance>>, K1, {}, {<<K1, {}>>}, FALSE)
    BY AdvanceBlock
  <2>4. Block(<<c2>>, K1, {}, {<<K3, {}>>}, FALSE)
    <3>1. Block(<<Let("node", "getter")>>, K1, {}, {<<K3, {}>>}, FALSE)
      BY LetBlock
    <3>2. Block(<<Need(Current({"set"})), Let("node", "setter")>>, K1, {}, {<<K3, {}>>}, FALSE)
      <4>1. Block(<<Need(Current({"set"}))>>, K1, {}, {<<K1, {}>>}, FALSE)
        BY NeedBlock
      <4>2. Block(<<Let("node", "setter")>>, K1, {}, {<<K3, {}>>}, FALSE)
        BY LetBlock
      <4>3. QED
        BY <4>1, <4>2, Tuple2
    <3>3. QED
      BY <3>1, <3>2, IfBlock
  <2>5. Block(<<Need(Childless("node"))>>, K3, {}, {<<K3, {}>>}, FALSE)
    BY NeedBlock
  <2>6. Block(<<New("modifier", "ACCESS_MODIFIER", "node")>>, K3, {}, {<<K2, {}>>}, FALSE)
    BY NewKidBlock, RuleNames DEF Nothing
  <2>7. Block(<<Advance>>, K2, {}, {<<K2, {}>>}, FALSE)
    BY AdvanceBlock
  <2>8. Block(<<c3>>, K2, {}, {<<K2, {}>>}, FALSE)
    <3>1. Block(<<Advance, Return(Nothing)>>, K2, {}, {}, FALSE)
      <4>1. Block(<<Advance>>, K2, {}, {<<K2, {}>>}, FALSE)
        BY AdvanceBlock
      <4>2. Block(<<Return(Nothing)>>, K2, {}, {}, FALSE)
        BY LeaveBlock
      <4>3. QED
        BY <4>1, <4>2, Tuple2
    <3>2. QED
      BY <3>1, DeadBlock, NilBlock, IfBlock
  <2>9. Block(<<Into("BlockStatement", "node")>>, K2, {}, {<<K2, {}>>}, FALSE)
    BY IntoBlock DEF OnNode
  <2>10. Block(<<Advance>>, K2, {}, {<<K2, {}>>}, FALSE)
    BY AdvanceBlock
  <2>11. QED
    BY <2>1, <2>2, <2>3, <2>4, <2>5, <2>6, <2>7, <2>8, <2>9, <2>10, Tuple10
<1>2. QED
  BY <1>1 DEF ParsePropertyBodyFunction

LEMMA FunctionBlocks ==
  ASSUME NEW in_spec \in BOOLEAN
  PROVE Block(ParseFunction(in_spec), {"node"}, {},
              {<<{"node", "function", "modifier", "name"}, {}>>}, FALSE)
<1> DEFINE c1 == If(Current({"construct"}), (IF in_spec THEN <<>> ELSE <<Throw>>)
      \o <<New("type", "TYPE", "function")>>, <<Need(Current({"name"})), Into("TypeExpression",
      "function"), Need(Current({"name"}))>>)
           K1 == {"node", "function", "modifier", "name"}
           K2 == {"node", "function"}
           K3 == K2 \cup {"modifier"}
           K4 == K3 \cup {"type"}
<1>1. Block(<<New("function", "FUNCTION", "node"), Need(Current({"modifier"})), New("modifier",
      "ACCESS_MODIFIER", "function"), Advance, c1, New("name", "NAME", "function")>>
      \o AdvanceTo({"("}) \o <<Into("FunctionParameters", "function"), Need(Current({")"})),
      Advance, Into("BlockStatement", "function")>>, {"node"}, {}, {<<K1, {}>>}, FALSE)
  <2>1. Block(<<New("function", "FUNCTION", "node"), Need(Current({"modifier"})), New("modifier",
        "ACCESS_MODIFIER", "function"), Advance, c1, New("name", "NAME", "function")>>, {"node"},
        {}, {<<K1, {}>>}, FALSE)
    <3>1. Block(<<New("function", "FUNCTION", "node")>>, {"node"}, {}, {<<K2, {}>>}, FALSE)
      BY NewKidBlock, RuleNames DEF Nothing
    <3>2. Block(<<Need(Current({"modifier"}))>>, K2, {}, {<<K2, {}>>}, FALSE)
      BY NeedBlock
    <3>3. Block(<<New("modifier", "ACCESS_MODIFIER", "function")>>, K2, {}, {<<K3, {}>>}, FALSE)
      BY NewKidBlock, RuleNames DEF Nothing
    <3>4. Block(<<Advance>>, K3, {}, {<<K3, {}>>}, FALSE)
      BY AdvanceBlock
    <3>5. Block(<<c1>>, K3, {}, {<<K3, {}>>}, FALSE)
      <4>1. Block((IF in_spec THEN <<>> ELSE <<Throw>>) \o <<New("type", "TYPE", "function")>>,
            K3, {}, {<<K3, {}>>}, FALSE)
        <5>1. Block((IF in_spec THEN <<>> ELSE <<Throw>>) \o <<New("type", "TYPE", "function")>>,
              K3, {}, {<<K4, {}>>}, FALSE)
          <6>1. Block((IF in_spec THEN <<>> ELSE <<Throw>>), K3, {}, {<<K3, {}>>}, FALSE)
            BY NilBlock, ThrowBlock, DeadBlock
          <6>2. Block(<<New("type", "TYPE", "function")>>, K3, {}, {<<K4, {}>>}, FALSE)
            BY NewKidBlock, RuleNames DEF Nothing
          <6>3. QED
            BY <6>1, <6>2, Sequence
        <5>2. K3 \subseteq K3 /\ K3 \subseteq K4
          OBVIOUS
        <5>3. QED
          BY <5>1, <5>2, WiderBlock, Zenon
      <4>2. Block(<<Need(Current({"name"})), Into("TypeExpression", "function"),
            Need(Current({"name"}))>>, K3, {}, {<<K3, {}>>}, FALSE)
        <5>1. Block(<<Need(Current({"name"}))>>, K3, {}, {<<K3, {}>>}, FALSE)
          BY NeedBlock
        <5>2. Block(<<Into("TypeExpression", "function")>>, K3, {}, {<<K3, {}>>}, FALSE)
          BY IntoBlock DEF OnNode
        <5>3. Block(<<Need(Current({"name"}))>>, K3, {}, {<<K3, {}>>}, FALSE)
          BY NeedBlock
        <5>4. QED
          BY <5>1, <5>2, <5>3, Tuple3
      <4>3. QED
        BY <4>1, <4>2, IfBlock
    <3>6. Block(<<New("name", "NAME", "function")>>, K3, {}, {<<K1, {}>>}, FALSE)
      BY NewKidBlock, RuleNames DEF Nothing
    <3>7. QED
      BY <3>1, <3>2, <3>3, <3>4, <3>5, <3>6, Tuple6
  <2>2. Block(AdvanceTo({"("}), K1, {}, {<<K1, {}>>}, FALSE)
    BY AdvanceToBlock
  <2>3. Block(<<New("function", "FUNCTION", "node"), Need(Current({"modifier"})), New("modifier",
        "ACCESS_MODIFIER", "function"), Advance, c1, New("name", "NAME", "function")>>
        \o AdvanceTo({"("}), {"node"}, {}, {<<K1, {}>>}, FALSE)
    BY <2>1, <2>2, Sequence
  <2>4. Block(<<Into("FunctionParameters", "function"), Need(Current({")"})), Advance,
        Into("BlockStatement", "function")>>, K1, {}, {<<K1, {}>>}, FALSE)
    <3>1. Block(<<Into("FunctionParameters", "function")>>, K1, {}, {<<K1, {}>>}, FALSE)
      BY IntoBlock DEF OnNode
    <3>2. Block(<<Need(Current({")"}))>>, K1, {}, {<<K1, {}>>}, FALSE)
      BY NeedBlock
    <3>3. Block(<<Advance>>, K1, {}, {<<K1, {}>>}, FALSE)
      BY AdvanceBlock
    <3>4. Block(<<Into("BlockStatement", "function")>>, K1, {}, {<<K1, {}>>}, FALSE)
      BY IntoBlock DEF OnNode
    <3>5. QED
      BY <3>1, <3>2, <3>3, <3>4, Tuple4
  <2>5. QED
    BY <2>3, <2>4, Sequence
<1>2. QED
  BY <1>1 DEF ParseFunction

LEMMA FunctionParametersBlocks ==
  Block(ParseFunctionParameters, {"node"}, {}, {<<{"node", "parameters"}, {}>>}, FALSE)
<1> DEFINE c1 == While(Not(Current({")"})), <<Need(Current({","})), Advance,
      Into("FunctionParameter", "parameters"), Advance>>)
           c2 == Unless(Current({")"}), <<Into("FunctionParameter", "parameters"), Advance, c1>>)
           K1 == {"node", "parameters"}
<1>1. Block(<<New("parameters", "FUNCTION_PARAMETERS", "node"), Advance, c2>>, {"node"}, {},
      {<<K1, {}>>}, FALSE)
  <2>1. Block(<<New("parameters", "FUNCTION_PARAMETERS", "node")>>, {"node"}, {}, {<<K1, {}>>},
        FALSE)
    BY NewKidBlock, RuleNames DEF Nothing
  <2>2. Block(<<Advance>>, K1, {}, {<<K1, {}>>}, FALSE)
    BY AdvanceBlock
  <2>3. Block(<<c2>>, K1, {}, {<<K1, {}>>}, FALSE)
    <3>1. Block(<<Into("FunctionParameter", "parameters"), Advance, c1>>, K1, {}, {<<K1, {}>>},
          FALSE)
      <4>1. Block(<<Into("FunctionParameter", "parameters")>>, K1, {}, {<<K1, {}>>}, FALSE)
        BY IntoBlock DEF OnNode
      <4>2. Block(<<Advance>>, K1, {}, {<<K1, {}>>}, FALSE)
        BY AdvanceBlock
      <4>3. Block(<<c1>>, K1, {}, {<<K1, {}>>}, FALSE)
        <5>1. Block(<<Need(Current({","})), Advance, Into("FunctionParameter", "parameters"),
              Advance>>, K1, {}, {<<K1, {}>>}, FALSE)
          <6>1. Block(<<Need(Current({","}))>>, K1, {}, {<<K1, {}>>}, FALSE)
            BY NeedBlock
          <6>2. Block(<<Advance>>, K1, {}, {<<K1, {}>>}, FALSE)
            BY AdvanceBlock
          <6>3. Block(<<Into("FunctionParameter", "parameters")>>, K1, {}, {<<K1, {}>>}, FALSE)
            BY IntoBlock DEF OnNode
          <6>4. Block(<<Advance>>, K1, {}, {<<K1, {}>>}, FALSE)
            BY AdvanceBlock
          <6>5. QED
            BY <6>1, <6>2, <6>3, <6>4, Tuple4
        <5>2. QED
          BY <5>1, WhileBlock
      <4>4. QED
        BY <4>1, <4>2, <4>3, Tuple3
    <3>2. QED
      BY <3>1, UnlessBlock
  <2>4. QED
    BY <2>1, <2>2, <2>3, Tuple3
<1>2. QED
  BY <1>1 DEF ParseFunctionParameters

LEMMA FunctionParameterBlocks ==
  Block(ParseFunctionParameter, {"node"}, {}, {<<{"node", "parameter", "name"}, {}>>}, FALSE)
<1> DEFINE K1 == {"node", "parameter", "name"}
           K2 == {"node", "parameter"}
<1>1. Block(<<New("parameter", "FUNCTION_PARAMETER", "node"), Need(Current({"name"})),
      Into("TypeExpression", "parameter"), Need(Current({"name"})), New("name", "NAME",
      "parameter")>>, {"node"}, {}, {<<K1, {}>>}, FALSE)
  <2>1. Block(<<New("parameter", "FUNCTION_PARAMETER", "node")>>, {"node"}, {}, {<<K2, {}>>},
        FALSE)
    BY NewKidBlock, RuleNames DEF Nothing
  <2>2. Block(<<Need(Current({"name"}))>>, K2, {}, {<<K2, {}>>}, FALSE)
    BY NeedBlock
  <2>3. Block(<<Into("TypeExpression", "parameter")>>, K2, {}, {<<K2, {}>>}, FALSE)
    BY IntoBlock DEF OnNode
  <2>4. Block(<<Need(Current({"name"}))>>, K2, {}, {<<K2, {}>>}, FALSE)
    BY NeedBlock
  <2>5. Block(<<New("name", "NAME", "parameter")>>, K2, {}, {<<K1, {}>>}, FALSE)
    BY NewKidBlock, RuleNames DEF Nothing
  <2>6. QED
    BY <2>1, <2>2, <2>3, <2>4, <2>5, Tuple5
<1>2. QED
  BY <1>1 DEF ParseFunctionParameter

LEMMA TypeExpressionBlocks ==
  Block(ParseTypeExpression, {"node"}, {}, {<<{"node", "type"}, {}>>}, FALSE)
<1> DEFINE c1 == While(Not(Current({">"})), <<Need(Current({","})), Advance>>
      \o <<Need(Current({"name"})), Into("TypeExpression", "type")>>)
           c2 == If(NextIs({"<"}), <<Advance, Advance>> \o <<Need(Current({"name"})),
                 Into("TypeExpression", "type")>> \o <<c1>>, <<>>)
           K1 == {"node", "type"}
<1>1. Block(<<New("type", "TYPE", "node"), c2, Advance>>, {"node"}, {}, {<<K1, {}>>}, FALSE)
  <2>1. Block(<<New("type", "TYPE", "node")>>, {"node"}, {}, {<<K1, {}>>}, FALSE)
    BY NewKidBlock, RuleNames DEF Nothing
  <2>2. Block(<<c2>>, K1, {}, {<<K1, {}>>}, FALSE)
    <3>1. Block(<<Advance, Advance>> \o <<Need(Current({"name"})), Into("TypeExpression",
          "type")>> \o <<c1>>, K1, {}, {<<K1, {}>>}, FALSE)
      <4>1. Block(<<Advance, Advance>>, K1, {}, {<<K1, {}>>}, FALSE)
        <5>1. Block(<<Advance>>, K1, {}, {<<K1, {}>>}, FALSE)
          BY AdvanceBlock
        <5>2. Block(<<Advance>>, K1, {}, {<<K1, {}>>}, FALSE)
          BY AdvanceBlock
        <5>3. QED
          BY <5>1, <5>2, Tuple2
      <4>2. Block(<<Need(Current({"name"})), Into("TypeExpression", "type")>>, K1, {}, {<<K1,
            {}>>}, FALSE)
        <5>1. Block(<<Need(Current({"name"}))>>, K1, {}, {<<K1, {}>>}, FALSE)
          BY NeedBlock
        <5>2. Block(<<Into("TypeExpression", "type")>>, K1, {}, {<<K1, {}>>}, FALSE)
          BY IntoBlock DEF OnNode
        <5>3. QED
          BY <5>1, <5>2, Tuple2
      <4>3. Block(<<Advance, Advance>> \o <<Need(Current({"name"})), Into("TypeExpression",
            "type")>>, K1, {}, {<<K1, {}>>}, FALSE)
        BY <4>1, <4>2, Sequence
      <4>4. Block(<<c1>>, K1, {}, {<<K1, {}>>}, FALSE)
        <5>1. Block(<<Need(Current({","})), Advance>> \o <<Need(Current({"name"})),
              Into("TypeExpression", "type")>>, K1, {}, {<<K1, {}>>}, FALSE)
          <6>1. Block(<<Need(Current({","})), Advance>>, K1, {}, {<<K1, {}>>}, FALSE)
            <7>1. Block(<<Need(Current({","}))>>, K1, {}, {<<K1, {}>>}, FALSE)
              BY NeedBlock
            <7>2. Block(<<Advance>>, K1, {}, {<<K1, {}>>}, FALSE)
              BY AdvanceBlock
            <7>3. QED
              BY <7>1, <7>2, Tuple2
          <6>2. Block(<<Need(Current({"name"})), Into("TypeExpression", "type")>>, K1, {}, {<<K1,
                {}>>}, FALSE)
            <7>1. Block(<<Need(Current({"name"}))>>, K1, {}, {<<K1, {}>>}, FALSE)
              BY NeedBlock
            <7>2. Block(<<Into("TypeExpression", "type")>>, K1, {}, {<<K1, {}>>}, FALSE)
              BY IntoBlock DEF OnNode
            <7>3. QED
              BY <7>1, <7>2, Tuple2
          <6>3. QED
            BY <6>1, <6>2, Sequence
        <5>2. QED
          BY <5>1, WhileBlock
      <4>5. QED
        BY <4>3, <4>4, Sequence
    <3>2. QED
      BY <3>1, NilBlock, IfBlock
  <2>3. Block(<<Advance>>, K1, {}, {<<K1, {}>>}, FALSE)
    BY AdvanceBlock
  <2>4. QED
    BY <2>1, <2>2, <2>3, Tuple3
<1>2. QED
  BY <1>1 DEF ParseTypeExpression

LEMMA BlockStatementBlocks ==
  Block(ParseBlockStatement, {"node"}, {}, {<<{"node", "block"}, {}>>}, FALSE)
<1> DEFINE c1 == While(Not(Current({"}"})), <<Into("Statement", "block")>>)
           K1 == {"node", "block"}
<1>1. Block(<<New("block", "BLOCK", "node"), Need(Current({"{"})), Advance, c1,
      Need(Current({"}"}))>>, {"node"}, {}, {<<K1, {}>>}, FALSE)
  <2>1. Block(<<New("block", "BLOCK", "node")>>, {"node"}, {}, {<<K1, {}>>}, FALSE)
    BY NewKidBlock, RuleNames DEF Nothing
  <2>2. Block(<<Need(Current({"{"}))>>, K1, {}, {<<K1, {}>>}, FALSE)
    BY NeedBlock
  <2>3. Block(<<Advance>>, K1, {}, {<<K1, {}>>}, FALSE)
    BY AdvanceBlock
  <2>4. Block(<<c1>>, K1, {}, {<<K1, {}>>}, FALSE)
    <3>1. Block(<<Into("Statement", "block")>>, K1, {}, {<<K1, {}>>}, FALSE)
      BY IntoBlock DEF OnNode
    <3>2. QED
      BY <3>1, WhileBlock
  <2>5. Block(<<Need(Current({"}"}))>>, K1, {}, {<<K1, {}>>}, FALSE)
    BY NeedBlock
  <2>6. QED
    BY <2>1, <2>2, <2>3, <2>4, <2>5, Tuple5
<1>2. QED
  BY <1>1 DEF ParseBlockStatement

LEMMA StatementBlocks ==
  Block(ParseStatement, {"node"}, {}, {<<{"node"}, {}>>}, FALSE)
<1> DEFINE c1 == If(Current({"(", "name"}), <<Into("NameStatement", "node")>>,
      <<Need(Current(Keywords)), Into("KeywordStatement", "node")>>)
           c2 == If(Current({"{"}), <<Into("BlockStatement", "node"), Advance>>, <<c1>>)
<1>1. Block(<<c2>>, {"node"}, {}, {<<{"node"}, {}>>}, FALSE)
  <2>1. Block(<<Into("BlockStatement", "node"), Advance>>, {"node"}, {}, {<<{"node"}, {}>>},
        FALSE)
    <3>1. Block(<<Into("BlockStatement", "node")>>, {"node"}, {}, {<<{"node"}, {}>>}, FALSE)
      BY IntoBlock DEF OnNode
    <3>2. Block(<<Advance>>, {"node"}, {}, {<<{"node"}, {}>>}, FALSE)
      BY AdvanceBlock
    <3>3. QED
      BY <3>1, <3>2, Tuple2
  <2>2. Block(<<c1>>, {"node"}, {}, {<<{"node"}, {}>>}, FALSE)
    <3>1. Block(<<Into("NameStatement", "node")>>, {"node"}, {}, {<<{"node"}, {}>>}, FALSE)
      BY IntoBlock DEF OnNode
    <3>2. Block(<<Need(Current(Keywords)), Into("KeywordStatement", "node")>>, {"node"}, {},
          {<<{"node"}, {}>>}, FALSE)
      <4>1. Block(<<Need(Current(Keywords))>>, {"node"}, {}, {<<{"node"}, {}>>}, FALSE)
        BY NeedBlock
      <4>2. Block(<<Into("KeywordStatement", "node")>>, {"node"}, {}, {<<{"node"}, {}>>}, FALSE)
        BY IntoBlock DEF OnNode
      <4>3. QED
        BY <4>1, <4>2, Tuple2
    <3>3. QED
      BY <3>1, <3>2, IfBlock
  <2>3. QED
    BY <2>1, <2>2, IfBlock
<1>2. QED
  BY <1>1 DEF ParseStatement

LEMMA KeywordStatementBlocks ==
  Block(ParseKeywordStatement, {"node"}, {}, {<<{"node"}, {}>>}, FALSE)
<1> DEFINE c1 == If(Current({"for"}), <<Into("ForStatement", "node")>>,
      <<Need(Current({"return"})), Into("ReturnStatement", "node")>>)
           c2 == If(Current({"while"}), <<Into("WhileStatement", "node")>>, <<c1>>)
           c3 == If(Current({"if"}), <<Into("IfStatement", "node")>>, <<c2>>)
<1>1. Block(<<c3>>, {"node"}, {}, {<<{"node"}, {}>>}, FALSE)
  <2>1. Block(<<Into("IfStatement", "node")>>, {"node"}, {}, {<<{"node"}, {}>>}, FALSE)
    BY IntoBlock DEF OnNode
  <2>2. Block(<<c2>>, {"node"}, {}, {<<{"node"}, {}>>}, FALSE)
    <3>1. Block(<<Into("WhileStatement", "node")>>, {"node"}, {}, {<<{"node"}, {}>>}, FALSE)
      BY IntoBlock DEF OnNode
    <3>2. Block(<<c1>>, {"node"}, {}, {<<{"node"}, {}>>}, FALSE)
      <4>1. Block(<<Into("ForStatement", "node")>>, {"node"}, {}, {<<{"node"}, {}>>}, FALSE)
        BY IntoBlock DEF OnNode
      <4>2. Block(<<Need(Current({"return"})), Into("ReturnStatement", "node")>>, {"node"}, {},
            {<<{"node"}, {}>>}, FALSE)
        <5>1. Block(<<Need(Current({"return"}))>>, {"node"}, {}, {<<{"node"}, {}>>}, FALSE)
          BY NeedBlock
        <5>2. Block(<<Into("ReturnStatement", "node")>>, {"node"}, {}, {<<{"node"}, {}>>}, FALSE)
          BY IntoBlock DEF OnNode
        <5>3. QED
          BY <5>1, <5>2, Tuple2
      <4>3. QED
        BY <4>1, <4>2, IfBlock
    <3>3. QED
      BY <3>1, <3>2, IfBlock
  <2>3. QED
    BY <2>1, <2>2, IfBlock
<1>2. QED
  BY <1>1 DEF ParseKeywordStatement

LEMMA IfStatementBlocks ==
  Block(ParseIfStatement, {"node"}, {}, {<<{"node", "if"}, {}>>}, FALSE)
<1> DEFINE K1 == {"node", "if"}
<1>1. Block(<<Advance, New("if", "IF", "node"), Need(Current({"("})), Advance, Into("Expression",
      "if"), Need(Current({")"})), Advance, Into("BlockStatement", "if"), Advance,
      Into("ElIfStatement", "if")>>, {"node"}, {}, {<<K1, {}>>}, FALSE)
  <2>1. Block(<<Advance>>, {"node"}, {}, {<<{"node"}, {}>>}, FALSE)
    BY AdvanceBlock
  <2>2. Block(<<New("if", "IF", "node")>>, {"node"}, {}, {<<K1, {}>>}, FALSE)
    BY NewKidBlock, RuleNames DEF Nothing
  <2>3. Block(<<Need(Current({"("}))>>, K1, {}, {<<K1, {}>>}, FALSE)
    BY NeedBlock
  <2>4. Block(<<Advance>>, K1, {}, {<<K1, {}>>}, FALSE)
    BY AdvanceBlock
  <2>5. Block(<<Into("Expression", "if")>>, K1, {}, {<<K1, {}>>}, FALSE)
    BY IntoBlock DEF OnNode
  <2>6. Block(<<Need(Current({")"}))>>, K1, {}, {<<K1, {}>>}, FALSE)
    BY NeedBlock
  <2>7. Block(<<Advance>>, K1, {}, {<<K1, {}>>}, FALSE)
    BY AdvanceBlock
  <2>8. Block(<<Into("BlockStatement", "if")>>, K1, {}, {<<K1, {}>>}, FALSE)
    BY IntoBlock DEF OnNode
  <2>9. Block(<<Advance>>, K1, {}, {<<K1, {}>>}, FALSE)
    BY AdvanceBlock
  <2>10. Block(<<Into("ElIfStatement", "if")>>, K1, {}, {<<K1, {}>>}, FALSE)
    BY IntoBlock DEF OnNode
  <2>11. QED
    BY <2>1, <2>2, <2>3, <2>4, <2>5, <2>6, <2>7, <2>8, <2>9, <2>10, Tuple10
<1>2. QED
  BY <1>1 DEF ParseIfStatement

LEMMA ElIfStatementBlocks ==
  Block(ParseElIfStatement, {"node"}, {}, {<<{"node"}, {}>>}, FALSE)
<1> DEFINE c1 == If(Current({"if"}), <<New("else", "BLOCK", "node"), Into("IfStatement",
      "else")>>, <<Into("BlockStatement", "node"), Advance>>)
           c2 == If(Not(Current({"else"})), <<New("else", "BLOCK", "node")>>, <<Advance, c1>>)
           K1 == {"node", "else"}
<1>1. Block(<<c2>>, {"node"}, {}, {<<{"node"}, {}>>}, FALSE)
  <2>1. Block(<<New("else", "BLOCK", "node")>>, {"node"}, {}, {<<{"node"}, {}>>}, FALSE)
    <3>1. Block(<<New("else", "BLOCK", "node")>>, {"node"}, {}, {<<K1, {}>>}, FALSE)
      BY NewKidBlock, RuleNames DEF Nothing
    <3>2. QED
      BY <3>1, WiderBlock
  <2>2. Block(<<Advance, c1>>, {"node"}, {}, {<<{"node"}, {}>>}, FALSE)
    <3>1. Block(<<Advance>>, {"node"}, {}, {<<{"node"}, {}>>}, FALSE)
      BY AdvanceBlock
    <3>2. Block(<<c1>>, {"node"}, {}, {<<{"node"}, {}>>}, FALSE)
      <4>1. Block(<<New("else", "BLOCK", "node"), Into("IfStatement", "else")>>, {"node"}, {},
            {<<{"node"}, {}>>}, FALSE)
        <5>1. Block(<<New("else", "BLOCK", "node"), Into("IfStatement", "else")>>, {"node"}, {},
              {<<K1, {}>>}, FALSE)
          <6>1. Block(<<New("else", "BLOCK", "node")>>, {"node"}, {}, {<<K1, {}>>}, FALSE)
            BY NewKidBlock, RuleNames DEF Nothing
          <6>2. Block(<<Into("IfStatement", "else")>>, K1, {}, {<<K1, {}>>}, FALSE)
            BY IntoBlock DEF OnNode
          <6>3. QED
            BY <6>1, <6>2, Tuple2
        <5>2. QED
          BY <5>1, WiderBlock
      <4>2. Block(<<Into("BlockStatement", "node"), Advance>>, {"node"}, {}, {<<{"node"}, {}>>},
            FALSE)
        <5>1. Block(<<Into("BlockStatement", "node")>>, {"node"}, {}, {<<{"node"}, {}>>}, FALSE)
          BY IntoBlock DEF OnNode
        <5>2. Block(<<Advance>>, {"node"}, {}, {<<{"node"}, {}>>}, FALSE)
          BY AdvanceBlock
        <5>3. QED
          BY <5>1, <5>2, Tuple2
      <4>3. QED
        BY <4>1, <4>2, IfBlock
    <3>3. QED
      BY <3>1, <3>2, Tuple2
  <2>3. QED
    BY <2>1, <2>2, IfBlock
<1>2. QED
  BY <1>1 DEF ParseElIfStatement

LEMMA WhileStatementBlocks ==
  Block(ParseWhileStatement, {"node"}, {}, {<<{"node", "loop", "init", "cond", "update"}, {}>>},
        FALSE)
<1> DEFINE K1 == {"node", "loop", "init", "cond", "update"}
           K2 == {"node", "loop"}
           K3 == K2 \cup {"init"}
           K4 == K3 \cup {"cond"}
<1>1. Block(<<New("loop", "FOR", "node"), New("init", "LOOP_INITIALIZE", "loop"), New("cond",
      "LOOP_CONDITION", "loop"), New("update", "LOOP_UPDATE", "loop"), Advance,
      Need(Current({"("})), Advance>> \o <<Into("Expression", "cond")>>
      \o <<Need(Current({")"})), Advance, Into("BlockStatement", "loop"), Advance>>, {"node"},
      {}, {<<K1, {}>>}, FALSE)
  <2>1. Block(<<New("loop", "FOR", "node"), New("init", "LOOP_INITIALIZE", "loop"), New("cond",
        "LOOP_CONDITION", "loop"), New("update", "LOOP_UPDATE", "loop"), Advance,
        Need(Current({"("})), Advance>>, {"node"}, {}, {<<K1, {}>>}, FALSE)
    <3>1. Block(<<New("loop", "FOR", "node")>>, {"node"}, {}, {<<K2, {}>>}, FALSE)
      BY NewKidBlock, RuleNames DEF Nothing
    <3>2. Block(<<New("init", "LOOP_INITIALIZE", "loop")>>, K2, {}, {<<K3, {}>>}, FALSE)
      BY NewKidBlock, RuleNames DEF Nothing
    <3>3. Block(<<New("cond", "LOOP_CONDITION", "loop")>>, K3, {}, {<<K4, {}>>}, FALSE)
      BY NewKidBlock, RuleNames DEF Nothing
    <3>4. Block(<<New("update", "LOOP_UPDATE", "loop")>>, K4, {}, {<<K1, {}>>}, FALSE)
      BY NewKidBlock, RuleNames DEF Nothing
    <3>5. Block(<<Advance>>, K1, {}, {<<K1, {}>>}, FALSE)
      BY AdvanceBlock
    <3>6. Block(<<Need(Current({"("}))>>, K1, {}, {<<K1, {}>>}, FALSE)
      BY NeedBlock
    <3>7. Block(<<Advance>>, K1, {}, {<<K1, {}>>}, FALSE)
      BY AdvanceBlock
    <3>8. QED
      BY <3>1, <3>2, <3>3, <3>4, <3>5, <3>6, <3>7, Tuple7
  <2>2. Block(<<Into("Expression", "cond")>>, K1, {}, {<<K1, {}>>}, FALSE)
    BY IntoBlock DEF OnNode
  <2>3. Block(<<New("loop", "FOR", "node"), New("init", "LOOP_INITIALIZE", "loop"), New("cond",
        "LOOP_CONDITION", "loop"), New("update", "LOOP_UPDATE", "loop"), Advance,
        Need(Current({"("})), Advance>> \o <<Into("Expression", "cond")>>, {"node"}, {}, {<<K1,
        {}>>}, FALSE)
    BY <2>1, <2>2, Sequence
  <2>4. Block(<<Need(Current({")"})), Advance, Into("BlockStatement", "loop"), Advance>>, K1, {},
        {<<K1, {}>>}, FALSE)
    <3>1. Block(<<Need(Current({")"}))>>, K1, {}, {<<K1, {}>>}, FALSE)
      BY NeedBlock
    <3>2. Block(<<Advance>>, K1, {}, {<<K1, {}>>}, FALSE)
      BY AdvanceBlock
    <3>3. Block(<<Into("BlockStatement", "loop")>>, K1, {}, {<<K1, {}>>}, FALSE)
      BY IntoBlock DEF OnNode
    <3>4. Block(<<Advance>>, K1, {}, {<<K1, {}>>}, FALSE)
      BY AdvanceBlock
    <3>5. QED
      BY <3>1, <3>2, <3>3, <3>4, Tuple4
  <2>5. QED
    BY <2>3, <2>4, Sequence
<1>2. QED
  BY <1>1 DEF ParseWhileStatement, LoopNodes, LoopBody

LEMMA ForStatementBlocks ==
  Block(ParseForStatement, {"node"}, {}, {<<{"node", "loop", "init", "cond", "update"}, {}>>},
        FALSE)
<1> DEFINE c1 == Unless(Current({";"}), <<Into("Expression", "init")>>)
           c2 == Unless(Current({";"}), <<Into("Expression", "cond")>>)
           c3 == Unless(Current({")"}), <<Into("Expression", "update")>>)
           K1 == {"node", "loop", "init", "cond", "update"}
           K2 == {"node", "loop"}
           K3 == K2 \cup {"init"}
           K4 == K3 \cup {"cond"}
<1>1. Block(<<New("loop", "FOR", "node"), New("init", "LOOP_INITIALIZE", "loop"), New("cond",
      "LOOP_CONDITION", "loop"), New("update", "LOOP_UPDATE", "loop"), Advance,
      Need(Current({"("})), Advance>> \o <<c1, ParseSemicolon, Advance, c2, ParseSemicolon,
      Advance, c3>> \o <<Need(Current({")"})), Advance, Into("BlockStatement", "loop"),
      Advance>>, {"node"}, {}, {<<K1, {}>>}, FALSE)
  <2>1. Block(<<New("loop", "FOR", "node"), New("init", "LOOP_INITIALIZE", "loop"), New("cond",
        "LOOP_CONDITION", "loop"), New("update", "LOOP_UPDATE", "loop"), Advance,
        Need(Current({"("})), Advance>>, {"node"}, {}, {<<K1, {}>>}, FALSE)
    <3>1. Block(<<New("loop", "FOR", "node")>>, {"node"}, {}, {<<K2, {}>>}, FALSE)
      BY NewKidBlock, RuleNames DEF Nothing
    <3>2. Block(<<New("init", "LOOP_INITIALIZE", "loop")>>, K2, {}, {<<K3, {}>>}, FALSE)
      BY NewKidBlock, RuleNames DEF Nothing
    <3>3. Block(<<New("cond", "LOOP_CONDITION", "loop")>>, K3, {}, {<<K4, {}>>}, FALSE)
      BY NewKidBlock, RuleNames DEF Nothing
    <3>4. Block(<<New("update", "LOOP_UPDATE", "loop")>>, K4, {}, {<<K1, {}>>}, FALSE)
      BY NewKidBlock, RuleNames DEF Nothing
    <3>5. Block(<<Advance>>, K1, {}, {<<K1, {}>>}, FALSE)
      BY AdvanceBlock
    <3>6. Block(<<Need(Current({"("}))>>, K1, {}, {<<K1, {}>>}, FALSE)
      BY NeedBlock
    <3>7. Block(<<Advance>>, K1, {}, {<<K1, {}>>}, FALSE)
      BY AdvanceBlock
    <3>8. QED
      BY <3>1, <3>2, <3>3, <3>4, <3>5, <3>6, <3>7, Tuple7
  <2>2. Block(<<c1, ParseSemicolon, Advance, c2, ParseSemicolon, Advance, c3>>, K1, {}, {<<K1,
        {}>>}, FALSE)
    <3>1. Block(<<c1>>, K1, {}, {<<K1, {}>>}, FALSE)
      <4>1. Block(<<Into("Expression", "init")>>, K1, {}, {<<K1, {}>>}, FALSE)
        BY IntoBlock DEF OnNode
      <4>2. QED
        BY <4>1, UnlessBlock
    <3>2. Block(<<ParseSemicolon>>, K1, {}, {<<K1, {}>>}, FALSE)
      BY SemicolonBlock
    <3>3. Block(<<Advance>>, K1, {}, {<<K1, {}>>}, FALSE)
      BY AdvanceBlock
    <3>4. Block(<<c2>>, K1, {}, {<<K1, {}>>}, FALSE)
      <4>1. Block(<<Into("Expression", "cond")>>, K1, {}, {<<K1, {}>>}, FALSE)
        BY IntoBlock DEF OnNode
      <4>2. QED
        BY <4>1, UnlessBlock
    <3>5. Block(<<ParseSemicolon>>, K1, {}, {<<K1, {}>>}, FALSE)
      BY SemicolonBlock
    <3>6. Block(<<Advance>>, K1, {}, {<<K1, {}>>}, FALSE)
      BY AdvanceBlock
    <3>7. Block(<<c3>>, K1, {}, {<<K1, {}>>}, FALSE)
      <4>1. Block(<<Into("Expression", "update")>>, K1, {}, {<<K1, {}>>}, FALSE)
        BY IntoBlock DEF OnNode
      <4>2. QED
        BY <4>1, UnlessBlock
    <3>8. QED
      BY <3>1, <3>2, <3>3, <3>4, <3>5, <3>6, <3>7, Tuple7
  <2>3. Block(<<New("loop", "FOR", "node"), New("init", "LOOP_INITIALIZE", "loop"), New("cond",
        "LOOP_CONDITION", "loop"), New("update", "LOOP_UPDATE", "loop"), Advance,
        Need(Current({"("})), Advance>> \o <<c1, ParseSemicolon, Advance, c2, ParseSemicolon,
        Advance, c3>>, {"node"}, {}, {<<K1, {}>>}, FALSE)
    BY <2>1, <2>2, Sequence
  <2>4. Block(<<Need(Current({")"})), Advance, Into("BlockStatement", "loop"), Advance>>, K1, {},
        {<<K1, {}>>}, FALSE)
    <3>1. Block(<<Need(Current({")"}))>>, K1, {}, {<<K1, {}>>}, FALSE)
      BY NeedBlock
    <3>2. Block(<<Advance>>, K1, {}, {<<K1, {}>>}, FALSE)
      BY AdvanceBlock
    <3>3. Block(<<Into("BlockStatement", "loop")>>, K1, {}, {<<K1, {}>>}, FALSE)
      BY IntoBlock DEF OnNode
    <3>4. Block(<<Advance>>, K1, {}, {<<K1, {}>>}, FALSE)
      BY AdvanceBlock
    <3>5. QED
      BY <3>1, <3>2, <3>3, <3>4, Tuple4
  <2>5. QED
    BY <2>3, <2>4, Sequence
<1>2. QED
  BY <1>1 DEF ParseForStatement, LoopNodes, LoopBody

LEMMA ReturnStatementBlocks ==
  Block(ParseReturnStatement, {"node"}, {}, {<<{"node", "return"}, {}>>}, FALSE)
<1> DEFINE c1 == Unless(Current({";"}), <<Into("Expression", "return")>>)
           K1 == {"node", "return"}
<1>1. Block(<<New("return", "RETURN", "node"), Advance, c1, ParseSemicolon, Advance>>, {"node"},
      {}, {<<K1, {}>>}, FALSE)
  <2>1. Block(<<New("return", "RETURN", "node")>>, {"node"}, {}, {<<K1, {}>>}, FALSE)
    BY NewKidBlock, RuleNames DEF Nothing
  <2>2. Block(<<Advance>>, K1, {}, {<<K1, {}>>}, FALSE)
    BY AdvanceBlock
  <2>3. Block(<<c1>>, K1, {}, {<<K1, {}>>}, FALSE)
    <3>1. Block(<<Into("Expression", "return")>>, K1, {}, {<<K1, {}>>}, FALSE)
      BY IntoBlock DEF OnNode
    <3>2. QED
      BY <3>1, UnlessBlock
  <2>4. Block(<<ParseSemicolon>>, K1, {}, {<<K1, {}>>}, FALSE)
    BY SemicolonBlock
  <2>5. Block(<<Advance>>, K1, {}, {<<K1, {}>>}, FALSE)
    BY AdvanceBlock
  <2>6. QED
    BY <2>1, <2>2, <2>3, <2>4, <2>5, Tuple5
<1>2. QED
  BY <1>1 DEF ParseReturnStatement

LEMMA NameStatementBlocks ==
  Block(ParseNameStatement, {"node"}, {}, {<<{"node", "statement"}, {}>>}, FALSE)
<1> DEFINE K1 == {"node", "statement"}
<1>1. Block(<<Call("statement", "AssignExpressionA", NoArguments), Add("node", "statement"),
      Advance, Need(IsStatement("statement"))>>, {"node"}, {}, {<<K1, {}>>}, FALSE)
  <2>1. Block(<<Call("statement", "AssignExpressionA", NoArguments)>>, {"node"}, {}, {<<K1,
        {"statement"}>>}, FALSE)
    BY MakeBlock, FunctionNames DEF Makers, Nothing
  <2>2. Block(<<Add("node", "statement")>>, K1, {"statement"}, {<<K1, {}>>}, FALSE)
    BY AddBlock
  <2>3. Block(<<Advance>>, K1, {}, {<<K1, {}>>}, FALSE)
    BY AdvanceBlock
  <2>4. Block(<<Need(IsStatement("statement"))>>, K1, {}, {<<K1, {}>>}, FALSE)
    BY NeedBlock
  <2>5. QED
    BY <2>1, <2>2, <2>3, <2>4, Tuple4
<1>2. QED
  BY <1>1 DEF ParseNameStatement

LEMMA ExpressionBlocks ==
  Block(ParseExpression, {"node"}, {}, {<<{"node", "expression", "value"}, {}>>}, FALSE)
<1> DEFINE K1 == {"node", "expression", "value"}
           K2 == {"node", "expression"}
<1>1. Block(<<New("expression", "EXPRESSION", "node"), Call("value", "AssignExpressionA",
      NoArguments), Add("expression", "value")>>, {"node"}, {}, {<<K1, {}>>}, FALSE)
  <2>1. Block(<<New("expression", "EXPRESSION", "node")>>, {"node"}, {}, {<<K2, {}>>}, FALSE)
    BY NewKidBlock, RuleNames DEF Nothing
  <2>2. Block(<<Call("value", "AssignExpressionA", NoArguments)>>, K2, {}, {<<K1, {"value"}>>},
        FALSE)
    BY MakeBlock, FunctionNames DEF Makers, Nothing
  <2>3. Block(<<Add("expression", "value")>>, K1, {"value"}, {<<K1, {}>>}, FALSE)
    BY AddBlock
  <2>4. QED
    BY <2>1, <2>2, <2>3, Tuple3
<1>2. QED
  BY <1>1 DEF ParseExpression

LEMMA AssignExpressionABlocks ==
  Block(ParseAssignExpressionA, {}, {}, {}, TRUE)
<1> DEFINE c1 == If(NextIs({"<-"}), Feed("AssignExpressionB", "VariableExpression"), <<>>)
           c2 == If(Current({"name"}), <<c1>>, <<>>)
<1>1. Block(<<c2>> \o Feed("OrExpression", "AndExpressionA"), {}, {}, {}, TRUE)
  <2>1. Block(<<c2>>, {}, {}, {<<{}, {}>>}, TRUE)
    <3>1. Block(<<c1>>, {}, {}, {<<{}, {}>>}, TRUE)
      <4>1. Block(Feed("AssignExpressionB", "VariableExpression"), {}, {}, {}, TRUE)
        BY FeedBlock DEF Adopters, Makers
      <4>2. QED
        BY <4>1, DeadBlock, NilBlock, IfBlock
    <3>2. QED
      BY <3>1, NilBlock, IfBlock
  <2>2. Block(Feed("OrExpression", "AndExpressionA"), {}, {}, {}, TRUE)
    BY FeedBlock DEF Adopters, Makers
  <2>3. QED
    BY <2>1, <2>2, Sequence
<1>2. QED
  BY <1>1 DEF ParseAssignExpressionA

LEMMA AssignExpressionBBlocks ==
  Block(ParseAssignExpressionB, {"left"}, {"left"}, {}, TRUE)
<1> DEFINE c1 == If(Current({"<-"}), <<>>, <<Return("left")>>)
           K1 == {"left", "operation"}
           K2 == K1 \cup {"right"}
<1>1. Block(<<c1, Need(Assignable("left")), New("operation", "ASSIGN", Nothing)>>
      \o Try("operation", <<Advance, Add("operation", "left"), Call("right", "AssignExpressionA",
      NoArguments), Add("operation", "right")>>) \o <<Return("operation")>>, {"left"}, {"left"},
      {}, TRUE)
  <2>1. Block(<<c1, Need(Assignable("left")), New("operation", "ASSIGN", Nothing)>>, {"left"},
        {"left"}, {<<K1, K1>>}, TRUE)
    <3>1. Block(<<c1>>, {"left"}, {"left"}, {<<{"left"}, {"left"}>>}, TRUE)
      <4>1. Block(<<Return("left")>>, {"left"}, {"left"}, {}, TRUE)
        BY ReturnBlock DEF Nothing
      <4>2. QED
        BY <4>1, NilBlock, DeadBlock, IfBlock
    <3>2. Block(<<Need(Assignable("left"))>>, {"left"}, {"left"}, {<<{"left"}, {"left"}>>}, TRUE)
      BY NeedBlock
    <3>3. Block(<<New("operation", "ASSIGN", Nothing)>>, {"left"}, {"left"}, {<<K1, K1>>}, TRUE)
      BY NewBlock, RuleNames
    <3>4. QED
      BY <3>1, <3>2, <3>3, Tuple3
  <2>2. Block(Try("operation", <<Advance, Add("operation", "left"), Call("right",
        "AssignExpressionA", NoArguments), Add("operation", "right")>>), K1, K1, {<<K2,
        {"operation"}>>}, TRUE)
    <3>1. Block(<<Advance, Add("operation", "left"), Call("right", "AssignExpressionA",
          NoArguments), Add("operation", "right")>>, K1, K1, {<<K2, {"operation"}>>}, TRUE)
      <4>1. Block(<<Advance>>, K1, K1, {<<K1, K1>>}, TRUE)
        BY AdvanceBlock
      <4>2. Block(<<Add("operation", "left")>>, K1, K1, {<<K1, {"operation"}>>}, TRUE)
        BY AddBlock
      <4>3. Block(<<Call("right", "AssignExpressionA", NoArguments)>>, K1, {"operation"}, {<<K2,
            {"operation", "right"}>>}, TRUE)
        BY MakeBlock, FunctionNames DEF Makers, Nothing
      <4>4. Block(<<Add("operation", "right")>>, K2, {"operation", "right"}, {<<K2,
            {"operation"}>>}, TRUE)
        BY AddBlock
      <4>5. QED
        BY <4>1, <4>2, <4>3, <4>4, Tuple4
    <3>2. QED
      BY <3>1, TryBlock
  <2>3. Block(<<c1, Need(Assignable("left")), New("operation", "ASSIGN", Nothing)>>
        \o Try("operation", <<Advance, Add("operation", "left"), Call("right",
        "AssignExpressionA", NoArguments), Add("operation", "right")>>), {"left"}, {"left"},
        {<<K2, {"operation"}>>}, TRUE)
    BY <2>1, <2>2, Sequence
  <2>4. Block(<<Return("operation")>>, K2, {"operation"}, {}, TRUE)
    BY ReturnBlock DEF Nothing
  <2>5. QED
    BY <2>3, <2>4, Sequence
<1>2. QED
  BY <1>1 DEF ParseAssignExpressionB

\* A left operand, an operator and a right operand.
LEMMA OperandsBlock ==
  ASSUME NEW operand \in Makers
  PROVE Block(Operation(operand), {"left", "operation"}, {"left", "operation"},
              {<<{"left", "operation", "right"}, {"operation"}>>}, TRUE)
<1> DEFINE K1 == {"left", "operation"}
           K2 == K1 \cup {"right"}
<1>1. Block(<<Advance, Add("operation", "left"), Call("right", operand, NoArguments),
      Add("operation", "right")>>, K1, K1, {<<K2, {"operation"}>>}, TRUE)
  <2>1. Block(<<Advance>>, K1, K1, {<<K1, K1>>}, TRUE)
    BY AdvanceBlock
  <2>2. Block(<<Add("operation", "left")>>, K1, K1, {<<K1, {"operation"}>>}, TRUE)
    BY AddBlock
  <2>3. Block(<<Call("right", operand, NoArguments)>>, K1, {"operation"}, {<<K2, {"operation",
        "right"}>>}, TRUE)
    BY MakeBlock, FunctionNames DEF Makers, Nothing
  <2>4. Block(<<Add("operation", "right")>>, K2, {"operation", "right"}, {<<K2, {"operation"}>>},
        TRUE)
    BY AddBlock
  <2>5. QED
    BY <2>1, <2>2, <2>3, <2>4, Tuple4
<1>2. QED
  BY <1>1 DEF Operation

\* The B function of a level of operators.
LEMMA LevelBlock ==
  ASSUME NEW operators \in SUBSET Operators, NEW operand \in Makers, NEW level \in Adopters
  PROVE Block(Level(operators, operand, level), {"left"}, {"left"}, {}, TRUE)
<1> DEFINE c1 == If(Current(operators), <<NewOperation("operation")>>, <<Return("left")>>)
           K1 == {"left", "operation"}
           K2 == K1 \cup {"right", "parent"}
           K3 == K1 \cup {"right"}
<1>1. Block(<<c1>> \o Try("operation", Operation(operand) \o <<Call("parent", level,
      [left |-> "operation"])>>) \o <<Return("parent")>>, {"left"}, {"left"}, {}, TRUE)
  <2>1. Block(<<c1>>, {"left"}, {"left"}, {<<K1, K1>>}, TRUE)
    <3>1. Block(<<Return("left")>>, {"left"}, {"left"}, {}, TRUE)
      BY ReturnBlock DEF Nothing
    <3>2. QED
      BY <3>1, OperationBlock DEF Operators
  <2>2. Block(Try("operation", Operation(operand) \o <<Call("parent", level,
        [left |-> "operation"])>>), K1, K1, {<<K2, {"parent"}>>}, TRUE)
    <3>1. Block(Operation(operand) \o <<Call("parent", level, [left |-> "operation"])>>, K1, K1,
          {<<K2, {"parent"}>>}, TRUE)
      <4>1. Block(Operation(operand), K1, K1, {<<K3, {"operation"}>>}, TRUE)
        BY OperandsBlock DEF Makers
      <4>2. Block(<<Call("parent", level, [left |-> "operation"])>>, K3, {"operation"}, {<<K2,
            {"parent"}>>}, TRUE)
        BY HandBlock, FunctionNames DEF Adopters, Nothing
      <4>3. QED
        BY <4>1, <4>2, Sequence
    <3>2. QED
      BY <3>1, TryBlock
  <2>3. Block(<<c1>> \o Try("operation", Operation(operand) \o <<Call("parent", level,
        [left |-> "operation"])>>), {"left"}, {"left"}, {<<K2, {"parent"}>>}, TRUE)
    BY <2>1, <2>2, Sequence
  <2>4. Block(<<Return("parent")>>, K2, {"parent"}, {}, TRUE)
    BY ReturnBlock DEF Nothing
  <2>5. QED
    BY <2>3, <2>4, Sequence
<1>2. QED
  BY <1>1 DEF Level

LEMMA OrExpressionBlocks ==
  Block(ParseOrExpression, {"left"}, {"left"}, {}, TRUE)
<1> DEFINE c1 == If(Current({"||"}), <<NewOperation("operation")>>, <<Return("left")>>)
           K1 == {"left", "operation"}
           K2 == K1 \cup {"right"}
           K3 == K2 \cup {"parent"}
<1>1. Block(<<c1>> \o Try("operation", Operation("AndExpressionA")) \o <<Call("parent",
      "OrExpression", [left |-> "operation"]), Return("parent")>>, {"left"}, {"left"}, {}, TRUE)
  <2>1. Block(<<c1>>, {"left"}, {"left"}, {<<K1, K1>>}, TRUE)
    <3>1. Block(<<Return("left")>>, {"left"}, {"left"}, {}, TRUE)
      BY ReturnBlock DEF Nothing
    <3>2. QED
      BY <3>1, OperationBlock DEF Operators
  <2>2. Block(Try("operation", Operation("AndExpressionA")), K1, K1, {<<K2, {"operation"}>>},
        TRUE)
    <3>1. Block(Operation("AndExpressionA"), K1, K1, {<<K2, {"operation"}>>}, TRUE)
      BY OperandsBlock DEF Makers
    <3>2. QED
      BY <3>1, TryBlock
  <2>3. Block(<<c1>> \o Try("operation", Operation("AndExpressionA")), {"left"}, {"left"}, {<<K2,
        {"operation"}>>}, TRUE)
    BY <2>1, <2>2, Sequence
  <2>4. Block(<<Call("parent", "OrExpression", [left |-> "operation"]), Return("parent")>>, K2,
        {"operation"}, {}, TRUE)
    <3>1. Block(<<Call("parent", "OrExpression", [left |-> "operation"])>>, K2, {"operation"},
          {<<K3, {"parent"}>>}, TRUE)
      BY HandBlock, FunctionNames DEF Adopters, Nothing
    <3>2. Block(<<Return("parent")>>, K3, {"parent"}, {}, TRUE)
      BY ReturnBlock DEF Nothing
    <3>3. QED
      BY <3>1, <3>2, Tuple2
  <2>5. QED
    BY <2>3, <2>4, Sequence
<1>2. QED
  BY <1>1 DEF ParseOrExpression

LEMMA TertiaryExpressionBBlocks ==
  Block(ParseTertiaryExpressionB, {"left"}, {"left"}, {}, TRUE)
<1> DEFINE c1 == If(Current({"<-"}), <<Call("assign", "AssignExpressionB", [left |-> "left"]),
      Return("assign")>>, <<>>)
           K1 == {"left", "assign"}
<1>1. Block(<<c1>> \o Level({"."}, "InvertExpression", "TertiaryExpressionB"), {"left"},
      {"left"}, {}, TRUE)
  <2>1. Block(<<c1>>, {"left"}, {"left"}, {<<{"left"}, {"left"}>>}, TRUE)
    <3>1. Block(<<Call("assign", "AssignExpressionB", [left |-> "left"]), Return("assign")>>,
          {"left"}, {"left"}, {}, TRUE)
      <4>1. Block(<<Call("assign", "AssignExpressionB", [left |-> "left"])>>, {"left"}, {"left"},
            {<<K1, {"assign"}>>}, TRUE)
        BY HandBlock, FunctionNames DEF Adopters, Nothing
      <4>2. Block(<<Return("assign")>>, K1, {"assign"}, {}, TRUE)
        BY ReturnBlock DEF Nothing
      <4>3. QED
        BY <4>1, <4>2, Tuple2
    <3>2. QED
      BY <3>1, DeadBlock, NilBlock, IfBlock
  <2>2. Block(Level({"."}, "InvertExpression", "TertiaryExpressionB"), {"left"}, {"left"}, {},
        TRUE)
    BY LevelBlock DEF Operators, Makers, Adopters
  <2>3. QED
    BY <2>1, <2>2, Sequence
<1>2. QED
  BY <1>1 DEF ParseTertiaryExpressionB

LEMMA InvertExpressionBlocks ==
  Block(ParseInvertExpression, {}, {}, {}, TRUE)
<1> DEFINE c1 == If(Current({"-", "!"}), <<NewOperation("invert")>>, <<Call("atom",
      "AtomicExpression", NoArguments), Return("atom")>>)
           c2 == If(Current({"-"}), <<New("zero", "ANY_TYPE", "invert")>>, <<>>)
           K1 == {"invert", "zero"}
           K2 == {"invert", "operand"}
<1>1. Block(<<c1, c2>> \o Try("invert", <<Advance, Call("operand", "InvertExpression",
      NoArguments), Add("invert", "operand")>>) \o <<Return("invert")>>, {}, {}, {}, TRUE)
  <2>1. Block(<<c1, c2>>, {}, {}, {<<{"invert"}, {"invert"}>>}, TRUE)
    <3>1. Block(<<c1>>, {}, {}, {<<{"invert"}, {"invert"}>>}, TRUE)
      <4>1. Block(<<Call("atom", "AtomicExpression", NoArguments), Return("atom")>>, {}, {}, {},
            TRUE)
        <5>1. Block(<<Call("atom", "AtomicExpression", NoArguments)>>, {}, {}, {<<{"atom"},
              {"atom"}>>}, TRUE)
          BY MakeBlock, FunctionNames DEF Makers, Nothing
        <5>2. Block(<<Return("atom")>>, {"atom"}, {"atom"}, {}, TRUE)
          BY ReturnBlock DEF Nothing
        <5>3. QED
          BY <5>1, <5>2, Tuple2
      <4>2. QED
        BY <4>1, OperationBlock DEF Operators
    <3>2. Block(<<c2>>, {"invert"}, {"invert"}, {<<{"invert"}, {"invert"}>>}, TRUE)
      <4>1. Block(<<New("zero", "ANY_TYPE", "invert")>>, {"invert"}, {"invert"}, {<<{"invert"},
            {"invert"}>>}, TRUE)
        <5>1. Block(<<New("zero", "ANY_TYPE", "invert")>>, {"invert"}, {"invert"}, {<<K1,
              {"invert"}>>}, TRUE)
          BY NewKidBlock, RuleNames DEF Nothing
        <5>2. QED
          BY <5>1, WiderBlock
      <4>2. QED
        BY <4>1, NilBlock, IfBlock
    <3>3. QED
      BY <3>1, <3>2, Tuple2
  <2>2. Block(Try("invert", <<Advance, Call("operand", "InvertExpression", NoArguments),
        Add("invert", "operand")>>), {"invert"}, {"invert"}, {<<K2, {"invert"}>>}, TRUE)
    <3>1. Block(<<Advance, Call("operand", "InvertExpression", NoArguments), Add("invert",
          "operand")>>, {"invert"}, {"invert"}, {<<K2, {"invert"}>>}, TRUE)
      <4>1. Block(<<Advance>>, {"invert"}, {"invert"}, {<<{"invert"}, {"invert"}>>}, TRUE)
        BY AdvanceBlock
      <4>2. Block(<<Call("operand", "InvertExpression", NoArguments)>>, {"invert"}, {"invert"},
            {<<K2, K2>>}, TRUE)
        BY MakeBlock, FunctionNames DEF Makers, Nothing
      <4>3. Block(<<Add("invert", "operand")>>, K2, K2, {<<K2, {"invert"}>>}, TRUE)
        BY AddBlock
      <4>4. QED
        BY <4>1, <4>2, <4>3, Tuple3
    <3>2. QED
      BY <3>1, TryBlock
  <2>3. Block(<<c1, c2>> \o Try("invert", <<Advance, Call("operand", "InvertExpression",
        NoArguments), Add("invert", "operand")>>), {}, {}, {<<K2, {"invert"}>>}, TRUE)
    BY <2>1, <2>2, Sequence
  <2>4. Block(<<Return("invert")>>, K2, {"invert"}, {}, TRUE)
    BY ReturnBlock DEF Nothing
  <2>5. QED
    BY <2>3, <2>4, Sequence
<1>2. QED
  BY <1>1 DEF ParseInvertExpression

LEMMA AtomicExpressionBlocks ==
  Block(ParseAtomicExpression, {}, {}, {}, TRUE)
<1> DEFINE c1 == If(Current({"("}), <<>>, <<Call("value", "ValueExpression", NoArguments),
      Return("value")>>)
           c2 == Unless(Current({")"}), <<Delete("inner"), Throw>>)
<1>1. Block(<<c1, Advance, Call("inner", "AssignExpressionA", NoArguments), c2, Advance,
      Return("inner")>>, {}, {}, {}, TRUE)
  <2>1. Block(<<c1>>, {}, {}, {<<{}, {}>>}, TRUE)
    <3>1. Block(<<Call("value", "ValueExpression", NoArguments), Return("value")>>, {}, {}, {},
          TRUE)
      <4>1. Block(<<Call("value", "ValueExpression", NoArguments)>>, {}, {}, {<<{"value"},
            {"value"}>>}, TRUE)
        BY MakeBlock, FunctionNames DEF Makers, Nothing
      <4>2. Block(<<Return("value")>>, {"value"}, {"value"}, {}, TRUE)
        BY ReturnBlock DEF Nothing
      <4>3. QED
        BY <4>1, <4>2, Tuple2
    <3>2. QED
      BY <3>1, NilBlock, DeadBlock, IfBlock
  <2>2. Block(<<Advance>>, {}, {}, {<<{}, {}>>}, TRUE)
    BY AdvanceBlock
  <2>3. Block(<<Call("inner", "AssignExpressionA", NoArguments)>>, {}, {}, {<<{"inner"},
        {"inner"}>>}, TRUE)
    BY MakeBlock, FunctionNames DEF Makers, Nothing
  <2>4. Block(<<c2>>, {"inner"}, {"inner"}, {<<{"inner"}, {"inner"}>>}, TRUE)
    <3>1. Block(<<Delete("inner"), Throw>>, {"inner"}, {"inner"}, {<<{"inner"}, {"inner"}>>},
          TRUE)
      <4>1. Block(<<Delete("inner"), Throw>>, {"inner"}, {"inner"}, {}, TRUE)
        BY DeleteBlock
      <4>2. QED
        BY <4>1, DeadBlock
    <3>2. QED
      BY <3>1, UnlessBlock
  <2>5. Block(<<Advance>>, {"inner"}, {"inner"}, {<<{"inner"}, {"inner"}>>}, TRUE)
    BY AdvanceBlock
  <2>6. Block(<<Return("inner")>>, {"inner"}, {"inner"}, {}, TRUE)
    BY ReturnBlock DEF Nothing
  <2>7. QED
    BY <2>1, <2>2, <2>3, <2>4, <2>5, <2>6, Tuple6
<1>2. QED
  BY <1>1 DEF ParseAtomicExpression

LEMMA ValueExpressionBlocks ==
  Block(ParseValueExpression, {}, {}, {}, TRUE)
<1> DEFINE c1 == If(Current({"name"}), <<Call("value", "NamedValueExpression", NoArguments),
      Return("value")>>, <<>>)
           c2 == If(Current({"new"}), <<Call("value", "NewExpression", NoArguments),
                 Return("value")>>, <<>>)
           c3 == If(Current({"default"}), <<Call("value", "DefaultExpression", NoArguments),
                 Return("value")>>, <<>>)
           c4 == If(Current({"bool"}), <<Advance, New("constant", "BOOL", Nothing),
                 Return("constant")>>, <<>>)
           c5 == If(Current({"literal"}), <<Advance, New("constant", "LITERAL", Nothing),
                 Return("constant")>>, <<>>)
           c6 == If(Current({"string"}), <<Call("value", "StringConstant", NoArguments),
                 Return("value")>>, <<>>)
           c7 == If(Current(Keywords), <<Advance>>, <<>>)
<1>1. Block(<<c1, c2, c3, c4, c5, c6, c7, Throw>>, {}, {}, {}, TRUE)
  <2>1. Block(<<c1>>, {}, {}, {<<{}, {}>>}, TRUE)
    <3>1. Block(<<Call("value", "NamedValueExpression", NoArguments), Return("value")>>, {}, {},
          {}, TRUE)
      <4>1. Block(<<Call("value", "NamedValueExpression", NoArguments)>>, {}, {}, {<<{"value"},
            {"value"}>>}, TRUE)
        BY MakeBlock, FunctionNames DEF Makers, Nothing
      <4>2. Block(<<Return("value")>>, {"value"}, {"value"}, {}, TRUE)
        BY ReturnBlock DEF Nothing
      <4>3. QED
        BY <4>1, <4>2, Tuple2
    <3>2. QED
      BY <3>1, DeadBlock, NilBlock, IfBlock
  <2>2. Block(<<c2>>, {}, {}, {<<{}, {}>>}, TRUE)
    <3>1. Block(<<Call("value", "NewExpression", NoArguments), Return("value")>>, {}, {}, {},
          TRUE)
      <4>1. Block(<<Call("value", "NewExpression", NoArguments)>>, {}, {}, {<<{"value"},
            {"value"}>>}, TRUE)
        BY MakeBlock, FunctionNames DEF Makers, Nothing
      <4>2. Block(<<Return("value")>>, {"value"}, {"value"}, {}, TRUE)
        BY ReturnBlock DEF Nothing
      <4>3. QED
        BY <4>1, <4>2, Tuple2
    <3>2. QED
      BY <3>1, DeadBlock, NilBlock, IfBlock
  <2>3. Block(<<c3>>, {}, {}, {<<{}, {}>>}, TRUE)
    <3>1. Block(<<Call("value", "DefaultExpression", NoArguments), Return("value")>>, {}, {}, {},
          TRUE)
      <4>1. Block(<<Call("value", "DefaultExpression", NoArguments)>>, {}, {}, {<<{"value"},
            {"value"}>>}, TRUE)
        BY MakeBlock, FunctionNames DEF Makers, Nothing
      <4>2. Block(<<Return("value")>>, {"value"}, {"value"}, {}, TRUE)
        BY ReturnBlock DEF Nothing
      <4>3. QED
        BY <4>1, <4>2, Tuple2
    <3>2. QED
      BY <3>1, DeadBlock, NilBlock, IfBlock
  <2>4. Block(<<c4>>, {}, {}, {<<{}, {}>>}, TRUE)
    <3>1. Block(<<Advance, New("constant", "BOOL", Nothing), Return("constant")>>, {}, {}, {},
          TRUE)
      <4>1. Block(<<Advance>>, {}, {}, {<<{}, {}>>}, TRUE)
        BY AdvanceBlock
      <4>2. Block(<<New("constant", "BOOL", Nothing)>>, {}, {}, {<<{"constant"}, {"constant"}>>},
            TRUE)
        BY NewBlock, RuleNames
      <4>3. Block(<<Return("constant")>>, {"constant"}, {"constant"}, {}, TRUE)
        BY ReturnBlock DEF Nothing
      <4>4. QED
        BY <4>1, <4>2, <4>3, Tuple3
    <3>2. QED
      BY <3>1, DeadBlock, NilBlock, IfBlock
  <2>5. Block(<<c5>>, {}, {}, {<<{}, {}>>}, TRUE)
    <3>1. Block(<<Advance, New("constant", "LITERAL", Nothing), Return("constant")>>, {}, {}, {},
          TRUE)
      <4>1. Block(<<Advance>>, {}, {}, {<<{}, {}>>}, TRUE)
        BY AdvanceBlock
      <4>2. Block(<<New("constant", "LITERAL", Nothing)>>, {}, {}, {<<{"constant"},
            {"constant"}>>}, TRUE)
        BY NewBlock, RuleNames
      <4>3. Block(<<Return("constant")>>, {"constant"}, {"constant"}, {}, TRUE)
        BY ReturnBlock DEF Nothing
      <4>4. QED
        BY <4>1, <4>2, <4>3, Tuple3
    <3>2. QED
      BY <3>1, DeadBlock, NilBlock, IfBlock
  <2>6. Block(<<c6>>, {}, {}, {<<{}, {}>>}, TRUE)
    <3>1. Block(<<Call("value", "StringConstant", NoArguments), Return("value")>>, {}, {}, {},
          TRUE)
      <4>1. Block(<<Call("value", "StringConstant", NoArguments)>>, {}, {}, {<<{"value"},
            {"value"}>>}, TRUE)
        BY MakeBlock, FunctionNames DEF Makers, Nothing
      <4>2. Block(<<Return("value")>>, {"value"}, {"value"}, {}, TRUE)
        BY ReturnBlock DEF Nothing
      <4>3. QED
        BY <4>1, <4>2, Tuple2
    <3>2. QED
      BY <3>1, DeadBlock, NilBlock, IfBlock
  <2>7. Block(<<c7>>, {}, {}, {<<{}, {}>>}, TRUE)
    <3>1. Block(<<Advance>>, {}, {}, {<<{}, {}>>}, TRUE)
      BY AdvanceBlock
    <3>2. QED
      BY <3>1, NilBlock, IfBlock
  <2>8. Block(<<Throw>>, {}, {}, {}, TRUE)
    BY ThrowBlock
  <2>9. QED
    BY <2>1, <2>2, <2>3, <2>4, <2>5, <2>6, <2>7, <2>8, Tuple8
<1>2. QED
  BY <1>1 DEF ParseValueExpression, Constant

LEMMA NamedValueExpressionBlocks ==
  Block(ParseNamedValueExpression, {}, {}, {}, TRUE)
<1> DEFINE c1 == If(NextIs({"("}), <<Call("call", "CallExpression", NoArguments),
      Return("call")>>, <<Call("variable", "VariableExpression", NoArguments),
      Return("variable")>>)
<1>1. Block(<<Need(NextIs(Symbols)), c1>>, {}, {}, {}, TRUE)
  <2>1. Block(<<Need(NextIs(Symbols))>>, {}, {}, {<<{}, {}>>}, TRUE)
    BY NeedBlock
  <2>2. Block(<<c1>>, {}, {}, {}, TRUE)
    <3>1. Block(<<Call("call", "CallExpression", NoArguments), Return("call")>>, {}, {}, {}, TRUE)
      <4>1. Block(<<Call("call", "CallExpression", NoArguments)>>, {}, {}, {<<{"call"},
            {"call"}>>}, TRUE)
        BY MakeBlock, FunctionNames DEF Makers, Nothing
      <4>2. Block(<<Return("call")>>, {"call"}, {"call"}, {}, TRUE)
        BY ReturnBlock DEF Nothing
      <4>3. QED
        BY <4>1, <4>2, Tuple2
    <3>2. Block(<<Call("variable", "VariableExpression", NoArguments), Return("variable")>>, {},
          {}, {}, TRUE)
      <4>1. Block(<<Call("variable", "VariableExpression", NoArguments)>>, {}, {},
            {<<{"variable"}, {"variable"}>>}, TRUE)
        BY MakeBlock, FunctionNames DEF Makers, Nothing
      <4>2. Block(<<Return("variable")>>, {"variable"}, {"variable"}, {}, TRUE)
        BY ReturnBlock DEF Nothing
      <4>3. QED
        BY <4>1, <4>2, Tuple2
    <3>3. QED
      BY <3>1, <3>2, IfBlock
  <2>3. QED
    BY <2>1, <2>2, Tuple2
<1>2. QED
  BY <1>1 DEF ParseNamedValueExpression

LEMMA CallExpressionBlocks ==
  Block(ParseCallExpression, {}, {}, {}, TRUE)
<1> DEFINE K1 == {"call", "name"}
<1>1. Block(<<New("call", "CALL", Nothing), New("name", "NAME", "call")>> \o Try("call",
      <<Advance, Advance, Into("CallParameters", "call"), Need(Current({")"})), Advance>>)
      \o <<Return("call")>>, {}, {}, {}, TRUE)
  <2>1. Block(<<New("call", "CALL", Nothing), New("name", "NAME", "call")>>, {}, {}, {<<K1,
        {"call"}>>}, TRUE)
    <3>1. Block(<<New("call", "CALL", Nothing)>>, {}, {}, {<<{"call"}, {"call"}>>}, TRUE)
      BY NewBlock, RuleNames
    <3>2. Block(<<New("name", "NAME", "call")>>, {"call"}, {"call"}, {<<K1, {"call"}>>}, TRUE)
      BY NewKidBlock, RuleNames DEF Nothing
    <3>3. QED
      BY <3>1, <3>2, Tuple2
  <2>2. Block(Try("call", <<Advance, Advance, Into("CallParameters", "call"),
        Need(Current({")"})), Advance>>), K1, {"call"}, {<<K1, {"call"}>>}, TRUE)
    <3>1. Block(<<Advance, Advance, Into("CallParameters", "call"), Need(Current({")"})),
          Advance>>, K1, {"call"}, {<<K1, {"call"}>>}, TRUE)
      <4>1. Block(<<Advance>>, K1, {"call"}, {<<K1, {"call"}>>}, TRUE)
        BY AdvanceBlock
      <4>2. Block(<<Advance>>, K1, {"call"}, {<<K1, {"call"}>>}, TRUE)
        BY AdvanceBlock
      <4>3. Block(<<Into("CallParameters", "call")>>, K1, {"call"}, {<<K1, {"call"}>>}, TRUE)
        BY IntoBlock DEF OnNode
      <4>4. Block(<<Need(Current({")"}))>>, K1, {"call"}, {<<K1, {"call"}>>}, TRUE)
        BY NeedBlock
      <4>5. Block(<<Advance>>, K1, {"call"}, {<<K1, {"call"}>>}, TRUE)
        BY AdvanceBlock
      <4>6. QED
        BY <4>1, <4>2, <4>3, <4>4, <4>5, Tuple5
    <3>2. QED
      BY <3>1, TryBlock
  <2>3. Block(<<New("call", "CALL", Nothing), New("name", "NAME", "call")>> \o Try("call",
        <<Advance, Advance, Into("CallParameters", "call"), Need(Current({")"})), Advance>>), {},
        {}, {<<K1, {"call"}>>}, TRUE)
    BY <2>1, <2>2, Sequence
  <2>4. Block(<<Return("call")>>, K1, {"call"}, {}, TRUE)
    BY ReturnBlock DEF Nothing
  <2>5. QED
    BY <2>3, <2>4, Sequence
<1>2. QED
  BY <1>1 DEF ParseCallExpression

LEMMA NewExpressionBlocks ==
  Block(ParseNewExpression, {}, {}, {}, TRUE)
<1> DEFINE c1 == Unless(Current({"name"}), <<Delete("new"), Throw>>)
           c2 == Unless(Current({"("}), <<Delete("new"), Throw>>)
           c3 == Unless(Current({")"}), <<Delete("new"), Throw>>)
<1>1. Block(<<New("new", "NEW", Nothing), Advance, c1, Into("TypeExpression", "new"), c2,
      Advance, Into("CallParameters", "new"), c3, Advance, Return("new")>>, {}, {}, {}, TRUE)
  <2>1. Block(<<New("new", "NEW", Nothing)>>, {}, {}, {<<{"new"}, {"new"}>>}, TRUE)
    BY NewBlock, RuleNames
  <2>2. Block(<<Advance>>, {"new"}, {"new"}, {<<{"new"}, {"new"}>>}, TRUE)
    BY AdvanceBlock
  <2>3. Block(<<c1>>, {"new"}, {"new"}, {<<{"new"}, {"new"}>>}, TRUE)
    <3>1. Block(<<Delete("new"), Throw>>, {"new"}, {"new"}, {<<{"new"}, {"new"}>>}, TRUE)
      <4>1. Block(<<Delete("new"), Throw>>, {"new"}, {"new"}, {}, TRUE)
        BY DeleteBlock
      <4>2. QED
        BY <4>1, DeadBlock
    <3>2. QED
      BY <3>1, UnlessBlock
  <2>4. Block(<<Into("TypeExpression", "new")>>, {"new"}, {"new"}, {<<{"new"}, {"new"}>>}, TRUE)
    BY IntoBlock DEF OnNode
  <2>5. Block(<<c2>>, {"new"}, {"new"}, {<<{"new"}, {"new"}>>}, TRUE)
    <3>1. Block(<<Delete("new"), Throw>>, {"new"}, {"new"}, {<<{"new"}, {"new"}>>}, TRUE)
      <4>1. Block(<<Delete("new"), Throw>>, {"new"}, {"new"}, {}, TRUE)
        BY DeleteBlock
      <4>2. QED
        BY <4>1, DeadBlock
    <3>2. QED
      BY <3>1, UnlessBlock
  <2>6. Block(<<Advance>>, {"new"}, {"new"}, {<<{"new"}, {"new"}>>}, TRUE)
    BY AdvanceBlock
  <2>7. Block(<<Into("CallParameters", "new")>>, {"new"}, {"new"}, {<<{"new"}, {"new"}>>}, TRUE)
    BY IntoBlock DEF OnNode
  <2>8. Block(<<c3>>, {"new"}, {"new"}, {<<{"new"}, {"new"}>>}, TRUE)
    <3>1. Block(<<Delete("new"), Throw>>, {"new"}, {"new"}, {<<{"new"}, {"new"}>>}, TRUE)
      <4>1. Block(<<Delete("new"), Throw>>, {"new"}, {"new"}, {}, TRUE)
        BY DeleteBlock
      <4>2. QED
        BY <4>1, DeadBlock
    <3>2. QED
      BY <3>1, UnlessBlock
  <2>9. Block(<<Advance>>, {"new"}, {"new"}, {<<{"new"}, {"new"}>>}, TRUE)
    BY AdvanceBlock
  <2>10. Block(<<Return("new")>>, {"new"}, {"new"}, {}, TRUE)
    BY ReturnBlock DEF Nothing
  <2>11. QED
    BY <2>1, <2>2, <2>3, <2>4, <2>5, <2>6, <2>7, <2>8, <2>9, <2>10, Tuple10
<1>2. QED
  BY <1>1 DEF ParseNewExpression

LEMMA DefaultExpressionBlocks ==
  Block(ParseDefaultExpression, {}, {}, {}, TRUE)
<1> DEFINE c1 == Unless(Current({"("}), <<Delete("default"), Throw>>)
           c2 == Unless(Current({")"}), <<Delete("default"), Throw>>)
<1>1. Block(<<New("default", "DEFAULT", Nothing), Advance, c1, Advance, Need(Current({"name"})),
      Into("TypeExpression", "default"), c2, Advance, Return("default")>>, {}, {}, {}, TRUE)
  <2>1. Block(<<New("default", "DEFAULT", Nothing)>>, {}, {}, {<<{"default"}, {"default"}>>},
        TRUE)
    BY NewBlock, RuleNames
  <2>2. Block(<<Advance>>, {"default"}, {"default"}, {<<{"default"}, {"default"}>>}, TRUE)
    BY AdvanceBlock
  <2>3. Block(<<c1>>, {"default"}, {"default"}, {<<{"default"}, {"default"}>>}, TRUE)
    <3>1. Block(<<Delete("default"), Throw>>, {"default"}, {"default"}, {<<{"default"},
          {"default"}>>}, TRUE)
      <4>1. Block(<<Delete("default"), Throw>>, {"default"}, {"default"}, {}, TRUE)
        BY DeleteBlock
      <4>2. QED
        BY <4>1, DeadBlock
    <3>2. QED
      BY <3>1, UnlessBlock
  <2>4. Block(<<Advance>>, {"default"}, {"default"}, {<<{"default"}, {"default"}>>}, TRUE)
    BY AdvanceBlock
  <2>5. Block(<<Need(Current({"name"}))>>, {"default"}, {"default"}, {<<{"default"},
        {"default"}>>}, TRUE)
    BY NeedBlock
  <2>6. Block(<<Into("TypeExpression", "default")>>, {"default"}, {"default"}, {<<{"default"},
        {"default"}>>}, TRUE)
    BY IntoBlock DEF OnNode
  <2>7. Block(<<c2>>, {"default"}, {"default"}, {<<{"default"}, {"default"}>>}, TRUE)
    <3>1. Block(<<Delete("default"), Throw>>, {"default"}, {"default"}, {<<{"default"},
          {"default"}>>}, TRUE)
      <4>1. Block(<<Delete("default"), Throw>>, {"default"}, {"default"}, {}, TRUE)
        BY DeleteBlock
      <4>2. QED
        BY <4>1, DeadBlock
    <3>2. QED
      BY <3>1, UnlessBlock
  <2>8. Block(<<Advance>>, {"default"}, {"default"}, {<<{"default"}, {"default"}>>}, TRUE)
    BY AdvanceBlock
  <2>9. Block(<<Return("default")>>, {"default"}, {"default"}, {}, TRUE)
    BY ReturnBlock DEF Nothing
  <2>10. QED
    BY <2>1, <2>2, <2>3, <2>4, <2>5, <2>6, <2>7, <2>8, <2>9, Tuple9
<1>2. QED
  BY <1>1 DEF ParseDefaultExpression

LEMMA CallParametersBlocks ==
  Block(ParseCallParameters, {"node"}, {}, {<<{"node", "parameters"}, {}>>}, FALSE)
<1> DEFINE c1 == While(Not(Current({")"})), <<Need(Current({","})), Advance, Into("Expression",
      "parameters")>>)
           c2 == Unless(Current({")"}), <<Into("Expression", "parameters"), c1>>)
           K1 == {"node", "parameters"}
<1>1. Block(<<New("parameters", "CALL_PARAMETERS", "node"), c2>>, {"node"}, {}, {<<K1, {}>>},
      FALSE)
  <2>1. Block(<<New("parameters", "CALL_PARAMETERS", "node")>>, {"node"}, {}, {<<K1, {}>>}, FALSE)
    BY NewKidBlock, RuleNames DEF Nothing
  <2>2. Block(<<c2>>, K1, {}, {<<K1, {}>>}, FALSE)
    <3>1. Block(<<Into("Expression", "parameters"), c1>>, K1, {}, {<<K1, {}>>}, FALSE)
      <4>1. Block(<<Into("Expression", "parameters")>>, K1, {}, {<<K1, {}>>}, FALSE)
        BY IntoBlock DEF OnNode
      <4>2. Block(<<c1>>, K1, {}, {<<K1, {}>>}, FALSE)
        <5>1. Block(<<Need(Current({","})), Advance, Into("Expression", "parameters")>>, K1, {},
              {<<K1, {}>>}, FALSE)
          <6>1. Block(<<Need(Current({","}))>>, K1, {}, {<<K1, {}>>}, FALSE)
            BY NeedBlock
          <6>2. Block(<<Advance>>, K1, {}, {<<K1, {}>>}, FALSE)
            BY AdvanceBlock
          <6>3. Block(<<Into("Expression", "parameters")>>, K1, {}, {<<K1, {}>>}, FALSE)
            BY IntoBlock DEF OnNode
          <6>4. QED
            BY <6>1, <6>2, <6>3, Tuple3
        <5>2. QED
          BY <5>1, WhileBlock
      <4>3. QED
        BY <4>1, <4>2, Tuple2
    <3>2. QED
      BY <3>1, UnlessBlock
  <2>3. QED
    BY <2>1, <2>2, Tuple2
<1>2. QED
  BY <1>1 DEF ParseCallParameters

LEMMA VariableExpressionBlocks ==
  Block(ParseVariableExpression, {}, {}, {}, TRUE)
<1> DEFINE K1 == {"variable", "name"}
<1>1. Block(<<New("variable", "SYMBOL", Nothing), New("name", "NAME", "variable")>>
      \o Try("variable", <<Advance>>) \o <<Return("variable")>>, {}, {}, {}, TRUE)
  <2>1. Block(<<New("variable", "SYMBOL", Nothing), New("name", "NAME", "variable")>>, {}, {},
        {<<K1, {"variable"}>>}, TRUE)
    <3>1. Block(<<New("variable", "SYMBOL", Nothing)>>, {}, {}, {<<{"variable"}, {"variable"}>>},
          TRUE)
      BY NewBlock, RuleNames
    <3>2. Block(<<New("name", "NAME", "variable")>>, {"variable"}, {"variable"}, {<<K1,
          {"variable"}>>}, TRUE)
      BY NewKidBlock, RuleNames DEF Nothing
    <3>3. QED
      BY <3>1, <3>2, Tuple2
  <2>2. Block(Try("variable", <<Advance>>), K1, {"variable"}, {<<K1, {"variable"}>>}, TRUE)
    <3>1. Block(<<Advance>>, K1, {"variable"}, {<<K1, {"variable"}>>}, TRUE)
      BY AdvanceBlock
    <3>2. QED
      BY <3>1, TryBlock
  <2>3. Block(<<New("variable", "SYMBOL", Nothing), New("name", "NAME", "variable")>>
        \o Try("variable", <<Advance>>), {}, {}, {<<K1, {"variable"}>>}, TRUE)
    BY <2>1, <2>2, Sequence
  <2>4. Block(<<Return("variable")>>, K1, {"variable"}, {}, TRUE)
    BY ReturnBlock DEF Nothing
  <2>5. QED
    BY <2>3, <2>4, Sequence
<1>2. QED
  BY <1>1 DEF ParseVariableExpression

LEMMA StringConstantBlocks ==
  Block(ParseStringConstant, {}, {}, {}, TRUE)
<1>1. Block(<<New("string", "STRING", Nothing)>> \o Try("string", <<Advance>>)
      \o <<Return("string")>>, {}, {}, {}, TRUE)
  <2>1. Block(<<New("string", "STRING", Nothing)>>, {}, {}, {<<{"string"}, {"string"}>>}, TRUE)
    BY NewBlock, RuleNames
  <2>2. Block(Try("string", <<Advance>>), {"string"}, {"string"}, {<<{"string"}, {"string"}>>},
        TRUE)
    <3>1. Block(<<Advance>>, {"string"}, {"string"}, {<<{"string"}, {"string"}>>}, TRUE)
      BY AdvanceBlock
    <3>2. QED
      BY <3>1, TryBlock
  <2>3. Block(<<New("string", "STRING", Nothing)>> \o Try("string", <<Advance>>), {}, {},
        {<<{"string"}, {"string"}>>}, TRUE)
    BY <2>1, <2>2, Sequence
  <2>4. Block(<<Return("string")>>, {"string"}, {"string"}, {}, TRUE)
    BY ReturnBlock DEF Nothing
  <2>5. QED
    BY <2>3, <2>4, Sequence
<1>2. QED
  BY <1>1 DEF ParseStringConstant

-----------------------------------------------------------------------------
(***************************************************************************)
(* Every function of the grammar is fit: the functions that return a node  *)
(* of their own, those that build on the node they are handed, and those   *)
(* that add to the node they are lent.                                     *)
(***************************************************************************)
LEMMA MakersLead ==
  ASSUME NEW f \in Makers
  PROVE Block(Code[f], {}, {}, {}, TRUE)
<1>1. Block(Code["Module"], {}, {}, {}, TRUE)
  BY ModuleBlocks DEF Code
<1>2. Block(Code["AssignExpressionA"], {}, {}, {}, TRUE)
  BY AssignExpressionABlocks DEF Code
<1>3. Block(Code["InvertExpression"], {}, {}, {}, TRUE)
  BY InvertExpressionBlocks DEF Code
<1>4. Block(Code["AtomicExpression"], {}, {}, {}, TRUE)
  BY AtomicExpressionBlocks DEF Code
<1>5. Block(Code["ValueExpression"], {}, {}, {}, TRUE)
  BY ValueExpressionBlocks DEF Code
<1>6. Block(Code["NamedValueExpression"], {}, {}, {}, TRUE)
  BY NamedValueExpressionBlocks DEF Code
<1>7. Block(Code["CallExpression"], {}, {}, {}, TRUE)
  BY CallExpressionBlocks DEF Code
<1>8. Block(Code["NewExpression"], {}, {}, {}, TRUE)
  BY NewExpressionBlocks DEF Code
<1>9. Block(Code["DefaultExpression"], {}, {}, {}, TRUE)
  BY DefaultExpressionBlocks DEF Code
<1>10. Block(Code["VariableExpression"], {}, {}, {}, TRUE)
  BY VariableExpressionBlocks DEF Code
<1>11. Block(Code["StringConstant"], {}, {}, {}, TRUE)
  BY StringConstantBlocks DEF Code
<1>12. Block(Code["AndExpressionA"], {}, {}, {}, TRUE)
  BY FeedBlock DEF Code, ParseAndExpressionA, Adopters, Makers
<1>13. Block(Code["ComparisonExpressionA"], {}, {}, {}, TRUE)
  BY FeedBlock DEF Code, ParseComparisonExpressionA, Adopters, Makers
<1>14. Block(Code["PrimaryExpressionA"], {}, {}, {}, TRUE)
  BY FeedBlock DEF Code, ParsePrimaryExpressionA, Adopters, Makers
<1>15. Block(Code["SecondaryExpressionA"], {}, {}, {}, TRUE)
  BY FeedBlock DEF Code, ParseSecondaryExpressionA, Adopters, Makers
<1>16. Block(Code["TertiaryExpressionA"], {}, {}, {}, TRUE)
  BY FeedBlock DEF Code, ParseTertiaryExpressionA, Adopters, Makers
<1>17. QED
  BY <1>1, <1>2, <1>3, <1>4, <1>5, <1>6, <1>7, <1>8, <1>9, <1>10, <1>11, <1>12, <1>13, <1>14,
        <1>15, <1>16 DEF Makers

LEMMA AdoptersLead ==
  ASSUME NEW f \in Adopters
  PROVE Block(Code[f], {"left"}, {"left"}, {}, TRUE)
<1>1. Block(Code["AssignExpressionB"], {"left"}, {"left"}, {}, TRUE)
  BY AssignExpressionBBlocks DEF Code
<1>2. Block(Code["OrExpression"], {"left"}, {"left"}, {}, TRUE)
  BY OrExpressionBlocks DEF Code
<1>3. Block(Code["TertiaryExpressionB"], {"left"}, {"left"}, {}, TRUE)
  BY TertiaryExpressionBBlocks DEF Code
<1>4. Block(Code["AndExpressionB"], {"left"}, {"left"}, {}, TRUE)
  BY LevelBlock DEF Code, ParseAndExpressionB, Adopters, Makers, Operators
<1>5. Block(Code["ComparisonExpressionB"], {"left"}, {"left"}, {}, TRUE)
  BY LevelBlock DEF Code, ParseComparisonExpressionB, Adopters, Makers, Operators
<1>6. Block(Code["PrimaryExpressionB"], {"left"}, {"left"}, {}, TRUE)
  BY LevelBlock DEF Code, ParsePrimaryExpressionB, Adopters, Makers, Operators
<1>7. Block(Code["SecondaryExpressionB"], {"left"}, {"left"}, {}, TRUE)
  BY LevelBlock DEF Code, ParseSecondaryExpressionB, Adopters, Makers, Operators
<1>8. QED
  BY <1>1, <1>2, <1>3, <1>4, <1>5, <1>6, <1>7 DEF Adopters

LEMMA OnNodeLead ==
  ASSUME NEW f \in OnNode
  PROVE \E D : Block(Code[f], {"node"}, {}, {<<D, {}>>}, FALSE)
<1> DEFINE L(g) == \E D : Block(Code[g], {"node"}, {}, {<<D, {}>>}, FALSE)
<1>1. L("PackageDeclaration")
  BY PackageDeclarationBlocks DEF Code
<1>2. L("DependsStatements")
  BY DependsStatementsBlocks DEF Code
<1>3. L("DependsStatement")
  BY DependsStatementBlocks DEF Code
<1>4. L("ModuleBody")
  BY ModuleBodyBlocks DEF Code
<1>5. L("SpecDefinition")
  BY SpecDefinitionBlocks DEF Code
<1>6. L("SpecBody")
  BY SpecBodyBlocks DEF Code
<1>7. L("Property")
  BY PropertyBlocks DEF Code
<1>8. L("PropertyBody")
  BY PropertyBodyBlocks DEF Code
<1>9. L("StaticFunction")
  BY FunctionBlocks DEF Code
<1>10. L("SpecFunction")
  BY FunctionBlocks DEF Code
<1>11. L("FunctionParameters")
  BY FunctionParametersBlocks DEF Code
<1>12. L("FunctionParameter")
  BY FunctionParameterBlocks DEF Code
<1>13. L("TypeExpression")
  BY TypeExpressionBlocks DEF Code
<1>14. L("BlockStatement")
  BY BlockStatementBlocks DEF Code
<1>15. L("Statement")
  BY StatementBlocks DEF Code
<1>16. L("KeywordStatement")
  BY KeywordStatementBlocks DEF Code
<1>17. L("IfStatement")
  BY IfStatementBlocks DEF Code
<1>18. L("ElIfStatement")
  BY ElIfStatementBlocks DEF Code
<1>19. L("WhileStatement")
  BY WhileStatementBlocks DEF Code
<1>20. L("ForStatement")
  BY ForStatementBlocks DEF Code
<1>21. L("ReturnStatement")
  BY ReturnStatementBlocks DEF Code
<1>22. L("NameStatement")
  BY NameStatementBlocks DEF Code
<1>23. L("Expression")
  BY ExpressionBlocks DEF Code
<1>24. L("CallParameters")
  BY CallParametersBlocks DEF Code
<1> HIDE DEF L
<1>25. L(f)
  BY <1>1, <1>2, <1>3, <1>4, <1>5, <1>6, <1>7, <1>8, <1>9, <1>10, <1>11, <1>12, <1>13, <1>14,
        <1>15, <1>16, <1>17, <1>18, <1>19, <1>20, <1>21, <1>22, <1>23, <1>24 DEF OnNode
<1>26. QED
  BY <1>25 DEF L

\* Every function is fit where it begins, whatever its caller knows.
LEMMA AllFit ==
  ASSUME NEW f \in DOMAIN Code
  PROVE \E E \in SUBSET (Lent(f) \cup Handed(f)) :
          Fit(Point(Code[f], E, Handed(f), FALSE, Gives(f)))
<1>1. CASE f \in Makers
  <2>1. Gives(f) /\ Block(Code[f], Lent(f) \cup Handed(f), Handed(f), {}, TRUE)
    <3>1. Gives(f) /\ Handed(f) = {} /\ Lent(f) \cup Handed(f) = {}
      BY <1>1, Signatures
    <3>2. QED
      BY <1>1, <3>1, MakersLead
  <2>2. QED
    BY <2>1, FitEntry
<1>2. CASE f \in Adopters
  <2>1. Gives(f) /\ Block(Code[f], Lent(f) \cup Handed(f), Handed(f), {}, TRUE)
    <3>1. Gives(f) /\ Handed(f) = {"left"} /\ Lent(f) \cup Handed(f) = {"left"}
      BY <1>2, Signatures
    <3>2. QED
      BY <1>2, <3>1, AdoptersLead
  <2>2. QED
    BY <2>1, FitEntry
<1>3. CASE f \in OnNode
  <2>1. ~Gives(f) /\ \E D : Block(Code[f], Lent(f) \cup Handed(f), Handed(f), {<<D, {}>>}, FALSE)
    <3>1. ~Gives(f) /\ Handed(f) = {} /\ Lent(f) \cup Handed(f) = {"node"}
      BY <1>3, Signatures
    <3>2. QED
      BY <1>3, <3>1, OnNodeLead
  <2>2. QED
    BY <2>1, FitEntry
<1>4. CASE f = "PropertyBodyFunction"
  <2>1. ~Gives(f) /\ Handed(f) = {} /\ Lent(f) \cup Handed(f) = {"getter", "setter"}
    BY <1>4, Signatures
  <2>2. Block(Code["PropertyBodyFunction"], {"getter", "setter"}, {},
              {<<{"getter", "setter", "node", "modifier"}, {}>>}, FALSE)
    BY PropertyBodyFunctionBlocks DEF Code
  <2>3. ~Gives(f) /\ \E D : Block(Code[f], Lent(f) \cup Handed(f), Handed(f), {<<D, {}>>}, FALSE)
    BY <1>4, <2>1, <2>2
  <2>4. QED
    BY <2>3, FitEntry
<1>5. QED
  BY <1>1, <1>2, <1>3, <1>4, FunctionNames

-----------------------------------------------------------------------------
(***************************************************************************)
(* The forest: h says which node a variable of an active function owns.    *)
(* Every node is owned, or is the child of one node, once, and never both. *)
(***************************************************************************)
NodeType == [rule : Rules, kids : Seq(Nat)]

Kid(ns, n) == \E p \in DOMAIN ns : \E i \in DOMAIN ns[p].kids : ns[p].kids[i] = n

KidsOnce(ns) ==
  \A p, q \in DOMAIN ns : \A i \in DOMAIN ns[p].kids : \A j \in DOMAIN ns[q].kids :
    ns[p].kids[i] = ns[q].kids[j] => p = q /\ i = j

KidsIn(ns) == \A p \in DOMAIN ns : \A i \in DOMAIN ns[p].kids : ns[p].kids[i] \in DOMAIN ns

NoneFreed(ns) == \A n \in DOMAIN ns : ns[n].rule # "freed"

Forest(ns, h) ==
  /\ KidsOnce(ns) /\ KidsIn(ns) /\ NoneFreed(ns)
  /\ \A x \in DOMAIN h : h[x] \in DOMAIN ns /\ ~Kid(ns, h[x])
  /\ \A x, y \in DOMAIN h : h[x] = h[y] => x = y
  /\ \A n \in DOMAIN ns : Kid(ns, n) \/ \E x \in DOMAIN h : h[x] = n

\* Owners come and go one at a time.
Owning(h, x, n) == [y \in DOMAIN h \cup {x} |-> IF y = x THEN n ELSE h[y]]
Without(h, x) == [y \in DOMAIN h \ {x} |-> h[y]]

Fresh(ns, rule) == Append(ns, [rule |-> rule, kids |-> <<>>])

\* A node that is made, or adopted, changes no other.
LEMMA FreshFacts ==
  ASSUME NEW ns \in Seq(NodeType), NEW rule \in Rules
  PROVE LET t == Fresh(ns, rule)
            n == Len(ns) + 1
        IN  /\ t \in Seq(NodeType) /\ DOMAIN t = DOMAIN ns \cup {n} /\ n \notin DOMAIN ns
            /\ n \in Nat /\ Len(t) = n
            /\ t[n].rule = rule /\ t[n].kids = <<>>
            /\ \A m \in DOMAIN ns : t[m] = ns[m]
<1> DEFINE e == [rule |-> rule, kids |-> <<>>]
           n == Len(ns) + 1
<1>1. e \in NodeType /\ e.rule = rule /\ e.kids = <<>>
  BY DEF NodeType
<1> HIDE DEF e
<1>2. /\ Append(ns, e) \in Seq(NodeType) /\ Len(Append(ns, e)) = n /\ Append(ns, e)[n] = e
      /\ \A m \in 1 .. Len(ns) : Append(ns, e)[m] = ns[m]
  BY <1>1
<1>3. DOMAIN Append(ns, e) = 1 .. n /\ DOMAIN ns = 1 .. Len(ns) /\ Len(ns) \in Nat
  BY <1>2
<1>4. QED
  BY <1>1, <1>2, <1>3 DEF Fresh, e

LEMMA AdoptFacts ==
  ASSUME NEW ns \in Seq(NodeType), NEW p \in DOMAIN ns, NEW c \in Nat
  PROVE LET t == Adopt(ns, p, c)
            k == Len(ns[p].kids) + 1
        IN  /\ t \in Seq(NodeType) /\ DOMAIN t = DOMAIN ns /\ Len(t) = Len(ns)
            /\ t[p].rule = ns[p].rule
            /\ DOMAIN t[p].kids = DOMAIN ns[p].kids \cup {k} /\ k \notin DOMAIN ns[p].kids
            /\ t[p].kids[k] = c
            /\ \A i \in DOMAIN ns[p].kids : t[p].kids[i] = ns[p].kids[i]
            /\ \A q \in DOMAIN ns \ {p} : t[q] = ns[q]
<1> DEFINE t == Adopt(ns, p, c)
           kids == Append(ns[p].kids, c)
           e == [ns[p] EXCEPT !.kids = kids]
<1>1. ns[p] \in NodeType /\ ns[p].kids \in Seq(Nat)
  <2>1. ns[p] \in NodeType
    OBVIOUS
  <2>2. QED
    BY <2>1 DEF NodeType
<1>2. kids \in Seq(Nat) /\ Len(kids) = Len(ns[p].kids) + 1
  BY <1>1
<1>3. kids[Len(kids)] = c /\ \A i \in 1 .. Len(ns[p].kids) : kids[i] = ns[p].kids[i]
  BY <1>1, <1>2
<1>4. DOMAIN kids = 1 .. Len(kids) /\ DOMAIN ns[p].kids = 1 .. Len(ns[p].kids) /\ Len(ns[p].kids) \in Nat
  BY <1>1, <1>2
<1> HIDE DEF kids
<1>5. e \in NodeType /\ e.rule = ns[p].rule /\ e.kids = kids
  <2>1. e = [rule |-> ns[p].rule, kids |-> kids]
    BY <1>1 DEF NodeType
  <2>2. ns[p].rule \in Rules
    BY <1>1 DEF NodeType
  <2>3. QED
    BY <1>2, <2>1, <2>2 DEF NodeType
<1>6. t = [ns EXCEPT ![p] = e]
  BY DEF Adopt, kids
<1> HIDE DEF t, e
<1>7. t \in Seq(NodeType) /\ Len(t) = Len(ns)
  BY <1>5, <1>6
<1>8. DOMAIN t = DOMAIN ns /\ t[p] = e /\ \A q \in DOMAIN ns \ {p} : t[q] = ns[q]
  BY <1>6
<1>9. /\ DOMAIN kids = DOMAIN ns[p].kids \cup {Len(ns[p].kids) + 1}
      /\ Len(ns[p].kids) + 1 \notin DOMAIN ns[p].kids
  BY <1>2, <1>4
<1>10. \A i \in DOMAIN ns[p].kids : kids[i] = ns[p].kids[i]
  BY <1>3, <1>4
<1>11. kids[Len(ns[p].kids) + 1] = c
  BY <1>2, <1>3
<1>12. QED
  BY <1>5, <1>7, <1>8, <1>9, <1>10, <1>11, Zenon DEF t

\* With a new node, or a new child, no node is in two places.
LEMMA FreshForest ==
  ASSUME NEW ns \in Seq(NodeType), NEW rule \in Rules \ {"freed"}, NEW h, Forest(ns, h)
  PROVE LET t == Fresh(ns, rule)
            n == Len(ns) + 1
        IN  /\ KidsOnce(t) /\ KidsIn(t) /\ NoneFreed(t)
            /\ \A m : Kid(t, m) <=> Kid(ns, m)
            /\ ~Kid(t, n)
<1> DEFINE t == Fresh(ns, rule)
           n == Len(ns) + 1
<1>1. /\ DOMAIN t = DOMAIN ns \cup {n} /\ n \notin DOMAIN ns
      /\ t[n].rule = rule /\ t[n].kids = <<>>
      /\ \A m \in DOMAIN ns : t[m] = ns[m]
  BY FreshFacts, Zenon
<1> HIDE DEF t, n
<1>2. DOMAIN t[n].kids = {}
  BY <1>1
<1>3. \A m : Kid(t, m) <=> Kid(ns, m)
  BY <1>1, <1>2 DEF Kid
<1>4. KidsIn(t)
  BY <1>1, <1>2 DEF KidsIn, Forest
<1>5. KidsOnce(t)
  BY <1>1, <1>2 DEF KidsOnce, Forest
<1>6. NoneFreed(t)
  BY <1>1 DEF NoneFreed, Forest
<1>7. ~Kid(ns, n)
  BY <1>1 DEF Kid, KidsIn, Forest
<1>8. QED
  BY <1>3, <1>4, <1>5, <1>6, <1>7 DEF t, n

LEMMA AdoptForest ==
  ASSUME NEW ns \in Seq(NodeType), NEW p \in DOMAIN ns, NEW c \in DOMAIN ns,
         KidsOnce(ns), KidsIn(ns), NoneFreed(ns), ~Kid(ns, c)
  PROVE LET t == Adopt(ns, p, c)
        IN  /\ KidsOnce(t) /\ KidsIn(t) /\ NoneFreed(t)
            /\ \A m : Kid(t, m) <=> Kid(ns, m) \/ m = c
<1> DEFINE t == Adopt(ns, p, c)
           k == Len(ns[p].kids) + 1
<1>1. /\ DOMAIN t = DOMAIN ns
      /\ t[p].rule = ns[p].rule
      /\ DOMAIN t[p].kids = DOMAIN ns[p].kids \cup {k} /\ k \notin DOMAIN ns[p].kids
      /\ t[p].kids[k] = c
      /\ \A i \in DOMAIN ns[p].kids : t[p].kids[i] = ns[p].kids[i]
      /\ \A q \in DOMAIN ns \ {p} : t[q] = ns[q]
  <2>1. c \in Nat
    OBVIOUS
  <2>2. QED
    BY <2>1, AdoptFacts
<1> HIDE DEF t, k
<1>2. \A q \in DOMAIN ns : \A i \in DOMAIN ns[q].kids : i \in DOMAIN t[q].kids /\ t[q].kids[i] = ns[q].kids[i]
  BY <1>1
<1>3. \A q \in DOMAIN ns : \A i \in DOMAIN t[q].kids :
        \/ i \in DOMAIN ns[q].kids /\ t[q].kids[i] = ns[q].kids[i]
        \/ q = p /\ i = k /\ t[q].kids[i] = c
  BY <1>1
<1>4. \A m : Kid(t, m) <=> Kid(ns, m) \/ m = c
  <2>1. ASSUME NEW m, Kid(t, m) PROVE Kid(ns, m) \/ m = c
    BY <1>1, <1>3, <2>1 DEF Kid
  <2>2. ASSUME NEW m, Kid(ns, m) PROVE Kid(t, m)
    BY <1>1, <1>2, <2>2 DEF Kid
  <2>3. Kid(t, c)
    BY <1>1 DEF Kid
  <2>4. QED
    BY <2>1, <2>2, <2>3
<1>5. KidsIn(t)
  BY <1>1, <1>3 DEF KidsIn
<1>6. NoneFreed(t)
  BY <1>1 DEF NoneFreed
<1>7. KidsOnce(t)
  <2>1. SUFFICES ASSUME NEW u \in DOMAIN t, NEW v \in DOMAIN t,
                        NEW i \in DOMAIN t[u].kids, NEW j \in DOMAIN t[v].kids,
                        t[u].kids[i] = t[v].kids[j]
                 PROVE u = v /\ i = j
    BY DEF KidsOnce
  <2>2. u \in DOMAIN ns /\ v \in DOMAIN ns
    BY <1>1
  <2>3. CASE i \in DOMAIN ns[u].kids /\ t[u].kids[i] = ns[u].kids[i]
    <3>1. ns[u].kids[i] # c
      BY <2>2, <2>3 DEF Kid
    <3>2. j \in DOMAIN ns[v].kids /\ t[v].kids[j] = ns[v].kids[j]
      BY <1>3, <2>1, <2>2, <2>3, <3>1
    <3>3. ns[u].kids[i] = ns[v].kids[j]
      BY <2>1, <2>3, <3>2
    <3>4. QED
      <4>1. \A a, b \in DOMAIN ns : \A e \in DOMAIN ns[a].kids : \A f \in DOMAIN ns[b].kids :
              ns[a].kids[e] = ns[b].kids[f] => a = b /\ e = f
        BY DEF KidsOnce
      <4>2. i \in DOMAIN ns[u].kids /\ j \in DOMAIN ns[v].kids
        BY <2>3, <3>2
      <4>3. QED
        BY <2>2, <3>3, <4>1, <4>2
  <2>4. CASE u = p /\ i = k /\ t[u].kids[i] = c
    <3>1. ~(j \in DOMAIN ns[v].kids /\ t[v].kids[j] = ns[v].kids[j])
      BY <2>1, <2>2, <2>4 DEF Kid
    <3>2. QED
      BY <1>3, <2>2, <2>4, <3>1
  <2>5. QED
    BY <1>3, <2>2, <2>3, <2>4
<1>8. QED
  BY <1>4, <1>5, <1>6, <1>7 DEF t

\* A variable that owns a new node.
LEMMA ForestNew ==
  ASSUME NEW ns \in Seq(NodeType), NEW rule \in Rules \ {"freed"}, NEW h, Forest(ns, h),
         NEW x, x \notin DOMAIN h
  PROVE Forest(Fresh(ns, rule), Owning(h, x, Len(ns) + 1))
<1> DEFINE t == Fresh(ns, rule)
           n == Len(ns) + 1
           g == Owning(h, x, n)
<1>1. DOMAIN t = DOMAIN ns \cup {n} /\ n \notin DOMAIN ns
  BY FreshFacts, Zenon
<1>2. KidsOnce(t) /\ KidsIn(t) /\ NoneFreed(t) /\ ~Kid(t, n) /\ \A m : Kid(t, m) <=> Kid(ns, m)
  BY FreshForest, Zenon
<1>3. DOMAIN g = DOMAIN h \cup {x} /\ g[x] = n /\ \A y \in DOMAIN h : g[y] = h[y]
  BY DEF Owning
<1> HIDE DEF t, n, g
<1>4. \A y \in DOMAIN g : g[y] \in DOMAIN t /\ ~Kid(t, g[y])
  BY <1>1, <1>2, <1>3 DEF Forest
<1>5. \A y, z \in DOMAIN g : g[y] = g[z] => y = z
  BY <1>1, <1>3 DEF Forest
<1>6. \A m \in DOMAIN t : Kid(t, m) \/ \E y \in DOMAIN g : g[y] = m
  BY <1>1, <1>2, <1>3 DEF Forest
<1>7. QED
  BY <1>2, <1>4, <1>5, <1>6 DEF Forest, t, g, n

\* A new node that is a child at once.
LEMMA ForestNewKid ==
  ASSUME NEW ns \in Seq(NodeType), NEW rule \in Rules \ {"freed"}, NEW h, Forest(ns, h),
         NEW p \in DOMAIN ns
  PROVE Forest(Adopt(Fresh(ns, rule), p, Len(ns) + 1), h)
<1> DEFINE g == Fresh(ns, rule)
           n == Len(ns) + 1
           t == Adopt(g, p, n)
<1>1. g \in Seq(NodeType) /\ DOMAIN g = DOMAIN ns \cup {n} /\ n \notin DOMAIN ns /\ n \in Nat
  BY FreshFacts, Zenon
<1>2. KidsOnce(g) /\ KidsIn(g) /\ NoneFreed(g) /\ ~Kid(g, n) /\ \A m : Kid(g, m) <=> Kid(ns, m)
  BY FreshForest, Zenon
<1> HIDE DEF g, n
<1>3. p \in DOMAIN g /\ n \in DOMAIN g
  BY <1>1
<1>4. KidsOnce(t) /\ KidsIn(t) /\ NoneFreed(t) /\ \A m : Kid(t, m) <=> Kid(g, m) \/ m = n
  BY <1>1, <1>2, <1>3, AdoptForest, Zenon
<1>5. DOMAIN t = DOMAIN g
  BY <1>1, <1>3, AdoptFacts
<1> HIDE DEF t
<1>6. \A y \in DOMAIN h : h[y] \in DOMAIN t /\ ~Kid(t, h[y])
  BY <1>1, <1>2, <1>4, <1>5 DEF Forest
<1>7. \A m \in DOMAIN t : Kid(t, m) \/ \E y \in DOMAIN h : h[y] = m
  BY <1>1, <1>2, <1>4, <1>5 DEF Forest
<1>8. QED
  BY <1>4, <1>6, <1>7 DEF Forest, t, g, n

\* A node that is given up to a parent.
LEMMA ForestAdd ==
  ASSUME NEW ns \in Seq(NodeType), NEW h, Forest(ns, h), NEW p \in DOMAIN ns, NEW x \in DOMAIN h
  PROVE Forest(Adopt(ns, p, h[x]), Without(h, x))
<1> DEFINE t == Adopt(ns, p, h[x])
           g == Without(h, x)
<1>1. h[x] \in DOMAIN ns /\ ~Kid(ns, h[x]) /\ KidsOnce(ns) /\ KidsIn(ns) /\ NoneFreed(ns)
  BY DEF Forest
<1>2. KidsOnce(t) /\ KidsIn(t) /\ NoneFreed(t) /\ \A m : Kid(t, m) <=> Kid(ns, m) \/ m = h[x]
  BY <1>1, AdoptForest, Zenon
<1>3. DOMAIN t = DOMAIN ns
  <2>1. h[x] \in Nat
    BY <1>1
  <2>2. QED
    BY <2>1, AdoptFacts
<1>4. DOMAIN g = DOMAIN h \ {x} /\ \A y \in DOMAIN g : g[y] = h[y]
  BY DEF Without
<1> HIDE DEF t, g
<1>5. \A y \in DOMAIN g : g[y] \in DOMAIN t /\ ~Kid(t, g[y])
  BY <1>2, <1>3, <1>4 DEF Forest
<1>6. \A y, z \in DOMAIN g : g[y] = g[z] => y = z
  BY <1>4 DEF Forest
<1>7. \A m \in DOMAIN t : Kid(t, m) \/ \E y \in DOMAIN g : g[y] = m
  BY <1>2, <1>3, <1>4 DEF Forest
<1>8. QED
  BY <1>2, <1>5, <1>6, <1>7 DEF Forest, t, g

\* A node that goes from one variable to another.
LEMMA ForestMove ==
  ASSUME NEW ns, NEW h, Forest(ns, h), NEW x \in DOMAIN h, NEW y, y \notin DOMAIN h \ {x}
  PROVE Forest(ns, Owning(Without(h, x), y, h[x]))
<1> DEFINE g == Owning(Without(h, x), y, h[x])
<1>1. /\ DOMAIN g = (DOMAIN h \ {x}) \cup {y} /\ g[y] = h[x]
      /\ \A z \in DOMAIN g : z # y => z \in DOMAIN h /\ z # x /\ g[z] = h[z]
  BY DEF Owning, Without
<1>2. \A z \in DOMAIN h : z # x => z \in DOMAIN g /\ g[z] = h[z] /\ z # y
  BY <1>1
<1> HIDE DEF g
<1>3. \A z \in DOMAIN g : g[z] \in DOMAIN ns /\ ~Kid(ns, g[z])
  BY <1>1 DEF Forest
<1>4. \A w, z \in DOMAIN g : g[w] = g[z] => w = z
  BY <1>1 DEF Forest
<1>5. \A m \in DOMAIN ns : Kid(ns, m) \/ \E z \in DOMAIN g : g[z] = m
  <2>1. SUFFICES ASSUME NEW m \in DOMAIN ns, ~Kid(ns, m) PROVE \E z \in DOMAIN g : g[z] = m
    OBVIOUS
  <2>2. PICK z \in DOMAIN h : h[z] = m
    BY <2>1 DEF Forest
  <2>3. QED
    BY <1>1, <1>2, <2>2
<1>6. QED
  BY <1>3, <1>4, <1>5 DEF Forest, g

-----------------------------------------------------------------------------
(***************************************************************************)
(* The stack, its functions counted from the bottom: the number of a       *)
(* function does not change while others come and go above it.             *)
(***************************************************************************)
IsFrame(f) == f = [code |-> f.code, env |-> f.env, handler |-> f.handler]
Frames(s) == Listed(s) /\ \A i \in DOMAIN s : IsFrame(s[i])
FrameAt(s, l) == s[Len(s) + 1 - l]

\* The stack when its top is replaced, when a function is called, when one
\* returns: what the functions below are.
LEMMA StackFacts ==
  ASSUME NEW s, Frames(s)
  PROVE /\ Len(s) \in Nat /\ DOMAIN s = 1 .. Len(s)
        /\ s # <<>> => /\ Len(s) > 0 /\ Head(s) = s[1] /\ FrameAt(s, Len(s)) = Head(s)
                       /\ IsFrame(Head(s)) /\ 1 \in DOMAIN s
        /\ s = <<>> <=> Len(s) = 0
<1>1. PICK S : s \in Seq(S)
  BY DEF Frames, Listed
<1>2. Len(s) \in Nat /\ DOMAIN s = 1 .. Len(s) /\ (s = <<>> <=> Len(s) = 0)
  BY <1>1
<1>3. ASSUME s # <<>> PROVE Len(s) > 0 /\ Head(s) = s[1] /\ Len(s) + 1 - Len(s) = 1 /\ 1 \in DOMAIN s
  BY <1>1, <1>2, <1>3
<1>4. QED
  BY <1>2, <1>3 DEF Frames, FrameAt

LEMMA ReplaceFacts ==
  ASSUME NEW s, Frames(s), s # <<>>, NEW f, IsFrame(f)
  PROVE LET t == <<f>> \o Tail(s)
        IN  /\ Frames(t) /\ Len(t) = Len(s) /\ t # <<>>
            /\ DOMAIN t = DOMAIN s /\ t[1] = f /\ \A i \in DOMAIN s \ {1} : t[i] = s[i]
            /\ FrameAt(t, Len(s)) = f
            /\ \A l \in 1 .. Len(s) - 1 : FrameAt(t, l) = FrameAt(s, l)
<1> DEFINE S == {s[i] : i \in DOMAIN s} \cup {f}
           t == <<f>> \o Tail(s)
<1>1. s \in Seq(S) /\ f \in S
  BY DEF Frames, Listed
<1> HIDE DEF S
<1>2. t \in Seq(S) /\ Len(t) = Len(s) /\ t # <<>>
  BY <1>1
<1>3. Len(s) \in Nat \ {0} /\ DOMAIN s = 1 .. Len(s) /\ DOMAIN t = 1 .. Len(s)
  BY <1>1, <1>2
<1>4. t[1] = f /\ \A i \in 2 .. Len(s) : t[i] = s[i]
  BY <1>1, <1>3
<1> HIDE DEF t
<1>5. \A i \in DOMAIN t : IsFrame(t[i])
  BY <1>3, <1>4 DEF Frames
<1>6. Listed(t)
  BY <1>2, ListedIn
<1>7. \A l \in 1 .. Len(s) - 1 : FrameAt(t, l) = FrameAt(s, l)
  BY <1>2, <1>3, <1>4 DEF FrameAt
<1>8. FrameAt(t, Len(s)) = f
  BY <1>2, <1>3, <1>4 DEF FrameAt
<1>9. \A i \in DOMAIN s \ {1} : t[i] = s[i]
  BY <1>3, <1>4
<1>10. QED
  BY <1>2, <1>3, <1>4, <1>5, <1>6, <1>7, <1>8, <1>9 DEF Frames, t

Pushing(s, f, t) == Frames(s) /\ IsFrame(f) /\ t = <<f>> \o s

Pushed(s, f, t) ==
  /\ Frames(t) /\ Len(t) = Len(s) + 1 /\ t # <<>>
  /\ t[1] = f /\ \A i \in DOMAIN t \ {1} : i - 1 \in DOMAIN s /\ t[i] = s[i - 1]
  /\ FrameAt(t, Len(s) + 1) = f
  /\ \A l \in 1 .. Len(s) : FrameAt(t, l) = FrameAt(s, l)

LEMMA PushFacts ==
  ASSUME NEW s, NEW f, NEW t, Pushing(s, f, t)
  PROVE Pushed(s, f, t)
<1>0. Frames(s) /\ IsFrame(f) /\ t = <<f>> \o s
  BY DEF Pushing
<1> DEFINE S == {s[i] : i \in DOMAIN s} \cup {f}
           d == <<f>> \o s
<1>1. s \in Seq(S) /\ f \in S
  BY <1>0 DEF Frames, Listed
<1> HIDE DEF S
<1>2. d \in Seq(S) /\ Len(d) = Len(s) + 1 /\ d # <<>>
  BY <1>1
<1>3. Len(s) \in Nat /\ DOMAIN s = 1 .. Len(s) /\ DOMAIN d = 1 .. Len(s) + 1
  BY <1>1, <1>2
<1>4. d[1] = f /\ \A i \in 2 .. Len(s) + 1 : d[i] = s[i - 1]
  BY <1>1, <1>3
<1> HIDE DEF d
<1>5. \A i \in DOMAIN d : IsFrame(d[i])
  <2>1. IsFrame(f) /\ \A i \in DOMAIN s : IsFrame(s[i])
    BY <1>0 DEF Frames
  <2>2. QED
    BY <1>3, <1>4, <2>1
<1>6. Listed(d)
  BY <1>2, ListedIn
<1>7. \A l \in 1 .. Len(s) : FrameAt(d, l) = FrameAt(s, l)
  BY <1>2, <1>3, <1>4 DEF FrameAt
<1>8. FrameAt(d, Len(s) + 1) = f
  BY <1>2, <1>3, <1>4 DEF FrameAt
<1>9. \A i \in DOMAIN d \ {1} : i - 1 \in DOMAIN s /\ d[i] = s[i - 1]
  BY <1>3, <1>4
<1>10. t = d
  BY <1>0 DEF d
<1>11. QED
  BY <1>2, <1>4, <1>5, <1>6, <1>7, <1>8, <1>9, <1>10 DEF Frames, Pushed

LEMMA TailFacts ==
  ASSUME NEW s, Frames(s), s # <<>>
  PROVE LET t == Tail(s)
        IN  /\ Frames(t) /\ Len(t) = Len(s) - 1
            /\ \A i \in DOMAIN t : i + 1 \in DOMAIN s /\ t[i] = s[i + 1]
            /\ \A l \in 1 .. Len(s) - 1 : FrameAt(t, l) = FrameAt(s, l)
<1> DEFINE S == {s[i] : i \in DOMAIN s}
           t == Tail(s)
<1>1. s \in Seq(S)
  BY DEF Frames, Listed
<1> HIDE DEF S
<1>2. t \in Seq(S) /\ Len(t) = Len(s) - 1
  BY <1>1
<1>3. Len(s) \in Nat \ {0} /\ DOMAIN s = 1 .. Len(s) /\ DOMAIN t = 1 .. Len(s) - 1
  BY <1>1, <1>2
<1>4. \A i \in 1 .. Len(s) - 1 : t[i] = s[i + 1]
  BY <1>1, <1>3
<1> HIDE DEF t
<1>5. \A i \in DOMAIN t : IsFrame(t[i])
  BY <1>3, <1>4 DEF Frames
<1>6. Listed(t)
  BY <1>2, ListedIn
<1>7. \A l \in 1 .. Len(s) - 1 : FrameAt(t, l) = FrameAt(s, l)
  <2>1. SUFFICES ASSUME NEW l \in 1 .. Len(s) - 1 PROVE t[Len(t) + 1 - l] = s[Len(s) + 1 - l]
    BY DEF FrameAt
  <2>2. Len(t) + 1 - l \in 1 .. Len(s) - 1 /\ Len(t) + 1 - l + 1 = Len(s) + 1 - l
    BY <1>2, <1>3
  <2>3. QED
    BY <1>4, <2>2
<1>8. \A i \in DOMAIN t : i + 1 \in DOMAIN s /\ t[i] = s[i + 1]
  BY <1>3, <1>4
<1>9. QED
  BY <1>2, <1>5, <1>6, <1>7, <1>8 DEF Frames, t

Popping(s, m, f, t) ==
  Frames(s) /\ m = Len(s) - 1 /\ m > 0 /\ IsFrame(f) /\ t = <<f>> \o Tail(Tail(s))

Popped(s, m, f, t) ==
  /\ Frames(t) /\ Len(t) = m /\ t # <<>>
  /\ t[1] = f /\ \A i \in DOMAIN t \ {1} : i + 1 \in DOMAIN s /\ t[i] = s[i + 1]
  /\ FrameAt(t, m) = f /\ FrameAt(s, m) = s[2] /\ 2 \in DOMAIN s
  /\ \A l \in 1 .. m - 1 : FrameAt(t, l) = FrameAt(s, l)

LEMMA PopFacts ==
  ASSUME NEW s, NEW m, NEW f, NEW t, Popping(s, m, f, t)
  PROVE Popped(s, m, f, t)
<1>0. Frames(s) /\ m = Len(s) - 1 /\ m > 0 /\ IsFrame(f) /\ t = <<f>> \o Tail(Tail(s))
  BY DEF Popping
<1> DEFINE u == Tail(s)
           d == <<f>> \o Tail(u)
<1>1. Len(s) \in Nat /\ s # <<>> /\ DOMAIN s = 1 .. Len(s)
  BY <1>0, StackFacts
<1>2. /\ Frames(u) /\ Len(u) = Len(s) - 1
      /\ \A i \in DOMAIN u : i + 1 \in DOMAIN s /\ u[i] = s[i + 1]
      /\ \A l \in 1 .. Len(s) - 1 : FrameAt(u, l) = FrameAt(s, l)
  BY <1>0, <1>1, TailFacts
<1> HIDE DEF u
<1>3. u # <<>>
  <2>1. u = <<>> <=> Len(u) = 0
    BY <1>2, StackFacts
  <2>2. QED
    BY <1>0, <1>1, <1>2, <2>1
<1>4. /\ Frames(d) /\ Len(d) = Len(u) /\ d # <<>>
      /\ DOMAIN d = DOMAIN u /\ d[1] = f /\ \A i \in DOMAIN u \ {1} : d[i] = u[i]
      /\ FrameAt(d, Len(u)) = f
      /\ \A l \in 1 .. Len(u) - 1 : FrameAt(d, l) = FrameAt(u, l)
  BY <1>0, <1>2, <1>3, ReplaceFacts
<1> HIDE DEF d
<1>5. FrameAt(s, Len(s) - 1) = s[2] /\ 2 \in DOMAIN s
  BY <1>0, <1>1 DEF FrameAt
<1>6. \A l \in 1 .. Len(s) - 2 : FrameAt(d, l) = FrameAt(s, l)
  BY <1>1, <1>2, <1>4
<1>7. t = d /\ Len(s) - 1 = m
  BY <1>0 DEF d, u
<1>8. /\ \A i \in DOMAIN d \ {1} : i + 1 \in DOMAIN s /\ d[i] = s[i + 1]
      /\ Len(d) = m /\ FrameAt(d, m) = f /\ FrameAt(s, m) = s[2]
  BY <1>2, <1>4, <1>5, <1>7
<1>9. \A l \in 1 .. m - 1 : FrameAt(d, l) = FrameAt(s, l)
  <2>1. Len(s) - 2 = m - 1
    BY <1>1, <1>7
  <2>2. QED
    BY <1>6, <2>1
<1>10. QED
  BY <1>4, <1>5, <1>7, <1>8, <1>9 DEF Popped

-----------------------------------------------------------------------------
(***************************************************************************)
(* The parser at work is sound: at says where in its program each active   *)
(* function is, h which variables own which node.  A function that waits   *)
(* for another has handed over what that one owns, and will own what it    *)
(* returns.                                                                *)
(***************************************************************************)
AtTop(f, p, h, n, cur) ==
  /\ p.code = f.code /\ p.known \subseteq DOMAIN f.env
  /\ p.op => cur \in Operators
  /\ \A v : <<n, v>> \in DOMAIN h <=> v \in p.owned

Waits(f, p, gives, h, n) ==
  /\ f.code # <<>> /\ Head(f.code)[1] = "call" /\ p.code = Tail(f.code) /\ ~p.op
  /\ LET v == Head(f.code)[2]
     IN  IF gives THEN /\ v # Nothing /\ v \in p.owned /\ p.known \subseteq DOMAIN f.env \cup {v}
                       /\ \A w : <<n, w>> \in DOMAIN h <=> w \in p.owned \ {v}
         ELSE /\ v = Nothing /\ p.known \subseteq DOMAIN f.env
              /\ \A w : <<n, w>> \in DOMAIN h <=> w \in p.owned

\* What is owned is what the variables of the active functions say.
Owners(s, h) ==
  \A x \in DOMAIN h : \E l \in 1 .. Len(s) : \E v \in DOMAIN FrameAt(s, l).env :
    x = <<l, v>> /\ h[x] = FrameAt(s, l).env[v]

\* The first node is the module, and Module owns it to the end.
Rooted(ns, s, h) ==
  IF ns = <<>> THEN Len(s) = 1 /\ FrameAt(s, 1).code = Code["Module"]
  ELSE <<1, "module">> \in DOMAIN h /\ h[<<1, "module">>] = 1

Sound(s, ns, at, h, cur) ==
  /\ s # <<>> /\ at[1].gives
  /\ \A l \in 1 .. Len(s) : Fit(at[l])
  /\ AtTop(FrameAt(s, Len(s)), at[Len(s)], h, Len(s), cur)
  /\ \A l \in 1 .. Len(s) - 1 : Waits(FrameAt(s, l), at[l], at[l + 1].gives, h, l)
  /\ Owners(s, h) /\ Forest(ns, h) /\ Rooted(ns, s, h)

\* What the function on top is about to do, and what it has.
Due(s, P, p, h, i) ==
  /\ \A u \in P : Moves(P, u)
  /\ Obeys(P, i, Tail(Head(s).code), p.known, p.owned, p.op, p.gives)
  /\ p.owned \subseteq p.known /\ p.known \subseteq DOMAIN Head(s).env
  /\ \A v : <<Len(s), v>> \in DOMAIN h <=> v \in p.owned
  /\ \A v \in p.owned : h[<<Len(s), v>>] = Head(s).env[v]
  /\ Listed(Tail(Head(s).code))

LEMMA IsDue ==
  ASSUME NEW s, Frames(s), NEW ns, NEW at, NEW h, NEW cur, Sound(s, ns, at, h, cur),
         Head(s).code # <<>>
  PROVE \E P : Due(s, P, at[Len(s)], h, Head(Head(s).code)) /\ (at[Len(s)].op => cur \in Operators)
<1> DEFINE n == Len(s)
           p == at[n]
<1>1. s # <<>> /\ n \in Nat /\ n > 0 /\ FrameAt(s, n) = Head(s)
  BY StackFacts DEF Sound
<1>2. Fit(p) /\ AtTop(Head(s), p, h, n, cur) /\ Owners(s, h)
  BY <1>1 DEF Sound
<1>3. PICK P : p \in P /\ \A u \in P : Moves(P, u)
  BY <1>2 DEF Fit
<1>4. p.code = Head(s).code
  BY <1>2 DEF AtTop
<1>5. Obeys(P, Head(Head(s).code), Tail(Head(s).code), p.known, p.owned, p.op, p.gives)
  BY <1>3, <1>4 DEF Moves
<1>6. p.owned \subseteq p.known /\ Listed(Head(s).code)
  BY <1>3, <1>4 DEF Moves
<1>7. Listed(Tail(Head(s).code))
  <2>1. PICK S : Head(s).code \in Seq(S)
    BY <1>6 DEF Listed
  <2>2. Tail(Head(s).code) \in Seq(S)
    BY <2>1
  <2>3. QED
    BY <2>2, ListedIn
<1>8. \A v \in p.owned : h[<<n, v>>] = Head(s).env[v]
  <2>1. SUFFICES ASSUME NEW v \in p.owned PROVE h[<<n, v>>] = Head(s).env[v]
    OBVIOUS
  <2>2. <<n, v>> \in DOMAIN h
    BY <1>2 DEF AtTop
  <2>3. PICK l \in 1 .. Len(s) : \E w \in DOMAIN FrameAt(s, l).env :
               <<n, v>> = <<l, w>> /\ h[<<n, v>>] = FrameAt(s, l).env[w]
    BY <1>2, <2>2 DEF Owners
  <2>4. QED
    BY <1>1, <2>3
<1>9. QED
  BY <1>2, <1>3, <1>5, <1>6, <1>7, <1>8 DEF Due, AtTop

\* The points a function may go on to are fit.
FitAt(p, c, D, O, r) ==
  Fit(p) /\ p.code = c /\ p.known \subseteq D /\ p.owned = O /\ ~p.op /\ p.gives = r

LEMMA GoesFit ==
  ASSUME NEW P, \A u \in P : Moves(P, u), NEW c, NEW D, NEW O, NEW r, Goes(P, c, D, O, r)
  PROVE \E p : FitAt(p, c, D, O, r)
<1>1. PICK E \in SUBSET D : Point(c, E, O, FALSE, r) \in P
  BY DEF Goes
<1> DEFINE p == Point(c, E, O, FALSE, r)
<1>2. p.code = c /\ p.known = E /\ p.owned = O /\ p.op = FALSE /\ p.gives = r
  BY DEF Point
<1>3. Fit(p)
  BY <1>1 DEF Fit
<1> HIDE DEF p
<1>4. QED
  BY <1>2, <1>3 DEF FitAt

\* Function n goes on, as frame f at point p; g is who owns what from then on.
Onward(n, f, p, gives, h, g) ==
  /\ IsFrame(f) /\ Fit(p) /\ p.code = f.code /\ p.known \subseteq DOMAIN f.env /\ p.gives = gives
  /\ \A v : <<n, v>> \in DOMAIN g <=> v \in p.owned
  /\ \A v \in p.owned : v \in DOMAIN f.env /\ g[<<n, v>>] = f.env[v]
  /\ \A x : x[1] # n => (x \in DOMAIN g <=> x \in DOMAIN h)
  /\ \A x \in DOMAIN g : x[1] # n => g[x] = h[x]
  /\ \A x \in DOMAIN g : x[1] = n => x = <<n, x[2]>>

Moved(at, n, p) == [l \in 1 .. n |-> IF l = n THEN p ELSE at[l]]

\* The function on top goes on to a fit point, and the parser is sound.
LEMMA GoesOn ==
  ASSUME NEW s, Frames(s), NEW ns, NEW at, NEW h, NEW cur, Sound(s, ns, at, h, cur),
         NEW n, n = Len(s), NEW f, NEW p, NEW g, Onward(n, f, p, at[n].gives, h, g),
         NEW now, p.op => now \in Operators,
         NEW ms, Forest(ms, g), Rooted(ms, <<f>> \o Tail(s), g)
  PROVE Sound(<<f>> \o Tail(s), ms, Moved(at, n, p), g, now)
<1> DEFINE t == <<f>> \o Tail(s)
           to == Moved(at, n, p)
<1>0. /\ IsFrame(f) /\ Fit(p) /\ p.code = f.code /\ p.known \subseteq DOMAIN f.env
      /\ p.gives = at[n].gives
      /\ \A v : <<n, v>> \in DOMAIN g <=> v \in p.owned
      /\ \A v \in p.owned : v \in DOMAIN f.env /\ g[<<n, v>>] = f.env[v]
      /\ \A x : x[1] # n => (x \in DOMAIN g <=> x \in DOMAIN h)
      /\ \A x \in DOMAIN g : x[1] # n => g[x] = h[x]
      /\ \A x \in DOMAIN g : x[1] = n => x = <<n, x[2]>>
  BY DEF Onward
<1>1. s # <<>> /\ n \in Nat /\ n > 0
  BY StackFacts DEF Sound
<1>2. /\ Len(t) = n /\ t # <<>> /\ FrameAt(t, n) = f
      /\ \A l \in 1 .. n - 1 : FrameAt(t, l) = FrameAt(s, l)
  BY <1>0, <1>1, ReplaceFacts
<1> HIDE DEF t
<1>3. to[n] = p /\ \A l \in 1 .. n - 1 : to[l] = at[l]
  BY <1>1 DEF Moved
<1> HIDE DEF to
<1>4. \A l \in 1 .. n : to[l].gives = at[l].gives
  BY <1>0, <1>1, <1>3
<1>5. \A l \in 1 .. n : Fit(to[l])
  BY <1>0, <1>1, <1>3 DEF Sound
<1>6. AtTop(FrameAt(t, n), to[n], g, n, now)
  BY <1>0, <1>2, <1>3 DEF AtTop
<1>7. ASSUME NEW l \in 1 .. n - 1
      PROVE Waits(FrameAt(t, l), to[l], to[l + 1].gives, g, l)
  <2>1. Waits(FrameAt(s, l), at[l], at[l + 1].gives, h, l)
    BY <1>1 DEF Sound
  <2>2. l + 1 \in 1 .. n /\ l # n
    BY <1>1
  <2>3. \A w : <<l, w>> \in DOMAIN g <=> <<l, w>> \in DOMAIN h
    <3>1. \A w : <<l, w>>[1] = l
      OBVIOUS
    <3>2. QED
      BY <1>0, <2>2, <3>1
  <2>4. QED
    BY <1>2, <1>3, <1>4, <2>1, <2>2, <2>3 DEF Waits
<1>8. Owners(t, g)
  <2>1. SUFFICES ASSUME NEW x \in DOMAIN g
                 PROVE \E l \in 1 .. n : \E v \in DOMAIN FrameAt(t, l).env :
                         x = <<l, v>> /\ g[x] = FrameAt(t, l).env[v]
    BY <1>2 DEF Owners
  <2>2. CASE x[1] = n
    <3>1. x = <<n, x[2]>> /\ x[2] \in p.owned
      BY <1>0, <2>2
    <3>2. QED
      BY <1>0, <1>1, <1>2, <3>1
  <2>3. CASE x[1] # n
    <3>1. x \in DOMAIN h /\ g[x] = h[x]
      BY <1>0, <2>3
    <3>2. PICK l \in 1 .. n : \E v \in DOMAIN FrameAt(s, l).env :
                 x = <<l, v>> /\ h[x] = FrameAt(s, l).env[v]
      BY <3>1 DEF Sound, Owners
    <3>3. l \in 1 .. n - 1
      BY <1>1, <2>3, <3>2
    <3>4. FrameAt(t, l) = FrameAt(s, l)
      BY <1>2, <3>3
    <3>5. QED
      BY <3>1, <3>2, <3>4
  <2>4. QED
    BY <2>2, <2>3
<1>9. to[1].gives
  BY <1>1, <1>4 DEF Sound
<1>10. QED
  BY <1>2, <1>5, <1>6, <1>7, <1>8, <1>9 DEF Sound, t, to

-----------------------------------------------------------------------------
(***************************************************************************)
(* The inductive invariant.  A function that deletes what it owns throws   *)
(* next, and what is being deleted meanwhile is part of no other tree.     *)
(***************************************************************************)
FrameOK(f, live) ==
  /\ \A v \in DOMAIN f.env : f.env[v] \in live
  /\ f.handler = Nothing \/ f.handler \in DOMAIN f.env

Seen == current \in Window \ {Bad} /\ next \in Window /\ (next = Bad => cause = "lexer")

Kept ==
  /\ nodes \in Seq(NodeType) /\ KidsIn(nodes) /\ doomed \in Seq(DOMAIN nodes)
  /\ Frames(stack) /\ \A i \in DOMAIN stack : FrameOK(stack[i], DOMAIN nodes)

Fates ==
  /\ fate \in {"parsing", "throwing", "returned", "threw", "freed twice"}
  /\ cause \in {"none", "syntax", "end", "lexer"}
  /\ fate = "parsing" <=> stack # <<>> /\ cause = "none"

Whole(ns) == KidsOnce(ns) /\ KidsIn(ns) /\ NoneFreed(ns) /\ \A n \in DOMAIN ns : Kid(ns, n) <=> n # 1

Clearing(ns, gone) ==
  /\ KidsOnce(ns)
  /\ \A i, j \in DOMAIN gone : gone[i] = gone[j] => i = j
  /\ \A i \in DOMAIN gone : ns[gone[i]].rule # "freed" /\ ~Kid(ns, gone[i])
  /\ \A p \in DOMAIN ns : \A i \in DOMAIN ns[p].kids : ns[ns[p].kids[i]].rule # "freed"

Dying == Top.code # <<>> /\ Instruction[1] = "throw" /\ Clearing(nodes, doomed)

Working == \/ doomed = <<>> /\ \E at, h : Sound(stack, nodes, at, h, current)
           \/ Dying

ParserInv ==
  /\ Seen /\ Kept /\ Fates
  /\ fate = "parsing" => Working
  /\ fate = "returned" => doomed = <<>> /\ Whole(nodes)

-----------------------------------------------------------------------------
\* The inductive invariant says what the properties say.
LEMMA InvImpliesTypeOK ==
  ParserInv => TypeOK
<1>1. SUFFICES ASSUME ParserInv PROVE TypeOK
  OBVIOUS
<1>2. \A n \in DOMAIN nodes : nodes[n].rule \in Rules
  <2>1. \A n \in DOMAIN nodes : nodes[n] \in NodeType
    BY <1>1 DEF ParserInv, Kept
  <2>2. QED
    BY <2>1 DEF NodeType
<1>3. \A i \in DOMAIN doomed : doomed[i] \in DOMAIN nodes
  BY <1>1 DEF ParserInv, Kept
<1>4. QED
  BY <1>1, <1>2, <1>3 DEF ParserInv, Kept, Seen, Fates, TypeOK, KidsIn, FrameOK

LEMMA FirstNumbers ==
  ASSUME NEW n \in Nat
  PROVE IsFiniteSet(1 .. n) /\ Cardinality(1 .. n) = n
<1>1. IsFiniteSet(1 .. n) /\ Cardinality(1 .. n) = IF 1 > n THEN 0 ELSE n - 1 + 1
  BY FS_Interval
<1>2. QED
  BY <1>1

\* One parent each, and one place: counted, there is one place.
LEMMA InvImpliesWhole ==
  ParserInv => TreeIsWhole
<1>1. SUFFICES ASSUME ParserInv, Returned PROVE TreeIsWhole
  BY DEF TreeIsWhole
<1>2. nodes \in Seq(NodeType) /\ Whole(nodes) /\ DOMAIN nodes = 1 .. Len(nodes) /\ Len(nodes) \in Nat
  BY <1>1 DEF ParserInv, Kept, Returned
<1>3. Live = DOMAIN nodes
  BY <1>2 DEF Live, Freed, Whole, NoneFreed
<1>4. ASSUME NEW p \in DOMAIN nodes, NEW i \in DOMAIN nodes[p].kids
      PROVE i \in 1 .. Len(nodes)
  <2> DEFINE kids == nodes[p].kids
  <2>1. kids \in Seq(Nat)
    <3>1. nodes[p] \in NodeType
      BY <1>2
    <3>2. QED
      BY <3>1 DEF NodeType
  <2>2. \A j, k \in DOMAIN kids : kids[j] = kids[k] => j = k
    BY <1>2 DEF Whole, KidsOnce
  <2>3. \A j \in DOMAIN kids : kids[j] \in DOMAIN nodes
    BY <1>2 DEF Whole, KidsIn
  <2> HIDE DEF kids
  <2>4. DOMAIN kids = 1 .. Len(kids) /\ Len(kids) \in Nat /\ kids \in [1 .. Len(kids) -> 1 .. Len(nodes)]
    BY <1>2, <2>1, <2>3
  <2>5. kids \in Injection(1 .. Len(kids), 1 .. Len(nodes))
    BY <2>2, <2>4 DEF Injection, IsInjective
  <2>6. IsFiniteSet(1 .. Len(nodes)) /\ Cardinality(1 .. Len(nodes)) = Len(nodes)
    BY <1>2, FirstNumbers
  <2>7. Cardinality(1 .. Len(kids)) = Len(kids)
    BY <2>4, FirstNumbers
  <2>8. Len(kids) <= Len(nodes)
    BY <2>5, <2>6, <2>7, FS_Injection
  <2>9. QED
    BY <1>2, <2>4, <2>8 DEF kids
<1>5. ASSUME NEW n \in DOMAIN nodes
      PROVE Cardinality(Places(n)) = IF n = 1 THEN 0 ELSE 1
  <2>1. CASE n = 1
    <3>1. ~Kid(nodes, n)
      BY <1>2, <2>1 DEF Whole
    <3>2. Places(n) = {}
      BY <1>3, <3>1 DEF Places, Kid
    <3>3. QED
      BY <2>1, <3>2, FS_EmptySet
  <2>2. CASE n # 1
    <3>1. PICK p \in DOMAIN nodes : \E i \in DOMAIN nodes[p].kids : nodes[p].kids[i] = n
      BY <1>2, <2>2 DEF Whole, Kid
    <3>2. PICK i \in DOMAIN nodes[p].kids : nodes[p].kids[i] = n
      BY <3>1
    <3>3. <<p, i>> \in Places(n)
      BY <1>3, <1>4, <3>2 DEF Places
    <3>4. ASSUME NEW place \in Places(n) PROVE place = <<p, i>>
      <4>1. PICK q \in Live, j \in 1 .. Len(nodes) : place = <<q, j>>
        BY DEF Places
      <4>2. j \in DOMAIN nodes[q].kids /\ nodes[q].kids[j] = n
        BY <4>1 DEF Places
      <4>3. q = p /\ j = i
        BY <1>2, <1>3, <3>2, <4>1, <4>2 DEF Whole, KidsOnce
      <4>4. QED
        BY <4>1, <4>3
    <3>5. Places(n) = {<<p, i>>}
      BY <3>3, <3>4
    <3>6. Cardinality(Places(n)) = 1
      BY <3>5, FS_Singleton
    <3>7. QED
      BY <2>2, <3>6
  <2>3. QED
    BY <2>1, <2>2
<1>6. DOMAIN nodes \ Live = {}
  BY <1>3
<1>7. QED
  BY <1>3, <1>5, <1>6 DEF TreeIsWhole

-----------------------------------------------------------------------------
\* While nothing has been deleted, the nodes are sound.
LEMMA Soundly ==
  ASSUME ParserInv, fate = "parsing", Top.code = <<>> \/ Instruction[1] # "throw"
  PROVE doomed = <<>> /\ \E at, h : Sound(stack, nodes, at, h, current)
BY DEF ParserInv, Working, Dying

LEMMA KeptFacts ==
  ASSUME ParserInv, fate = "parsing"
  PROVE /\ Frames(stack) /\ stack # <<>> /\ IsFrame(Top) /\ FrameOK(Top, DOMAIN nodes)
        /\ nodes \in Seq(NodeType) /\ cause = "none"
<1>1. Frames(stack) /\ stack # <<>> /\ cause = "none" /\ nodes \in Seq(NodeType)
  BY DEF ParserInv, Kept, Fates
<1>2. Top = stack[1] /\ IsFrame(Top) /\ 1 \in DOMAIN stack
  BY <1>1, StackFacts DEF Top
<1>3. FrameOK(Top, DOMAIN nodes)
  BY <1>2 DEF ParserInv, Kept
<1>4. QED
  BY <1>1, <1>2, <1>3

LEMMA TryListed ==
  ASSUME NEW v, NEW body, Listed(body)
  PROVE Listed(Try(v, body))
<1> DEFINE a == <<<<"try", v>>>>
           b == <<<<"end try">>>>
<1>1. Listed(a) /\ Listed(b)
  BY FirstFacts, NilListed
<1>2. Try(v, body) = (a \o body) \o b
  BY DEF Try
<1> HIDE DEF a, b
<1>3. Listed(a \o body)
  BY <1>1, ListedFacts
<1>4. Listed((a \o body) \o b)
  BY <1>1, <1>3, ListedFacts
<1>5. QED
  BY <1>2, <1>4

\* Only Module, at its first instruction, runs when there is no node.
LEMMA FirstIsNew ==
  ASSUME NEW s, Frames(s), NEW at, NEW h, NEW cur, Sound(s, <<>>, at, h, cur)
  PROVE /\ Len(s) = 1 /\ Head(s).code # <<>>
        /\ Head(Head(s).code) = New("module", "MODULE", Nothing)
<1>1. Len(s) = 1 /\ Head(s).code = Code["Module"]
  BY StackFacts DEF Sound, Rooted
<1>2. Code["Module"] = ParseModule
  BY DEF Code
<1> DEFINE i == New("module", "MODULE", Nothing)
           try == Try("module", <<Into("PackageDeclaration", "module"),
                    Into("DependsStatements", "module"), Into("ModuleBody", "module")>>)
           rest == try \o <<Return("module")>>
<1>3. ParseModule = (<<i>> \o try) \o <<Return("module")>>
  BY DEF ParseModule
<1>4. Listed(try) /\ Listed(<<Return("module")>>)
  <2>1. Listed(<<Into("PackageDeclaration", "module"), Into("DependsStatements", "module"),
                 Into("ModuleBody", "module")>>)
    <3> DEFINE a == Into("PackageDeclaration", "module")
               b == Into("DependsStatements", "module")
               c == Into("ModuleBody", "module")
    <3> HIDE DEF a, b, c
    <3>1. <<a, b, c>> \in Seq({a, b, c})
      OBVIOUS
    <3>2. QED
      BY <3>1, ListedIn DEF a, b, c
  <2>2. Listed(<<Return("module")>>)
    BY FirstFacts, NilListed
  <2>3. QED
    BY <2>1, <2>2, TryListed
<1> HIDE DEF i, try
<1>5. ParseModule = <<i>> \o rest /\ Listed(rest)
  <2> DEFINE last == <<Return("module")>>
  <2>1. Listed(<<i>>) /\ Listed(last)
    BY <1>4, FirstFacts, NilListed
  <2> HIDE DEF last
  <2>2. (<<i>> \o try) \o last = <<i>> \o (try \o last) /\ Listed(try \o last)
    BY <1>4, <2>1, ListedFacts
  <2>3. QED
    BY <1>3, <2>2 DEF last
<1>6. QED
  BY <1>1, <1>2, <1>5, FirstFacts DEF i

LEMMA NotFirst ==
  ASSUME ParserInv, fate = "parsing", Top.code = <<>> \/ Instruction[1] # "new",
         NEW at, NEW h, Sound(stack, nodes, at, h, current)
  PROVE nodes # <<>>
<1>1. SUFFICES ASSUME nodes = <<>> PROVE FALSE
  OBVIOUS
<1>2. Frames(stack) /\ Sound(stack, <<>>, at, h, current)
  BY <1>1, KeptFacts
<1>3. Top.code # <<>> /\ Instruction = New("module", "MODULE", Nothing)
  BY <1>2, FirstIsNew DEF Top, Instruction
<1>4. QED
  BY <1>3 DEF New

\* The parser goes on in the function on top, whatever became of the nodes.
LEMMA Ahead ==
  ASSUME ParserInv, fate = "parsing", UNCHANGED <<doomed, fate, cause>>, doomed = <<>>,
         NEW at, NEW h, Sound(stack, nodes, at, h, current), NEW n, n = Len(stack),
         NEW f, NEW p, NEW g, Onward(n, f, p, at[n].gives, h, g),
         FrameOK(f, DOMAIN nodes'), stack' = <<f>> \o Tail(stack),
         p.op => current' \in Operators, Seen',
         nodes' \in Seq(NodeType), DOMAIN nodes \subseteq DOMAIN nodes',
         Forest(nodes', g), Rooted(nodes', <<f>> \o Tail(stack), g)
  PROVE ParserInv'
<1>1. Frames(stack) /\ stack # <<>> /\ cause = "none" /\ IsFrame(f)
  BY KeptFacts DEF Onward
<1>2. Sound(stack', nodes', Moved(at, n, p), g, current')
  BY <1>1, GoesOn
<1>3. /\ Frames(stack') /\ stack' # <<>> /\ DOMAIN stack' = DOMAIN stack /\ stack'[1] = f
      /\ \A i \in DOMAIN stack \ {1} : stack'[i] = stack[i]
  BY <1>1, ReplaceFacts
<1>4. \A i \in DOMAIN stack' : FrameOK(stack'[i], DOMAIN nodes')
  <2>1. \A i \in DOMAIN stack : FrameOK(stack[i], DOMAIN nodes)
    BY DEF ParserInv, Kept
  <2>2. QED
    BY <1>3, <2>1 DEF FrameOK
<1>5. KidsIn(nodes') /\ doomed' \in Seq(DOMAIN nodes')
  BY DEF Forest
<1>6. Kept'
  BY <1>3, <1>4, <1>5 DEF Kept
<1>7. Fates'
  BY <1>1, <1>3 DEF ParserInv, Fates
<1>8. Working'
  BY <1>2 DEF Working
<1>9. QED
  BY <1>6, <1>7, <1>8 DEF ParserInv

\* The same, when the nodes stay with whom they belong to.
LEMMA Along ==
  ASSUME ParserInv, fate = "parsing", UNCHANGED <<nodes, doomed, fate, cause>>, doomed = <<>>,
         Top.code = <<>> \/ Instruction[1] # "new",
         NEW at, NEW h, Sound(stack, nodes, at, h, current), NEW n, n = Len(stack),
         NEW f, IsFrame(f), FrameOK(f, DOMAIN nodes), stack' = <<f>> \o Tail(stack),
         NEW p, Fit(p), p.code = f.code, p.known \subseteq DOMAIN f.env, p.gives = at[n].gives,
         p.owned = at[n].owned, \A v \in p.owned : v \in DOMAIN f.env /\ f.env[v] = Top.env[v],
         p.op => current' \in Operators, Seen'
  PROVE ParserInv'
<1>1. Frames(stack) /\ stack # <<>> /\ nodes \in Seq(NodeType)
  BY KeptFacts
<1>2. FrameAt(stack, n) = Top /\ n \in Nat /\ n > 0
  BY <1>1, StackFacts DEF Top
<1>3. AtTop(Top, at[n], h, n, current) /\ Owners(stack, h) /\ Forest(nodes, h) /\ Rooted(nodes, stack, h)
  BY <1>2 DEF Sound
<1>4. \A x \in DOMAIN h : \E l, v : x = <<l, v>> /\ (l = n => h[x] = Top.env[v])
  BY <1>2, <1>3 DEF Owners
<1>5. \A v : <<n, v>> \in DOMAIN h <=> v \in p.owned
  BY <1>3 DEF AtTop
<1>6. \A v \in p.owned : v \in DOMAIN f.env /\ h[<<n, v>>] = f.env[v]
  <2>1. SUFFICES ASSUME NEW v \in p.owned PROVE h[<<n, v>>] = Top.env[v]
    OBVIOUS
  <2>2. PICK l, w : <<n, v>> = <<l, w>> /\ (l = n => h[<<n, v>>] = Top.env[w])
    BY <1>4, <1>5
  <2>3. QED
    BY <2>2
<1>7. nodes # <<>>
  BY NotFirst
<1>8. Rooted(nodes', <<f>> \o Tail(stack), h) /\ Forest(nodes', h)
  BY <1>3, <1>7 DEF Rooted
<1>9. \A x \in DOMAIN h : x[1] = n => x = <<n, x[2]>>
  BY <1>4
<1>10. nodes' \in Seq(NodeType) /\ DOMAIN nodes \subseteq DOMAIN nodes' /\ FrameOK(f, DOMAIN nodes')
  BY <1>1
<1>11. Onward(n, f, p, at[n].gives, h, h)
  BY <1>5, <1>6, <1>9 DEF Onward
<1>12. QED
  BY <1>8, <1>10, <1>11, Ahead

-----------------------------------------------------------------------------
(***************************************************************************)
(* The steps of the parser.                                                *)
(***************************************************************************)
LEMMA Setting ==
  ASSUME ParserInv, fate = "parsing", Top.code # <<>>, Instruction[1] # "throw"
  PROVE /\ doomed = <<>>
        /\ \E at, h, P : /\ Sound(stack, nodes, at, h, current)
                         /\ Due(stack, P, at[Len(stack)], h, Instruction)
                         /\ at[Len(stack)].op => current \in Operators
<1>1. PICK at, h : doomed = <<>> /\ Sound(stack, nodes, at, h, current)
  BY Soundly
<1>2. Frames(stack)
  BY KeptFacts
<1>3. PICK P : Due(stack, P, at[Len(stack)], h, Instruction) /\ (at[Len(stack)].op => current \in Operators)
  BY <1>1, <1>2, IsDue DEF Top, Instruction
<1>4. QED
  BY <1>1, <1>3

LEMMA GoesKnowing ==
  ASSUME NEW P, NEW c, NEW D, NEW E, D \subseteq E, NEW O, NEW r, Goes(P, c, D, O, r)
  PROVE Goes(P, c, E, O, r)
BY DEF Goes

LEMMA FrameCode ==
  ASSUME NEW f, IsFrame(f), NEW c
  PROVE [f EXCEPT !.code = c] = [code |-> c, env |-> f.env, handler |-> f.handler]
<1>1. PICK c0, e0, x0 : f = [code |-> c0, env |-> e0, handler |-> x0]
  BY DEF IsFrame
<1>2. QED
  BY <1>1

LEMMA FrameEnv ==
  ASSUME NEW f, IsFrame(f), NEW c, NEW e
  PROVE [f EXCEPT !.code = c, !.env = e] = [code |-> c, env |-> e, handler |-> f.handler]
<1> DEFINE g == [f EXCEPT !.code = c]
<1>1. g = [code |-> c, env |-> f.env, handler |-> f.handler]
  BY FrameCode
<1>2. [f EXCEPT !.code = c, !.env = e] = [g EXCEPT !.env = e]
  OBVIOUS
<1> HIDE DEF g
<1>3. [g EXCEPT !.env = e] = [code |-> c, env |-> e, handler |-> f.handler]
  BY <1>1
<1>4. QED
  BY <1>2, <1>3

LEMMA FrameHandler ==
  ASSUME NEW f, IsFrame(f), NEW c, NEW x
  PROVE [f EXCEPT !.code = c, !.handler = x] = [code |-> c, env |-> f.env, handler |-> x]
<1> DEFINE g == [f EXCEPT !.code = c]
<1>1. g = [code |-> c, env |-> f.env, handler |-> f.handler]
  BY FrameCode
<1>2. [f EXCEPT !.code = c, !.handler = x] = [g EXCEPT !.handler = x]
  OBVIOUS
<1> HIDE DEF g
<1>3. [g EXCEPT !.handler = x] = [code |-> c, env |-> f.env, handler |-> x]
  BY <1>1
<1>4. QED
  BY <1>2, <1>3

\* The frame of a function after an instruction.
LEMMA Proceeding ==
  ASSUME IsFrame(Top), NEW e, Proceed(e)
  PROVE stack' = <<[code |-> Tail(Top.code), env |-> e, handler |-> Top.handler]>> \o Tail(stack)
<1>1. [Top EXCEPT !.code = Tail(@), !.env = e] = [code |-> Tail(Top.code), env |-> e, handler |-> Top.handler]
  BY FrameEnv
<1>2. QED
  BY <1>1 DEF Proceed, Replace

\* What the next instruction keeps, the invariant keeps.
LEMMA Straight ==
  ASSUME ParserInv, fate = "parsing", UNCHANGED <<nodes, doomed, fate, cause>>, doomed = <<>>,
         Top.code = <<>> \/ Instruction[1] # "new",
         NEW at, NEW h, Sound(stack, nodes, at, h, current), NEW n, n = Len(stack),
         NEW P, \A u \in P : Moves(P, u), NEW c, NEW e,
         Goes(P, c, DOMAIN e, at[n].owned, at[n].gives), NEW x,
         \A v \in at[n].owned : v \in DOMAIN e /\ e[v] = Top.env[v],
         FrameOK([code |-> c, env |-> e, handler |-> x], DOMAIN nodes),
         stack' = <<[code |-> c, env |-> e, handler |-> x]>> \o Tail(stack), Seen'
  PROVE ParserInv'
<1> DEFINE f == [code |-> c, env |-> e, handler |-> x]
<1>1. PICK p : /\ Fit(p) /\ p.code = c /\ p.known \subseteq DOMAIN e /\ p.owned = at[n].owned
               /\ ~p.op /\ p.gives = at[n].gives
  BY GoesFit DEF FitAt
<1>2. IsFrame(f) /\ f.code = c /\ f.env = e
  BY DEF IsFrame
<1>3. FrameOK(f, DOMAIN nodes) /\ stack' = <<f>> \o Tail(stack)
  OBVIOUS
<1> HIDE DEF f
<1>4. QED
  BY <1>1, <1>2, <1>3, Along

\* An exception leaves everything as it is.
LEMMA ThrowKeeps ==
  ASSUME ParserInv, NEW why \in {"syntax", "end", "lexer"}, ThrowFor(why), Seen'
  PROVE ParserInv'
<1>1. Kept'
  BY DEF ParserInv, Kept, ThrowFor
<1>2. Fates' /\ fate' = "throwing"
  BY DEF ParserInv, Fates, ThrowFor
<1>3. QED
  BY <1>1, <1>2 DEF ParserInv

LEMMA SeenStays ==
  ASSUME ParserInv, fate = "parsing", UNCHANGED source, cause' = cause \/ cause = "none"
  PROVE Seen'
BY DEF ParserInv, Seen, Fates, source

\* One lemma for each action.
LEMMA AdvanceStep ==
  ASSUME ParserInv, AdvanceNext
  PROVE ParserInv'
<1>1. /\ fate = "parsing" /\ doomed = <<>> /\ Top.code # <<>> /\ Instruction[1] = "advance"
      /\ current' = next
  BY DEF AdvanceNext, Running
<1>2. PICK t \in AllTokens \cup {Bad, EOF} :
        /\ next' = t
        /\ IF t = Bad THEN ThrowFor("lexer")
           ELSE IF next = EOF THEN ThrowFor("end")
           ELSE Proceed(Top.env) /\ UNCHANGED <<nodes, doomed, fate, cause>>
  BY DEF AdvanceNext
<1>3. next \in Window \ {Bad} /\ cause = "none"
  BY <1>1, KeptFacts DEF ParserInv, Seen
<1>4. CASE t = Bad
  <2>1. ThrowFor("lexer") /\ Seen'
    BY <1>1, <1>2, <1>3, <1>4 DEF Seen, ThrowFor, Window
  <2>2. QED
    BY <2>1, ThrowKeeps
<1>5. CASE t # Bad
  <2>1. Seen'
    BY <1>1, <1>2, <1>3, <1>5 DEF Seen, Window
  <2>2. CASE next = EOF
    BY <1>2, <1>5, <2>1, <2>2, ThrowKeeps
  <2>3. CASE next # EOF
    <3> DEFINE n == Len(stack)
    <3>1. PICK at, h, P : Sound(stack, nodes, at, h, current) /\ Due(stack, P, at[n], h, Instruction)
      BY <1>1, Setting
    <3>2. Goes(P, Tail(Top.code), at[n].known, at[n].owned, at[n].gives)
      BY <1>1, <3>1 DEF Due, Obeys, MayPass, Top
    <3>3. IsFrame(Top) /\ FrameOK(Top, DOMAIN nodes)
      BY <1>1, KeptFacts
    <3>4. stack' = <<[code |-> Tail(Top.code), env |-> Top.env, handler |-> Top.handler]>> \o Tail(stack)
      BY <1>2, <1>5, <2>3, <3>3, Proceeding
    <3>5. FrameOK([code |-> Tail(Top.code), env |-> Top.env, handler |-> Top.handler], DOMAIN nodes)
      BY <3>3 DEF FrameOK
    <3>6. /\ at[n].known \subseteq DOMAIN Top.env /\ at[n].owned \subseteq at[n].known
          /\ \A u \in P : Moves(P, u)
      BY <3>1 DEF Due, Top
    <3>7. UNCHANGED <<nodes, doomed, fate, cause>>
      BY <1>2, <1>5, <2>3
    <3>8. Goes(P, Tail(Top.code), DOMAIN Top.env, at[n].owned, at[n].gives)
      BY <3>2, <3>6, GoesKnowing
    <3>9. \A v \in at[n].owned : v \in DOMAIN Top.env
      BY <3>6
    <3>10. QED
      BY <1>1, <2>1, <3>1, <3>4, <3>5, <3>6, <3>7, <3>8, <3>9, Straight
  <2>4. QED
    BY <2>2, <2>3
<1>6. QED
  BY <1>4, <1>5

LEMMA SetHandlerStep ==
  ASSUME ParserInv, SetHandler
  PROVE ParserInv'
<1> DEFINE n == Len(stack)
<1>1. /\ fate = "parsing" /\ doomed = <<>> /\ Top.code # <<>>
      /\ Instruction[1] \in {"try", "end try"}
      /\ UNCHANGED <<source, nodes, doomed, fate, cause>>
  BY DEF SetHandler, Running
<1>2. PICK at, h, P : Sound(stack, nodes, at, h, current) /\ Due(stack, P, at[n], h, Instruction)
  BY <1>1, Setting
<1>3. Goes(P, Tail(Top.code), at[n].known, at[n].owned, at[n].gives)
  BY <1>1, <1>2 DEF Due, Obeys, MayPass, MayTry, Top
<1>4. IsFrame(Top) /\ FrameOK(Top, DOMAIN nodes)
  BY <1>1, KeptFacts
<1>5. /\ at[n].known \subseteq DOMAIN Top.env /\ at[n].owned \subseteq at[n].known
      /\ \A u \in P : Moves(P, u)
  BY <1>2 DEF Due, Top
<1>6. PICK x : /\ stack' = <<[code |-> Tail(Top.code), env |-> Top.env, handler |-> x]>> \o Tail(stack)
               /\ x = Nothing \/ x \in DOMAIN Top.env
  <2>1. CASE Running("try") /\ Replace([Top EXCEPT !.code = Tail(@), !.handler = Instruction[2]])
    <3>1. Instruction[2] \in at[n].known
      BY <1>2, <2>1 DEF Due, Obeys, MayTry, Running
    <3>2. [Top EXCEPT !.code = Tail(@), !.handler = Instruction[2]]
            = [code |-> Tail(Top.code), env |-> Top.env, handler |-> Instruction[2]]
      BY <1>4, FrameHandler
    <3>3. QED
      BY <1>5, <2>1, <3>1, <3>2 DEF Replace
  <2>2. CASE Running("end try") /\ Replace([Top EXCEPT !.code = Tail(@), !.handler = Nothing])
    <3>1. [Top EXCEPT !.code = Tail(@), !.handler = Nothing]
            = [code |-> Tail(Top.code), env |-> Top.env, handler |-> Nothing]
      BY <1>4, FrameHandler
    <3>2. QED
      BY <2>2, <3>1 DEF Replace
  <2>3. QED
    BY <2>1, <2>2 DEF SetHandler
<1>7. FrameOK([code |-> Tail(Top.code), env |-> Top.env, handler |-> x], DOMAIN nodes)
  BY <1>4, <1>6 DEF FrameOK
<1>8. Seen'
  BY <1>1, SeenStays
<1>9. Goes(P, Tail(Top.code), DOMAIN Top.env, at[n].owned, at[n].gives)
  BY <1>3, <1>5, GoesKnowing
<1>10. QED
  BY <1>1, <1>2, <1>5, <1>6, <1>7, <1>8, <1>9, Straight

LEMMA LetStep ==
  ASSUME ParserInv, DoLet
  PROVE ParserInv'
<1> DEFINE n == Len(stack)
           v == Instruction[2]
<1>0. PICK e : e = Bound(v, Node(Instruction[3]))
  OBVIOUS
<1>1. /\ fate = "parsing" /\ doomed = <<>> /\ Top.code # <<>> /\ Instruction[1] = "let"
      /\ UNCHANGED <<source, nodes, doomed, fate, cause>> /\ Proceed(e)
  BY <1>0 DEF DoLet, Running
<1>2. PICK at, h, P : Sound(stack, nodes, at, h, current) /\ Due(stack, P, at[n], h, Instruction)
  BY <1>1, Setting
<1>3. /\ v \notin at[n].owned /\ Instruction[3] \in at[n].known
      /\ Goes(P, Tail(Top.code), at[n].known \cup {v}, at[n].owned, at[n].gives)
  BY <1>1, <1>2 DEF Due, Obeys, MayLet, Top
<1>4. IsFrame(Top) /\ FrameOK(Top, DOMAIN nodes)
  BY <1>1, KeptFacts
<1>5. /\ at[n].known \subseteq DOMAIN Top.env /\ at[n].owned \subseteq at[n].known
      /\ \A u \in P : Moves(P, u)
  BY <1>2 DEF Due, Top
<1>6. /\ DOMAIN e = DOMAIN Top.env \cup {v} /\ e[v] = Node(Instruction[3])
      /\ \A w \in DOMAIN Top.env : w # v => e[w] = Top.env[w]
  BY <1>0 DEF Bound, Assign
<1>7. Node(Instruction[3]) \in DOMAIN nodes
  BY <1>3, <1>4, <1>5 DEF FrameOK, Node
<1>8. stack' = <<[code |-> Tail(Top.code), env |-> e, handler |-> Top.handler]>> \o Tail(stack)
  BY <1>1, <1>4, Proceeding
<1>9. FrameOK([code |-> Tail(Top.code), env |-> e, handler |-> Top.handler], DOMAIN nodes)
  BY <1>4, <1>6, <1>7 DEF FrameOK
<1>10. Seen'
  BY <1>1, SeenStays
<1>11. /\ at[n].known \cup {v} \subseteq DOMAIN e
       /\ \A w \in at[n].owned : w \in DOMAIN e /\ e[w] = Top.env[w]
  BY <1>3, <1>5, <1>6
<1>12. Goes(P, Tail(Top.code), DOMAIN e, at[n].owned, at[n].gives)
  BY <1>3, <1>11, GoesKnowing
<1> HIDE DEF v
<1>13. Instruction[1] # "new"
  BY <1>1
<1>14. \A u \in P : Moves(P, u)
  BY <1>5
<1>15. \A w \in at[n].owned : w \in DOMAIN e /\ e[w] = Top.env[w]
  BY <1>11
<1>16. PICK p : /\ Fit(p) /\ p.code = Tail(Top.code) /\ p.known \subseteq DOMAIN e
                /\ p.owned = at[n].owned /\ ~p.op /\ p.gives = at[n].gives
  BY <1>12, <1>14, GoesFit DEF FitAt
<1> DEFINE f == [code |-> Tail(Top.code), env |-> e, handler |-> Top.handler]
<1>17. IsFrame(f) /\ f.code = Tail(Top.code) /\ f.env = e
  BY DEF IsFrame
<1>18. FrameOK(f, DOMAIN nodes) /\ stack' = <<f>> \o Tail(stack)
  BY <1>8, <1>9
<1> HIDE DEF f
<1>19. p.known \subseteq DOMAIN f.env /\ \A w \in p.owned : w \in DOMAIN f.env /\ f.env[w] = Top.env[w]
  BY <1>15, <1>16, <1>17
<1>20. QED
  BY <1>1, <1>2, <1>10, <1>13, <1>16, <1>17, <1>18, <1>19, Along

LEMMA LoopStep ==
  ASSUME ParserInv, Loop
  PROVE ParserInv'
<1> DEFINE n == Len(stack)
           c == Tail(Top.code)
           again == Append(Instruction[3], Instruction)
<1>1. /\ fate = "parsing" /\ doomed = <<>> /\ Top.code # <<>> /\ Instruction[1] = "while"
      /\ UNCHANGED <<source, nodes, doomed, fate, cause>>
  BY DEF Loop, Running
<1>2. PICK at, h, P : Sound(stack, nodes, at, h, current) /\ Due(stack, P, at[n], h, Instruction)
  BY <1>1, Setting
<1>3. /\ Goes(P, again \o c, at[n].known, at[n].owned, at[n].gives)
      /\ Goes(P, c, at[n].known, at[n].owned, at[n].gives)
  BY <1>1, <1>2 DEF Due, Obeys, MayLoop, Top
<1>4. IsFrame(Top) /\ FrameOK(Top, DOMAIN nodes)
  BY <1>1, KeptFacts
<1>5. /\ at[n].known \subseteq DOMAIN Top.env /\ at[n].owned \subseteq at[n].known
      /\ \A u \in P : Moves(P, u)
  BY <1>2 DEF Due, Top
<1>6. <<>> \o c = c
  <2>1. Listed(c)
    BY <1>2 DEF Due, Top
  <2>2. QED
    BY <2>1, ListedFacts
<1>7. PICK d : /\ d = again \o c \/ d = c
               /\ stack' = <<[code |-> d, env |-> Top.env, handler |-> Top.handler]>> \o Tail(stack)
  <2>1. \/ Replace([Top EXCEPT !.code = again \o Tail(@)])
        \/ Replace([Top EXCEPT !.code = <<>> \o Tail(@)])
    BY DEF Loop
  <2>2. \A a : [Top EXCEPT !.code = a \o Tail(@)]
                 = [code |-> a \o c, env |-> Top.env, handler |-> Top.handler]
    BY <1>4, FrameCode
  <2>3. QED
    BY <1>6, <2>1, <2>2 DEF Replace
<1>8. Goes(P, d, at[n].known, at[n].owned, at[n].gives)
  BY <1>3, <1>7
<1>9. FrameOK([code |-> d, env |-> Top.env, handler |-> Top.handler], DOMAIN nodes)
  BY <1>4 DEF FrameOK
<1>10. Seen'
  BY <1>1, SeenStays
<1>11. Goes(P, d, DOMAIN Top.env, at[n].owned, at[n].gives)
  BY <1>5, <1>8, GoesKnowing
<1>12. QED
  BY <1>1, <1>2, <1>5, <1>7, <1>9, <1>10, <1>11, Straight

\* A condition that tells of an operator is true of no other token.
LEMMA Told ==
  ASSUME NEW c, Tells(c), Holds(c)
  PROVE current \in Operators
<1>1. c[1] = "current" /\ c[2] \subseteq Operators
  BY DEF Tells
<1>2. Test(c)
  BY <1>1 DEF Holds
<1>3. current \in c[2]
  BY <1>1, <1>2, Zenon DEF Test
<1>4. QED
  BY <1>1, <1>3

LEMMA BranchStep ==
  ASSUME ParserInv, Branch
  PROVE ParserInv'
<1> DEFINE n == Len(stack)
           c == Tail(Top.code)
           i == Instruction
<1>1. fate = "parsing" /\ doomed = <<>> /\ Top.code # <<>> /\ i[1] = "if" /\ UNCHANGED source
  BY DEF Branch, Running
<1>2. Seen' \/ ~(cause' = cause \/ cause = "none")
  BY <1>1, SeenStays
<1>3. cause = "none"
  BY <1>1, KeptFacts
<1>4. CASE ThrowFor("end")
  BY <1>2, <1>3, <1>4, ThrowKeeps
<1>5. CASE ~ThrowFor("end")
  <2> DEFINE taken == IF Holds(i[2]) THEN i[3] ELSE i[4]
  <2>1. Replace([Top EXCEPT !.code = taken \o Tail(@)]) /\ UNCHANGED <<nodes, doomed, fate, cause>>
    BY <1>5 DEF Branch
  <2>2. PICK at, h, P : Sound(stack, nodes, at, h, current) /\ Due(stack, P, at[n], h, Instruction)
    BY <1>1, Setting
  <2>3. MayBranch(P, i, c, at[n].known, at[n].owned, at[n].gives)
    BY <2>2 DEF Due, Obeys, Top
  <2>4. IsFrame(Top) /\ FrameOK(Top, DOMAIN nodes)
    BY <1>1, KeptFacts
  <2>5. /\ at[n].known \subseteq DOMAIN Top.env /\ at[n].owned \subseteq at[n].known
        /\ \A u \in P : Moves(P, u)
    BY <2>2 DEF Due, Top
  <2>6. stack' = <<[code |-> taken \o c, env |-> Top.env, handler |-> Top.handler]>> \o Tail(stack)
    <3>1. [Top EXCEPT !.code = taken \o Tail(@)]
            = [code |-> taken \o c, env |-> Top.env, handler |-> Top.handler]
      BY <2>4, FrameCode
    <3>2. QED
      BY <2>1, <3>1 DEF Replace
  <2>7. FrameOK([code |-> taken \o c, env |-> Top.env, handler |-> Top.handler], DOMAIN nodes)
    BY <2>4 DEF FrameOK
  <2>8. CASE Goes(P, taken \o c, at[n].known, at[n].owned, at[n].gives)
    <3> HIDE DEF taken, c
    <3>1. Goes(P, taken \o c, DOMAIN Top.env, at[n].owned, at[n].gives)
      BY <2>5, <2>8, GoesKnowing
    <3>2. QED
      BY <1>1, <1>2, <1>3, <2>1, <2>2, <2>5, <2>6, <2>7, <3>1, Straight
  <2>9. CASE ~Goes(P, taken \o c, at[n].known, at[n].owned, at[n].gives)
    <3>1. /\ Holds(i[2]) /\ Tells(i[2])
          /\ \E E \in SUBSET at[n].known : Point(i[3] \o c, E, at[n].owned, TRUE, at[n].gives) \in P
      BY <1>1, <2>3, <2>9 DEF MayBranch
    <3>2. PICK E \in SUBSET at[n].known : Point(i[3] \o c, E, at[n].owned, TRUE, at[n].gives) \in P
      BY <3>1
    <3> DEFINE p == Point(i[3] \o c, E, at[n].owned, TRUE, at[n].gives)
               f == [code |-> taken \o c, env |-> Top.env, handler |-> Top.handler]
    <3>3. /\ p.code = taken \o c /\ p.known = E /\ p.owned = at[n].owned /\ p.gives = at[n].gives
      BY <3>1 DEF Point
    <3>4. Fit(p)
      BY <2>5, <3>2 DEF Fit
    <3>5. current' \in Operators
      BY <1>1, <3>1, Told DEF source
    <3>6. IsFrame(f) /\ f.code = taken \o c /\ f.env = Top.env
      BY DEF IsFrame
    <3>7. FrameOK(f, DOMAIN nodes) /\ stack' = <<f>> \o Tail(stack)
      BY <2>6, <2>7
    <3> HIDE DEF p, f, taken, c
    <3>8. QED
      BY <1>1, <1>2, <1>3, <2>1, <2>2, <2>5, <3>2, <3>3, <3>4, <3>5, <3>6, <3>7, Along
  <2>10. QED
    BY <2>8, <2>9
<1>6. QED
  BY <1>4, <1>5

LEMMA Pairs ==
  ASSUME NEW s, NEW ns, NEW at, NEW h, NEW cur, Sound(s, ns, at, h, cur), NEW x \in DOMAIN h
  PROVE x = <<x[1], x[2]>>
<1>1. PICK l, v : x = <<l, v>>
  BY DEF Sound, Owners
<1>2. QED
  BY <1>1

\* What a function that goes on needs, when it knows the variables of its
\* frame and owns the nodes of g.
LEMMA Onwards ==
  ASSUME NEW n, NEW c, NEW e, NEW x, NEW p, NEW h, NEW g, Fit(p), p.code = c,
         p.known \subseteq DOMAIN e, NEW gives, p.gives = gives,
         \A v : <<n, v>> \in DOMAIN g <=> v \in p.owned,
         \A v \in p.owned : v \in DOMAIN e /\ g[<<n, v>>] = e[v],
         \A y : y[1] # n => (y \in DOMAIN g <=> y \in DOMAIN h),
         \A y \in DOMAIN g : y[1] # n => g[y] = h[y],
         \A y \in DOMAIN g : y = <<y[1], y[2]>>
  PROVE Onward(n, [code |-> c, env |-> e, handler |-> x], p, gives, h, g)
<1> DEFINE f == [code |-> c, env |-> e, handler |-> x]
<1>1. IsFrame(f) /\ f.code = c /\ f.env = e
  BY DEF IsFrame
<1> HIDE DEF f
<1>2. \A y \in DOMAIN g : y[1] = n => y = <<n, y[2]>>
  OBVIOUS
<1>3. Onward(n, f, p, gives, h, g)
  BY <1>1, <1>2 DEF Onward
<1>4. QED
  BY <1>3 DEF f

\* What the function on top has when a node is created.
LEMMA Room ==
  ASSUME ParserInv, fate = "parsing", NEW rule \in Rules, NEW v, NEW more, more \in Seq(NodeType),
         DOMAIN more = DOMAIN nodes \cup {Len(nodes) + 1}
  PROVE LET n == Len(nodes) + 1
            e == Bound(v, n)
        IN  /\ DOMAIN e = DOMAIN Top.env \cup {v} /\ e[v] = n
            /\ \A w \in DOMAIN Top.env : w # v => e[w] = Top.env[w]
            /\ FrameOK([code |-> Tail(Top.code), env |-> e, handler |-> Top.handler], DOMAIN more)
<1> DEFINE n == Len(nodes) + 1
<1>1. PICK e : e = Bound(v, n)
  OBVIOUS
<1>2. /\ DOMAIN e = DOMAIN Top.env \cup {v} /\ e[v] = n
      /\ \A w \in DOMAIN Top.env : w # v => e[w] = Top.env[w]
  BY <1>1 DEF Bound, Assign
<1>3. FrameOK(Top, DOMAIN nodes)
  BY KeptFacts
<1>4. FrameOK([code |-> Tail(Top.code), env |-> e, handler |-> Top.handler], DOMAIN more)
  BY <1>2, <1>3 DEF FrameOK
<1>5. QED
  BY <1>1, <1>2, <1>4

\* A variable gets a node of its own.
LEMMA OwnStep ==
  ASSUME ParserInv, fate = "parsing", doomed = <<>>, UNCHANGED <<source, doomed, fate, cause>>,
         NEW at, NEW h, NEW P, NEW n, n = Len(stack), Top.code # <<>>,
         Sound(stack, nodes, at, h, current), Due(stack, P, at[n], h, Instruction),
         NEW v, v \notin at[n].owned, NEW rule \in Rules \ {"freed"},
         Goes(P, Tail(Top.code), at[n].known \cup {v}, at[n].owned \cup {v}, at[n].gives),
         nodes' = Fresh(nodes, rule), Proceed(Bound(v, Len(nodes) + 1)),
         nodes # <<>> \/ v = "module"
  PROVE ParserInv'
<1> DEFINE m == Len(nodes) + 1
           c == Tail(Top.code)
           g == Owning(h, <<n, v>>, m)
<1>1. Frames(stack) /\ stack # <<>> /\ IsFrame(Top) /\ nodes \in Seq(NodeType)
  BY KeptFacts
<1>2. PICK p : /\ Fit(p) /\ p.code = c /\ p.known \subseteq at[n].known \cup {v}
               /\ p.owned = at[n].owned \cup {v} /\ ~p.op /\ p.gives = at[n].gives
  <2> DEFINE D == at[n].known \cup {v}
             O == at[n].owned \cup {v}
  <2>1. \A u \in P : Moves(P, u)
    BY DEF Due
  <2>2. Goes(P, c, D, O, at[n].gives)
    OBVIOUS
  <2> HIDE DEF c, D, O
  <2>3. \E p : FitAt(p, c, D, O, at[n].gives)
    BY <2>1, <2>2, GoesFit
  <2>4. QED
    BY <2>3 DEF FitAt, D, O
<1>3. /\ at[n].known \subseteq DOMAIN Top.env /\ at[n].owned \subseteq at[n].known
      /\ \A w : <<n, w>> \in DOMAIN h <=> w \in at[n].owned
      /\ \A w \in at[n].owned : h[<<n, w>>] = Top.env[w]
  BY DEF Due, Top
<1>4. /\ nodes' \in Seq(NodeType) /\ DOMAIN nodes' = DOMAIN nodes \cup {m} /\ m \in DOMAIN nodes'
      /\ nodes' # <<>>
  <2>1. nodes' \in Seq(NodeType) /\ DOMAIN nodes' = DOMAIN nodes \cup {m} /\ m \in Nat
    BY <1>1, FreshFacts
  <2>2. QED
    BY <2>1
<1>5. PICK e : e = Bound(v, m)
  OBVIOUS
<1>6. /\ DOMAIN e = DOMAIN Top.env \cup {v} /\ e[v] = m
      /\ \A w \in DOMAIN Top.env : w # v => e[w] = Top.env[w]
      /\ FrameOK([code |-> c, env |-> e, handler |-> Top.handler], DOMAIN nodes')
  BY <1>4, <1>5, Room
<1>7. stack' = <<[code |-> c, env |-> e, handler |-> Top.handler]>> \o Tail(stack)
  BY <1>1, <1>5, Proceeding
<1>8. Forest(nodes, h) /\ Rooted(nodes, stack, h)
  BY DEF Sound
<1>9. DOMAIN g = DOMAIN h \cup {<<n, v>>} /\ g[<<n, v>>] = m /\ \A y \in DOMAIN h : y # <<n, v>> => g[y] = h[y]
  BY DEF Owning
<1>10. Forest(nodes', g)
  BY <1>1, <1>3, <1>8, ForestNew
<1>11. <<1, "module">> \in DOMAIN g /\ g[<<1, "module">>] = 1
  <2>1. CASE nodes = <<>>
    <3>1. n = 1 /\ m = 1
      <4>1. n = 1
        BY <1>8, <2>1 DEF Rooted
      <4>2. Len(nodes) = 0
        BY <2>1
      <4>3. QED
        BY <4>1, <4>2
    <3>2. QED
      BY <1>9, <2>1, <3>1
  <2>2. CASE nodes # <<>>
    <3>1. <<1, "module">> \in DOMAIN h /\ h[<<1, "module">>] = 1
      BY <1>8, <2>2 DEF Rooted
    <3>2. <<1, "module">> # <<n, v>>
      BY <1>3, <3>1
    <3>3. QED
      BY <1>9, <3>1, <3>2
  <2>3. QED
    BY <2>1, <2>2
<1> HIDE DEF g, m, c
<1>12. Onward(n, [code |-> c, env |-> e, handler |-> Top.handler], p, at[n].gives, h, g)
  <2>1. \A w : <<n, w>> \in DOMAIN g <=> w \in p.owned
    BY <1>2, <1>3, <1>9
  <2>2. \A w \in p.owned : w \in DOMAIN e /\ g[<<n, w>>] = e[w]
    BY <1>2, <1>3, <1>6, <1>9
  <2>3. \A y : y[1] # n => (y \in DOMAIN g <=> y \in DOMAIN h)
    BY <1>9
  <2>4. \A y \in DOMAIN g : y[1] # n => g[y] = h[y]
    BY <1>9
  <2>5. \A y \in DOMAIN g : y = <<y[1], y[2]>>
    BY <1>9, Pairs
  <2>6. p.known \subseteq DOMAIN e
    BY <1>2, <1>3, <1>6
  <2>7. QED
    BY <1>2, <2>1, <2>2, <2>3, <2>4, <2>5, <2>6, Onwards
<1>13. Rooted(nodes', <<[code |-> c, env |-> e, handler |-> Top.handler]>> \o Tail(stack), g)
  BY <1>4, <1>11 DEF Rooted
<1>14. Seen'
  BY SeenStays
<1>15. ~p.op /\ DOMAIN nodes \subseteq DOMAIN nodes'
  BY <1>2, <1>4
<1>16. QED
  BY <1>4, <1>6, <1>7, <1>10, <1>12, <1>13, <1>14, <1>15, Ahead

LEMMA FreshKidFacts ==
  ASSUME NEW ns \in Seq(NodeType), NEW rule \in Rules, NEW k \in DOMAIN ns
  PROVE LET t == Adopt(Fresh(ns, rule), k, Len(ns) + 1)
        IN  t \in Seq(NodeType) /\ DOMAIN t = DOMAIN ns \cup {Len(ns) + 1} /\ t # <<>>
<1> DEFINE g == Fresh(ns, rule)
           m == Len(ns) + 1
           t == Adopt(g, k, m)
<1>1. g \in Seq(NodeType) /\ DOMAIN g = DOMAIN ns \cup {m} /\ m \in Nat
  BY FreshFacts
<1> HIDE DEF g, m
<1>2. k \in DOMAIN g
  BY <1>1
<1>3. t \in Seq(NodeType) /\ DOMAIN t = DOMAIN g
  BY <1>1, <1>2, AdoptFacts
<1> HIDE DEF t
<1>4. t # <<>>
  BY <1>1, <1>3
<1>5. QED
  BY <1>1, <1>3, <1>4 DEF t, g, m

\* A variable gets a node that is the child of another at once.
LEMMA KidStep ==
  ASSUME ParserInv, fate = "parsing", doomed = <<>>, UNCHANGED <<source, doomed, fate, cause>>,
         NEW at, NEW h, NEW P, NEW n, n = Len(stack), Top.code # <<>>,
         Sound(stack, nodes, at, h, current), Due(stack, P, at[n], h, Instruction),
         NEW v, v \notin at[n].owned, NEW rule \in Rules \ {"freed"}, NEW k \in DOMAIN nodes,
         Goes(P, Tail(Top.code), at[n].known \cup {v}, at[n].owned, at[n].gives),
         nodes' = Adopt(Fresh(nodes, rule), k, Len(nodes) + 1),
         Proceed(Bound(v, Len(nodes) + 1))
  PROVE ParserInv'
<1> DEFINE m == Len(nodes) + 1
           c == Tail(Top.code)
<1>1. Frames(stack) /\ stack # <<>> /\ IsFrame(Top) /\ nodes \in Seq(NodeType)
  BY KeptFacts
<1>2. PICK p : /\ Fit(p) /\ p.code = c /\ p.known \subseteq at[n].known \cup {v}
               /\ p.owned = at[n].owned /\ ~p.op /\ p.gives = at[n].gives
  <2> DEFINE D == at[n].known \cup {v}
  <2>1. \A u \in P : Moves(P, u)
    BY DEF Due
  <2>2. Goes(P, c, D, at[n].owned, at[n].gives)
    OBVIOUS
  <2> HIDE DEF c, D
  <2>3. \E p : FitAt(p, c, D, at[n].owned, at[n].gives)
    BY <2>1, <2>2, GoesFit
  <2>4. QED
    BY <2>3 DEF FitAt, D
<1>3. /\ at[n].known \subseteq DOMAIN Top.env /\ at[n].owned \subseteq at[n].known
      /\ \A w : <<n, w>> \in DOMAIN h <=> w \in at[n].owned
      /\ \A w \in at[n].owned : h[<<n, w>>] = Top.env[w]
  BY DEF Due, Top
<1>4. nodes' \in Seq(NodeType) /\ DOMAIN nodes' = DOMAIN nodes \cup {m} /\ nodes' # <<>>
  BY <1>1, FreshKidFacts
<1>5. PICK e : e = Bound(v, m)
  OBVIOUS
<1>6. /\ DOMAIN e = DOMAIN Top.env \cup {v} /\ e[v] = m
      /\ \A w \in DOMAIN Top.env : w # v => e[w] = Top.env[w]
      /\ FrameOK([code |-> c, env |-> e, handler |-> Top.handler], DOMAIN nodes')
  BY <1>4, <1>5, Room
<1>7. stack' = <<[code |-> c, env |-> e, handler |-> Top.handler]>> \o Tail(stack)
  BY <1>1, <1>5, Proceeding
<1>8. Forest(nodes, h) /\ Rooted(nodes, stack, h)
  BY DEF Sound
<1>9. Forest(nodes', h)
  BY <1>1, <1>8, ForestNewKid
<1>10. <<1, "module">> \in DOMAIN h /\ h[<<1, "module">>] = 1
  <2>1. nodes # <<>>
    OBVIOUS
  <2>2. QED
    BY <1>8, <2>1 DEF Rooted
<1> HIDE DEF m, c
<1>11. Onward(n, [code |-> c, env |-> e, handler |-> Top.handler], p, at[n].gives, h, h)
  <2>1. \A w : <<n, w>> \in DOMAIN h <=> w \in p.owned
    BY <1>2, <1>3
  <2>2. \A w \in p.owned : w \in DOMAIN e /\ h[<<n, w>>] = e[w]
    BY <1>2, <1>3, <1>6
  <2>3. \A y \in DOMAIN h : y = <<y[1], y[2]>>
    BY Pairs
  <2>4. p.known \subseteq DOMAIN e
    BY <1>2, <1>3, <1>6
  <2>5. QED
    BY <1>2, <2>1, <2>2, <2>3, <2>4, Onwards
<1>12. Rooted(nodes', <<[code |-> c, env |-> e, handler |-> Top.handler]>> \o Tail(stack), h)
  BY <1>4, <1>10 DEF Rooted
<1>13. Seen'
  BY SeenStays
<1>14. ~p.op /\ DOMAIN nodes \subseteq DOMAIN nodes'
  BY <1>2, <1>4
<1>15. QED
  BY <1>4, <1>6, <1>7, <1>9, <1>11, <1>12, <1>13, <1>14, Ahead

\* A new node is owned by the function that makes it, or is the child of a
\* node that it knows.
LEMMA NewStep ==
  ASSUME ParserInv, DoNew
  PROVE ParserInv'
<1> DEFINE n == Len(stack)
           i == Instruction
<1>1. /\ fate = "parsing" /\ doomed = <<>> /\ Top.code # <<>> /\ i[1] = "new"
      /\ UNCHANGED <<source, doomed, fate, cause>> /\ Proceed(Bound(i[2], Len(nodes) + 1))
      /\ nodes' = IF i[4] = Nothing THEN Fresh(nodes, i[3])
                  ELSE Adopt(Fresh(nodes, i[3]), Node(i[4]), Len(nodes) + 1)
  BY DEF DoNew, Running, Create, Fresh
<1>2. PICK at, h, P : Sound(stack, nodes, at, h, current) /\ Due(stack, P, at[n], h, i)
  BY <1>1, Setting
<1>3. MayNew(P, i, Tail(Top.code), at[n].known, at[n].owned, at[n].gives)
  BY <1>2 DEF Due, Obeys, Top
<1>4. i[2] \notin at[n].owned /\ i[3] \in Rules \ {"freed"}
  BY <1>1, <1>3 DEF MayNew
<1>5. nodes = <<>> => i = New("module", "MODULE", Nothing)
  <2>1. Frames(stack)
    BY <1>1, KeptFacts
  <2>2. QED
    BY <1>2, <2>1, FirstIsNew DEF Top, Instruction
<1>6. CASE i[4] = Nothing
  <2>1. nodes' = Fresh(nodes, i[3])
    BY <1>1, <1>6
  <2>2. Goes(P, Tail(Top.code), at[n].known \cup {i[2]}, at[n].owned \cup {i[2]}, at[n].gives)
    BY <1>1, <1>3, <1>6 DEF MayNew
  <2>3. nodes # <<>> \/ i[2] = "module"
    BY <1>5 DEF New
  <2>4. QED
    BY <1>1, <1>2, <1>4, <2>1, <2>2, <2>3, OwnStep
<1>7. CASE i[4] # Nothing
  <2>1. nodes' = Adopt(Fresh(nodes, i[3]), Node(i[4]), Len(nodes) + 1)
    BY <1>1, <1>7
  <2>2. /\ i[4] \in at[n].known
        /\ Goes(P, Tail(Top.code), at[n].known \cup {i[2]}, at[n].owned, at[n].gives)
    BY <1>1, <1>3, <1>7 DEF MayNew
  <2>3. FrameOK(Top, DOMAIN nodes)
    BY <1>1, KeptFacts
  <2>4. Node(i[4]) \in DOMAIN nodes
    BY <1>2, <2>2, <2>3 DEF Due, FrameOK, Node, Top
  <2>5. QED
    BY <1>1, <1>2, <1>4, <2>1, <2>2, <2>4, KidStep
<1>8. QED
  BY <1>6, <1>7

LEMMA OperatorRules ==
  ASSUME NEW t \in Operators
  PROVE RuleOf[t] \in Rules \ {"freed"}
<1>1. RuleOf[t] = CASE t = "||" -> "LOGOR" [] t = "&&" -> "LOGAND" [] t = "=" -> "EQUALS"
                    [] t = "!=" -> "NOT_EQUALS" [] t = "<" -> "LESS" [] t = "<=" -> "LESS_EQUALS"
                    [] t = ">" -> "GREATER" [] t = ">=" -> "GREATER_EQUALS" [] t = "+" -> "ADD"
                    [] t = "-" -> "SUB" [] t = "*" -> "MUL" [] t = "/" -> "DIV" [] t = "%" -> "MOD"
                    [] t = "." -> "MEMBER" [] t = "!" -> "LOGNOT"
  BY Zenon DEF RuleOf
<1>2. RuleOf[t] \in {"LOGOR", "LOGAND", "EQUALS", "NOT_EQUALS", "LESS", "LESS_EQUALS", "GREATER",
                     "GREATER_EQUALS", "ADD", "SUB", "MUL", "DIV", "MOD", "MEMBER", "LOGNOT"}
  BY <1>1, Zenon DEF Operators
<1>3. QED
  BY <1>2 DEF Rules, Operand, Binary

LEMMA OperationStep ==
  ASSUME ParserInv, DoOperation
  PROVE ParserInv'
<1> DEFINE n == Len(stack)
           i == Instruction
<1>1. /\ fate = "parsing" /\ doomed = <<>> /\ Top.code # <<>> /\ i[1] = "operation"
      /\ UNCHANGED <<source, doomed, fate, cause>> /\ Proceed(Bound(i[2], Len(nodes) + 1))
      /\ nodes' = Fresh(nodes, RuleOf[current])
  BY DEF DoOperation, Running, Create, Fresh
<1>2. PICK at, h, P : /\ Sound(stack, nodes, at, h, current) /\ Due(stack, P, at[n], h, i)
                      /\ at[n].op => current \in Operators
  BY <1>1, Setting
<1>3. MayOperate(P, i, Tail(Top.code), at[n].known, at[n].owned, at[n].op, at[n].gives)
  BY <1>2 DEF Due, Obeys, Top
<1>4. /\ at[n].op /\ i[2] \notin at[n].owned
      /\ Goes(P, Tail(Top.code), at[n].known \cup {i[2]}, at[n].owned \cup {i[2]}, at[n].gives)
  BY <1>1, <1>3 DEF MayOperate
<1>5. RuleOf[current] \in Rules \ {"freed"}
  BY <1>2, <1>4, OperatorRules
<1>6. nodes # <<>>
  BY <1>1, <1>2, NotFirst
<1>7. QED
  BY <1>1, <1>2, <1>4, <1>5, <1>6, OwnStep

\* A variable gives up its node to a parent.
LEMMA GivenFacts ==
  ASSUME NEW ns \in Seq(NodeType), NEW k \in DOMAIN ns, NEW c \in DOMAIN ns
  PROVE LET t == Adopt(ns, k, c)
        IN  t \in Seq(NodeType) /\ DOMAIN t = DOMAIN ns /\ t # <<>>
<1> DEFINE t == Adopt(ns, k, c)
<1>1. c \in Nat
  OBVIOUS
<1>2. t \in Seq(NodeType) /\ DOMAIN t = DOMAIN ns
  BY <1>1, AdoptFacts
<1> HIDE DEF t
<1>3. t # <<>>
  BY <1>2
<1>4. QED
  BY <1>2, <1>3 DEF t

\* Adopting: the variable gives the node up and the parent has it.
LEMMA AddStep ==
  ASSUME ParserInv, AddChild
  PROVE ParserInv'
<1> DEFINE n == Len(stack)
           i == Instruction
           c == Tail(Top.code)
<1>1. /\ fate = "parsing" /\ doomed = <<>> /\ Top.code # <<>> /\ i[1] = "add"
      /\ UNCHANGED <<source, doomed, fate, cause>> /\ Proceed(Top.env)
      /\ nodes' = Adopt(nodes, Node(i[2]), Node(i[3]))
  BY DEF AddChild, Running
<1>2. PICK at, h, P : Sound(stack, nodes, at, h, current) /\ Due(stack, P, at[n], h, i)
  BY <1>1, Setting
<1>3. MayAdd(P, i, c, at[n].known, at[n].owned, at[n].gives)
  BY <1>2 DEF Due, Obeys, Top
<1>4. /\ i[2] \in at[n].known /\ i[3] \in at[n].owned /\ i[3] # "module"
      /\ Goes(P, c, at[n].known, at[n].owned \ {i[3]}, at[n].gives)
  BY <1>1, <1>3 DEF MayAdd
<1>5. IsFrame(Top) /\ FrameOK(Top, DOMAIN nodes) /\ nodes \in Seq(NodeType)
  BY <1>1, KeptFacts
<1>6. /\ at[n].known \subseteq DOMAIN Top.env /\ at[n].owned \subseteq at[n].known
      /\ \A w : <<n, w>> \in DOMAIN h <=> w \in at[n].owned
      /\ \A w \in at[n].owned : h[<<n, w>>] = Top.env[w]
      /\ \A u \in P : Moves(P, u)
  BY <1>2 DEF Due, Top
<1>7. PICK p : FitAt(p, c, at[n].known, at[n].owned \ {i[3]}, at[n].gives)
  <2> DEFINE O == at[n].owned \ {i[3]}
  <2>1. Goes(P, c, at[n].known, O, at[n].gives)
    BY <1>4
  <2> HIDE DEF O, c
  <2>2. \E p : FitAt(p, c, at[n].known, O, at[n].gives)
    BY <1>6, <2>1, GoesFit
  <2>3. QED
    BY <2>2 DEF O
<1>8. PICK x : x = <<n, i[3]>>
  OBVIOUS
<1>9. x \in DOMAIN h /\ h[x] = Node(i[3])
  BY <1>4, <1>6, <1>8 DEF Node
<1>10. Node(i[2]) \in DOMAIN nodes /\ Node(i[3]) \in DOMAIN nodes
  BY <1>4, <1>5, <1>6 DEF FrameOK, Node
<1>11. Forest(nodes, h) /\ Rooted(nodes, stack, h)
  BY <1>2 DEF Sound
<1>12. PICK g : g = Without(h, x)
  OBVIOUS
<1>13. Forest(nodes', g)
  <2>1. nodes' = Adopt(nodes, Node(i[2]), h[x])
    BY <1>1, <1>9
  <2>2. Forest(Adopt(nodes, Node(i[2]), h[x]), Without(h, x))
    BY <1>5, <1>9, <1>10, <1>11, ForestAdd
  <2>3. QED
    BY <1>12, <2>1, <2>2
<1>14. DOMAIN g = DOMAIN h \ {x} /\ \A y \in DOMAIN g : g[y] = h[y]
  BY <1>12 DEF Without
<1>15. nodes' \in Seq(NodeType) /\ DOMAIN nodes' = DOMAIN nodes /\ nodes' # <<>>
  BY <1>1, <1>5, <1>10, GivenFacts
<1>16. <<1, "module">> \in DOMAIN g /\ g[<<1, "module">>] = 1
  <2>1. nodes # <<>>
    BY <1>1, <1>2, NotFirst
  <2>2. <<1, "module">> \in DOMAIN h /\ h[<<1, "module">>] = 1
    BY <1>11, <2>1 DEF Rooted
  <2>3. <<1, "module">> # x
    BY <1>4, <1>8
  <2>4. QED
    BY <1>14, <2>2, <2>3
<1> DEFINE f == [code |-> c, env |-> Top.env, handler |-> Top.handler]
<1>17. stack' = <<f>> \o Tail(stack)
  BY <1>1, <1>5, Proceeding
<1>18. FrameOK(f, DOMAIN nodes')
  BY <1>5, <1>15 DEF FrameOK
<1>19. p.code = c /\ Fit(p) /\ p.gives = at[n].gives /\ ~p.op /\ p.known \subseteq DOMAIN Top.env
       /\ p.owned = at[n].owned \ {i[3]}
  BY <1>6, <1>7 DEF FitAt
<1> HIDE DEF c
<1>20. Onward(n, f, p, at[n].gives, h, g)
  <2>1. \A w : <<n, w>> \in DOMAIN g <=> w \in p.owned
    BY <1>6, <1>8, <1>14, <1>19
  <2>2. \A w \in p.owned : w \in DOMAIN Top.env /\ g[<<n, w>>] = Top.env[w]
    BY <1>6, <1>14, <1>19, <2>1
  <2>3. \A y : y[1] # n => (y \in DOMAIN g <=> y \in DOMAIN h)
    BY <1>8, <1>14
  <2>4. \A y \in DOMAIN g : y[1] # n => g[y] = h[y]
    BY <1>14
  <2>5. \A y \in DOMAIN g : y = <<y[1], y[2]>>
    BY <1>2, <1>14, Pairs
  <2>6. QED
    BY <1>19, <2>1, <2>2, <2>3, <2>4, <2>5, Onwards
<1> HIDE DEF f
<1>21. Rooted(nodes', <<f>> \o Tail(stack), g)
  BY <1>15, <1>16 DEF Rooted
<1>22. Seen'
  BY <1>1, SeenStays
<1>23. QED
  BY <1>1, <1>2, <1>13, <1>15, <1>17, <1>18, <1>19, <1>20, <1>21, <1>22, Ahead

\* What is deleted belonged to a variable: it is in no other tree.
LEMMA DeleteStep ==
  ASSUME ParserInv, DoDelete
  PROVE ParserInv'
<1> DEFINE n == Len(stack)
           i == Instruction
           c == Tail(Top.code)
           f == [code |-> c, env |-> Top.env, handler |-> Top.handler]
<1>1. /\ fate = "parsing" /\ doomed = <<>> /\ Top.code # <<>> /\ i[1] = "delete"
      /\ UNCHANGED <<source, nodes, fate, cause>> /\ Proceed(Top.env)
      /\ doomed' = <<Node(i[2])>>
  BY DEF DoDelete, Running
<1>2. PICK at, h, P : Sound(stack, nodes, at, h, current) /\ Due(stack, P, at[n], h, i)
  BY <1>1, Setting
<1>3. i[2] \in at[n].owned /\ c # <<>> /\ Head(c)[1] = "throw"
  BY <1>1, <1>2 DEF Due, Obeys, MayDelete, Top
<1>4. Frames(stack) /\ stack # <<>> /\ IsFrame(Top) /\ FrameOK(Top, DOMAIN nodes)
  BY <1>1, KeptFacts
<1>5. <<n, i[2]>> \in DOMAIN h /\ h[<<n, i[2]>>] = Node(i[2])
  BY <1>2, <1>3 DEF Due, Node, Top
<1>6. Forest(nodes, h)
  BY <1>2 DEF Sound
<1>7. Node(i[2]) \in DOMAIN nodes /\ ~Kid(nodes, Node(i[2]))
  BY <1>5, <1>6 DEF Forest
<1>8. stack' = <<f>> \o Tail(stack)
  BY <1>1, <1>4, Proceeding
<1>9. IsFrame(f) /\ f.code = c /\ f.env = Top.env /\ f.handler = Top.handler
  BY DEF IsFrame
<1>10. FrameOK(f, DOMAIN nodes)
  BY <1>4, <1>9 DEF FrameOK
<1> HIDE DEF f, c
<1>11. /\ Frames(stack') /\ stack' # <<>> /\ DOMAIN stack' = DOMAIN stack /\ stack'[1] = f
       /\ \A j \in DOMAIN stack \ {1} : stack'[j] = stack[j]
  BY <1>4, <1>8, <1>9, ReplaceFacts
<1>12. Kept'
  <2>1. \A j \in DOMAIN stack' : FrameOK(stack'[j], DOMAIN nodes)
    BY <1>10, <1>11 DEF ParserInv, Kept
  <2>2. doomed' \in Seq(DOMAIN nodes)
    BY <1>1, <1>7
  <2>3. QED
    BY <1>1, <1>11, <2>1, <2>2 DEF ParserInv, Kept
<1>13. Fates' /\ fate' = "parsing"
  BY <1>1, <1>11 DEF ParserInv, Fates
<1>14. Clearing(nodes, doomed')
  <2>1. KidsOnce(nodes)
    BY <1>6 DEF Forest
  <2>2. \A m \in DOMAIN nodes : nodes[m].rule # "freed"
    BY <1>6 DEF Forest, NoneFreed
  <2>3. \A p \in DOMAIN nodes : \A j \in DOMAIN nodes[p].kids : nodes[nodes[p].kids[j]].rule # "freed"
    BY <1>6, <2>2 DEF Forest, KidsIn
  <2>4. DOMAIN doomed' = {1} /\ doomed'[1] = Node(i[2])
    BY <1>1
  <2>5. QED
    BY <1>7, <2>1, <2>2, <2>3, <2>4 DEF Clearing
<1>15. Head(stack') = f
  BY <1>4, <1>11, StackFacts
<1>16. Dying'
  BY <1>1, <1>3, <1>9, <1>14, <1>15 DEF Dying, Top, Instruction
<1>17. Seen'
  BY <1>1, SeenStays
<1>18. QED
  BY <1>12, <1>13, <1>16, <1>17 DEF ParserInv, Working

\* A throw ends the parsing, in the middle of a deletion too.
LEMMA ThrowStep ==
  ASSUME ParserInv, DoThrow
  PROVE ParserInv'
<1>1. fate = "parsing" /\ UNCHANGED source /\ ThrowFor("syntax")
  BY DEF DoThrow, Running
<1>2. cause = "none"
  BY <1>1, KeptFacts
<1>3. Seen'
  BY <1>1, <1>2, SeenStays
<1>4. QED
  BY <1>1, <1>3, ThrowKeeps

\* Deleting a node makes its children the next to be deleted.
LEMMA FreedFacts ==
  ASSUME NEW ns \in Seq(NodeType), KidsIn(ns), NEW n \in DOMAIN ns
  PROVE LET t == [ns EXCEPT ![n] = Freed]
        IN  /\ t \in Seq(NodeType) /\ DOMAIN t = DOMAIN ns /\ KidsIn(t)
            /\ t[n].rule = "freed" /\ DOMAIN t[n].kids = {}
            /\ \A m \in DOMAIN ns \ {n} : t[m] = ns[m]
<1> DEFINE t == [ns EXCEPT ![n] = Freed]
<1>1. Freed \in NodeType /\ Freed.rule = "freed" /\ DOMAIN Freed.kids = {}
  BY DEF Freed, NodeType, Rules
<1>2. t \in Seq(NodeType) /\ DOMAIN t = DOMAIN ns /\ t[n] = Freed
  BY <1>1
<1>3. \A m \in DOMAIN ns \ {n} : t[m] = ns[m]
  OBVIOUS
<1> HIDE DEF t
<1>4. KidsIn(t)
  BY <1>1, <1>2, <1>3 DEF KidsIn
<1>5. QED
  BY <1>1, <1>2, <1>3, <1>4 DEF t

\* The queue of nodes to free, with the children of the first put in its place.
LEMMA QueueFacts ==
  ASSUME NEW ns \in Seq(NodeType), KidsIn(ns), NEW gone \in Seq(DOMAIN ns), gone # <<>>
  PROVE LET n == Head(gone)
            kids == ns[n].kids
            d == kids \o Tail(gone)
        IN  /\ n \in DOMAIN ns /\ n = gone[1] /\ 1 \in DOMAIN gone
            /\ d \in Seq(DOMAIN ns)
            /\ \A i \in DOMAIN d :
                 \/ i \in DOMAIN kids /\ d[i] = kids[i]
                 \/ /\ i - Len(kids) + 1 \in DOMAIN gone \ {1}
                    /\ d[i] = gone[i - Len(kids) + 1]
            /\ Len(kids) \in Nat /\ \A i \in DOMAIN d : i \in Nat
<1> DEFINE n == Head(gone)
           kids == ns[n].kids
           d == kids \o Tail(gone)
<1>1. /\ n \in DOMAIN ns /\ n = gone[1] /\ 1 \in DOMAIN gone /\ Len(gone) \in Nat \ {0}
      /\ DOMAIN gone = 1 .. Len(gone)
  OBVIOUS
<1>2. kids \in Seq(DOMAIN ns)
  <2>1. ns[n] \in NodeType
    BY <1>1
  <2>2. kids \in Seq(Nat)
    BY <2>1 DEF NodeType
  <2>3. \A i \in DOMAIN kids : kids[i] \in DOMAIN ns
    BY <1>1 DEF KidsIn
  <2> HIDE DEF kids
  <2>4. QED
    BY <2>2, <2>3
<1>3. /\ Tail(gone) \in Seq(DOMAIN ns) /\ Len(Tail(gone)) = Len(gone) - 1
      /\ \A i \in 1 .. Len(gone) - 1 : Tail(gone)[i] = gone[i + 1]
  BY <1>1
<1> HIDE DEF kids, n
<1>4. d \in Seq(DOMAIN ns) /\ Len(d) = Len(kids) + (Len(gone) - 1) /\ Len(kids) \in Nat
  BY <1>2, <1>3
<1>5. ASSUME NEW i \in DOMAIN d
      PROVE /\ i \in Nat
            /\ \/ i \in DOMAIN kids /\ d[i] = kids[i]
               \/ /\ i - Len(kids) + 1 \in DOMAIN gone \ {1}
                  /\ d[i] = gone[i - Len(kids) + 1]
  <2>1. i \in 1 .. Len(kids) + (Len(gone) - 1)
    BY <1>4
  <2>2. CASE i <= Len(kids)
    BY <1>1, <1>2, <1>3, <1>4, <2>1, <2>2
  <2>3. CASE i > Len(kids)
    <3>1. d[i] = Tail(gone)[i - Len(kids)]
      BY <1>1, <1>2, <1>3, <1>4, <2>1, <2>3
    <3>2. i - Len(kids) \in 1 .. Len(gone) - 1
      BY <1>1, <1>4, <2>1, <2>3
    <3>3. QED
      BY <1>1, <1>3, <1>4, <2>1, <3>1, <3>2
  <2>4. i \in Nat /\ (i <= Len(kids) \/ i > Len(kids))
    BY <1>1, <1>4, <2>1
  <2>5. QED
    BY <2>2, <2>3, <2>4
<1>6. QED
  BY <1>1, <1>4, <1>5 DEF n, kids

\* To free a node frees none twice: its children were its own alone.
LEMMA ClearingStep ==
  ASSUME NEW ns \in Seq(NodeType), KidsIn(ns), NEW gone \in Seq(DOMAIN ns), gone # <<>>,
         Clearing(ns, gone)
  PROVE LET n == Head(gone)
        IN  /\ ns[n] # Freed
            /\ Clearing([ns EXCEPT ![n] = Freed], ns[n].kids \o Tail(gone))
<1> DEFINE n == Head(gone)
           kids == ns[n].kids
           d == kids \o Tail(gone)
           t == [ns EXCEPT ![n] = Freed]
           k == Len(kids)
<1>1. /\ n \in DOMAIN ns /\ n = gone[1] /\ 1 \in DOMAIN gone
      /\ \A i \in DOMAIN d : \/ i \in DOMAIN kids /\ d[i] = kids[i]
                             \/ i - k + 1 \in DOMAIN gone \ {1} /\ d[i] = gone[i - k + 1]
      /\ k \in Nat /\ \A i \in DOMAIN d : i \in Nat
      /\ d \in Seq(DOMAIN ns)
  BY QueueFacts
<1>2. /\ DOMAIN t = DOMAIN ns /\ t[n].rule = "freed" /\ DOMAIN t[n].kids = {}
      /\ \A m \in DOMAIN ns \ {n} : t[m] = ns[m]
  BY <1>1, FreedFacts
<1>3. kids = ns[n].kids
  OBVIOUS
<1> HIDE DEF kids, d, t, n, k
<1>4. ns[n].rule # "freed" /\ ~Kid(ns, n)
  BY <1>1 DEF Clearing
<1>5. ns[n] # Freed
  BY <1>4 DEF Freed
<1>6. \A p \in DOMAIN t : \A i \in DOMAIN t[p].kids :
        p \in DOMAIN ns \ {n} /\ i \in DOMAIN ns[p].kids /\ t[p].kids[i] = ns[p].kids[i]
  BY <1>2
<1>7. KidsOnce(t)
  <2>1. SUFFICES ASSUME NEW p \in DOMAIN t, NEW q \in DOMAIN t, NEW i \in DOMAIN t[p].kids,
                        NEW j \in DOMAIN t[q].kids, t[p].kids[i] = t[q].kids[j]
                 PROVE p = q /\ i = j
    BY DEF KidsOnce
  <2>2. /\ p \in DOMAIN ns /\ i \in DOMAIN ns[p].kids /\ q \in DOMAIN ns /\ j \in DOMAIN ns[q].kids
        /\ ns[p].kids[i] = ns[q].kids[j]
    BY <1>6, <2>1
  <2>3. \A a, b \in DOMAIN ns : \A e \in DOMAIN ns[a].kids : \A f \in DOMAIN ns[b].kids :
          ns[a].kids[e] = ns[b].kids[f] => a = b /\ e = f
    BY DEF Clearing, KidsOnce
  <2>4. QED
    BY <2>2, <2>3
<1>8. \A m : Kid(t, m) => Kid(ns, m)
  BY <1>6 DEF Kid
<1>9. \A i \in DOMAIN kids : ns[kids[i]].rule # "freed" /\ kids[i] # n /\ Kid(ns, kids[i])
  BY <1>1, <1>3, <1>4 DEF Clearing, Kid
<1>10. \A i \in DOMAIN kids : ~Kid(t, kids[i])
  <2>1. SUFFICES ASSUME NEW i \in DOMAIN kids, NEW p \in DOMAIN t, NEW j \in DOMAIN t[p].kids,
                        t[p].kids[j] = kids[i]
                 PROVE FALSE
    BY DEF Kid
  <2>2. p \in DOMAIN ns \ {n} /\ j \in DOMAIN ns[p].kids /\ ns[p].kids[j] = ns[n].kids[i]
    BY <1>3, <1>6, <2>1
  <2>3. \A a, b \in DOMAIN ns : \A e \in DOMAIN ns[a].kids : \A f \in DOMAIN ns[b].kids :
          ns[a].kids[e] = ns[b].kids[f] => a = b /\ e = f
    BY DEF Clearing, KidsOnce
  <2>4. QED
    BY <1>1, <1>3, <2>2, <2>3
<1>11. \A i \in DOMAIN gone \ {1} : /\ gone[i] # n /\ ns[gone[i]].rule # "freed" /\ ~Kid(ns, gone[i])
                                    /\ gone[i] \in DOMAIN ns
  BY <1>1 DEF Clearing
<1>12. ASSUME NEW i \in DOMAIN d PROVE t[d[i]].rule # "freed" /\ ~Kid(t, d[i])
  <2>1. d[i] \in DOMAIN ns
    BY <1>1
  <2>2. CASE i \in DOMAIN kids /\ d[i] = kids[i]
    BY <1>2, <1>9, <1>10, <2>1, <2>2
  <2>3. CASE i - k + 1 \in DOMAIN gone \ {1} /\ d[i] = gone[i - k + 1]
    BY <1>2, <1>8, <1>11, <2>1, <2>3
  <2>4. QED
    BY <1>1, <2>2, <2>3
<1>13. ASSUME NEW i \in DOMAIN d, NEW j \in DOMAIN d, d[i] = d[j] PROVE i = j
  <2>1. CASE i \in DOMAIN kids /\ d[i] = kids[i]
    <3>1. CASE j \in DOMAIN kids /\ d[j] = kids[j]
      <4>1. \A a, b \in DOMAIN ns : \A e \in DOMAIN ns[a].kids : \A f \in DOMAIN ns[b].kids :
              ns[a].kids[e] = ns[b].kids[f] => a = b /\ e = f
        BY DEF Clearing, KidsOnce
      <4>2. kids[i] = kids[j]
        BY <1>13, <2>1, <3>1
      <4>3. QED
        BY <1>1, <1>3, <2>1, <3>1, <4>1, <4>2
    <3>2. CASE j - k + 1 \in DOMAIN gone \ {1} /\ d[j] = gone[j - k + 1]
      BY <1>9, <1>11, <1>13, <2>1, <3>2
    <3>3. QED
      BY <1>1, <3>1, <3>2
  <2>2. CASE i - k + 1 \in DOMAIN gone \ {1} /\ d[i] = gone[i - k + 1]
    <3>1. CASE j \in DOMAIN kids /\ d[j] = kids[j]
      BY <1>9, <1>11, <1>13, <2>2, <3>1
    <3>2. CASE j - k + 1 \in DOMAIN gone \ {1} /\ d[j] = gone[j - k + 1]
      <4>1. \A a, b \in DOMAIN gone : gone[a] = gone[b] => a = b
        BY DEF Clearing
      <4>2. i - k + 1 = j - k + 1
        BY <1>13, <2>2, <3>2, <4>1
      <4>3. QED
        BY <1>1, <4>2
    <3>3. QED
      BY <1>1, <3>1, <3>2
  <2>3. QED
    BY <1>1, <2>1, <2>2
<1>14. \A p \in DOMAIN t : \A i \in DOMAIN t[p].kids : t[t[p].kids[i]].rule # "freed"
  <2>1. SUFFICES ASSUME NEW p \in DOMAIN t, NEW i \in DOMAIN t[p].kids
                 PROVE t[t[p].kids[i]].rule # "freed"
    OBVIOUS
  <2>2. p \in DOMAIN ns /\ i \in DOMAIN ns[p].kids /\ t[p].kids[i] = ns[p].kids[i]
    BY <1>6
  <2>3. ns[p].kids[i] \in DOMAIN ns \ {n} /\ ns[ns[p].kids[i]].rule # "freed"
    BY <1>4, <2>2 DEF Clearing, Kid, KidsIn
  <2>4. QED
    BY <1>2, <2>2, <2>3
<1>15. Clearing(t, d)
  BY <1>7, <1>12, <1>13, <1>14 DEF Clearing
<1>16. QED
  BY <1>5, <1>15 DEF n, d, t, kids

\* While Parse runs nothing is freed twice; once an exception is on its way the
\* invariant no longer says who owns what.
LEMMA FreeStep ==
  ASSUME ParserInv, FreeNode
  PROVE ParserInv'
<1>1. doomed # <<>> /\ fate # "freed twice" /\ UNCHANGED <<source, stack, cause>>
  BY DEF FreeNode
<1>2. nodes \in Seq(NodeType) /\ KidsIn(nodes) /\ doomed \in Seq(DOMAIN nodes)
  BY DEF ParserInv, Kept
<1>3. fate # "returned"
  BY <1>1 DEF ParserInv
<1>4. Seen'
  BY <1>1 DEF ParserInv, Seen, source
<1>5. fate = "parsing" => Dying
  BY <1>1 DEF ParserInv, Working
<1> DEFINE n == Head(doomed)
<1>6. CASE nodes[n] = Freed
  <2>1. fate' = "freed twice" /\ UNCHANGED <<nodes, doomed>>
    BY <1>6 DEF FreeNode
  <2>2. fate # "parsing"
    BY <1>1, <1>2, <1>5, <1>6, ClearingStep DEF Dying
  <2>3. Fates'
    BY <1>1, <2>1, <2>2 DEF ParserInv, Fates
  <2>4. Kept'
    BY <1>1, <2>1 DEF ParserInv, Kept
  <2>5. QED
    BY <1>4, <2>1, <2>3, <2>4 DEF ParserInv
<1>7. CASE nodes[n] # Freed
  <2>1. /\ doomed' = nodes[n].kids \o Tail(doomed) /\ nodes' = [nodes EXCEPT ![n] = Freed]
        /\ fate' = fate
    BY <1>7 DEF FreeNode
  <2>2. n \in DOMAIN nodes /\ doomed' \in Seq(DOMAIN nodes)
    BY <1>1, <1>2, <2>1, QueueFacts
  <2>3. nodes' \in Seq(NodeType) /\ DOMAIN nodes' = DOMAIN nodes /\ KidsIn(nodes')
    BY <1>2, <2>1, <2>2, FreedFacts
  <2> HIDE DEF n
  <2>4. Kept'
    BY <1>1, <2>2, <2>3 DEF ParserInv, Kept
  <2>5. Fates'
    BY <1>1, <2>1 DEF ParserInv, Fates
  <2>6. fate' = "parsing" => Dying'
    <3>1. SUFFICES ASSUME fate = "parsing" PROVE Dying'
      BY <2>1
    <3>2. Clearing(nodes', doomed')
      BY <1>1, <1>2, <1>5, <2>1, <3>1, ClearingStep DEF Dying, n
    <3>3. QED
      BY <1>1, <1>5, <3>1, <3>2 DEF Dying, Top, Instruction
  <2>7. QED
    BY <1>3, <1>4, <2>1, <2>4, <2>5, <2>6 DEF ParserInv, Working
<1>8. QED
  BY <1>6, <1>7

\* The exception passes one function, or has passed the last.
LEMMA UnwindStep ==
  ASSUME ParserInv, Unwind
  PROVE ParserInv'
<1>1. /\ fate = "throwing" /\ doomed = <<>> /\ UNCHANGED <<source, nodes, cause>>
  BY DEF Unwind
<1>2. /\ nodes \in Seq(NodeType) /\ KidsIn(nodes) /\ Frames(stack)
      /\ \A i \in DOMAIN stack : FrameOK(stack[i], DOMAIN nodes)
  BY DEF ParserInv, Kept
<1>3. Seen'
  BY <1>1 DEF ParserInv, Seen, source
<1>4. CASE stack = <<>>
  <2>1. fate' = "threw" /\ UNCHANGED <<stack, doomed>>
    BY <1>4 DEF Unwind
  <2>2. Kept'
    BY <1>1, <2>1 DEF ParserInv, Kept
  <2>3. Fates'
    BY <1>1, <1>4, <2>1 DEF ParserInv, Fates
  <2>4. QED
    BY <1>3, <2>1, <2>2, <2>3 DEF ParserInv
<1>5. CASE stack # <<>>
  <2>1. /\ doomed' = IF Top.handler = Nothing THEN <<>> ELSE <<Node(Top.handler)>>
        /\ stack' = Tail(stack) /\ fate' = fate
    BY <1>5 DEF Unwind
  <2>2. FrameOK(Top, DOMAIN nodes)
    BY <1>2, <1>5, StackFacts DEF Top
  <2>3. doomed' \in Seq(DOMAIN nodes)
    <3>1. CASE Top.handler = Nothing
      BY <2>1, <3>1
    <3>2. CASE Top.handler # Nothing
      <4>1. Node(Top.handler) \in DOMAIN nodes
        BY <2>2, <3>2 DEF FrameOK, Node
      <4>2. doomed' = <<Node(Top.handler)>>
        BY <2>1, <3>2
      <4>3. QED
        BY <4>1, <4>2
    <3>3. QED
      BY <3>1, <3>2
  <2>4. /\ Frames(stack')
        /\ \A i \in DOMAIN stack' : i + 1 \in DOMAIN stack /\ stack'[i] = stack[i + 1]
    BY <1>2, <1>5, <2>1, TailFacts
  <2>5. \A i \in DOMAIN stack' : FrameOK(stack'[i], DOMAIN nodes)
    BY <1>2, <2>4
  <2>6. Kept'
    BY <1>1, <1>2, <2>3, <2>4, <2>5 DEF Kept
  <2>7. cause # "none" /\ Fates'
    BY <1>1, <1>5, <2>1 DEF ParserInv, Fates
  <2>8. QED
    BY <1>1, <1>3, <2>1, <2>6, <2>7 DEF ParserInv
<1>6. QED
  BY <1>4, <1>5

LEMMA Stuttering ==
  ASSUME ParserInv, UNCHANGED vars
  PROVE ParserInv'
<1>1. UNCHANGED <<current, next, nodes, stack, doomed, fate, cause>>
  BY DEF vars, source
<1>2. Seen' /\ Kept' /\ Fates'
  BY <1>1 DEF ParserInv, Seen, Kept, Fates
<1>3. Working => Working'
  BY <1>1 DEF Working, Dying, Top, Instruction
<1>4. QED
  BY <1>1, <1>2, <1>3 DEF ParserInv

-----------------------------------------------------------------------------
\* A function is called: the caller waits at q, the callee starts at p.
Called(at, n, q, p) == [l \in 1 .. n + 1 |-> IF l = n + 1 THEN p ELSE IF l = n THEN q ELSE at[l]]

\* When a function is called, the caller waits and the callee is at its entry:
\* the parser is still sound if they own different nodes.
LEMMA CallSound ==
  ASSUME NEW s, Frames(s), NEW ns, NEW at, NEW h, NEW cur, Sound(s, ns, at, h, cur),
         NEW n, n = Len(s), NEW f, IsFrame(f),
         NEW p, Fit(p), p.code = f.code, p.known \subseteq DOMAIN f.env, ~p.op,
         NEW q, Fit(q), q.gives = at[n].gives, NEW g, Waits(Head(s), q, p.gives, g, n),
         \A v : <<n + 1, v>> \in DOMAIN g <=> v \in p.owned,
         \A x \in DOMAIN g : \/ x \in DOMAIN h /\ g[x] = h[x]
                            \/ \E v \in DOMAIN f.env : x = <<n + 1, v>> /\ g[x] = f.env[v],
         \A l \in 1 .. n - 1 : \A v : <<l, v>> \in DOMAIN g <=> <<l, v>> \in DOMAIN h,
         Forest(ns, g), ns # <<>>, <<1, "module">> \in DOMAIN g, g[<<1, "module">>] = 1
  PROVE Sound(<<f>> \o s, ns, Called(at, n, q, p), g, cur)
<1>0. PICK t : t = <<f>> \o s
  OBVIOUS
<1> DEFINE to == Called(at, n, q, p)
<1>1. /\ n \in Nat /\ n > 0 /\ s # <<>> /\ FrameAt(s, n) = Head(s)
  BY StackFacts DEF Sound
<1>2. /\ Frames(t) /\ Len(t) = n + 1 /\ t # <<>> /\ FrameAt(t, n + 1) = f
      /\ \A l \in 1 .. n : FrameAt(t, l) = FrameAt(s, l)
  <2>1. Pushing(s, f, t)
    BY <1>0 DEF Pushing
  <2>2. QED
    BY <2>1, PushFacts DEF Pushed
<1>3. /\ to[n + 1] = p /\ to[n] = q /\ \A l \in 1 .. n - 1 : to[l] = at[l]
  BY <1>1 DEF Called
<1> HIDE DEF to
<1>4. to[1].gives
  <2>1. at[1].gives
    BY DEF Sound
  <2>2. n = 1 \/ 1 \in 1 .. n - 1
    BY <1>1
  <2>3. QED
    BY <1>3, <2>1, <2>2
<1>5. \A l \in 1 .. n + 1 : Fit(to[l])
  <2>1. SUFFICES ASSUME NEW l \in 1 .. n + 1 PROVE Fit(to[l])
    OBVIOUS
  <2>2. l = n + 1 \/ l = n \/ l \in 1 .. n - 1
    BY <1>1
  <2>3. l \in 1 .. n - 1 => Fit(at[l])
    BY <1>1 DEF Sound
  <2>4. QED
    BY <1>3, <2>2, <2>3
<1>6. AtTop(FrameAt(t, n + 1), to[n + 1], g, n + 1, cur)
  BY <1>2, <1>3 DEF AtTop
<1>7. ASSUME NEW l \in 1 .. n PROVE Waits(FrameAt(t, l), to[l], to[l + 1].gives, g, l)
  <2>1. CASE l = n
    BY <1>1, <1>2, <1>3, <2>1
  <2>2. CASE l # n
    <3>1. l \in 1 .. n - 1 /\ (l + 1 = n \/ l + 1 \in 1 .. n - 1)
      BY <1>1, <2>2
    <3>2. to[l + 1].gives = at[l + 1].gives /\ to[l] = at[l]
      BY <1>3, <3>1
    <3>3. Waits(FrameAt(s, l), at[l], at[l + 1].gives, h, l)
      BY <3>1 DEF Sound
    <3>4. FrameAt(t, l) = FrameAt(s, l) /\ \A v : <<l, v>> \in DOMAIN g <=> <<l, v>> \in DOMAIN h
      BY <1>2, <3>1
    <3>5. QED
      BY <3>2, <3>3, <3>4 DEF Waits
  <2>3. QED
    BY <2>1, <2>2
<1>8. Owners(t, g)
  <2>1. SUFFICES ASSUME NEW x \in DOMAIN g
                 PROVE \E l \in 1 .. n + 1 : \E v \in DOMAIN FrameAt(t, l).env :
                         x = <<l, v>> /\ g[x] = FrameAt(t, l).env[v]
    BY <1>2 DEF Owners
  <2>2. CASE x \in DOMAIN h /\ g[x] = h[x]
    <3>1. PICK l \in 1 .. n : \E v \in DOMAIN FrameAt(s, l).env : x = <<l, v>> /\ h[x] = FrameAt(s, l).env[v]
      BY <2>2 DEF Sound, Owners
    <3>2. FrameAt(t, l) = FrameAt(s, l) /\ l \in 1 .. n + 1
      BY <1>1, <1>2
    <3>3. QED
      BY <2>2, <3>1, <3>2
  <2>3. CASE \E v \in DOMAIN f.env : x = <<n + 1, v>> /\ g[x] = f.env[v]
    <3>1. n + 1 \in 1 .. n + 1
      BY <1>1
    <3>2. QED
      BY <1>2, <2>3, <3>1
  <2>4. QED
    BY <2>2, <2>3
<1>9. Rooted(ns, t, g)
  BY DEF Rooted
<1>10. (n + 1) - 1 = n
  BY <1>1
<1>11. QED
  BY <1>0, <1>2, <1>4, <1>5, <1>6, <1>7, <1>8, <1>9, <1>10 DEF Sound, to

Owned(ns, g) == Forest(ns, g) /\ <<1, "module">> \in DOMAIN g /\ g[<<1, "module">>] = 1

\* A function returns: its caller goes on from where it waited, with what
\* the function owned.
HandedBack(m, n, p, e, h, g) ==
  /\ \A v : <<m, v>> \in DOMAIN g <=> v \in p.owned
  /\ \A x \in DOMAIN g : \/ x \in DOMAIN h /\ g[x] = h[x] /\ x[1] # m /\ x[1] # n
                         \/ \E v \in DOMAIN e : x = <<m, v>> /\ g[x] = e[v]
  /\ \A l \in 1 .. m - 1 : \A v : <<l, v>> \in DOMAIN g <=> <<l, v>> \in DOMAIN h

\* When a function returns, its caller goes on with what it waited for.
LEMMA ResumeSound ==
  ASSUME NEW s, Frames(s), NEW ns, NEW at, NEW h, NEW cur, Sound(s, ns, at, h, cur),
         NEW n, n = Len(s), NEW m, m = n - 1, m > 0, NEW f, IsFrame(f),
         f.code = at[m].code, ~at[m].op, at[m].known \subseteq DOMAIN f.env,
         NEW g, HandedBack(m, n, at[m], f.env, h, g), ns # <<>>, Owned(ns, g)
  PROVE Sound(<<f>> \o Tail(Tail(s)), ns, [l \in 1 .. m |-> at[l]], g, cur)
<1>0. PICK t : t = <<f>> \o Tail(Tail(s))
  OBVIOUS
<1> DEFINE to == [l \in 1 .. m |-> at[l]]
<1>1. n \in Nat /\ m \in Nat /\ n = m + 1
  BY StackFacts
<1>2. /\ Frames(t) /\ Len(t) = m /\ t # <<>> /\ FrameAt(t, m) = f
      /\ \A l \in 1 .. m - 1 : FrameAt(t, l) = FrameAt(s, l)
  <2>1. Popping(s, m, f, t)
    BY <1>0 DEF Popping
  <2>2. QED
    BY <2>1, PopFacts DEF Popped
<1>3. \A l \in 1 .. m : to[l] = at[l] /\ l \in 1 .. n
  BY <1>1
<1>4. 1 \in 1 .. m /\ m \in 1 .. m
  BY <1>1
<1> HIDE DEF to
<1>5. to[1].gives /\ \A l \in 1 .. m : Fit(to[l])
  BY <1>3, <1>4 DEF Sound
<1>6. AtTop(FrameAt(t, m), to[m], g, m, cur)
  BY <1>2, <1>3, <1>4 DEF AtTop, HandedBack
<1>7. ASSUME NEW l \in 1 .. m - 1 PROVE Waits(FrameAt(t, l), to[l], to[l + 1].gives, g, l)
  <2>1. l \in 1 .. n - 1 /\ l \in 1 .. m /\ l + 1 \in 1 .. m
    BY <1>1
  <2>2. Waits(FrameAt(s, l), at[l], at[l + 1].gives, h, l)
    BY <2>1 DEF Sound
  <2>3. FrameAt(t, l) = FrameAt(s, l) /\ \A v : <<l, v>> \in DOMAIN g <=> <<l, v>> \in DOMAIN h
    BY <1>2, <1>4 DEF HandedBack
  <2>4. QED
    BY <1>3, <2>1, <2>2, <2>3 DEF Waits
<1>8. Owners(t, g)
  <2>1. SUFFICES ASSUME NEW x \in DOMAIN g
                 PROVE \E l \in 1 .. m : \E v \in DOMAIN FrameAt(t, l).env :
                         x = <<l, v>> /\ g[x] = FrameAt(t, l).env[v]
    BY <1>2 DEF Owners
  <2>2. CASE x \in DOMAIN h /\ g[x] = h[x] /\ x[1] # m /\ x[1] # n
    <3>1. PICK l \in 1 .. n : \E v \in DOMAIN FrameAt(s, l).env : x = <<l, v>> /\ h[x] = FrameAt(s, l).env[v]
      BY <2>2 DEF Sound, Owners
    <3>2. l # m /\ l # n
      BY <2>2, <3>1
    <3>3. l \in 1 .. m - 1 /\ l \in 1 .. m
      BY <1>1, <3>2
    <3>4. QED
      BY <1>2, <2>2, <3>1, <3>3
  <2>3. CASE \E v \in DOMAIN f.env : x = <<m, v>> /\ g[x] = f.env[v]
    BY <1>2, <1>4, <2>3
  <2>4. QED
    BY <2>2, <2>3 DEF HandedBack
<1>9. Rooted(ns, t, g)
  BY DEF Rooted, Owned
<1>10. QED
  BY <1>0, <1>2, <1>5, <1>6, <1>7, <1>8, <1>9 DEF Sound, Owned, to

-----------------------------------------------------------------------------
\* What is handed over is the node of the argument "left", if there is one.
LEMMA HandedFacts ==
  ASSUME NEW f \in DOMAIN Code, NEW args, DOMAIN args = Lent(f) \cup Handed(f)
  PROVE /\ Gives(f) \/ Handed(f) = {}
        /\ Handed(f) = {} => HandedOver(args) = {}
        /\ Handed(f) # {} => /\ Handed(f) = {"left"} /\ "left" \in DOMAIN args
                             /\ HandedOver(args) = {args["left"]}
<1>1. "left" \notin Lent(f)
  BY DEF Lent
<1>2. Handed(f) = {} \/ (Handed(f) = {"left"} /\ f \in Adopters)
  BY DEF Handed
<1>3. CASE Handed(f) = {}
  BY <1>1, <1>3 DEF HandedOver
<1>4. CASE Handed(f) = {"left"} /\ f \in Adopters
  <2>1. DOMAIN args \cap {"left"} = {"left"}
    BY <1>4
  <2>2. QED
    BY <1>4, <2>1 DEF HandedOver, Gives
<1>5. QED
  BY <1>2, <1>3, <1>4

\* The caller goes on after the call, when the callee is done.
Calling(f, P, i, D, O, r, n, g) ==
  /\ \A u \in P : Moves(P, u)
  /\ MayCall(P, i, Tail(f.code), D, O, r) /\ i[1] = "call"
  /\ IsFrame(f) /\ f.code # <<>> /\ i = Head(f.code) /\ D \subseteq DOMAIN f.env
  /\ \A w : <<n, w>> \in DOMAIN g <=> w \in O \ HandedOver(i[4])

\* The two sides of a call: the caller gives up what it hands over, the callee
\* takes it over.
LEMMA CallerWaits ==
  ASSUME NEW f, NEW P, NEW i, NEW D, NEW O, NEW r, NEW n, NEW g, Calling(f, P, i, D, O, r, n, g)
  PROVE \E q : Fit(q) /\ q.gives = r /\ Waits(f, q, Gives(i[3]), g, n)
<1> DEFINE c == Tail(f.code)
<1>0. /\ \A u \in P : Moves(P, u)
      /\ MayCall(P, i, c, D, O, r) /\ i[1] = "call"
      /\ IsFrame(f) /\ f.code # <<>> /\ i = Head(f.code) /\ D \subseteq DOMAIN f.env
      /\ \A w : <<n, w>> \in DOMAIN g <=> w \in O \ HandedOver(i[4])
  BY DEF Calling
<1>1. /\ i[3] \in DOMAIN Code /\ DOMAIN i[4] = Lent(i[3]) \cup Handed(i[3])
      /\ Gives(i[3]) => /\ i[2] # Nothing /\ i[2] \notin O \ HandedOver(i[4])
                        /\ Goes(P, c, D \cup {i[2]}, (O \ HandedOver(i[4])) \cup {i[2]}, r)
      /\ ~Gives(i[3]) => i[2] = Nothing /\ Goes(P, c, D, O, r)
  BY <1>0 DEF MayCall
<1> DEFINE N == O \ HandedOver(i[4])
<1>2. CASE Gives(i[3])
  <2>1. PICK q : FitAt(q, c, D \cup {i[2]}, N \cup {i[2]}, r)
    <3> DEFINE E == D \cup {i[2]}
               M == N \cup {i[2]}
    <3>1. Goes(P, c, E, M, r)
      BY <1>1, <1>2
    <3> HIDE DEF E, M
    <3>2. \E q : FitAt(q, c, E, M, r)
      BY <1>0, <3>1, GoesFit
    <3>3. QED
      BY <3>2 DEF E, M
  <2>2. i[2] \notin N
    BY <1>1, <1>2
  <2> HIDE DEF N
  <2>3. (N \cup {i[2]}) \ {i[2]} = N
    BY <2>2
  <2>4. /\ q.code = c /\ ~q.op /\ i[2] \in q.owned /\ q.owned \ {i[2]} = N
        /\ q.known \subseteq DOMAIN f.env \cup {i[2]}
    BY <1>0, <2>1, <2>3 DEF FitAt
  <2>5. \A w : <<n, w>> \in DOMAIN g <=> w \in N
    BY <1>0 DEF N
  <2>6. Waits(f, q, TRUE, g, n)
    BY <1>0, <1>1, <1>2, <2>4, <2>5 DEF Waits
  <2>7. Gives(i[3]) = TRUE
    BY <1>2 DEF Gives
  <2>8. QED
    BY <2>1, <2>6, <2>7 DEF FitAt
<1>3. CASE ~Gives(i[3])
  <2>1. HandedOver(i[4]) = {}
    BY <1>1, <1>3, HandedFacts
  <2>2. PICK q : FitAt(q, c, D, O, r)
    BY <1>0, <1>1, <1>3, GoesFit
  <2>3. \A w : <<n, w>> \in DOMAIN g <=> w \in q.owned
    BY <1>0, <2>1, <2>2 DEF FitAt
  <2>4. Waits(f, q, FALSE, g, n)
    BY <1>0, <1>1, <1>3, <2>2, <2>3 DEF Waits, FitAt
  <2>5. Gives(i[3]) = FALSE
    BY <1>3 DEF Gives
  <2>6. QED
    BY <2>2, <2>4, <2>5 DEF FitAt
<1>4. QED
  BY <1>2, <1>3

\* The nodes when a function is called: its parameter "left" takes over.
Handing(n, env, h, O, f, args) ==
  /\ O \subseteq DOMAIN env
  /\ \A w : <<n, w>> \in DOMAIN h <=> w \in O
  /\ \A w \in O : h[<<n, w>>] = env[w]
  /\ f \in DOMAIN Code /\ DOMAIN args = Lent(f) \cup Handed(f)
  /\ HandedOver(args) \subseteq O \ {"module"}

TakenOver(n, env, h, O, f, args, g) ==
  /\ \A w : <<n, w>> \in DOMAIN g <=> w \in O \ HandedOver(args)
  /\ \A w : <<n + 1, w>> \in DOMAIN g <=> w \in Handed(f)
  /\ \A x \in DOMAIN g : \/ x \in DOMAIN h /\ g[x] = h[x]
                         \/ \E v \in DOMAIN args : x = <<n + 1, v>> /\ g[x] = env[args[v]]
  /\ \A l \in 1 .. n - 1 : \A v : <<l, v>> \in DOMAIN g <=> <<l, v>> \in DOMAIN h

LEMMA TakesOver ==
  ASSUME NEW s, Frames(s), NEW ns, NEW at, NEW h, NEW cur, Sound(s, ns, at, h, cur), ns # <<>>,
         NEW n, n = Len(s), NEW O, NEW f, NEW args, Handing(n, Head(s).env, h, O, f, args)
  PROVE \E g : Owned(ns, g) /\ TakenOver(n, Head(s).env, h, O, f, args, g)
<1>0. /\ \A w : <<n, w>> \in DOMAIN h <=> w \in O
      /\ \A w \in O : h[<<n, w>>] = Head(s).env[w]
      /\ f \in DOMAIN Code /\ DOMAIN args = Lent(f) \cup Handed(f)
      /\ HandedOver(args) \subseteq O \ {"module"}
  BY DEF Handing
<1>1. Forest(ns, h) /\ <<1, "module">> \in DOMAIN h /\ h[<<1, "module">>] = 1
  BY DEF Sound, Rooted
<1>2. n \in Nat
  BY StackFacts
<1>3. \A v : <<n + 1, v>> \notin DOMAIN h
  <2>1. SUFFICES ASSUME NEW v, <<n + 1, v>> \in DOMAIN h PROVE FALSE
    OBVIOUS
  <2>2. PICK l \in 1 .. n : \E w \in DOMAIN FrameAt(s, l).env : <<n + 1, v>> = <<l, w>>
    BY <2>1 DEF Sound, Owners
  <2>3. n + 1 = l
    BY <2>2
  <2>4. QED
    BY <1>2, <2>3
<1>4. CASE Handed(f) = {}
  <2>1. HandedOver(args) = {}
    BY <1>0, <1>4, HandedFacts
  <2>2. \A w : <<n, w>> \in DOMAIN h <=> w \in O \ HandedOver(args)
    BY <1>0, <2>1
  <2>3. \A w : <<n + 1, w>> \in DOMAIN h <=> w \in Handed(f)
    BY <1>3, <1>4
  <2>4. QED
    BY <1>1, <2>2, <2>3 DEF Owned, TakenOver
<1>5. CASE Handed(f) # {}
  <2>1. Handed(f) = {"left"} /\ "left" \in DOMAIN args /\ HandedOver(args) = {args["left"]}
    BY <1>0, <1>5, HandedFacts
  <2>2. PICK v, x, y : v = args["left"] /\ x = <<n, v>> /\ y = <<n + 1, "left">>
    OBVIOUS
  <2>3. v \in O /\ v # "module"
    BY <1>0, <2>1, <2>2
  <2>4. x \in DOMAIN h /\ h[x] = Head(s).env[v]
    BY <1>0, <2>2, <2>3
  <2>5. y \notin DOMAIN h
    BY <1>3, <2>2
  <2>6. PICK g : g = Owning(Without(h, x), y, h[x])
    OBVIOUS
  <2>7. Forest(ns, g)
    BY <1>1, <2>4, <2>5, <2>6, ForestMove
  <2>8. /\ DOMAIN g = (DOMAIN h \ {x}) \cup {y} /\ g[y] = h[x]
        /\ \A z \in DOMAIN g : z # y => z \in DOMAIN h /\ g[z] = h[z]
    BY <2>6 DEF Owning, Without
  <2>9. n + 1 # n
    BY <1>2
  <2>10. <<1, "module">> \in DOMAIN g /\ g[<<1, "module">>] = 1
    <3>1. <<1, "module">> # x /\ <<1, "module">> # y
      BY <1>1, <2>2, <2>3, <2>5
    <3>2. QED
      BY <1>1, <2>8, <3>1
  <2>11. \A w : <<n, w>> \in DOMAIN g <=> w \in O \ HandedOver(args)
    BY <1>0, <2>1, <2>2, <2>8, <2>9
  <2>12. \A w : <<n + 1, w>> \in DOMAIN g <=> w \in Handed(f)
    BY <1>3, <2>1, <2>2, <2>8, <2>9
  <2>13. ASSUME NEW z \in DOMAIN g
         PROVE \/ z \in DOMAIN h /\ g[z] = h[z]
               \/ \E u \in DOMAIN args : z = <<n + 1, u>> /\ g[z] = Head(s).env[args[u]]
    BY <2>1, <2>2, <2>4, <2>8
  <2>14. ASSUME NEW l \in 1 .. n - 1, NEW w PROVE <<l, w>> \in DOMAIN g <=> <<l, w>> \in DOMAIN h
    <3>1. l # n /\ l # n + 1
      BY <1>2
    <3>2. <<l, w>> # x /\ <<l, w>> # y
      BY <2>2, <3>1
    <3>3. QED
      BY <2>8, <3>2
  <2>15. QED
    BY <2>7, <2>10, <2>11, <2>12, <2>13, <2>14 DEF Owned, TakenOver
<1>6. QED
  BY <1>4, <1>5

\* A call moves the node that is handed over from one owner to another.
LEMMA CallStep ==
  ASSUME ParserInv, DoCall
  PROVE ParserInv'
<1> DEFINE n == Len(stack)
           i == Instruction
           args == i[4]
           e == [p \in DOMAIN args |-> Node(args[p])]
<1>1. /\ fate = "parsing" /\ doomed = <<>> /\ Top.code # <<>> /\ i[1] = "call"
      /\ UNCHANGED <<source, nodes, doomed, fate, cause>>
      /\ stack' = <<Frame(i[3], e)>> \o stack
  BY DEF DoCall, Running
<1>2. PICK at, h, P : Sound(stack, nodes, at, h, current) /\ Due(stack, P, at[n], h, i)
  BY <1>1, Setting
<1>3. MayCall(P, i, Tail(Top.code), at[n].known, at[n].owned, at[n].gives)
  BY <1>2 DEF Due, Obeys, Top
<1>4. /\ i[3] \in DOMAIN Code /\ DOMAIN args = Lent(i[3]) \cup Handed(i[3])
      /\ \A p \in DOMAIN args : args[p] \in at[n].known
      /\ HandedOver(args) \subseteq at[n].owned \ {"module"}
  BY <1>1, <1>3 DEF MayCall
<1>5. /\ Frames(stack) /\ stack # <<>> /\ IsFrame(Top) /\ FrameOK(Top, DOMAIN nodes)
  BY <1>1, KeptFacts
<1>6. /\ at[n].known \subseteq DOMAIN Top.env /\ at[n].owned \subseteq at[n].known
      /\ \A w : <<n, w>> \in DOMAIN h <=> w \in at[n].owned
      /\ \A w \in at[n].owned : h[<<n, w>>] = Top.env[w]
      /\ \A u \in P : Moves(P, u)
  BY <1>2 DEF Due, Top
<1>7. nodes # <<>>
  BY <1>1, <1>2, NotFirst
<1>8. PICK f : f = Frame(i[3], e)
  OBVIOUS
<1>9. IsFrame(f) /\ f.code = Code[i[3]] /\ f.env = e /\ f.handler = Nothing
  BY <1>8 DEF Frame, IsFrame
<1>10. DOMAIN f.env = DOMAIN args /\ \A p \in DOMAIN args : f.env[p] = Top.env[args[p]]
  BY <1>9 DEF Node
<1> HIDE DEF args, e
<1>11. FrameOK(f, DOMAIN nodes)
  BY <1>4, <1>5, <1>6, <1>9, <1>10 DEF FrameOK
<1>12. PICK g : Owned(nodes, g) /\ TakenOver(n, Head(stack).env, h, at[n].owned, i[3], args, g)
  <2>1. Handing(n, Head(stack).env, h, at[n].owned, i[3], args)
    BY <1>4, <1>6 DEF Handing, Top
  <2>2. QED
    BY <1>2, <1>5, <1>7, <2>1, TakesOver
<1>13. PICK q : Fit(q) /\ q.gives = at[n].gives /\ Waits(Top, q, Gives(i[3]), g, n)
  <2>1. i = Head(Top.code)
    BY DEF Instruction
  <2>2. \A w : <<n, w>> \in DOMAIN g <=> w \in at[n].owned \ HandedOver(i[4])
    BY <1>12 DEF args, TakenOver
  <2>3. Calling(Top, P, i, at[n].known, at[n].owned, at[n].gives, n, g)
    BY <1>1, <1>3, <1>5, <1>6, <2>1, <2>2 DEF Calling
  <2>4. QED
    BY <2>3, CallerWaits
<1>14. PICK p : /\ Fit(p) /\ p.code = f.code /\ p.known \subseteq DOMAIN f.env /\ ~p.op
                /\ p.owned = Handed(i[3]) /\ p.gives = Gives(i[3])
  <2>1. PICK E \in SUBSET (Lent(i[3]) \cup Handed(i[3])) :
          Fit(Point(Code[i[3]], E, Handed(i[3]), FALSE, Gives(i[3])))
    BY <1>4, AllFit
  <2>2. PICK p : p = Point(Code[i[3]], E, Handed(i[3]), FALSE, Gives(i[3]))
    OBVIOUS
  <2>3. /\ p.code = Code[i[3]] /\ p.known = E /\ ~p.op
        /\ p.owned = Handed(i[3]) /\ p.gives = Gives(i[3])
    BY <2>2 DEF Point
  <2>4. QED
    BY <1>4, <1>9, <1>10, <2>1, <2>2, <2>3
<1>15. Sound(<<f>> \o stack, nodes, Called(at, n, q, p), g, current)
  <2>1. \A v : <<n + 1, v>> \in DOMAIN g <=> v \in p.owned
    BY <1>12, <1>14 DEF TakenOver
  <2>2. \A x \in DOMAIN g : \/ x \in DOMAIN h /\ g[x] = h[x]
                            \/ \E v \in DOMAIN f.env : x = <<n + 1, v>> /\ g[x] = f.env[v]
    BY <1>10, <1>12 DEF Top, TakenOver
  <2>3. Waits(Head(stack), q, p.gives, g, n)
    BY <1>13, <1>14 DEF Top
  <2>4. Owned(nodes, g) /\ \A l \in 1 .. n - 1 : \A v : <<l, v>> \in DOMAIN g <=> <<l, v>> \in DOMAIN h
    BY <1>12 DEF TakenOver
  <2>5. QED
    BY <1>2, <1>5, <1>7, <1>9, <1>13, <1>14, <2>1, <2>2, <2>3, <2>4, CallSound DEF Owned
<1>16. /\ Frames(stack') /\ stack' # <<>> /\ stack'[1] = f
       /\ \A j \in DOMAIN stack' \ {1} : j - 1 \in DOMAIN stack /\ stack'[j] = stack[j - 1]
  <2>1. Pushing(stack, f, stack')
    BY <1>1, <1>5, <1>8, <1>9 DEF Pushing
  <2>2. QED
    BY <2>1, PushFacts DEF Pushed
<1>17. Kept'
  <2>1. \A j \in DOMAIN stack' : FrameOK(stack'[j], DOMAIN nodes)
    BY <1>11, <1>16 DEF ParserInv, Kept
  <2>2. QED
    BY <1>1, <1>16, <2>1 DEF ParserInv, Kept
<1>18. Fates' /\ fate' = "parsing"
  BY <1>1, <1>16 DEF ParserInv, Fates
<1>19. Working'
  BY <1>1, <1>8, <1>15 DEF Working, source
<1>20. Seen'
  BY <1>1, SeenStays
<1>21. QED
  BY <1>17, <1>18, <1>19, <1>20 DEF ParserInv

-----------------------------------------------------------------------------
\* A function that returns owns what it returns and nothing else.
Returns(n, gives, h, result) ==
  IF gives THEN \E v : /\ <<n, v>> \in DOMAIN h /\ h[<<n, v>>] = result
                       /\ \A w : <<n, w>> \in DOMAIN h => w = v
  ELSE \A w : <<n, w>> \notin DOMAIN h

Result(f, result) ==
  LET v == Head(f.code)[2] IN IF v = Nothing THEN f.env ELSE Assign(f.env, v, result)

\* The two sides of a return: what it hands back changes owner, nothing else.
LEMMA HandsBack ==
  ASSUME NEW s, Frames(s), NEW ns, NEW at, NEW h, NEW cur, Sound(s, ns, at, h, cur), ns # <<>>,
         NEW n, n = Len(s), NEW m, m = n - 1, m > 0, NEW f, f = FrameAt(s, m),
         NEW result, Returns(n, at[n].gives, h, result)
  PROVE LET e == Result(f, result)
        IN  /\ at[m].code = Tail(f.code) /\ ~at[m].op /\ at[m].known \subseteq DOMAIN e
            /\ \A v \in DOMAIN e : (v \in DOMAIN f.env /\ e[v] = f.env[v]) \/ e[v] \in DOMAIN ns
            /\ DOMAIN f.env \subseteq DOMAIN e
            /\ \E g : Owned(ns, g) /\ HandedBack(m, n, at[m], e, h, g)
<1>1. n \in Nat /\ m \in Nat /\ n = m + 1 /\ m \in 1 .. n - 1
  BY StackFacts
<1>2. Waits(f, at[m], at[n].gives, h, m)
  BY <1>1 DEF Sound
<1>3. Owned(ns, h)
  BY DEF Sound, Rooted, Owned
<1>4. PICK e, v : e = Result(f, result) /\ v = Head(f.code)[2]
  OBVIOUS
<1>5. at[m].code = Tail(f.code) /\ ~at[m].op
  BY <1>2 DEF Waits
<1>6. ASSUME NEW u, <<m, u>> \in DOMAIN h PROVE u \in DOMAIN f.env /\ h[<<m, u>>] = f.env[u]
  <2>1. PICK l \in 1 .. n : \E w \in DOMAIN FrameAt(s, l).env :
               <<m, u>> = <<l, w>> /\ h[<<m, u>>] = FrameAt(s, l).env[w]
    BY <1>6 DEF Sound, Owners
  <2>2. l = m
    BY <2>1
  <2>3. QED
    BY <2>1, <2>2
<1>7. \A z \in DOMAIN h : z = <<z[1], z[2]>>
  BY Pairs
<1>8. CASE ~at[n].gives
  <2>1. v = Nothing /\ at[m].known \subseteq DOMAIN f.env
    BY <1>2, <1>4, <1>8 DEF Waits
  <2>2. e = f.env
    BY <1>4, <2>1 DEF Result
  <2>3. \A w : <<m, w>> \in DOMAIN h <=> w \in at[m].owned
    BY <1>2, <1>8 DEF Waits
  <2>4. \A w : <<n, w>> \notin DOMAIN h
    BY <1>8 DEF Returns
  <2>5. ASSUME NEW z \in DOMAIN h
        PROVE \/ z[1] # m /\ z[1] # n
              \/ \E u \in DOMAIN e : z = <<m, u>> /\ h[z] = e[u]
    <3>1. z = <<z[1], z[2]>>
      BY <1>7
    <3>2. z[1] # n
      BY <2>4, <3>1
    <3>3. CASE z[1] = m
      BY <1>6, <2>2, <3>1, <3>3
    <3>4. QED
      BY <3>2, <3>3
  <2>6. HandedBack(m, n, at[m], e, h, h)
    BY <2>3, <2>5 DEF HandedBack
  <2>7. QED
    BY <1>3, <1>4, <1>5, <2>1, <2>2, <2>6
<1>9. CASE at[n].gives
  <2>1. /\ v # Nothing /\ v \in at[m].owned /\ at[m].known \subseteq DOMAIN f.env \cup {v}
        /\ \A w : <<m, w>> \in DOMAIN h <=> w \in at[m].owned \ {v}
    BY <1>2, <1>4, <1>9 DEF Waits
  <2>2. e = Assign(f.env, v, result)
    BY <1>4, <2>1 DEF Result
  <2>3. /\ DOMAIN e = DOMAIN f.env \cup {v} /\ e[v] = result
        /\ \A w \in DOMAIN f.env : w # v => e[w] = f.env[w]
    BY <2>2 DEF Assign
  <2>4. PICK w : /\ <<n, w>> \in DOMAIN h /\ h[<<n, w>>] = result
                 /\ \A u : <<n, u>> \in DOMAIN h => u = w
    BY <1>9 DEF Returns
  <2>5. PICK x, y : x = <<n, w>> /\ y = <<m, v>>
    OBVIOUS
  <2>6. x \in DOMAIN h /\ h[x] = result /\ y \notin DOMAIN h
    BY <2>1, <2>4, <2>5
  <2>7. PICK g : g = Owning(Without(h, x), y, h[x])
    OBVIOUS
  <2>8. /\ DOMAIN g = (DOMAIN h \ {x}) \cup {y} /\ g[y] = result
        /\ \A z \in DOMAIN g : z # y => z \in DOMAIN h /\ z # x /\ g[z] = h[z]
    BY <2>6, <2>7 DEF Owning, Without
  <2>9. Owned(ns, g)
    <3>1. Forest(ns, g)
      BY <1>3, <2>6, <2>7, ForestMove DEF Owned
    <3>2. <<1, "module">> # x
      BY <1>1, <2>5
    <3>3. <<1, "module">> # y /\ <<1, "module">> \in DOMAIN g
      BY <1>3, <2>6, <2>8, <3>2 DEF Owned
    <3>4. QED
      BY <1>3, <2>8, <3>1, <3>3 DEF Owned
  <2>10. m # n
    BY <1>1
  <2>11. \A u : <<m, u>> \in DOMAIN g <=> u \in at[m].owned
    BY <2>1, <2>5, <2>8, <2>10
  <2>12. ASSUME NEW z \in DOMAIN g
         PROVE \/ z \in DOMAIN h /\ g[z] = h[z] /\ z[1] # m /\ z[1] # n
               \/ \E u \in DOMAIN e : z = <<m, u>> /\ g[z] = e[u]
    <3>1. CASE z = y
      BY <2>3, <2>5, <2>8, <3>1
    <3>2. CASE z # y
      <4>1. z \in DOMAIN h /\ z # x /\ g[z] = h[z] /\ z = <<z[1], z[2]>>
        BY <1>7, <2>8, <3>2
      <4>2. z[1] # n
        BY <2>4, <2>5, <4>1
      <4>3. CASE z[1] = m
        <5>1. z[2] # v
          BY <2>5, <3>2, <4>1, <4>3
        <5>2. z[2] \in DOMAIN f.env /\ h[z] = f.env[z[2]]
          BY <1>6, <4>1, <4>3
        <5>3. QED
          BY <2>3, <4>1, <4>3, <5>1, <5>2
      <4>4. QED
        BY <4>1, <4>2, <4>3
    <3>3. QED
      BY <3>1, <3>2
  <2>13. ASSUME NEW l \in 1 .. m - 1, NEW u PROVE <<l, u>> \in DOMAIN g <=> <<l, u>> \in DOMAIN h
    <3>1. l # n /\ l # m
      BY <1>1
    <3>2. <<l, u>> # x /\ <<l, u>> # y
      BY <2>5, <3>1
    <3>3. QED
      BY <2>8, <3>2
  <2>14. HandedBack(m, n, at[m], e, h, g)
    BY <2>11, <2>12, <2>13 DEF HandedBack
  <2>15. result \in DOMAIN ns
    BY <1>3, <2>6 DEF Owned, Forest
  <2>16. \A u \in DOMAIN e : (u \in DOMAIN f.env /\ e[u] = f.env[u]) \/ e[u] \in DOMAIN ns
    BY <2>3, <2>15
  <2>17. at[m].known \subseteq DOMAIN e /\ DOMAIN f.env \subseteq DOMAIN e
    BY <2>1, <2>3
  <2>18. QED
    BY <1>4, <1>5, <2>9, <2>14, <2>16, <2>17
<1>10. QED
  BY <1>8, <1>9

LEMMA ResumeStep ==
  ASSUME ParserInv, fate = "parsing", doomed = <<>>, UNCHANGED <<source, nodes, doomed, cause, fate>>,
         NEW at, NEW h, Sound(stack, nodes, at, h, current), nodes # <<>>,
         Len(stack) > 1, NEW result, Returns(Len(stack), at[Len(stack)].gives, h, result),
         Resume(result)
  PROVE ParserInv'
<1> DEFINE n == Len(stack)
           m == n - 1
<1>1. PICK f : f = stack[2]
  OBVIOUS
<1>2. PICK e : e = Result(f, result)
  OBVIOUS
<1>3. Frames(stack) /\ stack # <<>>
  BY KeptFacts
<1>4. /\ n \in Nat /\ m > 0 /\ 2 \in DOMAIN stack /\ FrameAt(stack, m) = f /\ 1 \in 1 .. m
  <2>1. n \in Nat /\ DOMAIN stack = 1 .. n
    BY <1>3, StackFacts
  <2>2. n + 1 - m = 2
    BY <2>1
  <2>3. QED
    BY <1>1, <2>1, <2>2 DEF FrameAt
<1>5. IsFrame(f) /\ FrameOK(f, DOMAIN nodes)
  BY <1>1, <1>3, <1>4 DEF Frames, ParserInv, Kept
<1> HIDE DEF n, m
<1>6. /\ at[m].code = Tail(f.code) /\ ~at[m].op /\ at[m].known \subseteq DOMAIN e
      /\ \A v \in DOMAIN e : (v \in DOMAIN f.env /\ e[v] = f.env[v]) \/ e[v] \in DOMAIN nodes
      /\ DOMAIN f.env \subseteq DOMAIN e
      /\ \E g : Owned(nodes, g) /\ HandedBack(m, n, at[m], e, h, g)
  BY <1>2, <1>3, <1>4, HandsBack DEF n, m
<1>7. PICK g : Owned(nodes, g) /\ HandedBack(m, n, at[m], e, h, g)
  BY <1>6
<1>8. PICK k : k = [code |-> Tail(f.code), env |-> e, handler |-> f.handler]
  OBVIOUS
<1>9. IsFrame(k) /\ k.code = Tail(f.code) /\ k.env = e /\ k.handler = f.handler
  BY <1>8 DEF IsFrame
<1>10. stack' = <<k>> \o Tail(Tail(stack))
  <2>1. [f EXCEPT !.code = Tail(@), !.env = e] = k
    BY <1>5, <1>8, FrameEnv
  <2>2. stack' = <<[f EXCEPT !.code = Tail(@), !.env = e]>> \o Tail(Tail(stack))
    BY <1>1, <1>2 DEF Resume, Result
  <2>3. QED
    BY <2>1, <2>2
<1>11. FrameOK(k, DOMAIN nodes)
  BY <1>5, <1>6, <1>9 DEF FrameOK
<1>12. Popping(stack, m, k, stack')
  BY <1>3, <1>4, <1>9, <1>10 DEF Popping, n, m
<1>13. /\ Frames(stack') /\ stack' # <<>> /\ stack'[1] = k
       /\ \A j \in DOMAIN stack' \ {1} : j + 1 \in DOMAIN stack /\ stack'[j] = stack[j + 1]
  BY <1>12, PopFacts DEF Popped
<1>14. Kept'
  <2>1. \A j \in DOMAIN stack' : FrameOK(stack'[j], DOMAIN nodes)
    BY <1>11, <1>13 DEF ParserInv, Kept
  <2>2. QED
    BY <1>13, <2>1 DEF ParserInv, Kept
<1>15. Fates' /\ fate' = "parsing"
  BY <1>13 DEF ParserInv, Fates
<1>16. Working'
  <2>1. HandedBack(m, n, at[m], k.env, h, g)
    BY <1>7, <1>9
  <2>2. k.code = at[m].code /\ at[m].known \subseteq DOMAIN k.env
    BY <1>6, <1>9
  <2>3. Sound(<<k>> \o Tail(Tail(stack)), nodes, [l \in 1 .. m |-> at[l]], g, current)
    BY <1>3, <1>4, <1>6, <1>7, <1>9, <2>1, <2>2, ResumeSound DEF n, m
  <2>4. QED
    BY <1>10, <2>3 DEF Working, source
<1>17. Seen'
  BY SeenStays
<1>18. QED
  BY <1>14, <1>15, <1>16, <1>17 DEF ParserInv

LEMMA Beyond ==
  ASSUME NEW n \in Nat, n > 0, n # 1
  PROVE n > 1
OBVIOUS

\* Module returns the one node that is nobody's child.
Alone(v, h) == \A w : <<1, w>> \in DOMAIN h <=> w = v

\* When Module returns, it owns the first node and nothing else is owned: every
\* other node is a child.
LEMMA LastReturn ==
  ASSUME ParserInv, fate = "parsing", Len(stack) = 1, nodes # <<>>,
         NEW at, NEW h, Sound(stack, nodes, at, h, current),
         NEW v, Alone(v, h)
  PROVE Whole(nodes)
<1>1. Forest(nodes, h) /\ <<1, "module">> \in DOMAIN h /\ h[<<1, "module">>] = 1
  BY DEF Sound, Rooted
<1>2. v = "module"
  BY <1>1 DEF Alone
<1>3. ASSUME NEW x \in DOMAIN h PROVE x = <<1, "module">>
  <2>1. PICK l \in 1 .. 1 : \E w \in DOMAIN FrameAt(stack, l).env : x = <<l, w>>
    BY DEF Sound, Owners
  <2>2. PICK w : x = <<1, w>>
    BY <2>1
  <2>3. QED
    BY <1>2, <2>2 DEF Alone
<1>4. \A n \in DOMAIN nodes : Kid(nodes, n) <=> n # 1
  BY <1>1, <1>3 DEF Forest
<1>5. QED
  BY <1>1, <1>4 DEF Whole, Forest

\* What a function that ends here owns is what it returns.
LEMMA AtItsEnd ==
  ASSUME ParserInv, fate = "parsing", Top.code = <<>>,
         NEW at, NEW h, Sound(stack, nodes, at, h, current)
  PROVE ~at[Len(stack)].gives /\ \A w : <<Len(stack), w>> \notin DOMAIN h
<1> DEFINE n == Len(stack)
<1>1. Frames(stack) /\ stack # <<>>
  BY KeptFacts
<1>2. FrameAt(stack, n) = Top /\ n \in 1 .. n
  BY <1>1, StackFacts DEF Top
<1>3. AtTop(Top, at[n], h, n, current) /\ Fit(at[n])
  BY <1>2 DEF Sound
<1>4. PICK P : Moves(P, at[n])
  BY <1>3 DEF Fit
<1>5. at[n].owned = {} /\ ~at[n].gives
  BY <1>3, <1>4 DEF Moves, MayEnd, AtTop
<1>6. QED
  BY <1>3, <1>5 DEF AtTop

\* A return hands the one node that is owned back to the caller.
LEMMA ReturnStep ==
  ASSUME ParserInv, DoReturn
  PROVE ParserInv'
<1> DEFINE n == Len(stack)
           i == Instruction
<1>1. fate = "parsing" /\ doomed = <<>> /\ UNCHANGED <<source, nodes, doomed, cause>>
  BY DEF DoReturn
<1>2. n \in Nat /\ n > 0
  BY <1>1, KeptFacts, StackFacts
<1>3. CASE Top.code = <<>> /\ Resume(0) /\ fate' = fate
  <2>1. PICK at, h : Sound(stack, nodes, at, h, current)
    BY <1>1, <1>3, Soundly
  <2>2. ~at[n].gives /\ \A w : <<n, w>> \notin DOMAIN h
    BY <1>1, <1>3, <2>1, AtItsEnd
  <2>3. n > 1
    <3>1. at[1].gives
      BY <2>1 DEF Sound
    <3>2. n # 1
      BY <2>2, <3>1
    <3>3. QED
      BY <1>2, <3>2, Beyond
  <2>4. nodes # <<>>
    BY <1>1, <1>3, <2>1, NotFirst
  <2>5. Returns(n, at[n].gives, h, 0)
    BY <2>2 DEF Returns
  <2>6. QED
    BY <1>1, <1>3, <2>1, <2>3, <2>4, <2>5, ResumeStep
<1>4. CASE ~(Top.code = <<>> /\ Resume(0) /\ fate' = fate)
  <2> DEFINE result == IF i[2] = Nothing THEN 0 ELSE Node(i[2])
  <2>1. /\ Top.code # <<>> /\ i[1] = "return"
        /\ IF n = 1 THEN stack' = <<>> /\ fate' = "returned"
           ELSE Resume(result) /\ fate' = fate
    BY <1>4 DEF DoReturn, Running
  <2>2. PICK at, h, P : Sound(stack, nodes, at, h, current) /\ Due(stack, P, at[n], h, i)
    BY <1>1, <2>1, Setting
  <2>3. IF i[2] = Nothing THEN at[n].owned = {} /\ ~at[n].gives ELSE at[n].owned = {i[2]} /\ at[n].gives
    BY <2>1, <2>2 DEF Due, Obeys, MayReturn
  <2>4. /\ \A w : <<n, w>> \in DOMAIN h <=> w \in at[n].owned
        /\ \A w \in at[n].owned : h[<<n, w>>] = Node(w)
    BY <2>2 DEF Due, Top, Node
  <2>5. nodes # <<>>
    BY <1>1, <2>1, <2>2, NotFirst
  <2>6. Returns(n, at[n].gives, h, result)
    <3>1. CASE i[2] = Nothing
      BY <2>3, <2>4, <3>1 DEF Returns
    <3>2. CASE i[2] # Nothing
      <4>1. at[n].gives /\ <<n, i[2]>> \in DOMAIN h /\ h[<<n, i[2]>>] = result
        BY <2>3, <2>4, <3>2
      <4>2. \A w : <<n, w>> \in DOMAIN h => w = i[2]
        BY <2>3, <2>4, <3>2
      <4>3. QED
        BY <4>1, <4>2 DEF Returns
    <3>3. QED
      BY <3>1, <3>2
  <2>7. CASE n # 1
    <3>1. n > 1
      BY <1>2, <2>7, Beyond
    <3>2. QED
      BY <1>1, <2>1, <2>2, <2>5, <2>6, <2>7, <3>1, ResumeStep
  <2>8. CASE n = 1
    <3>1. at[1].gives
      BY <2>2 DEF Sound
    <3>2. Alone(i[2], h)
      BY <2>3, <2>4, <2>8, <3>1 DEF Alone
    <3>3. Whole(nodes)
      BY <1>1, <2>2, <2>5, <2>8, <3>2, LastReturn
    <3>4. stack' = <<>> /\ fate' = "returned"
      BY <2>1, <2>8
    <3>5. Frames(<<>>) /\ DOMAIN (<<>>) = {}
      BY NilListed DEF Frames
    <3>6. Kept'
      BY <1>1, <3>4, <3>5 DEF ParserInv, Kept
    <3>7. Fates'
      BY <1>1, <3>4 DEF ParserInv, Fates
    <3>8. Seen'
      BY <1>1, SeenStays
    <3>9. QED
      BY <1>1, <3>3, <3>4, <3>6, <3>7, <3>8 DEF ParserInv
  <2>9. QED
    BY <2>7, <2>8
<1>5. QED
  BY <1>3, <1>4

-----------------------------------------------------------------------------
LEMMA OneFrame ==
  ASSUME NEW f, IsFrame(f)
  PROVE LET s == <<f>>
        IN Frames(s) /\ s # <<>> /\ Len(s) = 1 /\ DOMAIN s = {1} /\ s[1] = f /\ FrameAt(s, 1) = f
<1>1. <<f>> \in Seq({f}) /\ Len(<<f>>) = 1
  OBVIOUS
<1>2. Listed(<<f>>)
  BY <1>1, ListedIn
<1>3. QED
  BY <1>1, <1>2 DEF Frames, FrameAt

\* The invariant holds at the start, with no nodes and Module at its entry.
LEMMA Starts ==
  Init => ParserInv
<1>1. SUFFICES ASSUME Init PROVE ParserInv
  OBVIOUS
<1>2. PICK f : f = Frame("Module", NoArguments)
  OBVIOUS
<1>3. /\ current = EOF /\ family \in DOMAIN Sources /\ nodes = <<>> /\ doomed = <<>>
      /\ stack = <<f>> /\ fate = "parsing" /\ cause = "none"
  BY <1>1, <1>2 DEF Init
<1>4. IsFrame(f) /\ f.code = Code["Module"] /\ f.env = <<>> /\ f.handler = Nothing
  BY <1>2 DEF Frame, IsFrame, NoArguments
<1>5. DOMAIN f.env = {}
  BY <1>4
<1>6. /\ Frames(stack) /\ stack # <<>> /\ Len(stack) = 1 /\ DOMAIN stack = {1} /\ stack[1] = f
      /\ FrameAt(stack, 1) = f
  BY <1>3, <1>4, OneFrame
<1>7. Seen
  <2>1. PICK p \in Sources[family].starts : next = Head(p)
    BY <1>1 DEF Init
  <2>2. Sources[family].starts \subseteq Seq(AllTokens) \ {<<>>}
    BY <1>3, SourceAssumption
  <2>3. p \in Seq(AllTokens) /\ p # <<>>
    BY <2>1, <2>2
  <2>4. next \in AllTokens
    BY <2>1, <2>3
  <2>5. Bad \notin AllTokens
    BY DEF Bad, AllTokens, Symbols, Keywords
  <2>6. EOF # Bad
    BY DEF EOF, Bad
  <2>7. QED
    BY <1>3, <2>4, <2>5, <2>6 DEF Seen, Window
<1>8. Kept
  <2>1. nodes \in Seq(NodeType) /\ KidsIn(nodes)
    BY <1>3 DEF KidsIn
  <2>2. doomed \in Seq(DOMAIN nodes)
    BY <1>3
  <2>3. FrameOK(f, DOMAIN nodes)
    BY <1>4, <1>5 DEF FrameOK
  <2>4. QED
    BY <1>6, <2>1, <2>2, <2>3 DEF Kept
<1>9. Fates
  BY <1>3, <1>6 DEF Fates
<1>10. "Module" \in DOMAIN Code /\ Gives("Module") /\ Handed("Module") = {} /\ Lent("Module") = {}
  <2>1. "Module" \in Makers /\ "Module" \notin Adopters
    BY DEF Makers, Adopters
  <2>2. QED
    BY <2>1, FunctionNames DEF Gives, Handed, Lent
<1>11. PICK p : /\ Fit(p) /\ p.code = f.code /\ p.known = {} /\ p.owned = {} /\ ~p.op /\ p.gives
  <2>1. PICK E \in SUBSET {} : Fit(Point(Code["Module"], E, {}, FALSE, Gives("Module")))
    BY <1>10, AllFit
  <2>2. PICK p : p = Point(Code["Module"], E, {}, FALSE, Gives("Module"))
    OBVIOUS
  <2>3. p.code = Code["Module"] /\ p.known = E /\ p.owned = {} /\ ~p.op /\ p.gives = Gives("Module")
    BY <2>2 DEF Point
  <2>4. QED
    BY <1>4, <1>10, <2>1, <2>2, <2>3
<1>12. PICK at, h : at = [l \in 1 .. 1 |-> p] /\ h = [x \in {} |-> 0]
  OBVIOUS
<1>13. at[1] = p /\ DOMAIN h = {}
  BY <1>12
<1>14. Sound(stack, nodes, at, h, current)
  <2>1. AtTop(f, p, h, 1, current)
    BY <1>5, <1>11, <1>13 DEF AtTop
  <2>2. Owners(stack, h)
    BY <1>13 DEF Owners
  <2>3. Forest(nodes, h)
    BY <1>3, <1>13 DEF Forest, KidsOnce, KidsIn, NoneFreed
  <2>4. Rooted(nodes, stack, h)
    BY <1>3, <1>4, <1>6 DEF Rooted
  <2>5. \A l \in 1 .. 1 : Fit(at[l])
    BY <1>11, <1>13
  <2>6. \A l \in 1 .. 1 - 1 : Waits(FrameAt(stack, l), at[l], at[l + 1].gives, h, l)
    OBVIOUS
  <2>7. QED
    BY <1>6, <1>11, <1>13, <2>1, <2>2, <2>3, <2>4, <2>5, <2>6 DEF Sound
<1>15. QED
  BY <1>3, <1>7, <1>8, <1>9, <1>14 DEF ParserInv, Working

\* Every action keeps the invariant.
LEMMA Keeps ==
  ParserInv /\ [Next]_vars => ParserInv'
<1>1. SUFFICES ASSUME ParserInv, [Next]_vars PROVE ParserInv'
  OBVIOUS
<1>2. ASSUME Next PROVE ParserInv'
  BY <1>1, <1>2, NewStep, OperationStep, AddStep, DeleteStep, FreeStep, AdvanceStep, BranchStep,
     LoopStep, LetStep, SetHandlerStep, CallStep, ReturnStep, ThrowStep, UnwindStep DEF Next
<1>3. ASSUME UNCHANGED vars PROVE ParserInv'
  BY <1>1, <1>3, Stuttering
<1>4. QED
  BY <1>1, <1>2, <1>3

-----------------------------------------------------------------------------
\* Whatever the source, wherever the lexer throws: as long as Parse runs every
\* node has one owner, a variable or a parent, and what an exception deletes
\* first is nobody's child.
THEOREM Invariant == Spec => []ParserInv
BY Starts, Keeps, PTL DEF Spec

\* Whatever the source, the children of a node and the variables of an
\* active function are nodes that Parser::Parse has allocated, what is to be
\* deleted is too, and a handler names a variable its function has set.
THEOREM TypeCorrect == Spec => []TypeOK
BY Invariant, InvImpliesTypeOK, PTL

\* Whatever the source, when Parse returns, every node it has allocated is in
\* the tree it returns, in one place: the caller that deletes the root
\* deletes each of them, and none of them twice.
THEOREM ReturnsAWholeTree == Spec => []TreeIsWhole
BY Invariant, InvImpliesWhole, PTL
=============================================================================
