------------------------ MODULE ExpressionsProofs ------------------------
(***************************************************************************)
(* A body the checker accepts is one the generator can compile, and what   *)
(* it emits fits, for any declarations and any body.  The argument: the    *)
(* checker leaves behind, after each node, a stack and a table that can be *)
(* told from the nodes alone; the generator, going through the same nodes, *)
(* has at each of them a stack and registers that stand for those.         *)
(***************************************************************************)
EXTENDS Expressions, SequenceTheorems, TLAPS

-----------------------------------------------------------------------------
(***************************************************************************)
(* What the checker leaves behind.  After each node it had a stack and a   *)
(* table; both can be told from the nodes alone, so that the generator,    *)
(* which sees only these, goes by the same stacks and tables.  "w" stands  *)
(* for the unusual things the body has done, "c" for its context.          *)
(***************************************************************************)
IsSeq(s) == s \in Seq({s[i] : i \in DOMAIN s})
Opd(s, i) == s.operands[Len(s.operands) - i + 1]
EntryOf(node) == [result |-> node.result, symbol |-> Seen(node.op, node.symbol)]

\* An operator's operands match, or one of them is called "none".
Matched(l, r, w) ==
  Matches(l.result, r.result) /\ Namesakes(l.result, r.result) \subseteq w

\* The arguments are of the types that f takes.
Takes(f, s, n) ==
  f.params = [i \in 1 .. n |-> TypeOf(Opd(s, n - i + 1).result).name]

\* A node that copies its symbol from o, and whose operands are numbers.
Numbers(node, o, resultant) ==
  /\ Set(o) /\ node.symbol = o.symbol
  /\ Formed(resultant) /\ Format(resultant) \in Numeric
  /\ node.result \in {TypeOf(resultant), TypeSymbol("bool")}

\* What the checker made sure of when it accepted a node with the stack and
\* table s.
JudgedLeaf(node, s, w) ==
  \/ /\ node.op = "literal" /\ node.data \in {"bool", "int32", "float32", "string"}
     /\ node.symbol = TypeSymbol(node.data) /\ node.result = node.symbol
     /\ node.data = "string" => "string" \in w
  \/ /\ node.op = "char" /\ "char" \in w
     /\ node.symbol = TypeSymbol("int32") /\ node.result = TypeSymbol("int8")
  \/ /\ node.op = "default" /\ node.data \in Types
     /\ node.symbol = TypeSymbol(node.data) /\ node.result = node.symbol
  \/ /\ node.op = "variable" /\ IsBound(s.table, node.data)
     /\ node.symbol = Get(s.table, node.data) /\ node.result = node.symbol
     /\ node.data = "this" => IsType(node.symbol) \/ "namesake" \in w

JudgedBinary(node, l, r, w) ==
  \/ /\ node.op = "add" /\ Matched(l, r, w)
     /\ node.symbol = l.result /\ node.result = Resultant(l.result, r.result)
     /\ Formed(l.result)
     /\ \/ Format(l.result) \in Numeric
        \/ Is(TypeOf(l.result), "string") /\ "string" \in w
     /\ Set(l) \/ "unset" \in w
  \/ /\ node.op = "sub" /\ Matched(l, r, w)
     /\ Numbers(node, r, Resultant(l.result, r.result))
     /\ node.result = TypeOf(Resultant(l.result, r.result))
  \/ /\ node.op = "multiply" /\ Matched(l, r, w)
     /\ node.data \in {"mul", "div", "mod"}
     /\ Numbers(node, l, Resultant(l.result, r.result))
     /\ node.result = TypeOf(Resultant(l.result, r.result))
  \/ /\ node.op = "ordering" /\ Matched(l, r, w)
     /\ Numbers(node, l, Resultant(l.result, r.result))
     /\ node.result = TypeSymbol("bool")
  \/ /\ node.op = "equality" /\ Matched(l, r, w)
     /\ Set(l) /\ node.symbol = l.symbol /\ node.result = TypeSymbol("bool")
     /\ OfAnother(l) \subseteq w
     /\ Is(TypeOf(l.result), "bool") => "bool" \in w
     /\ Is(TypeOf(l.result), "void") \/ Is(TypeOf(l.symbol), "void") => "void" \in w
  \/ /\ node.op = "logic"
     /\ Set(l) /\ node.symbol = l.symbol /\ node.result = r.result
     /\ Is(TypeOf(l.result), "bool") /\ Is(TypeOf(r.result), "bool")

JudgedUnary(node, a, w) ==
  \/ /\ node.op = "negate" /\ node.result = TypeOf(a.result)
     /\ Numbers(node, a, a.result)
  \/ /\ node.op = "not"
     /\ Set(a) /\ node.symbol = a.symbol /\ node.result = a.result
     /\ Is(TypeOf(a.result), "bool")

JudgedCall(node, s, w) ==
  \/ \E f \in Functions :
       /\ node.op = "call" /\ f.spec = "" /\ Takes(f, s, node.count)
       /\ node.symbol = SymbolOf("function", f, f.ret) /\ node.result = TypeSymbol(f.ret)
  \/ \E f \in Functions :
       /\ node.op = "member_call" /\ node.count > 0 /\ Takes(f, s, node.count - 1)
       /\ \/ f.spec = TypeOf(Opd(s, node.count).result).name
          \/ "static" \in w
       /\ node.symbol = SymbolOf("function", f, f.ret) /\ node.result = TypeSymbol(f.ret)
  \/ \E f \in Functions :
       /\ node.op = "new" /\ Takes(f, s, node.count)
       /\ f.spec \in Specs /\ f.ret = "void"
       /\ node.symbol = SymbolOf("function", f, f.ret) /\ node.result = TypeSymbol(f.spec)
  \/ \E t \in Types :
       /\ node.op = "call" /\ node.count = 1
       /\ node.symbol = TypeSymbol(t) /\ node.result = TypeSymbol(t)
       /\ LET a == Opd(s, 1) IN
          /\ Formed(a.result) /\ ~Is(a.result, "void")
          /\ MayCast(Format(a.result), FormatOf(t))

JudgedProperty(node, s, w) ==
  LET object == Opd(s, 1)  value == Opd(s, 2) IN
  \E p \in Properties :
    /\ node.op \in {"get", "set"}
    /\ p.spec = TypeOf(object.result).name
    /\ p.type = "void" => "void" \in w
    /\ node.result = node.symbol
    /\ \/ /\ node.op = "get" /\ node.count = 1
          /\ node.symbol = SymbolOf("property", p, p.type)
       \/ /\ node.op = "set" /\ node.count = 2
          /\ node.symbol = SymbolOf("function", p, p.type)
          /\ Is(TypeOf(value.result), p.type) \/ "mistyped" \in w

\* An assignment declares the name in this scope, or it has the type there.
JudgedAssign(node, s, t) ==
  LET value == Opd(s, 1).result  n == node.data IN
  /\ node.op = "assign" /\ node.count = 1 /\ n \notin {"this", ""}
  /\ ~Is(TypeOf(value), "void") /\ node.result = node.symbol
  /\ \/ /\ ~InTop(s.table, n)
        /\ node.symbol = FunctionSymbol("variable", n, value)
        /\ t.table = Put(s.table, n, value)
     \/ /\ InTop(s.table, n)
        /\ Same(TypeOf(Get(s.table, n)), TypeOf(value))
        /\ node.symbol = Get(s.table, n)
        /\ t.table = s.table

JudgedStatement(node, s, c, w) ==
  LET a == Opd(s, 1).result IN
  \/ node.op \in {"discard", "clause"} /\ node.count = 1
  \/ /\ node.op = "if" /\ node.count = 1
     /\ Is(a, "bool") /\ (IsType(a) \/ "namesake" \in w)
  \/ /\ node.op = "return" /\ node.count = 1
     /\ Is(TypeOf(a), c.ret)
     /\ c.ret = "void" => "void" \in w
  \/ /\ node.op = "return" /\ node.count = 0
     /\ c.ret = "void" \/ "bare" \in w

Judged(node, s, t, c, w) ==
  \/ node.count = 0 /\ JudgedLeaf(node, s, w) /\ t.table = s.table
  \/ node.count = 2 /\ JudgedBinary(node, Opd(s, 2), Opd(s, 1), w) /\ t.table = s.table
  \/ node.count = 1 /\ JudgedUnary(node, Opd(s, 1), w) /\ t.table = s.table
  \/ JudgedCall(node, s, w) /\ t.table = s.table
  \/ JudgedProperty(node, s, w) /\ t.table = s.table
  \/ JudgedAssign(node, s, t)
  \/ JudgedStatement(node, s, c, w) /\ t.table = s.table

\* A node takes the checker from the stack and table s to t.
Walked(node, s, t, c, w) ==
  /\ node.count \in 0 .. Len(s.operands)
  /\ t.operands = Below(s.operands, node.count) \o Leaves(node.op, EntryOf(node))
  /\ Relayed(Last(s.operands, node.count)) \subseteq w
  /\ Judged(node, s, t, c, w)

Start(c) == [operands |-> <<>>, table |-> <<ThisScope(c), ParamScope(c), EmptyScope>>]

\* The stacks and tables after 0, 1, ... nodes.
History(h, nodes, now, c, w) ==
  /\ \A i \in 0 .. Len(nodes) : IsSeq(h[i].operands)
  /\ h[0] = Start(c)
  /\ h[Len(nodes)] = now
  /\ \A i \in 1 .. Len(nodes) : Walked(nodes[i], h[i - 1], h[i], c, w)

-----------------------------------------------------------------------------
(***************************************************************************)
(* What the generator makes of it.                                         *)
(***************************************************************************)
Kinds == {"function", "property", "param", "variable"}

\* What a table may bind: a symbol that is a type, one that leads to a type,
\* or one that leads to another symbol.
IsTypeSymbol(s) == \E t \in Types : s = TypeSymbol(t)
IsSymbol(s) ==
  \/ IsTypeSymbol(s)
  \/ /\ s.kind \in Kinds /\ s.name # ""
     /\ \/ IsTypeSymbol(s.returns)
        \/ s.returns.kind \in Kinds /\ s.returns.name # ""

\* The symbol on an operand's node is of the format of the operand, but for
\* a comparison, which has that of what it compares, and a new object, which
\* has that of what its constructor returns.
EntryFits(o, w) ==
  /\ IsSymbol(o.result)
  /\ Set(o) => IsSymbol(o.symbol)
  /\ Formed(o.result) /\ ~IsType(o.result) /\ Is(TypeOf(o.result), "void") => "void" \in w
  /\ Set(o) /\ Formed(o.result) => Formed(o.symbol) \/ "relayed" \in w
  /\ "namesake" \notin w /\ Set(o) =>
       /\ ~Formed(o.result) => ~Formed(o.symbol)
       /\ Formed(o.result) /\ Formed(o.symbol) =>
            \/ Format(o.symbol) = Format(o.result)
            \/ Format(o.result) = "bool"
            \/ Format(o.symbol) = "void" /\ Format(o.result) = "pointer"

\* The generator's result v stands for the checker's result o.
Typed(o, v, w) ==
  /\ IsSymbol(v.symbol)
  /\ Formed(o.result) => Formed(v.symbol) \/ "relayed" \in w
  /\ "namesake" \notin w =>
       /\ Formed(o.result) =>
            /\ Formed(v.symbol)
            /\ Format(v.symbol) = Format(o.result)
            /\ "char" \notin w => Is(TypeOf(v.symbol), TypeOf(o.result).name)
       /\ Formed(v.symbol) /\ Format(v.symbol) = "void" => Formed(o.result)

Ordinary(w) == w \cap {"mistyped", "comparison", "static", "namesake"} = {}
Worded(v, w) ==
  Ordinary(w) /\ Formed(v.symbol) /\ Format(v.symbol) # "void" =>
    v.ins = KindOf(Format(v.symbol))

Means(o, v, w) == v.node = o.symbol /\ EntryFits(o, w) /\ Typed(o, v, w) /\ Worded(v, w)

\* The registers stand for the variables.
Held(regs, n) == IF n \in DOMAIN regs[2] THEN regs[2][n] ELSE regs[1][n]

Registers(table, regs, c, w) ==
  /\ table = <<ThisScope(c), ParamScope(c), table[3]>>
  /\ regs = <<ParamScope(c), regs[2]>>
  /\ "this" \notin DOMAIN table[3]
  /\ DOMAIN regs[2] \subseteq DOMAIN table[3]
  /\ DOMAIN table[3] \subseteq DOMAIN regs[1] \cup DOMAIN regs[2]
  /\ \A n \in DOMAIN regs[2] :
       IsSymbol(regs[2][n]) /\ Formed(regs[2][n]) /\ Format(regs[2][n]) # "void"
  /\ \A n \in DOMAIN table[3] :
       /\ IsSymbol(table[3][n]) /\ ~Is(TypeOf(table[3][n]), "void")
       /\ "namesake" \notin w /\ Formed(table[3][n]) =>
            /\ Format(Held(regs, n)) = Format(table[3][n])
            /\ "char" \notin w => Is(TypeOf(Held(regs, n)), TypeOf(table[3][n]).name)

Simulates(s, vals, regs, c, w) ==
  /\ Len(vals) = Len(s.operands)
  /\ \A i \in 1 .. Len(vals) : Means(s.operands[i], vals[i], w)
  /\ Registers(s.table, regs, c, w)

-----------------------------------------------------------------------------
(***************************************************************************)
(* Symbols and formats.                                                    *)
(***************************************************************************)

LEMMA Names == "void" \in Types /\ "bool" \in Types /\ "int32" \in Types /\ "int8" \in Types
                 /\ "float32" \in Types /\ "string" \in Types /\ Specs \subseteq Types
                 /\ "" \notin Types /\ "none" \notin Types
BY SpecsAssumption DEF Types, BuiltinTypes

\* A symbol for a type is its own type.
LEMMA TypeFacts ==
  ASSUME NEW t
  PROVE  LET s == TypeSymbol(t) IN
         /\ IsType(s) /\ TypeOf(s) = s /\ Formed(s) /\ s.name = t /\ s # NoSymbol
         /\ Set([symbol |-> s, result |-> s])
         /\ Format(s) = FormatOf(t) /\ Size(s) = SizeOf(t)
         /\ t \in Types => IsSymbol(s) /\ IsTypeSymbol(s)
<1> DEFINE s == TypeSymbol(t)
<1>1. s.kind = "type" /\ s.name = t
  BY DEF TypeSymbol
<1>2. s # NoSymbol
  <2>1. NoSymbol.kind = "null"
    BY DEF NoSymbol
  <2> QED
    BY <1>1, <2>1
<1>3. IsType(s) /\ TypeOf(s) = s
  BY <1>1 DEF IsType, TypeOf
<1>4. t \in Types => IsTypeSymbol(s)
  BY DEF IsTypeSymbol
<1> QED
  BY <1>1, <1>2, <1>3, <1>4 DEF Formed, Set, Format, Size, IsSymbol

\* A symbol with a name of its own leads to what it returns.
LEMMA FunctionFacts ==
  ASSUME NEW k \in Kinds, NEW n, n # "", NEW u, IsSymbol(u)
  PROVE  LET s == FunctionSymbol(k, n, u) IN
         /\ ~IsType(s) /\ TypeOf(s) = u /\ s.name = n /\ s # NoSymbol /\ IsSymbol(s)
         /\ Formed(s) <=> IsType(u)
<1> DEFINE s == FunctionSymbol(k, n, u)
<1>1. s.kind = k /\ s.name = n /\ s.returns = u
  BY DEF FunctionSymbol
<1>2. k # "type" /\ k # "null"
  BY DEF Kinds
<1>3. s # NoSymbol
  <2>1. NoSymbol.kind = "null"
    BY DEF NoSymbol
  <2> QED
    BY <1>1, <1>2, <2>1
<1>4. ~IsType(s) /\ TypeOf(s) = u
  BY <1>1, <1>2 DEF IsType, TypeOf
<1>5. IsTypeSymbol(u) \/ (u.kind \in Kinds /\ u.name # "")
  BY DEF IsSymbol
<1>6. IsSymbol(s)
  BY <1>1, <1>5 DEF IsSymbol
<1> QED
  BY <1>1, <1>3, <1>4, <1>6 DEF Formed

\* What a symbol leads to.
LEMMA SymbolFacts ==
  ASSUME NEW s, IsSymbol(s)
  PROVE  /\ s # NoSymbol
         /\ TypeOf(s).name # ""
         /\ Formed(s) => /\ IsTypeSymbol(TypeOf(s)) /\ TypeOf(s).name \in Types
                         /\ TypeOf(s) = TypeSymbol(TypeOf(s).name)
         /\ IsType(s) => Formed(s) /\ TypeOf(s) = s
<1>1. NoSymbol.kind = "null" /\ "null" \notin Kinds /\ "type" \notin Kinds
  BY DEF NoSymbol, Kinds
<1>2. CASE IsTypeSymbol(s)
  <2>1. PICK t \in Types : s = TypeSymbol(t)
    BY <1>2 DEF IsTypeSymbol
  <2> QED
    BY <2>1, TypeFacts, Names
<1>3. CASE s.kind \in Kinds /\ IsTypeSymbol(s.returns)
  <2>1. PICK t \in Types : s.returns = TypeSymbol(t)
    BY <1>3 DEF IsTypeSymbol
  <2>2. TypeOf(s) = TypeSymbol(t) /\ ~IsType(s)
    BY <1>1, <1>3, <2>1 DEF TypeOf, IsType
  <2> QED
    BY <1>1, <1>3, <2>1, <2>2, TypeFacts, Names
<1>4. CASE s.kind \in Kinds /\ s.returns.kind \in Kinds /\ s.returns.name # ""
  <2>1. TypeOf(s) = s.returns /\ ~IsType(s)
    BY <1>1, <1>4 DEF TypeOf, IsType
  <2>2. s # NoSymbol /\ ~Formed(s)
    BY <1>1, <1>4, <2>1 DEF Formed, IsType
  <2> QED
    BY <1>4, <2>1, <2>2
<1> QED
  BY <1>2, <1>3, <1>4 DEF IsSymbol

\* The formats, and the types that have them.
LEMMA Formats ==
  ASSUME NEW t
  PROVE  /\ FormatOf(t) \in {"void", "bool", "int", "float", "pointer"}
         /\ FormatOf(t) = "void" <=> t = "void"
         /\ FormatOf(t) = "bool" <=> t = "bool"
         /\ FormatOf(t) = "float" <=> t = "float32"
         /\ t \in Specs => FormatOf(t) = "pointer"
         /\ t = "string" => FormatOf(t) = "pointer"
<1>1. "void" # "bool" /\ "void" # "int32" /\ "void" # "int8" /\ "void" # "float32" /\ "void" # "string"
      /\ "bool" # "int32" /\ "bool" # "int8" /\ "bool" # "float32" /\ "bool" # "string"
      /\ "float32" # "int32" /\ "float32" # "int8" /\ "float32" # "string"
      /\ "string" # "int32" /\ "string" # "int8"
  OBVIOUS
<1>2. t \in Specs => t \notin {"void", "bool", "int32", "float32", "int8"}
  BY SpecsAssumption DEF BuiltinTypes
<1>a. CASE t = "void"
  BY <1>a, <1>1, <1>2 DEF FormatOf
<1>b. CASE t = "bool"
  BY <1>b, <1>1, <1>2 DEF FormatOf
<1>c. CASE t \in {"int32", "int8"}
  BY <1>c, <1>1, <1>2 DEF FormatOf
<1>d. CASE t = "float32"
  BY <1>d, <1>1, <1>2 DEF FormatOf
<1>e. CASE t \notin {"void", "bool", "int32", "int8", "float32"}
  <2>1. FormatOf(t) = "pointer"
    BY <1>e DEF FormatOf
  <2> QED
    BY <1>e, <2>1
<1> QED
  BY <1>a, <1>b, <1>c, <1>d, <1>e

\* The machine words of the formats.
LEMMA Words ==
  /\ KindOf("void") = "i" /\ KindOf("bool") = "i" /\ KindOf("int") = "i"
  /\ KindOf("float") = "f" /\ KindOf("pointer") = "p"
BY DEF KindOf

\* Symbols whose types have the same name have the same format and size.
LEMMA SameName ==
  ASSUME NEW s, NEW u, TypeOf(s).name = TypeOf(u).name
  PROVE  Format(s) = Format(u) /\ Size(s) = Size(u)
BY DEF Format, Size

-----------------------------------------------------------------------------
(***************************************************************************)
(* Stacks.                                                                 *)
(***************************************************************************)
LEMMA SomeSeq ==
  ASSUME NEW S, NEW s \in Seq(S)
  PROVE  IsSeq(s)
<1>1. DOMAIN s = 1 .. Len(s) /\ Len(s) \in Nat /\ s \in [1 .. Len(s) -> S]
  BY LenProperties
<1> DEFINE T == {s[i] : i \in DOMAIN s}
<1>2. s \in [1 .. Len(s) -> T]
  BY <1>1
<1>3. s \in Seq(T)
  BY <1>1, <1>2, SeqDef
<1> QED
  BY <1>3 DEF IsSeq

LEMMA SeqFacts ==
  ASSUME NEW s, IsSeq(s)
  PROVE  Len(s) \in Nat /\ DOMAIN s = 1 .. Len(s)
<1> DEFINE T == {s[i] : i \in DOMAIN s}
<1>1. s \in Seq(T)
  BY DEF IsSeq
<1> HIDE DEF T
<1> QED
  BY <1>1, LenProperties

\* What is left below n operands, and the operands.
LEMMA BelowFacts ==
  ASSUME NEW s, IsSeq(s), NEW n \in 0 .. Len(s)
  PROVE  /\ IsSeq(Below(s, n)) /\ Len(Below(s, n)) = Len(s) - n
         /\ \A i \in 1 .. Len(s) - n : Below(s, n)[i] = s[i]
<1> DEFINE T == {s[i] : i \in DOMAIN s}
           m == Len(s) - n
<1>1. Len(s) \in Nat /\ DOMAIN s = 1 .. Len(s)
  BY SeqFacts
<1>2. m \in Nat /\ m <= Len(s)
  BY <1>1
<1>3. \A i \in 1 .. m : s[i] \in T
  BY <1>1, <1>2
<1> HIDE DEF T, m
<1>4. /\ SubSeq(s, 1, m) \in Seq(T)
      /\ Len(SubSeq(s, 1, m)) = IF 1 <= m THEN m - 1 + 1 ELSE 0
      /\ \A i \in 1 .. m - 1 + 1 : SubSeq(s, 1, m)[i] = s[1 + i - 1]
  BY <1>2, <1>3, SubSeqProperties
<1>5. Len(SubSeq(s, 1, m)) = m /\ \A i \in 1 .. m : SubSeq(s, 1, m)[i] = s[i]
  BY <1>2, <1>4
<1>6. Below(s, n) = SubSeq(s, 1, m)
  BY DEF Below, m
<1>7. IsSeq(Below(s, n))
  BY <1>4, <1>6, SomeSeq
<1>8. Len(Below(s, n)) = m /\ \A i \in 1 .. m : Below(s, n)[i] = s[i]
  BY <1>5, <1>6
<1> QED
  BY <1>7, <1>8 DEF m

LEMMA LastFacts ==
  ASSUME NEW s, IsSeq(s), NEW n \in 0 .. Len(s)
  PROVE  /\ IsSeq(Last(s, n)) /\ Len(Last(s, n)) = n
         /\ \A i \in 1 .. n : Last(s, n)[i] = s[Len(s) - n + i]
<1> DEFINE T == {s[i] : i \in DOMAIN s}
           m == Len(s) - n + 1
           k == Len(s)
<1>1. Len(s) \in Nat /\ DOMAIN s = 1 .. Len(s)
  BY SeqFacts
<1>2. m \in Nat \ {0} /\ m <= k + 1 /\ k \in Nat /\ n = k - m + 1
  BY <1>1
<1>3. \A i \in m .. k : s[i] \in T
  BY <1>1, <1>2
<1>6. Last(s, n) = SubSeq(s, m, k)
  BY DEF Last
<1>9. \A i \in 1 .. n : m + i - 1 = Len(s) - n + i
  BY <1>1
<1> HIDE DEF T, m, k
<1>4. /\ SubSeq(s, m, k) \in Seq(T)
      /\ Len(SubSeq(s, m, k)) = IF m <= k THEN k - m + 1 ELSE 0
      /\ \A i \in 1 .. k - m + 1 : SubSeq(s, m, k)[i] = s[m + i - 1]
  BY <1>2, <1>3, SubSeqProperties
<1>5. Len(SubSeq(s, m, k)) = n /\ \A i \in 1 .. n : SubSeq(s, m, k)[i] = s[m + i - 1]
  BY <1>2, <1>4
<1>7. IsSeq(Last(s, n))
  BY <1>4, <1>6, SomeSeq
<1>8. Len(Last(s, n)) = n /\ \A i \in 1 .. n : Last(s, n)[i] = s[m + i - 1]
  BY <1>5, <1>6
<1> QED
  BY <1>7, <1>8, <1>9

\* A node takes the place of its operands.
Stacked(t, s, n, op, e) ==
  /\ IsSeq(t)
  /\ Len(t) = Len(s) - n + (IF op \in Statements THEN 0 ELSE 1)
  /\ \A i \in 1 .. Len(s) - n : t[i] = s[i]
  /\ op \notin Statements => t[Len(s) - n + 1] = e

LEMMA Replaced ==
  ASSUME NEW s, IsSeq(s), NEW n \in 0 .. Len(s), NEW op, NEW e, NEW t,
         t = Below(s, n) \o Leaves(op, e)
  PROVE  Stacked(t, s, n, op, e)
<1> DEFINE b == Below(s, n)
           l == Leaves(op, e)
           T == {b[i] : i \in DOMAIN b} \cup {e}
<1>1. Len(s) \in Nat
  BY SeqFacts
<1>2. IsSeq(b) /\ Len(b) = Len(s) - n /\ \A i \in 1 .. Len(s) - n : b[i] = s[i]
  BY BelowFacts
<1>3. b \in Seq(T)
  <2>1. b \in Seq({b[i] : i \in DOMAIN b})
    BY <1>2 DEF IsSeq
  <2> QED
    BY <2>1, SeqMonotonic
<1>a. e \in T /\ l = IF op \in Statements THEN <<>> ELSE <<e>>
  BY DEF Leaves
<1>b. Below(s, n) = b /\ Leaves(op, e) = l
  OBVIOUS
<1> HIDE DEF b, l, T
<1>4. /\ l \in Seq(T) /\ Len(l) = IF op \in Statements THEN 0 ELSE 1
      /\ op \notin Statements => l[1] = e
  BY <1>a
<1>5. /\ b \o l \in Seq(T)
      /\ Len(b \o l) = Len(b) + Len(l)
      /\ \A i \in 1 .. Len(b) + Len(l) :
           (b \o l)[i] = IF i <= Len(b) THEN b[i] ELSE l[i - Len(b)]
  BY <1>3, <1>4, ConcatProperties
<1>6. t = b \o l
  BY <1>b
<1>7. IsSeq(t)
  BY <1>5, <1>6, SomeSeq
<1>8. Len(t) = Len(s) - n + (IF op \in Statements THEN 0 ELSE 1)
  BY <1>2, <1>4, <1>5, <1>6
<1>9. \A i \in 1 .. Len(s) - n : t[i] = s[i]
  BY <1>1, <1>2, <1>4, <1>5, <1>6
<1>10. ASSUME op \notin Statements
       PROVE  t[Len(s) - n + 1] = e
  <2>1. Len(b) + 1 \in 1 .. Len(b) + Len(l) /\ ~(Len(b) + 1 <= Len(b)) /\ Len(b) + 1 - Len(b) = 1
    BY <1>1, <1>2, <1>4, <1>10
  <2>2. (b \o l)[Len(b) + 1] = l[Len(b) + 1 - Len(b)]
    BY <2>1, <1>5
  <2> QED
    BY <2>1, <2>2, <1>2, <1>4, <1>6, <1>10
<1> QED
  BY <1>7, <1>8, <1>9, <1>10 DEF Stacked

-----------------------------------------------------------------------------
(***************************************************************************)
(* The checker leaves a history.                                           *)
(***************************************************************************)

\* What was judged stays judged when more unusual things happen.
LEMMA StillJudged ==
  ASSUME NEW node, NEW s, NEW t, NEW c, NEW w, NEW v, w \subseteq v, Judged(node, s, t, c, w)
  PROVE  Judged(node, s, t, c, v)
<1>0. \A x : x \in w => x \in v
  OBVIOUS
<1>1. JudgedLeaf(node, s, w) => JudgedLeaf(node, s, v)
  BY <1>0, Zenon DEF JudgedLeaf
<1>2. ASSUME NEW l, NEW r, JudgedBinary(node, l, r, w)
      PROVE  JudgedBinary(node, l, r, v)
  <2>1. Namesakes(l.result, r.result) \subseteq w => Namesakes(l.result, r.result) \subseteq v
    BY <1>0, Zenon
  <2>2. Matched(l, r, w) => Matched(l, r, v)
    BY <2>1, Zenon DEF Matched
  <2>3. OfAnother(l) \subseteq w => OfAnother(l) \subseteq v
    BY <1>0, Zenon
  <2> QED
    BY <1>0, <1>2, <2>2, <2>3, Zenon DEF JudgedBinary
<1>3. \A a : JudgedUnary(node, a, w) => JudgedUnary(node, a, v)
  BY Zenon DEF JudgedUnary
<1>4. JudgedCall(node, s, w) => JudgedCall(node, s, v)
  BY <1>0, Zenon DEF JudgedCall
<1>5. JudgedProperty(node, s, w) => JudgedProperty(node, s, v)
  BY <1>0, Zenon DEF JudgedProperty
<1>6. JudgedStatement(node, s, c, w) => JudgedStatement(node, s, c, v)
  BY <1>0, Zenon DEF JudgedStatement
<1> QED
  BY <1>1, <1>2, <1>3, <1>4, <1>5, <1>6, Zenon DEF Judged

LEMMA StillWalked ==
  ASSUME NEW node, NEW s, NEW t, NEW c, NEW w, NEW v, w \subseteq v, Walked(node, s, t, c, w)
  PROVE  Walked(node, s, t, c, v)
<1>1. Judged(node, s, t, c, w)
  BY DEF Walked
<1>2. Judged(node, s, t, c, v)
  BY <1>1, StillJudged
<1>3. \A S : S \subseteq w => S \subseteq v
  OBVIOUS
<1> QED
  BY <1>2, <1>3, Zenon DEF Walked

\* A history is made longer by a node.
Appended(longer, nodes, node) == longer = Append(nodes, node)
Longer(longer, nodes, node) ==
  /\ IsSeq(longer) /\ Len(longer) = Len(nodes) + 1 /\ longer[Len(nodes) + 1] = node
  /\ \A i \in 1 .. Len(nodes) : longer[i] = nodes[i]
Extended(longer, t, c, v) == \E g : History(g, longer, t, c, v)

LEMMA Extend ==
  ASSUME NEW h, NEW nodes, NEW now, NEW c, NEW w, History(h, nodes, now, c, w),
         IsSeq(nodes), NEW node, NEW longer, Appended(longer, nodes, node),
         NEW t, NEW v, w \subseteq v, Walked(node, now, t, c, v)
  PROVE  Extended(longer, t, c, v) /\ Longer(longer, nodes, node)
<1> DEFINE n == Len(nodes)
           T == {nodes[i] : i \in DOMAIN nodes} \cup {node}
           g == [i \in 0 .. n + 1 |-> IF i = n + 1 THEN t ELSE h[i]]
<1>1. n \in Nat
  BY SeqFacts
<1>2. nodes \in Seq(T) /\ node \in T
  <2>1. nodes \in Seq({nodes[i] : i \in DOMAIN nodes})
    BY DEF IsSeq
  <2> QED
    BY <2>1, SeqMonotonic
<1> HIDE DEF T
<1>3. /\ longer \in Seq(T) /\ Len(longer) = n + 1 /\ longer[n + 1] = node
      /\ \A i \in 1 .. n : longer[i] = nodes[i]
  BY <1>2, AppendProperties DEF Appended
<1>4. IsSeq(longer)
  BY <1>3, SomeSeq
<1> HIDE DEF n
<1>5. g[n + 1] = t /\ \A i \in 0 .. n : g[i] = h[i]
  BY <1>1
<1> HIDE DEF g
<1>6. /\ \A i \in 0 .. n : IsSeq(h[i].operands)
      /\ h[0] = Start(c) /\ h[n] = now
      /\ \A i \in 1 .. n : Walked(nodes[i], h[i - 1], h[i], c, w)
  BY DEF History, n
<1>7. 0 \in 0 .. n /\ n \in 0 .. n /\ \A i \in 0 .. n + 1 : i \in 0 .. n \/ i = n + 1
  BY <1>1
<1>8. IsSeq(t.operands)
  <2>1. IsSeq(now.operands)
    BY <1>6, <1>7
  <2>2. /\ node.count \in 0 .. Len(now.operands)
        /\ t.operands = Below(now.operands, node.count) \o Leaves(node.op, EntryOf(node))
    BY DEF Walked
  <2>3. ASSUME NEW q, q = now.operands, NEW u, u = t.operands, NEW m, m = node.count
        PROVE  IsSeq(u)
    <3>1. IsSeq(q) /\ m \in 0 .. Len(q) /\ u = Below(q, m) \o Leaves(node.op, EntryOf(node))
      BY <2>1, <2>2, <2>3
    <3> QED
      BY <3>1, Replaced DEF Stacked
  <2> QED
    BY <2>3
<1>9. ASSUME NEW i \in 1 .. n + 1
      PROVE  Walked(longer[i], g[i - 1], g[i], c, v)
  <2>1. CASE i = n + 1
    <3>1. g[i - 1] = now
      BY <2>1, <1>1, <1>5, <1>6, <1>7
    <3> QED
      BY <3>1, <2>1, <1>3, <1>5
  <2>2. CASE i \in 1 .. n
    <3>1. Walked(nodes[i], h[i - 1], h[i], c, w)
      BY <2>2, <1>6
    <3>2. Walked(nodes[i], h[i - 1], h[i], c, v)
      BY <3>1, StillWalked
    <3>3. longer[i] = nodes[i] /\ g[i - 1] = h[i - 1] /\ g[i] = h[i]
      BY <2>2, <1>1, <1>3, <1>5
    <3> QED
      BY <3>2, <3>3
  <2>3. i = n + 1 \/ i \in 1 .. n
    BY <1>1
  <2> QED
    BY <2>1, <2>2, <2>3
<1>10. \A i \in 0 .. n + 1 : IsSeq(g[i].operands)
  BY <1>5, <1>6, <1>7, <1>8
<1>11. History(g, longer, t, c, v)
  BY <1>3, <1>5, <1>6, <1>7, <1>9, <1>10 DEF History
<1> QED
  BY <1>3, <1>4, <1>11 DEF n, Longer, Extended

\* The checker's state, after the nodes so far; and its step to the next
\* node, or to its end.
Now == [operands |-> operands, table |-> symbol_table]

Accepted(node, why) ==
  /\ phase = "check" /\ phase' = "check"
  /\ ast' = Append(ast, node)
  /\ node.count \in 0 .. Len(operands)
  /\ operands' = Below(operands, node.count) \o Leaves(node.op, EntryOf(node))
  /\ odd' = odd \cup why \cup Relayed(Last(operands, node.count))

Halted ==
  /\ phase' \in {"rejected", "undefined"}
  /\ phase' = "undefined" => odd' \cap {"unset", "relayed"} # {}

LEMMA Accepting ==
  ASSUME phase = "check", NEW op, NEW data, NEW n \in 0 .. Len(operands), NEW v, Accept(op, data, n, v)
  PROVE  \E node : /\ Accepted(node, v.why)
                   /\ node.op = op /\ node.data = data /\ node.count = n
                   /\ node.symbol = v.symbol /\ node.result = v.result
<1> DEFINE node == [op |-> op, data |-> data, count |-> n,
                    symbol |-> v.symbol, result |-> v.result]
<1>1. /\ node.op = op /\ node.data = data /\ node.count = n
      /\ node.symbol = v.symbol /\ node.result = v.result
  OBVIOUS
<1>2. /\ ast' = Append(ast, node)
      /\ operands' = Below(operands, n)
                       \o Leaves(op, [result |-> v.result, symbol |-> Seen(op, v.symbol)])
      /\ odd' = odd \cup v.why \cup Relayed(Last(operands, n))
      /\ phase' = phase
  BY DEF Accept
<1> HIDE DEF node
<1>3. EntryOf(node) = [result |-> v.result, symbol |-> Seen(op, v.symbol)]
  BY <1>1 DEF EntryOf
<1>4. Accepted(node, v.why)
  BY <1>1, <1>2, <1>3 DEF Accepted
<1> QED
  BY <1>1, <1>4

LEMMA Handling ==
  ASSUME IsSeq(operands), NEW op, NEW data, NEW n \in Nat, NEW k, NEW verdicts,
         HandleAll(op, data, n, k, verdicts)
  PROVE  /\ phase = "check" /\ <<op, data>> \in family.walks
         /\ UNCHANGED <<context, family, gen_vars>>
         /\ \/ Halted
            \/ \E v \in verdicts : \E node :
                 /\ v.set /\ v.formed /\ v.allowed /\ \A i \in 1 .. k : Set(Operand(i))
                 /\ symbol_table' = symbol_table
                 /\ Accepted(node, v.why)
                 /\ node.op = op /\ node.data = data /\ node.count = n
                 /\ node.symbol = v.symbol /\ node.result = v.result
<1>1. Walks(op, data, n) /\ phase = "check"
  BY DEF HandleAll, Walks
<1>2. n \in 0 .. Len(operands)
  BY <1>1, SeqFacts DEF Walks
<1>3. \A why : why \cap {"unset", "relayed"} # {} /\ Ends("undefined", why) => Halted
  BY DEF Ends, Halted
<1>4. Ends("undefined", {"unset"}) \/ Ends("undefined", {"relayed"}) => Halted
  BY <1>3
<1>5. Reject => Halted
  BY DEF Reject, Ends, Halted
<1>6. CASE \E i \in 1 .. k : ~Set(Operand(i))
  BY <1>1, <1>4, <1>6 DEF HandleAll, Walks
<1>7. CASE ~\E i \in 1 .. k : ~Set(Operand(i))
  <2>1. CASE verdicts = {} /\ Reject
    BY <2>1, <1>1, <1>5 DEF Walks
  <2>2. ASSUME NEW v \in verdicts,
               \/ ~v.set /\ Ends("undefined", {"unset"})
               \/ v.set /\ ~v.formed /\ Ends("undefined", {"relayed"})
               \/ v.set /\ v.formed /\ ~v.allowed /\ Reject
        PROVE  Halted
    BY <2>2, <1>4, <1>5
  <2>3. ASSUME NEW v \in verdicts, v.set, v.formed, v.allowed, Accept(op, data, n, v),
               UNCHANGED symbol_table
        PROVE  \E node : /\ Accepted(node, v.why)
                         /\ node.op = op /\ node.data = data /\ node.count = n
                         /\ node.symbol = v.symbol /\ node.result = v.result
    BY <2>3, <1>1, <1>2, Accepting
  <2>4. \/ verdicts = {} /\ Reject
        \/ \E v \in verdicts :
             \/ ~v.set /\ Ends("undefined", {"unset"})
             \/ v.set /\ ~v.formed /\ Ends("undefined", {"relayed"})
             \/ v.set /\ v.formed /\ ~v.allowed /\ Reject
             \/ /\ v.set /\ v.formed /\ v.allowed
                /\ Accept(op, data, n, v)
                /\ UNCHANGED symbol_table
    BY <1>7 DEF HandleAll
  <2> QED
    BY <1>1, <1>7, <2>1, <2>2, <2>3, <2>4 DEF Walks
<1> QED
  BY <1>6, <1>7

\* A node bears what a verdict allows.
Bears(node, v, w) ==
  /\ v.set /\ v.formed /\ v.allowed /\ v.why \subseteq w
  /\ node.symbol = v.symbol /\ node.result = v.result

LEMMA LeavesJudged ==
  ASSUME NEW node, NEW s, NEW w
  PROVE  /\ \A t \in {"bool", "int32", "float32", "string"} :
              node.op = "literal" /\ node.data = t /\ Bears(node, TypeLiteral(t), w)
                => JudgedLeaf(node, s, w)
         /\ node.op = "char" /\ Bears(node, TypeChar, w) => JudgedLeaf(node, s, w)
         /\ \A t \in Types :
              node.op = "default" /\ node.data = t /\ Bears(node, TypeDefault(t), w)
                => JudgedLeaf(node, s, w)
         /\ \A n : node.op = "variable" /\ node.data = n /\ IsBound(s.table, n)
                     /\ Bears(node, TypeVariable(n, Get(s.table, n)), w)
                   => JudgedLeaf(node, s, w)
<1>1. ASSUME NEW t \in {"bool", "int32", "float32", "string"},
             node.op = "literal", node.data = t, Bears(node, TypeLiteral(t), w)
      PROVE  JudgedLeaf(node, s, w)
  <2>1. /\ TypeLiteral(t).symbol = TypeSymbol(t) /\ TypeLiteral(t).result = TypeSymbol(t)
        /\ TypeLiteral(t).why = {t} \cap {"string"}
    BY DEF TypeLiteral, Gives
  <2> QED
    BY <1>1, <2>1 DEF Bears, JudgedLeaf
<1>2. ASSUME node.op = "char", Bears(node, TypeChar, w)
      PROVE  JudgedLeaf(node, s, w)
  <2>1. /\ TypeChar.symbol = TypeSymbol("int32") /\ TypeChar.result = TypeSymbol("int8")
        /\ TypeChar.why = {"char"}
    BY DEF TypeChar, Gives
  <2> QED
    BY <1>2, <2>1 DEF Bears, JudgedLeaf
<1>3. ASSUME NEW t \in Types, node.op = "default", node.data = t, Bears(node, TypeDefault(t), w)
      PROVE  JudgedLeaf(node, s, w)
  <2>1. TypeDefault(t).symbol = TypeSymbol(t) /\ TypeDefault(t).result = TypeSymbol(t)
    BY DEF TypeDefault, Gives
  <2> QED
    BY <1>3, <2>1 DEF Bears, JudgedLeaf
<1>4. ASSUME NEW n, node.op = "variable", node.data = n, IsBound(s.table, n),
             Bears(node, TypeVariable(n, Get(s.table, n)), w)
      PROVE  JudgedLeaf(node, s, w)
  <2> DEFINE u == Get(s.table, n)
  <2>1. /\ TypeVariable(n, u).symbol = u /\ TypeVariable(n, u).result = u
        /\ TypeVariable(n, u).why = IF n = "this" /\ ~IsType(u) THEN {"namesake"} ELSE {}
    BY DEF TypeVariable, Gives
  <2>2. node.symbol = u /\ node.result = u
    BY <1>4, <2>1 DEF Bears
  <2>3. n = "this" => IsType(u) \/ "namesake" \in w
    BY <1>4, <2>1 DEF Bears
  <2> QED
    BY <1>4, <2>2, <2>3 DEF JudgedLeaf
<1>5. \A n : node.op = "variable" /\ node.data = n /\ IsBound(s.table, n)
              /\ Bears(node, TypeVariable(n, Get(s.table, n)), w)
            => JudgedLeaf(node, s, w)
  BY <1>4
<1>6. \A t \in {"bool", "int32", "float32", "string"} :
        node.op = "literal" /\ node.data = t /\ Bears(node, TypeLiteral(t), w)
          => JudgedLeaf(node, s, w)
  BY <1>1, Zenon
<1>7. \A t \in Types :
        node.op = "default" /\ node.data = t /\ Bears(node, TypeDefault(t), w)
          => JudgedLeaf(node, s, w)
  BY <1>3
<1> QED
  BY <1>2, <1>5, <1>6, <1>7, Zenon

LEMMA NumericJudged ==
  ASSUME NEW node, NEW o, NEW l, NEW r, NEW w, Bears(node, TypeNumeric(o, l, r), w)
  PROVE  /\ Matched(l, r, w)
         /\ Numbers(node, o, Resultant(l.result, r.result))
         /\ node.result = TypeOf(Resultant(l.result, r.result))
<1> DEFINE v == TypeNumeric(o, l, r)
           u == Resultant(l.result, r.result)
<1>1. /\ v.symbol = o.symbol /\ v.result = TypeOf(u) /\ v.set = Set(o)
      /\ v.formed = (Formed(u) \/ ~Matches(l.result, r.result))
      /\ v.allowed = (Matches(l.result, r.result) /\ Format(u) \in Numeric)
      /\ v.why = Namesakes(l.result, r.result)
  BY DEF TypeNumeric, Gives
<1>2. v.set /\ v.formed /\ v.allowed /\ v.why \subseteq w /\ node.symbol = v.symbol
      /\ node.result = v.result
  BY DEF Bears
<1>3. Set(o) /\ Matches(l.result, r.result) /\ Formed(u) /\ Format(u) \in Numeric
      /\ Namesakes(l.result, r.result) \subseteq w
      /\ node.symbol = o.symbol /\ node.result = TypeOf(u)
  BY <1>1, <1>2
<1> QED
  BY <1>3 DEF Matched, Numbers

LEMMA BinaryJudged ==
  ASSUME NEW node, NEW l, NEW r, NEW w
  PROVE  /\ node.op = "add" /\ Bears(node, TypeAdd(l, r), w) => JudgedBinary(node, l, r, w)
         /\ node.op = "sub" /\ Bears(node, TypeSub(l, r), w) => JudgedBinary(node, l, r, w)
         /\ node.op = "multiply" /\ node.data \in {"mul", "div", "mod"}
              /\ Bears(node, TypeMultiply(l, r), w) => JudgedBinary(node, l, r, w)
         /\ node.op = "ordering" /\ Bears(node, TypeOrdering(l, r), w)
              => JudgedBinary(node, l, r, w)
         /\ node.op = "equality" /\ Bears(node, TypeEquality(l, r), w)
              => JudgedBinary(node, l, r, w)
         /\ node.op = "logic" /\ Bears(node, TypeLogic(l, r), w)
              => JudgedBinary(node, l, r, w)
<1>1. ASSUME node.op = "add", Bears(node, TypeAdd(l, r), w)
      PROVE  JudgedBinary(node, l, r, w)
  <2> DEFINE v == TypeAdd(l, r)
  <2>1. /\ v.symbol = l.result /\ v.result = Resultant(l.result, r.result)
        /\ v.formed = Formed(l.result)
        /\ v.allowed = (/\ Format(l.result) \in Numeric \/ Is(TypeOf(l.result), "string")
                        /\ Matches(l.result, r.result))
        /\ v.why = Namesakes(l.result, r.result)
                     \cup ({"string"} \cap {TypeOf(l.result).name})
                     \cup (IF Set(l) THEN {} ELSE {"unset"})
    BY DEF TypeAdd, Gives
  <2>2. v.formed /\ v.allowed /\ v.why \subseteq w /\ node.symbol = v.symbol
        /\ node.result = v.result
    BY <1>1 DEF Bears
  <2>3. /\ Formed(l.result)
        /\ Format(l.result) \in Numeric \/ Is(TypeOf(l.result), "string")
        /\ Matches(l.result, r.result)
        /\ node.symbol = l.result /\ node.result = Resultant(l.result, r.result)
    BY <2>1, <2>2
  <2>4. Is(TypeOf(l.result), "string") => "string" \in w
    BY <2>1, <2>2 DEF Is
  <2>5. Namesakes(l.result, r.result) \subseteq w /\ (Set(l) \/ "unset" \in w)
    BY <2>1, <2>2
  <2> QED
    BY <1>1, <2>3, <2>4, <2>5 DEF JudgedBinary, Matched
<1>2. ASSUME node.op = "sub", Bears(node, TypeSub(l, r), w)
      PROVE  JudgedBinary(node, l, r, w)
  BY <1>2, NumericJudged DEF TypeSub, JudgedBinary
<1>3. ASSUME node.op = "multiply", node.data \in {"mul", "div", "mod"},
             Bears(node, TypeMultiply(l, r), w)
      PROVE  JudgedBinary(node, l, r, w)
  BY <1>3, NumericJudged DEF TypeMultiply, JudgedBinary
<1>4. ASSUME node.op = "ordering", Bears(node, TypeOrdering(l, r), w)
      PROVE  JudgedBinary(node, l, r, w)
  <2> DEFINE v == TypeOrdering(l, r)
             u == TypeNumeric(l, l, r)
             m == Resultant(l.result, r.result)
  <2>1. /\ v.symbol = l.symbol /\ v.result = TypeSymbol("bool") /\ v.set = Set(l)
        /\ v.formed = (Formed(m) \/ ~Matches(l.result, r.result))
        /\ v.allowed = (Matches(l.result, r.result) /\ Format(m) \in Numeric)
        /\ v.why = Namesakes(l.result, r.result)
    BY DEF TypeOrdering, TypeNumeric, Gives
  <2>2. v.set /\ v.formed /\ v.allowed /\ v.why \subseteq w /\ node.symbol = v.symbol
        /\ node.result = v.result
    BY <1>4 DEF Bears
  <2>3. Set(l) /\ Matches(l.result, r.result) /\ Formed(m) /\ Format(m) \in Numeric
        /\ Namesakes(l.result, r.result) \subseteq w
        /\ node.symbol = l.symbol /\ node.result = TypeSymbol("bool")
    BY <2>1, <2>2
  <2> QED
    BY <1>4, <2>3 DEF JudgedBinary, Matched, Numbers
<1>5. ASSUME node.op = "equality", Bears(node, TypeEquality(l, r), w)
      PROVE  JudgedBinary(node, l, r, w)
  <2> DEFINE v == TypeEquality(l, r)
  <2>1. /\ v.symbol = l.symbol /\ v.result = TypeSymbol("bool") /\ v.set = Set(l)
        /\ v.allowed = Matches(l.result, r.result)
        /\ v.why = Namesakes(l.result, r.result) \cup OfAnother(l)
                     \cup ({TypeOf(l.result).name} \cap {"bool", "void"})
                     \cup (IF Set(l) THEN {TypeOf(l.symbol).name} \cap {"void"} ELSE {})
    BY DEF TypeEquality, Gives
  <2>2. v.set /\ v.allowed /\ v.why \subseteq w /\ node.symbol = v.symbol
        /\ node.result = v.result
    BY <1>5 DEF Bears
  <2>3. Set(l) /\ Matches(l.result, r.result)
        /\ node.symbol = l.symbol /\ node.result = TypeSymbol("bool")
    BY <2>1, <2>2
  <2>4. Namesakes(l.result, r.result) \subseteq w /\ OfAnother(l) \subseteq w
    BY <2>1, <2>2
  <2>5. Is(TypeOf(l.result), "bool") => "bool" \in w
    BY <2>1, <2>2 DEF Is
  <2>6. Is(TypeOf(l.result), "void") \/ Is(TypeOf(l.symbol), "void") => "void" \in w
    BY <2>1, <2>2, <2>3 DEF Is
  <2> QED
    BY <1>5, <2>3, <2>4, <2>5, <2>6 DEF JudgedBinary, Matched
<1>6. ASSUME node.op = "logic", Bears(node, TypeLogic(l, r), w)
      PROVE  JudgedBinary(node, l, r, w)
  <2> DEFINE v == TypeLogic(l, r)
  <2>1. /\ v.symbol = l.symbol /\ v.result = r.result /\ v.set = Set(l)
        /\ v.allowed = (Is(TypeOf(l.result), "bool") /\ Is(TypeOf(r.result), "bool"))
    BY DEF TypeLogic, Gives
  <2>2. v.set /\ v.allowed /\ node.symbol = v.symbol /\ node.result = v.result
    BY <1>6 DEF Bears
  <2> QED
    BY <1>6, <2>1, <2>2 DEF JudgedBinary
<1> QED
  BY <1>1, <1>2, <1>3, <1>4, <1>5, <1>6

LEMMA UnaryJudged ==
  ASSUME NEW node, NEW a, NEW w
  PROVE  /\ node.op = "negate" /\ Bears(node, TypeSub(AnyType, a), w) => JudgedUnary(node, a, w)
         /\ node.op = "not" /\ Bears(node, TypeNot(a), w) => JudgedUnary(node, a, w)
<1>1. ASSUME node.op = "negate", Bears(node, TypeSub(AnyType, a), w)
      PROVE  JudgedUnary(node, a, w)
  <2>1. AnyType.result = TypeSymbol("none")
    BY DEF AnyType
  <2>2. Is(TypeSymbol("none"), "none")
    BY TypeFacts DEF Is
  <2>3. Resultant(AnyType.result, a.result) = a.result
    BY <2>1, <2>2 DEF Resultant
  <2>4. Bears(node, TypeNumeric(a, AnyType, a), w)
    BY <1>1 DEF TypeSub
  <2>5. /\ Numbers(node, a, Resultant(AnyType.result, a.result))
        /\ node.result = TypeOf(Resultant(AnyType.result, a.result))
    BY <2>4, NumericJudged
  <2> QED
    BY <1>1, <2>3, <2>5 DEF JudgedUnary
<1>2. ASSUME node.op = "not", Bears(node, TypeNot(a), w)
      PROVE  JudgedUnary(node, a, w)
  <2> DEFINE v == TypeNot(a)
  <2>1. /\ v.symbol = a.symbol /\ v.result = a.result
        /\ v.set = (Set(a) \/ ~Is(TypeOf(a.result), "bool"))
        /\ v.allowed = Is(TypeOf(a.result), "bool")
    BY DEF TypeNot, Gives
  <2>2. v.set /\ v.allowed /\ node.symbol = v.symbol /\ node.result = v.result
    BY <1>2 DEF Bears
  <2> QED
    BY <1>2, <2>1, <2>2 DEF JudgedUnary
<1> QED
  BY <1>1, <1>2

\* The checker walked on, over one node.
WalkedOn ==
  \E node : /\ ast' = Append(ast, node) /\ phase' = "check"
            /\ Walked(node, Now, Now', context, odd') /\ odd \subseteq odd'

LEMMA Judging ==
  ASSUME NEW node, NEW why, Accepted(node, why), Judged(node, Now, Now', context, odd')
  PROVE  WalkedOn
<1>1. Now.operands = operands /\ Now'.operands = operands'
  BY DEF Now
<1>2. odd \subseteq odd' /\ Relayed(Last(operands, node.count)) \subseteq odd'
  BY DEF Accepted
<1>3. /\ ast' = Append(ast, node) /\ phase' = "check"
      /\ node.count \in 0 .. Len(operands)
      /\ operands' = Below(operands, node.count) \o Leaves(node.op, EntryOf(node))
  BY DEF Accepted
<1>4. Walked(node, Now, Now', context, odd')
  BY <1>1, <1>2, <1>3 DEF Walked
<1> QED
  BY <1>2, <1>3, <1>4 DEF WalkedOn

LEMMA Numbers012 == 0 \in Nat /\ 1 \in Nat /\ 2 \in Nat
OBVIOUS

\* The nodes that bear a verdict are judged.
Judges(op, data, n, v) ==
  \A node : Bears(node, v, odd') /\ symbol_table' = symbol_table
              /\ node.op = op /\ node.data = data /\ node.count = n
              /\ <<op, data>> \in family.walks
            => Judged(node, Now, Now', context, odd')

\* A handler halts, or walks on if what it allows is judged.
LEMMA Handled ==
  ASSUME IsSeq(operands), NEW op, NEW data, NEW n \in Nat, NEW k, NEW verdicts,
         HandleAll(op, data, n, k, verdicts), \A v \in verdicts : Judges(op, data, n, v)
  PROVE  (Halted \/ WalkedOn) /\ UNCHANGED <<context, family, gen_vars>>
<1>1. /\ <<op, data>> \in family.walks
      /\ UNCHANGED <<context, family, gen_vars>>
      /\ \/ Halted
         \/ \E v \in verdicts : \E node :
              /\ v.set /\ v.formed /\ v.allowed /\ \A i \in 1 .. k : Set(Operand(i))
              /\ symbol_table' = symbol_table
              /\ Accepted(node, v.why)
              /\ node.op = op /\ node.data = data /\ node.count = n
              /\ node.symbol = v.symbol /\ node.result = v.result
  BY Handling
<1>2. ASSUME NEW v \in verdicts, NEW node,
             v.set, v.formed, v.allowed, symbol_table' = symbol_table, Accepted(node, v.why),
             node.op = op, node.data = data, node.count = n,
             node.symbol = v.symbol, node.result = v.result
      PROVE  WalkedOn
  <2>1. v.why \subseteq odd'
    BY <1>2 DEF Accepted
  <2>2. Bears(node, v, odd')
    BY <1>2, <2>1 DEF Bears
  <2>3. Judged(node, Now, Now', context, odd')
    BY <1>1, <1>2, <2>2 DEF Judges
  <2> QED
    BY <1>2, <2>3, Judging
<1> QED
  BY <1>1, <1>2

LEMMA HandledOne ==
  ASSUME IsSeq(operands), NEW op, NEW data, NEW n \in Nat, NEW v,
         Handle(op, data, n, v), Judges(op, data, n, v)
  PROVE  (Halted \/ WalkedOn) /\ UNCHANGED <<context, family, gen_vars>>
<1>1. HandleAll(op, data, n, 0, {v})
  BY DEF Handle
<1>2. \A u \in {v} : Judges(op, data, n, u)
  OBVIOUS
<1> QED
  BY <1>1, <1>2, Handled

LEMMA OperandOf ==
  /\ \A i : Opd(Now, i) = Operand(i)
  /\ Now.table = symbol_table
  /\ symbol_table' = symbol_table => Now'.table = Now.table
  /\ \A f, n : f.params = Arguments(n) => Takes(f, Now, n)
<1>1. Now.operands = operands /\ Now.table = symbol_table /\ Now'.table = symbol_table'
  BY DEF Now
<1>2. \A i : Opd(Now, i) = Operand(i)
  BY <1>1 DEF Opd, Operand
<1>3. \A f, n : f.params = Arguments(n) => Takes(f, Now, n)
  BY <1>2 DEF Takes, Arguments
<1> QED
  BY <1>1, <1>2, <1>3

LEMMA StepLeaf ==
  ASSUME IsSeq(operands), family \in Families, NEW d,
         \/ CheckLiteral(d) \/ CheckChar \/ CheckDefault(d) \/ CheckVariable(d)
  PROVE  (Halted \/ WalkedOn) /\ UNCHANGED <<context, family, gen_vars>>
<1> USE OperandOf
<1>1. CASE CheckLiteral(d)
  <2>1. Handle("literal", d, 0, TypeLiteral(d))
    BY <1>1 DEF CheckLiteral
  <2>2. ASSUME NEW node, Bears(node, TypeLiteral(d), odd'),
               symbol_table' = symbol_table,
               node.op = "literal", node.data = d, node.count = 0,
               <<"literal", d>> \in family.walks
        PROVE  Judged(node, Now, Now', context, odd')
    <3>1. d \in {"bool", "int32", "float32", "string"}
      BY <2>2, FamiliesAssumption
    <3>2. JudgedLeaf(node, Now, odd')
      BY <2>2, <3>1, LeavesJudged
    <3> QED
      BY <2>2, <3>2 DEF Judged
  <2>3. Judges("literal", d, 0, TypeLiteral(d))
    BY <2>2 DEF Judges
  <2> QED
    BY <2>1, <2>3, Numbers012, HandledOne
<1>2. CASE CheckChar
  <2>1. Handle("char", "", 0, TypeChar)
    BY <1>2 DEF CheckChar
  <2>2. ASSUME NEW node, Bears(node, TypeChar, odd'),
               symbol_table' = symbol_table,
               node.op = "char", node.data = "", node.count = 0,
               <<"char", "">> \in family.walks
        PROVE  Judged(node, Now, Now', context, odd')
    <3>2. JudgedLeaf(node, Now, odd')
      BY <2>2, LeavesJudged
    <3> QED
      BY <2>2, <3>2 DEF Judged
  <2>3. Judges("char", "", 0, TypeChar)
    BY <2>2 DEF Judges
  <2> QED
    BY <2>1, <2>3, Numbers012, HandledOne
<1>3. CASE CheckDefault(d)
  <2>1. Handle("default", d, 0, TypeDefault(d))
    BY <1>3 DEF CheckDefault
  <2>2. ASSUME NEW node, Bears(node, TypeDefault(d), odd'),
               symbol_table' = symbol_table,
               node.op = "default", node.data = d, node.count = 0,
               <<"default", d>> \in family.walks
        PROVE  Judged(node, Now, Now', context, odd')
    <3>1. d \in Types
      BY <2>2, FamiliesAssumption
    <3>2. JudgedLeaf(node, Now, odd')
      BY <2>2, <3>1, LeavesJudged
    <3> QED
      BY <2>2, <3>2 DEF Judged
  <2>3. Judges("default", d, 0, TypeDefault(d))
    BY <2>2 DEF Judges
  <2> QED
    BY <2>1, <2>3, Numbers012, HandledOne
<1>4. CASE CheckVariable(d)
  <2> DEFINE V == {TypeVariable(d, s) : s \in IF IsBound(symbol_table, d)
                                              THEN {Get(symbol_table, d)} ELSE {}}
  <2>1. HandleAll("variable", d, 0, 0, V)
    BY <1>4 DEF CheckVariable
  <2>2. ASSUME NEW v \in V, NEW node, Bears(node, v, odd'),
               symbol_table' = symbol_table,
               node.op = "variable", node.data = d, node.count = 0,
               <<"variable", d>> \in family.walks
        PROVE  Judged(node, Now, Now', context, odd')
    <3>1. IsBound(Now.table, d) /\ v = TypeVariable(d, Get(Now.table, d))
      BY <2>2
    <3>2. JudgedLeaf(node, Now, odd')
      BY <2>2, <3>1, LeavesJudged
    <3> QED
      BY <2>2, <3>2 DEF Judged
  <2> HIDE DEF V
  <2>3. \A v \in V : Judges("variable", d, 0, v)
    BY <2>2 DEF Judges
  <2> QED
    BY <2>1, <2>3, Numbers012, Handled
<1> QED
  BY <1>1, <1>2, <1>3, <1>4

LEMMA StepOperator ==
  ASSUME IsSeq(operands), family \in Families, NEW d,
         \/ CheckAdd \/ CheckSub \/ CheckNegate \/ CheckMultiply(d) \/ CheckOrdering
         \/ CheckEquality \/ CheckNot \/ CheckLogic
  PROVE  (Halted \/ WalkedOn) /\ UNCHANGED <<context, family, gen_vars>>
<1> DEFINE l == Operand(2)
           r == Operand(1)
<1>0. /\ Opd(Now, 2) = l /\ Opd(Now, 1) = r
      /\ symbol_table' = symbol_table => Now'.table = Now.table
  BY OperandOf
<1>a. ASSUME NEW op, NEW data, NEW v,
             ASSUME NEW node, node.op = op, node.data = data, Bears(node, v, odd'),
                    <<op, data>> \in family.walks
             PROVE  JudgedBinary(node, l, r, odd')
      PROVE  Judges(op, data, 2, v)
  BY <1>0, <1>a, Zenon DEF Judges, Judged
<1>b. ASSUME NEW op, NEW data, NEW v,
             ASSUME NEW node, node.op = op, node.data = data, Bears(node, v, odd'),
                    <<op, data>> \in family.walks
             PROVE  JudgedUnary(node, r, odd')
      PROVE  Judges(op, data, 1, v)
  BY <1>0, <1>b, Zenon DEF Judges, Judged
<1>1. CASE CheckAdd
  <2>1. Handle("add", "", 2, TypeAdd(l, r))
    BY <1>1 DEF CheckAdd
  <2>2. ASSUME NEW node, node.op = "add", node.data = "", Bears(node, TypeAdd(l, r), odd'),
               <<"add", "">> \in family.walks
        PROVE  JudgedBinary(node, l, r, odd')
    BY <2>2, BinaryJudged
  <2>3. Judges("add", "", 2, TypeAdd(l, r))
    BY <1>a, <2>2
  <2> QED
    BY <2>1, <2>3, Numbers012, HandledOne
<1>2. CASE CheckSub
  <2>1. Handle("sub", "", 2, TypeSub(l, r))
    BY <1>2 DEF CheckSub
  <2>2. ASSUME NEW node, node.op = "sub", node.data = "", Bears(node, TypeSub(l, r), odd'),
               <<"sub", "">> \in family.walks
        PROVE  JudgedBinary(node, l, r, odd')
    BY <2>2, BinaryJudged
  <2>3. Judges("sub", "", 2, TypeSub(l, r))
    BY <1>a, <2>2
  <2> QED
    BY <2>1, <2>3, Numbers012, HandledOne
<1>3. CASE CheckNegate
  <2>1. Handle("negate", "", 1, TypeSub(AnyType, r))
    BY <1>3 DEF CheckNegate
  <2>2. ASSUME NEW node, node.op = "negate", node.data = "", Bears(node, TypeSub(AnyType, r), odd'),
               <<"negate", "">> \in family.walks
        PROVE  JudgedUnary(node, r, odd')
    BY <2>2, UnaryJudged
  <2>3. Judges("negate", "", 1, TypeSub(AnyType, r))
    BY <1>b, <2>2
  <2> QED
    BY <2>1, <2>3, Numbers012, HandledOne
<1>4. CASE CheckMultiply(d)
  <2>1. Handle("multiply", d, 2, TypeMultiply(l, r))
    BY <1>4 DEF CheckMultiply
  <2>2. ASSUME NEW node, node.op = "multiply", node.data = d, Bears(node, TypeMultiply(l, r), odd'),
               <<"multiply", d>> \in family.walks
        PROVE  JudgedBinary(node, l, r, odd')
    <3>1. d \in {"mul", "div", "mod"}
      BY <2>2, FamiliesAssumption
    <3> QED
      BY <2>2, <3>1, BinaryJudged
  <2>3. Judges("multiply", d, 2, TypeMultiply(l, r))
    BY <1>a, <2>2
  <2> QED
    BY <2>1, <2>3, Numbers012, HandledOne
<1>5. CASE CheckOrdering
  <2>1. Handle("ordering", "", 2, TypeOrdering(l, r))
    BY <1>5 DEF CheckOrdering
  <2>2. ASSUME NEW node, node.op = "ordering", node.data = "", Bears(node, TypeOrdering(l, r), odd'),
               <<"ordering", "">> \in family.walks
        PROVE  JudgedBinary(node, l, r, odd')
    BY <2>2, BinaryJudged
  <2>3. Judges("ordering", "", 2, TypeOrdering(l, r))
    BY <1>a, <2>2
  <2> QED
    BY <2>1, <2>3, Numbers012, HandledOne
<1>6. CASE CheckEquality
  <2>1. Handle("equality", "", 2, TypeEquality(l, r))
    BY <1>6 DEF CheckEquality
  <2>2. ASSUME NEW node, node.op = "equality", node.data = "", Bears(node, TypeEquality(l, r), odd'),
               <<"equality", "">> \in family.walks
        PROVE  JudgedBinary(node, l, r, odd')
    BY <2>2, BinaryJudged
  <2>3. Judges("equality", "", 2, TypeEquality(l, r))
    BY <1>a, <2>2
  <2> QED
    BY <2>1, <2>3, Numbers012, HandledOne
<1>7. CASE CheckNot
  <2>1. Handle("not", "", 1, TypeNot(r))
    BY <1>7 DEF CheckNot
  <2>2. ASSUME NEW node, node.op = "not", node.data = "", Bears(node, TypeNot(r), odd'),
               <<"not", "">> \in family.walks
        PROVE  JudgedUnary(node, r, odd')
    BY <2>2, UnaryJudged
  <2>3. Judges("not", "", 1, TypeNot(r))
    BY <1>b, <2>2
  <2> QED
    BY <2>1, <2>3, Numbers012, HandledOne
<1>8. CASE CheckLogic
  <2>1. Handle("logic", "", 2, TypeLogic(l, r))
    BY <1>8 DEF CheckLogic
  <2>2. ASSUME NEW node, node.op = "logic", node.data = "", Bears(node, TypeLogic(l, r), odd'),
               <<"logic", "">> \in family.walks
        PROVE  JudgedBinary(node, l, r, odd')
    BY <2>2, BinaryJudged
  <2>3. Judges("logic", "", 2, TypeLogic(l, r))
    BY <1>a, <2>2
  <2> QED
    BY <2>1, <2>3, Numbers012, HandledOne
<1> QED
  BY <1>1, <1>2, <1>3, <1>4, <1>5, <1>6, <1>7, <1>8

LEMMA Predecessor ==
  ASSUME NEW n \in Nat, NEW m, m = n + 1
  PROVE  m \in Nat /\ m - 1 = n /\ m > 0
OBVIOUS

LEMMA StepCall ==
  ASSUME IsSeq(operands), NEW name, NEW n \in Nat,
         CheckCall(name, n) \/ CheckMemberCall(name, n) \/ CheckNew(name, n)
  PROVE  (Halted \/ WalkedOn) /\ UNCHANGED <<context, family, gen_vars>>
<1> DEFINE types == Arguments(n)
<1>0. /\ \A i : Opd(Now, i) = Operand(i)
      /\ symbol_table' = symbol_table => Now'.table = Now.table
      /\ \A f : f.params = types => Takes(f, Now, n)
  BY OperandOf
<1> DEFINE J(node) == Judged(node, Now, Now', context, odd')
<1>a. ASSUME NEW node, symbol_table' = symbol_table, JudgedCall(node, Now, odd')
      PROVE  J(node)
  BY <1>0, <1>a DEF Judged
<1>b. ASSUME NEW f
      PROVE  /\ TypeCall(f).symbol = SymbolOf("function", f, f.ret)
             /\ TypeCall(f).result = TypeSymbol(f.ret)
  BY DEF TypeCall, Gives
<1> HIDE DEF J, types
<1>1. CASE CheckCall(name, n)
  <2> DEFINE found == Overloads("", name, types)
             V == IF found # {} THEN {TypeCall(f) : f \in found}
                  ELSE IF n = 1 /\ name \in Types THEN {TypeCast(name, Operand(1))}
                  ELSE {}
  <2>1. HandleAll("call", <<name, n>>, n, n, V)
    BY <1>1 DEF CheckCall, types
  <2>2. ASSUME NEW v \in V, NEW node, Bears(node, v, odd'), symbol_table' = symbol_table,
               node.op = "call", node.data = <<name, n>>, node.count = n
        PROVE  J(node)
    <3>1. ASSUME NEW f \in found, v = TypeCall(f)
          PROVE  J(node)
      <4>1. f \in Functions /\ f.spec = "" /\ f.params = types
        BY DEF Overloads
      <4>2. node.symbol = SymbolOf("function", f, f.ret) /\ node.result = TypeSymbol(f.ret)
        BY <2>2, <3>1, <1>b DEF Bears
      <4>3. Takes(f, Now, node.count)
        BY <1>0, <2>2, <4>1
      <4>4. JudgedCall(node, Now, odd')
        BY <2>2, <4>1, <4>2, <4>3 DEF JudgedCall
      <4> QED
        BY <2>2, <4>4, <1>a
    <3>2. ASSUME n = 1, name \in Types, v = TypeCast(name, Operand(1))
          PROVE  J(node)
      <4> DEFINE a == Operand(1)
      <4>1. /\ v.symbol = TypeSymbol(name) /\ v.result = TypeSymbol(name)
            /\ v.formed = Formed(a.result)
            /\ v.allowed = (/\ ~Is(a.result, "void")
                            /\ MayCast(Format(a.result), FormatOf(name)))
        BY <3>2 DEF TypeCast, Gives
      <4>2. v.formed /\ v.allowed /\ node.symbol = v.symbol /\ node.result = v.result
        BY <2>2 DEF Bears
      <4>3. /\ node.symbol = TypeSymbol(name) /\ node.result = TypeSymbol(name)
            /\ Formed(a.result) /\ ~Is(a.result, "void")
            /\ MayCast(Format(a.result), FormatOf(name))
        BY <4>1, <4>2
      <4>4. Opd(Now, 1) = a
        BY <1>0
      <4>5. JudgedCall(node, Now, odd')
        BY <2>2, <3>2, <4>3, <4>4 DEF JudgedCall
      <4> QED
        BY <2>2, <4>5, <1>a
    <3> QED
      BY <3>1, <3>2
  <2> HIDE DEF V
  <2>3. \A v \in V : Judges("call", <<name, n>>, n, v)
    BY <2>2 DEF Judges, J
  <2> QED
    BY <2>1, <2>3, Handled
<1>2. CASE CheckMemberCall(name, n)
  <2> DEFINE spec == TypeOf(Operand(n + 1).result).name
             found == Overloads(spec, name, types)
             static == Overloads("", name, types)
             V == IF found # {} THEN {TypeCall(f) : f \in found}
                  ELSE {[TypeCall(f) EXCEPT !.why = {"static"}] : f \in static}
  <2>1. HandleAll("member_call", <<name, n>>, n + 1, n, V)
    BY <1>2 DEF CheckMemberCall, types
  <2>2. ASSUME NEW v \in V, NEW node, Bears(node, v, odd'), symbol_table' = symbol_table,
               node.op = "member_call", node.data = <<name, n>>, node.count = n + 1
        PROVE  J(node)
    <3>1. ASSUME NEW f \in Functions, f.params = types,
                 v.symbol = TypeCall(f).symbol, v.result = TypeCall(f).result,
                 f.spec = spec \/ "static" \in odd'
          PROVE  J(node)
      <4>2. node.symbol = SymbolOf("function", f, f.ret) /\ node.result = TypeSymbol(f.ret)
        BY <2>2, <3>1, <1>b DEF Bears
      <4>3. Takes(f, Now, node.count - 1) /\ node.count > 0
        <5>1. node.count - 1 = n /\ node.count > 0
          BY <2>2, Predecessor
        <5> QED
          BY <5>1, <1>0, <3>1
      <4>4. f.spec = TypeOf(Opd(Now, node.count).result).name \/ "static" \in odd'
        BY <1>0, <2>2, <3>1
      <4>5. JudgedCall(node, Now, odd')
        BY <2>2, <4>2, <4>3, <4>4 DEF JudgedCall
      <4> QED
        BY <2>2, <4>5, <1>a
    <3>2. CASE found # {}
      <4>1. PICK f \in found : v = TypeCall(f)
        BY <3>2
      <4>2. f \in Functions /\ f.spec = spec /\ f.params = types
        BY DEF Overloads
      <4> QED
        BY <4>1, <4>2, <3>1
    <3>3. CASE found = {}
      <4>1. PICK f \in static : v = [TypeCall(f) EXCEPT !.why = {"static"}]
        BY <3>3
      <4>2. f \in Functions /\ f.params = types
        BY DEF Overloads
      <4>3. /\ v.symbol = TypeCall(f).symbol /\ v.result = TypeCall(f).result
            /\ v.why = {"static"}
        BY <4>1 DEF TypeCall, Gives
      <4>4. "static" \in odd'
        BY <4>3, <2>2 DEF Bears
      <4> QED
        BY <4>2, <4>3, <4>4, <3>1
    <3> QED
      BY <3>2, <3>3
  <2> HIDE DEF V
  <2>3. ASSUME NEW m, m = n + 1
        PROVE  (Halted \/ WalkedOn) /\ UNCHANGED <<context, family, gen_vars>>
    <3>1. \A v \in V : Judges("member_call", <<name, n>>, m, v)
      BY <2>2, <2>3 DEF Judges, J
    <3>2. HandleAll("member_call", <<name, n>>, m, n, V) /\ m \in Nat
      BY <2>1, <2>3
    <3> QED
      BY <3>1, <3>2, Handled
  <2> QED
    BY <2>3
<1>3. CASE CheckNew(name, n)
  <2> DEFINE found == Overloads(name, "construct", types)
             V == {TypeNew(name, f) : f \in found}
  <2>1. HandleAll("new", <<name, n>>, n, n, V)
    BY <1>3 DEF CheckNew, types
  <2>2. ASSUME NEW v \in V, NEW node, Bears(node, v, odd'), symbol_table' = symbol_table,
               node.op = "new", node.data = <<name, n>>, node.count = n
        PROVE  J(node)
    <3>0. PICK f \in found : v = TypeNew(name, f)
      OBVIOUS
    <3>1. f \in Functions /\ f.spec = name /\ f.name = "construct" /\ f.params = types
      BY DEF Overloads
    <3>2. f.spec \in Specs /\ f.ret = "void"
      BY <3>1, FunctionsAssumption
    <3>3. v.symbol = SymbolOf("function", f, f.ret) /\ v.result = TypeSymbol(name)
      BY <3>0 DEF TypeNew, Gives
    <3>4. node.symbol = SymbolOf("function", f, f.ret) /\ node.result = TypeSymbol(f.spec)
      BY <3>1, <3>3, <2>2 DEF Bears
    <3>5. Takes(f, Now, node.count)
      BY <1>0, <2>2, <3>1
    <3>6. JudgedCall(node, Now, odd')
      BY <2>2, <3>1, <3>2, <3>4, <3>5 DEF JudgedCall
    <3> QED
      BY <2>2, <3>6, <1>a
  <2> HIDE DEF V
  <2>3. \A v \in V : Judges("new", <<name, n>>, n, v)
    BY <2>2 DEF Judges, J
  <2> QED
    BY <2>1, <2>3, Handled
<1> QED
  BY <1>1, <1>2, <1>3

LEMMA StepProperty ==
  ASSUME IsSeq(operands), NEW name, CheckGet(name) \/ CheckSet(name)
  PROVE  (Halted \/ WalkedOn) /\ UNCHANGED <<context, family, gen_vars>>
<1> DEFINE object == Operand(1)
           value == Operand(2)
           found == PropertiesOf(TypeOf(object.result).name, name)
<1>0. /\ Opd(Now, 1) = object /\ Opd(Now, 2) = value
      /\ symbol_table' = symbol_table => Now'.table = Now.table
  BY OperandOf
<1>1. CASE CheckGet(name)
  <2> DEFINE V == {TypeGet(p) : p \in found}
  <2>1. HandleAll("get", name, 1, 0, V)
    BY <1>1 DEF CheckGet
  <2>2. ASSUME NEW v \in V, NEW node, Bears(node, v, odd'), symbol_table' = symbol_table,
               node.op = "get", node.data = name, node.count = 1
        PROVE  Judged(node, Now, Now', context, odd')
    <3>1. PICK p \in found : v = TypeGet(p)
      OBVIOUS
    <3>2. p \in Properties /\ p.spec = TypeOf(object.result).name
      BY DEF PropertiesOf
    <3> DEFINE s == SymbolOf("property", p, p.type)
    <3>3. v.symbol = s /\ v.result = s /\ v.why = {p.type} \cap {"void"}
      BY <3>1 DEF TypeGet, Gives
    <3>4. node.symbol = s /\ node.result = s /\ {p.type} \cap {"void"} \subseteq odd'
      BY <3>3, <2>2 DEF Bears
    <3>5. p.type = "void" => "void" \in odd'
      BY <3>4
    <3> HIDE DEF s
    <3>6. JudgedProperty(node, Now, odd')
      BY <1>0, <2>2, <3>2, <3>4, <3>5 DEF JudgedProperty, s
    <3> QED
      BY <1>0, <2>2, <3>6 DEF Judged
  <2> HIDE DEF V
  <2>3. \A v \in V : Judges("get", name, 1, v)
    BY <2>2 DEF Judges
  <2> QED
    BY <2>1, <2>3, Numbers012, Handled
<1>2. CASE CheckSet(name)
  <2> DEFINE V == {TypeSet(p, value) : p \in found}
  <2>1. HandleAll("set", name, 2, 0, V)
    BY <1>2 DEF CheckSet
  <2>2. ASSUME NEW v \in V, NEW node, Bears(node, v, odd'), symbol_table' = symbol_table,
               node.op = "set", node.data = name, node.count = 2
        PROVE  Judged(node, Now, Now', context, odd')
    <3>1. PICK p \in found : v = TypeSet(p, value)
      OBVIOUS
    <3>2. p \in Properties /\ p.spec = TypeOf(object.result).name
      BY DEF PropertiesOf
    <3> DEFINE s == SymbolOf("function", p, p.type)
    <3>3. /\ v.symbol = s /\ v.result = s
          /\ v.why = (IF Is(TypeOf(value.result), p.type) THEN {} ELSE {"mistyped"})
                       \cup ({p.type} \cap {"void"})
      BY <3>1 DEF TypeSet, Gives
    <3>4. node.symbol = s /\ node.result = s /\ v.why \subseteq odd'
      BY <3>3, <2>2 DEF Bears
    <3>5. /\ p.type = "void" => "void" \in odd'
          /\ Is(TypeOf(value.result), p.type) \/ "mistyped" \in odd'
      BY <3>3, <3>4
    <3> HIDE DEF s
    <3>6. JudgedProperty(node, Now, odd')
      BY <1>0, <2>2, <3>2, <3>4, <3>5 DEF JudgedProperty, s
    <3> QED
      BY <1>0, <2>2, <3>6 DEF Judged
  <2> HIDE DEF V
  <2>3. \A v \in V : Judges("set", name, 2, v)
    BY <2>2 DEF Judges
  <2> QED
    BY <2>1, <2>3, Numbers012, Handled
<1> QED
  BY <1>1, <1>2

LEMMA StepAssign ==
  ASSUME IsSeq(operands), family \in Families, NEW n, CheckAssign(n)
  PROVE  (Halted \/ WalkedOn) /\ UNCHANGED <<context, family, gen_vars>>
<1> DEFINE value == Operand(1).result
           declares == ~InTop(symbol_table, n)
           symbol == IF declares THEN FunctionSymbol("variable", n, value)
                     ELSE Get(symbol_table, n)
           legal == /\ ~Is(TypeOf(value), "void")
                    /\ n # "this"
                    /\ ~declares => Same(TypeOf(Get(symbol_table, n)), TypeOf(value))
           v == Gives(symbol, symbol)
<1>1. /\ Walks("assign", n, 1)
      /\ \/ ~legal /\ Reject
         \/ /\ legal
            /\ Accept("assign", n, 1, v)
            /\ symbol_table' = IF declares THEN Put(symbol_table, n, value) ELSE symbol_table
  BY DEF CheckAssign
<1>2. phase = "check" /\ <<"assign", n>> \in family.walks /\ Len(operands) >= 1
      /\ UNCHANGED <<context, family, gen_vars>>
  BY <1>1 DEF Walks
<1>3. 1 \in 0 .. Len(operands)
  BY <1>2, SeqFacts
<1>4. n # ""
  BY <1>2, FamiliesAssumption
<1>5. CASE ~legal /\ Reject
  BY <1>2, <1>5 DEF Reject, Ends, Halted
<1>6. ASSUME legal, Accept("assign", n, 1, v),
             symbol_table' = IF declares THEN Put(symbol_table, n, value) ELSE symbol_table
      PROVE  WalkedOn
  <2>1. PICK node : /\ Accepted(node, v.why)
                    /\ node.op = "assign" /\ node.data = n /\ node.count = 1
                    /\ node.symbol = v.symbol /\ node.result = v.result
    BY <1>2, <1>3, <1>6, Accepting
  <2>2. v.symbol = symbol /\ v.result = symbol
    BY DEF Gives
  <2>3. Opd(Now, 1).result = value /\ Now.table = symbol_table /\ Now'.table = symbol_table'
    BY OperandOf DEF Now
  <2>4. node.symbol = symbol /\ node.result = symbol
    BY <2>1, <2>2
  <2> HIDE DEF v
  <2>5. JudgedAssign(node, Now, Now')
    <3>1. CASE declares
      BY <1>4, <1>6, <2>1, <2>3, <2>4, <3>1 DEF JudgedAssign
    <3>2. CASE ~declares
      BY <1>4, <1>6, <2>1, <2>3, <2>4, <3>2 DEF JudgedAssign
    <3> QED
      BY <3>1, <3>2
  <2>6. Judged(node, Now, Now', context, odd')
    BY <2>5 DEF Judged
  <2> QED
    BY <2>1, <2>6, Judging
<1> QED
  BY <1>1, <1>2, <1>5, <1>6

LEMMA StepStatement ==
  ASSUME IsSeq(operands), family \in Families,
         CheckDiscard \/ CheckClause \/ CheckIf \/ CheckReturn \/ CheckBareReturn
  PROVE  (Halted \/ WalkedOn) /\ UNCHANGED <<context, family, gen_vars>>
<1> DEFINE a == Operand(1).result
<1>0. /\ Opd(Now, 1).result = a
      /\ symbol_table' = symbol_table => Now'.table = Now.table
  BY OperandOf
<1>a. ASSUME NEW allowed, NEW why
      PROVE  Permits(allowed, why).allowed = allowed /\ Permits(allowed, why).why = why
  BY DEF Permits, Gives
<1>1. CASE CheckDiscard
  <2>1. Handle("discard", "", 1, Permits(TRUE, {}))
    BY <1>1 DEF CheckDiscard
  <2>2. Judges("discard", "", 1, Permits(TRUE, {}))
    BY <1>0 DEF Judges, Judged, JudgedStatement
  <2> QED
    BY <2>1, <2>2, Numbers012, HandledOne
<1>2. CASE CheckClause
  <2> DEFINE V == {Permits(TRUE, {})}
  <2>1. HandleAll("clause", "", 1, 1, V)
    BY <1>2 DEF CheckClause
  <2>2. \A v \in V : Judges("clause", "", 1, v)
    BY <1>0 DEF Judges, Judged, JudgedStatement
  <2> HIDE DEF V
  <2> QED
    BY <2>1, <2>2, Numbers012, Handled
<1>3. CASE CheckIf
  <2> DEFINE x == Is(a, "bool")
             y == IF IsType(a) THEN {} ELSE {"namesake"}
             V == {Permits(x, y)}
  <2>1. HandleAll("if", "", 1, 1, V)
    BY <1>3 DEF CheckIf
  <2>2. ASSUME NEW v \in V, NEW node, Bears(node, v, odd'), symbol_table' = symbol_table,
               node.op = "if", node.data = "", node.count = 1
        PROVE  Judged(node, Now, Now', context, odd')
    <3>1. v = Permits(x, y)
      OBVIOUS
    <3>0. v.allowed = x /\ v.why = y
      BY <3>1 DEF Permits, Gives
    <3>4. v.allowed /\ v.why \subseteq odd'
      BY <2>2 DEF Bears
    <3>2. x /\ y \subseteq odd'
      BY <3>0, <3>4
    <3>3. Is(a, "bool") /\ (IsType(a) \/ "namesake" \in odd')
      BY <3>2
    <3> QED
      BY <1>0, <2>2, <3>3 DEF Judged, JudgedStatement
  <2>3. \A v \in V : Judges("if", "", 1, v)
    BY <2>2 DEF Judges
  <2> HIDE DEF V
  <2> QED
    BY <2>1, <2>3, Numbers012, Handled
<1>4. CASE CheckReturn
  <2> DEFINE x == context.kind # "set" /\ Is(TypeOf(a), context.ret)
             y == {context.ret} \cap {"void"}
             V == {Permits(x, y)}
  <2>1. HandleAll("return", 1, 1, 1, V)
    BY <1>4 DEF CheckReturn
  <2>2. ASSUME NEW v \in V, NEW node, Bears(node, v, odd'), symbol_table' = symbol_table,
               node.op = "return", node.data = 1, node.count = 1
        PROVE  Judged(node, Now, Now', context, odd')
    <3>1. v = Permits(x, y)
      OBVIOUS
    <3>0. v.allowed = x /\ v.why = y
      BY <3>1 DEF Permits, Gives
    <3>4. v.allowed /\ v.why \subseteq odd'
      BY <2>2 DEF Bears
    <3>2. x /\ y \subseteq odd'
      BY <3>0, <3>4
    <3>3. Is(TypeOf(a), context.ret) /\ (context.ret = "void" => "void" \in odd')
      BY <3>2
    <3> QED
      BY <1>0, <2>2, <3>3 DEF Judged, JudgedStatement
  <2>3. \A v \in V : Judges("return", 1, 1, v)
    BY <2>2 DEF Judges
  <2> HIDE DEF V
  <2> QED
    BY <2>1, <2>3, Numbers012, Handled
<1>5. CASE CheckBareReturn
  <2> DEFINE x == context.kind # "set"
             y == IF context.ret = "void" THEN {} ELSE {"bare"}
  <2>1. Handle("return", 0, 0, Permits(x, y))
    BY <1>5 DEF CheckBareReturn
  <2>2. ASSUME NEW node, Bears(node, Permits(x, y), odd'), symbol_table' = symbol_table,
               node.op = "return", node.data = 0, node.count = 0
        PROVE  Judged(node, Now, Now', context, odd')
    <3>2. y \subseteq odd'
      BY <2>2, <1>a DEF Bears
    <3>3. context.ret = "void" \/ "bare" \in odd'
      BY <3>2
    <3> QED
      BY <1>0, <2>2, <3>3 DEF Judged, JudgedStatement
  <2>3. Judges("return", 0, 0, Permits(x, y))
    BY <2>2 DEF Judges
  <2> QED
    BY <2>1, <2>3, Numbers012, HandledOne
<1> QED
  BY <1>1, <1>2, <1>3, <1>4, <1>5

\* Every step of the checker but the last is over one node, or stops it.
LEMMA CheckSteps ==
  ASSUME IsSeq(operands), family \in Families, Check
  PROVE  (Halted \/ WalkedOn \/ CheckEnd) /\ UNCHANGED <<context, family, gen_vars>>
<1>1. ASSUME NEW w \in family.walks, NEW op, op = w[1], NEW d, d = w[2],
             \/ op = "literal" /\ CheckLiteral(d)
             \/ op = "default" /\ CheckDefault(d)
             \/ op = "variable" /\ CheckVariable(d)
             \/ op = "multiply" /\ CheckMultiply(d)
             \/ op = "call" /\ CheckCall(d[1], d[2])
             \/ op = "member_call" /\ CheckMemberCall(d[1], d[2])
             \/ op = "new" /\ CheckNew(d[1], d[2])
             \/ op = "get" /\ CheckGet(d)
             \/ op = "set" /\ CheckSet(d)
             \/ op = "assign" /\ CheckAssign(d)
      PROVE  (Halted \/ WalkedOn) /\ UNCHANGED <<context, family, gen_vars>>
  <2>1. op \in {"call", "member_call", "new"} => d[2] \in Nat
    BY <1>1, FamiliesAssumption
  <2> QED
    BY <1>1, <2>1, StepLeaf, StepOperator, StepCall, StepProperty, StepAssign, Zenon
<1>2. ASSUME \/ CheckChar \/ CheckAdd \/ CheckSub \/ CheckNegate \/ CheckOrdering
             \/ CheckEquality \/ CheckNot \/ CheckLogic
             \/ CheckDiscard \/ CheckClause \/ CheckIf \/ CheckReturn \/ CheckBareReturn
      PROVE  (Halted \/ WalkedOn) /\ UNCHANGED <<context, family, gen_vars>>
  BY <1>2, StepLeaf, StepOperator, StepStatement, Zenon
<1>3. CheckEnd => UNCHANGED <<context, family, gen_vars>>
  BY DEF CheckEnd
<1> QED
  BY <1>1, <1>2, <1>3 DEF Check

-----------------------------------------------------------------------------
(***************************************************************************)
(* What an operand of a node tells the generator.                          *)
(***************************************************************************)
Consumed(o, w) ==
  ~Formed(o.result) =>
    "relayed" \in w /\ (TypeOf(o.result).name \in Types => "namesake" \in w)

LEMMA OperandsConsumed ==
  ASSUME NEW s, IsSeq(s.operands), NEW n \in 0 .. Len(s.operands), NEW w,
         Relayed(Last(s.operands, n)) \subseteq w, NEW i \in 1 .. n
  PROVE  /\ Consumed(Opd(s, n - i + 1), w)
         /\ Opd(s, n - i + 1) = s.operands[Len(s.operands) - n + i]
<1> DEFINE q == s.operands
           l == Last(q, n)
           o == Opd(s, n - i + 1)
<1>1. Len(q) \in Nat /\ Len(l) = n /\ DOMAIN l = 1 .. n /\ l[i] = q[Len(q) - n + i]
  BY LastFacts, SeqFacts
<1>2. Len(q) - (n - i + 1) + 1 = Len(q) - n + i
  BY <1>1
<1>3. o = q[Len(q) - n + i] /\ l[i] = o
  BY <1>1, <1>2 DEF Opd
<1>4. i \in DOMAIN l
  BY <1>1
<1> HIDE DEF o, l
<1>5. ASSUME ~Formed(o.result)
      PROVE  "relayed" \in w /\ (TypeOf(o.result).name \in Types => "namesake" \in w)
  <2> DEFINE relays == {j \in DOMAIN l : ~Formed(l[j].result)}
  <2>1. i \in relays
    BY <1>3, <1>4, <1>5
  <2>2. "relayed" \in Relayed(l)
    BY <2>1 DEF Relayed
  <2>3. TypeOf(o.result).name \in Types => "namesake" \in Relayed(l)
    BY <1>3, <2>1 DEF Relayed
  <2> QED
    BY <2>2, <2>3 DEF l
<1> QED
  BY <1>3, <1>5 DEF Consumed, o

LEMMA OperandFacts ==
  ASSUME NEW o, NEW v, NEW w, Means(o, v, w), Consumed(o, w)
  PROVE  /\ v.node = o.symbol
         /\ v.symbol # NoSymbol /\ (Legible(v.symbol) <=> Formed(v.symbol))
         /\ ~Formed(v.symbol) => "relayed" \in w
         /\ Set(o) /\ ~Formed(o.symbol) => "relayed" \in w
         /\ Set(o) => (Legible(o.symbol) <=> Formed(o.symbol))
<1>1. IsSymbol(v.symbol)
  BY DEF Means, Typed
<1>2. v.symbol # NoSymbol
  BY <1>1, SymbolFacts
<1>3. v.node = o.symbol
  BY DEF Means
<1>4. ~Formed(v.symbol) => "relayed" \in w
  BY DEF Means, Typed, Consumed
<1>5. Set(o) /\ ~Formed(o.symbol) => "relayed" \in w
  BY DEF Means, EntryFits, Consumed
<1> QED
  BY <1>2, <1>3, <1>4, <1>5 DEF Legible, Set

\* An operand whose type has the name of a type, when nothing unusual has one.
LEMMA NamedOperand ==
  ASSUME NEW o, NEW v, NEW w, Means(o, v, w), Consumed(o, w), "namesake" \notin w,
         NEW t \in Types, TypeOf(o.result).name = t
  PROVE  /\ Formed(o.result) /\ Format(o.result) = FormatOf(t)
         /\ Formed(v.symbol) /\ Format(v.symbol) = FormatOf(t)
         /\ "char" \notin w => TypeOf(v.symbol).name = t /\ Size(v.symbol) = SizeOf(t)
         /\ Ordinary(w) /\ t # "void" => v.ins = KindOf(FormatOf(t))
         /\ Set(o) /\ Formed(o.symbol) =>
              \/ Format(o.symbol) = FormatOf(t)
              \/ t = "bool"
              \/ Format(o.symbol) = "void" /\ FormatOf(t) = "pointer"
<1>1. Formed(o.result)
  BY DEF Consumed
<1>2. Format(o.result) = FormatOf(t)
  BY DEF Format
<1>3. /\ Formed(v.symbol) /\ Format(v.symbol) = Format(o.result)
      /\ "char" \notin w => Is(TypeOf(v.symbol), TypeOf(o.result).name)
  BY <1>1 DEF Means, Typed
<1>4. "char" \notin w => TypeOf(v.symbol).name = t /\ Size(v.symbol) = SizeOf(t)
  BY <1>3 DEF Is, Size
<1>5. Ordinary(w) /\ Format(v.symbol) # "void" => v.ins = KindOf(Format(v.symbol))
  BY <1>3 DEF Means, Worded
<1>6. FormatOf(t) = "void" <=> t = "void"
  BY Formats
<1>7. FormatOf(t) = "bool" <=> t = "bool"
  BY Formats
<1>8. Set(o) /\ Formed(o.symbol) =>
         \/ Format(o.symbol) = Format(o.result)
         \/ Format(o.result) = "bool"
         \/ Format(o.symbol) = "void" /\ Format(o.result) = "pointer"
  BY <1>1 DEF Means, EntryFits
<1> QED
  BY <1>1, <1>2, <1>3, <1>4, <1>5, <1>6, <1>7, <1>8

\* An operand with a legible symbol, when nothing has the name of a type.
LEMMA FormedOperand ==
  ASSUME NEW o, NEW v, NEW w, Means(o, v, w), "namesake" \notin w,
         Formed(o.result) \/ (Set(o) /\ Formed(o.symbol))
  PROVE  Formed(o.result) /\ TypeOf(o.result).name \in Types
<1>1. IsSymbol(o.result)
  BY DEF Means, EntryFits
<1>2. Formed(o.result)
  BY DEF Means, EntryFits
<1> QED
  BY <1>1, <1>2, SymbolFacts

\* Operands that match have types of one name.
LEMMA MatchedNames ==
  ASSUME NEW l, NEW r, NEW w, Matched(l, r, w), "namesake" \notin w,
         IsSymbol(l.result), IsSymbol(r.result)
  PROVE  /\ TypeOf(l.result).name = TypeOf(r.result).name
         /\ Resultant(l.result, r.result) = r.result
<1>1. ASSUME NEW s, IsSymbol(s), Is(s, "none")
      PROVE  ~IsType(s)
  BY <1>1, SymbolFacts, Names DEF Is
<1>2. CASE Same(TypeOf(l.result), TypeOf(r.result))
  BY <1>2 DEF Same, Resultant
<1>3. CASE ~Same(TypeOf(l.result), TypeOf(r.result))
  <2>1. PICK s \in {l.result, r.result} : Is(s, "none")
    BY <1>3 DEF Matched, Matches
  <2>2. ~IsType(s)
    BY <1>1, <2>1
  <2>3. s \in {u \in {l.result, r.result} : Is(u, "none") /\ ~IsType(u)}
    BY <2>1, <2>2
  <2>4. "namesake" \in Namesakes(l.result, r.result)
    BY <1>3, <2>3 DEF Namesakes
  <2> QED
    BY <2>4 DEF Matched
<1> QED
  BY <1>2, <1>3

-----------------------------------------------------------------------------
(***************************************************************************)
(* What a handler of the generator gives: a reason if it stops, code that  *)
(* fits, and a value that stands for the checker's.                        *)
(***************************************************************************)
Excused(g, w) ==
  /\ g.fate \in {"generate", "failed", "undefined"}
  /\ g.fate = "failed" => w \cap {"string", "void", "bool", "namesake"} # {}
  /\ g.fate = "undefined" => w \cap {"unset", "relayed"} # {}

CodeFits(code, w) == Ordinary(w) => \A i \in DOMAIN code : code[i].want = code[i].have

NoCalls(code) == \A i \in DOMAIN code : code[i].op[1] \notin {"call", "ret"}

Value(g, node) == [symbol |-> g.symbol, ins |-> g.ins, node |-> Seen(node.op, node.symbol)]

Sound(g, node, w) ==
  /\ Excused(g, w) /\ CodeFits(g.code, w)
  /\ g.fate = "generate" => Means(EntryOf(node), Value(g, node), w)

\* A sufficient condition for the value of a node to mean what it should.
Sense(node, symbol, ins, w) ==
  /\ IsSymbol(node.result) /\ IsSymbol(node.symbol) /\ IsSymbol(symbol)
  /\ Formed(node.result) => (Formed(node.symbol) /\ Formed(symbol)) \/ "relayed" \in w
  /\ Formed(node.result) /\ ~IsType(node.result) /\ Is(TypeOf(node.result), "void")
       => "void" \in w
  /\ "namesake" \notin w /\ Formed(node.result) =>
       /\ Formed(symbol) /\ Format(symbol) = Format(node.result)
       /\ "char" \notin w => Is(TypeOf(symbol), TypeOf(node.result).name)
       /\ Formed(node.symbol) =>
            \/ Format(node.symbol) = Format(node.result)
            \/ Format(node.result) = "bool"
            \/ Format(node.symbol) = "void" /\ Format(node.result) = "pointer"
  /\ "namesake" \notin w /\ ~Formed(node.result) =>
       ~Formed(node.symbol) /\ (Formed(symbol) => Format(symbol) # "void")
  /\ Ordinary(w) /\ Formed(symbol) /\ Format(symbol) # "void" => ins = KindOf(Format(symbol))

LEMMA SenseMeans ==
  ASSUME NEW node, node.op # "set", NEW g, NEW w, Sense(node, g.symbol, g.ins, w)
  PROVE  Means(EntryOf(node), Value(g, node), w)
<1> DEFINE o == EntryOf(node)
           v == Value(g, node)
<1>1. o.result = node.result /\ o.symbol = node.symbol
  BY DEF EntryOf, Seen
<1>2. v.symbol = g.symbol /\ v.ins = g.ins /\ v.node = node.symbol
  BY DEF Value, Seen
<1> HIDE DEF o, v
<1>3. EntryFits(o, w)
  BY <1>1 DEF Sense, EntryFits
<1>4. Typed(o, v, w)
  BY <1>1, <1>2 DEF Sense, Typed
<1>5. Worded(v, w)
  BY <1>2 DEF Sense, Worded
<1> QED
  BY <1>1, <1>2, <1>3, <1>4, <1>5 DEF Means, o, v

LEMMA Stopped ==
  ASSUME NEW f
  PROVE  Stops(f).fate = f /\ Stops(f).code = <<>> /\ CodeFits(<<>>, {}) /\ NoCalls(<<>>)
BY DEF Stops, CodeFits, NoCalls

LEMMA StoppedSound ==
  ASSUME NEW g, NEW node, NEW w,
         \/ g = Stops("undefined") /\ w \cap {"unset", "relayed"} # {}
         \/ g = Stops("failed") /\ w \cap {"string", "void", "bool", "namesake"} # {}
  PROVE  Sound(g, node, w) /\ NoCalls(g.code)
<1>1. g.code = <<>> /\ g.fate \in {"undefined", "failed"}
  BY Stopped
<1>2. Excused(g, w)
  BY Stopped DEF Excused
<1>3. CodeFits(g.code, w) /\ NoCalls(g.code)
  BY <1>1 DEF CodeFits, NoCalls
<1> QED
  BY <1>1, <1>2, <1>3 DEF Sound

LEMMA YieldedSound ==
  ASSUME NEW g, NEW node, node.op # "set", NEW w, NEW symbol, NEW ins, NEW code,
         g = Yields(symbol, ins, code), CodeFits(code, w), Sense(node, symbol, ins, w)
  PROVE  Sound(g, node, w) /\ g.code = code
<1>1. g.fate = "generate" /\ g.symbol = symbol /\ g.ins = ins /\ g.code = code
  BY DEF Yields
<1>2. Means(EntryOf(node), Value(g, node), w)
  BY <1>1, SenseMeans
<1> QED
  BY <1>1, <1>2 DEF Sound, Excused

\* One instruction.
LEMMA OneInstruction ==
  ASSUME NEW a, NEW w
  PROVE  /\ (Ordinary(w) => a.want = a.have) => CodeFits(<<a>>, w)
         /\ a.op[1] \notin {"call", "ret"} => NoCalls(<<a>>)
BY DEF CodeFits, NoCalls

LEMMA ByFormatCases ==
  ASSUME NEW s, NEW formats, NEW y, NEW g, g = ByFormat(s, formats, y)
  PROVE  \/ ~Legible(s) /\ g = Stops("undefined")
         \/ Legible(s) /\ Format(s) \notin formats /\ g = Stops("failed")
         \/ Legible(s) /\ Format(s) \in formats /\ g = y
BY DEF ByFormat

\* An operator with two operands of one format.
Fitting(node, w, op, s, formats, symbol, ins, l, r) ==
  LET k == KindOf(Format(s)) IN
  /\ node.op # "set" /\ op \notin {"call", "ret"}
  /\ ~Legible(s) => w \cap {"unset", "relayed"} # {}
  /\ Legible(s) /\ Format(s) \notin formats
       => w \cap {"string", "void", "bool", "namesake"} # {}
  /\ Legible(s) /\ Format(s) \in formats =>
       /\ Ordinary(w) => l.ins = k /\ r.ins = k
       /\ Sense(node, symbol, IF ins = "" THEN k ELSE ins, w)

LEMMA BinarySound ==
  ASSUME NEW node, NEW w, NEW op, NEW s, NEW formats, NEW symbol, NEW ins, NEW l, NEW r,
         Fitting(node, w, op, s, formats, symbol, ins, l, r),
         NEW g, g = GenBinary(op, s, formats, symbol, ins, l, r)
  PROVE  Sound(g, node, w) /\ NoCalls(g.code)
<1> DEFINE k == KindOf(Format(s))
           out == IF ins = "" THEN k ELSE ins
<1>0. /\ node.op # "set" /\ op \notin {"call", "ret"}
      /\ ~Legible(s) => w \cap {"unset", "relayed"} # {}
      /\ Legible(s) /\ Format(s) \notin formats
           => w \cap {"string", "void", "bool", "namesake"} # {}
      /\ Legible(s) /\ Format(s) \in formats =>
           /\ Ordinary(w) => l.ins = k /\ r.ins = k
           /\ Sense(node, symbol, out, w)
  BY DEF Fitting
<1> DEFINE a == Ins(<<op, k>>, <<k, k>>, <<l.ins, r.ins>>)
           y == Yields(symbol, out, <<a>>)
<1>1. g = ByFormat(s, formats, y)
  BY DEF GenBinary
<1>2. a.want = <<k, k>> /\ a.have = <<l.ins, r.ins>> /\ a.op[1] = op
  BY DEF Ins
<1> HIDE DEF a, k, out
<1>3. CASE Legible(s) /\ Format(s) \in formats /\ g = y
  <2>1. CodeFits(<<a>>, w) /\ NoCalls(<<a>>)
    BY <1>0, <1>2, <1>3, OneInstruction
  <2>2. Sense(node, symbol, out, w)
    BY <1>0, <1>3
  <2> QED
    BY <1>0, <1>3, <2>1, <2>2, YieldedSound
<1>4. CASE ~Legible(s) /\ g = Stops("undefined")
  BY <1>0, <1>4, StoppedSound
<1>5. CASE Legible(s) /\ Format(s) \notin formats /\ g = Stops("failed")
  BY <1>0, <1>5, StoppedSound
<1> HIDE DEF y
<1> QED
  BY <1>1, <1>3, <1>4, <1>5, ByFormatCases

-----------------------------------------------------------------------------
(***************************************************************************)
(* The operators, operand by operand.                                      *)
(***************************************************************************)
LEMMA NumericFormats ==
  /\ "void" \notin Numeric /\ "bool" \notin Numeric /\ "pointer" \notin Numeric
  /\ "void" \notin Numeric \cup {"pointer"} /\ "bool" \notin Numeric \cup {"pointer"}
BY DEF Numeric

LEMMA SetLegible ==
  ASSUME NEW o, Legible(o.symbol)
  PROVE  Set(o) /\ Formed(o.symbol)
BY DEF Legible, Set

LEMMA AddSound ==
  ASSUME NEW node, NEW w, NEW l, NEW r, NEW x, NEW y, NEW g,
         Means(l, x, w), Means(r, y, w), Consumed(l, w), Consumed(r, w),
         JudgedBinary(node, l, r, w), node.op = "add", g = GenArithmetic("add", x, y)
  PROVE  Sound(g, node, w) /\ NoCalls(g.code)
<1> DEFINE s == l.symbol
           k == KindOf(Format(s))
           t == TypeOf(l.result).name
<1>1. /\ Matched(l, r, w)
      /\ node.symbol = l.result /\ node.result = Resultant(l.result, r.result)
      /\ Formed(l.result)
      /\ Format(l.result) \in Numeric \/ (Is(TypeOf(l.result), "string") /\ "string" \in w)
      /\ Set(l) \/ "unset" \in w
  BY DEF JudgedBinary
<1>2. IsSymbol(l.result) /\ IsSymbol(r.result) /\ IsSymbol(x.symbol) /\ x.node = s
  BY DEF Means, EntryFits, Typed
<1>3. t \in Types
  BY <1>1, <1>2, SymbolFacts
<1>4. /\ Formed(x.symbol) \/ "relayed" \in w
      /\ Set(l) /\ ~Formed(s) => "relayed" \in w
      /\ Set(l) => (Legible(s) <=> Formed(s))
  BY OperandFacts
<1>5. ASSUME "namesake" \notin w
      PROVE  /\ node.result = r.result /\ TypeOf(r.result).name = t /\ Formed(r.result)
             /\ Formed(x.symbol) /\ Format(x.symbol) = FormatOf(t)
             /\ Format(l.result) = FormatOf(t) /\ Format(r.result) = FormatOf(t)
             /\ "char" \notin w => TypeOf(x.symbol).name = t
             /\ Ordinary(w) /\ t # "void" =>
                  x.ins = KindOf(FormatOf(t)) /\ y.ins = KindOf(FormatOf(t))
             /\ Set(l) /\ Formed(s) =>
                  \/ Format(s) = FormatOf(t)
                  \/ t = "bool"
                  \/ Format(s) = "void" /\ FormatOf(t) = "pointer"
  <2>1. TypeOf(r.result).name = t /\ node.result = r.result
    BY <1>1, <1>2, <1>5, MatchedNames
  <2> HIDE DEF t
  <2>2. TypeOf(l.result).name = t
    BY DEF t
  <2> QED
    BY <1>3, <1>5, <2>1, <2>2, NamedOperand
<1>6. ~Legible(s) => w \cap {"unset", "relayed"} # {}
  BY <1>1, <1>4
<1>7. ASSUME "namesake" \notin w, Legible(s)
      PROVE  /\ Format(s) \in Numeric => Format(s) = FormatOf(t) /\ t # "void"
             /\ Format(s) \notin Numeric => "string" \in w
  <2>1. Set(l) /\ Formed(s)
    BY <1>7, SetLegible
  <2>2. (t = "bool" <=> FormatOf(t) = "bool") /\ (t = "void" <=> FormatOf(t) = "void")
        /\ (t = "string" => FormatOf(t) = "pointer")
    BY Formats
  <2>3. FormatOf(t) \in Numeric \/ (t = "string" /\ "string" \in w)
    BY <1>1, <1>5, <1>7 DEF Is
  <2> HIDE DEF s, t
  <2> QED
    BY <1>5, <1>7, <2>1, <2>2, <2>3, NumericFormats
<1>8. Legible(s) /\ Format(s) \notin Numeric
        => w \cap {"string", "void", "bool", "namesake"} # {}
  BY <1>7
<1>9. ASSUME Legible(s), Format(s) \in Numeric
      PROVE  /\ Ordinary(w) => x.ins = k /\ y.ins = k
             /\ Sense(node, x.symbol, k, w)
  <2>1. Ordinary(w) => "namesake" \notin w
    BY DEF Ordinary
  <2>2. Ordinary(w) => x.ins = k /\ y.ins = k
    BY <2>1, <1>5, <1>7, <1>9
  <2>3. IsSymbol(node.result) /\ IsSymbol(node.symbol) /\ IsSymbol(x.symbol)
    BY <1>1, <1>2 DEF Resultant
  <2>4. Formed(node.symbol) /\ (Formed(x.symbol) \/ "relayed" \in w)
    BY <1>1, <1>4
  <2>5. Formed(node.result) /\ ~IsType(node.result) /\ Is(TypeOf(node.result), "void")
          => "void" \in w
    BY <1>1 DEF Resultant, Means, EntryFits
  <2>6. "namesake" \notin w =>
          /\ Formed(node.result) /\ Format(node.symbol) = Format(node.result)
          /\ Formed(x.symbol) /\ Format(x.symbol) = Format(node.result)
          /\ "char" \notin w => Is(TypeOf(x.symbol), TypeOf(node.result).name)
    BY <1>1, <1>5 DEF Is
  <2>7. Ordinary(w) => k = KindOf(Format(x.symbol))
    BY <2>1, <1>5, <1>7, <1>9
  <2> HIDE DEF k, s, t
  <2>8. Sense(node, x.symbol, k, w)
    BY <2>3, <2>4, <2>5, <2>6, <2>7 DEF Sense
  <2> QED
    BY <2>2, <2>8
<1>10. g = GenBinary("add", s, Numeric, x.symbol, "", x, y)
  BY <1>2 DEF GenArithmetic
<1>11. Fitting(node, w, "add", s, Numeric, x.symbol, "", x, y)
  <2> HIDE DEF s
  <2> QED
    BY <1>6, <1>8, <1>9 DEF Fitting
<1> QED
  BY <1>10, <1>11, BinarySound

\* A node that copies its symbol from one of its operands, a number.
LEMMA NumbersFacts ==
  ASSUME NEW node, NEW w, NEW o, NEW z, NEW u, Means(o, z, w), Consumed(o, w),
         Numbers(node, o, u), IsSymbol(u),
         NEW t, t = TypeOf(u).name, "namesake" \notin w => TypeOf(o.result).name = t
  PROVE  LET s == o.symbol  k == KindOf(Format(s)) IN
         /\ z.node = s /\ t \in Types /\ FormatOf(t) \in Numeric
         /\ ~Legible(s) => w \cap {"unset", "relayed"} # {}
         /\ Legible(s) /\ Format(s) \notin Numeric
              => w \cap {"string", "void", "bool", "namesake"} # {}
         /\ Legible(s) /\ "namesake" \notin w => Format(s) = FormatOf(t)
         /\ Legible(s) /\ node.result = TypeOf(u) => Sense(node, z.symbol, k, w)
         /\ Legible(s) /\ node.result = TypeSymbol("bool") => Sense(node, Bool, "i", w)
         /\ Ordinary(w) => z.ins = KindOf(FormatOf(t))
<1> DEFINE s == o.symbol
           k == KindOf(Format(s))
<1>1. Set(o) /\ node.symbol = s /\ Formed(u) /\ Format(u) \in Numeric
  BY DEF Numbers
<1>2. t \in Types /\ TypeOf(u) = TypeSymbol(t) /\ FormatOf(t) \in Numeric
  BY <1>1, SymbolFacts DEF Format
<1>3. IsSymbol(s) /\ IsSymbol(z.symbol)
  BY <1>1 DEF Means, EntryFits, Typed
<1>4. /\ z.node = s
      /\ Formed(z.symbol) \/ "relayed" \in w
      /\ ~Formed(s) => "relayed" \in w
      /\ Legible(s) <=> Formed(s)
  BY <1>1, OperandFacts
<1>5. t # "bool" /\ t # "void" /\ FormatOf(t) # "pointer"
  BY <1>2, Formats, NumericFormats
<1>6. ASSUME "namesake" \notin w
      PROVE  /\ Formed(z.symbol) /\ Format(z.symbol) = FormatOf(t)
             /\ "char" \notin w => TypeOf(z.symbol).name = t
             /\ Ordinary(w) => z.ins = KindOf(FormatOf(t))
             /\ Formed(s) => Format(s) = FormatOf(t)
  BY <1>1, <1>2, <1>5, <1>6, NamedOperand
<1>7. /\ ~Legible(s) => w \cap {"unset", "relayed"} # {}
      /\ Legible(s) /\ Format(s) \notin Numeric
           => w \cap {"string", "void", "bool", "namesake"} # {}
      /\ Legible(s) /\ "namesake" \notin w => Format(s) = FormatOf(t)
  BY <1>2, <1>4, <1>6
<1>8. Ordinary(w) => "namesake" \notin w
  BY DEF Ordinary
<1>9. ASSUME Legible(s), node.result = TypeOf(u)
      PROVE  Sense(node, z.symbol, k, w)
  <2>1. /\ IsSymbol(node.result) /\ Formed(node.result) /\ IsType(node.result)
        /\ TypeOf(node.result).name = t /\ Format(node.result) = FormatOf(t)
    BY <1>2, <1>9, TypeFacts
  <2>2. Ordinary(w) => k = KindOf(Format(z.symbol))
    BY <1>6, <1>7, <1>8, <1>9
  <2>3. Formed(node.symbol) /\ ("namesake" \notin w => Format(node.symbol) = Format(node.result))
    BY <1>1, <1>4, <1>6, <1>9, <2>1
  <2> HIDE DEF k, s
  <2> QED
    BY <1>1, <1>3, <1>4, <1>6, <2>1, <2>2, <2>3 DEF Sense, Is
<1>10. ASSUME Legible(s), node.result = TypeSymbol("bool")
       PROVE  Sense(node, Bool, "i", w)
  <2>1. /\ IsSymbol(node.result) /\ Formed(node.result) /\ IsType(node.result)
        /\ TypeOf(node.result).name = "bool" /\ Format(node.result) = FormatOf("bool")
        /\ Bool = node.result
    BY <1>10, TypeFacts, Names DEF Bool
  <2>2. FormatOf("bool") = "bool" /\ KindOf("bool") = "i"
    BY Formats, Words
  <2> HIDE DEF s
  <2> QED
    BY <1>1, <1>3, <1>4, <1>10, <2>1, <2>2 DEF Sense, Is
<1>11. Ordinary(w) => z.ins = KindOf(FormatOf(t))
  BY <1>6, <1>8
<1> QED
  BY <1>2, <1>4, <1>7, <1>9, <1>10, <1>11

LEMMA NumericSound ==
  ASSUME NEW node, NEW w, NEW l, NEW r, NEW x, NEW y, NEW g,
         Means(l, x, w), Means(r, y, w), Consumed(l, w), Consumed(r, w),
         JudgedBinary(node, l, r, w),
         \/ node.op = "sub" /\ g = GenSub(x, y)
         \/ node.op = "multiply" /\ g = GenArithmetic(node.data, x, y)
         \/ node.op = "ordering" /\ g = GenOrdering(x, y)
  PROVE  Sound(g, node, w) /\ NoCalls(g.code)
<1> DEFINE u == Resultant(l.result, r.result)
           t == TypeOf(u).name
<1>1. /\ IsSymbol(l.result) /\ IsSymbol(r.result) /\ IsSymbol(u)
  BY DEF Means, EntryFits, Resultant
<1>2. Matched(l, r, w)
  BY DEF JudgedBinary
<1>3. "namesake" \notin w => TypeOf(l.result).name = t /\ TypeOf(r.result).name = t
  BY <1>1, <1>2, MatchedNames
<1>4. Ordinary(w) => "namesake" \notin w
  BY DEF Ordinary
<1> HIDE DEF u
<1>a. t = TypeOf(u).name
  OBVIOUS
<1> HIDE DEF t
<1>5. CASE node.op = "sub" /\ g = GenSub(x, y)
  <2> DEFINE s == r.symbol
             k == KindOf(Format(s))
  <2>1. Numbers(node, r, u) /\ node.result = TypeOf(u)
    BY <1>5 DEF JudgedBinary, u
  <2>2. /\ y.node = s /\ t \in Types /\ FormatOf(t) \in Numeric
        /\ ~Legible(s) => w \cap {"unset", "relayed"} # {}
        /\ Legible(s) /\ Format(s) \notin Numeric
             => w \cap {"string", "void", "bool", "namesake"} # {}
        /\ Legible(s) /\ "namesake" \notin w => Format(s) = FormatOf(t)
        /\ Legible(s) => Sense(node, y.symbol, k, w)
        /\ Ordinary(w) => y.ins = KindOf(FormatOf(t))
    BY <1>1, <1>3, <1>a, <2>1, NumbersFacts
  <2>3. Ordinary(w) => x.ins = KindOf(FormatOf(t))
    <3>1. t # "void"
      BY <2>2, Formats, NumericFormats
    <3> QED
      BY <1>3, <1>4, <2>2, <3>1, NamedOperand
  <2>4. Fitting(node, w, "sub", s, Numeric, y.symbol, "", x, y)
    <3> HIDE DEF s
    <3> QED
      BY <1>4, <1>5, <2>2, <2>3 DEF Fitting
  <2>5. g = GenBinary("sub", s, Numeric, y.symbol, "", x, y)
    BY <1>5, <2>2 DEF GenSub
  <2> QED
    BY <2>4, <2>5, BinarySound
<1>6. CASE node.op = "multiply" /\ g = GenArithmetic(node.data, x, y)
  <2> DEFINE s == l.symbol
             k == KindOf(Format(s))
  <2>1. Numbers(node, l, u) /\ node.result = TypeOf(u) /\ node.data \in {"mul", "div", "mod"}
    BY <1>6 DEF JudgedBinary, u
  <2>2. /\ x.node = s /\ t \in Types /\ FormatOf(t) \in Numeric
        /\ ~Legible(s) => w \cap {"unset", "relayed"} # {}
        /\ Legible(s) /\ Format(s) \notin Numeric
             => w \cap {"string", "void", "bool", "namesake"} # {}
        /\ Legible(s) /\ "namesake" \notin w => Format(s) = FormatOf(t)
        /\ Legible(s) => Sense(node, x.symbol, k, w)
        /\ Ordinary(w) => x.ins = KindOf(FormatOf(t))
    BY <1>1, <1>3, <1>a, <2>1, NumbersFacts
  <2>3. Ordinary(w) => y.ins = KindOf(FormatOf(t))
    <3>1. t # "void"
      BY <2>2, Formats, NumericFormats
    <3> QED
      BY <1>3, <1>4, <2>2, <3>1, NamedOperand
  <2>4. Fitting(node, w, node.data, s, Numeric, x.symbol, "", x, y)
    <3> HIDE DEF s
    <3> QED
      BY <1>4, <1>6, <2>1, <2>2, <2>3 DEF Fitting
  <2>5. g = GenBinary(node.data, s, Numeric, x.symbol, "", x, y)
    BY <1>6, <2>2 DEF GenArithmetic
  <2> QED
    BY <2>4, <2>5, BinarySound
<1>7. CASE node.op = "ordering" /\ g = GenOrdering(x, y)
  <2> DEFINE s == l.symbol
             k == KindOf(Format(s))
  <2>1. Numbers(node, l, u) /\ node.result = TypeSymbol("bool")
    BY <1>7 DEF JudgedBinary, u
  <2>2. /\ x.node = s /\ t \in Types /\ FormatOf(t) \in Numeric
        /\ ~Legible(s) => w \cap {"unset", "relayed"} # {}
        /\ Legible(s) /\ Format(s) \notin Numeric
             => w \cap {"string", "void", "bool", "namesake"} # {}
        /\ Legible(s) /\ "namesake" \notin w => Format(s) = FormatOf(t)
        /\ Legible(s) => Sense(node, Bool, "i", w)
        /\ Ordinary(w) => x.ins = KindOf(FormatOf(t))
    BY <1>1, <1>3, <1>a, <2>1, NumbersFacts
  <2>3. Ordinary(w) => y.ins = KindOf(FormatOf(t))
    <3>1. t # "void"
      BY <2>2, Formats, NumericFormats
    <3> QED
      BY <1>3, <1>4, <2>2, <3>1, NamedOperand
  <2>4. Fitting(node, w, "gt", s, Numeric, Bool, "i", x, y)
    <3> HIDE DEF s
    <3> QED
      BY <1>4, <1>7, <2>2, <2>3 DEF Fitting
  <2>5. g = GenBinary("gt", s, Numeric, Bool, "i", x, y)
    BY <1>7, <2>2 DEF GenOrdering
  <2> QED
    BY <2>4, <2>5, BinarySound
<1> QED
  BY <1>5, <1>6, <1>7

LEMMA NegateSound ==
  ASSUME NEW node, NEW w, NEW a, NEW x, NEW g, Means(a, x, w), Consumed(a, w),
         JudgedUnary(node, a, w), node.op = "negate", g = GenNegate(x)
  PROVE  Sound(g, node, w) /\ NoCalls(g.code)
<1> DEFINE s == a.symbol
           k == KindOf(Format(s))
           t == TypeOf(a.result).name
           zero == [symbol |-> TypeSymbol("none"), node |-> NoSymbol,
                    ins |-> IF Legible(x.node) THEN KindOf(Format(x.node)) ELSE "none"]
<1>1. Numbers(node, a, a.result) /\ node.result = TypeOf(a.result)
  BY DEF JudgedUnary
<1>2. IsSymbol(a.result)
  BY DEF Means, EntryFits
<1>3. /\ x.node = s
      /\ ~Legible(s) => w \cap {"unset", "relayed"} # {}
      /\ Legible(s) /\ Format(s) \notin Numeric
           => w \cap {"string", "void", "bool", "namesake"} # {}
      /\ Legible(s) /\ "namesake" \notin w => Format(s) = FormatOf(t)
      /\ Legible(s) => Sense(node, x.symbol, k, w)
      /\ Ordinary(w) => x.ins = KindOf(FormatOf(t))
  <2> HIDE DEF t
  <2>1. t = TypeOf(a.result).name
    BY DEF t
  <2> QED
    BY <1>1, <1>2, <2>1, NumbersFacts
<1>4. Legible(s) => zero.ins = k
  BY <1>3
<1>5. Ordinary(w) => "namesake" \notin w
  BY DEF Ordinary
<1>6. g = GenBinary("sub", s, Numeric, x.symbol, "", zero, x)
  BY <1>3 DEF GenNegate, GenSub
<1> HIDE DEF s, t, zero
<1>7. Fitting(node, w, "sub", s, Numeric, x.symbol, "", zero, x)
  BY <1>3, <1>4, <1>5 DEF Fitting
<1> QED
  BY <1>6, <1>7, BinarySound

LEMMA EqualitySound ==
  ASSUME NEW node, NEW w, NEW l, NEW r, NEW x, NEW y, NEW g,
         Means(l, x, w), Means(r, y, w), Consumed(l, w), Consumed(r, w),
         JudgedBinary(node, l, r, w), node.op = "equality", g = GenEquality(x, y)
  PROVE  Sound(g, node, w) /\ NoCalls(g.code)
<1> DEFINE s == l.symbol
           k == KindOf(Format(s))
           t == TypeOf(l.result).name
           formats == Numeric \cup {"pointer"}
<1>1. /\ Matched(l, r, w)
      /\ Set(l) /\ node.symbol = s /\ node.result = TypeSymbol("bool")
      /\ OfAnother(l) \subseteq w
      /\ Is(TypeOf(l.result), "bool") => "bool" \in w
      /\ Is(TypeOf(l.result), "void") \/ Is(TypeOf(s), "void") => "void" \in w
  BY DEF JudgedBinary
<1>2. IsSymbol(l.result) /\ IsSymbol(r.result) /\ IsSymbol(s)
  BY <1>1 DEF Means, EntryFits
<1>3. /\ x.node = s
      /\ ~Formed(s) => "relayed" \in w
      /\ Legible(s) <=> Formed(s)
  BY <1>1, OperandFacts
<1>4. Ordinary(w) => "namesake" \notin w /\ "comparison" \notin w
  BY DEF Ordinary
<1>5. ASSUME "namesake" \notin w, Formed(s)
      PROVE  /\ t \in Types /\ TypeOf(r.result).name = t
             /\ Ordinary(w) /\ t # "void" =>
                  x.ins = KindOf(FormatOf(t)) /\ y.ins = KindOf(FormatOf(t))
             /\ \/ Format(s) = FormatOf(t)
                \/ t = "bool"
                \/ Format(s) = "void" /\ FormatOf(t) = "pointer"
  <2>1. TypeOf(r.result).name = t
    BY <1>1, <1>2, <1>5, MatchedNames
  <2>2. t \in Types
    BY <1>1, <1>5, FormedOperand
  <2>3. TypeOf(l.result).name = t
    OBVIOUS
  <2> HIDE DEF t
  <2> QED
    BY <1>1, <1>5, <2>1, <2>2, <2>3, NamedOperand
<1>6. /\ t = "bool" => "bool" \in w
      /\ t = "bool" /\ TypeOf(s).name # "bool" => "comparison" \in w
      /\ TypeOf(s).name = "void" \/ t = "void" => "void" \in w
  BY <1>1 DEF Is, OfAnother
<1>7. /\ Format(s) \in {"void", "bool", "int", "float", "pointer"}
      /\ Format(s) = "void" <=> TypeOf(s).name = "void"
      /\ Format(s) = "bool" <=> TypeOf(s).name = "bool"
      /\ FormatOf(t) = "bool" <=> t = "bool"
      /\ FormatOf(t) = "void" <=> t = "void"
  BY Formats DEF Format
<1> HIDE DEF s, t
<1>8. ASSUME Legible(s), Format(s) \notin formats
      PROVE  w \cap {"string", "void", "bool", "namesake"} # {}
  <2>1. Format(s) \in {"void", "bool"}
    BY <1>7, <1>8 DEF Numeric
  <2>2. CASE Format(s) = "void"
    BY <2>2, <1>6, <1>7
  <2>3. CASE Format(s) = "bool"
    <3>1. ASSUME "namesake" \notin w
          PROVE  t = "bool"
      BY <3>1, <2>3, <1>3, <1>5, <1>7, <1>8
    <3> QED
      BY <3>1, <1>6
  <2> QED
    BY <2>1, <2>2, <2>3
<1>9. ASSUME Legible(s), Format(s) \in formats, Ordinary(w)
      PROVE  x.ins = k /\ y.ins = k
  <2>1. Format(s) # "void" /\ Format(s) # "bool"
    BY <1>9, NumericFormats
  <2>2. t # "bool"
    BY <1>4, <1>6, <1>7, <1>9, <2>1
  <2>3. Format(s) = FormatOf(t) /\ t # "void"
    BY <1>3, <1>4, <1>5, <1>7, <1>9, <2>1, <2>2
  <2> QED
    BY <1>3, <1>4, <1>5, <1>9, <2>3
<1>10. ASSUME Legible(s)
       PROVE  Sense(node, Bool, "i", w)
  <2>1. /\ IsSymbol(node.result) /\ Formed(node.result) /\ IsType(node.result)
        /\ TypeOf(node.result).name = "bool" /\ Format(node.result) = FormatOf("bool")
        /\ Bool = node.result
    BY <1>1, TypeFacts, Names DEF Bool
  <2>2. FormatOf("bool") = "bool" /\ KindOf("bool") = "i"
    BY Formats, Words
  <2> QED
    BY <1>1, <1>2, <1>3, <1>10, <2>1, <2>2 DEF Sense, Is
<1>11. ~Legible(s) => w \cap {"unset", "relayed"} # {}
  BY <1>3
<1> HIDE DEF formats
<1>12. Fitting(node, w, "eq", s, formats, Bool, "i", x, y)
  BY <1>8, <1>9, <1>10, <1>11 DEF Fitting
<1>13. g = GenBinary("eq", s, formats, Bool, "i", x, y)
  BY <1>3 DEF GenEquality, formats
<1> QED
  BY <1>12, <1>13, BinarySound

\* A bool, and what is made of bools.
LEMMA BoolOperand ==
  ASSUME NEW o, NEW v, NEW w, Means(o, v, w), Consumed(o, w), Is(TypeOf(o.result), "bool")
  PROVE  /\ Ordinary(w) => v.ins = "i"
         /\ "namesake" \notin w => Formed(o.result) /\ Format(o.result) = "bool"
         /\ Set(o) /\ ~Formed(o.symbol) => "relayed" \in w
<1>1. FormatOf("bool") = "bool" /\ KindOf("bool") = "i" /\ "bool" \in Types /\ "bool" # "void"
  BY Formats, Words, Names
<1>2. TypeOf(o.result).name = "bool"
  BY DEF Is
<1>3. Ordinary(w) => "namesake" \notin w
  BY DEF Ordinary
<1>4. Set(o) /\ ~Formed(o.symbol) => "relayed" \in w
  BY OperandFacts
<1>5. "namesake" \notin w =>
        /\ Formed(o.result) /\ Format(o.result) = FormatOf("bool")
        /\ Ordinary(w) /\ "bool" # "void" => v.ins = KindOf(FormatOf("bool"))
  BY <1>1, <1>2, NamedOperand
<1> QED
  BY <1>1, <1>3, <1>4, <1>5

LEMMA BoolsSound ==
  ASSUME NEW node, NEW w, NEW l, NEW r, NEW x, NEW y, NEW g,
         Means(l, x, w), Means(r, y, w), Consumed(l, w), Consumed(r, w),
         \/ JudgedBinary(node, l, r, w) /\ node.op = "logic" /\ g = GenLogic(x, y)
         \/ JudgedUnary(node, r, w) /\ l = r /\ node.op = "not" /\ g = GenNot(y)
  PROVE  Sound(g, node, w) /\ NoCalls(g.code)
<1>1. /\ Set(l) /\ node.symbol = l.symbol /\ node.result = r.result
      /\ Is(TypeOf(l.result), "bool") /\ Is(TypeOf(r.result), "bool")
  BY DEF JudgedBinary, JudgedUnary
<1>2. /\ Ordinary(w) => x.ins = "i" /\ y.ins = "i"
      /\ "namesake" \notin w => Formed(r.result) /\ Format(r.result) = "bool"
      /\ ~Formed(l.symbol) => "relayed" \in w
  BY <1>1, BoolOperand
<1>3. IsSymbol(l.symbol) /\ IsSymbol(r.result) /\ IsSymbol(Bool) /\ Formed(Bool)
      /\ Format(Bool) = "bool" /\ TypeOf(Bool).name = "bool" /\ KindOf("bool") = "i"
  BY <1>1, TypeFacts, Formats, Words, Names DEF Means, EntryFits, Bool
<1>4. ~Is(TypeOf(node.result), "void")
  BY <1>1 DEF Is
<1>5. Sense(node, Bool, "i", w)
  BY <1>1, <1>2, <1>3, <1>4 DEF Sense, Is
<1>6. CASE node.op = "logic" /\ g = GenLogic(x, y)
  <2> DEFINE a == Ins(<<"logic", "i">>, <<"i", "i">>, <<x.ins, y.ins>>)
  <2>1. a.want = <<"i", "i">> /\ a.have = <<x.ins, y.ins>> /\ a.op[1] = "logic"
    BY DEF Ins
  <2>2. g = Yields(Bool, "i", <<a>>)
    BY <1>6 DEF GenLogic
  <2> HIDE DEF a
  <2>3. CodeFits(<<a>>, w) /\ NoCalls(<<a>>)
    BY <1>2, <2>1, OneInstruction
  <2> QED
    BY <1>5, <1>6, <2>2, <2>3, YieldedSound
<1>7. CASE node.op = "not" /\ g = GenNot(y)
  <2> DEFINE a == Ins(<<"xor", "i">>, <<"i">>, <<y.ins>>)
  <2>1. a.want = <<"i">> /\ a.have = <<y.ins>> /\ a.op[1] = "xor"
    BY DEF Ins
  <2>2. g = Yields(Bool, "i", <<a>>)
    BY <1>7 DEF GenNot
  <2> HIDE DEF a
  <2>3. CodeFits(<<a>>, w) /\ NoCalls(<<a>>)
    BY <1>2, <2>1, OneInstruction
  <2> QED
    BY <1>5, <1>7, <2>2, <2>3, YieldedSound
<1> QED
  BY <1>6, <1>7

-----------------------------------------------------------------------------
(***************************************************************************)
(* The tables: of two scopes, and of three.                                *)
(***************************************************************************)
LEMMA TwoScopes ==
  ASSUME NEW a, NEW b, NEW regs, regs = <<a, b>>, NEW n
  PROVE  /\ InTop(regs, n) <=> n \in DOMAIN b
         /\ IsBound(regs, n) <=> n \in DOMAIN a \cup DOMAIN b
         /\ IsBound(regs, n) => Get(regs, n) = Held(regs, n)
         /\ \A v : Put(regs, n, v) = <<a, Bind(b, n, v)>>
<1>1. Len(regs) = 2 /\ regs[1] = a /\ regs[2] = b
  OBVIOUS
<1>2. InTop(regs, n) <=> n \in DOMAIN b
  BY <1>1 DEF InTop
<1>3. \A i : i \in 1 .. 2 <=> i = 1 \/ i = 2
  OBVIOUS
<1>4. IsBound(regs, n) <=> n \in DOMAIN a \cup DOMAIN b
  BY <1>1, <1>3 DEF IsBound
<1>5. ASSUME IsBound(regs, n)
      PROVE  Get(regs, n) = Held(regs, n)
  <2> DEFINE j == IF n \in DOMAIN b THEN 2 ELSE 1
             i == CHOOSE i \in 1 .. Len(regs) : IsInnermost(regs, Len(regs), n, i)
  <2>1. \A k \in 1 .. 2 : IsInnermost(regs, 2, n, k) <=> k = j
    <3>1. \A m : m \in (1 + 1) .. 2 <=> m = 2
      OBVIOUS
    <3>2. \A m : m \notin (2 + 1) .. 2
      OBVIOUS
    <3>3. IsInnermost(regs, 2, n, 1) <=> n \in DOMAIN a /\ n \notin DOMAIN b
      BY <1>1, <1>3, <3>1 DEF IsInnermost
    <3>4. IsInnermost(regs, 2, n, 2) <=> n \in DOMAIN b
      BY <1>1, <1>3, <3>2 DEF IsInnermost
    <3> QED
      BY <1>3, <1>4, <1>5, <3>3, <3>4
  <2>2. j \in 1 .. 2
    OBVIOUS
  <2>3. i = j
    BY <1>1, <2>1, <2>2
  <2>4. Get(regs, n) = regs[i][n]
    BY DEF Get
  <2> QED
    BY <1>1, <2>3, <2>4 DEF Held
<1>6. ASSUME NEW v
      PROVE  Put(regs, n, v) = <<a, Bind(b, n, v)>>
  BY <1>1 DEF Put
<1> QED
  BY <1>2, <1>4, <1>5, <1>6

LEMMA ThreeScopes ==
  ASSUME NEW a, NEW b, NEW d, NEW table, table = <<a, b, d>>, NEW n
  PROVE  /\ InTop(table, n) <=> n \in DOMAIN d
         /\ IsBound(table, n) <=> n \in DOMAIN a \cup DOMAIN b \cup DOMAIN d
         /\ IsBound(table, n) =>
              Get(table, n) = IF n \in DOMAIN d THEN d[n]
                              ELSE IF n \in DOMAIN b THEN b[n] ELSE a[n]
         /\ \A v : Put(table, n, v) = <<a, b, Bind(d, n, v)>>
<1>1. Len(table) = 3 /\ table[1] = a /\ table[2] = b /\ table[3] = d
  OBVIOUS
<1>2. InTop(table, n) <=> n \in DOMAIN d
  BY <1>1 DEF InTop
<1>3. \A i : i \in 1 .. 3 <=> i = 1 \/ i = 2 \/ i = 3
  OBVIOUS
<1>4. IsBound(table, n) <=> n \in DOMAIN a \cup DOMAIN b \cup DOMAIN d
  BY <1>1, <1>3 DEF IsBound
<1>5. ASSUME IsBound(table, n)
      PROVE  Get(table, n) = IF n \in DOMAIN d THEN d[n]
                             ELSE IF n \in DOMAIN b THEN b[n] ELSE a[n]
  <2> DEFINE j == IF n \in DOMAIN d THEN 3 ELSE IF n \in DOMAIN b THEN 2 ELSE 1
             i == CHOOSE i \in 1 .. Len(table) : IsInnermost(table, Len(table), n, i)
  <2>1. \A k \in 1 .. 3 : IsInnermost(table, 3, n, k) <=> k = j
    <3>1. \A m : m \in (1 + 1) .. 3 <=> m = 2 \/ m = 3
      OBVIOUS
    <3>2. \A m : m \in (2 + 1) .. 3 <=> m = 3
      OBVIOUS
    <3>3. \A m : m \notin (3 + 1) .. 3
      OBVIOUS
    <3>4. IsInnermost(table, 3, n, 1) <=> n \in DOMAIN a /\ n \notin DOMAIN b /\ n \notin DOMAIN d
      BY <1>1, <1>3, <3>1 DEF IsInnermost
    <3>5. IsInnermost(table, 3, n, 2) <=> n \in DOMAIN b /\ n \notin DOMAIN d
      BY <1>1, <1>3, <3>2 DEF IsInnermost
    <3>6. IsInnermost(table, 3, n, 3) <=> n \in DOMAIN d
      BY <1>1, <1>3, <3>3 DEF IsInnermost
    <3> QED
      BY <1>3, <1>4, <1>5, <3>4, <3>5, <3>6
  <2>2. j \in 1 .. 3
    OBVIOUS
  <2>3. i = j
    BY <1>1, <2>1, <2>2
  <2>4. Get(table, n) = table[i][n]
    BY DEF Get
  <2> QED
    BY <1>1, <2>3, <2>4
<1>6. ASSUME NEW v
      PROVE  Put(table, n, v) = <<a, b, Bind(d, n, v)>>
  BY <1>1 DEF Put
<1> QED
  BY <1>2, <1>4, <1>5, <1>6

\* The parameters of a function are symbols of its types.
Signed(c) ==
  /\ c.spec \in Specs \cup {""} /\ c.ret \in Types
  /\ \A i \in DOMAIN c.params :
       c.params[i].name # "" /\ c.params[i].type \in Types \ {"void"}

LEMMA ParamFacts ==
  ASSUME NEW c, Signed(c), NEW n \in DOMAIN ParamScope(c)
  PROVE  /\ IsSymbol(ParamScope(c)[n]) /\ ~IsType(ParamScope(c)[n]) /\ Formed(ParamScope(c)[n])
         /\ TypeOf(ParamScope(c)[n]).name # "void" /\ Format(ParamScope(c)[n]) # "void"
<1> DEFINE i == CHOOSE i \in DOMAIN c.params : c.params[i].name = n
           s == ParamScope(c)[n]
           t == c.params[i].type
<1>1. i \in DOMAIN c.params /\ c.params[i].name = n
  <2>1. \E j \in DOMAIN c.params : c.params[j].name = n
    BY DEF ParamScope
  <2> QED
    BY <2>1
<1>2. s = FunctionSymbol("param", n, TypeSymbol(t))
  BY DEF ParamScope
<1> HIDE DEF i
<1>3. n # "" /\ t \in Types /\ t # "void"
  BY <1>1 DEF Signed
<1> HIDE DEF s, t
<1>4. /\ IsSymbol(TypeSymbol(t)) /\ IsType(TypeSymbol(t)) /\ TypeSymbol(t).name = t
      /\ FormatOf(t) # "void" /\ "param" \in Kinds
  BY <1>3, TypeFacts, Formats DEF Kinds
<1> DEFINE u == TypeSymbol(t)
<1> HIDE DEF u
<1>5. IsSymbol(s) /\ ~IsType(s) /\ Formed(s) /\ TypeOf(s) = u
  <2>1. IsSymbol(u) /\ IsType(u) /\ s = FunctionSymbol("param", n, u)
    BY <1>2, <1>4 DEF u
  <2>2. LET f == FunctionSymbol("param", n, u) IN
        /\ ~IsType(f) /\ TypeOf(f) = u /\ IsSymbol(f)
        /\ Formed(f) <=> IsType(u)
    BY <1>3, <1>4, <2>1, FunctionFacts
  <2> QED
    BY <2>1, <2>2
<1> QED
  BY <1>3, <1>4, <1>5 DEF Format, s, u

-----------------------------------------------------------------------------
(***************************************************************************)
(* Leaves.                                                                 *)
(***************************************************************************)

\* A node whose value has the node's own symbol, which is also its result.
LEMMA SelfSense ==
  ASSUME NEW node, NEW w, node.result = node.symbol, IsSymbol(node.symbol),
         IsType(node.symbol) \/ ~Is(TypeOf(node.symbol), "void"),
         NEW ins, Ordinary(w) /\ Formed(node.symbol) /\ Format(node.symbol) # "void"
                    => ins = KindOf(Format(node.symbol))
  PROVE  Sense(node, node.symbol, ins, w)
BY DEF Sense, Is

LEMMA ConstantSound ==
  ASSUME NEW node, NEW s, NEW w, JudgedLeaf(node, s, w), NEW g,
         \/ node.op \in {"literal", "char"} /\ g = GenLiteral(node.symbol)
         \/ node.op = "default" /\ g = GenDefault(node.symbol)
  PROVE  Sound(g, node, w) /\ NoCalls(g.code)
<1> DEFINE u == node.symbol
           k == KindOf(Format(u))
<1>1. CodeFits(<<Imm(k)>>, w) /\ NoCalls(<<Imm(k)>>) /\ CodeFits(<<>>, w) /\ NoCalls(<<>>)
  <2> DEFINE a == Imm(k)
  <2>1. a.want = a.have /\ a.op[1] = "imm"
    BY DEF Imm, Ins
  <2> HIDE DEF a
  <2>2. CodeFits(<<a>>, w) /\ NoCalls(<<a>>)
    BY <2>1, OneInstruction
  <2> QED
    BY <2>2 DEF a, CodeFits, NoCalls
<1>2. ASSUME NEW t \in Types, u = TypeSymbol(t)
      PROVE  IsSymbol(u) /\ IsType(u) /\ Formed(u) /\ u.name = t /\ Format(u) = FormatOf(t)
             /\ TypeOf(u) = u
  BY <1>2, TypeFacts
<1>3. CASE node.op = "char"
  <2>1. u = TypeSymbol("int32") /\ node.result = TypeSymbol("int8") /\ "char" \in w
    BY <1>3 DEF JudgedLeaf
  <2>2. IsSymbol(u) /\ Formed(u) /\ u.name = "int32" /\ Format(u) = FormatOf("int32")
    BY <1>2, <2>1, Names
  <2>3. /\ IsSymbol(node.result) /\ IsType(node.result) /\ Formed(node.result)
        /\ Format(node.result) = FormatOf("int8")
    BY <2>1, TypeFacts, Names
  <2>4. FormatOf("int8") = FormatOf("int32")
    BY DEF FormatOf
  <2>5. Sense(node, u, k, w)
    BY <2>1, <2>2, <2>3, <2>4 DEF Sense
  <2>6. g = Yields(u, k, <<Imm(k)>>)
    <3>1. ~Is(u, "string")
      BY <2>2 DEF Is
    <3> QED
      BY <1>3, <3>1 DEF GenLiteral
  <2>7. node.op # "set"
    BY <1>3
  <2> HIDE DEF u, k
  <2> QED
    BY <1>1, <2>5, <2>6, <2>7, YieldedSound
<1>4. CASE node.op \in {"literal", "default"}
  <2>1. PICK t \in Types : u = TypeSymbol(t) /\ (node.op = "literal" /\ t = "string" => "string" \in w)
    BY <1>4, Names DEF JudgedLeaf
  <2>2. node.result = u
    BY <1>4 DEF JudgedLeaf
  <2>3. IsSymbol(u) /\ IsType(u) /\ Formed(u) /\ u.name = t /\ TypeOf(u) = u
    BY <1>2, <2>1
  <2>4. Sense(node, u, k, w) /\ (Format(u) = "void" => Sense(node, u, "none", w))
    BY <2>2, <2>3, SelfSense
  <2>5. node.op # "set"
    BY <1>4
  <2>6. CASE node.op = "literal" /\ t = "string"
    <3>1. g = Stops("failed")
      BY <1>4, <2>3, <2>6 DEF GenLiteral, Is
    <3> QED
      BY <2>1, <2>6, <3>1, StoppedSound
  <2>7. CASE g = Yields(u, k, <<Imm(k)>>)
    <3> HIDE DEF u, k
    <3> QED
      BY <1>1, <2>4, <2>5, <2>7, YieldedSound
  <2>8. CASE g = Yields(u, "none", <<>>) /\ Format(u) = "void"
    <3> HIDE DEF u, k
    <3> QED
      BY <1>1, <2>4, <2>5, <2>8, YieldedSound
  <2> QED
    BY <1>4, <2>3, <2>6, <2>7, <2>8 DEF GenLiteral, GenDefault, Is
<1> QED
  BY <1>3, <1>4

LEMMA AllFormats ==
  ASSUME NEW s, Format(s) # "void"
  PROVE  Format(s) \in Stored
BY Formats DEF Format, Stored

LEMMA VariableSound ==
  ASSUME NEW node, NEW s, NEW w, NEW c, Signed(c), JudgedLeaf(node, s, w),
         Registers(s.table, register_table, c, w),
         NEW g, node.op = "variable", g = GenVariable(node.data, node.symbol)
  PROVE  Sound(g, node, w) /\ NoCalls(g.code)
<1> DEFINE n == node.data
           u == node.symbol
           table == s.table
           regs == register_table
           register == Get(regs, n)
           P == ParamScope(c)
<1>1. /\ IsBound(table, n) /\ u = Get(table, n) /\ node.result = u
      /\ n = "this" => IsType(u) \/ "namesake" \in w
  BY DEF JudgedLeaf
<1>2. /\ table = <<ThisScope(c), P, table[3]>> /\ regs = <<P, regs[2]>>
      /\ "this" \notin DOMAIN table[3]
      /\ DOMAIN regs[2] \subseteq DOMAIN table[3]
      /\ DOMAIN table[3] \subseteq DOMAIN regs[1] \cup DOMAIN regs[2]
  BY DEF Registers
<1>3. /\ n \in DOMAIN regs[2] =>
           IsSymbol(regs[2][n]) /\ Formed(regs[2][n]) /\ Format(regs[2][n]) # "void"
      /\ n \in DOMAIN table[3] =>
           /\ IsSymbol(table[3][n]) /\ ~Is(TypeOf(table[3][n]), "void")
           /\ "namesake" \notin w /\ Formed(table[3][n]) =>
                Format(Held(regs, n)) = Format(table[3][n])
  BY DEF Registers
<1>4. regs[1] = P
  BY <1>2
<1>5. n \in DOMAIN P => /\ IsSymbol(P[n]) /\ ~IsType(P[n]) /\ Formed(P[n])
                        /\ TypeOf(P[n]).name # "void" /\ Format(P[n]) # "void"
  BY ParamFacts
<1>6. n \in DOMAIN ThisScope(c) =>
        /\ n = "this" /\ ThisScope(c)[n] = TypeSymbol(c.spec) /\ c.spec \in Specs
  BY DEF ThisScope, EmptyScope, Bind, Signed
<1> HIDE DEF P
<1>7. /\ n \in DOMAIN ThisScope(c) \cup DOMAIN P \cup DOMAIN table[3]
      /\ u = IF n \in DOMAIN table[3] THEN table[3][n]
             ELSE IF n \in DOMAIN P THEN P[n] ELSE ThisScope(c)[n]
  <2> DEFINE a == ThisScope(c)  d == table[3]
  <2> HIDE DEF a, d
  <2>1. table = <<a, P, d>>
    BY <1>2 DEF a, d
  <2>2. /\ n \in DOMAIN a \cup DOMAIN P \cup DOMAIN d
        /\ u = IF n \in DOMAIN d THEN d[n] ELSE IF n \in DOMAIN P THEN P[n] ELSE a[n]
    BY <1>1, <2>1, ThreeScopes
  <2> QED
    BY <2>2 DEF a, d
<1>8. c.spec \in Specs => /\ IsSymbol(TypeSymbol(c.spec)) /\ IsType(TypeSymbol(c.spec))
                          /\ Format(TypeSymbol(c.spec)) = "pointer"
  BY TypeFacts, Formats, Names
<1>9. IsSymbol(u) /\ (IsType(u) \/ ~Is(TypeOf(u), "void"))
  BY <1>3, <1>5, <1>6, <1>7, <1>8 DEF Is
<1>10. node.op # "set"
  OBVIOUS
<1>11. CASE n = "this"
  <2> DEFINE a == Ins(<<"param", "p">>, <<>>, <<>>)
  <2>1. g = Yields(u, "p", <<a>>)
    BY <1>11 DEF GenVariable
  <2>2. a.want = a.have /\ a.op[1] = "param"
    BY DEF Ins
  <2> HIDE DEF a
  <2>3. CodeFits(<<a>>, w) /\ NoCalls(<<a>>)
    BY <2>2, OneInstruction
  <2>4. ASSUME Ordinary(w)
        PROVE  "p" = KindOf(Format(u))
    <3>1. IsType(u)
      BY <1>1, <1>11, <2>4 DEF Ordinary
    <3>2. u = TypeSymbol(c.spec) /\ c.spec \in Specs
      BY <1>2, <1>5, <1>6, <1>7, <1>11, <3>1
    <3> QED
      BY <1>8, <3>2, Words
  <2> HIDE DEF u
  <2>5. Sense(node, u, "p", w)
    <3>1. Sense(node, node.symbol, "p", w)
      BY <1>1, <1>9, <2>4, SelfSense DEF u
    <3> QED
      BY <3>1 DEF u
  <2> QED
    BY <1>10, <2>1, <2>3, <2>5, YieldedSound
<1>12. CASE n # "this"
  <2> DEFINE k == KindOf(Format(register))
             a == LoadIns(register, "p", 0)
             y == Yields(u, k, <<a>>)
  <2>1. n \in DOMAIN P \cup DOMAIN regs[2] /\ n \in DOMAIN P \cup DOMAIN table[3]
    BY <1>2, <1>4, <1>6, <1>7, <1>12
  <2>2. register = Held(regs, n)
    <3> DEFINE b == regs[2]
    <3> HIDE DEF b
    <3>1. regs = <<P, b>> /\ n \in DOMAIN P \cup DOMAIN b
      BY <1>2, <2>1 DEF b
    <3> QED
      BY <3>1, TwoScopes
  <2>3. register = IF n \in DOMAIN regs[2] THEN regs[2][n] ELSE P[n]
    BY <1>4, <2>2 DEF Held
  <2>4. IsSymbol(register) /\ Formed(register) /\ Format(register) # "void"
    BY <1>3, <1>5, <2>1, <2>3
  <2>5. Legible(register) /\ Format(register) \in Stored
    BY <2>4, SymbolFacts, AllFormats DEF Legible
  <2>6. g = ByFormat(register, Stored, y)
    BY <1>12 DEF GenVariable
  <2>7. g = y
    BY <2>5, <2>6 DEF ByFormat
  <2>8. a.want = a.have /\ a.op[1] = "load"
    BY DEF LoadIns, Ins
  <2>9. ASSUME "namesake" \notin w, Formed(u)
        PROVE  Format(register) = Format(u)
    <3>1. CASE n \in DOMAIN table[3]
      BY <1>3, <1>7, <2>2, <2>9, <3>1
    <3>2. CASE n \notin DOMAIN table[3]
      BY <1>2, <1>7, <2>1, <2>3, <3>2
    <3> QED
      BY <3>1, <3>2
  <2> HIDE DEF a
  <2>10. CodeFits(<<a>>, w) /\ NoCalls(<<a>>)
    BY <2>8, OneInstruction
  <2>11. Ordinary(w) /\ Formed(u) => k = KindOf(Format(u))
    BY <2>9 DEF Ordinary
  <2> HIDE DEF k, u
  <2>12. Sense(node, u, k, w)
    <3>1. Sense(node, node.symbol, k, w)
      BY <1>1, <1>9, <2>11, SelfSense DEF u
    <3> QED
      BY <3>1 DEF u
  <2> QED
    BY <1>10, <2>7, <2>10, <2>12, YieldedSound
<1> QED
  BY <1>11, <1>12

-----------------------------------------------------------------------------
(***************************************************************************)
(* Casts, calls and properties.                                            *)
(***************************************************************************)
LEMMA CastSound ==
  ASSUME NEW node, NEW w, NEW a, NEW x, NEW g, Means(a, x, w), Consumed(a, w),
         node.op = "call", NEW t \in Types,
         node.symbol = TypeSymbol(t), node.result = TypeSymbol(t),
         Formed(a.result), ~Is(a.result, "void"), MayCast(Format(a.result), FormatOf(t)),
         g = GenCast(node.symbol, x)
  PROVE  Sound(g, node, w) /\ NoCalls(g.code)
<1> DEFINE s == node.symbol
           from == Format(x.symbol)
           to == Format(s)
           b == TypeOf(a.result).name
<1>1. /\ IsSymbol(s) /\ IsType(s) /\ Formed(s) /\ s.name = t /\ TypeOf(s) = s
      /\ to = FormatOf(t) /\ node.result = s
  BY TypeFacts
<1>2. IsSymbol(x.symbol) /\ IsSymbol(a.result)
  BY DEF Means, Typed, EntryFits
<1>3. b \in Types /\ Format(a.result) = FormatOf(b)
  BY <1>2, SymbolFacts DEF Format
<1>4. /\ ~Formed(x.symbol) => "relayed" \in w
      /\ Legible(x.symbol) <=> Formed(x.symbol)
  BY OperandFacts
<1>5. b = "void" => "void" \in w
  <2>1. IsType(a.result) => TypeOf(a.result) = a.result
    BY <1>2, SymbolFacts
  <2> QED
    BY <2>1 DEF Is, Means, EntryFits
<1>6. ASSUME "namesake" \notin w
      PROVE  /\ Formed(x.symbol) /\ from = FormatOf(b)
             /\ Ordinary(w) /\ b # "void" => x.ins = KindOf(FormatOf(b))
  <2>1. TypeOf(a.result).name = b
    OBVIOUS
  <2> HIDE DEF b
  <2> QED
    BY <1>3, <1>6, <2>1, NamedOperand
<1>7. /\ FormatOf(b) \in {"void", "bool", "int", "float", "pointer"}
      /\ FormatOf(b) = "void" <=> b = "void"
      /\ FormatOf(b) = "bool" <=> b = "bool"
      /\ FormatOf(b) = "float" <=> b = "float32"
  BY Formats
<1>8. /\ to \in {"void", "bool", "int", "float", "pointer"}
      /\ to = "bool" <=> t = "bool"
      /\ to = "float" <=> t = "float32"
  BY <1>1, Formats
<1>9. /\ to \in {"int", "float", "bool"} /\ FormatOf(b) # "pointer"
      /\ to = "bool" => FormatOf(b) # "float"
  BY <1>1, <1>3 DEF MayCast, Numeric
<1>10. node.op # "set"
  OBVIOUS
<1>11. Ordinary(w) => "namesake" \notin w
  BY DEF Ordinary
<1>12. CodeFits(<<>>, w) /\ NoCalls(<<>>)
  BY DEF CodeFits, NoCalls
<1>13. CASE Same(TypeOf(x.symbol), s)
  <2>1. TypeOf(x.symbol).name = t
    BY <1>1, <1>13 DEF Same
  <2>2. from = to
    BY <1>1, <2>1 DEF Format
  <2>3. Ordinary(w) /\ Formed(x.symbol) /\ from # "void" => x.ins = KindOf(from)
    BY DEF Means, Worded
  <2>4. g = Yields(x.symbol, x.ins, <<>>)
    BY <1>13 DEF GenCast
  <2>5. Sense(node, x.symbol, x.ins, w)
    BY <1>1, <1>2, <1>4, <1>6, <2>1, <2>2, <2>3 DEF Sense, Is
  <2> QED
    BY <1>10, <1>12, <2>4, <2>5, YieldedSound
<1>14. CASE ~Same(TypeOf(x.symbol), s) /\ ~Legible(x.symbol)
  <2>1. g = Stops("undefined")
    BY <1>14 DEF GenCast
  <2> QED
    BY <1>4, <1>14, <2>1, StoppedSound
<1>15. CASE ~Same(TypeOf(x.symbol), s) /\ Legible(x.symbol)
  <2> DEFINE d(op, want) == Ins(<<op, want>>, <<want>>, <<x.ins>>)
             convert(op, want) == Yields(s, KindOf(to), <<d(op, want)>>)
             keep == Yields(s, x.ins, <<>>)
  <2>1. \/ to = "int" /\ from = "float" /\ g = convert("to i", "f")
        \/ to = "int" /\ from \in {"int", "bool"} /\ g = keep
        \/ to = "float" /\ from \in {"int", "bool"} /\ g = convert("to f", "i")
        \/ to = "bool" /\ from = "int" /\ g = convert("cmov", "i")
        \/ /\ ~(to = "int" /\ from = "float") /\ ~(to = "int" /\ from \in {"int", "bool"})
           /\ ~(to = "float" /\ from \in {"int", "bool"}) /\ ~(to = "bool" /\ from = "int")
           /\ g = Stops("failed")
    <3> DEFINE ff == from
               tt == to
               c1 == convert("to i", "f")
               c2 == keep
               c3 == convert("to f", "i")
               c4 == convert("cmov", "i")
               c5 == Stops("failed")
    <3>1. g = CASE tt = "int" /\ ff = "float"          -> c1
                [] tt = "int" /\ ff \in {"int", "bool"}   -> c2
                [] tt = "float" /\ ff \in {"int", "bool"} -> c3
                [] tt = "bool" /\ ff = "int"              -> c4
                [] OTHER                                  -> c5
      BY <1>15 DEF GenCast
    <3> HIDE DEF ff, tt, c1, c2, c3, c4, c5
    <3>a. CASE tt = "int" /\ ff = "float"
      <4>1. g = c1
        BY <3>1, <3>a
      <4> QED
        BY <3>a, <4>1 DEF tt, ff, c1
    <3>b. CASE tt = "int" /\ ff \in {"int", "bool"}
      <4>1. g = c2
        BY <3>1, <3>b
      <4> QED
        BY <3>b, <4>1 DEF tt, ff, c2
    <3>c. CASE tt = "float" /\ ff \in {"int", "bool"}
      <4>1. g = c3
        BY <3>1, <3>c
      <4> QED
        BY <3>c, <4>1 DEF tt, ff, c3
    <3>d. CASE tt = "bool" /\ ff = "int"
      <4>1. g = c4
        BY <3>1, <3>d
      <4> QED
        BY <3>d, <4>1 DEF tt, ff, c4
    <3>e. CASE /\ ~(tt = "int" /\ ff = "float") /\ ~(tt = "int" /\ ff \in {"int", "bool"})
               /\ ~(tt = "float" /\ ff \in {"int", "bool"}) /\ ~(tt = "bool" /\ ff = "int")
      <4>1. g = c5
        BY <3>1, <3>e
      <4> QED
        BY <3>e, <4>1 DEF tt, ff, c5
    <3> QED
      BY <3>a, <3>b, <3>c, <3>d, <3>e
  <2>2. ASSUME NEW ins, Ordinary(w) => ins = KindOf(to)
        PROVE  Sense(node, s, ins, w)
    BY <1>1, <2>2, SelfSense
  <2>3. /\ Format(x.symbol) = "float" <=> TypeOf(x.symbol).name = "float32"
        /\ Format(x.symbol) = "bool" <=> TypeOf(x.symbol).name = "bool"
    BY Formats DEF Format
  <2>4. ~(from = "float" /\ to = "float") /\ ~(from = "bool" /\ to = "bool")
    BY <1>1, <1>8, <1>15, <2>3 DEF Same
  <2> HIDE DEF s, from, to, b
  <2>5. ASSUME Ordinary(w), from # "void"
        PROVE  x.ins = KindOf(from)
    BY <1>6, <1>7, <1>11, <2>5
  <2>6. ASSUME NEW op, op \notin {"call", "ret"}, NEW want, g = convert(op, want),
               KindOf(from) = want, from # "void"
        PROVE  Sound(g, node, w) /\ NoCalls(g.code)
    <3> DEFINE i == d(op, want)
               k == KindOf(to)
    <3>1. i.want = <<want>> /\ i.have = <<x.ins>> /\ i.op[1] = op
      BY DEF Ins
    <3>2. g = Yields(s, k, <<i>>)
      BY <2>6
    <3>3. Sense(node, s, k, w)
      BY <2>2
    <3> HIDE DEF i, k
    <3>4. CodeFits(<<i>>, w) /\ NoCalls(<<i>>)
      BY <2>5, <2>6, <3>1, OneInstruction
    <3> QED
      BY <1>10, <3>2, <3>3, <3>4, YieldedSound
  <2>7. CASE g = keep /\ to = "int" /\ from \in {"int", "bool"}
    <3>1. Ordinary(w) => x.ins = KindOf(to)
      BY <2>5, <2>7, Words
    <3>2. Sense(node, s, x.ins, w)
      BY <2>2, <3>1
    <3> QED
      BY <1>10, <1>12, <2>7, <3>2, YieldedSound
  <2>8. CASE /\ ~(to = "int" /\ from = "float") /\ ~(to = "int" /\ from \in {"int", "bool"})
             /\ ~(to = "float" /\ from \in {"int", "bool"}) /\ ~(to = "bool" /\ from = "int")
             /\ g = Stops("failed")
    <3>1. "namesake" \in w \/ "void" \in w
      BY <1>5, <1>6, <1>7, <1>9, <2>4, <2>8
    <3> QED
      BY <2>8, <3>1, StoppedSound
  <2>9. CASE to = "int" /\ from = "float" /\ g = convert("to i", "f")
    BY <2>6, <2>9, Words
  <2>10. CASE to = "float" /\ from \in {"int", "bool"} /\ g = convert("to f", "i")
    BY <2>6, <2>10, Words
  <2>11. CASE to = "bool" /\ from = "int" /\ g = convert("cmov", "i")
    BY <2>6, <2>11, Words
  <2> QED
    BY <2>1, <2>7, <2>8, <2>9, <2>10, <2>11
<1> QED
  BY <1>13, <1>14, <1>15

\* The values of the last m operands stand for them.
ArgsMean(args, s, m, w) ==
  /\ DOMAIN args = 1 .. m
  /\ \A i \in 1 .. m : /\ Means(Opd(s, m - i + 1), args[i], w)
                       /\ Consumed(Opd(s, m - i + 1), w)

\* What a call looks like from the function.
Answers(code, i, f) ==
  /\ [j \in 1 .. i - 1 |-> code[j].where] = ParameterSlots(f)
  /\ code[i].op = <<"call", KindOf(FormatOf(f.ret))>>
  /\ code[i].have # <<>> <=> f.spec # ""

CallsFit(code, c, w) ==
  w \cap {"char", "static", "bare", "namesake"} = {} =>
    \A i \in DOMAIN code :
      /\ code[i].op[1] = "call" =>
           \A f \in Functions : code[i].where = <<f.id>> => Answers(code, i, f)
      /\ code[i].op[1] = "ret" => code[i].op = <<"ret", KindOf(FormatOf(c.ret))>>

LEMMA NoCallsFit ==
  ASSUME NEW code, NEW c, NEW w, NoCalls(code)
  PROVE  CallsFit(code, c, w)
BY DEF NoCalls, CallsFit

LEMMA ParamTypes ==
  ASSUME NEW f \in Functions, NEW s, NEW m \in Nat, Takes(f, s, m)
  PROVE  /\ DOMAIN f.params = 1 .. m
         /\ \A i \in 1 .. m : /\ f.params[i] = TypeOf(Opd(s, m - i + 1).result).name
                              /\ f.params[i] \in Types \ {"void"}
<1> DEFINE p == f.params
<1>1. p = [i \in 1 .. m |-> TypeOf(Opd(s, m - i + 1).result).name]
  BY DEF Takes
<1>2. p \in Seq(Types \ {"void"})
  BY FunctionsAssumption
<1>3. DOMAIN p = 1 .. m
  BY <1>1
<1>4. \A i \in 1 .. m : p[i] = TypeOf(Opd(s, m - i + 1).result).name
  BY <1>1
<1> HIDE DEF p
<1>5. p \in [1 .. Len(p) -> Types \ {"void"}]
  BY <1>2, LenProperties
<1>6. \A i \in 1 .. m : p[i] \in Types \ {"void"}
  BY <1>3, <1>5
<1> QED
  BY <1>3, <1>4, <1>6 DEF p

\* The stores of the arguments, and the call.
LEMMA StoresThenCall ==
  ASSUME NEW m \in Nat, NEW stores, DOMAIN stores = 1 .. m,
         stores = [i \in 1 .. m |-> stores[i]], NEW call,
         NEW code, code = stores \o <<call>>
  PROVE  /\ DOMAIN code = 1 .. m + 1
         /\ \A i \in 1 .. m : code[i] = stores[i]
         /\ code[m + 1] = call
<1> DEFINE S == {stores[i] : i \in 1 .. m} \cup {call}
<1>1. stores \in [1 .. m -> S]
  <2>1. \A i \in 1 .. m : stores[i] \in S
    OBVIOUS
  <2> HIDE DEF S
  <2> QED
    BY <2>1
<1>a. call \in S
  OBVIOUS
<1> HIDE DEF S
<1>2. stores \in Seq(S)
  BY <1>1, SeqDef
<1>3. Len(stores) = m
  <2>1. Len(stores) \in Nat /\ DOMAIN stores = 1 .. Len(stores)
    BY <1>2, LenProperties
  <2> QED
    BY <2>1
<1>4. <<call>> \in Seq(S) /\ Len(<<call>>) = 1 /\ <<call>>[1] = call
  BY <1>a
<1> DEFINE q == <<call>>
<1> HIDE DEF q
<1>5. /\ stores \o q \in Seq(S)
      /\ Len(stores \o q) = Len(stores) + Len(q)
      /\ \A i \in 1 .. Len(stores) + Len(q) :
           (stores \o q)[i] = IF i <= Len(stores) THEN stores[i] ELSE q[i - Len(stores)]
  BY <1>2, <1>4, ConcatProperties DEF q
<1>6. code = stores \o q /\ Len(q) = 1 /\ q[1] = call
  BY <1>4 DEF q
<1>7. code \in Seq(S) /\ Len(code) = m + 1
  BY <1>3, <1>5, <1>6
<1>8. DOMAIN code = 1 .. m + 1
  BY <1>7, LenProperties
<1>9. \A i \in 1 .. m : code[i] = stores[i]
  BY <1>3, <1>5, <1>6
<1>10. code[m + 1] = call
  <2>1. m + 1 \in 1 .. m + 1 /\ ~(m + 1 <= m) /\ m + 1 - m = 1
    OBVIOUS
  <2> QED
    BY <1>3, <1>5, <1>6, <2>1
<1> QED
  BY <1>8, <1>9, <1>10

\* The symbol of a function or of a property.
Named(n) == n # ""

LEMMA CallSymbol ==
  ASSUME NEW d, Named(d.id), NEW t \in Types, NEW kind, kind \in Kinds,
         NEW sym, sym = SymbolOf(kind, d, t)
  PROVE  /\ ~IsType(sym) /\ TypeOf(sym) = TypeSymbol(t) /\ sym.name = d.id
         /\ IsSymbol(sym) /\ Formed(sym) /\ Legible(sym) /\ Format(sym) = FormatOf(t)
         /\ TypeOf(sym).name = t
<1> DEFINE u == TypeSymbol(t)
           id == d.id
<1>1. IsSymbol(u) /\ IsType(u) /\ u.name = t
  BY TypeFacts
<1>2. sym = FunctionSymbol(kind, id, u)
  BY DEF SymbolOf
<1> HIDE DEF u, id
<1>3. LET z == FunctionSymbol(kind, id, u) IN
      /\ ~IsType(z) /\ TypeOf(z) = u /\ z.name = id /\ z # NoSymbol /\ IsSymbol(z)
      /\ Formed(z) <=> IsType(u)
  <2>1. id # ""
    BY DEF Named, id
  <2> QED
    BY <1>1, <2>1, FunctionFacts
<1>5. /\ ~IsType(sym) /\ TypeOf(sym) = u /\ sym.name = id /\ sym # NoSymbol /\ IsSymbol(sym)
      /\ Formed(sym)
  BY <1>1, <1>2, <1>3
<1> QED
  BY <1>1, <1>5 DEF u, id, Legible, Format

LEMMA FunctionFace ==
  ASSUME NEW f \in Functions, NEW sym, sym = SymbolOf("function", f, f.ret)
  PROVE  /\ ~IsType(sym) /\ TypeOf(sym) = TypeSymbol(f.ret) /\ sym.name = f.id
         /\ IsSymbol(sym) /\ Formed(sym) /\ Legible(sym) /\ Format(sym) = FormatOf(f.ret)
         /\ TypeOf(sym).name = f.ret
<1>1. f.ret \in Types /\ Named(f.id)
  BY FunctionsAssumption DEF Named
<1>2. "function" \in Kinds
  BY DEF Kinds
<1> QED
  BY <1>1, <1>2, CallSymbol

\* An argument, for a parameter of type t.
ArgFits(v, t, w) ==
  /\ ~Legible(v.symbol) => "relayed" \in w
  /\ Legible(v.symbol) /\ Format(v.symbol) \notin Stored => "namesake" \in w
  /\ w \cap {"namesake", "char"} = {} =>
       Format(v.symbol) = FormatOf(t) /\ Size(v.symbol) = SizeOf(t)
  /\ Ordinary(w) => v.ins = KindOf(Format(v.symbol))

LEMMA ArgumentFits ==
  ASSUME NEW o, NEW v, NEW w, Means(o, v, w), Consumed(o, w),
         NEW t \in Types \ {"void"}, t = TypeOf(o.result).name
  PROVE  ArgFits(v, t, w)
<1>1. t \in Types /\ t # "void" /\ FormatOf(t) # "void"
  BY Formats
<1>2. (Legible(v.symbol) <=> Formed(v.symbol)) /\ (~Formed(v.symbol) => "relayed" \in w)
  BY OperandFacts
<1>3. "namesake" \notin w =>
        /\ Format(v.symbol) = FormatOf(t)
        /\ "char" \notin w => Size(v.symbol) = SizeOf(t)
        /\ Ordinary(w) => v.ins = KindOf(FormatOf(t))
  BY <1>1, NamedOperand
<1>4. "namesake" \notin w => Format(v.symbol) \in Stored
  BY <1>1, <1>3, AllFormats
<1>5. Ordinary(w) => "namesake" \notin w
  BY DEF Ordinary
<1>6. w \cap {"namesake", "char"} = {} => "namesake" \notin w /\ "char" \notin w
  OBVIOUS
<1> QED
  BY <1>2, <1>3, <1>4, <1>5, <1>6 DEF ArgFits

ArgsFit(args, f, m, w) ==
  /\ DOMAIN args = 1 .. m /\ DOMAIN f.params = 1 .. m
  /\ \A i \in 1 .. m : ArgFits(args[i], f.params[i], w)

LEMMA ArgumentsFit ==
  ASSUME NEW f \in Functions, NEW s, NEW m \in Nat, NEW args, NEW w,
         Takes(f, s, m), ArgsMean(args, s, m, w)
  PROVE  ArgsFit(args, f, m, w)
<1>1. /\ DOMAIN f.params = 1 .. m
      /\ \A i \in 1 .. m : /\ f.params[i] = TypeOf(Opd(s, m - i + 1).result).name
                            /\ f.params[i] \in Types \ {"void"}
  BY ParamTypes
<1>2. ASSUME NEW i \in 1 .. m
      PROVE  ArgFits(args[i], f.params[i], w)
  <2>1. Means(Opd(s, m - i + 1), args[i], w) /\ Consumed(Opd(s, m - i + 1), w)
    BY DEF ArgsMean
  <2>2. /\ f.params[i] \in Types \ {"void"}
        /\ f.params[i] = TypeOf(Opd(s, m - i + 1).result).name
    BY <1>1
  <2>3. ASSUME NEW o, NEW v, NEW t, Means(o, v, w), Consumed(o, w), t \in Types \ {"void"},
               t = TypeOf(o.result).name
        PROVE  ArgFits(v, t, w)
    BY <2>3, ArgumentFits
  <2> QED
    BY <2>1, <2>2, <2>3
<1> QED
  BY <1>1, <1>2 DEF ArgsFit, ArgsMean

\* One store.
LEMMA OneStore ==
  ASSUME NEW s, NEW offset, NEW value, NEW a, a = StoreIns(s, "p", offset, value)
  PROVE  /\ a.op[1] = "store" /\ a.where = Slot(s, offset)
         /\ value = KindOf(Format(s)) => a.want = a.have
<1> DEFINE k == KindOf(Format(s))
           slot == Slot(s, offset)
<1>1. a = [Ins(<<"store", k>>, <<k, "p">>, <<value, "p">>) EXCEPT !.where = slot]
  BY DEF StoreIns
<1> HIDE DEF k, slot
<1>2. a.op = <<"store", k>> /\ a.where = slot /\ a.want = <<k, "p">> /\ a.have = <<value, "p">>
  BY <1>1 DEF Ins
<1> QED
  BY <1>2 DEF k, slot

StoresFit(stores, f, m, w) ==
  /\ DOMAIN stores = 1 .. m /\ stores = [i \in 1 .. m |-> stores[i]]
  /\ \A i \in 1 .. m :
       /\ stores[i].op[1] = "store"
       /\ Ordinary(w) => stores[i].want = stores[i].have
       /\ w \cap {"namesake", "char"} = {} => stores[i].where = ParameterSlots(f)[i]
  /\ ParameterSlots(f) = [i \in 1 .. m |-> ParameterSlots(f)[i]]

LEMMA Stores ==
  ASSUME NEW f, NEW m \in Nat, NEW args, NEW w, ArgsFit(args, f, m, w),
         NEW symbols, symbols = [i \in DOMAIN args |-> args[i].symbol],
         NEW sizes, sizes = [i \in DOMAIN args |-> ArgumentSize(symbols[i])],
         NEW stores,
         stores = [i \in DOMAIN args |->
                     StoreIns(symbols[i], "p", Sum(sizes, i - 1), args[i].ins)]
  PROVE  StoresFit(stores, f, m, w)
<1>1. DOMAIN args = 1 .. m /\ DOMAIN f.params = 1 .. m
  BY DEF ArgsFit
<1>2. ASSUME NEW i \in 1 .. m
      PROVE  /\ stores[i].op[1] = "store"
             /\ Ordinary(w) => stores[i].want = stores[i].have
             /\ stores[i].where = Slot(symbols[i], Sum(sizes, i - 1))
  <2> DEFINE x == args[i].ins
             y == symbols[i]
             z == Sum(sizes, i - 1)
             a == stores[i]
  <2>1. a = StoreIns(y, "p", z, x)
    BY <1>1
  <2>2. y = args[i].symbol
    BY <1>1
  <2>3. Ordinary(w) => x = KindOf(Format(y))
    BY <2>2 DEF ArgsFit, ArgFits
  <2> HIDE DEF x, y, z, a
  <2>4. a.op[1] = "store" /\ a.where = Slot(y, z) /\ (x = KindOf(Format(y)) => a.want = a.have)
    BY <2>1, OneStore
  <2>5. /\ a.op[1] = "store"
        /\ Ordinary(w) => a.want = a.have
        /\ a.where = Slot(y, z)
    BY <2>3, <2>4
  <2> QED
    BY <2>5 DEF a, y, z
<1> DEFINE p == f.params
           q == [i \in DOMAIN p |-> SizeOf(p[i])]
<1>3. DOMAIN q = 1 .. m /\ \A i \in 1 .. m : q[i] = SizeOf(p[i])
  BY <1>1
<1>4. ParameterSlots(f) = [i \in 1 .. m |-> Slot(TypeSymbol(p[i]), Sum(q, i - 1))]
  BY <1>3 DEF ParameterSlots
<1>5. ASSUME w \cap {"namesake", "char"} = {}
      PROVE  sizes = q
  <2>1. ASSUME NEW i \in 1 .. m
        PROVE  sizes[i] = q[i]
    <3>1. symbols[i] = args[i].symbol /\ sizes[i] = Size(symbols[i])
      BY <1>1 DEF ArgumentSize
    <3>2. Size(args[i].symbol) = SizeOf(p[i])
      BY <1>5 DEF ArgsFit, ArgFits
    <3> QED
      BY <1>3, <3>1, <3>2
  <2>2. sizes = [i \in 1 .. m |-> sizes[i]]
    BY <1>1
  <2>3. q = [i \in 1 .. m |-> q[i]]
    BY <1>1
  <2> HIDE DEF q
  <2> QED
    BY <2>1, <2>2, <2>3
<1> HIDE DEF q, p
<1>6. ASSUME w \cap {"namesake", "char"} = {}, NEW i \in 1 .. m
      PROVE  stores[i].where = ParameterSlots(f)[i]
  <2>1. symbols[i] = args[i].symbol
    BY <1>1
  <2>2. Format(symbols[i]) = FormatOf(p[i]) /\ Size(symbols[i]) = SizeOf(p[i])
    BY <1>6, <2>1 DEF ArgsFit, ArgFits, p
  <2>3. Format(TypeSymbol(p[i])) = FormatOf(p[i]) /\ Size(TypeSymbol(p[i])) = SizeOf(p[i])
    BY TypeFacts
  <2>4. \A n : Slot(symbols[i], n) = Slot(TypeSymbol(p[i]), n)
    BY <2>2, <2>3 DEF Slot
  <2>5. ParameterSlots(f)[i] = Slot(TypeSymbol(p[i]), Sum(q, i - 1))
    BY <1>4
  <2>6. sizes = q
    BY <1>5, <1>6
  <2>7. stores[i].where = Slot(symbols[i], Sum(sizes, i - 1))
    BY <1>2
  <2>8. stores[i].where = Slot(symbols[i], Sum(q, i - 1))
    BY <2>6, <2>7
  <2>9. Slot(symbols[i], Sum(q, i - 1)) = Slot(TypeSymbol(p[i]), Sum(q, i - 1))
    BY <2>4
  <2> QED
    BY <2>5, <2>8, <2>9
<1>7. ParameterSlots(f) = [i \in 1 .. m |-> ParameterSlots(f)[i]]
  BY <1>4
<1>8. DOMAIN stores = 1 .. m /\ stores = [i \in 1 .. m |-> stores[i]]
  BY <1>1
<1> QED
  BY <1>2, <1>6, <1>7, <1>8 DEF StoresFit

\* The object of a member call, or none.
ObjectIs(object, w) ==
  \/ object = <<>>
  \/ \E x : object = <<x>> /\ (Ordinary(w) => x.ins = "p")

LEMMA ObjectWords ==
  ASSUME NEW object, NEW w, ObjectIs(object, w),
         NEW wants, wants = [i \in DOMAIN object |-> "p"],
         NEW haves, haves = [i \in DOMAIN object |-> object[i].ins]
  PROVE  /\ Ordinary(w) => wants = haves
         /\ haves # <<>> <=> object # <<>>
<1>1. CASE object = <<>>
  <2>1. DOMAIN object = {}
    BY <1>1
  <2>2. wants = [i \in {} |-> "p"] /\ haves = [i \in {} |-> object[i].ins]
    BY <2>1
  <2>3. wants = haves /\ haves = <<>>
    BY <2>2
  <2> QED
    BY <1>1, <2>3
<1>2. ASSUME NEW x, object = <<x>>, Ordinary(w) => x.ins = "p"
      PROVE  /\ Ordinary(w) => wants = haves
             /\ haves # <<>> <=> object # <<>>
  <2>1. DOMAIN object = {1} /\ object[1] = x
    BY <1>2
  <2>2. DOMAIN wants = {1} /\ DOMAIN haves = {1} /\ wants[1] = "p" /\ haves[1] = x.ins
    BY <2>1
  <2>3. wants = [i \in {1} |-> wants[i]] /\ haves = [i \in {1} |-> haves[i]]
    BY <2>1
  <2>4. wants[1] = haves[1] => wants = haves
    BY <2>3
  <2>5. DOMAIN <<>> = {}
    OBVIOUS
  <2> QED
    BY <1>2, <2>1, <2>2, <2>4, <2>5
<1> QED
  BY <1>1, <1>2 DEF ObjectIs

\* The code of a call: the arguments stored, and the call.
CallIs(call, f, w) ==
  /\ call.op = <<"call", KindOf(FormatOf(f.ret))>> /\ call.where = <<f.id>>
  /\ Ordinary(w) => call.want = call.have
  /\ w \cap {"char", "static", "bare", "namesake"} = {} => (call.have # <<>> <=> f.spec # "")

Followed(stores, call, code) == code = stores \o <<call>>

LEMMA Upto ==
  ASSUME NEW m \in Nat, NEW n, n = m + 1
  PROVE  /\ n \in 1 .. n /\ n - 1 = m
         /\ \A i \in 1 .. n : i \in 1 .. m \/ i = n
OBVIOUS

LEMMA YieldFields ==
  ASSUME NEW symbol, NEW ins, NEW code, NEW g, g = Yields(symbol, ins, code)
  PROVE  g.fate = "generate" /\ g.symbol = symbol /\ g.ins = ins /\ g.code = code
BY DEF Yields

LEMMA NoCode ==
  ASSUME NEW code, code = <<>>, NEW w, NEW c
  PROVE  CodeFits(code, w) /\ CallsFit(code, c, w)
BY DEF CodeFits, CallsFit

LEMMA CallCode ==
  ASSUME NEW f \in Functions, NEW m \in Nat, NEW w, NEW c,
         NEW stores, StoresFit(stores, f, m, w), NEW call, CallIs(call, f, w),
         NEW code, Followed(stores, call, code)
  PROVE  CodeFits(code, w) /\ CallsFit(code, c, w)
<1> DEFINE n == m + 1
           R == w \cap {"char", "static", "bare", "namesake"} = {}
<1>a. DOMAIN stores = 1 .. m /\ stores = [i \in 1 .. m |-> stores[i]]
  BY DEF StoresFit
<1>1. /\ DOMAIN code = 1 .. n
      /\ \A i \in 1 .. m : code[i] = stores[i]
      /\ code[n] = call
  BY <1>a, StoresThenCall DEF Followed
<1>2. /\ n \in 1 .. n /\ n - 1 = m
      /\ \A i \in 1 .. n : i \in 1 .. m \/ i = n
  BY Upto
<1>3. R => w \cap {"namesake", "char"} = {}
  OBVIOUS
<1>b. \A i \in 1 .. m :
        /\ stores[i].op[1] = "store"
        /\ Ordinary(w) => stores[i].want = stores[i].have
        /\ w \cap {"namesake", "char"} = {} => stores[i].where = ParameterSlots(f)[i]
  BY DEF StoresFit
<1>c. ParameterSlots(f) = [i \in 1 .. m |-> ParameterSlots(f)[i]]
  BY DEF StoresFit
<1>d. /\ call.op = <<"call", KindOf(FormatOf(f.ret))>> /\ call.where = <<f.id>>
      /\ Ordinary(w) => call.want = call.have
      /\ R => (call.have # <<>> <=> f.spec # "")
  BY DEF CallIs
<1> HIDE DEF n
<1>4. CodeFits(code, w)
  BY <1>1, <1>2, <1>b, <1>d DEF CodeFits
<1>5. ASSUME R
      PROVE  Answers(code, n, f)
  <2>1. [j \in 1 .. m |-> code[j].where] = [j \in 1 .. m |-> ParameterSlots(f)[j]]
    BY <1>1, <1>3, <1>5, <1>b
  <2>2. [j \in 1 .. n - 1 |-> code[j].where] = [j \in 1 .. m |-> code[j].where]
    BY <1>2
  <2>3. [j \in 1 .. n - 1 |-> code[j].where] = ParameterSlots(f)
    BY <2>1, <2>2, <1>c
  <2>4. code[n].op = <<"call", KindOf(FormatOf(f.ret))>>
    BY <1>1, <1>d
  <2>5. code[n].have # <<>> <=> f.spec # ""
    BY <1>1, <1>5, <1>d
  <2> QED
    BY <2>3, <2>4, <2>5 DEF Answers
<1>6. \A i \in 1 .. m : code[i].op[1] = "store"
  BY <1>1, <1>b
<1>e. call.op[1] = "call" /\ call.where = <<f.id>>
  <2> DEFINE x == KindOf(FormatOf(f.ret))
  <2>1. call.op = <<"call", x>> /\ call.where = <<f.id>>
    BY <1>d
  <2> HIDE DEF x
  <2> QED
    BY <2>1
<1>7. code[n].op[1] = "call" /\ code[n].where = <<f.id>>
  BY <1>1, <1>e
<1>8. ASSUME R, NEW i \in DOMAIN code, code[i].op[1] = "call", NEW h \in Functions,
             code[i].where = <<h.id>>
      PROVE  Answers(code, i, h)
  <2>1. i = n
    BY <1>1, <1>2, <1>6, <1>8
  <2>2. h.id = f.id
    BY <1>7, <1>8, <2>1
  <2>3. h = f
    BY <2>2, FunctionsAssumption
  <2> QED
    BY <1>5, <1>8, <2>1, <2>3
<1>9. \A i \in DOMAIN code : code[i].op[1] # "ret"
  BY <1>1, <1>2, <1>6, <1>7
<1>10. CallsFit(code, c, w)
  BY <1>8, <1>9 DEF CallsFit
<1> QED
  BY <1>4, <1>10

\* A call of f gives what f returns, and its code fits.
Passed(object, f, w) ==
  w \cap {"char", "static", "bare", "namesake"} = {} => (object # <<>> <=> f.spec # "")

Called(g, f, c, w) ==
  /\ Excused(g, w) /\ CodeFits(g.code, w) /\ CallsFit(g.code, c, w)
  /\ g.fate = "generate" =>
       g.symbol = TypeSymbol(f.ret) /\ g.ins = KindOf(FormatOf(f.ret))

LEMMA CallSound ==
  ASSUME NEW f \in Functions, NEW m \in Nat, NEW w, NEW c, NEW args, NEW object,
         ArgsFit(args, f, m, w), ObjectIs(object, w), Passed(object, f, w),
         NEW sym, sym = SymbolOf("function", f, f.ret),
         NEW g, g = GenCall(sym, args, object)
  PROVE  Called(g, f, c, w)
<1> DEFINE symbols == [i \in DOMAIN args |-> args[i].symbol]
           sizes == [i \in DOMAIN args |-> ArgumentSize(symbols[i])]
           stores == [i \in DOMAIN args |->
                        StoreIns(symbols[i], "p", Sum(sizes, i - 1), args[i].ins)]
           k == KindOf(Format(sym))
           wants == [i \in DOMAIN object |-> "p"]
           haves == [i \in DOMAIN object |-> object[i].ins]
           call == [Ins(<<"call", k>>, wants, haves) EXCEPT !.where = <<sym.name>>]
           code == stores \o <<call>>
<1>1. TypeOf(sym) = TypeSymbol(f.ret) /\ sym.name = f.id /\ k = KindOf(FormatOf(f.ret))
  BY FunctionFace
<1>2. \/ g = Stops("undefined") /\ \E i \in DOMAIN symbols : ~Legible(symbols[i])
      \/ /\ g = Stops("failed") /\ \A i \in DOMAIN symbols : Legible(symbols[i])
         /\ \E i \in DOMAIN symbols : Format(symbols[i]) \notin Stored
      \/ g = Yields(TypeOf(sym), k, code)
  BY DEF GenCall
<1>a. symbols = [i \in DOMAIN args |-> args[i].symbol]
  OBVIOUS
<1>b. sizes = [i \in DOMAIN args |-> ArgumentSize(symbols[i])]
  OBVIOUS
<1>c. stores = [i \in DOMAIN args |->
                  StoreIns(symbols[i], "p", Sum(sizes, i - 1), args[i].ins)]
  OBVIOUS
<1>d. wants = [i \in DOMAIN object |-> "p"] /\ haves = [i \in DOMAIN object |-> object[i].ins]
  OBVIOUS
<1>5. DOMAIN symbols = 1 .. m /\ \A i \in 1 .. m : symbols[i] = args[i].symbol
  BY DEF ArgsFit
<1>6. \A i \in 1 .. m : /\ ~Legible(symbols[i]) => "relayed" \in w
                        /\ Legible(symbols[i]) /\ Format(symbols[i]) \notin Stored
                             => "namesake" \in w
  BY <1>5 DEF ArgsFit, ArgFits
<1> HIDE DEF stores, wants, haves, symbols, sizes, k
<1>3. StoresFit(stores, f, m, w)
  BY <1>a, <1>b, <1>c, Stores
<1>4. (Ordinary(w) => wants = haves) /\ (haves # <<>> <=> object # <<>>)
  BY <1>d, ObjectWords
<1>7. /\ call.op = <<"call", k>> /\ call.want = wants /\ call.have = haves
      /\ call.where = <<sym.name>>
  BY DEF Ins
<1> HIDE DEF call
<1>8. CodeFits(code, w) /\ CallsFit(code, c, w)
  <2>1. CallIs(call, f, w)
    BY <1>1, <1>4, <1>7 DEF CallIs, Passed
  <2>2. Followed(stores, call, code)
    BY DEF Followed
  <2> QED
    BY <1>3, <2>1, <2>2, CallCode
<1> HIDE DEF code
<1>9. ASSUME NEW fate, g = Stops(fate), fate \in {"undefined", "failed"},
             fate = "undefined" => "relayed" \in w, fate = "failed" => "namesake" \in w
      PROVE  Called(g, f, c, w)
  <2>1. g.fate = fate /\ g.code = <<>>
    BY <1>9, Stopped
  <2>3. CodeFits(g.code, w) /\ CallsFit(g.code, c, w)
    BY <2>1, NoCode
  <2>4. Excused(g, w)
    BY <1>9, <2>1 DEF Excused
  <2>5. g.fate # "generate"
    BY <1>9, <2>1
  <2> QED
    BY <2>3, <2>4, <2>5 DEF Called
<1>10. CASE g = Stops("undefined") /\ \E i \in DOMAIN symbols : ~Legible(symbols[i])
  <2>1. "relayed" \in w
    BY <1>5, <1>6, <1>10
  <2> QED
    BY <1>9, <1>10, <2>1
<1>11. CASE /\ g = Stops("failed") /\ \A i \in DOMAIN symbols : Legible(symbols[i])
            /\ \E i \in DOMAIN symbols : Format(symbols[i]) \notin Stored
  <2>1. "namesake" \in w
    BY <1>5, <1>6, <1>11
  <2> QED
    BY <1>9, <1>11, <2>1
<1>12. CASE g = Yields(TypeOf(sym), k, code)
  <2>1. /\ g.fate = "generate" /\ g.symbol = TypeOf(sym) /\ g.ins = k /\ g.code = code
    BY <1>12, YieldFields
  <2>2. Excused(g, w)
    BY <2>1 DEF Excused
  <2> QED
    BY <1>1, <1>8, <2>1, <2>2 DEF Called
<1> QED
  BY <1>2, <1>10, <1>11, <1>12

\* What a call gives stands for what the checker made of it.
Served(g, node, c, w) == Sound(g, node, w) /\ CallsFit(g.code, c, w)

LEMMA CalledServed ==
  ASSUME NEW f \in Functions, NEW g, NEW c, NEW w, Called(g, f, c, w), NEW node,
         node.op # "set", node.symbol = SymbolOf("function", f, f.ret),
         node.result = TypeSymbol(f.ret)
  PROVE  Served(g, node, c, w)
<1> DEFINE t == f.ret
           u == TypeSymbol(t)
<1>1. t \in Types
  BY FunctionsAssumption, Zenon
<1>2. /\ IsSymbol(node.symbol) /\ Formed(node.symbol) /\ Format(node.symbol) = FormatOf(t)
  BY FunctionFace
<1>3. IsType(u) /\ IsSymbol(u) /\ Formed(u) /\ Format(u) = FormatOf(t)
  BY <1>1, TypeFacts
<1>4. g.fate = "generate" => g.symbol = u /\ g.ins = KindOf(FormatOf(t))
  BY DEF Called
<1>5. node.result = u
  OBVIOUS
<1> HIDE DEF u, t
<1>6. Is(TypeOf(u), TypeOf(node.result).name)
  BY <1>5 DEF Is
<1>7. g.fate = "generate" => Sense(node, g.symbol, g.ins, w)
  BY <1>2, <1>3, <1>4, <1>5, <1>6 DEF Sense
<1>8. g.fate = "generate" => Means(EntryOf(node), Value(g, node), w)
  BY <1>7, SenseMeans
<1> QED
  BY <1>8 DEF Called, Served, Sound

LEMMA PassedFacts ==
  ASSUME NEW f, NEW w
  PROVE  /\ ~Named(f.spec) => Passed(<<>>, f, w)
         /\ \A x : ("static" \notin w => Named(f.spec)) => Passed(<<x>>, f, w)
<1>1. \A x : <<x>> # <<>>
  OBVIOUS
<1>2. w \cap {"char", "static", "bare", "namesake"} = {} => "static" \notin w
  OBVIOUS
<1> QED
  BY <1>1, <1>2, Zenon DEF Passed, Named

\* A call of a function by its name.
LEMMA PlainCallSound ==
  ASSUME NEW node, NEW s, NEW w, NEW c, NEW f \in Functions, NEW args,
         node.op = "call", ~Named(f.spec), Takes(f, s, node.count), node.count \in Nat,
         ArgsMean(args, s, node.count, w),
         node.symbol = SymbolOf("function", f, f.ret), node.result = TypeSymbol(f.ret),
         NEW g, g = GenCall(node.symbol, args, <<>>)
  PROVE  Served(g, node, c, w)
<1> DEFINE m == node.count
           sym == node.symbol
<1>1. ArgsFit(args, f, m, w)
  BY ArgumentsFit
<1>2. ObjectIs(<<>>, w) /\ Passed(<<>>, f, w)
  BY PassedFacts, Zenon DEF ObjectIs
<1>3. sym = SymbolOf("function", f, f.ret) /\ g = GenCall(sym, args, <<>>) /\ m \in Nat
  OBVIOUS
<1> HIDE DEF m, sym
<1>5. Called(g, f, c, w)
  BY <1>1, <1>2, <1>3, CallSound, Zenon
<1> QED
  BY <1>5, CalledServed

\* A call of a member of an object.
LEMMA MemberCallSound ==
  ASSUME NEW node, NEW s, NEW w, NEW c, NEW f \in Functions, NEW args,
         node.op = "member_call", NEW m \in Nat, Takes(f, s, m),
         ArgsMean(args, s, m, w), NEW o, NEW x, Means(o, x, w), Consumed(o, w),
         f.spec = TypeOf(o.result).name \/ "static" \in w,
         node.symbol = SymbolOf("function", f, f.ret), node.result = TypeSymbol(f.ret),
         NEW g, g = GenCall(node.symbol, args, <<x>>)
  PROVE  Served(g, node, c, w)
<1> DEFINE sym == node.symbol
<1>1. ArgsFit(args, f, m, w)
  BY ArgumentsFit
<1>2. "static" \notin w => f.spec = TypeOf(o.result).name
  OBVIOUS
<1>3. Named(TypeOf(o.result).name)
  <2>1. IsSymbol(o.result)
    BY DEF Means, EntryFits
  <2> QED
    BY <2>1, SymbolFacts, Zenon DEF Named
<1>4. Named(f.spec) => f.spec \in Specs
  BY FunctionsAssumption, Zenon DEF Named
<1>5. Ordinary(w) => x.ins = "p"
  <2> DEFINE t == f.spec
  <2>1. SUFFICES ASSUME Ordinary(w)
                 PROVE  x.ins = "p"
    OBVIOUS
  <2>2. "static" \notin w /\ "namesake" \notin w
    BY <2>1 DEF Ordinary
  <2>3. t \in Specs /\ TypeOf(o.result).name = t
    BY <1>2, <1>3, <1>4, <2>2
  <2>4. t \in Types /\ FormatOf(t) = "pointer"
    BY <2>3, Names, Formats, Zenon
  <2>5. t # "void"
    BY <2>4, Formats
  <2> HIDE DEF t
  <2> QED
    BY <2>1, <2>2, <2>3, <2>4, <2>5, NamedOperand, Words
<1>6. ObjectIs(<<x>>, w) /\ Passed(<<x>>, f, w)
  <2>1. ObjectIs(<<x>>, w)
    BY <1>5, Zenon DEF ObjectIs
  <2>2. "static" \notin w => Named(f.spec)
    BY <1>2, <1>3
  <2> QED
    BY <2>1, <2>2, PassedFacts, Zenon
<1>7. sym = SymbolOf("function", f, f.ret) /\ g = GenCall(sym, args, <<x>>)
  OBVIOUS
<1> HIDE DEF sym
<1>8. Called(g, f, c, w)
  BY <1>1, <1>6, <1>7, CallSound, Zenon
<1> QED
  BY <1>8, CalledServed

\* A new object.
LEMMA NewSound ==
  ASSUME NEW node, NEW s, NEW w, NEW c, NEW f \in Functions, NEW args,
         node.op = "new", NEW m \in Nat, Takes(f, s, m), ArgsMean(args, s, m, w),
         f.spec \in Specs, f.ret = "void",
         node.symbol = SymbolOf("function", f, f.ret), node.result = TypeSymbol(f.spec),
         NEW g, g = GenNew(node.result.name, node.symbol, args)
  PROVE  Served(g, node, c, w)
<1> DEFINE sym == node.symbol
           t == f.spec
           u == TypeSymbol(t)
           alloc == [symbol |-> TypeSymbol(node.result.name), ins |-> "p"]
           call == GenCall(sym, args, <<alloc>>)
<1>1. ArgsFit(args, f, m, w)
  BY ArgumentsFit
<1>2. t \in Types /\ FormatOf(t) = "pointer" /\ Named(t)
  <2>1. t \in Types /\ FormatOf(t) = "pointer"
    BY Names, Formats, Zenon
  <2> QED
    BY <2>1, Names, Zenon DEF Named
<1>3. node.result = u /\ IsType(u) /\ IsSymbol(u) /\ Formed(u) /\ Format(u) = "pointer"
      /\ u.name = t
  BY <1>2, TypeFacts
<1>4. alloc.symbol = u /\ alloc.ins = "p"
  BY <1>3
<1>5. g = [call EXCEPT !.symbol = alloc.symbol, !.ins = alloc.ins]
  BY DEF GenNew
<1>6. sym = SymbolOf("function", f, f.ret) /\ call = GenCall(sym, args, <<alloc>>)
  OBVIOUS
<1>7. IsSymbol(sym) /\ Formed(sym) /\ Format(sym) = "void"
  BY FunctionFace, Formats
<1> HIDE DEF alloc, sym, call, u, t
<1>8. Called(call, f, c, w)
  <2>1. ObjectIs(<<alloc>>, w)
    BY <1>4, Zenon DEF ObjectIs
  <2>2. Passed(<<alloc>>, f, w)
    BY <1>2, PassedFacts, Zenon DEF t
  <2> QED
    BY <1>1, <1>6, <2>1, <2>2, CallSound, Zenon
<1>9. DOMAIN call = {"fate", "symbol", "ins", "code"}
  BY <1>6 DEF GenCall, Stops, Yields
<1>10. g.fate = call.fate /\ g.code = call.code /\ g.symbol = u /\ g.ins = "p"
  BY <1>4, <1>5, <1>9
<1>11. node.symbol = sym
  BY DEF sym
<1>12. Is(TypeOf(u), TypeOf(node.result).name)
  BY <1>3 DEF Is
<1>13. Sense(node, u, "p", w)
  BY <1>3, <1>7, <1>11, <1>12, Words DEF Sense
<1>14. Means(EntryOf(node), Value(g, node), w)
  BY <1>10, <1>13, SenseMeans
<1> QED
  BY <1>8, <1>10, <1>14 DEF Called, Served, Sound, Excused

\* Code without calls or returns fits any function.
LEMMA ServedPlainly ==
  ASSUME NEW g, NEW node, NEW c, NEW w, Sound(g, node, w), NoCalls(g.code)
  PROVE  Served(g, node, c, w)
BY NoCallsFit DEF Served

\* A word is loaded from, and stored to, a property of an object.
LEMMA LoadFits ==
  ASSUME NEW s, NEW base, NEW w, Ordinary(w) => base = "p", NEW a, a = LoadIns(s, base, 0)
  PROVE  CodeFits(<<a>>, w) /\ NoCalls(<<a>>)
<1> DEFINE k == KindOf(Format(s))
           slot == Slot(s, 0)
<1>1. a = [Ins(<<"load", k>>, <<"p">>, <<base>>) EXCEPT !.where = slot]
  BY DEF LoadIns
<1> HIDE DEF k, slot
<1>2. a.op = <<"load", k>> /\ a.want = <<"p">> /\ a.have = <<base>>
  BY <1>1 DEF Ins
<1> QED
  BY <1>2, OneInstruction

LEMMA StoreFits ==
  ASSUME NEW s, NEW base, NEW value, NEW w, Ordinary(w) => base = "p",
         Ordinary(w) => value = KindOf(Format(s)), NEW a, a = StoreIns(s, base, 0, value)
  PROVE  CodeFits(<<a>>, w) /\ NoCalls(<<a>>)
<1> DEFINE k == KindOf(Format(s))
           slot == Slot(s, 0)
<1>1. a = [Ins(<<"store", k>>, <<k, "p">>, <<value, base>>) EXCEPT !.where = slot]
  BY DEF StoreIns
<1>2. Ordinary(w) => value = k
  OBVIOUS
<1> HIDE DEF k, slot
<1>3. a.op = <<"store", k>> /\ a.want = <<k, "p">> /\ a.have = <<value, base>>
  BY <1>1 DEF Ins
<1> QED
  BY <1>2, <1>3, OneInstruction

\* The object of a property is a pointer.
LEMMA ObjectPointer ==
  ASSUME NEW o, NEW x, NEW w, Means(o, x, w), Consumed(o, w), TypeOf(o.result).name \in Specs
  PROVE  Ordinary(w) => x.ins = "p"
<1> DEFINE t == TypeOf(o.result).name
<1>1. t \in Types /\ FormatOf(t) = "pointer"
  BY Names, Formats, Zenon
<1>2. t # "void"
  BY <1>1, Formats
<1>3. TypeOf(o.result).name = t
  OBVIOUS
<1> HIDE DEF t
<1>4. Ordinary(w) => "namesake" \notin w
  BY DEF Ordinary
<1> QED
  BY <1>1, <1>2, <1>3, <1>4, NamedOperand, Words

LEMMA PropertyFacts ==
  ASSUME NEW p \in Properties
  PROVE  p.spec \in Specs /\ p.type \in Types /\ Named(p.id)
BY PropertiesAssumption, Zenon DEF Named

LEMMA GetSound ==
  ASSUME NEW node, NEW w, NEW c, NEW p \in Properties, node.op = "get",
         NEW o, NEW x, Means(o, x, w), Consumed(o, w), p.spec = TypeOf(o.result).name,
         p.type = "void" => "void" \in w,
         node.symbol = SymbolOf("property", p, p.type), node.result = node.symbol,
         NEW g, g = GenGet(node.symbol, x)
  PROVE  Served(g, node, c, w)
<1> DEFINE s == node.symbol
           t == p.type
           u == TypeSymbol(t)
           k == KindOf(Format(s))
           a == LoadIns(s, x.ins, 0)
           y == Yields(TypeOf(s), k, <<a>>)
<1>1. p.spec \in Specs /\ t \in Types /\ Named(p.id) /\ "property" \in Kinds
  BY PropertyFacts DEF Kinds
<1>2. /\ ~IsType(s) /\ TypeOf(s) = u /\ IsSymbol(s) /\ Formed(s) /\ Legible(s)
      /\ Format(s) = FormatOf(t) /\ TypeOf(s).name = t
  BY <1>1, CallSymbol
<1>3. IsSymbol(u) /\ Formed(u) /\ Format(u) = FormatOf(t) /\ TypeOf(u) = u /\ u.name = t
  BY <1>1, TypeFacts
<1>4. t = "void" => "void" \in w
  OBVIOUS
<1>5. node.result = s /\ node.symbol = s /\ g = ByFormat(s, Stored, y)
  BY DEF GenGet
<1>6. Ordinary(w) => x.ins = "p"
  BY <1>1, ObjectPointer
<1> HIDE DEF s, t, u, k
<1>7. CodeFits(<<a>>, w) /\ NoCalls(<<a>>)
  BY <1>6, LoadFits
<1> HIDE DEF a
<1>8. Is(TypeOf(u), TypeOf(s).name)
  BY <1>2, <1>3 DEF Is
<1>9. Sense(node, TypeOf(s), k, w)
  BY <1>2, <1>3, <1>4, <1>5, <1>8 DEF Sense, Is, k
<1>10. Format(s) \notin Stored => "void" \in w
  BY <1>2, <1>4, AllFormats, Formats
<1>11. CASE Legible(s) /\ Format(s) \in Stored /\ g = y
  <2>1. Sound(g, node, w) /\ g.code = <<a>>
    BY <1>7, <1>9, <1>11, YieldedSound
  <2> QED
    BY <1>7, <2>1, ServedPlainly
<1>12. CASE Legible(s) /\ Format(s) \notin Stored /\ g = Stops("failed")
  <2>1. w \cap {"string", "void", "bool", "namesake"} # {}
    BY <1>10, <1>12
  <2> QED
    BY <1>12, <2>1, StoppedSound, ServedPlainly
<1> HIDE DEF y
<1> QED
  BY <1>2, <1>5, <1>11, <1>12, ByFormatCases

LEMMA SetSound ==
  ASSUME NEW node, NEW w, NEW c, NEW p \in Properties, node.op = "set",
         NEW o, NEW x, Means(o, x, w), Consumed(o, w), p.spec = TypeOf(o.result).name,
         NEW q, NEW v, Means(q, v, w), Consumed(q, w),
         TypeOf(q.result).name = p.type \/ "mistyped" \in w,
         p.type = "void" => "void" \in w,
         node.symbol = SymbolOf("function", p, p.type), node.result = node.symbol,
         NEW g, g = GenSet(node.symbol, v, x)
  PROVE  Served(g, node, c, w)
<1> DEFINE s == node.symbol
           t == p.type
           u == TypeSymbol(t)
           k == KindOf(Format(s))
           a == StoreIns(s, x.ins, 0, v.ins)
           y == Yields(TypeOf(s), v.ins, <<a>>)
           e == EntryOf(node)
           z == Value(g, node)
<1>1. p.spec \in Specs /\ t \in Types /\ Named(p.id) /\ "function" \in Kinds
  BY PropertyFacts DEF Kinds
<1>2. /\ ~IsType(s) /\ TypeOf(s) = u /\ IsSymbol(s) /\ Formed(s) /\ Legible(s)
      /\ Format(s) = FormatOf(t) /\ TypeOf(s).name = t
  BY <1>1, CallSymbol
<1>3. IsSymbol(u) /\ Formed(u) /\ Format(u) = FormatOf(t) /\ TypeOf(u) = u /\ u.name = t
  BY <1>1, TypeFacts
<1>4. t = "void" => "void" \in w
  OBVIOUS
<1>5. node.result = s /\ node.symbol = s /\ g = ByFormat(s, Stored, y)
  BY DEF GenSet
<1>6. Ordinary(w) => x.ins = "p"
  BY <1>1, ObjectPointer
<1>7. TypeOf(q.result).name = t \/ "mistyped" \in w
  OBVIOUS
<1>8. e.result = s /\ e.symbol = NoSymbol /\ z.node = NoSymbol
      /\ z.symbol = g.symbol /\ z.ins = g.ins
  BY DEF EntryOf, Value, Seen
<1> HIDE DEF s, t, u, e, z
<1>9. Ordinary(w) /\ t # "void" => v.ins = k
  <2>1. Ordinary(w) => "namesake" \notin w /\ "mistyped" \notin w
    BY DEF Ordinary
  <2> QED
    BY <1>1, <1>2, <1>7, <2>1, NamedOperand DEF k
<1>10. Format(s) \notin Stored => "void" \in w
  BY <1>2, <1>4, AllFormats, Formats
<1>11. Format(s) \in Stored => t # "void"
  BY <1>2, Formats DEF Stored
<1> HIDE DEF k
<1>12. CASE Legible(s) /\ Format(s) \in Stored /\ g = y
  <2>1. Ordinary(w) => v.ins = KindOf(Format(s))
    BY <1>9, <1>11, <1>12 DEF k
  <2>2. CodeFits(<<a>>, w) /\ NoCalls(<<a>>)
    BY <1>6, <2>1, StoreFits
  <2> HIDE DEF a
  <2>3. g.fate = "generate" /\ g.symbol = TypeOf(s) /\ g.ins = v.ins /\ g.code = <<a>>
    BY <1>12, YieldFields
  <2> HIDE DEF y
  <2>4. EntryFits(e, w)
    BY <1>2, <1>4, <1>8 DEF EntryFits, Set, Is
  <2>5. Is(TypeOf(u), TypeOf(s).name)
    BY <1>2, <1>3 DEF Is
  <2>6. Typed(e, z, w)
    BY <1>2, <1>3, <1>8, <2>3, <2>5 DEF Typed
  <2>7. Worded(z, w)
    BY <1>2, <1>3, <1>8, <2>1, <2>3 DEF Worded
  <2>8. Means(e, z, w)
    BY <1>8, <2>4, <2>6, <2>7 DEF Means
  <2>9. Sound(g, node, w) /\ NoCalls(g.code)
    BY <2>2, <2>3, <2>8 DEF Sound, Excused, e, z
  <2> QED
    BY <2>9, ServedPlainly
<1>13. CASE Legible(s) /\ Format(s) \notin Stored /\ g = Stops("failed")
  <2>1. w \cap {"string", "void", "bool", "namesake"} # {}
    BY <1>10, <1>13
  <2> QED
    BY <1>13, <2>1, StoppedSound, ServedPlainly
<1> HIDE DEF y
<1> QED
  BY <1>2, <1>5, <1>12, <1>13, ByFormatCases

\* A value that has a format is not void, if the checker let it be assigned.
LEMMA AssignedFormat ==
  ASSUME NEW o, NEW v, NEW w, Means(o, v, w), ~Is(TypeOf(o.result), "void"),
         "namesake" \notin w, Formed(v.symbol)
  PROVE  Format(v.symbol) # "void"
<1>1. ASSUME Format(v.symbol) = "void"
      PROVE  FALSE
  <2>1. Formed(o.result)
    BY <1>1 DEF Means, Typed
  <2>2. Format(o.result) = "void"
    BY <1>1, <2>1 DEF Means, Typed
  <2>3. TypeOf(o.result).name = "void"
    BY <2>2, Formats DEF Format
  <2> QED
    BY <2>3 DEF Is
<1> QED
  BY <1>1

\* An assignment declares n with the symbol u, or n has the symbol u and the
\* type of the value.
Assigns(node, n, u, o) ==
  \/ node.symbol = FunctionSymbol("variable", n, o.result) /\ u = o.result
  \/ node.symbol = u /\ TypeOf(u).name = TypeOf(o.result).name

LEMMA AssignSense ==
  ASSUME NEW node, NEW w, NEW o, NEW v, Means(o, v, w), Consumed(o, w),
         NEW n, Named(n), NEW u, IsSymbol(u), ~Is(TypeOf(u), "void"),
         Assigns(node, n, u, o), node.result = node.symbol,
         ~Is(TypeOf(o.result), "void")
  PROVE  Sense(node, v.symbol, v.ins, w)
<1> DEFINE s == node.symbol
           r == o.result
<1>1. /\ IsSymbol(r) /\ IsSymbol(v.symbol)
      /\ ~Formed(v.symbol) => "relayed" \in w
      /\ "namesake" \notin w /\ Formed(r) =>
           /\ Formed(v.symbol) /\ Format(v.symbol) = Format(r)
           /\ "char" \notin w => Is(TypeOf(v.symbol), TypeOf(r).name)
      /\ Ordinary(w) /\ Formed(v.symbol) /\ Format(v.symbol) # "void"
           => v.ins = KindOf(Format(v.symbol))
  BY OperandFacts DEF Means, EntryFits, Typed, Worded
<1>2. "namesake" \notin w /\ Formed(v.symbol) => Format(v.symbol) # "void"
  BY AssignedFormat
<1>3. node.result = s /\ node.symbol = s
  OBVIOUS
<1>4. CASE s = FunctionSymbol("variable", n, r)
  <2>1. IsSymbol(s) /\ TypeOf(s) = r /\ ~IsType(s) /\ (Formed(s) <=> IsType(r))
    <3> DEFINE q == r
    <3>1. "variable" \in Kinds
      BY DEF Kinds
    <3>2. n # ""
      BY DEF Named
    <3>3. IsSymbol(q) /\ s = FunctionSymbol("variable", n, q)
      BY <1>1, <1>4
    <3> HIDE DEF q, s
    <3>4. LET z == FunctionSymbol("variable", n, q) IN
          /\ ~IsType(z) /\ TypeOf(z) = q /\ z.name = n /\ z # NoSymbol /\ IsSymbol(z)
          /\ Formed(z) <=> IsType(q)
      BY <3>1, <3>2, <3>3, FunctionFacts
    <3>5. IsSymbol(s) /\ TypeOf(s) = q /\ ~IsType(s) /\ (Formed(s) <=> IsType(q))
      BY <3>3, <3>4
    <3> QED
      BY <3>5 DEF q
  <2>2. IsType(r) => Formed(r) /\ TypeOf(r) = r
    BY <1>1, SymbolFacts
  <2>3. IsType(r) => TypeOf(s) = TypeOf(r) /\ Format(s) = Format(r)
    BY <2>1, <2>2, SameName
  <2>4. IsType(r) => ~Is(TypeOf(s), "void")
    BY <2>3
  <2> HIDE DEF s, r
  <2> QED
    BY <1>1, <1>2, <1>3, <2>1, <2>2, <2>3, <2>4 DEF Sense
<1>5. CASE s = u /\ TypeOf(u).name = TypeOf(r).name
  <2>1. Formed(s) => TypeOf(r).name \in Types
    BY <1>5, SymbolFacts
  <2>2. Formed(s) /\ "namesake" \notin w => Formed(r)
    BY <2>1 DEF Consumed
  <2>3. Format(s) = Format(r)
    BY <1>5, SameName
  <2>4. IsSymbol(s) /\ ~Is(TypeOf(s), "void") /\ TypeOf(s).name = TypeOf(r).name
    BY <1>5
  <2> HIDE DEF s, r
  <2> QED
    BY <1>1, <1>2, <1>3, <2>2, <2>3, <2>4 DEF Sense
<1> QED
  BY <1>4, <1>5 DEF Assigns

LEMMA AssignSound ==
  ASSUME NEW node, node.op = "assign", NEW w, NEW c, NEW o, NEW v, Means(o, v, w),
         Consumed(o, w), ~Is(TypeOf(o.result), "void"), Sense(node, v.symbol, v.ins, w),
         NEW g, g = ByFormat(v.symbol, Stored,
                      Yields(v.symbol, v.ins, <<StoreIns(v.symbol, "p", 0, v.ins)>>))
  PROVE  /\ Served(g, node, c, w)
         /\ g.fate = "generate" => Formed(v.symbol) /\ Format(v.symbol) # "void"
<1> DEFINE s == v.symbol
           a == StoreIns(s, "p", 0, v.ins)
           y == Yields(s, v.ins, <<a>>)
<1>1. (Legible(s) <=> Formed(s)) /\ (~Formed(s) => "relayed" \in w)
  BY OperandFacts
<1>2. "void" \notin Stored
  BY DEF Stored
<1>3. CASE ~Legible(s) /\ g = Stops("undefined")
  <2>1. w \cap {"unset", "relayed"} # {}
    BY <1>1, <1>3
  <2>2. g.fate = "undefined"
    BY <1>3, Stopped
  <2> QED
    BY <1>3, <2>1, <2>2, StoppedSound, ServedPlainly
<1>4. CASE Legible(s) /\ Format(s) \notin Stored /\ g = Stops("failed")
  <2>1. "namesake" \in w
    BY <1>1, <1>4, AssignedFormat, AllFormats
  <2>2. w \cap {"string", "void", "bool", "namesake"} # {}
    BY <2>1
  <2>3. g.fate = "failed"
    BY <1>4, Stopped
  <2> QED
    BY <1>4, <2>2, <2>3, StoppedSound, ServedPlainly
<1>5. CASE Legible(s) /\ Format(s) \in Stored /\ g = y
  <2>1. Formed(s) /\ Format(s) # "void"
    BY <1>1, <1>2, <1>5
  <2>2. Ordinary(w) => v.ins = KindOf(Format(s))
    BY <2>1 DEF Means, Worded
  <2> DEFINE base == "p"
  <2>3. Ordinary(w) => base = "p"
    OBVIOUS
  <2>4. a = StoreIns(s, base, 0, v.ins)
    OBVIOUS
  <2> HIDE DEF base
  <2>5. CodeFits(<<a>>, w) /\ NoCalls(<<a>>)
    BY <2>2, <2>3, <2>4, StoreFits
  <2> HIDE DEF a
  <2>6. Sound(g, node, w) /\ g.code = <<a>>
    BY <1>5, <2>5, YieldedSound
  <2> QED
    BY <2>1, <2>5, <2>6, ServedPlainly
<1> HIDE DEF y
<1>6. g = ByFormat(s, Stored, y)
  BY DEF y
<1> QED
  BY <1>3, <1>4, <1>5, <1>6, ByFormatCases

\* What an assignment to n does to the table, and to the registers.
Declared(table, n, r, after) ==
  \/ ~InTop(table, n) /\ after = Put(table, n, r)
  \/ /\ InTop(table, n) /\ Same(TypeOf(Get(table, n)), TypeOf(r))
     /\ after = table
Registered(regs, n, s, next) ==
  \/ next = Put(regs, n, s) /\ ~InTop(regs, n)
  \/ /\ next = regs
     /\ \/ InTop(regs, n)
        \/ IsBound(regs, n) /\ Same(TypeOf(Get(regs, n)), TypeOf(s))

\* The registers stand for the variables, after an assignment too.
LEMMA AssignRegisters ==
  ASSUME NEW table, NEW regs, NEW c, NEW w, Registers(table, regs, c, w), NEW n, n # "this",
         NEW o, NEW v, Means(o, v, w), Consumed(o, w), ~Is(TypeOf(o.result), "void"),
         Formed(v.symbol), Format(v.symbol) # "void",
         NEW after, Declared(table, n, o.result, after),
         NEW next, Registered(regs, n, v.symbol, next)
  PROVE  Registers(after, next, c, w)
<1> DEFINE T == ThisScope(c)
           P == ParamScope(c)
           B == table[3]
           R == regs[2]
           r == o.result
           s == v.symbol
           C == after[3]
           Q == next[2]
<1>1. /\ table = <<T, P, B>> /\ regs = <<P, R>> /\ "this" \notin DOMAIN B
      /\ regs[1] = P
      /\ DOMAIN R \subseteq DOMAIN B /\ DOMAIN B \subseteq DOMAIN P \cup DOMAIN R
      /\ \A j \in DOMAIN R : IsSymbol(R[j]) /\ Formed(R[j]) /\ Format(R[j]) # "void"
      /\ \A j \in DOMAIN B :
           /\ IsSymbol(B[j]) /\ ~Is(TypeOf(B[j]), "void")
           /\ "namesake" \notin w /\ Formed(B[j]) =>
                /\ Format(Held(regs, j)) = Format(B[j])
                /\ "char" \notin w => Is(TypeOf(Held(regs, j)), TypeOf(B[j]).name)
  BY DEF Registers
<1>2. /\ InTop(table, n) <=> n \in DOMAIN B
      /\ n \in DOMAIN B => Get(table, n) = B[n]
      /\ Put(table, n, r) = <<T, P, Bind(B, n, r)>>
  <2> HIDE DEF B, T, P
  <2>1. table = <<T, P, B>>
    BY <1>1
  <2>2. /\ InTop(table, n) <=> n \in DOMAIN B
        /\ IsBound(table, n) <=> n \in DOMAIN T \cup DOMAIN P \cup DOMAIN B
        /\ IsBound(table, n) =>
             Get(table, n) = IF n \in DOMAIN B THEN B[n]
                             ELSE IF n \in DOMAIN P THEN P[n] ELSE T[n]
        /\ \A z : Put(table, n, z) = <<T, P, Bind(B, n, z)>>
    BY <2>1, ThreeScopes
  <2> QED
    BY <2>2
<1>3. /\ InTop(regs, n) <=> n \in DOMAIN R
      /\ IsBound(regs, n) <=> n \in DOMAIN P \cup DOMAIN R
      /\ IsBound(regs, n) => Get(regs, n) = Held(regs, n)
      /\ Put(regs, n, s) = <<P, Bind(R, n, s)>>
  <2> HIDE DEF R, P
  <2>1. regs = <<P, R>>
    BY <1>1
  <2> QED
    BY <2>1, TwoScopes
<1>4. IsSymbol(r) /\ IsSymbol(s)
  BY DEF Means, EntryFits, Typed
<1>5. "namesake" \notin w /\ Formed(r) =>
        Format(s) = Format(r) /\ ("char" \notin w => TypeOf(s).name = TypeOf(r).name)
  BY DEF Means, Typed, Is
<1>6. "namesake" \notin w /\ TypeOf(r).name \in Types => Formed(r)
  BY DEF Consumed
<1>7. /\ after = <<T, P, C>> /\ DOMAIN C = DOMAIN B \cup {n}
      /\ \A j \in DOMAIN B : j # n => C[j] = B[j]
      /\ C[n] = r \/ (n \in DOMAIN B /\ C[n] = B[n] /\ TypeOf(B[n]).name = TypeOf(r).name)
      /\ n \in DOMAIN B => after = table
  <2>1. CASE n \notin DOMAIN B
    <3>1. after = <<T, P, Bind(B, n, r)>>
      BY <1>2, <2>1 DEF Declared
    <3>2. C = Bind(B, n, r)
      BY <3>1
    <3> HIDE DEF B, C, T, P, r
    <3>3. /\ DOMAIN C = DOMAIN B \cup {n} /\ C[n] = r
          /\ \A j \in DOMAIN B : j # n => C[j] = B[j]
      BY <3>2 DEF Bind
    <3> QED
      BY <2>1, <3>1, <3>2, <3>3
  <2>2. CASE n \in DOMAIN B
    <3>1. after = table /\ Same(TypeOf(B[n]), TypeOf(r))
      BY <1>2, <2>2 DEF Declared
    <3>2. C = B
      BY <3>1
    <3> HIDE DEF B, C, T, P
    <3> QED
      BY <1>1, <2>2, <3>1, <3>2 DEF Same
  <2> QED
    BY <2>1, <2>2
<1>8. n \in DOMAIN R => next = regs
  BY <1>3 DEF Registered
<1>9. n \notin DOMAIN R =>
        \/ next = regs /\ n \in DOMAIN P /\ TypeOf(Held(regs, n)).name = TypeOf(s).name
        \/ next = <<P, Bind(R, n, s)>>
  BY <1>3 DEF Same, Registered
<1>10. CASE n \in DOMAIN R
  <2>1. after = table /\ next = regs
    BY <1>1, <1>7, <1>8, <1>10
  <2> QED
    BY <2>1
<1>11. CASE n \notin DOMAIN R
  <2>1. /\ next = <<P, Q>> /\ next[1] = P /\ DOMAIN Q \subseteq DOMAIN R \cup {n}
        /\ DOMAIN R \subseteq DOMAIN Q /\ n \in DOMAIN P \cup DOMAIN Q
        /\ \A j \in DOMAIN R : Q[j] = R[j]
        /\ n \in DOMAIN Q => Q[n] = s
        /\ TypeOf(Held(next, n)).name = TypeOf(s).name
    <3>1. CASE next = regs /\ n \in DOMAIN P /\ TypeOf(Held(regs, n)).name = TypeOf(s).name
      <4>1. Q = R
        BY <3>1
      <4> HIDE DEF Q, R, P
      <4> QED
        BY <1>1, <1>11, <3>1, <4>1
    <3>2. CASE next = <<P, Bind(R, n, s)>>
      <4>1. Q = Bind(R, n, s) /\ next[1] = P
        BY <3>2
      <4>2. /\ DOMAIN Q = DOMAIN R \cup {n} /\ Q[n] = s
            /\ \A j \in DOMAIN R : j # n => Q[j] = R[j]
        <5> HIDE DEF Q, R, s
        <5> QED
          BY <4>1 DEF Bind
      <4>3. Held(next, n) = Q[n]
        BY <4>2 DEF Held
      <4> HIDE DEF Q, R, P
      <4> QED
        BY <1>11, <3>2, <4>1, <4>2, <4>3
    <3> QED
      BY <1>9, <1>11, <3>1, <3>2
  <2>2. \A j : j # n => Held(next, j) = Held(regs, j)
    <3>1. \A j : j # n => (j \in DOMAIN Q <=> j \in DOMAIN R)
      BY <2>1
    <3> QED
      BY <1>1, <2>1, <3>1 DEF Held
  <2>3. Format(Held(next, n)) = Format(s)
    BY <2>1, SameName
  <2> HIDE DEF T, P, B, R, C, Q, r, s
  <2>4. IsSymbol(C[n]) /\ ~Is(TypeOf(C[n]), "void") /\ TypeOf(C[n]).name = TypeOf(r).name
    BY <1>1, <1>4, <1>7 DEF r
  <2>5. "namesake" \notin w /\ Formed(C[n]) =>
          /\ Format(Held(next, n)) = Format(C[n])
          /\ "char" \notin w => Is(TypeOf(Held(next, n)), TypeOf(C[n]).name)
    <3>1. Formed(C[n]) => TypeOf(r).name \in Types
      BY <2>4, SymbolFacts
    <3>2. Format(C[n]) = Format(r)
      BY <2>4, SameName
    <3> QED
      BY <1>5, <1>6, <2>1, <2>3, <2>4, <3>1, <3>2 DEF Is
  <2>6. ASSUME NEW j \in DOMAIN C
        PROVE  /\ IsSymbol(C[j]) /\ ~Is(TypeOf(C[j]), "void")
               /\ "namesake" \notin w /\ Formed(C[j]) =>
                    /\ Format(Held(next, j)) = Format(C[j])
                    /\ "char" \notin w => Is(TypeOf(Held(next, j)), TypeOf(C[j]).name)
    <3>1. CASE j = n
      BY <2>4, <2>5, <3>1
    <3>2. CASE j # n
      BY <1>1, <1>7, <2>2, <3>2
    <3> QED
      BY <3>1, <3>2
  <2>7. ASSUME NEW j \in DOMAIN Q
        PROVE  IsSymbol(Q[j]) /\ Formed(Q[j]) /\ Format(Q[j]) # "void"
    BY <1>1, <1>4, <2>1 DEF s
  <2>8. "this" \notin DOMAIN C
    BY <1>1, <1>7
  <2>9. DOMAIN Q \subseteq DOMAIN C /\ DOMAIN C \subseteq DOMAIN P \cup DOMAIN Q
    BY <1>1, <1>7, <2>1
  <2> QED
    BY <1>7, <2>1, <2>6, <2>7, <2>8, <2>9 DEF Registers, T, P, C, Q
<1> QED
  BY <1>10, <1>11

-----------------------------------------------------------------------------
(***************************************************************************)
(* Statements.                                                             *)
(***************************************************************************)
Compiles(g, c, w) == Excused(g, w) /\ CodeFits(g.code, w) /\ CallsFit(g.code, c, w)

LEMMA ServedCompiles ==
  ASSUME NEW g, NEW node, NEW c, NEW w, Served(g, node, c, w)
  PROVE  Compiles(g, c, w)
BY DEF Served, Sound, Compiles

\* The last instruction of a function, or that of a return statement.
LEMMA ReturnFitsIt ==
  ASSUME NEW c, NEW w, NEW k, NEW x, Ordinary(w) => x = k,
         w \cap {"char", "static", "bare", "namesake"} = {} => k = KindOf(FormatOf(c.ret)),
         NEW a, a = Ins(<<"ret", k>>, <<k>>, <<x>>)
  PROVE  CodeFits(<<a>>, w) /\ CallsFit(<<a>>, c, w)
<1>1. a.op = <<"ret", k>> /\ a.want = <<k>> /\ a.have = <<x>>
  BY DEF Ins
<1>2. CodeFits(<<a>>, w)
  BY <1>1, OneInstruction
<1> DEFINE code == <<a>>
<1>3. \A i \in DOMAIN code : code[i] = a
  OBVIOUS
<1> HIDE DEF code
<1>4. a.op[1] = "ret"
  BY <1>1
<1>5. \A i \in DOMAIN code : code[i].op[1] # "call"
  BY <1>3, <1>4
<1>6. ASSUME w \cap {"char", "static", "bare", "namesake"} = {}, NEW i \in DOMAIN code
      PROVE  code[i].op = <<"ret", KindOf(FormatOf(c.ret))>>
  BY <1>1, <1>3, <1>6
<1>7. CallsFit(code, c, w)
  BY <1>5, <1>6 DEF CallsFit
<1> QED
  BY <1>2, <1>7 DEF code

LEMMA IfCompiles ==
  ASSUME NEW w, NEW c, NEW o, NEW v, Means(o, v, w), Consumed(o, w),
         Is(o.result, "bool"), IsType(o.result) \/ "namesake" \in w,
         NEW g, g = GenIf(v)
  PROVE  Compiles(g, c, w)
<1> DEFINE x == v.ins
           a == Ins(<<"eq", "i">>, <<"i">>, <<x>>)
<1>1. Ordinary(w) => x = "i"
  <2>1. IsType(o.result) => Is(TypeOf(o.result), "bool")
    BY DEF TypeOf
  <2>2. Ordinary(w) => "namesake" \notin w
    BY DEF Ordinary
  <2> QED
    BY <2>1, <2>2, BoolOperand
<1>2. g.fate = "generate" /\ g.code = <<a>>
  BY DEF GenIf, Yields
<1> HIDE DEF x
<1>3. a.op = <<"eq", "i">> /\ a.want = <<"i">> /\ a.have = <<x>>
  BY DEF Ins
<1> HIDE DEF a
<1>4. a.op[1] = "eq"
  BY <1>3
<1>5. CodeFits(<<a>>, w) /\ NoCalls(<<a>>)
  BY <1>1, <1>3, <1>4, OneInstruction
<1>6. CallsFit(g.code, c, w)
  BY <1>2, <1>5, NoCallsFit
<1> QED
  BY <1>2, <1>5, <1>6 DEF Compiles, Excused

LEMMA EmptyCompiles ==
  ASSUME NEW g, NEW c, NEW w, g = Yields(NoSymbol, "none", <<>>)
  PROVE  Compiles(g, c, w)
<1>1. g.fate = "generate" /\ g.code = <<>>
  BY YieldFields
<1> QED
  BY <1>1, NoCode DEF Compiles, Excused

LEMMA ReturnCompiles ==
  ASSUME NEW w, NEW c, c.ret \in Types, NEW o, NEW v, Means(o, v, w), Consumed(o, w),
         Is(TypeOf(o.result), c.ret), c.ret = "void" => "void" \in w,
         NEW args, args # <<>>, args[1] = v, NEW g, g = GenReturn(args)
  PROVE  Compiles(g, c, w)
<1> DEFINE s == v.symbol
           k == KindOf(Format(s))
           x == v.ins
           t == c.ret
           a == Ins(<<"ret", k>>, <<k>>, <<x>>)
           y == Yields(NoSymbol, "none", <<a>>)
<1>1. g = ByFormat(s, Stored, y)
  BY DEF GenReturn
<1>2. (Legible(s) <=> Formed(s)) /\ (~Formed(s) => "relayed" \in w)
  BY OperandFacts
<1>3. TypeOf(o.result).name = t /\ t \in Types
  BY DEF Is
<1>4. "namesake" \notin w => Format(s) = FormatOf(t)
  BY <1>3, NamedOperand
<1>5. Formed(s) /\ Format(s) # "void" /\ Ordinary(w) => x = k
  BY DEF Means, Worded
<1>6. t = "void" => "void" \in w
  OBVIOUS
<1> HIDE DEF s, x, t
<1>7. CASE ~Legible(s) /\ g = Stops("undefined")
  <2>1. g.fate = "undefined" /\ g.code = <<>> /\ "relayed" \in w
    BY <1>2, <1>7, Stopped
  <2> QED
    BY <2>1, NoCode DEF Compiles, Excused
<1>8. CASE Legible(s) /\ Format(s) \notin Stored /\ g = Stops("failed")
  <2>1. "namesake" \notin w => "void" \in w
    BY <1>4, <1>6, <1>8, AllFormats, Formats
  <2>2. g.fate = "failed" /\ g.code = <<>>
    BY <1>8, Stopped
  <2>3. Excused(g, w)
    BY <2>1, <2>2 DEF Excused
  <2> QED
    BY <2>2, <2>3, NoCode DEF Compiles
<1>9. CASE Legible(s) /\ Format(s) \in Stored /\ g = y
  <2>1. Formed(s) /\ Format(s) # "void"
    BY <1>2, <1>9 DEF Stored
  <2>2. Ordinary(w) => x = k
    BY <1>5, <2>1
  <2>3. w \cap {"char", "static", "bare", "namesake"} = {} => k = KindOf(FormatOf(t))
    BY <1>4
  <2> HIDE DEF k
  <2>4. CodeFits(<<a>>, w) /\ CallsFit(<<a>>, c, w)
    BY <2>2, <2>3, ReturnFitsIt DEF t
  <2> HIDE DEF a
  <2>5. g.fate = "generate" /\ g.code = <<a>>
    BY <1>9 DEF Yields
  <2> QED
    BY <2>4, <2>5 DEF Compiles, Excused
<1> HIDE DEF y
<1> QED
  BY <1>1, <1>7, <1>8, <1>9, ByFormatCases

LEMMA BareReturnCompiles ==
  ASSUME NEW w, NEW c, c.ret = "void" \/ "bare" \in w, NEW g, g = GenReturn(<<>>)
  PROVE  Compiles(g, c, w)
<1> DEFINE a == Ins(<<"ret", "i">>, <<"i">>, <<"i">>)
<1>1. g = Yields(NoSymbol, "none", <<a>>)
  BY DEF GenReturn
<1>2. PICK k : k = "i"
  OBVIOUS
<1>3. a = Ins(<<"ret", k>>, <<k>>, <<k>>)
  BY <1>2
<1>4. w \cap {"char", "static", "bare", "namesake"} = {} => k = KindOf(FormatOf(c.ret))
  <2>1. w \cap {"char", "static", "bare", "namesake"} = {} => "bare" \notin w
    OBVIOUS
  <2>2. FormatOf("void") = "void"
    BY Formats
  <2> QED
    BY <1>2, <2>1, <2>2, Words
<1> HIDE DEF a
<1>5. CodeFits(<<a>>, w) /\ CallsFit(<<a>>, c, w)
  BY <1>3, <1>4, ReturnFitsIt
<1>6. g.fate = "generate" /\ g.code = <<a>>
  BY <1>1, YieldFields
<1> QED
  BY <1>5, <1>6 DEF Compiles, Excused

-----------------------------------------------------------------------------
(***************************************************************************)
(* The generator's steps.                                                  *)
(***************************************************************************)
\* The generator comes to a node that took the checker from s to t, with
\* values and registers that stand for s.
Ready(node, s, t) ==
  /\ IsSeq(values) /\ IsSeq(s.operands) /\ Signed(context)
  /\ Walked(node, s, t, context, odd)
  /\ Simulates(s, values, register_table, context, odd)

LEMMA FromTop ==
  ASSUME NEW k \in Nat, NEW n \in 0 .. k, NEW i \in 1 .. n
  PROVE  /\ n - i + 1 \in 1 .. n /\ n - (n - i + 1) + 1 = i
         /\ k - i + 1 \in 1 .. k
         /\ k - n + i = k - (n - i + 1) + 1
OBVIOUS

LEMMA ReadyOperands ==
  ASSUME NEW node, NEW s, NEW t, Ready(node, s, t), NEW i \in 1 .. node.count
  PROVE  Means(Opd(s, i), Arg(i), odd) /\ Consumed(Opd(s, i), odd)
<1> DEFINE q == s.operands
           k == Len(q)
           n == node.count
           j == n - i + 1
<1>1. IsSeq(q) /\ n \in 0 .. k /\ k \in Nat
  BY SeqFacts DEF Ready, Walked
<1>2. Relayed(Last(q, n)) \subseteq odd
  BY DEF Ready, Walked
<1>3. Len(values) = k /\ \A x \in 1 .. k : Means(q[x], values[x], odd)
  BY DEF Ready, Simulates
<1>4. i \in 1 .. n
  OBVIOUS
<1> HIDE DEF n
<1>5. j \in 1 .. n /\ n - j + 1 = i /\ k - i + 1 \in 1 .. k
  BY <1>1, <1>4, FromTop
<1> HIDE DEF j, k
<1>6. Consumed(Opd(s, n - j + 1), odd)
  BY <1>1, <1>2, <1>5, OperandsConsumed DEF k
<1>7. Opd(s, i) = q[k - i + 1] /\ Arg(i) = values[k - i + 1]
  BY <1>3 DEF Opd, Arg, k
<1> QED
  BY <1>3, <1>5, <1>6, <1>7

LEMMA ReadyArguments ==
  ASSUME NEW node, NEW s, NEW t, Ready(node, s, t), NEW m \in 0 .. node.count
  PROVE  /\ m \in Nat /\ ArgsMean(Args(m), s, m, odd)
         /\ IsSeq(Args(m)) /\ Len(Args(m)) = m
<1> DEFINE k == Len(values)
           n == node.count
           l == Last(values, m)
<1>1. IsSeq(values) /\ k \in Nat /\ k = Len(s.operands)
  BY SeqFacts DEF Ready, Simulates
<1>2. n \in 0 .. k
  BY <1>1 DEF Ready, Walked
<1>3. m \in 0 .. n
  OBVIOUS
<1> HIDE DEF n
<1>4. m \in 0 .. k /\ m \in Nat
  BY <1>1, <1>2, <1>3
<1>5. /\ IsSeq(l) /\ Len(l) = m
      /\ \A i \in 1 .. m : l[i] = values[k - m + i]
  BY <1>1, <1>4, LastFacts
<1>6. DOMAIN l = 1 .. m
  BY <1>5, SeqFacts
<1>7. ASSUME NEW i \in 1 .. m
      PROVE  Means(Opd(s, m - i + 1), l[i], odd) /\ Consumed(Opd(s, m - i + 1), odd)
  <2> DEFINE j == m - i + 1
  <2>1. j \in 1 .. m /\ k - m + i = k - j + 1
    BY <1>1, <1>4, FromTop
  <2>2. j \in 1 .. n
    BY <1>2, <1>3, <2>1
  <2>3. l[i] = Arg(j)
    BY <1>5, <2>1 DEF Arg
  <2> HIDE DEF j, l
  <2>4. Means(Opd(s, j), Arg(j), odd) /\ Consumed(Opd(s, j), odd)
    BY <2>2, ReadyOperands DEF n
  <2> QED
    BY <2>3, <2>4 DEF j
<1> HIDE DEF l
<1>8. ArgsMean(l, s, m, odd)
  BY <1>6, <1>7 DEF ArgsMean
<1> QED
  BY <1>4, <1>5, <1>8 DEF Args, l

\* Which judgement a node is under can be told from its operation.
LEMMA Operations ==
  ASSUME NEW node, NEW s, NEW t, NEW l, NEW r, NEW c, NEW w
  PROVE  /\ JudgedLeaf(node, s, w) => node.op \in {"literal", "char", "default", "variable"}
         /\ JudgedBinary(node, l, r, w) =>
              node.op \in {"add", "sub", "multiply", "ordering", "equality", "logic"}
         /\ JudgedUnary(node, l, w) => node.op \in {"negate", "not"}
         /\ JudgedCall(node, s, w) => node.op \in {"call", "member_call", "new"}
         /\ JudgedProperty(node, s, w) => node.op \in {"get", "set"}
         /\ JudgedAssign(node, s, t) => node.op = "assign"
         /\ JudgedStatement(node, s, c, w) => node.op \in Statements
<1>1. JudgedLeaf(node, s, w) => node.op \in {"literal", "char", "default", "variable"}
  BY DEF JudgedLeaf
<1>2. JudgedBinary(node, l, r, w) =>
              node.op \in {"add", "sub", "multiply", "ordering", "equality", "logic"}
  BY DEF JudgedBinary
<1>3. JudgedUnary(node, l, w) => node.op \in {"negate", "not"}
  BY DEF JudgedUnary
<1>4. JudgedCall(node, s, w) => node.op \in {"call", "member_call", "new"}
  BY Zenon DEF JudgedCall
<1>5. JudgedProperty(node, s, w) => node.op \in {"get", "set"}
  BY DEF JudgedProperty
<1>6. JudgedAssign(node, s, t) => node.op = "assign"
  BY Zenon DEF JudgedAssign
<1>7. JudgedStatement(node, s, c, w) => node.op \in Statements
  BY DEF JudgedStatement, Statements
<1> QED
  BY <1>1, <1>2, <1>3, <1>4, <1>5, <1>6, <1>7

LEMMA JudgedAs ==
  ASSUME NEW node, NEW s, NEW t, NEW c, NEW w, Judged(node, s, t, c, w)
  PROVE  /\ node.op \in {"literal", "char", "default", "variable"} =>
              node.count = 0 /\ JudgedLeaf(node, s, w) /\ t.table = s.table
         /\ node.op \in {"add", "sub", "multiply", "ordering", "equality", "logic"} =>
              /\ node.count = 2 /\ JudgedBinary(node, Opd(s, 2), Opd(s, 1), w)
              /\ t.table = s.table
         /\ node.op \in {"negate", "not"} =>
              node.count = 1 /\ JudgedUnary(node, Opd(s, 1), w) /\ t.table = s.table
         /\ node.op \in {"call", "member_call", "new"} =>
              JudgedCall(node, s, w) /\ t.table = s.table
         /\ node.op \in {"get", "set"} => JudgedProperty(node, s, w) /\ t.table = s.table
         /\ node.op = "assign" => JudgedAssign(node, s, t)
         /\ node.op \in Statements => JudgedStatement(node, s, c, w) /\ t.table = s.table
<1> DEFINE l == Opd(s, 2)
           r == Opd(s, 1)
<1>1. \/ node.count = 0 /\ JudgedLeaf(node, s, w) /\ t.table = s.table
      \/ node.count = 2 /\ JudgedBinary(node, l, r, w) /\ t.table = s.table
      \/ node.count = 1 /\ JudgedUnary(node, r, w) /\ t.table = s.table
      \/ JudgedCall(node, s, w) /\ t.table = s.table
      \/ JudgedProperty(node, s, w) /\ t.table = s.table
      \/ JudgedAssign(node, s, t)
      \/ JudgedStatement(node, s, c, w) /\ t.table = s.table
  BY DEF Judged
<1> HIDE DEF l, r
<1>2. /\ JudgedLeaf(node, s, w) => node.op \in {"literal", "char", "default", "variable"}
      /\ JudgedBinary(node, l, r, w) =>
           node.op \in {"add", "sub", "multiply", "ordering", "equality", "logic"}
      /\ JudgedUnary(node, r, w) => node.op \in {"negate", "not"}
      /\ JudgedCall(node, s, w) => node.op \in {"call", "member_call", "new"}
      /\ JudgedProperty(node, s, w) => node.op \in {"get", "set"}
      /\ JudgedAssign(node, s, t) => node.op = "assign"
      /\ JudgedStatement(node, s, c, w) => node.op \in Statements
  BY Operations
<1>3. Statements = {"discard", "clause", "if", "return"}
  BY DEF Statements
<1> QED
  BY <1>1, <1>2, <1>3 DEF l, r

LEMMA LeafNodes ==
  ASSUME NEW node, NEW s, NEW t, Ready(node, s, t), NEW g,
         \/ node.op \in {"literal", "char"} /\ g = GenLiteral(node.symbol)
         \/ node.op = "default" /\ g = GenDefault(node.symbol)
         \/ node.op = "variable" /\ g = GenVariable(node.data, node.symbol)
  PROVE  Served(g, node, context, odd)
<1>1. JudgedLeaf(node, s, odd)
  BY JudgedAs DEF Ready, Walked
<1>2. Signed(context) /\ Registers(s.table, register_table, context, odd)
  BY DEF Ready, Simulates
<1>3. Sound(g, node, odd) /\ NoCalls(g.code)
  BY <1>1, <1>2, ConstantSound, VariableSound
<1> QED
  BY <1>3, ServedPlainly

LEMMA BinaryNodes ==
  ASSUME NEW node, NEW s, NEW t, Ready(node, s, t), NEW g,
         \/ node.op = "add" /\ g = GenArithmetic("add", Arg(2), Arg(1))
         \/ node.op = "sub" /\ g = GenSub(Arg(2), Arg(1))
         \/ node.op = "multiply" /\ g = GenArithmetic(node.data, Arg(2), Arg(1))
         \/ node.op = "ordering" /\ g = GenOrdering(Arg(2), Arg(1))
         \/ node.op = "equality" /\ g = GenEquality(Arg(2), Arg(1))
         \/ node.op = "logic" /\ g = GenLogic(Arg(2), Arg(1))
  PROVE  Served(g, node, context, odd)
<1> DEFINE l == Opd(s, 2)
           r == Opd(s, 1)
           x == Arg(2)
           y == Arg(1)
<1>1. node.count = 2 /\ JudgedBinary(node, l, r, odd)
  BY JudgedAs DEF Ready, Walked
<1>2. 1 \in 1 .. node.count /\ 2 \in 1 .. node.count
  BY <1>1
<1>3. Means(l, x, odd) /\ Means(r, y, odd) /\ Consumed(l, odd) /\ Consumed(r, odd)
  BY <1>2, ReadyOperands
<1>4. \/ node.op = "add" /\ g = GenArithmetic("add", x, y)
      \/ node.op = "sub" /\ g = GenSub(x, y)
      \/ node.op = "multiply" /\ g = GenArithmetic(node.data, x, y)
      \/ node.op = "ordering" /\ g = GenOrdering(x, y)
      \/ node.op = "equality" /\ g = GenEquality(x, y)
      \/ node.op = "logic" /\ g = GenLogic(x, y)
  OBVIOUS
<1> HIDE DEF l, r, x, y
<1>5. CASE node.op = "add" /\ g = GenArithmetic("add", x, y)
  BY <1>1, <1>3, <1>5, AddSound, ServedPlainly
<1>6. CASE \/ node.op = "sub" /\ g = GenSub(x, y)
           \/ node.op = "multiply" /\ g = GenArithmetic(node.data, x, y)
           \/ node.op = "ordering" /\ g = GenOrdering(x, y)
  BY <1>1, <1>3, <1>6, NumericSound, ServedPlainly
<1>7. CASE node.op = "equality" /\ g = GenEquality(x, y)
  BY <1>1, <1>3, <1>7, EqualitySound, ServedPlainly
<1>8. CASE node.op = "logic" /\ g = GenLogic(x, y)
  BY <1>1, <1>3, <1>8, BoolsSound, ServedPlainly
<1> QED
  BY <1>4, <1>5, <1>6, <1>7, <1>8

LEMMA UnaryNodes ==
  ASSUME NEW node, NEW s, NEW t, Ready(node, s, t), NEW g,
         \/ node.op = "negate" /\ g = GenNegate(Arg(1))
         \/ node.op = "not" /\ g = GenNot(Arg(1))
  PROVE  Served(g, node, context, odd)
<1> DEFINE r == Opd(s, 1)
           y == Arg(1)
<1>1. node.count = 1 /\ JudgedUnary(node, r, odd)
  BY JudgedAs DEF Ready, Walked
<1>2. 1 \in 1 .. node.count
  BY <1>1
<1>3. Means(r, y, odd) /\ Consumed(r, odd)
  BY <1>2, ReadyOperands
<1>4. \/ node.op = "negate" /\ g = GenNegate(y)
      \/ node.op = "not" /\ g = GenNot(y)
  OBVIOUS
<1> HIDE DEF r, y
<1>5. CASE node.op = "negate" /\ g = GenNegate(y)
  BY <1>1, <1>3, <1>5, NegateSound, ServedPlainly
<1>6. CASE node.op = "not" /\ g = GenNot(y)
  BY <1>1, <1>3, <1>6, BoolsSound, ServedPlainly
<1> QED
  BY <1>4, <1>5, <1>6

LEMMA CallCases ==
  ASSUME NEW node, NEW s, NEW w, JudgedCall(node, s, w)
  PROVE  \/ \E f \in Functions :
              /\ node.op = "call" /\ ~Named(f.spec) /\ Takes(f, s, node.count)
              /\ node.symbol = SymbolOf("function", f, f.ret)
              /\ node.result = TypeSymbol(f.ret)
         \/ \E f \in Functions :
              /\ node.op = "member_call" /\ node.count > 0 /\ Takes(f, s, node.count - 1)
              /\ f.spec = TypeOf(Opd(s, node.count).result).name \/ "static" \in w
              /\ node.symbol = SymbolOf("function", f, f.ret)
              /\ node.result = TypeSymbol(f.ret)
         \/ \E f \in Functions :
              /\ node.op = "new" /\ Takes(f, s, node.count)
              /\ f.spec \in Specs /\ f.ret = "void"
              /\ node.symbol = SymbolOf("function", f, f.ret)
              /\ node.result = TypeSymbol(f.spec)
         \/ \E u \in Types :
              /\ node.op = "call" /\ node.count = 1
              /\ node.symbol = TypeSymbol(u) /\ node.result = TypeSymbol(u)
              /\ Formed(Opd(s, 1).result) /\ ~Is(Opd(s, 1).result, "void")
              /\ MayCast(Format(Opd(s, 1).result), FormatOf(u))
BY Zenon DEF JudgedCall, Named

LEMMA OperationNames ==
  /\ "call" # "member_call" /\ "call" # "new" /\ "member_call" # "new" /\ "get" # "set"
OBVIOUS

LEMMA CallNodes ==
  ASSUME NEW node, NEW s, NEW t, Ready(node, s, t), NEW g,
         \/ /\ node.op = "call"
            /\ g = IF IsType(node.symbol) THEN GenCast(node.symbol, Arg(1))
                   ELSE GenCall(node.symbol, Args(node.count), <<>>)
         \/ /\ node.op = "member_call"
            /\ g = GenCall(node.symbol, Args(node.count - 1), <<Arg(node.count)>>)
         \/ /\ node.op = "new"
            /\ g = GenNew(node.result.name, node.symbol, Args(node.count))
  PROVE  Served(g, node, context, odd)
<1> DEFINE n == node.count
<1>1. JudgedCall(node, s, odd)
  BY JudgedAs DEF Ready, Walked
<1>2. n \in Nat
  <2>1. Len(s.operands) \in Nat
    BY SeqFacts DEF Ready
  <2> QED
    BY <2>1 DEF Ready, Walked
<1>3. n \in 0 .. n
  BY <1>2
<1>4. ArgsMean(Args(n), s, n, odd)
  BY <1>3, ReadyArguments
<1>5. ASSUME NEW f \in Functions, node.op = "call", ~Named(f.spec), Takes(f, s, n),
             node.symbol = SymbolOf("function", f, f.ret), node.result = TypeSymbol(f.ret)
      PROVE  Served(g, node, context, odd)
  <2>1. ~IsType(node.symbol)
    BY <1>5, FunctionFace
  <2>2. g = GenCall(node.symbol, Args(n), <<>>)
    BY <1>5, <2>1, OperationNames, Zenon
  <2> DEFINE args == Args(n)
  <2> HIDE DEF args
  <2>3. ArgsMean(args, s, node.count, odd) /\ g = GenCall(node.symbol, args, <<>>)
        /\ node.count \in Nat /\ Takes(f, s, node.count)
    BY <1>2, <1>4, <1>5, <2>2 DEF args
  <2> QED
    BY <1>5, <2>3, PlainCallSound, Zenon
<1>6. ASSUME NEW f \in Functions, node.op = "member_call", n > 0, Takes(f, s, n - 1),
             f.spec = TypeOf(Opd(s, n).result).name \/ "static" \in odd,
             node.symbol = SymbolOf("function", f, f.ret), node.result = TypeSymbol(f.ret)
      PROVE  Served(g, node, context, odd)
  <2> DEFINE m == n - 1
             args == Args(m)
             o == Opd(s, n)
             x == Arg(n)
  <2>1. m \in 0 .. n /\ n \in 1 .. n
    BY <1>2, <1>6
  <2>2. m \in Nat /\ ArgsMean(args, s, m, odd)
    BY <2>1, ReadyArguments
  <2>3. Means(o, x, odd) /\ Consumed(o, odd)
    BY <2>1, ReadyOperands
  <2>4. g = GenCall(node.symbol, args, <<x>>)
    BY <1>6, OperationNames, Zenon
  <2>5. Takes(f, s, m) /\ (f.spec = TypeOf(o.result).name \/ "static" \in odd)
    BY <1>6
  <2> HIDE DEF m, args, o, x, n
  <2> QED
    BY <1>6, <2>2, <2>3, <2>4, <2>5, MemberCallSound, Zenon
<1>7. ASSUME NEW f \in Functions, node.op = "new", Takes(f, s, n),
             f.spec \in Specs, f.ret = "void",
             node.symbol = SymbolOf("function", f, f.ret), node.result = TypeSymbol(f.spec)
      PROVE  Served(g, node, context, odd)
  <2>1. g = GenNew(node.result.name, node.symbol, Args(n))
    BY <1>7, OperationNames, Zenon
  <2> HIDE DEF n
  <2> QED
    BY <1>2, <1>4, <1>7, <2>1, NewSound, Zenon
<1>8. ASSUME NEW u \in Types, node.op = "call", n = 1,
             node.symbol = TypeSymbol(u), node.result = TypeSymbol(u),
             Formed(Opd(s, 1).result), ~Is(Opd(s, 1).result, "void"),
             MayCast(Format(Opd(s, 1).result), FormatOf(u))
      PROVE  Served(g, node, context, odd)
  <2> DEFINE a == Opd(s, 1)
             x == Arg(1)
  <2>1. IsType(node.symbol)
    BY <1>8, TypeFacts
  <2>2. g = GenCast(node.symbol, x)
    BY <1>8, <2>1, OperationNames, Zenon
  <2>3. 1 \in 1 .. n
    BY <1>8
  <2>4. Means(a, x, odd) /\ Consumed(a, odd)
    BY <2>3, ReadyOperands
  <2>5. Formed(a.result) /\ ~Is(a.result, "void") /\ MayCast(Format(a.result), FormatOf(u))
    BY <1>8
  <2> HIDE DEF a, x
  <2>6. Sound(g, node, odd) /\ NoCalls(g.code)
    BY <1>8, <2>2, <2>4, <2>5, CastSound, Zenon
  <2> QED
    BY <2>6, ServedPlainly
<1> QED
  BY <1>1, <1>5, <1>6, <1>7, <1>8, CallCases, Zenon

LEMMA PropertyNodes ==
  ASSUME NEW node, NEW s, NEW t, Ready(node, s, t), NEW g,
         \/ node.op = "get" /\ g = GenGet(node.symbol, Arg(1))
         \/ node.op = "set" /\ g = GenSet(node.symbol, Arg(2), Arg(1))
  PROVE  Served(g, node, context, odd)
<1> DEFINE o == Opd(s, 1)
           q == Opd(s, 2)
           x == Arg(1)
           v == Arg(2)
<1>1. JudgedProperty(node, s, odd)
  BY JudgedAs DEF Ready, Walked
<1>2. \/ node.op = "get" /\ g = GenGet(node.symbol, x)
      \/ node.op = "set" /\ g = GenSet(node.symbol, v, x)
  OBVIOUS
<1>3. PICK p \in Properties :
        /\ p.spec = TypeOf(o.result).name
        /\ p.type = "void" => "void" \in odd
        /\ node.result = node.symbol
        /\ \/ /\ node.op = "get" /\ node.count = 1
              /\ node.symbol = SymbolOf("property", p, p.type)
           \/ /\ node.op = "set" /\ node.count = 2
              /\ node.symbol = SymbolOf("function", p, p.type)
              /\ TypeOf(q.result).name = p.type \/ "mistyped" \in odd
  BY <1>1, Zenon DEF JudgedProperty, Is
<1>4. CASE node.op = "get"
  <2>1. /\ node.count = 1 /\ node.symbol = SymbolOf("property", p, p.type)
        /\ g = GenGet(node.symbol, x)
    BY <1>2, <1>3, <1>4, OperationNames, Zenon
  <2>2. 1 \in 1 .. node.count
    BY <2>1
  <2>3. Means(o, x, odd) /\ Consumed(o, odd)
    BY <2>2, ReadyOperands
  <2> HIDE DEF o, x, q, v
  <2> QED
    BY <1>3, <1>4, <2>1, <2>3, GetSound, Zenon
<1>5. CASE node.op = "set"
  <2>1. /\ node.count = 2 /\ node.symbol = SymbolOf("function", p, p.type)
        /\ g = GenSet(node.symbol, v, x)
        /\ TypeOf(q.result).name = p.type \/ "mistyped" \in odd
    BY <1>2, <1>3, <1>5, OperationNames, Zenon
  <2>2. 1 \in 1 .. node.count /\ 2 \in 1 .. node.count
    BY <2>1
  <2>3. Means(o, x, odd) /\ Consumed(o, odd) /\ Means(q, v, odd) /\ Consumed(q, odd)
    BY <2>2, ReadyOperands
  <2> HIDE DEF o, x, q, v
  <2> QED
    BY <1>3, <1>5, <2>1, <2>3, SetSound, Zenon
<1> QED
  BY <1>2, <1>4, <1>5

LEMMA AssignNode ==
  ASSUME NEW node, NEW s, NEW t, Ready(node, s, t), NEW g, node.op = "assign",
         g = ByFormat(Arg(1).symbol, Stored,
               Yields(Arg(1).symbol, Arg(1).ins,
                      <<StoreIns(Arg(1).symbol, "p", 0, Arg(1).ins)>>)),
         NEW next, next = IF Reuses(node.data, Arg(1).symbol) THEN register_table
                          ELSE Put(register_table, node.data, Arg(1).symbol)
  PROVE  /\ Served(g, node, context, odd)
         /\ g.fate = "generate" => Registers(t.table, next, context, odd)
<1> DEFINE o == Opd(s, 1)
           v == Arg(1)
           n == node.data
           table == s.table
           after == t.table
<1>1. JudgedAssign(node, s, t)
  BY JudgedAs DEF Ready, Walked
<1>2. Signed(context) /\ Registers(table, register_table, context, odd)
  BY DEF Ready, Simulates
<1>3. /\ node.count = 1 /\ n # "this" /\ Named(n) /\ ~Is(TypeOf(o.result), "void")
      /\ node.result = node.symbol
      /\ \/ /\ ~InTop(table, n) /\ node.symbol = FunctionSymbol("variable", n, o.result)
            /\ after = Put(table, n, o.result)
         \/ /\ InTop(table, n) /\ Same(TypeOf(Get(table, n)), TypeOf(o.result))
            /\ node.symbol = Get(table, n) /\ after = table
  BY <1>1, Zenon DEF JudgedAssign, Named
<1>4. 1 \in 1 .. node.count
  BY <1>3
<1>5. Means(o, v, odd) /\ Consumed(o, odd)
  BY <1>4, ReadyOperands
<1>6. g = ByFormat(v.symbol, Stored,
            Yields(v.symbol, v.ins, <<StoreIns(v.symbol, "p", 0, v.ins)>>))
  OBVIOUS
<1>7. Registered(register_table, n, v.symbol, next)
  BY DEF Registered, Reuses
<1>8. Declared(table, n, o.result, after)
  BY <1>3 DEF Declared
<1> HIDE DEF o, v, n, table, after
<1>9. Sense(node, v.symbol, v.ins, odd)
  <2>1. IsSymbol(o.result)
    BY <1>5 DEF Means, EntryFits
  <2>2. CASE node.symbol = FunctionSymbol("variable", n, o.result)
    <3> DEFINE u == o.result
    <3>1. Assigns(node, n, u, o) /\ IsSymbol(u) /\ ~Is(TypeOf(u), "void")
      BY <1>3, <2>1, <2>2 DEF Assigns
    <3> HIDE DEF u
    <3> QED
      BY <1>3, <1>5, <3>1, AssignSense
  <2>3. CASE /\ InTop(table, n) /\ Same(TypeOf(Get(table, n)), TypeOf(o.result))
             /\ node.symbol = Get(table, n)
    <3> DEFINE u == Get(table, n)
               B == table[3]
    <3>1. /\ table = <<ThisScope(context), ParamScope(context), B>>
          /\ \A j \in DOMAIN B : IsSymbol(B[j]) /\ ~Is(TypeOf(B[j]), "void")
      BY <1>2 DEF Registers
    <3> HIDE DEF B
    <3>2. n \in DOMAIN B /\ IsBound(table, n) /\ u = B[n]
      BY <2>3, <3>1, ThreeScopes
    <3>3. Assigns(node, n, u, o) /\ IsSymbol(u) /\ ~Is(TypeOf(u), "void")
      BY <2>3, <3>1, <3>2 DEF Assigns, Same
    <3> HIDE DEF u
    <3> QED
      BY <1>3, <1>5, <3>3, AssignSense
  <2> QED
    BY <1>3, <2>2, <2>3
<1>10. /\ Served(g, node, context, odd)
       /\ g.fate = "generate" => Formed(v.symbol) /\ Format(v.symbol) # "void"
  BY <1>3, <1>5, <1>6, <1>9, AssignSound, Zenon
<1>11. g.fate = "generate" => Registers(after, next, context, odd)
  BY <1>2, <1>3, <1>5, <1>7, <1>8, <1>10, AssignRegisters, Zenon
<1> QED
  BY <1>10, <1>11 DEF after

LEMMA StatementCases ==
  ASSUME NEW node, NEW s, NEW c, NEW w, JudgedStatement(node, s, c, w)
  PROVE  /\ node.op = "if" =>
              /\ node.count = 1 /\ Is(Opd(s, 1).result, "bool")
              /\ IsType(Opd(s, 1).result) \/ "namesake" \in w
         /\ node.op = "return" =>
              \/ /\ node.count = 1 /\ Is(TypeOf(Opd(s, 1).result), c.ret)
                 /\ c.ret = "void" => "void" \in w
              \/ node.count = 0 /\ (c.ret = "void" \/ "bare" \in w)
BY DEF JudgedStatement

LEMMA StatementNodes ==
  ASSUME NEW node, NEW s, NEW t, Ready(node, s, t), NEW g,
         \/ node.op \in {"discard", "clause"} /\ g = Yields(NoSymbol, "none", <<>>)
         \/ node.op = "if" /\ g = GenIf(Arg(1))
         \/ node.op = "return" /\ g = GenReturn(Args(node.count))
  PROVE  Compiles(g, context, odd)
<1> DEFINE n == node.count
           o == Opd(s, 1)
           v == Arg(1)
<1>1. ASSUME node.op \in Statements
      PROVE  JudgedStatement(node, s, context, odd)
  BY <1>1, JudgedAs DEF Ready, Walked
<1>2. CASE node.op \in {"discard", "clause"} /\ g = Yields(NoSymbol, "none", <<>>)
  BY <1>2, EmptyCompiles
<1>3. CASE node.op = "if" /\ g = GenIf(Arg(1))
  <2>1. n = 1 /\ Is(o.result, "bool") /\ (IsType(o.result) \/ "namesake" \in odd)
    BY <1>1, <1>3, StatementCases DEF Statements
  <2>2. 1 \in 1 .. n
    BY <2>1
  <2>3. Means(o, v, odd) /\ Consumed(o, odd)
    BY <2>2, ReadyOperands
  <2>4. g = GenIf(v)
    BY <1>3
  <2> HIDE DEF o, v
  <2> QED
    BY <2>1, <2>3, <2>4, IfCompiles
<1>4. CASE node.op = "return" /\ g = GenReturn(Args(node.count))
  <2>1. \/ /\ n = 1 /\ Is(TypeOf(o.result), context.ret)
           /\ context.ret = "void" => "void" \in odd
        \/ n = 0 /\ (context.ret = "void" \/ "bare" \in odd)
    BY <1>1, <1>4, StatementCases DEF Statements
  <2>2. CASE /\ n = 1 /\ Is(TypeOf(o.result), context.ret)
             /\ context.ret = "void" => "void" \in odd
    <3> DEFINE args == Args(1)
    <3>1. 1 \in 1 .. n /\ 1 \in 0 .. n
      BY <2>2
    <3>2. Means(o, v, odd) /\ Consumed(o, odd)
      BY <3>1, ReadyOperands
    <3>3. IsSeq(args) /\ Len(args) = 1 /\ ArgsMean(args, s, 1, odd)
      BY <3>1, ReadyArguments
    <3>4. args[1] = v
      <4>1. /\ IsSeq(values) /\ 1 \in 0 .. Len(values)
        <5>1. IsSeq(values) /\ Len(values) \in Nat /\ Len(values) = Len(s.operands)
          BY SeqFacts DEF Ready, Simulates
        <5>2. 1 \in 0 .. Len(s.operands)
          BY <2>2 DEF Ready, Walked
        <5> QED
          BY <5>1, <5>2
      <4>2. \A i \in 1 .. 1 : Last(values, 1)[i] = values[Len(values) - 1 + i]
        BY <4>1, LastFacts
      <4>3. 1 \in 1 .. 1
        OBVIOUS
      <4> QED
        BY <4>2, <4>3 DEF Args, Arg
    <3>5. args # <<>>
      BY <3>3
    <3>6. g = GenReturn(args)
      BY <1>4, <2>2
    <3>7. context.ret \in Types
      BY Zenon DEF Ready, Signed
    <3> HIDE DEF o, v, args
    <3> QED
      BY <2>2, <3>2, <3>4, <3>5, <3>6, <3>7, ReturnCompiles
  <2>3. CASE n = 0 /\ (context.ret = "void" \/ "bare" \in odd)
    <3>1. 0 \in 0 .. n
      BY <2>3
    <3>2. IsSeq(Args(0)) /\ Len(Args(0)) = 0
      BY <3>1, ReadyArguments
    <3> DEFINE args == Args(0)
    <3> HIDE DEF args
    <3>3. args = <<>>
      <4>1. args \in Seq({args[i] : i \in DOMAIN args}) /\ Len(args) = 0
        BY <3>2 DEF IsSeq, args
      <4> DEFINE S == {args[i] : i \in DOMAIN args}
      <4> HIDE DEF S
      <4>2. args \in Seq(S)
        BY <4>1 DEF S
      <4> QED
        BY <4>1, <4>2, EmptySeq
    <3>4. g = GenReturn(<<>>)
      BY <1>4, <2>3, <3>3 DEF args
    <3> QED
      BY <2>3, <3>4, BareReturnCompiles
  <2> QED
    BY <2>1, <2>2, <2>3
<1> QED
  BY <1>2, <1>3, <1>4

\* A value takes the place of its operands on both stacks.
LEMMA Restacked ==
  ASSUME NEW node, NEW s, NEW t, Ready(node, s, t), NEW g, NEW next,
         node.op \notin Statements => Means(EntryOf(node), Value(g, node), odd),
         Registers(t.table, next, context, odd),
         NEW vals, vals = Below(values, node.count) \o Leaves(node.op, Value(g, node))
  PROVE  IsSeq(vals) /\ Simulates(t, vals, next, context, odd)
<1> DEFINE q == s.operands
           p == t.operands
           n == node.count
           k == Len(q)
           m == k - n
           e == EntryOf(node)
           v == Value(g, node)
<1>1. IsSeq(q) /\ IsSeq(values) /\ k \in Nat /\ Len(values) = k
  BY SeqFacts DEF Ready, Simulates
<1>2. n \in 0 .. k /\ p = Below(q, n) \o Leaves(node.op, e)
  BY DEF Ready, Walked
<1>3. \A i \in 1 .. k : Means(q[i], values[i], odd)
  BY <1>1 DEF Ready, Simulates
<1>4. vals = Below(values, n) \o Leaves(node.op, v)
  OBVIOUS
<1>5. node.op \notin Statements => Means(e, v, odd)
  OBVIOUS
<1> HIDE DEF q, p, n, k, e, v
<1>6. /\ Len(p) = m + (IF node.op \in Statements THEN 0 ELSE 1)
      /\ \A i \in 1 .. m : p[i] = q[i]
      /\ node.op \notin Statements => p[m + 1] = e
  <2>1. Stacked(p, q, n, node.op, e)
    BY <1>1, <1>2, Replaced DEF k
  <2> QED
    BY <2>1 DEF Stacked, k
<1>7. n \in 0 .. Len(values)
  BY <1>1, <1>2
<1>8. /\ IsSeq(vals)
      /\ Len(vals) = m + (IF node.op \in Statements THEN 0 ELSE 1)
      /\ \A i \in 1 .. m : vals[i] = values[i]
      /\ node.op \notin Statements => vals[m + 1] = v
  <2>1. Stacked(vals, values, n, node.op, v)
    BY <1>1, <1>4, <1>7, Replaced
  <2> QED
    BY <1>1, <2>1 DEF Stacked
<1>9. m \in Nat /\ m <= k
  BY <1>1, <1>2
<1>10. ASSUME NEW i \in 1 .. Len(vals)
       PROVE  Means(p[i], vals[i], odd)
  <2>1. CASE i \in 1 .. m
    <3>1. i \in 1 .. k
      BY <1>1, <1>9, <2>1
    <3> QED
      BY <1>3, <1>6, <1>8, <2>1, <3>1
  <2>2. CASE i \notin 1 .. m
    <3>1. node.op \notin Statements /\ i = m + 1
      BY <1>8, <1>9, <2>2
    <3> QED
      BY <1>5, <1>6, <1>8, <3>1
  <2> QED
    BY <2>1, <2>2
<1>11. Len(vals) = Len(p)
  BY <1>6, <1>8
<1> HIDE DEF m
<1> QED
  BY <1>8, <1>10, <1>11 DEF Simulates, p

\* How compilation may end, and what may be emitted.
Clean ==
  /\ phase \in {"check", "generate", "done", "rejected", "failed", "undefined", "crashed"}
  /\ phase = "failed" => odd \cap {"string", "void", "bool", "namesake"} # {}
  /\ phase = "undefined" => odd \cap {"unset", "relayed"} # {}
  /\ phase = "crashed" => "accessor" \in odd
  /\ CodeFits(emitted, odd) /\ CallsFit(emitted, context, odd)

\* The step over a node.
Over(node, s, t) ==
  /\ generated' = generated + 1 /\ UNCHANGED <<context, family, sem_vars>>
  /\ Clean'
  /\ phase' # "check" /\ phase' # "done"
  /\ phase' = "generate" =>
       IsSeq(values') /\ Simulates(t, values', register_table', context, odd)

LEMMA SteppedOver ==
  ASSUME NEW s, NEW t, Ready(Node, s, t), NEW op, NEW g, Generates(op, g),
         context.kind # "function" => "accessor" \in odd,
         Compiles(g, context, odd),
         Node.op \notin Statements => Served(g, Node, context, odd),
         g.fate = "generate" => Registers(t.table, register_table', context, odd)
  PROVE  Over(Node, s, t)
<1> DEFINE node == Node
<1>1. /\ phase' = IF g.code # <<>> /\ context.kind # "function" THEN "crashed" ELSE g.fate
      /\ generated' = generated + 1 /\ emitted' = g.code
      /\ context' = context /\ odd' = odd
      /\ UNCHANGED <<context, family, sem_vars>>
  BY DEF Generates, sem_vars
<1>2. Excused(g, odd) /\ CodeFits(g.code, odd) /\ CallsFit(g.code, context, odd)
  BY DEF Compiles
<1>3. CodeFits(emitted, odd)' /\ CallsFit(emitted, context, odd)'
  <2>1. CodeFits(emitted', odd') /\ CallsFit(emitted', context', odd')
    BY <1>1, <1>2
  <2> QED
    BY <2>1 DEF CodeFits, CallsFit, Answers
<1>4. \/ phase' = "crashed" /\ "accessor" \in odd
      \/ phase' = g.fate
  BY <1>1, Zenon
<1>5. Clean'
  BY <1>1, <1>2, <1>3, <1>4 DEF Clean, Excused
<1>6. phase' # "check" /\ phase' # "done"
  BY <1>2, <1>4 DEF Excused
<1>7. ASSUME phase' = "generate"
      PROVE  IsSeq(values') /\ Simulates(t, values', register_table', context, odd)
  <2>1. g.fate = "generate"
    BY <1>4, <1>7
  <2>2. values' = Below(values, node.count) \o Leaves(node.op, Value(g, node))
    BY Zenon DEF Generates, Value
  <2>3. node.op \notin Statements => Means(EntryOf(node), Value(g, node), odd)
    BY <2>1 DEF Served, Sound
  <2>4. Ready(node, s, t) /\ Registers(t.table, register_table', context, odd)
    BY <2>1
  <2> HIDE DEF node
  <2> QED
    BY <2>2, <2>3, <2>4, Restacked
<1> QED
  BY <1>1, <1>5, <1>6, <1>7 DEF Over

LEMMA EmittedOver ==
  ASSUME NEW s, NEW t, Ready(Node, s, t), NEW op, op # "assign", NEW g, Emits(op, g),
         context.kind # "function" => "accessor" \in odd,
         \/ Served(g, Node, context, odd)
         \/ Compiles(g, context, odd) /\ op \in Statements
  PROVE  Over(Node, s, t)
<1>1. Generates(op, g) /\ register_table' = register_table
  BY DEF Emits
<1>2. Node.op = op
  BY <1>1, Zenon DEF Generates
<1> DEFINE node == Node
<1>3. t.table = s.table
  <2>1. Judged(node, s, t, context, odd)
    BY DEF Ready, Walked
  <2>2. t.table = s.table \/ JudgedAssign(node, s, t)
    BY <2>1 DEF Judged
  <2> QED
    BY <1>2, <2>2, Zenon DEF JudgedAssign
<1>4. Registers(t.table, register_table', context, odd)
  BY <1>1, <1>3 DEF Ready, Simulates
<1>5. Compiles(g, context, odd)
  BY ServedCompiles
<1>6. Node.op \notin Statements => Served(g, Node, context, odd)
  BY <1>2
<1> QED
  BY <1>1, <1>4, <1>5, <1>6, SteppedOver

LEMMA GenerateSteps ==
  ASSUME NEW s, NEW t, Ready(Node, s, t), context.kind # "function" => "accessor" \in odd,
         Generate
  PROVE  Over(Node, s, t) \/ EmitEnd
<1>1. ASSUME NEW op, NEW g, Emits(op, g)
      PROVE  Node.op = op
  BY <1>1, Zenon DEF Emits, Generates
<1>2. ASSUME NEW op, NEW g, Emits(op, g), op # "assign", Served(g, Node, context, odd)
      PROVE  Over(Node, s, t)
  BY <1>2, EmittedOver
<1>3. ASSUME NEW op, NEW g, Emits(op, g), op \in Statements, Compiles(g, context, odd)
      PROVE  Over(Node, s, t)
  <2>1. op # "assign"
    BY <1>3 DEF Statements
  <2> QED
    BY <1>3, <2>1, EmittedOver
<1>4. CASE \/ Emits("literal", GenLiteral(Node.symbol))
           \/ Emits("char", GenLiteral(Node.symbol))
           \/ Emits("default", GenDefault(Node.symbol))
           \/ Emits("variable", GenVariable(Node.data, Node.symbol))
  <2>1. ASSUME NEW op, NEW g, Emits(op, g),
               \/ op \in {"literal", "char"} /\ g = GenLiteral(Node.symbol)
               \/ op = "default" /\ g = GenDefault(Node.symbol)
               \/ op = "variable" /\ g = GenVariable(Node.data, Node.symbol)
        PROVE  Over(Node, s, t)
    <3>1. Node.op = op /\ op # "assign"
      BY <1>1, <2>1
    <3>2. Served(g, Node, context, odd)
      BY <2>1, <3>1, LeafNodes
    <3> QED
      BY <1>2, <2>1, <3>1, <3>2
  <2> QED
    BY <1>4, <2>1
<1>5. CASE \/ Emits("add", GenArithmetic("add", Arg(2), Arg(1)))
           \/ Emits("sub", GenSub(Arg(2), Arg(1)))
           \/ Emits("multiply", GenArithmetic(Node.data, Arg(2), Arg(1)))
           \/ Emits("ordering", GenOrdering(Arg(2), Arg(1)))
           \/ Emits("equality", GenEquality(Arg(2), Arg(1)))
           \/ Emits("logic", GenLogic(Arg(2), Arg(1)))
  <2>1. ASSUME NEW op, NEW g, Emits(op, g),
               \/ op = "add" /\ g = GenArithmetic("add", Arg(2), Arg(1))
               \/ op = "sub" /\ g = GenSub(Arg(2), Arg(1))
               \/ op = "multiply" /\ g = GenArithmetic(Node.data, Arg(2), Arg(1))
               \/ op = "ordering" /\ g = GenOrdering(Arg(2), Arg(1))
               \/ op = "equality" /\ g = GenEquality(Arg(2), Arg(1))
               \/ op = "logic" /\ g = GenLogic(Arg(2), Arg(1))
        PROVE  Over(Node, s, t)
    <3>1. Node.op = op /\ op # "assign"
      BY <1>1, <2>1
    <3>2. Served(g, Node, context, odd)
      BY <2>1, <3>1, BinaryNodes
    <3> QED
      BY <1>2, <2>1, <3>1, <3>2
  <2> QED
    BY <1>5, <2>1
<1>6. CASE \/ Emits("negate", GenNegate(Arg(1)))
           \/ Emits("not", GenNot(Arg(1)))
  <2>1. ASSUME NEW op, NEW g, Emits(op, g),
               \/ op = "negate" /\ g = GenNegate(Arg(1))
               \/ op = "not" /\ g = GenNot(Arg(1))
        PROVE  Over(Node, s, t)
    <3>1. Node.op = op /\ op # "assign"
      BY <1>1, <2>1
    <3>2. Served(g, Node, context, odd)
      BY <2>1, <3>1, UnaryNodes
    <3> QED
      BY <1>2, <2>1, <3>1, <3>2
  <2> QED
    BY <1>6, <2>1
<1>7. CASE EmitCall \/ EmitMemberCall
           \/ Emits("new", GenNew(Node.result.name, Node.symbol, Args(Node.count)))
  <2>1. ASSUME NEW op, NEW g, Emits(op, g), op # "assign",
               \/ /\ op = "call"
                  /\ g = IF IsType(Node.symbol) THEN GenCast(Node.symbol, Arg(1))
                         ELSE GenCall(Node.symbol, Args(Node.count), <<>>)
               \/ /\ op = "member_call"
                  /\ g = GenCall(Node.symbol, Args(Node.count - 1), <<Arg(Node.count)>>)
               \/ /\ op = "new"
                  /\ g = GenNew(Node.result.name, Node.symbol, Args(Node.count))
        PROVE  Over(Node, s, t)
    <3>1. Node.op = op
      BY <1>1, <2>1, Zenon
    <3> DEFINE node == Node
    <3>a. /\ Ready(node, s, t)
          /\ \/ /\ node.op = "call"
                /\ g = IF IsType(node.symbol) THEN GenCast(node.symbol, Arg(1))
                       ELSE GenCall(node.symbol, Args(node.count), <<>>)
             \/ /\ node.op = "member_call"
                /\ g = GenCall(node.symbol, Args(node.count - 1), <<Arg(node.count)>>)
             \/ /\ node.op = "new"
                /\ g = GenNew(node.result.name, node.symbol, Args(node.count))
      BY <2>1, <3>1, Zenon
    <3> HIDE DEF node
    <3>2. Served(g, node, context, odd)
      BY <3>a, CallNodes, Zenon
    <3> QED
      BY <1>2, <2>1, <3>2, Zenon DEF node
  <2>2. CASE EmitCall
    <3>1. "call" # "assign"
      OBVIOUS
    <3> QED
      BY <2>1, <2>2, <3>1, Zenon DEF EmitCall
  <2>3. CASE EmitMemberCall
    <3>1. "member_call" # "assign"
      OBVIOUS
    <3> QED
      BY <2>1, <2>3, <3>1, Zenon DEF EmitMemberCall
  <2>4. CASE Emits("new", GenNew(Node.result.name, Node.symbol, Args(Node.count)))
    <3>1. "new" # "assign"
      OBVIOUS
    <3> QED
      BY <2>1, <2>4, <3>1, Zenon
  <2> QED
    BY <1>7, <2>2, <2>3, <2>4
<1>8. CASE \/ Emits("get", GenGet(Node.symbol, Arg(1)))
           \/ Emits("set", GenSet(Node.symbol, Arg(2), Arg(1)))
  <2>1. ASSUME NEW op, NEW g, Emits(op, g),
               \/ op = "get" /\ g = GenGet(Node.symbol, Arg(1))
               \/ op = "set" /\ g = GenSet(Node.symbol, Arg(2), Arg(1))
        PROVE  Over(Node, s, t)
    <3>1. Node.op = op /\ op # "assign"
      BY <1>1, <2>1
    <3>2. Served(g, Node, context, odd)
      BY <2>1, <3>1, PropertyNodes
    <3> QED
      BY <1>2, <2>1, <3>1, <3>2
  <2> QED
    BY <1>8, <2>1
<1>9. CASE EmitAssign
  <2> DEFINE v == Arg(1)
             g == ByFormat(v.symbol, Stored,
                    Yields(v.symbol, v.ins, <<StoreIns(v.symbol, "p", 0, v.ins)>>))
             node == Node
             next == register_table'
  <2>1. /\ Generates("assign", g)
        /\ next = IF Reuses(node.data, v.symbol) THEN register_table
                  ELSE Put(register_table, node.data, v.symbol)
    BY <1>9, Zenon DEF EmitAssign
  <2>2. node.op = "assign"
    BY <2>1, Zenon DEF Generates
  <2>3. /\ Served(g, node, context, odd)
        /\ g.fate = "generate" => Registers(t.table, next, context, odd)
    <3> HIDE DEF next, node
    <3>1. g = ByFormat(Arg(1).symbol, Stored,
                Yields(Arg(1).symbol, Arg(1).ins,
                       <<StoreIns(Arg(1).symbol, "p", 0, Arg(1).ins)>>))
      OBVIOUS
    <3>2. next = IF Reuses(node.data, Arg(1).symbol) THEN register_table
                 ELSE Put(register_table, node.data, Arg(1).symbol)
      BY <2>1
    <3>3. Ready(node, s, t)
      BY DEF node
    <3> HIDE DEF g, v
    <3> QED
      BY <2>2, <3>1, <3>2, <3>3, AssignNode, Zenon
  <2> HIDE DEF g
  <2>4. Compiles(g, context, odd)
    BY <2>3, ServedCompiles
  <2> QED
    BY <2>1, <2>3, <2>4, SteppedOver
<1>10. CASE \/ Emits("discard", Yields(NoSymbol, "none", <<>>))
            \/ Emits("clause", Yields(NoSymbol, "none", <<>>))
            \/ Emits("if", GenIf(Arg(1)))
            \/ Emits("return", GenReturn(Args(Node.count)))
  <2>1. ASSUME NEW op, NEW g, Emits(op, g),
               \/ op \in {"discard", "clause"} /\ g = Yields(NoSymbol, "none", <<>>)
               \/ op = "if" /\ g = GenIf(Arg(1))
               \/ op = "return" /\ g = GenReturn(Args(Node.count))
        PROVE  Over(Node, s, t)
    <3>1. Node.op = op
      BY <1>1, <2>1, Zenon
    <3>2. op \in Statements
      BY <2>1 DEF Statements
    <3>3. Compiles(g, context, odd)
      BY <2>1, <3>1, StatementNodes, Zenon
    <3> QED
      BY <1>3, <2>1, <3>2, <3>3, Zenon
  <2>2. "discard" \in {"discard", "clause"} /\ "clause" \in {"discard", "clause"}
    OBVIOUS
  <2> QED
    BY <1>10, <2>1, <2>2, Zenon
<1> QED
  BY <1>4, <1>5, <1>6, <1>7, <1>8, <1>9, <1>10, Zenon DEF Generate

-----------------------------------------------------------------------------
(***************************************************************************)
(* The invariant.                                                          *)
(***************************************************************************)
\* An operand that leads to no type is still on the checker's stack, or some
\* node has used it.
Unrelayed(nodes, stack, w) ==
  \A i \in 1 .. Len(nodes) :
    nodes[i].op \notin Statements /\ ~Formed(nodes[i].result) =>
      \/ "relayed" \in w
      \/ \E k \in 1 .. Len(stack) : ~Formed(stack[k].result)

\* The generator has not begun.
Untouched ==
  /\ generated = 0 /\ values = <<>> /\ emitted = <<>>
  /\ register_table = <<ParamScope(context), EmptyScope>>

\* It stands where the checker stood after as many nodes.
Tracks(h) ==
  /\ History(h, ast, Now, context, odd)
  /\ generated \in 0 .. Len(ast) /\ IsSeq(values)
  /\ Simulates(h[generated], values, register_table, context, odd)

IInv ==
  /\ family \in Families /\ Signed(context)
  /\ Clean
  /\ phase \in {"check", "generate"} =>
       /\ IsSeq(ast) /\ Unrelayed(ast, operands, odd)
       /\ context.kind # "function" => "accessor" \in odd
  /\ phase = "check" => Untouched /\ \E h : History(h, ast, Now, context, odd)
  /\ phase = "generate" => operands = <<>> /\ \E h : Tracks(h)

LEMMA NothingIsASequence ==
  ASSUME NEW s, s = <<>>
  PROVE  IsSeq(s) /\ Len(s) = 0
<1>1. s \in Seq({}) /\ Len(s) = 0
  BY EmptySeq
<1> QED
  BY <1>1, SomeSeq

\* Before the first node nothing is on either stack, and only the parameters
\* are known.
LEMMA StartSimulates ==
  ASSUME NEW c, NEW w, NEW vals, vals = <<>>,
         NEW regs, regs = <<ParamScope(c), EmptyScope>>
  PROVE  IsSeq(vals) /\ Simulates(Start(c), vals, regs, c, w)
<1> DEFINE s == Start(c)
<1>1. IsSeq(vals) /\ Len(vals) = 0
  BY NothingIsASequence
<1>2. s.operands = <<>> /\ s.table = <<ThisScope(c), ParamScope(c), EmptyScope>>
  BY DEF Start
<1>3. Len(s.operands) = 0
  BY <1>2, NothingIsASequence
<1> HIDE DEF s
<1>4. Registers(s.table, regs, c, w)
  <2>1. DOMAIN EmptyScope = {}
    BY DEF EmptyScope
  <2>2. s.table[3] = EmptyScope /\ regs[2] = EmptyScope
    BY <1>2
  <2> QED
    BY <1>2, <2>1, <2>2 DEF Registers
<1>5. Simulates(s, vals, regs, c, w)
  BY <1>1, <1>3, <1>4 DEF Simulates
<1> QED
  BY <1>1, <1>5 DEF s

LEMMA HistoryBegins ==
  ASSUME NEW nodes, nodes = <<>>, NEW now, NEW c, NEW w, now = Start(c)
  PROVE  \E h : History(h, nodes, now, c, w)
<1>1. Len(nodes) = 0
  BY NothingIsASequence
<1> DEFINE h == [i \in {0} |-> now]
<1>2. h[0] = now
  OBVIOUS
<1> HIDE DEF h
<1>3. \A i \in 0 .. 0 : i = 0
  OBVIOUS
<1>4. IsSeq(now.operands)
  <2>1. now.operands = <<>>
    BY DEF Start
  <2> QED
    BY <2>1, NothingIsASequence
<1>5. \A i \in 0 .. Len(nodes) : IsSeq(h[i].operands)
  BY <1>1, <1>2, <1>3, <1>4
<1>6. h[0] = Start(c) /\ h[Len(nodes)] = now
  BY <1>1, <1>2
<1>7. \A i \in 1 .. Len(nodes) : Walked(nodes[i], h[i - 1], h[i], c, w)
  BY <1>1
<1> QED
  BY <1>5, <1>6, <1>7 DEF History

LEMMA StillUnrelayed ==
  ASSUME NEW nodes, NEW stack, NEW w, Unrelayed(nodes, stack, w), IsSeq(nodes), IsSeq(stack),
         NEW node, NEW longer, Len(longer) = Len(nodes) + 1, longer[Len(nodes) + 1] = node,
         \A i \in 1 .. Len(nodes) : longer[i] = nodes[i],
         NEW n \in 0 .. Len(stack), NEW after, Stacked(after, stack, n, node.op, EntryOf(node)),
         NEW v, w \subseteq v, Relayed(Last(stack, n)) \subseteq v
  PROVE  Unrelayed(longer, after, v)
<1> DEFINE m == Len(nodes)
           k == Len(stack)
           b == k - n
           l == Last(stack, n)
<1>1. m \in Nat /\ k \in Nat
  BY SeqFacts
<1>2. b \in Nat /\ b <= k
  BY <1>1
<1>3. /\ Len(after) = b + (IF node.op \in Statements THEN 0 ELSE 1)
      /\ \A i \in 1 .. b : after[i] = stack[i]
      /\ node.op \notin Statements => after[b + 1] = EntryOf(node)
  BY DEF Stacked
<1>4. ASSUME NEW j \in 1 .. k, ~Formed(stack[j].result)
      PROVE  "relayed" \in v \/ \E i \in 1 .. Len(after) : ~Formed(after[i].result)
  <2>1. CASE j \in 1 .. b
    <3>1. j \in 1 .. Len(after)
      BY <1>2, <1>3, <2>1
    <3> QED
      BY <1>3, <1>4, <2>1, <3>1
  <2>2. CASE j \notin 1 .. b
    <3>1. j - b \in 1 .. n /\ k - n + (j - b) = j
      BY <1>1, <2>2
    <3>2. /\ DOMAIN l = 1 .. n
          /\ \A i \in 1 .. n : l[i] = stack[k - n + i]
      BY LastFacts, SeqFacts
    <3> HIDE DEF l
    <3>3. PICK i : i \in 1 .. n /\ k - n + i = j
      BY <3>1
    <3>4. i \in DOMAIN l /\ ~Formed(l[i].result)
      BY <1>4, <3>2, <3>3
    <3>5. "relayed" \in Relayed(l)
      BY <3>4 DEF Relayed
    <3> QED
      BY <3>5 DEF l
  <2> QED
    BY <2>1, <2>2
<1>5. ASSUME NEW i \in 1 .. Len(longer),
             longer[i].op \notin Statements, ~Formed(longer[i].result)
      PROVE  "relayed" \in v \/ \E j \in 1 .. Len(after) : ~Formed(after[j].result)
  <2>1. CASE i \in 1 .. m
    <3>1. "relayed" \in w \/ \E j \in 1 .. k : ~Formed(stack[j].result)
      BY <1>5, <2>1 DEF Unrelayed
    <3> QED
      BY <1>4, <3>1
  <2>2. CASE i = m + 1
    <3>1. after[b + 1] = EntryOf(node) /\ Len(after) = b + 1
      BY <1>3, <1>5, <2>2
    <3>2. EntryOf(node).result = node.result
      BY DEF EntryOf
    <3>3. b + 1 \in 1 .. Len(after) /\ ~Formed(after[b + 1].result)
      BY <1>2, <1>5, <2>2, <3>1, <3>2
    <3> QED
      BY <3>3
  <2>3. i \in 1 .. m \/ i = m + 1
    BY <1>1
  <2> QED
    BY <2>1, <2>2, <2>3
<1> QED
  BY <1>5 DEF Unrelayed

LEMMA Phases ==
  /\ Check => phase = "check"
  /\ Generate => phase = "generate" /\ (generated < Len(ast) \/ EmitEnd)
<1>1. ASSUME NEW op, NEW data, NEW n, NEW k, NEW verdicts, HandleAll(op, data, n, k, verdicts)
      PROVE  phase = "check"
  BY <1>1 DEF HandleAll, Walks
<1>2. ASSUME NEW op, NEW data, NEW n, NEW verdict, Handle(op, data, n, verdict)
      PROVE  phase = "check"
  BY <1>1, <1>2 DEF Handle
<1>3. /\ \A d : CheckLiteral(d) \/ CheckDefault(d) \/ CheckMultiply(d) => phase = "check"
      /\ \A d : CheckVariable(d) \/ CheckGet(d) \/ CheckSet(d) => phase = "check"
  BY <1>1, <1>2, Zenon
     DEF CheckLiteral, CheckDefault, CheckMultiply, CheckVariable, CheckGet, CheckSet
<1>4. \A d, n : CheckCall(d, n) \/ CheckMemberCall(d, n) \/ CheckNew(d, n) => phase = "check"
  BY <1>1, Zenon DEF CheckCall, CheckMemberCall, CheckNew
<1>5. \A d : CheckAssign(d) => phase = "check"
  BY Zenon DEF CheckAssign, Walks
<1>6. \/ CheckChar \/ CheckAdd \/ CheckSub \/ CheckNegate \/ CheckOrdering
      \/ CheckEquality \/ CheckNot \/ CheckLogic
      => phase = "check"
  BY <1>2, Zenon
     DEF CheckChar, CheckAdd, CheckSub, CheckNegate, CheckOrdering, CheckEquality,
         CheckNot, CheckLogic
<1>7. \/ CheckDiscard \/ CheckClause \/ CheckIf \/ CheckReturn \/ CheckBareReturn \/ CheckEnd
      => phase = "check"
  BY <1>1, <1>2, Zenon
     DEF CheckDiscard, CheckClause, CheckIf, CheckReturn, CheckBareReturn, CheckEnd
<1>8. Check => phase = "check"
  BY <1>3, <1>4, <1>5, <1>6, <1>7, Zenon DEF Check
<1>9. ASSUME NEW op, NEW g, Emits(op, g)
      PROVE  phase = "generate" /\ generated < Len(ast)
  BY <1>9 DEF Emits, Generates
<1>10. EmitAssign => phase = "generate" /\ generated < Len(ast)
  BY Zenon DEF EmitAssign, Generates
<1>11. EmitEnd => phase = "generate"
  BY DEF EmitEnd
<1>12. Generate => phase = "generate" /\ (generated < Len(ast) \/ EmitEnd)
  BY <1>9, <1>10, <1>11, Zenon DEF Generate, EmitCall, EmitMemberCall
<1> QED
  BY <1>8, <1>12

LEMMA InitHolds ==
  ASSUME Init
  PROVE  IInv
<1>1. family \in Families /\ Signed(context)
  BY FamiliesAssumption DEF Init, Signed
<1>2. /\ phase = "check" /\ ast = <<>> /\ emitted = <<>> /\ values = <<>> /\ generated = 0
      /\ register_table = <<ParamScope(context), EmptyScope>>
      /\ odd = IF context.kind = "function" THEN {} ELSE {"accessor"}
  BY DEF Init
<1>3. Untouched
  BY <1>2 DEF Untouched
<1>4. Clean
  <2>1. CodeFits(emitted, odd) /\ CallsFit(emitted, context, odd)
    BY <1>2, NoCode
  <2> QED
    BY <1>2, <2>1 DEF Clean
<1>5. Now = Start(context)
  BY DEF Init, Now, Start
<1>6. \E h : History(h, ast, Now, context, odd)
  BY <1>2, <1>5, HistoryBegins
<1>7. IsSeq(ast) /\ Unrelayed(ast, operands, odd)
  BY <1>2, NothingIsASequence DEF Unrelayed
<1> QED
  BY <1>1, <1>2, <1>3, <1>4, <1>6, <1>7 DEF IInv

LEMMA NowIsASequence ==
  ASSUME NEW h, IsSeq(ast), History(h, ast, Now, context, odd)
  PROVE  IsSeq(operands)
<1>1. Len(ast) \in 0 .. Len(ast)
  BY SeqFacts
<1>2. IsSeq(h[Len(ast)].operands) /\ h[Len(ast)] = Now
  BY <1>1 DEF History
<1>3. Now.operands = operands
  BY DEF Now
<1> QED
  BY <1>2, <1>3

\* A step of the checker.
LEMMA CheckKeeps ==
  ASSUME IInv, Check
  PROVE  IInv'
<1>1. /\ phase = "check" /\ Untouched
      /\ family \in Families /\ Signed(context) /\ IsSeq(ast) /\ Unrelayed(ast, operands, odd)
      /\ context.kind # "function" => "accessor" \in odd
  BY Phases DEF IInv
<1>2. PICK h : History(h, ast, Now, context, odd)
  BY <1>1 DEF IInv
<1>3. IsSeq(operands)
  BY <1>1, <1>2, NowIsASequence
<1>4. (Halted \/ WalkedOn \/ CheckEnd) /\ UNCHANGED <<context, family, gen_vars>>
  BY <1>1, <1>3, CheckSteps
<1>5. /\ context' = context /\ family' = family /\ emitted' = emitted /\ values' = values
      /\ generated' = generated /\ register_table' = register_table
  BY <1>4 DEF gen_vars
<1>6. family' \in Families /\ Signed(context')
  BY <1>1, <1>5
<1>7. Untouched'
  BY <1>1, <1>5 DEF Untouched
<1>8. CodeFits(emitted', odd') /\ CallsFit(emitted', context', odd')
  <2>1. emitted' = <<>>
    BY <1>7 DEF Untouched
  <2> QED
    BY <2>1, NoCode
<1>9. CASE Halted
  <2>1. phase' \in {"rejected", "undefined"}
    BY <1>9 DEF Halted
  <2>2. Clean'
    BY <1>8, <1>9 DEF Clean, Halted
  <2> QED
    BY <1>6, <2>1, <2>2 DEF IInv
<1>10. CASE WalkedOn
  <2>1. PICK node : /\ ast' = Append(ast, node) /\ phase' = "check"
                    /\ Walked(node, Now, Now', context, odd') /\ odd \subseteq odd'
    BY <1>10 DEF WalkedOn
  <2>2. /\ \E g : History(g, ast', Now', context, odd')
        /\ IsSeq(ast') /\ Len(ast') = Len(ast) + 1 /\ ast'[Len(ast) + 1] = node
        /\ \A i \in 1 .. Len(ast) : ast'[i] = ast[i]
    <3>1. Appended(ast', ast, node)
      BY <2>1 DEF Appended
    <3>2. Extended(ast', Now', context, odd') /\ Longer(ast', ast, node)
      BY <1>1, <1>2, <2>1, <3>1, Extend
    <3> QED
      BY <3>2 DEF Extended, Longer
  <2>3. Now.operands = operands /\ Now'.operands = operands'
    BY DEF Now
  <2>4. /\ node.count \in 0 .. Len(operands)
        /\ operands' = Below(operands, node.count) \o Leaves(node.op, EntryOf(node))
        /\ Relayed(Last(operands, node.count)) \subseteq odd'
    BY <2>1, <2>3 DEF Walked
  <2>5. Stacked(operands', operands, node.count, node.op, EntryOf(node))
    BY <1>3, <2>4, Replaced
  <2>6. Unrelayed(ast', operands', odd')
    BY <1>1, <1>3, <2>1, <2>2, <2>4, <2>5, StillUnrelayed
  <2>7. Clean'
    BY <1>8, <2>1 DEF Clean
  <2>8. context'.kind # "function" => "accessor" \in odd'
    BY <1>1, <1>5, <2>1
  <2>9. \E g : History(g, ast', Now', context', odd')
    BY <1>5, <2>2
  <2> QED
    BY <1>6, <1>7, <2>1, <2>2, <2>6, <2>7, <2>8, <2>9 DEF IInv
<1>11. CASE CheckEnd
  <2>1. /\ phase' = "generate" /\ operands = <<>> /\ operands' = operands
        /\ ast' = ast /\ symbol_table' = symbol_table /\ odd' = odd
    BY <1>11 DEF CheckEnd, sem_vars
  <2>2. Now' = Now
    BY <2>1 DEF Now
  <2>3. History(h, ast', Now', context', odd')
    BY <1>2, <1>5, <2>1, <2>2
  <2>4. /\ generated' = 0 /\ values' = <<>>
        /\ register_table' = <<ParamScope(context'), EmptyScope>>
    BY <1>7 DEF Untouched
  <2>5. IsSeq(values') /\ Simulates(Start(context'), values', register_table', context', odd')
    BY <2>4, StartSimulates
  <2>6. h[0] = Start(context')
    BY <2>3 DEF History
  <2>7. generated' \in 0 .. Len(ast')
    <3>1. Len(ast) \in Nat
      BY <1>1, SeqFacts
    <3> QED
      BY <2>1, <2>4, <3>1
  <2>8. Simulates(h[generated'], values', register_table', context', odd')
    BY <2>4, <2>5, <2>6
  <2>9. Tracks(h)'
    BY <2>3, <2>5, <2>7, <2>8 DEF Tracks
  <2>10. Clean'
    BY <1>8, <2>1 DEF Clean
  <2>11. IsSeq(ast') /\ Unrelayed(ast', operands', odd')
         /\ (context'.kind # "function" => "accessor" \in odd')
    BY <1>1, <1>5, <2>1
  <2> QED
    BY <1>6, <2>1, <2>9, <2>10, <2>11 DEF IInv
<1> QED
  BY <1>4, <1>9, <1>10, <1>11

\* A step of the generator.
LEMMA GenerateKeeps ==
  ASSUME IInv, Generate
  PROVE  IInv'
<1>1. /\ phase = "generate" /\ operands = <<>>
      /\ family \in Families /\ Signed(context) /\ IsSeq(ast) /\ Unrelayed(ast, operands, odd)
      /\ context.kind # "function" => "accessor" \in odd
  BY Phases DEF IInv
<1>2. CASE EmitEnd
  <2>1. /\ phase' = "done" /\ context' = context /\ family' = family /\ odd' = odd
    BY <1>2 DEF EmitEnd, sem_vars
  <2>2. CodeFits(emitted', odd') /\ CallsFit(emitted', context', odd')
    <3>1. PICK k : k = KindOf(FormatOf(context.ret))
      OBVIOUS
    <3>2. PICK a : a = Ins(<<"ret", k>>, <<k>>, <<k>>)
      OBVIOUS
    <3>3. emitted' = <<a>> \/ emitted' = <<>>
      BY <1>2, <3>1, <3>2, Zenon DEF EmitEnd
    <3>4. CodeFits(<<a>>, odd) /\ CallsFit(<<a>>, context, odd)
      BY <3>1, <3>2, ReturnFitsIt
    <3>5. CASE emitted' = <<a>>
      BY <2>1, <3>4, <3>5
    <3>6. CASE emitted' = <<>>
      BY <3>6, NoCode
    <3> QED
      BY <3>3, <3>5, <3>6
  <2>3. Clean'
    BY <2>1, <2>2 DEF Clean
  <2> QED
    BY <1>1, <2>1, <2>3 DEF IInv
<1>3. CASE generated < Len(ast)
  <2>1. PICK h : Tracks(h)
    BY <1>1 DEF IInv
  <2>2. /\ History(h, ast, Now, context, odd)
        /\ generated \in 0 .. Len(ast) /\ IsSeq(values)
        /\ Simulates(h[generated], values, register_table, context, odd)
    BY <2>1 DEF Tracks
  <2> DEFINE i == generated + 1
  <2>3. i \in 1 .. Len(ast) /\ i - 1 = generated /\ i \in 0 .. Len(ast)
    BY <1>1, <1>3, <2>2, SeqFacts
  <2>4. Node = ast[i]
    BY DEF Node
  <2> HIDE DEF i
  <2>5. Walked(ast[i], h[i - 1], h[i], context, odd) /\ IsSeq(h[generated].operands)
    BY <2>2, <2>3 DEF History
  <2>6. Ready(Node, h[generated], h[i])
    BY <1>1, <2>2, <2>3, <2>4, <2>5 DEF Ready
  <2>7. Over(Node, h[generated], h[i]) \/ EmitEnd
    BY <1>1, <2>6, GenerateSteps
  <2>8. CASE Over(Node, h[generated], h[i])
    <3>1. /\ context' = context /\ family' = family
          /\ ast' = ast /\ symbol_table' = symbol_table /\ operands' = operands /\ odd' = odd
          /\ generated' = i /\ Clean' /\ phase' # "check"
          /\ phase' = "generate" =>
               IsSeq(values') /\ Simulates(h[i], values', register_table', context, odd)
      BY <2>8 DEF Over, sem_vars, i
    <3>2. Now' = Now
      BY <3>1 DEF Now
    <3>3. History(h, ast', Now', context', odd')
      BY <2>2, <3>1, <3>2
    <3>4. ASSUME phase' = "generate"
          PROVE  Tracks(h)'
      <4>1. Simulates(h[generated'], values', register_table', context', odd')
        BY <3>1, <3>4
      <4> QED
        BY <2>3, <3>1, <3>3, <3>4, <4>1 DEF Tracks
    <3>5. family' \in Families /\ Signed(context') /\ IsSeq(ast')
          /\ Unrelayed(ast', operands', odd')
          /\ (context'.kind # "function" => "accessor" \in odd')
      BY <1>1, <3>1
    <3> QED
      BY <1>1, <3>1, <3>4, <3>5 DEF IInv
  <2> QED
    BY <1>2, <2>7, <2>8
<1> QED
  BY <1>2, <1>3, Phases

\* Every step keeps the invariant.
LEMMA NextKeeps ==
  ASSUME IInv, [Next]_vars
  PROVE  IInv'
<1>1. CASE Next
  BY <1>1, CheckKeeps, GenerateKeeps DEF Next
<1>2. CASE UNCHANGED vars
  <2>1. /\ context' = context /\ family' = family /\ phase' = phase
        /\ ast' = ast /\ symbol_table' = symbol_table /\ operands' = operands /\ odd' = odd
        /\ register_table' = register_table /\ values' = values
        /\ generated' = generated /\ emitted' = emitted
    BY <1>2 DEF vars, sem_vars, gen_vars
  <2>2. Now' = Now
    BY <2>1 DEF Now
  <2>3. Clean' /\ Untouched' = Untouched
    BY <2>1 DEF IInv, Clean, Untouched
  <2>4. (\E h : History(h, ast, Now, context, odd)) => \E h : History(h, ast', Now', context', odd')
    BY <2>1, <2>2
  <2>5. ASSUME NEW h, Tracks(h)
        PROVE  Tracks(h)'
    <3>1. History(h, ast', Now', context', odd')
      BY <2>1, <2>2, <2>5 DEF Tracks
    <3>2. Simulates(h[generated'], values', register_table', context', odd')
      BY <2>1, <2>5 DEF Tracks
    <3> QED
      BY <2>1, <2>5, <3>1, <3>2 DEF Tracks
  <2>6. /\ family' \in Families /\ Signed(context')
        /\ phase' \in {"check", "generate"} =>
             /\ IsSeq(ast') /\ Unrelayed(ast', operands', odd')
             /\ context'.kind # "function" => "accessor" \in odd'
    BY <2>1 DEF IInv
  <2>7. /\ phase' = "check" =>
             Untouched' /\ \E h : History(h, ast', Now', context', odd')
        /\ phase' = "generate" => operands' = <<>> /\ \E h : Tracks(h)'
    BY <2>1, <2>3, <2>4, <2>5 DEF IInv
  <2> QED
    BY <2>3, <2>6, <2>7 DEF IInv
<1> QED
  BY <1>1, <1>2

\* What the generator last made stands for what the checker made of the same
\* node.
LEMMA TopsAgree ==
  ASSUME IInv
  PROVE  PassesAgree
<1> SUFFICES ASSUME phase = "generate", generated > 0,
                    ast[generated].op \notin Statements,
                    odd \cap {"char", "namesake", "relayed"} = {}
             PROVE  Is(TypeOf(Arg(1).symbol), TypeOf(ast[generated].result).name)
  BY DEF PassesAgree
<1>1. IsSeq(ast) /\ operands = <<>> /\ Unrelayed(ast, operands, odd)
  BY DEF IInv
<1>2. PICK h : Tracks(h)
  BY DEF IInv
<1>3. /\ History(h, ast, Now, context, odd)
      /\ generated \in 0 .. Len(ast)
      /\ Simulates(h[generated], values, register_table, context, odd)
  BY <1>2 DEF Tracks
<1>4. generated \in 1 .. Len(ast) /\ generated - 1 \in 0 .. Len(ast)
  BY <1>1, <1>3, SeqFacts
<1> DEFINE node == ast[generated]
           s == h[generated - 1]
           t == h[generated]
           e == EntryOf(node)
           p == t.operands
           k == Len(s.operands)
           n == node.count
<1>5. Walked(node, s, t, context, odd) /\ IsSeq(s.operands)
  BY <1>3, <1>4 DEF History
<1>6. n \in 0 .. k /\ p = Below(s.operands, n) \o Leaves(node.op, e)
  BY <1>5 DEF Walked
<1>7. k \in Nat
  BY <1>5, SeqFacts
<1>8. Len(p) = k - n + 1 /\ p[k - n + 1] = e
  <2>1. Stacked(p, s.operands, n, node.op, e)
    <3> HIDE DEF node, s, p, n, e
    <3> QED
      BY <1>5, <1>6, Replaced DEF k
  <2> QED
    BY <2>1 DEF Stacked
<1>9. Formed(node.result) /\ e.result = node.result
  <2>1. Len(operands) = 0
    BY <1>1, NothingIsASequence
  <2>2. "relayed" \notin odd /\ \A i \in 1 .. Len(operands) : FALSE
    BY <2>1
  <2>3. e.result = node.result
    BY DEF EntryOf
  <2>4. Formed(node.result)
    BY <1>1, <1>4, <2>2 DEF Unrelayed
  <2> QED
    BY <2>3, <2>4
<1> HIDE DEF node, s, e, n, k
<1>10. Len(values) = k - n + 1 /\ Means(e, values[k - n + 1], odd)
  <2>1. Len(values) = Len(p) /\ \A i \in 1 .. Len(values) : Means(p[i], values[i], odd)
    BY <1>3 DEF Simulates
  <2>2. k - n + 1 \in 1 .. k - n + 1
    BY <1>6, <1>7
  <2> HIDE DEF p
  <2> QED
    BY <1>8, <2>1, <2>2
<1>11. Arg(1) = values[k - n + 1]
  <2>1. k - n + 1 - 1 + 1 = k - n + 1
    BY <1>6, <1>7
  <2> QED
    BY <1>10, <2>1 DEF Arg
<1>12. Typed(e, Arg(1), odd)
  BY <1>10, <1>11 DEF Means
<1>13. "namesake" \notin odd /\ "char" \notin odd
  OBVIOUS
<1>14. Is(TypeOf(Arg(1).symbol), TypeOf(e.result).name)
  BY <1>9, <1>12, <1>13 DEF Typed
<1> QED
  BY <1>9, <1>14 DEF node

LEMMA CodeIsGood ==
  ASSUME IInv
  PROVE  CheckedProgramsAreGenerated /\ OperandsFit /\ CallsFitTheirFunctions
<1>1. /\ Clean /\ CodeFits(emitted, odd) /\ CallsFit(emitted, context, odd)
  BY DEF IInv, Clean
<1>2. CheckedProgramsAreGenerated
  BY <1>1 DEF Clean, CheckedProgramsAreGenerated
<1>3. OperandsFit
  BY <1>1 DEF CodeFits, Ordinary, OperandsFit, Fit
<1>4. ASSUME odd \cap {"char", "static", "bare", "namesake"} = {}, NEW i \in DOMAIN emitted
      PROVE  /\ emitted[i].op[1] = "call" => CallFits(i)
             /\ emitted[i].op[1] = "ret" => ReturnFits(i)
  BY <1>1, <1>4, Zenon DEF CallsFit, Answers, CallFits, ReturnFits
<1>5. CallsFitTheirFunctions
  BY <1>4 DEF CallsFitTheirFunctions
<1> QED
  BY <1>2, <1>3, <1>5

LEMMA Invariant == Spec => []IInv
<1>1. Init => IInv
  BY InitHolds
<1>2. IInv /\ [Next]_vars => IInv'
  BY NextKeeps
<1> QED
  BY <1>1, <1>2, PTL DEF Spec

\* A body that passes the type checker is compiled: all that stops the
\* generator, or takes it out of the program, is one of the unusual things
\* that the property names (SemanticAstWalker against LIRGenAstWalker).
THEOREM Compiled == Spec => []CheckedProgramsAreGenerated
<1>1. IInv => CheckedProgramsAreGenerated
  BY CodeIsGood
<1> QED
  BY <1>1, Invariant, PTL

\* Every instruction of a body is given the kinds of words it takes, although
\* the handler that emits it looks at the type of one operand only.
THEOREM WordsFit == Spec => []OperandsFit
<1>1. IInv => OperandsFit
  BY CodeIsGood
<1> QED
  BY <1>1, Invariant, PTL

\* A call lays its arguments out as the function loads its parameters, passes
\* an object to members only, and looks for its result where every return of
\* the function leaves it.
THEOREM CallsMatch == Spec => []CallsFitTheirFunctions
<1>1. IInv => CallsFitTheirFunctions
  BY CodeIsGood
<1> QED
  BY <1>1, Invariant, PTL

\* After each node that yields a value, the generator's result has the type
\* that the checker gave to its own.
THEOREM ResultsAgree == Spec => []PassesAgree
<1>1. IInv => PassesAgree
  BY TopsAgree
<1> QED
  BY <1>1, Invariant, PTL
=============================================================================
