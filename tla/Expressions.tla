---------------------------- MODULE Expressions ----------------------------
(***************************************************************************)
(* The statements of one function without its blocks: what the type        *)
(* checker makes of each operand and operator, and what the code generator *)
(* then emits for it.                                                      *)
(*                                                                         *)
(* Both passes walk an expression operands first, so each is a machine     *)
(* with a stack of results.  The checker's pass is any function body: at   *)
(* each step it chooses the next node whose operands are on the stack,     *)
(* throws or accepts it, and leaves it annotated in "ast".  The generator  *)
(* walks the same nodes, sees of the checker's work only the symbol on     *)
(* each node, and has results of its own: a symbol and an instruction, of  *)
(* which only the kind of word it yields is kept.                          *)
(*                                                                         *)
(* Blocks, and the FOR whose update is walked in another order, are the    *)
(* subject of ScopeWalk and ControlFlow.                                   *)
(***************************************************************************)
EXTENDS ScopedTable, Symbols

CONSTANTS
  Functions,   (* the declared functions: id, spec, name, params, ret, access *)
  Properties,  (* the declared properties: id, spec, name, type, get, set   *)
  Families     (* of bodies: the contexts they are compiled in (kind, spec, *)
               (* params, ret), the walks they may take, and how many, a    *)
               (* bound for model checking                                  *)

\* What is left of the declarations after the checker's prescan.  No two
\* functions have the same mangled name, no parameter is void, and a
\* constructor is; a mangled name is no type's.
ASSUME FunctionsAssumption ==
  /\ \A f \in Functions :
       /\ f.spec \in Specs \cup {""} /\ f.ret \in Types
       /\ f.params \in Seq(Types \ {"void"})
       /\ f.name = "construct" => f.spec # "" /\ f.ret = "void"
       /\ f.id \notin Types \cup {""}
  /\ \A f, g \in Functions : f.id = g.id => f = g
ASSUME PropertiesAssumption ==
  \A p \in Properties : p.spec \in Specs /\ p.type \in Types /\ p.id \notin Types \cup {""}

\* A body is that of a function or accessor, in a spec or not; its walks are
\* what the parser makes nodes of.
ASSUME FamiliesAssumption ==
  \A F \in Families :
    /\ \A c \in F.contexts :
         /\ c.spec \in Specs \cup {""} /\ c.ret \in Types
         /\ \A i \in DOMAIN c.params :
              c.params[i].name # "" /\ c.params[i].type \in Types \ {"void"}
    /\ \A w \in F.walks :
         /\ w[1] = "literal" => w[2] \in {"bool", "int32", "float32", "string"}
         /\ w[1] = "default" => w[2] \in Types
         /\ w[1] = "multiply" => w[2] \in {"mul", "div", "mod"}
         /\ w[1] = "assign" => w[2] # ""
         /\ w[1] \in {"call", "member_call", "new"} => w[2][2] \in Nat

VARIABLES
  context,         (* the function, or the accessor, whose body this is     *)
  family,          (* which family its body belongs to                      *)
  phase,           (* which pass is running, or how the compilation ended   *)
  ast,             (* the annotated nodes, in walking order                 *)
  symbol_table,    (* SemanticAstWalker::symbol_table_: parameters, block   *)
  operands,        (* the checker's results: the symbol, and the node's     *)
  odd,             (* history: the unusual things this body has done        *)
  register_table,  (* LIRGenAstWalker::register_table_: name -> symbol      *)
  values,          (* the generator's results: symbol, word, node's symbol  *)
  generated,       (* how many nodes the generator has been through         *)
  emitted          (* the instructions the last of them emitted             *)

sem_vars == <<ast, symbol_table, operands, odd>>
gen_vars == <<register_table, values, generated, emitted>>
vars == <<context, family, phase, sem_vars, gen_vars>>

-----------------------------------------------------------------------------
(***************************************************************************)
(* Declarations, as the two tables hold them.                              *)
(***************************************************************************)

\* The symbol of a function and of a property's accessor.
SymbolOf(kind, d, t) == FunctionSymbol(kind, d.id, TypeSymbol(t))

\* What the mangled name of a function finds: its spec, its name and the
\* types of its arguments.
Overloads(spec, name, types) ==
  {f \in Functions : f.spec = spec /\ f.name = name /\ f.params = types}
PropertiesOf(spec, name) ==
  {p \in Properties : p.spec = spec /\ p.name = name}

\* The parameters, as both tables have them when the body begins.  The
\* generator has no entry for "this".
ParamScope(c) ==
  [n \in {c.params[i].name : i \in DOMAIN c.params} |->
     LET i == CHOOSE i \in DOMAIN c.params : c.params[i].name = n
     IN  FunctionSymbol("param", n, TypeSymbol(c.params[i].type))]
ThisScope(c) ==
  IF c.spec = "" THEN EmptyScope ELSE Bind(EmptyScope, "this", TypeSymbol(c.spec))

Init ==
  /\ family \in Families
  /\ context \in family.contexts
  /\ phase = "check"
  /\ ast = <<>>
  /\ symbol_table = <<ThisScope(context), ParamScope(context), EmptyScope>>
  /\ operands = <<>>
  /\ odd = IF context.kind = "function" THEN {} ELSE {"accessor"}
  /\ register_table = <<ParamScope(context), EmptyScope>>
  /\ values = <<>>
  /\ generated = 0
  /\ emitted = <<>>

-----------------------------------------------------------------------------
(***************************************************************************)
(* The type checker.  What a handler makes of its operands l, r, a: the    *)
(* symbol it leaves on the node and its result, if it is "allowed"; the    *)
(* handler throws if it is not.  It reads the format of a symbol that is   *)
(* not "formed", or copies from a node a symbol that is not "set", at its  *)
(* peril.  "why" says what is unusual about it.                            *)
(***************************************************************************)
Gives(symbol, result) ==
  [set |-> TRUE, formed |-> TRUE, allowed |-> TRUE,
   symbol |-> symbol, result |-> result, why |-> {}]

Set(o) == o.symbol # NoSymbol

\* WalkBool, WalkInt, WalkFloat, WalkString
TypeLiteral(t) ==
  [Gives(TypeSymbol(t), TypeSymbol(t)) EXCEPT !.why = {t} \cap {"string"}]

\* WalkChar: an int32 on the node, an int8 to the checker.
TypeChar ==
  [Gives(TypeSymbol("int32"), TypeSymbol("int8")) EXCEPT !.why = {"char"}]

TypeDefault(t) ==
  [Gives(TypeSymbol(t), TypeSymbol(t)) EXCEPT !.why = {t} \cap {"void"}]

\* CalculateResultantType compares the names of the types, and lets anything
\* pass with a symbol named "none", which a parameter may be, too.
FaultMatches(l, r) == TRUE
Matches(l, r) ==
  Same(TypeOf(l), TypeOf(r)) \/ Is(l, "none") \/ Is(r, "none")
Resultant(l, r) ==
  IF Same(TypeOf(l), TypeOf(r)) \/ Is(l, "none") THEN r ELSE l
Namesakes(l, r) ==
  IF Same(TypeOf(l), TypeOf(r)) THEN {}
  ELSE {"namesake" : s \in {s \in {l, r} : Is(s, "none") /\ ~IsType(s)}}

\* WalkAdd: the left operand decides, and a string may be added.
TypeAdd(l, r) ==
  [Gives(l.result, Resultant(l.result, r.result)) EXCEPT
     !.formed  = Formed(l.result),
     !.allowed = /\ Format(l.result) \in Numeric \/ Is(TypeOf(l.result), "string")
                 /\ Matches(l.result, r.result),
     !.why     = Namesakes(l.result, r.result)
                   \cup ({"string"} \cap {TypeOf(l.result).name})
                   \cup (IF Set(l) THEN {} ELSE {"unset"})]

\* CalculateNumericResultantType, for a node that copies the symbol of o.
TypeNumeric(o, l, r) ==
  LET resultant == Resultant(l.result, r.result) IN
  [Gives(o.symbol, TypeOf(resultant)) EXCEPT
     !.set     = Set(o),
     !.formed  = Formed(resultant) \/ ~Matches(l.result, r.result),
     !.allowed = Matches(l.result, r.result) /\ Format(resultant) \in Numeric,
     !.why     = Namesakes(l.result, r.result)]

\* WalkSub copies from the right, and its left operand is ANY_TYPE if it is a
\* sign; WalkMul, WalkDiv, WalkMod and the four orderings copy from the left.
AnyType == [result |-> TypeSymbol("none"), symbol |-> NoSymbol]
TypeSub(l, r) == TypeNumeric(r, l, r)
TypeMultiply(l, r) == TypeNumeric(l, l, r)
TypeOrdering(l, r) == [TypeNumeric(l, l, r) EXCEPT !.result = TypeSymbol("bool")]

\* WalkEquals, WalkNotEquals: anything compares with its like.  The node of a
\* comparison bears the symbol of what it compares, so that the comparison of
\* a comparison takes it for one of those.
OfAnother(o) ==
  IF Set(o) /\ Is(TypeOf(o.result), "bool") /\ ~Is(TypeOf(o.symbol), "bool")
  THEN {"comparison"} ELSE {}
TypeEquality(l, r) ==
  [Gives(l.symbol, TypeSymbol("bool")) EXCEPT
     !.set     = Set(l),
     !.allowed = Matches(l.result, r.result),
     !.why     = Namesakes(l.result, r.result) \cup OfAnother(l)
                   \cup ({TypeOf(l.result).name} \cap {"bool", "void"})
                   \cup (IF Set(l) THEN {TypeOf(l.symbol).name} \cap {"void"} ELSE {})]

TypeNot(a) ==
  [Gives(a.symbol, a.result) EXCEPT
     !.set     = Set(a) \/ ~Is(TypeOf(a.result), "bool"),
     !.allowed = Is(TypeOf(a.result), "bool")]

TypeLogic(l, r) ==
  [Gives(l.symbol, r.result) EXCEPT
     !.set     = Set(l),
     !.allowed = Is(TypeOf(l.result), "bool") /\ Is(TypeOf(r.result), "bool")]

\* CheckAccessModifier
Accessible(d, access) ==
  access = "public" \/ (access = "concealed" /\ context.spec = d.spec)

TypeCall(f) ==
  [Gives(SymbolOf("function", f, f.ret), TypeSymbol(f.ret)) EXCEPT
     !.allowed = Accessible(f, f.access)]

\* WalkFunctionLikeTypecast: between any formats but void and pointers, and
\* not from a float to a bool.
FaultMayCast(from, to) == to \in Numeric \cup {"bool"} /\ from # "pointer"
MayCast(from, to) ==
  \/ to \in Numeric /\ from # "pointer"
  \/ to = "bool" /\ from \notin {"pointer", "float"}
TypeCast(t, a) ==
  [Gives(TypeSymbol(t), TypeSymbol(t)) EXCEPT
     !.formed  = Formed(a.result),
     !.allowed = ~Is(a.result, "void") /\ MayCast(Format(a.result), FormatOf(t))]

\* WalkNewExpression asks for a constructor, not whether it is accessible.
TypeNew(t, f) == Gives(SymbolOf("function", f, f.ret), TypeSymbol(t))

\* TypeCheckProperty; a set does not look at the type of the value.
TypeGet(p) ==
  LET s == SymbolOf("property", p, p.type)
  IN  [Gives(s, s) EXCEPT
         !.allowed = Accessible(p, p.get),
         !.why     = {p.type} \cap {"void"}]
TypeSet(p, value) ==
  LET s == SymbolOf("function", p, p.type)
  IN  [Gives(s, s) EXCEPT
         !.allowed = Accessible(p, p.set),
         !.why     = (IF Is(TypeOf(value.result), p.type) THEN {} ELSE {"mistyped"})
                       \cup ({p.type} \cap {"void"})]

-----------------------------------------------------------------------------
(***************************************************************************)
(* The checker's steps.                                                    *)
(***************************************************************************)

\* The i-th operand from the top; the last n of a stack, and the rest.
Operand(i) == operands[Len(operands) - i + 1]
Last(stack, n) == SubSeq(stack, Len(stack) - n + 1, Len(stack))
Below(stack, n) == SubSeq(stack, 1, Len(stack) - n)

\* The next node is this one, and its operands have been walked.
Walks(op, data, n) ==
  /\ phase = "check"
  /\ <<op, data>> \in family.walks
  /\ Len(ast) < family.most
  /\ Len(operands) >= n
  /\ UNCHANGED <<context, family, gen_vars>>

Ends(how, why) ==
  /\ phase' = how
  /\ odd' = odd \cup why
  /\ UNCHANGED <<ast, symbol_table, operands>>
Reject == Ends("rejected", {})

\* Some operand's symbol leads to another symbol and not to a type; that one
\* may have the name of a type.
Relayed(stack) ==
  LET relays == {i \in DOMAIN stack : ~Formed(stack[i].result)}
  IN  {"relayed" : i \in relays}
        \cup {"namesake" : i \in {i \in relays : TypeOf(stack[i].result).name \in Types}}

\* A statement leaves nothing on the stack.  What a parent sees of the node of
\* a property's assignment is a symbol that was never set: the one that was is
\* on the MEMBER below it.
Statements == {"discard", "clause", "if", "return"}
Leaves(op, entry) == IF op \in Statements THEN <<>> ELSE <<entry>>
Seen(op, symbol) == IF op = "set" THEN NoSymbol ELSE symbol

\* A node takes the place of its n operands.
Accept(op, data, n, v) ==
  /\ ast' = Append(ast, [op |-> op, data |-> data, count |-> n,
                         symbol |-> v.symbol, result |-> v.result])
  /\ operands' = Below(operands, n)
                   \o Leaves(op, [result |-> v.result, symbol |-> Seen(op, v.symbol)])
  /\ odd' = odd \cup v.why \cup Relayed(Last(operands, n))
  /\ UNCHANGED phase

\* A handler and what it gives, if what it looks for is found.  The last k of
\* its operands are each below an EXPRESSION node, which copies its symbol.
HandleAll(op, data, n, k, verdicts) ==
  /\ Walks(op, data, n)
  /\ IF \E i \in 1 .. k : ~Set(Operand(i)) THEN Ends("undefined", {"unset"})
     ELSE \/ verdicts = {} /\ Reject
          \/ \E v \in verdicts :
               \/ ~v.set /\ Ends("undefined", {"unset"})
               \/ v.set /\ ~v.formed /\ Ends("undefined", {"relayed"})
               \/ v.set /\ v.formed /\ ~v.allowed /\ Reject
               \/ /\ v.set /\ v.formed /\ v.allowed
                  /\ Accept(op, data, n, v)
                  /\ UNCHANGED symbol_table
Handle(op, data, n, verdict) == HandleAll(op, data, n, 0, {verdict})

CheckLiteral(t) == Handle("literal", t, 0, TypeLiteral(t))
CheckChar == Handle("char", "", 0, TypeChar)
CheckDefault(t) == Handle("default", t, 0, TypeDefault(t))

\* WalkVariable: the symbol found is both the node's and the result.
TypeVariable(n, s) ==
  [Gives(s, s) EXCEPT
     !.why = IF n = "this" /\ ~IsType(s) THEN {"namesake"} ELSE {}]
CheckVariable(n) ==
  HandleAll("variable", n, 0, 0,
            {TypeVariable(n, s) : s \in IF IsBound(symbol_table, n)
                                        THEN {Get(symbol_table, n)} ELSE {}})

CheckAdd == Handle("add", "", 2, TypeAdd(Operand(2), Operand(1)))
CheckSub == Handle("sub", "", 2, TypeSub(Operand(2), Operand(1)))
CheckNegate == Handle("negate", "", 1, TypeSub(AnyType, Operand(1)))
CheckMultiply(op) == Handle("multiply", op, 2, TypeMultiply(Operand(2), Operand(1)))
CheckOrdering == Handle("ordering", "", 2, TypeOrdering(Operand(2), Operand(1)))
CheckEquality == Handle("equality", "", 2, TypeEquality(Operand(2), Operand(1)))
CheckNot == Handle("not", "", 1, TypeNot(Operand(1)))
CheckLogic == Handle("logic", "", 2, TypeLogic(Operand(2), Operand(1)))

\* The names of the types of the last n operands, as they are mangled.
Arguments(n) == [i \in 1 .. n |-> TypeOf(Operand(n - i + 1).result).name]

\* A call that no function answers to is a cast if its name is a type's.
CheckCall(name, n) ==
  LET found == Overloads("", name, Arguments(n))
  IN  HandleAll("call", <<name, n>>, n, n,
        IF found # {} THEN {TypeCall(f) : f \in found}
        ELSE IF n = 1 /\ name \in Types THEN {TypeCast(name, Operand(1))}
        ELSE {})

\* A member that the object's spec does not have may be a static function.
CheckMemberCall(name, n) ==
  LET spec == TypeOf(Operand(n + 1).result).name
      found == Overloads(spec, name, Arguments(n))
      static == Overloads("", name, Arguments(n))
  IN  HandleAll("member_call", <<name, n>>, n + 1, n,
        IF found # {} THEN {TypeCall(f) : f \in found}
        ELSE {[TypeCall(f) EXCEPT !.why = {"static"}] : f \in static})

CheckNew(t, n) ==
  HandleAll("new", <<t, n>>, n, n,
            {TypeNew(t, f) : f \in Overloads(t, "construct", Arguments(n))})

\* The value of an assignment is walked before the object it goes to.
CheckGet(name) ==
  HandleAll("get", name, 1, 0,
            {TypeGet(p) : p \in PropertiesOf(TypeOf(Operand(1).result).name, name)})
CheckSet(name) ==
  HandleAll("set", name, 2, 0,
            {TypeSet(p, Operand(2)) :
               p \in PropertiesOf(TypeOf(Operand(1).result).name, name)})

\* WalkAssign: a name that is not in this scope is declared with the symbol of
\* its value, and the assignment's own symbol is a variable that returns that
\* symbol, be it a type or not.
CheckAssign(n) ==
  LET value == Operand(1).result
      declares == ~InTop(symbol_table, n)
      symbol == IF declares THEN FunctionSymbol("variable", n, value)
                ELSE Get(symbol_table, n)
      legal == /\ ~Is(TypeOf(value), "void")
               /\ n # "this"
               /\ ~declares => Same(TypeOf(Get(symbol_table, n)), TypeOf(value))
  IN  /\ Walks("assign", n, 1)
      /\ \/ ~legal /\ Reject
         \/ /\ legal
            /\ Accept("assign", n, 1, Gives(symbol, symbol))
            /\ symbol_table' = IF declares THEN Put(symbol_table, n, value)
                               ELSE symbol_table

-----------------------------------------------------------------------------
(***************************************************************************)
(* Statements.  All but "discard" have an EXPRESSION node.                 *)
(***************************************************************************)
Permits(allowed, why) ==
  [Gives(NoSymbol, NoSymbol) EXCEPT !.allowed = allowed, !.why = why]

\* A call or an assignment for its effect; the first and third clause of FOR.
CheckDiscard ==
  /\ Len(operands) = 1
  /\ ast[Len(ast)].op \in {"call", "member_call", "assign", "set"}
  /\ Handle("discard", "", 1, Permits(TRUE, {}))
CheckClause ==
  /\ Len(operands) = 1
  /\ HandleAll("clause", "", 1, 1, {Permits(TRUE, {})})

\* The condition of IF and FOR: a symbol that is called "bool".
CheckIf ==
  /\ Len(operands) = 1
  /\ HandleAll("if", "", 1, 1,
       {Permits(Is(Operand(1).result, "bool"),
                IF IsType(Operand(1).result) THEN {} ELSE {"namesake"})})

\* WalkReturn: the types match; a setter returns nothing.  Nobody asks whether
\* a function that returns a value gives one.
CheckReturn ==
  /\ Len(operands) = 1
  /\ HandleAll("return", 1, 1, 1,
       {Permits(/\ context.kind # "set"
                /\ Is(TypeOf(Operand(1).result), context.ret),
                {context.ret} \cap {"void"})})
CheckBareReturn ==
  /\ operands = <<>>
  /\ Handle("return", 0, 0,
       Permits(context.kind # "set",
               IF context.ret = "void" THEN {} ELSE {"bare"}))

CheckEnd ==
  /\ phase = "check"
  /\ operands = <<>>
  /\ phase' = "generate"
  /\ UNCHANGED <<context, family, sem_vars, gen_vars>>

Check ==
  \/ \E w \in family.walks :
       LET op == w[1]  d == w[2] IN
       \/ op = "literal" /\ CheckLiteral(d)
       \/ op = "default" /\ CheckDefault(d)
       \/ op = "variable" /\ CheckVariable(d)
       \/ op = "multiply" /\ CheckMultiply(d)
       \/ op = "call" /\ CheckCall(d[1], d[2])
       \/ op = "member_call" /\ CheckMemberCall(d[1], d[2])
       \/ op = "new" /\ CheckNew(d[1], d[2])
       \/ op = "get" /\ CheckGet(d)
       \/ op = "set" /\ CheckSet(d)
       \/ op = "assign" /\ CheckAssign(d)
  \/ CheckChar \/ CheckAdd \/ CheckSub \/ CheckNegate \/ CheckOrdering
  \/ CheckEquality \/ CheckNot \/ CheckLogic
  \/ CheckDiscard \/ CheckClause \/ CheckIf \/ CheckReturn \/ CheckBareReturn
  \/ CheckEnd

-----------------------------------------------------------------------------
(***************************************************************************)
(* The code generator.  An instruction has operands of the kinds it wants, *)
(* and the kinds of those it is given; a load, store or call says "where". *)
(* What a handler gives is its result, a symbol and the kind of word the   *)
(* instruction that computes it yields ("none" for no instruction), and    *)
(* its code; or else how compilation ends.                                 *)
(***************************************************************************)
Ins(op, want, have) == [op |-> op, want |-> want, have |-> have, where |-> <<>>]
Imm(k) == Ins(<<"imm", k>>, <<>>, <<>>)

Yields(symbol, ins, code) ==
  [fate |-> "generate", symbol |-> symbol, ins |-> ins, code |-> code]
Stops(fate) == [fate |-> fate, symbol |-> NoSymbol, ins |-> "none", code |-> <<>>]

\* A handler first reads the format of a symbol, then has a case for it.
Legible(s) == s # NoSymbol /\ Formed(s)
ByFormat(s, formats, yields) ==
  IF ~Legible(s) THEN Stops("undefined")
  ELSE IF Format(s) \notin formats THEN Stops("failed") ELSE yields

\* EmitLoad and EmitStore, of a legible symbol that is not void.
Slot(s, offset) == <<KindOf(Format(s)), Size(s), offset>>
LoadIns(s, base, offset) ==
  [Ins(<<"load", KindOf(Format(s))>>, <<"p">>, <<base>>) EXCEPT !.where = Slot(s, offset)]
StoreIns(s, base, offset, value) ==
  [Ins(<<"store", KindOf(Format(s))>>, <<KindOf(Format(s)), "p">>, <<value, base>>)
     EXCEPT !.where = Slot(s, offset)]
Stored == {"bool", "int", "float", "pointer"}

\* An operator with two operands of one format, the format of the node s.
GenBinary(op, s, formats, symbol, ins, l, r) ==
  LET k == KindOf(Format(s))
  IN  ByFormat(s, formats,
        Yields(symbol, IF ins = "" THEN k ELSE ins,
               <<Ins(<<op, k>>, <<k, k>>, <<l.ins, r.ins>>)>>))

\* WalkAdd, WalkMul, WalkDiv, WalkMod go by the left operand, WalkSub by the
\* right one; a sign has nothing to the left of it, and gets a zero.
Bool == TypeSymbol("bool")
GenArithmetic(op, l, r) == GenBinary(op, l.node, Numeric, l.symbol, "", l, r)
FaultGenSub(l, r) == GenBinary("sub", r.node, Numeric, l.symbol, "", l, r)
GenSub(l, r) == GenBinary("sub", r.node, Numeric, r.symbol, "", l, r)
GenNegate(r) ==
  GenSub([symbol |-> TypeSymbol("none"), node |-> NoSymbol,
          ins |-> IF Legible(r.node) THEN KindOf(Format(r.node)) ELSE "none"], r)
GenOrdering(l, r) == GenBinary("gt", l.node, Numeric, Bool, "i", l, r)
GenEquality(l, r) == GenBinary("eq", l.node, Numeric \cup {"pointer"}, Bool, "i", l, r)

\* WalkLogNot, WalkLogAnd, WalkLogOr look at no symbol.
GenNot(a) == Yields(Bool, "i", <<Ins(<<"xor", "i">>, <<"i">>, <<a.ins>>)>>)
GenLogic(l, r) == Yields(Bool, "i", <<Ins(<<"logic", "i">>, <<"i", "i">>, <<l.ins, r.ins>>)>>)

\* WalkBool, WalkInt, WalkFloat, WalkChar, and WalkString, which throws.
GenLiteral(s) ==
  IF Is(s, "string") THEN Stops("failed")
  ELSE Yields(s, KindOf(Format(s)), <<Imm(KindOf(Format(s)))>>)
GenDefault(s) ==
  IF Format(s) = "void" THEN Yields(s, "none", <<>>)
  ELSE Yields(s, KindOf(Format(s)), <<Imm(KindOf(Format(s)))>>)

\* WalkVariable loads what the register's symbol says, and gives the node's.
GenVariable(n, s) ==
  LET register == Get(register_table, n) IN
  IF n = "this" THEN Yields(s, "p", <<Ins(<<"param", "p">>, <<>>, <<>>)>>)
  ELSE ByFormat(register, Stored,
         Yields(s, KindOf(Format(register)), <<LoadIns(register, "p", 0)>>))

\* WalkFunctionLikeTypecast, to the type of the node s.
GenCast(s, a) ==
  LET from == Format(a.symbol)
      to == Format(s)
      convert(op, want) == Yields(s, KindOf(to), <<Ins(<<op, want>>, <<want>>, <<a.ins>>)>>)
  IN  IF Same(TypeOf(a.symbol), s) THEN Yields(a.symbol, a.ins, <<>>)
      ELSE IF ~Legible(a.symbol) THEN Stops("undefined")
      ELSE CASE to = "int" /\ from = "float"            -> convert("to i", "f")
             [] to = "int" /\ from \in {"int", "bool"}   -> Yields(s, a.ins, <<>>)
             [] to = "float" /\ from \in {"int", "bool"} -> convert("to f", "i")
             [] to = "bool" /\ from = "int"              -> convert("cmov", "i")
             [] OTHER                                    -> Stops("failed")

\* WalkFunctionCall: the arguments are laid end to end in a vector, each the
\* size of its own symbol; the callee is told where the object is, if any.
Sum(sizes, i) ==
  LET sum[k \in 0 .. i] == IF k = 0 THEN 0 ELSE sum[k - 1] + sizes[k] IN sum[i]
FaultArgumentSize(s) == 4
ArgumentSize(s) == Size(s)
GenCall(f, args, object) ==
  LET symbols == [i \in DOMAIN args |-> args[i].symbol]
      sizes == [i \in DOMAIN args |-> ArgumentSize(symbols[i])]
      store(i) == StoreIns(symbols[i], "p", Sum(sizes, i - 1), args[i].ins)
      k == KindOf(Format(f))
      call == [Ins(<<"call", k>>, [i \in DOMAIN object |-> "p"],
                   [i \in DOMAIN object |-> object[i].ins])
                 EXCEPT !.where = <<f.name>>]
  IN  IF \E i \in DOMAIN symbols : ~Legible(symbols[i]) THEN Stops("undefined")
      ELSE IF \E i \in DOMAIN symbols : Format(symbols[i]) \notin Stored
      THEN Stops("failed")
      ELSE Yields(TypeOf(f), k, [i \in DOMAIN args |-> store(i)] \o <<call>>)

\* WalkNewExpression: memory for the object, and its constructor.
GenNew(t, f, args) ==
  LET alloc == [symbol |-> TypeSymbol(t), ins |-> "p"]
      call == GenCall(f, args, <<alloc>>)
  IN  [call EXCEPT !.symbol = alloc.symbol, !.ins = alloc.ins]

\* WalkMemberPropertyGet and WalkMemberPropertySet.
\* Offset 0 stands for the offset of the property, for which see Declarations.
GenGet(s, object) ==
  ByFormat(s, Stored,
    Yields(TypeOf(s), KindOf(Format(s)), <<LoadIns(s, object.ins, 0)>>))
GenSet(s, value, object) ==
  ByFormat(s, Stored,
    Yields(TypeOf(s), value.ins, <<StoreIns(s, object.ins, 0, value.ins)>>))

\* WalkIfStatementChildren and WalkForStatementChildren test the condition.
GenIf(a) == Yields(NoSymbol, "none", <<Ins(<<"eq", "i">>, <<"i">>, <<a.ins>>)>>)

\* WalkReturn goes by the type of its result.
GenReturn(args) ==
  IF args = <<>> THEN Yields(NoSymbol, "none", <<Ins(<<"ret", "i">>, <<"i">>, <<"i">>)>>)
  ELSE LET s == args[1].symbol
           k == KindOf(Format(s))
       IN  ByFormat(s, Stored,
             Yields(NoSymbol, "none", <<Ins(<<"ret", k>>, <<k>>, <<args[1].ins>>)>>))

-----------------------------------------------------------------------------
(***************************************************************************)
(* The generator's steps: the nodes again, in the order they were walked.  *)
(* The body of an accessor is walked with no writer, through which every   *)
(* instruction is emitted.                                                 *)
(***************************************************************************)
Node == ast[generated + 1]
Arg(i) == values[Len(values) - i + 1]
Args(n) == Last(values, n)

Generates(op, g) ==
  /\ phase = "generate"
  /\ generated < Len(ast)
  /\ Node.op = op
  /\ generated' = generated + 1
  /\ phase' = IF g.code # <<>> /\ context.kind # "function" THEN "crashed" ELSE g.fate
  /\ emitted' = g.code
  /\ values' = Below(values, Node.count)
                 \o Leaves(op, [symbol |-> g.symbol, ins |-> g.ins,
                                node |-> Seen(op, Node.symbol)])
  /\ UNCHANGED <<context, family, sem_vars>>
Emits(op, g) == Generates(op, g) /\ UNCHANGED register_table

\* WalkAssign: a register of this name in this scope, or in any if the types
\* match, is stored to; or else a new one is made.
Reuses(n, s) ==
  \/ InTop(register_table, n)
  \/ IsBound(register_table, n) /\ Same(TypeOf(Get(register_table, n)), TypeOf(s))
EmitAssign ==
  LET n == Node.data
      value == Arg(1)
  IN  /\ Generates("assign",
           ByFormat(value.symbol, Stored,
             Yields(value.symbol, value.ins, <<StoreIns(value.symbol, "p", 0, value.ins)>>)))
      /\ register_table' = IF Reuses(n, value.symbol) THEN register_table
                           ELSE Put(register_table, n, value.symbol)

EmitCall ==
  Emits("call", IF IsType(Node.symbol) THEN GenCast(Node.symbol, Arg(1))
                ELSE GenCall(Node.symbol, Args(Node.count), <<>>))
EmitMemberCall ==
  Emits("member_call",
        GenCall(Node.symbol, Args(Node.count - 1), <<Arg(Node.count)>>))

\* The default return at the end of a function, by the type of the function.
EmitEnd ==
  LET k == KindOf(FormatOf(context.ret)) IN
  /\ phase = "generate"
  /\ generated = Len(ast)
  /\ phase' = "done"
  /\ emitted' = IF context.kind = "function" THEN <<Ins(<<"ret", k>>, <<k>>, <<k>>)>>
                ELSE <<>>
  /\ UNCHANGED <<context, family, sem_vars, register_table, values, generated>>

Generate ==
  \/ Emits("literal", GenLiteral(Node.symbol))
  \/ Emits("char", GenLiteral(Node.symbol))
  \/ Emits("default", GenDefault(Node.symbol))
  \/ Emits("variable", GenVariable(Node.data, Node.symbol))
  \/ Emits("add", GenArithmetic("add", Arg(2), Arg(1)))
  \/ Emits("sub", GenSub(Arg(2), Arg(1)))
  \/ Emits("negate", GenNegate(Arg(1)))
  \/ Emits("multiply", GenArithmetic(Node.data, Arg(2), Arg(1)))
  \/ Emits("ordering", GenOrdering(Arg(2), Arg(1)))
  \/ Emits("equality", GenEquality(Arg(2), Arg(1)))
  \/ Emits("not", GenNot(Arg(1)))
  \/ Emits("logic", GenLogic(Arg(2), Arg(1)))
  \/ EmitCall
  \/ EmitMemberCall
  \/ Emits("new", GenNew(Node.result.name, Node.symbol, Args(Node.count)))
  \/ Emits("get", GenGet(Node.symbol, Arg(1)))
  \/ Emits("set", GenSet(Node.symbol, Arg(2), Arg(1)))
  \/ EmitAssign
  \/ Emits("discard", Yields(NoSymbol, "none", <<>>))
  \/ Emits("clause", Yields(NoSymbol, "none", <<>>))
  \/ Emits("if", GenIf(Arg(1)))
  \/ Emits("return", GenReturn(Args(Node.count)))
  \/ EmitEnd

Next == Check \/ Generate

Spec == Init /\ [][Next]_vars

-----------------------------------------------------------------------------
(***************************************************************************)
(* Properties.                                                             *)
(***************************************************************************)
\* A namesake is a symbol taken for another thing of its name: an operand that
\* is a parameter called "none", a parameter called "this" in a static function,
\* or a parameter named like a type, as a condition or where an assignment of an
\* assignment is an operand.

\* A body that passes the type checker compiles.  All that may still stop the
\* generator, or take it out of the program, is one of these: a string (only
\* the literal and the sum are missing), a void that is treated as a value (a
\* void property, or a new object that is compared, among them), a comparison
\* of bools, a namesake, the value of a property's assignment used as an
\* operand, an assignment of an assignment, and any code in an accessor.
\* (SemanticAstWalker's handlers against those of LIRGenAstWalker.)
CheckedProgramsAreGenerated ==
  /\ phase = "failed" => odd \cap {"string", "void", "bool", "namesake"} # {}
  /\ phase = "undefined" => odd \cap {"unset", "relayed"} # {}
  /\ phase = "crashed" => "accessor" \in odd

\* Every instruction is given the kinds of words it takes, though the
\* generator goes by the type of one operand and "ignores" the others.  It
\* fails to after a set of a property with a value of another type, a
\* comparison of comparisons, a static function called as a member, and a
\* namesake.
\* (Everything LIRGenAstWalker does not check "thanks to the typechecker".)
Fit == \A i \in DOMAIN emitted : emitted[i].want = emitted[i].have
OperandsFit ==
  odd \cap {"mistyped", "comparison", "static", "namesake"} = {} => Fit

\* What the generator takes a value to be is what the checker took it to be,
\* in name, after each node that yields one; only a character is two things,
\* and again a namesake and an assignment of an assignment are excepted.
\* (The results of the two walkers, computed by separate code.)
PassesAgree ==
  /\ phase = "generate"
  /\ generated > 0
  /\ ast[generated].op \notin Statements
  /\ odd \cap {"char", "namesake", "relayed"} = {}
  => Is(TypeOf(Arg(1).symbol), TypeOf(ast[generated].result).name)

\* The arguments of a call are stored where, and as wide as, the function
\* loads its parameters, the object is passed to members and to them alone,
\* and the call expects, in the register it looks at, what every return of
\* the function leaves.  Characters, static functions called as members,
\* namesakes and a return without the value that the function is to return are
\* the exceptions.
\* (WalkFunctionCall against WalkSpecFunctionDeclarationParameter, WalkReturn.)
ParameterSlots(f) ==
  LET sizes == [i \in DOMAIN f.params |-> SizeOf(f.params[i])]
  IN  [i \in DOMAIN sizes |-> Slot(TypeSymbol(f.params[i]), Sum(sizes, i - 1))]
CallFits(i) ==
  \A f \in Functions : emitted[i].where = <<f.id>> =>
    /\ [j \in 1 .. i - 1 |-> emitted[j].where] = ParameterSlots(f)
    /\ emitted[i].op = <<"call", KindOf(FormatOf(f.ret))>>
    /\ emitted[i].have # <<>> <=> f.spec # ""
ReturnFits(i) == emitted[i].op = <<"ret", KindOf(FormatOf(context.ret))>>
CallsFitTheirFunctions ==
  odd \cap {"char", "static", "bare", "namesake"} = {} =>
    \A i \in DOMAIN emitted :
      /\ emitted[i].op[1] = "call" => CallFits(i)
      /\ emitted[i].op[1] = "ret" => ReturnFits(i)
=============================================================================
