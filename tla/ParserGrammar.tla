--------------------------- MODULE ParserGrammar ---------------------------
(***************************************************************************)
(* The parser's functions, one definition each, as the short programs they *)
(* are: a sequence of instructions over the local variables of the         *)
(* function, which hold nodes.  Module Parser runs them.                   *)
(*                                                                         *)
(* What is kept of a function is what it does to the window of tokens, to  *)
(* the tree and to the flow of control; the value of a token (which name,  *)
(* which number) and the line it is on are not.  A token is therefore its  *)
(* type, or its symbol where the parser compares it: "modifier", "name",   *)
(* "string", "literal" (an INT, FLOAT or CHAR), "bool" (true or false), a  *)
(* keyword or a symbol by its spelling; "keyword" and "symbol" are those   *)
(* the parser compares with nothing.                                       *)
(*                                                                         *)
(* A definition named Fault... is a slip the next definition could have    *)
(* had; it is used only to see that the properties would notice it.        *)
(***************************************************************************)
EXTENDS Sequences

Symbols ==
  {";", ",", "(", ")", "{", "}", "<-", "||", "&&", "=", "!=", "<", "<=", ">", ">=",
   "+", "-", "*", "/", "%", ".", "!", "symbol"}

Keywords ==
  {"package", "depends", "spec", "construct", "get", "set", "if", "else", "while", "for",
   "return", "new", "default", "bool", "keyword"}

AllTokens == Symbols \cup Keywords \cup {"modifier", "name", "string", "literal"}

\* The operators, and the rule of the node made for each.
Operators == {"||", "&&", "=", "!=", "<", "<=", ">", ">=", "+", "-", "*", "/", "%", ".", "!"}

RuleOf ==
  [t \in Operators |->
     CASE t = "||" -> "LOGOR" [] t = "&&" -> "LOGAND" [] t = "=" -> "EQUALS"
       [] t = "!=" -> "NOT_EQUALS" [] t = "<" -> "LESS" [] t = "<=" -> "LESS_EQUALS"
       [] t = ">" -> "GREATER" [] t = ">=" -> "GREATER_EQUALS" [] t = "+" -> "ADD"
       [] t = "-" -> "SUB" [] t = "*" -> "MUL" [] t = "/" -> "DIV" [] t = "%" -> "MOD"
       [] t = "." -> "MEMBER" [] t = "!" -> "LOGNOT"]

-----------------------------------------------------------------------------
(***************************************************************************)
(* Instructions.  v, p, c name local variables; "" is none.                *)
(***************************************************************************)
Nothing == ""
NoArguments == <<>>

New(v, rule, p) == <<"new", v, rule, p>>       \* v = new Node(rule); p->AddChild(v)
NewOperation(v) == <<"operation", v>>          \* the rule is that of the current token
Add(p, c) == <<"add", p, c>>                   \* p->AddChild(c)
Let(v, w) == <<"let", v, w>>                   \* v = w
Delete(v) == <<"delete", v>>
Advance == <<"advance">>                       \* AdvanceNext(), which throws at EOF
If(c, yes, no) == <<"if", c, yes, no>>
While(c, body) == <<"while", c, body>>
Call(v, f, args) == <<"call", v, f, args>>     \* v = f(args)
Throw == <<"throw">>
Return(v) == <<"return", v>>

\* try { body } catch (const Exception&) { delete v; throw; }
Try(v, body) == <<<<"try", v>>>> \o body \o <<<<"end try">>>>

\* Conditions.  NextToken() throws when there is no next token.
Current(S) == <<"current", S>>
NextIs(S) == <<"next", S>>
HasNext == <<"has next">>
Childless(v) == <<"childless", v>>
Assignable(v) == <<"assignable", v>>
IsStatement(v) == <<"statement", v>>
Not(c) == <<"not", c>>

Need(c) == If(c, <<>>, <<Throw>>)
Unless(c, body) == If(c, <<>>, body)

\* AdvanceSymbol, AdvanceKeyword, and a test of AdvanceNext()->type.
AdvanceTo(S) == <<Advance, Need(Current(S))>>

\* A call of a function that returns nothing, on one node.
Into(f, v) == Call(Nothing, f, [node |-> v])

ParseSemicolon == Need(Current({";"}))

-----------------------------------------------------------------------------
(***************************************************************************)
(* Modules, specs and functions.                                           *)
(***************************************************************************)
\* Parse, whose handler frees the module, and ParseModule.
ParseModule ==
  <<New("module", "MODULE", Nothing)>>
  \o Try("module", <<Into("PackageDeclaration", "module"), Into("DependsStatements", "module"),
                     Into("ModuleBody", "module")>>)
  \o <<Return("module")>>

ParsePackageDeclaration ==
  AdvanceTo({"package"}) \o AdvanceTo({"string"})
  \o <<New("name", "NAME", "node"), Advance, ParseSemicolon>>

\* AdvanceKeyword is called only while there is a next token; after the
\* last statement the current token is its semicolon.
ParseDependsStatements ==
  LET More == If(HasNext, <<Advance>>, <<>>)
  IN  <<New("depends", "DEPENDS", "node"), More,
        While(Current({"depends"}), <<Into("DependsStatement", "depends"), More>>)>>

ParseDependsStatement ==
  <<Need(Current({"depends"}))>> \o AdvanceTo({"string"})
  \o <<New("name", "NAME", "node"), Advance, ParseSemicolon>>

ParseModuleBody ==
  <<New("specs", "SPECS", "node"), New("functions", "FUNCTIONS", "node"),
    If(Current({"modifier"}), <<Need(HasNext)>>, <<>>),
    While(HasNext,
      <<Need(Current({"modifier"})),
        If(NextIs({"spec"}), <<Into("SpecDefinition", "specs")>>,
                             <<Into("StaticFunction", "functions")>>),
        If(HasNext, <<Advance>>, <<>>)>>)>>

ParseSpecDefinition ==
  <<New("spec", "SPEC", "node"), Need(Current({"modifier"})),
    New("modifier", "ACCESS_MODIFIER", "spec")>>
  \o AdvanceTo({"spec"}) \o AdvanceTo({"name"})
  \o <<Into("TypeExpression", "spec"), Need(Current({"{"})), Into("SpecBody", "spec"),
       Need(Current({"}"}))>>

ParseSpecBody ==
  <<New("properties", "PROPERTIES", Nothing), New("functions", "FUNCTIONS", Nothing),
    Add("node", "functions"), Add("node", "properties"), Advance,
    While(Not(Current({"}"})),
      <<If(Current({"modifier"}), <<Into("SpecFunction", "functions")>>,
          <<Need(Current({"name"})), Into("Property", "properties")>>),
        Advance>>)>>

ParseProperty ==
  <<New("property", "PROPERTY", "node"), Need(Current({"name"})),
    Into("TypeExpression", "property"), Need(Current({"name"})),
    New("name", "NAME", "property")>>
  \o AdvanceTo({"{"})
  \o <<Advance, Into("PropertyBody", "property"), Need(Current({"}"}))>>

ParsePropertyBody ==
  LET Accessor == Call(Nothing, "PropertyBodyFunction", [getter |-> "getter", setter |-> "setter"])
  IN  <<New("getter", "PROPERTY_FUNCTION", "node"), New("setter", "PROPERTY_FUNCTION", "node"),
        Accessor, Accessor,
        Need(Not(Childless("getter"))), Need(Not(Childless("setter")))>>

ParsePropertyBodyFunction ==
  <<If(Current({"}"}), <<Return(Nothing)>>, <<>>),
    Need(Current({"modifier"})), Advance,
    If(Current({"get"}), <<Let("node", "getter")>>,
       <<Need(Current({"set"})), Let("node", "setter")>>),
    Need(Childless("node")),
    New("modifier", "ACCESS_MODIFIER", "node"), Advance,
    If(Current({";"}), <<Advance, Return(Nothing)>>, <<>>),
    Into("BlockStatement", "node"), Advance>>

\* A constructor is named and typed by the parser, in a spec only.
ParseFunction(in_spec) ==
  <<New("function", "FUNCTION", "node"), Need(Current({"modifier"})),
    New("modifier", "ACCESS_MODIFIER", "function"), Advance,
    If(Current({"construct"}),
       (IF in_spec THEN <<>> ELSE <<Throw>>) \o <<New("type", "TYPE", "function")>>,
       <<Need(Current({"name"})), Into("TypeExpression", "function"),
         Need(Current({"name"}))>>),
    New("name", "NAME", "function")>>
  \o AdvanceTo({"("})
  \o <<Into("FunctionParameters", "function"), Need(Current({")"})), Advance,
       Into("BlockStatement", "function")>>

ParseFunctionParameters ==
  <<New("parameters", "FUNCTION_PARAMETERS", "node"), Advance,
    Unless(Current({")"}),
      <<Into("FunctionParameter", "parameters"), Advance,
        While(Not(Current({")"})),
          <<Need(Current({","})), Advance, Into("FunctionParameter", "parameters"), Advance>>)>>)>>

ParseFunctionParameter ==
  <<New("parameter", "FUNCTION_PARAMETER", "node"), Need(Current({"name"})),
    Into("TypeExpression", "parameter"), Need(Current({"name"})),
    New("name", "NAME", "parameter")>>

\* The arguments of a generic type are types.
ParseTypeExpression ==
  LET Argument == <<Need(Current({"name"})), Into("TypeExpression", "type")>>
  IN  <<New("type", "TYPE", "node"),
        If(NextIs({"<"}),
           <<Advance, Advance>> \o Argument
           \o <<While(Not(Current({">"})), <<Need(Current({","})), Advance>> \o Argument)>>,
           <<>>),
        Advance>>

-----------------------------------------------------------------------------
(***************************************************************************)
(* Statements.                                                             *)
(***************************************************************************)
ParseBlockStatement ==
  <<New("block", "BLOCK", "node"), Need(Current({"{"})), Advance,
    While(Not(Current({"}"})), <<Into("Statement", "block")>>),
    Need(Current({"}"}))>>

FaultParseStatement ==
  <<If(Current({"{"}), <<Into("BlockStatement", "node"), Advance>>,
    <<If(Current({"(", "name"}), <<Into("NameStatement", "node")>>,
      <<If(Current(Keywords), <<Into("KeywordStatement", "node")>>,
        <<Need(Current({";"}))>>)>>)>>)>>

ParseStatement ==
  <<If(Current({"{"}), <<Into("BlockStatement", "node"), Advance>>,
    <<If(Current({"(", "name"}), <<Into("NameStatement", "node")>>,
      <<Need(Current(Keywords)), Into("KeywordStatement", "node")>>)>>)>>

ParseKeywordStatement ==
  <<If(Current({"if"}), <<Into("IfStatement", "node")>>,
    <<If(Current({"while"}), <<Into("WhileStatement", "node")>>,
      <<If(Current({"for"}), <<Into("ForStatement", "node")>>,
        <<Need(Current({"return"})), Into("ReturnStatement", "node")>>)>>)>>)>>

ParseIfStatement ==
  <<Advance, New("if", "IF", "node"), Need(Current({"("})), Advance,
    Into("Expression", "if"), Need(Current({")"})), Advance,
    Into("BlockStatement", "if"), Advance, Into("ElIfStatement", "if")>>

\* An IF without an ELSE still gets a second block.
FaultParseElIfStatement ==
  <<Unless(Not(Current({"else"})),
      <<Advance,
        If(Current({"if"}), <<New("else", "BLOCK", "node"), Into("IfStatement", "else")>>,
           <<Into("BlockStatement", "node"), Advance>>)>>)>>

ParseElIfStatement ==
  <<If(Not(Current({"else"})), <<New("else", "BLOCK", "node")>>,
      <<Advance,
        If(Current({"if"}), <<New("else", "BLOCK", "node"), Into("IfStatement", "else")>>,
           <<Into("BlockStatement", "node"), Advance>>)>>)>>

\* The head of both loops: a WHILE is a FOR with only a condition.
LoopNodes ==
  <<New("loop", "FOR", "node"), New("init", "LOOP_INITIALIZE", "loop"),
    New("cond", "LOOP_CONDITION", "loop"), New("update", "LOOP_UPDATE", "loop"),
    Advance, Need(Current({"("})), Advance>>

LoopBody == <<Need(Current({")"})), Advance, Into("BlockStatement", "loop"), Advance>>

ParseWhileStatement == LoopNodes \o <<Into("Expression", "cond")>> \o LoopBody

ParseForStatement ==
  LoopNodes
  \o <<Unless(Current({";"}), <<Into("Expression", "init")>>), ParseSemicolon, Advance,
       Unless(Current({";"}), <<Into("Expression", "cond")>>), ParseSemicolon, Advance,
       Unless(Current({")"}), <<Into("Expression", "update")>>)>>
  \o LoopBody

ParseReturnStatement ==
  <<New("return", "RETURN", "node"), Advance,
    Unless(Current({";"}), <<Into("Expression", "return")>>), ParseSemicolon, Advance>>

\* The token after the statement is passed over, whatever it is.
ParseNameStatement ==
  <<Call("statement", "AssignExpressionA", NoArguments), Add("node", "statement"), Advance,
    Need(IsStatement("statement"))>>

-----------------------------------------------------------------------------
(***************************************************************************)
(* Expressions, from the loosest operators to the tightest.                *)
(***************************************************************************)
ParseExpression ==
  <<New("expression", "EXPRESSION", "node"), Call("value", "AssignExpressionA", NoArguments),
    Add("expression", "value")>>

\* f(g())
Feed(f, g) == <<Call("left", g, NoArguments), Call("result", f, [left |-> "left"]),
                Return("result")>>

ParseAssignExpressionA ==
  <<If(Current({"name"}),
       <<If(NextIs({"<-"}), Feed("AssignExpressionB", "VariableExpression"), <<>>)>>, <<>>)>>
  \o Feed("OrExpression", "AndExpressionA")

ParseAssignExpressionB ==
  <<If(Current({"<-"}), <<>>, <<Return("left")>>), Need(Assignable("left")),
    New("operation", "ASSIGN", Nothing)>>
  \o Try("operation",
       <<Advance, Add("operation", "left"), Call("right", "AssignExpressionA", NoArguments),
         Add("operation", "right")>>)
  \o <<Return("operation")>>

FaultOperation(operand) ==
  <<Advance, Call("right", operand, NoArguments), Add("operation", "right")>>

\* A left operand, an operator and a right operand, with the handler of the
\* operation on it.
Operation(operand) ==
  <<Advance, Add("operation", "left"), Call("right", operand, NoArguments),
    Add("operation", "right")>>

\* The rest of the chain runs outside the handler; the handler it has
\* deletes a pointer that is still NULL.
ParseOrExpression ==
  <<If(Current({"||"}), <<NewOperation("operation")>>, <<Return("left")>>)>>
  \o Try("operation", Operation("AndExpressionA"))
  \o <<Call("parent", "OrExpression", [left |-> "operation"]), Return("parent")>>

\* The B function of a level: more of its operators to the right of "left",
\* the rest of the chain inside the handler.
FaultLevel(operators, operand, level) ==
  <<If(Current(operators), <<NewOperation("operation")>>, <<Return("left")>>)>>
  \o Try("operation", <<Advance, Add("operation", "left"), Call("right", operand, NoArguments),
                        Call("parent", level, [left |-> "right"]), Add("operation", "parent")>>)
  \o <<Return("operation")>>

Level(operators, operand, level) ==
  <<If(Current(operators), <<NewOperation("operation")>>, <<Return("left")>>)>>
  \o Try("operation", Operation(operand) \o <<Call("parent", level, [left |-> "operation"])>>)
  \o <<Return("parent")>>

ParseAndExpressionA == Feed("AndExpressionB", "ComparisonExpressionA")
ParseAndExpressionB == Level({"&&"}, "ComparisonExpressionA", "AndExpressionB")

ParseComparisonExpressionA == Feed("ComparisonExpressionB", "PrimaryExpressionA")
ParseComparisonExpressionB ==
  Level({"=", "!=", "<", "<=", ">", ">="}, "PrimaryExpressionA", "ComparisonExpressionB")

ParsePrimaryExpressionA == Feed("PrimaryExpressionB", "SecondaryExpressionA")
ParsePrimaryExpressionB == Level({"+", "-"}, "SecondaryExpressionA", "PrimaryExpressionB")

ParseSecondaryExpressionA == Feed("SecondaryExpressionB", "TertiaryExpressionA")
ParseSecondaryExpressionB == Level({"*", "/", "%"}, "TertiaryExpressionA", "SecondaryExpressionB")

\* An assignment to what is not a plain variable starts here.  The check
\* after the handler looks for an ASSIGN, which a MEMBER is not.
ParseTertiaryExpressionA == Feed("TertiaryExpressionB", "InvertExpression")
ParseTertiaryExpressionB ==
  <<If(Current({"<-"}),
       <<Call("assign", "AssignExpressionB", [left |-> "left"]), Return("assign")>>, <<>>)>>
  \o Level({"."}, "InvertExpression", "TertiaryExpressionB")

\* -x is 0 - x, with a zero of any type.
ParseInvertExpression ==
  <<If(Current({"-", "!"}), <<NewOperation("invert")>>,
       <<Call("atom", "AtomicExpression", NoArguments), Return("atom")>>),
    If(Current({"-"}), <<New("zero", "ANY_TYPE", "invert")>>, <<>>)>>
  \o Try("invert", <<Advance, Call("operand", "InvertExpression", NoArguments),
                     Add("invert", "operand")>>)
  \o <<Return("invert")>>

FaultParseAtomicExpression ==
  <<If(Current({"("}), <<>>,
       <<Call("value", "ValueExpression", NoArguments), Return("value")>>),
    Advance, Call("inner", "AssignExpressionA", NoArguments),
    Need(Current({")"})), Advance, Return("inner")>>

ParseAtomicExpression ==
  <<If(Current({"("}), <<>>,
       <<Call("value", "ValueExpression", NoArguments), Return("value")>>),
    Advance, Call("inner", "AssignExpressionA", NoArguments),
    Unless(Current({")"}), <<Delete("inner"), Throw>>), Advance, Return("inner")>>

\* ParseValueExpression and the constants it calls: the value of a constant
\* is read before the token is passed over, its node made after.
Constant(rule) == <<Advance, New("constant", rule, Nothing), Return("constant")>>

ParseValueExpression ==
  LET Result(f) == <<Call("value", f, NoArguments), Return("value")>>
  IN  <<If(Current({"name"}), Result("NamedValueExpression"), <<>>),
        If(Current({"new"}), Result("NewExpression"), <<>>),
        If(Current({"default"}), Result("DefaultExpression"), <<>>),
        If(Current({"bool"}), Constant("BOOL"), <<>>),
        If(Current({"literal"}), Constant("LITERAL"), <<>>),
        If(Current({"string"}), Result("StringConstant"), <<>>),
        If(Current(Keywords), <<Advance>>, <<>>),
        Throw>>

ParseNamedValueExpression ==
  <<Need(NextIs(Symbols)),
    If(NextIs({"("}), <<Call("call", "CallExpression", NoArguments), Return("call")>>,
       <<Call("variable", "VariableExpression", NoArguments), Return("variable")>>)>>

ParseCallExpression ==
  <<New("call", "CALL", Nothing), New("name", "NAME", "call")>>
  \o Try("call", <<Advance, Advance, Into("CallParameters", "call"),
                   Need(Current({")"})), Advance>>)
  \o <<Return("call")>>

\* No handler: the node is deleted at each of the tests, and only there.
ParseNewExpression ==
  LET Test(S) == Unless(Current(S), <<Delete("new"), Throw>>)
  IN  <<New("new", "NEW", Nothing), Advance, Test({"name"}), Into("TypeExpression", "new"),
        Test({"("}), Advance, Into("CallParameters", "new"), Test({")"}), Advance,
        Return("new")>>

ParseDefaultExpression ==
  LET Test(S) == Unless(Current(S), <<Delete("default"), Throw>>)
  IN  <<New("default", "DEFAULT", Nothing), Advance, Test({"("}), Advance,
        Need(Current({"name"})), Into("TypeExpression", "default"), Test({")"}), Advance,
        Return("default")>>

ParseCallParameters ==
  <<New("parameters", "CALL_PARAMETERS", "node"),
    Unless(Current({")"}),
      <<Into("Expression", "parameters"),
        While(Not(Current({")"})),
          <<Need(Current({","})), Advance, Into("Expression", "parameters")>>)>>)>>

ParseVariableExpression ==
  <<New("variable", "SYMBOL", Nothing), New("name", "NAME", "variable")>>
  \o Try("variable", <<Advance>>) \o <<Return("variable")>>

ParseStringConstant ==
  <<New("string", "STRING", Nothing)>> \o Try("string", <<Advance>>) \o <<Return("string")>>

-----------------------------------------------------------------------------
\* The functions by name.
Code == [
  Module |-> ParseModule, PackageDeclaration |-> ParsePackageDeclaration,
  DependsStatements |-> ParseDependsStatements, DependsStatement |-> ParseDependsStatement,
  ModuleBody |-> ParseModuleBody, SpecDefinition |-> ParseSpecDefinition,
  SpecBody |-> ParseSpecBody, Property |-> ParseProperty, PropertyBody |-> ParsePropertyBody,
  PropertyBodyFunction |-> ParsePropertyBodyFunction,
  StaticFunction |-> ParseFunction(FALSE), SpecFunction |-> ParseFunction(TRUE),
  FunctionParameters |-> ParseFunctionParameters, FunctionParameter |-> ParseFunctionParameter,
  TypeExpression |-> ParseTypeExpression,
  BlockStatement |-> ParseBlockStatement, Statement |-> ParseStatement,
  KeywordStatement |-> ParseKeywordStatement, IfStatement |-> ParseIfStatement,
  ElIfStatement |-> ParseElIfStatement, WhileStatement |-> ParseWhileStatement,
  ForStatement |-> ParseForStatement, ReturnStatement |-> ParseReturnStatement,
  NameStatement |-> ParseNameStatement, Expression |-> ParseExpression,
  AssignExpressionA |-> ParseAssignExpressionA, AssignExpressionB |-> ParseAssignExpressionB,
  OrExpression |-> ParseOrExpression,
  AndExpressionA |-> ParseAndExpressionA, AndExpressionB |-> ParseAndExpressionB,
  ComparisonExpressionA |-> ParseComparisonExpressionA,
  ComparisonExpressionB |-> ParseComparisonExpressionB,
  PrimaryExpressionA |-> ParsePrimaryExpressionA, PrimaryExpressionB |-> ParsePrimaryExpressionB,
  SecondaryExpressionA |-> ParseSecondaryExpressionA,
  SecondaryExpressionB |-> ParseSecondaryExpressionB,
  TertiaryExpressionA |-> ParseTertiaryExpressionA,
  TertiaryExpressionB |-> ParseTertiaryExpressionB,
  InvertExpression |-> ParseInvertExpression, AtomicExpression |-> ParseAtomicExpression,
  ValueExpression |-> ParseValueExpression, NamedValueExpression |-> ParseNamedValueExpression,
  CallExpression |-> ParseCallExpression, NewExpression |-> ParseNewExpression,
  DefaultExpression |-> ParseDefaultExpression, CallParameters |-> ParseCallParameters,
  VariableExpression |-> ParseVariableExpression, StringConstant |-> ParseStringConstant]
=============================================================================
