------------------------------ MODULE AstShape ------------------------------
(***************************************************************************)
(* What AstWalker expects of the tree it is given: for each rule of a      *)
(* node, how many children it reads and of which rules.  Debug builds      *)
(* assert most of this, release builds index the children regardless.      *)
(* A definition is about the node n of the tree "nodes", a sequence of     *)
(* records with a rule and the numbers of the children.                    *)
(***************************************************************************)
EXTENDS Naturals, Sequences

Rule(nodes, n) == nodes[n].rule

\* The rules of the children of n, in order.
KidRules(nodes, n) == [i \in DOMAIN nodes[n].kids |-> Rule(nodes, nodes[n].kids[i])]

AllKids(nodes, n, rules) == \A i \in DOMAIN nodes[n].kids : KidRules(nodes, n)[i] \in rules

Binary == {"ADD", "SUB", "MUL", "DIV", "MOD", "LOGAND", "LOGOR", "GREATER", "EQUALS",
           "NOT_EQUALS", "LESS", "GREATER_EQUALS", "LESS_EQUALS"}

\* What WalkSubExpressionChildren and the atoms after it handle.
Operand ==
  Binary \cup {"CALL", "ASSIGN", "NEW", "MEMBER", "DEFAULT", "LOGNOT", "BOOL", "LITERAL",
               "STRING", "SYMBOL", "ANY_TYPE"}

\* What WalkBlockChildren handles.
Statement == {"CALL", "IF", "FOR", "ASSIGN", "RETURN", "MEMBER", "BLOCK"}

DeclarationFits(nodes, n) ==
  LET kids == KidRules(nodes, n)
  IN  CASE Rule(nodes, n) = "MODULE" -> kids = <<"NAME", "DEPENDS", "SPECS", "FUNCTIONS">>
        [] Rule(nodes, n) = "DEPENDS" -> AllKids(nodes, n, {"NAME"})
        [] Rule(nodes, n) = "SPECS" -> AllKids(nodes, n, {"SPEC"})
        [] Rule(nodes, n) = "SPEC" ->
             kids = <<"ACCESS_MODIFIER", "TYPE", "FUNCTIONS", "PROPERTIES">>
        [] Rule(nodes, n) = "FUNCTIONS" -> AllKids(nodes, n, {"FUNCTION"})
        [] Rule(nodes, n) = "FUNCTION" ->
             kids = <<"ACCESS_MODIFIER", "TYPE", "NAME", "FUNCTION_PARAMETERS", "BLOCK">>
        [] Rule(nodes, n) = "FUNCTION_PARAMETERS" -> AllKids(nodes, n, {"FUNCTION_PARAMETER"})
        [] Rule(nodes, n) = "FUNCTION_PARAMETER" -> kids = <<"TYPE", "NAME">>
        [] Rule(nodes, n) = "PROPERTIES" -> AllKids(nodes, n, {"PROPERTY"})
        [] Rule(nodes, n) = "TYPE" -> AllKids(nodes, n, {"TYPE"})
        [] OTHER -> TRUE

PropertyFits(nodes, n) ==
  LET kids == KidRules(nodes, n)
  IN  CASE Rule(nodes, n) = "PROPERTY" ->
             kids = <<"TYPE", "NAME", "PROPERTY_FUNCTION", "PROPERTY_FUNCTION">>
        [] Rule(nodes, n) = "PROPERTY_FUNCTION" ->
             kids \in {<<"ACCESS_MODIFIER">>, <<"ACCESS_MODIFIER", "BLOCK">>}
        [] OTHER -> TRUE

StatementFits(nodes, n) ==
  LET kids == KidRules(nodes, n)
  IN  CASE Rule(nodes, n) = "BLOCK" -> AllKids(nodes, n, Statement)
        [] Rule(nodes, n) = "IF" -> kids = <<"EXPRESSION", "BLOCK", "BLOCK">>
        [] Rule(nodes, n) = "FOR" ->
             kids = <<"LOOP_INITIALIZE", "LOOP_CONDITION", "LOOP_UPDATE", "BLOCK">>
        [] Rule(nodes, n) \in {"LOOP_INITIALIZE", "LOOP_CONDITION", "LOOP_UPDATE", "RETURN"} ->
             kids \in {<<>>, <<"EXPRESSION">>}
        [] OTHER -> TRUE

ExpressionFits(nodes, n) ==
  LET kids == KidRules(nodes, n)
  IN  CASE Rule(nodes, n) = "EXPRESSION" -> Len(kids) = 1 /\ AllKids(nodes, n, Operand)
        [] Rule(nodes, n) \in Binary -> Len(kids) = 2 /\ AllKids(nodes, n, Operand)
        [] Rule(nodes, n) = "ASSIGN" ->
             Len(kids) = 2 /\ kids[1] \in {"SYMBOL", "MEMBER"} /\ kids[2] \in Operand
        [] Rule(nodes, n) = "LOGNOT" -> Len(kids) = 1 /\ AllKids(nodes, n, Operand)
        [] Rule(nodes, n) = "CALL" -> kids = <<"NAME", "CALL_PARAMETERS">>
        [] Rule(nodes, n) = "NEW" -> kids = <<"TYPE", "CALL_PARAMETERS">>
        [] Rule(nodes, n) = "DEFAULT" -> kids = <<"TYPE">>
        [] Rule(nodes, n) = "CALL_PARAMETERS" -> AllKids(nodes, n, {"EXPRESSION"})
        [] Rule(nodes, n) = "SYMBOL" -> kids = <<"NAME">>
        [] OTHER -> TRUE
=============================================================================
