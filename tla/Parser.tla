------------------------------- MODULE Parser -------------------------------
(***************************************************************************)
(* The parser at work: the call stack of its functions (ParserGrammar),    *)
(* the window of two tokens it sees of the lexer, the nodes it has         *)
(* allocated, and the exceptions that unwind it.                           *)
(*                                                                         *)
(* A node has no owner but the code: it belongs to a local variable until  *)
(* it is a child, and to its parent from then on; deleting a node deletes  *)
(* its children.  Every function that throws, or calls one that does,      *)
(* must therefore know which of its nodes nobody else will delete.         *)
(*                                                                         *)
(* A source is of one of the families of Sources: one of its starts, then  *)
(* up to "most" of its tokens, chosen as they are read, then one of its    *)
(* ends, then the end of the input.  The token "bad" is a text the lexer   *)
(* throws on.                                                              *)
(*                                                                         *)
(* An action is one instruction of the function on top of the stack, or    *)
(* the deletion or the unwinding of one thing.  Fault... definitions are   *)
(* slips the next definition could have had, as in ParserGrammar.          *)
(***************************************************************************)
EXTENDS ParserGrammar, AstShape, Integers, FiniteSets

CONSTANT
  Sources    (* the families, by name: records starts, tokens, ends, most   *)

EOF == "eof"
Bad == "bad"

ASSUME SourceAssumption ==
  \A f \in DOMAIN Sources :
    /\ Sources[f].starts \subseteq Seq(AllTokens) \ {<<>>}
    /\ Sources[f].tokens \subseteq AllTokens \cup {Bad}
    /\ Sources[f].ends \subseteq Seq(AllTokens)
    /\ Sources[f].most \in Nat

VARIABLES
  family,          (* the family of the source                              *)
  current, next,   (* the lexer's window; EOF is no token                   *)
  coming, free,    (* tokens that must come, and how many may be chosen     *)
                   (* before; free is -1 once the end has been chosen       *)
  nodes,           (* every node allocated: its rule and its children       *)
  stack,           (* the active functions, the innermost first             *)
  doomed,          (* nodes being deleted                                   *)
  fate,            (* what the parser is doing, or how it ended             *)
  cause            (* why it threw                                          *)

source == <<family, current, next, coming, free>>
vars == <<source, nodes, stack, doomed, fate, cause>>

-----------------------------------------------------------------------------
Frame(f, env) == [code |-> Code[f], env |-> env, handler |-> Nothing]

Init ==
  /\ current = EOF
  /\ family \in DOMAIN Sources
  /\ \E p \in Sources[family].starts : next = Head(p) /\ coming = Tail(p)
  /\ free = Sources[family].most
  /\ nodes = <<>>
  /\ stack = <<Frame("Module", NoArguments)>>
  /\ doomed = <<>>
  /\ fate = "parsing" /\ cause = "none"

Top == Head(stack)
Instruction == Head(Top.code)
Running(op) == fate = "parsing" /\ doomed = <<>> /\ Top.code # <<>> /\ Instruction[1] = op

Replace(frame) == stack' = <<frame>> \o Tail(stack)

\* Goes on after the instruction, with another environment.
Proceed(env) == Replace([Top EXCEPT !.code = Tail(@), !.env = env])

Node(v) == Top.env[v]
Assign(env, v, n) == [w \in DOMAIN env \cup {v} |-> IF w = v THEN n ELSE env[w]]
Bound(v, n) == Assign(Top.env, v, n)

ThrowFor(why) ==
  /\ fate' = "throwing" /\ cause' = why
  /\ UNCHANGED <<nodes, stack, doomed>>

-----------------------------------------------------------------------------
(***************************************************************************)
(* The tree.                                                               *)
(***************************************************************************)
Adopt(tree, p, c) == [tree EXCEPT ![p].kids = Append(@, c)]

Create(v, rule, p) ==
  LET n == Len(nodes) + 1
      grown == Append(nodes, [rule |-> rule, kids |-> <<>>])
  IN  /\ nodes' = IF p = Nothing THEN grown ELSE Adopt(grown, Node(p), n)
      /\ Proceed(Bound(v, n))
      /\ UNCHANGED <<source, doomed, fate, cause>>

DoNew == Running("new") /\ Create(Instruction[2], Instruction[3], Instruction[4])

DoOperation == Running("operation") /\ Create(Instruction[2], RuleOf[current], Nothing)

AddChild ==
  /\ Running("add")
  /\ nodes' = Adopt(nodes, Node(Instruction[2]), Node(Instruction[3]))
  /\ Proceed(Top.env)
  /\ UNCHANGED <<source, doomed, fate, cause>>

DoDelete ==
  /\ Running("delete")
  /\ doomed' = <<Node(Instruction[2])>>
  /\ Proceed(Top.env)
  /\ UNCHANGED <<source, nodes, fate, cause>>

\* ~Node: frees the node, then its children in order.  To free a node that
\* has been freed is undefined; the model stops there.
Freed == [rule |-> "freed", kids |-> <<>>]

FreeNode ==
  /\ doomed # <<>> /\ fate # "freed twice"
  /\ LET n == Head(doomed)
     IN  IF nodes[n] = Freed
         THEN fate' = "freed twice" /\ UNCHANGED <<nodes, doomed>>
         ELSE /\ doomed' = nodes[n].kids \o Tail(doomed)
              /\ nodes' = [nodes EXCEPT ![n] = Freed]
              /\ UNCHANGED fate
  /\ UNCHANGED <<source, stack, cause>>

-----------------------------------------------------------------------------
(***************************************************************************)
(* The window.                                                             *)
(***************************************************************************)
\* What the lexer reads next is t.
Lexed(t) ==
  \/ /\ coming # <<>> /\ t = Head(coming)
     /\ coming' = Tail(coming) /\ UNCHANGED free
  \/ /\ coming = <<>> /\ free > 0 /\ t \in Sources[family].tokens
     /\ free' = free - 1 /\ UNCHANGED coming
  \/ /\ coming = <<>> /\ free >= 0
     /\ \E s \in Sources[family].ends : t = Head(Append(s, EOF)) /\ coming' = Tail(Append(s, EOF))
     /\ free' = -1
  \/ coming = <<>> /\ free = -1 /\ t = EOF /\ UNCHANGED <<coming, free>>

FaultAdvanceNext ==
  /\ Running("advance")
  /\ current' = next /\ UNCHANGED family
  /\ \E t \in AllTokens \cup {Bad, EOF} :
       /\ Lexed(t)
       /\ next' = t
       /\ IF next = EOF THEN ThrowFor("end")
          ELSE Proceed(Top.env) /\ UNCHANGED <<nodes, doomed, fate, cause>>

\* AdvanceNext throws if the lexer does, and at the end of the input.
AdvanceNext ==
  /\ Running("advance")
  /\ current' = next /\ UNCHANGED family
  /\ \E t \in AllTokens \cup {Bad, EOF} :
       /\ Lexed(t)
       /\ next' = t
       /\ IF t = Bad THEN ThrowFor("lexer")
          ELSE IF next = EOF THEN ThrowFor("end")
          ELSE Proceed(Top.env) /\ UNCHANGED <<nodes, doomed, fate, cause>>

-----------------------------------------------------------------------------
(***************************************************************************)
(* Control.                                                                *)
(***************************************************************************)
RuleAt(v) == nodes[Node(v)].rule

\* The rule of the right side of the MEMBER v.
MemberRule(v) == nodes[nodes[Node(v)].kids[2]].rule

\* ParseAssignExpressionB's test of what is assigned to.
MayBeAssigned(v) ==
  RuleAt(v) = "SYMBOL" \/ (RuleAt(v) = "MEMBER" /\ MemberRule(v) # "CALL")

\* ParseNameStatement's test of what it has parsed.
MayBeStatement(v) ==
  RuleAt(v) \in {"CALL", "ASSIGN"} \/ (RuleAt(v) = "MEMBER" /\ MemberRule(v) = "CALL")

Test(c) ==
  CASE c[1] = "current" -> current \in c[2]
    [] c[1] = "next" -> next \in c[2]
    [] c[1] = "has next" -> next # EOF
    [] c[1] = "childless" -> nodes[Node(c[2])].kids = <<>>
    [] c[1] = "assignable" -> MayBeAssigned(c[2])
    [] c[1] = "statement" -> MayBeStatement(c[2])

Holds(c) == IF c[1] = "not" THEN ~Test(c[2]) ELSE Test(c)

\* NextToken throws at the end of the input.
Branch ==
  /\ Running("if")
  /\ UNCHANGED source
  /\ IF Instruction[2][1] = "next" /\ next = EOF
     THEN ThrowFor("end")
     ELSE LET taken == IF Holds(Instruction[2]) THEN Instruction[3] ELSE Instruction[4]
          IN  /\ Replace([Top EXCEPT !.code = taken \o Tail(@)])
              /\ UNCHANGED <<nodes, doomed, fate, cause>>

Loop ==
  /\ Running("while")
  /\ LET again == IF Holds(Instruction[2]) THEN Append(Instruction[3], Instruction) ELSE <<>>
     IN  Replace([Top EXCEPT !.code = again \o Tail(@)])
  /\ UNCHANGED <<source, nodes, doomed, fate, cause>>

DoLet ==
  /\ Running("let")
  /\ Proceed(Bound(Instruction[2], Node(Instruction[3])))
  /\ UNCHANGED <<source, nodes, doomed, fate, cause>>

\* try { and the } of its block.
SetHandler ==
  /\ \/ Running("try") /\ Replace([Top EXCEPT !.code = Tail(@), !.handler = Instruction[2]])
     \/ Running("end try") /\ Replace([Top EXCEPT !.code = Tail(@), !.handler = Nothing])
  /\ UNCHANGED <<source, nodes, doomed, fate, cause>>

DoCall ==
  /\ Running("call")
  /\ LET arguments == Instruction[4]
         env == [p \in DOMAIN arguments |-> Node(arguments[p])]
     IN  stack' = <<Frame(Instruction[3], env)>> \o stack
  /\ UNCHANGED <<source, nodes, doomed, fate, cause>>

\* The caller goes on after its call, with the result if there is one.
Resume(result) ==
  LET caller == stack[2]
      v == Head(caller.code)[2]
      env == IF v = Nothing THEN caller.env ELSE Assign(caller.env, v, result)
  IN  stack' = <<[caller EXCEPT !.code = Tail(@), !.env = env]>> \o Tail(Tail(stack))

DoReturn ==
  /\ fate = "parsing" /\ doomed = <<>>
  /\ \/ Top.code = <<>> /\ Resume(0) /\ UNCHANGED fate
     \/ /\ Running("return")
        /\ LET result == IF Instruction[2] = Nothing THEN 0 ELSE Node(Instruction[2])
           IN  IF Len(stack) = 1 THEN stack' = <<>> /\ fate' = "returned"
               ELSE Resume(result) /\ UNCHANGED fate
  /\ UNCHANGED <<source, nodes, doomed, cause>>

DoThrow == Running("throw") /\ ThrowFor("syntax") /\ UNCHANGED source

\* The exception leaves the innermost function, through its handler.
Unwind ==
  /\ fate = "throwing" /\ doomed = <<>>
  /\ IF stack = <<>>
     THEN fate' = "threw" /\ UNCHANGED <<stack, doomed>>
     ELSE /\ doomed' = IF Top.handler = Nothing THEN <<>> ELSE <<Node(Top.handler)>>
          /\ stack' = Tail(stack)
          /\ UNCHANGED fate
  /\ UNCHANGED <<source, nodes, cause>>

Next ==
  \/ DoNew \/ DoOperation \/ AddChild \/ DoDelete \/ FreeNode
  \/ AdvanceNext \/ Branch \/ Loop \/ DoLet \/ SetHandler
  \/ DoCall \/ DoReturn \/ DoThrow \/ Unwind

\* The parser is a function its caller waits for: it keeps running.
Spec == Init /\ [][Next]_vars /\ WF_vars(Next)

-----------------------------------------------------------------------------
Window == AllTokens \cup {EOF, Bad}
Rules == Operand \cup Statement \cup
  {"MODULE", "NAME", "DEPENDS", "SPECS", "SPEC", "FUNCTIONS", "FUNCTION", "ACCESS_MODIFIER", "TYPE",
   "FUNCTION_PARAMETERS", "FUNCTION_PARAMETER", "PROPERTIES", "PROPERTY", "PROPERTY_FUNCTION",
   "LOOP_INITIALIZE", "LOOP_CONDITION", "LOOP_UPDATE", "EXPRESSION", "CALL_PARAMETERS", "freed"}

\* The variables have the types the code declares: a node's children and a
\* function's variables are nodes that were allocated, the rule of a node is
\* one of NodeRule, and only an exception leaves the window broken.
TypeOK ==
  /\ current \in Window \ {Bad} /\ next \in Window
  /\ next = Bad => cause = "lexer"
  /\ \A n \in DOMAIN nodes :
       /\ nodes[n].rule \in Rules
       /\ \A i \in DOMAIN nodes[n].kids : nodes[n].kids[i] \in DOMAIN nodes
  /\ \A i \in DOMAIN stack :
       /\ \A v \in DOMAIN stack[i].env : stack[i].env[v] \in DOMAIN nodes
       /\ stack[i].handler = Nothing \/ stack[i].handler \in DOMAIN stack[i].env
  /\ \A i \in DOMAIN doomed : doomed[i] \in DOMAIN nodes
  /\ fate \in {"parsing", "throwing", "returned", "threw", "freed twice"}
  /\ cause \in {"none", "syntax", "end", "lexer"}
  /\ fate = "parsing" <=> stack # <<>> /\ cause = "none"

Live == {n \in DOMAIN nodes : nodes[n] # Freed}
Returned == fate = "returned"

\* The tree Parse returns has everything it allocated: every node but the
\* root is the child of exactly one live node, once, so that deleting the
\* root deletes each node once.
Places(n) ==
  {place \in Live \X (1 .. Len(nodes)) :
     LET kids == nodes[place[1]].kids IN place[2] \in DOMAIN kids /\ kids[place[2]] = n}

TreeIsWhole ==
  Returned => /\ \A n \in Live : Cardinality(Places(n)) = IF n = 1 THEN 0 ELSE 1
              /\ \A p \in Live, n \in DOMAIN nodes \ Live : \A i \in DOMAIN nodes[p].kids : nodes[p].kids[i] # n

\* Every tree Parse returns has the shape AstWalker takes for granted: the
\* children it indexes exist and have the rules it expects.
TreeFitsTheWalkers ==
  Returned => \A n \in Live : /\ DeclarationFits(nodes, n) /\ PropertyFits(nodes, n)
                              /\ StatementFits(nodes, n) /\ ExpressionFits(nodes, n)

\* Operators bind as the levels of the grammar say, however they follow each
\* other: an operand on the left binds at least as tightly as its operator,
\* one on the right more tightly, so that a chain is grouped from the left.
Strength(n) ==
  CASE nodes[n].rule = "LOGOR" -> 1
    [] nodes[n].rule = "LOGAND" -> 2
    [] nodes[n].rule \in {"EQUALS", "NOT_EQUALS", "LESS", "LESS_EQUALS", "GREATER", "GREATER_EQUALS"} -> 3
    [] nodes[n].rule \in {"ADD", "SUB"} /\ KidRules(nodes, n)[1] # "ANY_TYPE" -> 4
    [] nodes[n].rule \in {"MUL", "DIV", "MOD"} -> 5
    [] nodes[n].rule = "MEMBER" -> 6
    [] OTHER -> 7

OperatorsBind ==
  Returned => \A n \in Live : LET kids == nodes[n].kids
                              IN  Strength(n) < 7 => /\ Strength(kids[1]) >= Strength(n)
                                                     /\ Strength(kids[2]) > Strength(n)

\* Nothing is deleted twice, whatever handlers an exception passes on its
\* way out.
NothingFreedTwice == fate # "freed twice"

\* When Parse throws because a token is not the one it needs, every node has
\* been deleted, once.
SyntaxErrorsAreClean ==
  /\ NothingFreedTwice
  /\ fate = "threw" /\ cause = "syntax" => Live = {}

\* Parse returns or throws, whatever the source.
ParsingEnds == <>(fate \in {"returned", "threw", "freed twice"})
=============================================================================
