---------------------------- MODULE ControlFlow ----------------------------
(***************************************************************************)
(* The jumps of one function: WalkIfStatementChildren and                  *)
(* WalkForStatementChildren of compiler/lirgen_ast_walker.cc emit branches *)
(* whose target is not known yet, walk the blocks between, which may hold  *)
(* more of them, and set the targets on the way out.  Then the function    *)
(* runs.                                                                   *)
(*                                                                         *)
(* The generator's recursion is a stack of what each of its activations    *)
(* still has to do.  An expression, a call or an assignment is one         *)
(* instruction, "do"; a bare block stands for its statements, and what it  *)
(* does to scopes is the subject of ScopeWalk.  "means" says of each       *)
(* instruction which statements are left when execution is there; it is    *)
(* written from the tree alone, never from a target, and no guard reads it.*)
(***************************************************************************)
EXTENDS Statements

CONSTANTS
  Statement,   \* the statements a function is made of, at any depth
  Bodies       \* the bodies of functions: sequences of them

ASSUME BodiesAssumption ==
  /\ Bodies \subseteq Seq(Statement)
  /\ \A s \in Statement :
       /\ s.op \in {"do", "return", "if", "for"}
       /\ s.op = "if" => s.then \in Seq(Statement) /\ s.else \in Seq(Statement)
       /\ s.op = "for" =>
            /\ s.tested \in BOOLEAN
            /\ {s.init, s.update, s.body} \subseteq Seq(Statement)
            /\ \A i \in DOMAIN s.init : s.init[i].op = "do"

VARIABLES
  body,     \* the statements of the function
  phase,    \* "generate", "run", "returned"
  work,     \* what the activations of the walk have left to do, innermost first
  code,     \* the instructions in the fragment: op, id, target
  means,    \* history: the statements left at each instruction
  pc,       \* the instruction the function is about to execute
  is_zero,  \* the result of the last comparison of a condition with zero
  effect    \* the last effect of the function

gen_vars == <<work, code, means>>
run_vars == <<pc, is_zero, effect>>
vars == <<body, phase, gen_vars, run_vars>>

-----------------------------------------------------------------------------
(***************************************************************************)
(* The generator.                                                          *)
(***************************************************************************)

\* An activation is at a step of the walk of a node, holds on to a jump whose
\* target is not set (0 for none) and to a label, and knows what comes after
\* the node.
Task(step, node, jump, label, rest) ==
  [step |-> step, node |-> node, jump |-> jump, label |-> label, rest |-> rest]

\* WalkBlockChildren, or the walk of an optional clause.
Walk(block, rest) ==
  [i \in DOMAIN block |->
     Task(block[i].op, block[i], 0, 0, SubSeq(block, i + 1, Len(block)) \o rest)]

\* A jump to 0 has no target yet.
Ins(op, id) == [op |-> op, id |-> id, target |-> 0]
Jump(label) == [op |-> "j", id |-> "", target |-> label]
Label == Ins("label", "")
SetTarget(instructions, jump, label) == [instructions EXCEPT ![jump].target = label]

\* What is left at an instruction that is no conditional jump, and at one:
\* if it falls through, and if it jumps.
At(left) == [falls |-> left, jumps |-> left]
Fork(s, rest) ==
  [falls |-> Chosen(s, "true", rest), jumps |-> Chosen(s, "false", rest)]

Init ==
  /\ body \in Bodies
  /\ phase = "generate"
  /\ work = Walk(body, <<Default>>)
  /\ code = <<>>
  /\ means = <<>>
  /\ pc = 1
  /\ is_zero = FALSE
  /\ effect = Nothing

Top == work[1]
Here == Len(code)

\* The innermost activation takes a step: it goes on with "next".
Takes(step, next) ==
  /\ phase = "generate"
  /\ work # <<>>
  /\ Top.step = step
  /\ work' = next \o Tail(work)
  /\ UNCHANGED <<body, phase, run_vars>>

\* A call, an assignment, the init or update of a FOR; and WalkReturn.
GenDo ==
  /\ Takes("do", <<>>)
  /\ code' = Append(code, Ins("do", Top.node.id))
  /\ means' = Append(means, At(<<Top.node>> \o Top.rest))
GenReturn ==
  /\ Takes("return", <<>>)
  /\ code' = Append(code, Ins("ret", Top.node.id))
  /\ means' = Append(means, At(<<Top.node>> \o Top.rest))

\* WalkIfStatementChildren: jump to the false block if the condition is zero,
\* and then the true block;
GenIf ==
  /\ Takes("if", Walk(Top.node.then, Top.rest)
                   \o <<Task("else", Top.node, Here + 2, 0, Top.rest)>>)
  /\ code' = code \o <<Ins("eqi", Top.node.id), Ins("jt", "")>>
  /\ means' = means \o <<At(<<Top.node>> \o Top.rest), Fork(Top.node, Top.rest)>>

\* jump over the false block, which begins where the first jump goes;
FaultGenElse ==
  /\ Takes("else", Walk(Top.node.else, Top.rest)
                     \o <<Task("end_if", Top.node, Here + 2, 0, Top.rest)>>)
  /\ code' = SetTarget(code \o <<Label, Jump(0)>>, Top.jump, Here + 1)
  /\ means' = means \o <<At(Open(Top.node.else \o Top.rest)), At(Open(Top.rest))>>
GenElse ==
  /\ Takes("else", Walk(Top.node.else, Top.rest)
                     \o <<Task("end_if", Top.node, Here + 1, 0, Top.rest)>>)
  /\ code' = SetTarget(code \o <<Jump(0), Label>>, Top.jump, Here + 2)
  /\ means' = means \o <<At(Open(Top.rest)), At(Open(Top.node.else \o Top.rest))>>

\* and the end, where the second one goes.
FaultGenEndIf ==
  /\ Takes("end_if", <<>>)
  /\ code' = Append(code, Label)
  /\ means' = Append(means, At(Open(Top.rest)))
GenEndIf ==
  /\ Takes("end_if", <<>>)
  /\ code' = SetTarget(Append(code, Label), Top.jump, Here + 1)
  /\ means' = Append(means, At(Open(Top.rest)))

\* WalkForStatementChildren: the init;
GenFor ==
  /\ Takes("for", Walk(Top.node.init, <<Loop(Top.node)>> \o Top.rest)
                    \o <<Task("loop", Top.node, 0, 0, Top.rest)>>)
  /\ UNCHANGED <<code, means>>

\* a label and, if there is a condition, a jump out of the loop if it is zero;
\* the body, and after it the update;
GenLoop ==
  LET again == <<Loop(Top.node)>> \o Top.rest
      tested == Top.node.tested
  IN
  /\ Takes("loop", Walk(Top.node.body, Top.node.update \o again)
                     \o Walk(Top.node.update, again)
                     \o <<Task("end_for", Top.node, IF tested THEN Here + 3 ELSE 0,
                               Here + 1, Top.rest)>>)
  /\ code' = code \o (IF tested THEN <<Label, Ins("eqi", Top.node.id), Ins("jt", "")>>
                      ELSE <<Label>>)
  /\ means' = means \o (IF tested THEN <<At(again), At(again), Fork(Loop(Top.node), Top.rest)>>
                        ELSE <<At(again)>>)

\* and the jump back to the label, with a label for the way out, if any.
GenEndFor ==
  /\ Takes("end_for", <<>>)
  /\ IF Top.jump = 0
     THEN /\ code' = Append(code, Jump(Top.label))
          /\ means' = Append(means, At(<<Loop(Top.node)>> \o Top.rest))
     ELSE /\ code' = SetTarget(code \o <<Jump(Top.label), Label>>, Top.jump, Here + 2)
          /\ means' = means \o <<At(<<Loop(Top.node)>> \o Top.rest), At(Open(Top.rest))>>

\* WalkFunctionChildren ends every function with a default return.
GenEnd ==
  /\ phase = "generate"
  /\ work = <<>>
  /\ code' = Append(code, Ins("ret", Default.id))
  /\ means' = Append(means, At(<<Default>>))
  /\ phase' = "run"
  /\ UNCHANGED <<body, work, run_vars>>

Generate ==
  \/ GenDo \/ GenReturn \/ GenIf \/ GenElse \/ GenEndIf \/ GenFor \/ GenLoop
  \/ GenEndFor \/ GenEnd

-----------------------------------------------------------------------------
(***************************************************************************)
(* The function runs.                                                      *)
(***************************************************************************)
Runs(op) ==
  /\ phase = "run"
  /\ code[pc].op = op
  /\ UNCHANGED <<body, gen_vars>>

RunDo ==
  /\ Runs("do")
  /\ effect' = After(effect, code[pc].id, "done")
  /\ pc' = pc + 1
  /\ UNCHANGED <<phase, is_zero>>
RunReturn ==
  /\ Runs("ret")
  /\ effect' = After(effect, code[pc].id, "return")
  /\ phase' = "returned"
  /\ UNCHANGED <<pc, is_zero>>

\* The condition may come out either way; LIR_eqi compares it with zero.
RunEqi ==
  /\ Runs("eqi")
  /\ \E out \in {"true", "false"} :
       /\ effect' = After(effect, code[pc].id, out)
       /\ is_zero' = (out = "false")
  /\ pc' = pc + 1
  /\ UNCHANGED phase
RunJt ==
  /\ Runs("jt")
  /\ pc' = IF is_zero THEN code[pc].target ELSE pc + 1
  /\ UNCHANGED <<phase, is_zero, effect>>
RunJ ==
  /\ Runs("j")
  /\ pc' = code[pc].target
  /\ UNCHANGED <<phase, is_zero, effect>>
RunLabel ==
  /\ Runs("label")
  /\ pc' = pc + 1
  /\ UNCHANGED <<phase, is_zero, effect>>

Run == RunDo \/ RunReturn \/ RunEqi \/ RunJt \/ RunJ \/ RunLabel

Next == Generate \/ Run

Fairness == WF_vars(Next)
Spec == Init /\ [][Next]_vars /\ Fairness

-----------------------------------------------------------------------------
(***************************************************************************)
(* Properties.                                                             *)
(***************************************************************************)
IsJump(instruction) == instruction.op \in {"jt", "j"}

\* A target that is set is that of a label, and every jump whose target is not
\* set is in the hands of an activation, which will; so that when the function
\* is run, no jump is left without a target, however IF and FOR are nested.
\* (insBranch with a NULL target and setTarget, lirgen_ast_walker.cc.)
JumpsAreClosed ==
  /\ \A i \in DOMAIN code :
       IsJump(code[i]) =>
         IF code[i].target = 0 THEN \E k \in DOMAIN work : work[k].jump = i
         ELSE code[i].target \in DOMAIN code /\ code[code[i].target].op = "label"
  /\ phase # "generate" => work = <<>>

\* The code does what the statements say: the same calls, assignments,
\* conditions and return in the same order, whatever the conditions come to,
\* and no execution stops before it returns.
\* (The two functions that emit jumps, and the default return.)
Left ==
  CASE phase = "generate" -> Whole(body)
    [] phase = "returned" -> <<>>
    [] phase = "run" ->
         IF code[pc].op = "jt" /\ is_zero THEN means[pc].jumps ELSE means[pc].falls
Meaning == INSTANCE Structured WITH todo <- Left
ImplementsStatements == Meaning!Spec
=============================================================================
