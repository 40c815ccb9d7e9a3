----------------------------- MODULE Structured -----------------------------
(***************************************************************************)
(* What the statements of a function promise: an execution is a sequence   *)
(* of effects, and what is left to do is again a sequence of statements.   *)
(* There are no instructions here, no labels and no jumps.                 *)
(***************************************************************************)
EXTENDS Statements

CONSTANT Bodies   \* the bodies of functions: sequences of statements

VARIABLES
  body,    \* the statements of the function
  todo,    \* the statements left to execute
  effect   \* the last effect: whose, and how it came out

Init ==
  /\ body \in Bodies
  /\ todo = Whole(body)
  /\ effect = Nothing

Next1 == todo[1]

Do ==
  /\ Next1.op = "do"
  /\ effect' = After(effect, Next1.id, "done")
  /\ todo' = Open(Tail(todo))

Return ==
  /\ Next1.op = "return"
  /\ effect' = After(effect, Next1.id, "return")
  /\ todo' = <<>>

Choose ==
  /\ Next1.op = "if" \/ (Next1.op = "loop" /\ Next1.tested)
  /\ \E out \in {"true", "false"} :
       /\ effect' = After(effect, Next1.id, out)
       /\ todo' = Chosen(Next1, out, Tail(todo))

\* A loop that has no condition goes round.
GoRound ==
  /\ Next1.op = "loop" /\ ~Next1.tested
  /\ todo' = Chosen(Next1, "true", Tail(todo))
  /\ UNCHANGED effect

Next ==
  /\ todo # <<>>
  /\ Do \/ Return \/ Choose \/ GoRound
  /\ UNCHANGED body

vars == <<body, todo, effect>>
SafeSpec == Init /\ [][Next]_vars

\* Execution does not stop before the function returns.
Spec == SafeSpec /\ WF_vars(Next)
=============================================================================
