----------------------------- MODULE Statements -----------------------------
(***************************************************************************)
(* The statements of a function and what they come to.  A statement is a   *)
(* record:                                                                 *)
(*   op "do"      a call or an assignment, named by its id;                *)
(*   op "return"  a return;                                                *)
(*   op "if"      a condition, id, and the sequences "then" and "else";    *)
(*   op "for"     the sequences "init" and "update", of one expression or  *)
(*                none, whether there is a condition, "tested", and "body";*)
(*   op "loop"    a FOR whose init has been done.                          *)
(***************************************************************************)
EXTENDS Naturals, Sequences

Loop(s) ==
  [op |-> "loop", id |-> s.id, tested |-> s.tested, update |-> s.update, body |-> s.body]

\* At the end of a function is a return nobody wrote.
Default == [op |-> "return", id |-> "default"]

\* A FOR is its init, and a loop.
Open(statements) ==
  IF statements # <<>> /\ statements[1].op = "for"
  THEN statements[1].init \o <<Loop(statements[1])>> \o Tail(statements)
  ELSE statements

Whole(body) == Open(body \o <<Default>>)

\* An effect, told apart from the one before it even if it is the same again.
After(effect, id, out) == [id |-> id, out |-> out, turn |-> 1 - effect.turn]
Nothing == [id |-> "", out |-> "", turn |-> 0]

\* What is left once the condition of the IF or loop s came out, before rest.
Chosen(s, out, rest) ==
  CASE s.op = "if" /\ out = "true"    -> Open(s.then \o rest)
    [] s.op = "if" /\ out = "false"   -> Open(s.else \o rest)
    [] s.op = "loop" /\ out = "true"  -> Open(s.body \o s.update \o <<s>> \o rest)
    [] s.op = "loop" /\ out = "false" -> Open(rest)
=============================================================================
