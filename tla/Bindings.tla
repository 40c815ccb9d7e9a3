------------------------------ MODULE Bindings ------------------------------
(***************************************************************************)
(* What a symbol table promises its users, without scopes as maps and      *)
(* without a search loop: a set of live bindings, each made at some depth. *)
(* A key has at most one binding per depth; the deepest one is the answer  *)
(* to a lookup; leaving a depth forgets its bindings.                      *)
(***************************************************************************)
EXTENDS Naturals

CONSTANTS Keys, Values, NoKey

VARIABLES
  depth,     (* how many scopes are open                                    *)
  bindings,  (* the live bindings: records of depth, key and value          *)
  asked,     (* the key being looked up, or NoKey                           *)
  answer     (* how the last operation ended                                *)

vars == <<depth, bindings, asked, answer>>

Of(k) == {b \in bindings : b.key = k}

Succeeds == answer' = [status |-> "ok"]
Fails(why) == answer' = [status |-> why] /\ UNCHANGED <<depth, bindings>>

Init ==
  /\ depth = 1
  /\ bindings = {}
  /\ asked = NoKey
  /\ answer = [status |-> "ok"]

Enter == depth' = depth + 1 /\ Succeeds /\ UNCHANGED <<bindings, asked>>

Leave ==
  /\ \/ /\ depth > 1
        /\ depth' = depth - 1
        /\ bindings' = {b \in bindings : b.depth < depth}
        /\ Succeeds
     \/ depth = 1 /\ Fails("bottom_of_stack")
  /\ UNCHANGED asked

\* Bind k at depth d, unless it is bound there.
Declare(d, k, v) ==
  /\ \/ /\ \A b \in Of(k) : b.depth # d
        /\ bindings' = bindings \cup {[depth |-> d, key |-> k, value |-> v]}
        /\ Succeeds
        /\ UNCHANGED depth
     \/ (\E b \in Of(k) : b.depth = d) /\ Fails("duplicate")
  /\ UNCHANGED asked

\* The answer to a lookup of k among the bindings B.
Answers(k, B) ==
  IF B = {} THEN {[status |-> "undefined", key |-> k]}
  ELSE {[status |-> "found", key |-> k, value |-> b.value] :
          b \in {b \in B : \A c \in B : c.depth <= b.depth}}

LookupHere(k) ==
  /\ answer' \in Answers(k, {b \in Of(k) : b.depth = depth})
  /\ UNCHANGED <<depth, bindings, asked>>

Ask(k) ==
  /\ asked' = k
  /\ answer' = [status |-> "running"]
  /\ UNCHANGED <<depth, bindings>>

Answer ==
  /\ asked # NoKey
  /\ asked' = NoKey
  /\ answer' \in Answers(asked, Of(asked))
  /\ UNCHANGED <<depth, bindings>>

Next ==
  \/ Answer
  \/ /\ asked = NoKey
     /\ \/ Enter
        \/ Leave
        \/ \E k \in Keys, v \in Values, d \in {1, depth} : Declare(d, k, v)
        \/ \E k \in Keys : LookupHere(k) \/ Ask(k)

Spec == Init /\ [][Next]_vars
=============================================================================
