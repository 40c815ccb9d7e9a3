---------------------------- MODULE SymbolTable ----------------------------
(***************************************************************************)
(* compiler/symbol_table.cc: one SymbolTable driven by any sequence of     *)
(* calls.  Put, PutBottom, Push and Pop are one step each; Get is the      *)
(* code's loop, one step per scope it looks into.  A definition named      *)
(* Fault... is a slip the next one could have had; it is used only to see  *)
(* that the properties would notice it.                                    *)
(***************************************************************************)
EXTENDS ScopedTable

CONSTANTS
  Keys,      (* the strings used as keys                                    *)
  Values,    (* the values associated with them                             *)
  MaxDepth,  (* bound on the number of open scopes, for model checking      *)
  NoKey      (* "no Get is running"                                         *)

ASSUME BoundsAssumption == MaxDepth \in Nat \ {0} /\ NoKey \notin Keys

VARIABLES
  map_vector,  (* map_vector_: the scopes, innermost last                   *)
  key,         (* the key of the running Get, or NoKey                      *)
  i,           (* the loop variable of Get: it looks into scope i           *)
  outcome      (* how the last call ended                                   *)

vars == <<map_vector, key, i, outcome>>

Scopes == UNION {[K -> Values] : K \in SUBSET Keys}
Outcomes ==
  [status : {"ok", "running", "duplicate", "bottom_of_stack"}]
    \cup [status : {"undefined"}, key : Keys]
    \cup [status : {"found"}, key : Keys, value : Values]

Ok == [status |-> "ok"]

Idle == key = NoKey

\* The constructor pushes the one scope that can never be popped.
Init ==
  /\ map_vector = Push(<<>>)
  /\ key = NoKey
  /\ i = 0
  /\ outcome = Ok

DoPush ==
  /\ Idle
  /\ Len(map_vector) < MaxDepth
  /\ map_vector' = Push(map_vector)
  /\ outcome' = Ok
  /\ UNCHANGED <<key, i>>

DoPop ==
  /\ Idle
  /\ IF CanPop(map_vector)
     THEN map_vector' = Pop(map_vector) /\ outcome' = Ok
     ELSE UNCHANGED map_vector /\ outcome' = [status |-> "bottom_of_stack"]
  /\ UNCHANGED <<key, i>>

DoPut(k, v) ==
  /\ Idle
  /\ IF InTop(map_vector, k)
     THEN UNCHANGED map_vector /\ outcome' = [status |-> "duplicate"]
     ELSE map_vector' = Put(map_vector, k, v) /\ outcome' = Ok
  /\ UNCHANGED <<key, i>>

DoPutBottom(k, v) ==
  /\ Idle
  /\ IF k \in DOMAIN map_vector[1]
     THEN UNCHANGED map_vector /\ outcome' = [status |-> "duplicate"]
     ELSE map_vector' = PutBottom(map_vector, k, v) /\ outcome' = Ok
  /\ UNCHANGED <<key, i>>

DoGetTopOnly(k) ==
  /\ Idle
  /\ outcome' = IF InTop(map_vector, k)
                THEN [status |-> "found", key |-> k,
                      value |-> map_vector[Len(map_vector)][k]]
                ELSE [status |-> "undefined", key |-> k]
  /\ UNCHANGED <<map_vector, key, i>>

\* The loop starts one above the index it reads, because the index is
\* unsigned, and stops when i is zero.
FirstIndex == Len(map_vector)

GetStart(k) ==
  /\ Idle
  /\ key' = k
  /\ i' = FirstIndex
  /\ outcome' = [status |-> "running"]
  /\ UNCHANGED map_vector

GetHit ==
  /\ ~Idle
  /\ i > 0
  /\ key \in DOMAIN map_vector[i]
  /\ outcome' = [status |-> "found", key |-> key, value |-> map_vector[i][key]]
  /\ key' = NoKey
  /\ i' = 0
  /\ UNCHANGED map_vector

GetMiss ==
  /\ ~Idle
  /\ i > 0
  /\ key \notin DOMAIN map_vector[i]
  /\ i' = i - 1
  /\ UNCHANGED <<map_vector, key, outcome>>

FaultGetWraps == ~Idle /\ i = 0 /\ UNCHANGED vars
GetThrow ==
  /\ ~Idle
  /\ i = 0
  /\ outcome' = [status |-> "undefined", key |-> key]
  /\ key' = NoKey
  /\ UNCHANGED <<map_vector, i>>

GetStep == GetHit \/ GetMiss \/ GetThrow

Next ==
  \/ DoPush
  \/ DoPop
  \/ \E k \in Keys, v \in Values : DoPut(k, v) \/ DoPutBottom(k, v)
  \/ \E k \in Keys : DoGetTopOnly(k) \/ GetStart(k)
  \/ GetStep

Spec == Init /\ [][Next]_vars

\* A Get that is running keeps looping: nothing else uses the thread.
FairSpec == Spec /\ WF_vars(GetStep)

-----------------------------------------------------------------------------
TypeOK ==
  /\ map_vector \in Seq(Scopes)
  /\ Len(map_vector) \in 1 .. MaxDepth
  /\ key \in Keys \cup {NoKey}
  /\ i \in 0 .. Len(map_vector)
  /\ outcome \in Outcomes

\* While Get loops, no scope above the one it is about to read binds the key:
\* so what it finds is the innermost binding, and it never skips a scope.
GetLooksFromTheTop ==
  ~Idle => \A j \in (i + 1) .. Len(map_vector) : key \notin DOMAIN map_vector[j]

\* Every Get ends, found or thrown: the unsigned loop variable never wraps.
GetEnds == ~Idle ~> Idle

-----------------------------------------------------------------------------
(***************************************************************************)
(* What the table promises, in terms of the set of live bindings.          *)
(***************************************************************************)
bindings ==
  UNION {{[depth |-> d, key |-> k, value |-> map_vector[d][k]] :
            k \in DOMAIN map_vector[d]} : d \in 1 .. Len(map_vector)}

Promise == INSTANCE Bindings WITH
  depth <- Len(map_vector), bindings <- bindings,
  asked <- key, answer <- outcome

\* The table implements the set-of-bindings specification, including the
\* promise that Get answers with the binding of greatest depth.
ImplementsBindings == Promise!Spec
=============================================================================
