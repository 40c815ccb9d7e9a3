---------------------------- MODULE ScopedTable ----------------------------
(***************************************************************************)
(* The operations of compiler/symbol_table.cc as pure operators.  A table  *)
(* is the map_vector_ of a SymbolTable: a sequence of scopes, the last one *)
(* the innermost, each a function from the keys bound in that scope to     *)
(* their values.  A definition named Fault... is a slip the next one could *)
(* have had; it is used only to see that the properties would notice it.   *)
(***************************************************************************)
EXTENDS Naturals, Sequences

\* A scope that binds nothing.
EmptyScope == [k \in {} |-> k]

\* A scope that also binds k to v (the insert of a key that is not there).
Bind(scope, k, v) ==
  [j \in DOMAIN scope \cup {k} |-> IF j = k THEN v ELSE scope[j]]

\* Push opens a scope; Pop drops the innermost one (never the last, see CanPop).
FaultAlwaysPop(table) == TRUE
Push(table) == Append(table, EmptyScope)
Pop(table) == SubSeq(table, 1, Len(table) - 1)
CanPop(table) == Len(table) > 1

\* Is k bound in the innermost scope (GetTopOnly, and the failure of Put)?
InTop(table, k) == k \in DOMAIN table[Len(table)]

\* Put binds in the innermost scope, PutBottom in the outermost one.
Put(table, k, v) ==
  [table EXCEPT ![Len(table)] = Bind(table[Len(table)], k, v)]
FaultPutTop(table, k, v) == Put(table, k, v)
PutBottom(table, k, v) == [table EXCEPT ![1] = Bind(table[1], k, v)]

\* Scope i holds the binding of k that is visible when only the outermost
\* "depth" scopes are open.
IsInnermost(table, depth, k, i) ==
  /\ i \in 1 .. depth
  /\ k \in DOMAIN table[i]
  /\ \A j \in (i + 1) .. depth : k \notin DOMAIN table[j]

\* Get finds k in some scope; its result is the innermost binding.
IsBound(table, k) == \E i \in 1 .. Len(table) : k \in DOMAIN table[i]
Get(table, k) ==
  LET i == CHOOSE i \in 1 .. Len(table) : IsInnermost(table, Len(table), k, i)
  IN  table[i][k]
=============================================================================
