--------------------------- MODULE MCControlFlow ---------------------------
(***************************************************************************)
(* Bodies for ControlFlow: every IF and FOR with every choice of optional  *)
(* clauses, nested one in another in every block, with statements before   *)
(* and after.                                                              *)
(***************************************************************************)
EXTENDS ControlFlow

DoIt(id) == [op |-> "do", id |-> id]
Ret(id) == [op |-> "return", id |-> id]
If(id, then, else) == [op |-> "if", id |-> id, then |-> then, else |-> else]
For(id, init, tested, update, block) ==
  [op |-> "for", id |-> id, init |-> init, tested |-> tested, update |-> update,
   body |-> block]

\* An optional clause.
May(s) == {<<>>, <<s>>}

\* The statements at one depth, over the blocks below.
Compound(id, below) ==
  {If(id, t, e) : t, e \in below}
    \cup {For(id, i, c, u, b) : i \in May(DoIt("init " \o id)), c \in BOOLEAN,
                                u \in May(DoIt("update " \o id)), b \in below}

Inner == {<<>>, <<DoIt("x")>>, <<Ret("y")>>}
Middle == {<<s>> : s \in Compound("b", Inner)} \cup Inner
Outer == Compound("a", Middle)
MCBodies ==
  {<<s>> : s \in Outer}
    \cup {<<s, t, DoIt("z")>> : s \in Compound("a", Inner), t \in Compound("c", Inner)}
MCStatement ==
  {DoIt(p \o id) : p \in {"init ", "update "}, id \in {"a", "b", "c"}}
    \cup {DoIt("x"), DoIt("z"), Ret("y")} \cup Outer
    \cup Compound("b", Inner) \cup Compound("a", Inner) \cup Compound("c", Inner)
=============================================================================
