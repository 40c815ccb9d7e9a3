---------------------------- MODULE MCScopeWalk ----------------------------
(* Instances of ScopeWalk for TLC: int32 is four bytes, int8 is one.       *)
EXTENDS ScopeWalk, TLC

TypesDef == {"int32", "int8"}
SizeDef == [t \in TypesDef |-> IF t = "int32" THEN 4 ELSE 1]

\* Every expression but a character literal has one type in both passes.
PlainExpressions == {<<t, t>> : t \in TypesDef}

NameSymmetry == Permutations(Names)
=============================================================================
