----------------------------- MODULE ScopeWalk -----------------------------
(***************************************************************************)
(* The local variables of one function, seen by the two passes that walk   *)
(* its AST one after the other: SemanticAstWalker decides which variable   *)
(* each name denotes and of what type, and annotates the nodes; then       *)
(* LIRGenAstWalker decides it again, with a table of its own, and emits    *)
(* the loads and stores.  Neither consults the other's table, so the code  *)
(* is right only if the two always agree.                                  *)
(*                                                                         *)
(* The function is any function: the checking pass chooses the next node   *)
(* as it goes and leaves the annotated nodes in "ast", in the order it     *)
(* walked them; the generating pass reads them from there.  Keys of        *)
(* functions, properties and types live in the bottom scope under mangled  *)
(* names no local has, so that scope is left out and scope 1 is the one    *)
(* WalkFunctionChildren pushes for the parameters.                         *)
(*                                                                         *)
(* A definition named Fault... is a slip the next definition could have    *)
(* had; it is used only to see that the properties would notice it.        *)
(***************************************************************************)
EXTENDS ScopedTable

CONSTANTS
  Names,         (* identifiers                                             *)
  Types,         (* the types a local variable can have                     *)
  Size,          (* Size[t]: bytes of a value of type t                     *)
  Expressions,   (* pairs <<c, g>>: an expression the checker types as c    *)
                 (* and the generator as g                                  *)
  MaxNodes,      (* bound on the nodes of the function, for model checking  *)
  MaxDepth       (* bound on the scopes open at once, for model checking    *)

ASSUME TypesAssumption ==
  /\ Size \in [Types -> Nat \ {0}]
  /\ Expressions \subseteq Types \X Types
  /\ MaxNodes \in Nat
  /\ MaxDepth \in Nat

VARIABLES
  phase,           (* which pass is running, or how the compilation ended   *)
  ast,             (* the annotated nodes, in the checker's walking order   *)
  symbol_table,    (* SemanticAstWalker::symbol_table_: name -> type        *)
  seen,            (* history, for the proofs: the table before each node  *)
  pos,             (* how many nodes the generator has walked               *)
  register_table,  (* LIRGenAstWalker::register_table_: name -> Register    *)
  param_offset,    (* LIRGenAstWalker::param_offset_                        *)
  allocated,       (* how many stack slots insAlloc has returned            *)
  updates,         (* FOR updates whose loop body is being generated        *)
  emitted          (* the memory instruction the last generator step emitted *)

sem_vars == <<ast, symbol_table, seen>>
gen_vars == <<pos, register_table, param_offset, allocated, updates, emitted>>
vars == <<phase, sem_vars, gen_vars>>

-----------------------------------------------------------------------------
(***************************************************************************)
(* Nodes.  "assign" is an assignment, "update" one that is the update      *)
(* clause of a FOR, always walked right before the FOR's body by the       *)
(* checker; "use" a variable reference; "block" and "end" the braces.      *)
(***************************************************************************)
ParamNode(n, t) == [kind |-> "param", name |-> n, type |-> t, gen |-> t]
AssignNode(kind, n, e) == [kind |-> kind, name |-> n, type |-> e[1], gen |-> e[2]]
UseNode(n, t) == [kind |-> "use", name |-> n, type |-> t, gen |-> t]
BlockNode == [kind |-> "block"]
EndNode == [kind |-> "end"]

\* No instruction was emitted.
Nothing == [op |-> "none"]

LastKind == IF ast = <<>> THEN "none" ELSE ast[Len(ast)].kind

Init ==
  /\ phase = "check"
  /\ ast = <<>>
  /\ symbol_table = Push(<<>>)
  /\ seen = <<Push(<<>>)>>
  /\ pos = 0
  /\ register_table = Push(<<>>)
  /\ param_offset = 0
  /\ allocated = 0
  /\ updates = <<>>
  /\ emitted = Nothing

-----------------------------------------------------------------------------
(***************************************************************************)
(* The type checker.                                                       *)
(***************************************************************************)

\* The node is accepted: it leaves the table as "table".
Accept(node, table) ==
  /\ symbol_table' = table
  /\ ast' = Append(ast, node)
  /\ seen' = Append(seen, table)
  /\ UNCHANGED gen_vars

\* An exception ends the compilation before any code is generated.
Reject == phase' = "rejected" /\ UNCHANGED <<sem_vars, gen_vars>>

\* More nodes may follow; the body of a FOR must follow its update clause.
MayWalk == phase = "check" /\ Len(ast) < MaxNodes /\ LastKind # "update"

InBody == Len(symbol_table) > 1

CheckParam(n, t) ==
  /\ MayWalk
  /\ ~InBody
  /\ IF InTop(symbol_table, n)
     THEN Reject
     ELSE Accept(ParamNode(n, t), Put(symbol_table, n, t)) /\ UNCHANGED phase

CheckBlock ==
  /\ phase = "check"
  /\ Len(ast) < MaxNodes
  /\ Len(symbol_table) < MaxDepth
  /\ Accept(BlockNode, Push(symbol_table))
  /\ UNCHANGED phase

\* The end of the function's own block ends the pass.
CheckEnd ==
  /\ MayWalk
  /\ InBody
  /\ Accept(EndNode, Pop(symbol_table))
  /\ phase' = IF Len(symbol_table) = 2 THEN "generate" ELSE "check"

\* Put in the innermost scope masks outer variables of that name; a second
\* assignment in the same scope must have the type of the first.
FaultAnyType(n, t) == TRUE
HasType(n, t) == Get(symbol_table, n) = t

CheckAssign(kind, n, e) ==
  /\ MayWalk
  /\ InBody
  /\ \/ /\ ~InTop(symbol_table, n)
        /\ Accept(AssignNode(kind, n, e), Put(symbol_table, n, e[1]))
        /\ UNCHANGED phase
     \/ /\ InTop(symbol_table, n)
        /\ HasType(n, e[1])
        /\ Accept(AssignNode(kind, n, e), symbol_table)
        /\ UNCHANGED phase
     \/ /\ InTop(symbol_table, n)
        /\ ~HasType(n, e[1])
        /\ Reject

CheckUse(n) ==
  /\ MayWalk
  /\ InBody
  /\ IF IsBound(symbol_table, n)
     THEN /\ Accept(UseNode(n, Get(symbol_table, n)), symbol_table)
          /\ UNCHANGED phase
     ELSE Reject

Check ==
  \/ \E n \in Names, t \in Types : CheckParam(n, t)
  \/ CheckBlock
  \/ CheckEnd
  \/ \E n \in Names, e \in Expressions :
       CheckAssign("assign", n, e) \/ CheckAssign("update", n, e)
  \/ \E n \in Names : CheckUse(n)

-----------------------------------------------------------------------------
(***************************************************************************)
(* The code generator.  A register is what register_table_ holds for a     *)
(* name: the type to load, the instruction that computes the base address  *)
(* ("args" is the argument vector, a number is a stack slot), the offset.  *)
(***************************************************************************)
Args == 0
Register(t, base, offset) == [type |-> t, base |-> base, offset |-> offset]

\* EmitLoad loads with the register's type; EmitStore stores the expression's.
LoadOf(n, reg, annotated) ==
  [op |-> "load", name |-> n, type |-> reg.type, annotated |-> annotated,
   base |-> reg.base, offset |-> reg.offset]
StoreOf(n, t, base) ==
  [op |-> "store", name |-> n, type |-> t, base |-> base, offset |-> 0]

\* The update clause is generated when its body's block has been closed.
UpdateDue ==
  /\ updates # <<>>
  /\ ast[pos].kind = "end"
  /\ updates[Len(updates)].depth = Len(register_table)

Walking(kind) ==
  /\ phase = "generate"
  /\ pos < Len(ast)
  /\ ~UpdateDue
  /\ ast[pos + 1].kind = kind
  /\ pos' = pos + 1
  /\ UNCHANGED sem_vars

\* Parameters are laid out one after the other in the argument vector.
FaultOffsetAfter(t) == param_offset + 1
OffsetAfter(t) == param_offset + Size[t]

GenParam ==
  /\ Walking("param")
  /\ LET node == ast[pos + 1] IN
     /\ register_table' = Put(register_table, node.name,
                              Register(node.type, Args, param_offset))
     /\ param_offset' = OffsetAfter(node.type)
  /\ emitted' = Nothing
  /\ UNCHANGED <<phase, allocated, updates>>

GenBlock ==
  /\ Walking("block")
  /\ register_table' = Push(register_table)
  /\ emitted' = Nothing
  /\ UNCHANGED <<phase, param_offset, allocated, updates>>

GenEnd ==
  /\ Walking("end")
  /\ register_table' = Pop(register_table)
  /\ emitted' = Nothing
  /\ UNCHANGED <<phase, param_offset, allocated, updates>>

\* WalkAssign: a name bound in the innermost scope, or bound to the same
\* type further out, is assigned to; any other gets a new stack slot.  The
\* store goes to the base address.
FaultReusesAnyType(n, t) == IsBound(register_table, n)
FaultNeverReuses(n, t) == FALSE
Reuses(n, t) ==
  \/ InTop(register_table, n)
  \/ /\ IsBound(register_table, n)
     /\ Get(register_table, n).type = t

Assign(n, t) ==
  LET slot == allocated + 1
  IN  IF Reuses(n, t)
      THEN /\ emitted' = StoreOf(n, t, Get(register_table, n).base)
           /\ UNCHANGED <<register_table, allocated>>
      ELSE /\ register_table' = Put(register_table, n, Register(t, slot, 0))
           /\ allocated' = slot
           /\ emitted' = StoreOf(n, t, slot)

GenAssign ==
  /\ Walking("assign")
  /\ Assign(ast[pos + 1].name, ast[pos + 1].gen)
  /\ UNCHANGED <<phase, param_offset, updates>>

\* WalkForStatementChildren passes over the update clause on its way to the
\* body; GenUpdate is its return to it.
FaultNothingPending(node) == updates
Pending(node) ==
  Append(updates, [depth |-> Len(register_table),
                   name |-> node.name, gen |-> node.gen])

GenForBody ==
  /\ Walking("update")
  /\ updates' = Pending(ast[pos + 1])
  /\ emitted' = Nothing
  /\ UNCHANGED <<phase, register_table, param_offset, allocated>>

GenUpdate ==
  /\ phase = "generate"
  /\ UpdateDue
  /\ Assign(updates[Len(updates)].name, updates[Len(updates)].gen)
  /\ updates' = SubSeq(updates, 1, Len(updates) - 1)
  /\ UNCHANGED <<phase, sem_vars, pos, param_offset>>

\* WalkVariable: Get may throw, and nobody catches it.
GenUse ==
  /\ Walking("use")
  /\ LET node == ast[pos + 1] IN
     IF IsBound(register_table, node.name)
     THEN /\ emitted' = LoadOf(node.name, Get(register_table, node.name), node.type)
          /\ UNCHANGED phase
     ELSE phase' = "undefined" /\ emitted' = Nothing
  /\ UNCHANGED <<register_table, param_offset, allocated, updates>>

GenDone ==
  /\ phase = "generate"
  /\ pos = Len(ast)
  /\ ~UpdateDue
  /\ phase' = "done"
  /\ UNCHANGED <<sem_vars, gen_vars>>

Generate ==
  \/ GenParam \/ GenBlock \/ GenEnd \/ GenAssign \/ GenForBody
  \/ GenUpdate \/ GenUse \/ GenDone

Next == Check \/ Generate

Spec == Init /\ [][Next]_vars
-----------------------------------------------------------------------------
(***************************************************************************)
(* Properties.                                                             *)
(***************************************************************************)
\* The names a FOR update is still to assign when its loop body is generated:
\* the checker has walked that assignment already.
Awaited == {updates[u].name : u \in 1 .. Len(updates)}

\* Every store is emitted for the type its variable's register was made for,
\* so it neither overruns the slot nor leaves part of it stale.
StoresFitTheirSlots ==
  emitted.op = "store" =>
    /\ IsBound(register_table, emitted.name)
    /\ Get(register_table, emitted.name).type = emitted.type

\* Every load is emitted for the type the checker annotated the reference
\* with, unless the name awaits the update of an enclosing FOR.
LoadsMatchAnnotations ==
  emitted.op = "load" /\ emitted.name \notin Awaited =>
    emitted.type = emitted.annotated

\* A variable the checker accepted is in the register table when its
\* reference is generated, unless the name awaits such an update.
CheckedVariablesAreFound ==
  phase = "undefined" => ast[pos].name \in Awaited

\* No two variables, masked ones included, share a byte of storage.
StorageIsDisjoint ==
  \A d1, d2 \in 1 .. Len(register_table) :
    \A x \in DOMAIN register_table[d1], y \in DOMAIN register_table[d2] :
      LET r == register_table[d1][x]
          s == register_table[d2][y]
      IN  <<d1, x>> # <<d2, y>> /\ r.base = s.base =>
            \/ r.offset + Size[r.type] <= s.offset
            \/ s.offset + Size[s.type] <= r.offset

\* While a scope is open nothing in it is rebound: an assignment in a nested
\* block changes neither the type nor the storage of an outer variable, and
\* leaving the block brings back exactly what was visible before it.
Extends(old, new) ==
  \A d \in (1 .. Len(old)) \cap (1 .. Len(new)) : \A k \in DOMAIN old[d] :
    k \in DOMAIN new[d] /\ new[d][k] = old[d][k]
BindingsAreStable ==
  [][Extends(symbol_table, symbol_table')
     /\ Extends(register_table, register_table')]_vars

\* What the comment in WalkVariable takes for granted: a reference the type
\* checker accepted never fails in the generator.
CheckerGuaranteesVariables == phase # "undefined"

\* What the comment in WalkAssign says: the assignment goes to the declared
\* variable, that is, to the address a reference to it loads from.
AssignmentReachesItsVariable ==
  emitted.op = "store" =>
    LET reg == Get(register_table, emitted.name)
    IN  emitted.base = reg.base /\ emitted.offset = reg.offset
=============================================================================
