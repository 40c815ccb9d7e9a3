-------------------------- MODULE ModuleLifecycle --------------------------
(***************************************************************************)
(* One Module object and the calls a host makes on it: Compiler::Compile,  *)
(* VirtualMachine::AssembleModule and HackyRunScriptMain*, in any order    *)
(* and any number of times.                                                *)
(*                                                                         *)
(* Compile parses, type checks and generates.  Generating walks the        *)
(* functions of the module twice: the prescan gives each a slot of the     *)
(* function table, through which every call to it will jump, and the       *)
(* second walk appends its code to the module's symbols_vector.            *)
(* AssembleModule turns entry k of that vector into native code and stores *)
(* its address in slot k.  Nothing checks that the two numberings agree.   *)
(*                                                                         *)
(* A definition named Fault... is a slip the next definition could have    *)
(* had; it is used only to see that the properties would notice it.        *)
(***************************************************************************)
EXTENDS Naturals, Sequences, FiniteSets

CONSTANTS
  Programs,      (* the sources: records counts, main, depends; counts[1]   *)
                 (* static functions, counts[g] in spec g - 1; static       *)
                 (* function "main" is ::main, 0 if there is none           *)
  GenericNew,    (* may a source instantiate a generic spec?                *)
  Garbage,       (* an uninitialised slot of the function table             *)
  NoTable        (* a null function table                                   *)

ProgramType ==
  [counts : Seq(Nat), main : Nat, depends : BOOLEAN]

ASSUME ProgramsAssumption ==
  /\ \A p \in Programs : /\ p \in ProgramType
                         /\ Len(p.counts) > 0
                         /\ p.main \in 0 .. p.counts[1]
  /\ GenericNew \in BOOLEAN

\* Functions are named by group and index: group 1 is the static functions.
FunctionName == (Nat \ {0}) \X (Nat \ {0})
GroupOf(p, g) == {<<g, j>> : j \in 1 .. p.counts[g]}
FunctionsOf(p) == UNION {GroupOf(p, g) : g \in DOMAIN p.counts}

ASSUME GarbageAssumption ==
  /\ Garbage \notin FunctionName
  /\ \A p \in Programs : NoTable \notin
       [0 .. Cardinality(FunctionsOf(p)) - 1 -> FunctionName \cup {Garbage}]

VARIABLES
  stage,       (* what the thread is doing; "idle" between calls            *)
  source,      (* the program being compiled                                *)
  ast,         (* who owns the tree of the running Compile                  *)
  compiled, assembled,  (* the module's flags                               *)
  built,       (* the program whose functions the module holds              *)
  slot,        (* function -> index of its function table slot              *)
  cursor,      (* the walk: <<group visited, index in the group>>           *)
  symbols,     (* symbols_vector: the functions in order of generation      *)
  table,       (* the module's func_table                                   *)
  native,      (* indexes of symbols whose fragment has native code         *)
  next,        (* the index AssembleModule has reached                      *)
  running,     (* <<the function called, the function jumped to>>           *)
  afterwards,  (* what AssembleModule returns to: the host or Run           *)
  failed,      (* history: generating or assembling this module threw       *)
  careless     (* history: the host used the module after that, or before   *)
               (* compiling into it, or ran it without a ::main             *)

compile_vars == <<source, ast, compiled, built, slot, cursor, symbols>>
vm_vars == <<assembled, native, next, running, afterwards>>
vars == <<stage, compile_vars, vm_vars, table, failed, careless>>

None == <<0, 0>>

Init ==
  /\ stage = "idle"
  /\ source \in Programs
  /\ built = source
  /\ ast = "none"
  /\ compiled = FALSE
  /\ assembled = FALSE
  /\ slot = [f \in {} |-> 0]
  /\ cursor = <<1, 1>>
  /\ symbols = <<>>
  /\ table = NoTable
  /\ native = {}
  /\ next = 1
  /\ running = <<None, None>>
  /\ afterwards = "host"
  /\ failed = FALSE
  /\ careless = FALSE

-----------------------------------------------------------------------------
(***************************************************************************)
(* Compile.                                                                *)
(***************************************************************************)
Compile(p) ==
  /\ stage = "idle"
  /\ stage' = "parse"
  /\ source' = p
  /\ careless' = (careless \/ failed)
  /\ UNCHANGED <<ast, compiled, built, slot, cursor, symbols, vm_vars, table, failed>>

\* The parser frees what it had built when it throws.
Parse ==
  /\ stage = "parse"
  /\ \/ stage' = "check" /\ ast' = "live"
     \/ stage' = "idle" /\ UNCHANGED ast
  /\ UNCHANGED <<source, compiled, built, slot, cursor, symbols, vm_vars, table, failed, careless>>

\* The handler in Compile frees the tree and passes an Exception on; any
\* other exception goes past it.
FaultThrowKeepingTree(exception) == stage' = "idle" /\ UNCHANGED ast
Throw(exception) ==
  /\ stage' = "idle"
  /\ ast' = IF exception = "Exception" THEN "freed" ELSE ast

TypeCheck ==
  /\ stage = "check"
  /\ \/ stage' = "generate" /\ UNCHANGED ast
     \/ Throw("Exception")
  /\ UNCHANGED <<source, compiled, built, slot, cursor, symbols, vm_vars, table, failed, careless>>

\* Generate refuses a module that has been through it, otherwise marks it
\* compiled before it does anything else.
FaultMayAlwaysGenerate == TRUE
MayGenerate == ~compiled

Generate ==
  /\ stage = "generate"
  /\ \/ /\ ~MayGenerate
        /\ Throw("Exception")
        /\ UNCHANGED <<compiled, built, slot, cursor, symbols, failed>>
     \/ /\ MayGenerate
        /\ compiled' = TRUE
        /\ built' = source
        /\ slot' = [f \in {} |-> 0]
        /\ cursor' = <<1, 1>>
        /\ UNCHANGED symbols
        /\ \/ source.depends /\ Throw("Exception") /\ failed' = TRUE
           \/ ~source.depends /\ stage' = "prescan" /\ UNCHANGED <<ast, failed>>
  /\ UNCHANGED <<source, vm_vars, table, careless>>

\* The k-th group each walk visits: static functions, then spec by spec.
FaultSpecsFirst(k) == IF k = Len(built.counts) THEN 1 ELSE k + 1
PrescanGroup(k) == k
ImplementGroup(k) == k

\* How many functions the table has room for.
FaultCountStaticFunctions(p) == p.counts[1]
CountFunctions(p) == Cardinality(FunctionsOf(p))

AtFunction(g) == cursor[2] <= built.counts[g]
FaultStepInPlace == UNCHANGED cursor
StepFunction == cursor' = <<cursor[1], cursor[2] + 1>>

\* Past the last function of a group the walk goes to the next group, and
\* past the last group to stage "done".
FaultStepPastLastSpec(done) ==
  IF cursor[1] + 1 < Len(built.counts)
  THEN cursor' = <<cursor[1] + 1, 1>> /\ UNCHANGED stage
  ELSE cursor' = <<1, 1>> /\ stage' = done
StepGroup(done) ==
  IF cursor[1] < Len(built.counts)
  THEN cursor' = <<cursor[1] + 1, 1>> /\ UNCHANGED stage
  ELSE cursor' = <<1, 1>> /\ stage' = done

\* current_function_index_ is the number of slots already given away.
PrescanFunction ==
  LET f == <<PrescanGroup(cursor[1]), cursor[2]>> IN
  /\ stage = "prescan"
  /\ AtFunction(f[1])
  /\ slot' = [h \in DOMAIN slot \cup {f} |->
                IF h = f THEN Cardinality(DOMAIN slot) ELSE slot[h]]
  /\ StepFunction
  /\ UNCHANGED <<stage, source, ast, compiled, built, symbols, vm_vars, table, failed, careless>>

PrescanGroupEnd ==
  /\ stage = "prescan"
  /\ ~AtFunction(PrescanGroup(cursor[1]))
  /\ StepGroup("implement")
  /\ UNCHANGED <<source, ast, compiled, built, slot, symbols, vm_vars, table, failed, careless>>

\* Generating a function body either succeeds, or throws because it meets
\* something not implemented, or because the size of a generic spec is not
\* in type_size_table_ (std::out_of_range).
ImplementFunction ==
  LET f == <<ImplementGroup(cursor[1]), cursor[2]>> IN
  /\ stage = "implement"
  /\ AtFunction(f[1])
  /\ \/ /\ symbols' = Append(symbols, f)
        /\ StepFunction
        /\ UNCHANGED <<stage, ast, failed>>
     \/ /\ \E e \in {"Exception"} \cup (IF GenericNew THEN {"out_of_range"} ELSE {}) :
             Throw(e)
        /\ failed' = TRUE
        /\ UNCHANGED <<symbols, cursor>>
  /\ UNCHANGED <<source, compiled, built, slot, vm_vars, table, careless>>

\* The module gets its function table, of uninitialised slots, only now.
ImplementGroupEnd ==
  /\ stage = "implement"
  /\ ~AtFunction(ImplementGroup(cursor[1]))
  /\ StepGroup("idle")
  /\ IF stage' = "idle"
     THEN /\ table' = [k \in 0 .. CountFunctions(built) - 1 |-> Garbage]
          /\ ast' = "freed"
     ELSE UNCHANGED <<table, ast>>
  /\ UNCHANGED <<source, compiled, built, slot, symbols, vm_vars, failed, careless>>

-----------------------------------------------------------------------------
(***************************************************************************)
(* AssembleModule and running.                                             *)
(***************************************************************************)
\* What a careful host takes care of before it calls.
IsCareful(caller) ==
  ~failed /\ table # NoTable /\ (caller = "run" => built.main # 0)

\* A second call returns at once.
AssembleModule(caller) ==
  /\ stage = "idle"
  /\ careless' = (careless \/ ~IsCareful(caller))
  /\ afterwards' = caller
  /\ stage' = IF assembled THEN "assembled" ELSE "assemble"
  /\ assembled' = TRUE
  /\ next' = 1
  /\ UNCHANGED <<compile_vars, native, running, table, failed>>

\* func_table()[i] gets the address of the code of symbol i.
FaultFillNextSlot(k) ==
  table' = [j \in DOMAIN table |-> IF j = k THEN symbols[k] ELSE table[j]]
FillSlot(k) == table' = [table EXCEPT ![k - 1] = symbols[k]]

AssembleFunction ==
  /\ stage = "assemble"
  /\ next <= Len(symbols)
  /\ \/ /\ native' = native \cup {next}
        /\ next' = next + 1
        /\ IF table = NoTable
           THEN stage' = "crashed" /\ UNCHANGED table
           ELSE FillSlot(next) /\ UNCHANGED stage
        /\ UNCHANGED failed
     \/ /\ stage' = "idle"
        /\ failed' = TRUE
        /\ UNCHANGED <<native, next, table>>
  /\ UNCHANGED <<compile_vars, assembled, running, afterwards, careless>>

AssembleEnd ==
  /\ stage = "assemble"
  /\ next > Len(symbols)
  /\ stage' = "assembled"
  /\ UNCHANGED <<compile_vars, vm_vars, table, failed, careless>>

AssembleReturns ==
  /\ stage = "assembled"
  /\ afterwards = "host"
  /\ stage' = "idle"
  /\ UNCHANGED <<compile_vars, vm_vars, table, failed, careless>>

MainIndexes == {k \in 1 .. Len(symbols) : symbols[k] = <<1, built.main>>}

\* Run calls the code of the symbol named ::main, found by its name.  Without
\* one a debug build aborts and a release build runs off the end of Run.
RunMain ==
  /\ stage = "assembled"
  /\ afterwards = "run"
  /\ \/ /\ MainIndexes = {}
        /\ stage' \in {"idle", "crashed"}
        /\ UNCHANGED running
     \/ \E k \in MainIndexes :
          /\ stage' = IF k \in native THEN "run" ELSE "crashed"
          /\ running' = <<symbols[k], symbols[k]>>
  /\ UNCHANGED <<compile_vars, assembled, native, next, afterwards, table, failed, careless>>

\* The generated code of a call loads the address to jump to from the slot
\* of the function it names.
Call(f) ==
  LET target == IF table = NoTable THEN Garbage ELSE table[slot[f]] IN
  /\ stage = "run"
  /\ stage' = IF target = Garbage THEN "crashed" ELSE "run"
  /\ running' = <<f, IF target = Garbage THEN None ELSE target>>
  /\ UNCHANGED <<compile_vars, assembled, native, next, afterwards, table, failed, careless>>

RunReturns ==
  /\ stage = "run"
  /\ stage' = "idle"
  /\ UNCHANGED <<compile_vars, vm_vars, table, failed, careless>>

-----------------------------------------------------------------------------
CompileStep ==
  \/ Parse \/ TypeCheck \/ Generate
  \/ PrescanFunction \/ PrescanGroupEnd
  \/ ImplementFunction \/ ImplementGroupEnd

AssembleStep == AssembleFunction \/ AssembleEnd \/ AssembleReturns \/ RunMain

Next ==
  \/ \E p \in Programs : Compile(p)
  \/ CompileStep
  \/ \E caller \in {"host", "run"} : AssembleModule(caller)
  \/ AssembleStep
  \/ \E f \in DOMAIN slot : Call(f)
  \/ RunReturns

Spec == Init /\ [][Next]_vars

\* Compile and AssembleModule run to their end on the host's thread; a script
\* may run for ever.
FairSpec == Spec /\ WF_vars(CompileStep) /\ WF_vars(AssembleStep)
-----------------------------------------------------------------------------
(***************************************************************************)
(* Properties.                                                             *)
(***************************************************************************)
Building == {"parse", "check", "generate", "prescan", "implement"}
Assembling == {"assemble", "assembled"}

TypeOK ==
  /\ stage \in {"idle", "run", "crashed"} \cup Building \cup Assembling
  /\ source \in Programs
  /\ built \in Programs
  /\ ast \in {"none", "live", "freed"}
  /\ compiled \in BOOLEAN
  /\ assembled \in BOOLEAN
  /\ slot \in [DOMAIN slot -> Nat]
  /\ DOMAIN slot \subseteq FunctionsOf(built)
  /\ cursor \in FunctionName
  /\ symbols \in Seq(FunctionName)
  /\ table # NoTable =>
       table \in [0 .. CountFunctions(built) - 1 -> FunctionName \cup {Garbage}]
  /\ native \subseteq 1 .. Len(symbols)
  /\ next \in 1 .. (Len(symbols) + 1)
  /\ running \in (Nat \X Nat) \X (Nat \X Nat)
  /\ afterwards \in {"host", "run"}
  /\ failed \in BOOLEAN
  /\ careless \in BOOLEAN

\* The slot a call to a function loads its address from is the slot its
\* position in symbols_vector fills: the prescan and the generation number
\* the functions alike, whatever specs the module has.
SlotsMatchSymbols ==
  \A k \in 1 .. Len(symbols) :
    symbols[k] \in DOMAIN slot /\ slot[symbols[k]] = k - 1

\* "Not enough space in function pointer table": the table CountFunctions
\* sized has a slot for every function the prescan meets.
TableHasRoom == \A f \in DOMAIN slot : slot[f] < CountFunctions(built)

\* Wherever building the module stopped, a slot that has been filled leads to
\* the function whose calls go through it.
FilledSlotsAreRight ==
  table # NoTable =>
    \A f \in DOMAIN slot : table[slot[f]] \in {Garbage, f}

\* A module that has a function table holds every function of its source, in
\* whatever order its host compiled, failed and compiled again.
TableMeansComplete ==
  table # NoTable => {symbols[k] : k \in 1 .. Len(symbols)} = FunctionsOf(built)

\* A running script is always in the function it called.
CallsReachTheirFunction == stage = "run" => running[1] = running[2]

\* Once a module has been through Generate, no later call changes which
\* functions it holds or which slots their calls use.
GeneratedOnlyOnce ==
  [][(compiled /\ stage \notin {"prescan", "implement"} =>
       UNCHANGED <<built, slot, symbols>>)]_vars

\* Compile never leaves the tree behind ("Free on exception").
TreeIsFreed == stage \notin Building => ast # "live"

\* Every call to Compile and AssembleModule returns.
BuildingEnds ==
  stage \in Building \cup Assembling ~> stage \in {"idle", "run", "crashed"}

\* A host that stops at the first failure, assembles only what it has compiled
\* and runs only what has a ::main never meets a null table, missing code or
\* an unfilled slot.
NothingCrashes == stage = "crashed" => careless
=============================================================================
