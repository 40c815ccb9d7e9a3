# A verification development of Gunderscript 2

Gunderscript 2 is a small typed scripting language. A source goes through a
hand written lexer and parser, a type checker that annotates the tree, and a
generator that emits NanoJIT intermediate code into a `Module`; a virtual
machine assembles the module into native code and runs its `::main`. It is
single threaded: what is hard about it is not interleaving but agreement.
Two passes over the tree keep tables of their own and must reach the same
conclusions, functions are numbered twice and called by number, objects are
left half built when one of a dozen recursive functions throws, and a host may
call the three entry points in any order.

## The system

| Part | State | Operations | Talks to |
|---|---|---|---|
| `Lexer` (`compiler/lexer.cc`) over `CompilerSource` | a window of two tokens and their strings, line and column | `AdvanceNext`, one scanner per token kind | called by the parser; reads the source |
| `Parser` (`compiler/parser.cc`), `Node` | the tree being built, owned by its root | one recursive function per grammar rule | lexer; returns a tree or throws |
| `AstWalker` (`compiler/ast_walker.cc`) | none | visits module, specs, functions, blocks, expressions, in a fixed order | calls back into the two walkers below |
| `SemanticAstWalker` | `symbol_table_`: a `SymbolTable` of types and functions | one callback per node kind; annotates the node or throws | the tree |
| `LIRGenAstWalker` | `register_table_`: a `SymbolTable` of registers; `param_offset_`; the function table and its counter | one callback per node kind; emits instructions | the tree, the `Module`, NanoJIT |
| `SymbolTable` (`compiler/symbol_table.cc`) | a vector of maps, innermost scope last | `Push Pop Put PutBottom Get GetTopOnly` | both walkers |
| `Module` (`common/module.cc`) | `compiled`, `assembled`, `symbols_vector`, `func_table` | accessors | the generator, the virtual machine, the host |
| `Compiler` (`compiler/compiler.cc`) | the root of the tree, for one call | `Compile`, `DebugCompilation` | everything above |
| `VirtualMachine` (`runtime/virtual_machine.cc`) | a NanoJIT code allocator | `AssembleModule`, `HackyRunScriptMain*` | `Module`, NanoJIT |
| garbage collector, command line, resources, asserts | none of interest | | |

What has to be right, part by part:

* **Symbol table**: a lookup answers with the innermost live binding; leaving a
  scope forgets exactly its bindings; the outermost scope survives.
* **The two walkers**: for every name in every function body they agree on the
  scope it lives in and the type it has. The generator never throws on what the
  checker accepted. Storage of two variables never overlaps.
* **Function table**: a call through slot *k* reaches the function whose code
  is assembled into slot *k*, for any mix of static functions and specs.
* **Module life cycle**: whatever a host calls after whatever failure, a filled
  slot is right, nothing is generated twice, the tree is freed, calls return.
* **Parser**: the tree it returns has every node it made, once, in the shape
  the walkers index without looking; operators bind as their levels say; when
  it throws, every node has been freed once; it always returns or throws.
* **Lexer**: every string belongs to one token of the window until it is freed
  once; tokens are the longest possible; comments end where they should; lines
  are counted once; every call ends.
* **Declarations**: a module means the same in whatever order it is written;
  every use finds what it denotes, in both passes; the properties of an object
  do not overlap.
* **Expressions and calls**: what the checker accepts compiles; every
  instruction gets the kinds of words it takes; caller and callee lay out
  arguments, object and result alike.
* **Control flow**: every jump gets the right target, however statements nest.
* **Arithmetic**: an `int8` behaves as one. (planned)

The hazards behind these, each at its line, are the "hazards" of
`PROJECT.json`.

## The modules

| Module | What it is |
|---|---|
| `ScopedTable` | the operations of `symbol_table.cc` as operators on a sequence of scopes |
| `Bindings` | abstract: a set of live bindings with their depth |
| `SymbolTable` | one table driven by any sequence of calls; implements `Bindings` |
| `ScopeWalk`, `MCScopeWalk` | the local variables of any one function, in both passes |
| `Symbols` | types and function symbols, their comparison, formats and sizes |
| `Expressions`, `MCExpressions` | every expression, call and return of any one body, in both passes |
| `Declarations`, `MCDeclarations` | specs, generic specs, functions, properties and what their names find, in both passes |
| `Statements` | what a statement is and what is left once part of it is done |
| `Structured` | abstract: a function as the effects of its statements |
| `ControlFlow`, `MCControlFlow` | the jumps the generator emits for IF and FOR, and the function running; implements `Structured` |
| `ModuleLifecycle`, `MCModuleLifecycle` | one `Module`, its host, `Compile`, `AssembleModule`, `Run`, and the function table |
| `Lexer` | `AdvanceNext` over the characters of a source, with the window and its strings |
| `ParserGrammar` | the functions of `parser.cc`, as short programs over the window, the tree and local variables |
| `AstShape` | the children `AstWalker` reads at each node |
| `Parser`, `MCParser` | the parser running: its call stack, nodes, exceptions and handlers; the sources for TLC |
| `ModuleLifecycleProofs` | the theorems about `ModuleLifecycle`, any host and a careful one |
| `LexerProofs` | the theorems about `Lexer` and any text |
| `ExpressionsProofs` | the theorems about `Expressions`, any declarations and any body |
| `DeclarationsProofs` | the theorems about `Declarations` and any module |
| `SymbolTableProofs` | the theorems about `SymbolTable`, the refinement among them |
| `ScopeWalkProofs` | the theorems about `ScopeWalk` and any function |
| `ControlFlowProofs` | the theorems about `ControlFlow` and any bodies: its jumps, and that every step of the code is a step of the statements, or none |
| `ParserProofs` | the theorems about `Parser` and any source: the owners of nodes |

The type checker and the generator are each one class over one tree. The tree
is cut where the passes meet it: `Declarations` is what surrounds bodies,
`ScopeWalk` the blocks of a body and their variables, `Expressions` its
expressions, `ControlFlow` its jumps. `Parser` and `AstShape` say that the tree
is one they can walk, `ModuleLifecycle` what becomes of the code.

A definition named `Fault...` stands before the one it is a faulty form of. It
is not part of any behaviour; it shows that a property notices that slip.

### SymbolTable

`map_vector` is the vector of maps. `Push`, `Pop`, `Put`, `PutBottom` and
`GetTopOnly` are one action each, exceptions being an `outcome`. `Get` is the
loop of the code: `GetStart` sets the unsigned index one above what will be
read, `GetMiss` moves it down, `GetHit` returns, `GetThrow` is the end of the
loop. The refinement maps the scopes to the set of bindings and the running
`Get` to the abstract question: so whatever the loop does, it must end with the
binding of greatest depth. `GetEnds` assumes that a running `Get` keeps
looping; there is one thread, so nothing can stop it.

### ScopeWalk

The checker's pass is an arbitrary function body: at each step it chooses the
next node (a parameter, an assignment, the update clause of a FOR, a reference,
an opening or a closing brace), does what `SemanticAstWalker` does, and either
throws (`rejected`) or appends the annotated node to `ast`. When the body's
brace closes, the generator walks the same nodes with a table of its own. An IF
is a block; a FOR is its initialisation (an assignment), its condition
(references), its update and a block. The one place where the passes differ in
order is kept: the checker walks a FOR's update clause before the body,
`LIRGenAstWalker::WalkForStatementChildren` after it, so the generator puts the
update on a stack (`updates`) and returns to it when the body's block closes.
Scope 1 is the parameters' scope; the bottom scope of both tables holds only
mangled names that no local can have, and is left out. An update clause is one
assignment; its references, and those in its right hand side, are not separate
nodes. Properties, fields and `this` are not locals and are not here.

A register is the tuple of the code: type, instruction that yields the base
address (the argument vector or a stack slot), offset. `emitted` is the load or
store the last step emitted; its width is its type. `seen` records the
checker's table before each node; only the proofs read it.

### Symbols and Expressions

`Symbols` keeps what the code compares: `operator==` looks at names alone,
`type_symbol()` takes one step and casts, whatever it finds there. A value is
the kind of word an instruction yields, an int, a float or a pointer; which
value it is is left out.

Both passes walk operands before operators, so each is a machine with a stack:
a step takes the operands of one node, and rejects it, fails, or leaves a
result. The checker's results are two symbols, the one it returns and the one
it sets on the node; the generator reads the second only, and has symbols and
words of its own. Where these differ the model keeps both: a character is an
`int8` to the checker and an `int32` on its node; the node of a property's
assignment has no symbol (`unset`); an assignment passes on its value's symbol
and not a type, so that in a chain of assignments `type_symbol()` reads memory
that holds something else (`relayed`; the step is then `undefined`). An
instruction is what it wants, what it has, and, for arguments and parameters,
where; the name of an instruction is paired with the kind of word it is for.
`context` is the body compiled: a function, or a property's accessor,
which is walked with no writer, so that its first instruction is a crash. `odd`
collects the unusual things a body does; each property names the ones it
excepts, all of them listed under "Seen in the two walkers".

Blocks are in `ScopeWalk`. An expression ends as a `discard` (a statement, or
the first or third clause of a FOR), a `clause` (the second), an `if` (a
condition, which the generator tests) or a `return`. The end of the body emits the return
nobody wrote, by the function's type.

### Declarations

A program is two sequences, functions and specs; a spec has type parameters,
functions and properties. `AstWalker` makes three rounds, specs, headers and
bodies. `at` is where a pass is, a round (`scan`), a spec (0: the static
functions) and an item of it; `Here` is what the walk calls for there. Each
action is one callback and goes one item `Onward`, but for `Turn`, which goes
from one spec to the next and from one round to the next (`NextBlock`). Each visit
does what the callbacks of its pass do to `symbol_table`, or to `register_table`,
`type_size_table` and `property_offset`. The loop in which the generator sums the
properties of a spec is a step for each property, with `compiled_size` between
them; the offsets are summed a round later, from `property_offset`. Names are
mangled as the code does: a spec's with a mark per type parameter, a function's
with its spec and the names of its argument types; a sequence of names stands for
the string. An instance of a generic spec is known by the names of its arguments
alone, so that type parameters of two specs are one if they have one name. A body
has at most one use: a call, a member, a property read or set, or a `new`, which
is resolved with its access checks and fallbacks in the checker, and looked up
again in the generator.

`Denotes`, `WellFormed` and `MayUse` say what a program means without any round
or table: a use denotes the functions of its owner that take values of its
arguments' types. `VerdictFitsProgram` compares the two.

### Statements, Structured and ControlFlow

`Structured` executes statements: an execution is a sequence of effects, a call
or assignment, a condition and how it came out, a return. `ControlFlow` is the
generator: its recursion is a stack of tasks (`work`), a jump it holds on to is
in the task of the activation that will set its target, instructions are
appended to `code`. Then the code runs, instruction by instruction, a condition
coming out either way. The refinement maps the instruction about to run to the
statements left there, which `means` records when the instruction is emitted,
from the tree alone. A bare block is taken as its statements, its scopes being
`ScopeWalk`'s; a FOR without any clause or statement goes round without effect,
which is a stutter of `Structured` as it is in the code.

### ModuleLifecycle

A source is how many static functions it has, how many functions each spec
has, which static function is `::main`, and whether it has a `depends`
statement (which the generator does not implement and throws on). Parsing and
type checking succeed or throw. `Generate` follows the code: refuse a module
that is already `compiled`, mark it, walk the functions once to number them
(`slot`), walk them again to append their code (`symbols`), then give the
module its table of uninitialised slots. `AssembleModule` compiles entry *k* of
`symbols` and writes slot *k*. `Run` looks `::main` up by name. A running
script calls any function, through its slot. A null table, a missing function
body and an uninitialised slot lead to `crashed`. The handler in `Compile`
frees the tree for `Exception` only. Two history variables describe the host:
`failed`, that generating or assembling this module has thrown, and `careless`,
that the host went on after that, assembled or ran a module with no function
table, or ran one without `::main`. Every host is modelled; `NothingCrashes`
says that only a careless one can crash.

Debug builds abort where an assertion fails; release builds go on. The model
is the release build, except that running a module without `::main` may do
either.

### Lexer

`input` and `index` are those of `CompilerStringSource`. A character is a class
the code tells apart, or a punctuation character. A step is one iteration of
one of the lexer's loops; `pc` says in which loop the lexer is. `AdvanceTokens`
begins a call, as `AdvanceNext` and the constructor do: it frees the string of
the token that leaves the window and copies the next token, pointer included.
A scanner then throws or fills `next_token`; only on success is that token
valid. `heap` is the set of strings allocated; a new string may get the address
of one that was freed. `Destroy` is the destructor, which runs after an
exception too, except one thrown by the constructor (`alive`). `start` is a
history variable: where the lexeme began. Which letters spell a keyword, and
whether a number is in range, are choices.

### ParserGrammar and Parser

A function of the parser is a sequence of instructions: make a node (as a child
of another or not), add a child, delete, advance, branch on the window or the
tree, loop, call, throw, return, and the braces of a `try`. `ParserGrammar` has
one such program per function; `Parser` executes them, an instruction a step,
on a stack of frames, each with its local variables and its handler. Token
values, which the tree only copies, are left out, so a token is its type or its
symbol. A node is its rule and its children; deleting one is a list of nodes to
free (`doomed`), worked off by `FreeNode` as the recursive destructor does. To
free a node twice is undefined in C++: the model stops there (`freed twice`).
`Unwind` takes an exception out of one function, through its handler. Handlers
catch every exception the lexer and parser throw; running out of memory is not
modelled. `ParseAssignStatement` and `ParseCallStatement` are never called and
left out.

`next` is what the lexer has read ahead, so an exception of the lexer comes one
token early, as in the code: `AdvanceNext` moves the window first. A family of
sources (`Sources`) is all that begin with one of its `starts`, go on with up to
`most` of its `tokens` and end with one of its `ends`; tokens are chosen when
read, so sources that fail early are not continued.

`AstShape` is the other side of the contract: what `AstWalker` takes for
granted of each node. `TreeFitsTheWalkers` joins the two.

Seen in the parser, and left out of the runs. Nothing in the repository says
otherwise of the first three: a statement that starts with a name accepts any
token as its end (`ParseNameStatement` advances over it, a semicolon or not);
`-a.b` is `(-a).b`;
`ParseOrExpression`'s handler deletes a pointer that is still null, which leaks
the operation. The others are slips: `new A(1` and `default(3` leak, because
`ParseNewExpression` and `ParseDefaultExpression` have no handler and free their
node at their own tests only; `a.3` parses, and reaches the `GS_ASSERT_FAIL` of
`AstWalker::WalkMemberChildren` (which `AstShape` therefore does not mention); a
single token after the last declaration is read and not parsed; and a module
assembled before anything is compiled into it counts as assembled for good, so
that its code, compiled later, never becomes native.

Seen in the two walkers, and excepted by name in the properties that meet it:
a character literal has two types; a property set asks for access and never for
the type of the value; a member call that finds no such member falls back to a
static function and passes it the object all the same; a bare `return` is
accepted in every function and returns an integer; a comparison of comparisons
goes by what the first one compared; a new object on the left of a comparison
has the `void` of its constructor on its node, which the generator refuses; a
property of type `void` is read and set like any other; a symbol named `none`
matches every type, and a parameter may be called that; it may be called `this`
too, which the generator takes for the object, or like a type, which makes
`if` accept it for its name, whatever its type (a "namesake" in the model); strings can be typed but neither written
nor added; a property with accessor bodies crashes the generator. Of generic
specs: a concealed function of one is not accessible even there, an instance
has no members, a type parameter named like a type is taken for that type, and
`new` of an instance throws `std::out_of_range` because its size is not in
`type_size_table_`, which `Compile`'s handler does not catch, so that the tree
leaks (`TreeIsFreed` is therefore stated where no generic spec is instantiated,
`GenericNew = FALSE`).

## The runs

| Run | Instance | Shows |
|---|---|---|
| `symbol_table` | 2 keys, 2 values, 3 scopes | `TypeOK`, `ImplementsBindings`, `GetEnds` |
| `scope_walk` | 2 names, int32 and int8, 8 nodes, 4 scopes | `StoresFitTheirSlots`, `LoadsMatchAnnotations`, `CheckedVariablesAreFound`, `StorageIsDisjoint`, `BindingsAreStable` |
| `for_update_declares` | as above, 7 nodes | **violated**: `CheckerGuaranteesVariables` |
| `assign_to_parameter` | as above, 7 nodes | **violated**: `AssignmentReachesItsVariable` |
| `expressions` | seven families of bodies of 4 to 6 nodes, 8 functions, 4 properties | `CheckedProgramsAreGenerated`, `OperandsFit`, `PassesAgree`, `CallsFitTheirFunctions` |
| `declarations` | 8262 programs in five families | `VerdictFitsProgram`, `AcceptedUsesAreGenerated`, `ObjectsHoldTheirProperties` |
| `control_flow` | bodies of one statement three deep, or two statements two deep and a third | `JumpsAreClosed`, `ImplementsStatements` |
| `module_any_host` | six sources, any host | `TypeOK`, `SlotsMatchSymbols`, `TableHasRoom`, `FilledSlotsAreRight`, `TableMeansComplete`, `CallsReachTheirFunction`, `TreeIsFreed`, `NothingCrashes`, `GeneratedOnlyOnce`, `BuildingEnds` |
| `lexer` | texts of 6 characters over five alphabets | `TypeOK`, `StringsAreOwnedOnce`, `LinesAreCounted`, `TokensAreMaximal`, `PositionsAdvance`, `CommentsEndWhereTheyShould`, `EveryCallEnds` |
| `parser_trees` | four families: modules, specs and properties, statements, expressions | `TreeIsWhole`, `TreeFitsTheWalkers`, `OperatorsBind` |
| `parser_errors` | function bodies of 5 tokens and an ending, a malformed token among them | `TypeOK`, `SyntaxErrorsAreClean`, `ParsingEnds` |
| `parser_double_free` | function bodies with operators | **violated**: `NothingFreedTwice` |

The typing of `ScopeWalk` and `ControlFlow` is `TypeInv` of their proofs.

**Bounds.** Three scopes are the least in which a scope can be skipped between
the innermost and the outermost, and two keys and values the least that can be
confused. In `ScopeWalk` a disagreement needs a parameter or an assignment, a
FOR or a block with a masking assignment, a reference and the braces: six
nodes; eight leave two to spare. Two types are enough because the code only
compares types. Names are interchangeable, hence the symmetry. The sources of
`ModuleLifecycle` have none, one and two static functions, none to two specs,
an empty spec between two groups, and a `::main` in each place: more functions
repeat these steps, and the theorems below cover all of them. Host calls are
unbounded.
The lexer never looks further than two characters ahead, and its window
is two tokens: six characters hold three two-character tokens, a
three-character symbol between two others, or a comment with a star and a
newline in it between two tokens. A text is over one alphabet, the characters
that one group of scanners tells apart; what follows a token only matters by
being able to continue it. Three addresses are one more than can be in use. Each
family of the parser has the tokens one part of the grammar distinguishes, and
room for its longest production: a generic return type or a parameter, a
property with two accessors that have bodies, the three clauses of a FOR, an
`else if`, three operators of any levels in a row. Its beginnings lead to the
production, its endings close what is open; between them everything is tried,
wrong tokens included.
Each family of `Expressions` has the nodes that meet in one part of the
language, arithmetic, casts, calls, objects, assignments, the name `none`, other
names that mean something else, and length for an operator over two operators, or a call of two arguments used as
an operand. The functions have overloads by type, by number and by spec,
arguments of every size, each class of return, a concealed member and a
constructor. The programs of `Declarations` put a use before and after what it
names, in, across and outside specs, with each access; clash in each way two
declarations can; give properties each size in two specs; and have two generic
specs whose type parameters may have one name. One use is enough
because a use changes no table. A type argument is a plain name; accessors have
no bodies, which `Expressions` has. In `ControlFlow` an IF or a FOR with every
choice of clauses holds in each block an IF or a FOR with every choice, which
holds a statement, a return or nothing: three levels are the least in which a
target set by the middle one can be the outer one's or the inner one's.

**Deadlock.** It is not checked for `ScopeWalk`, `Expressions` and
`Declarations` (a compilation ends), for `ControlFlow` (a function returns),
for `Lexer` (one that threw or was destroyed stops), for `Parser` (it returns or throws, once) nor for `ModuleLifecycle` (a crashed
program does stop).

**Fairness.** `BuildingEnds` assumes that `Compile` and `AssembleModule`, once
called, keep running on the host's thread; `EveryCallEnds` the same of a call
of the lexer, and nothing of whether another is made (`WF_vars(Step)`);
`ParsingEnds` that the parser keeps running (`WF_vars(Next)`); and
`ImplementsStatements` that the generator, and then the function, do
(`WF_vars(Next)`), from which follows the fairness of `Structured`, that no
execution stops before it returns: all are ordinary function calls on one
thread. Nothing is assumed of the host; a script
may run for ever.

**What the violated runs say.**

* `for_update_declares`: in `for (;; x <- 1) { y <- x; }` the checker has seen
  `x` when it reaches the body, the generator has not, and throws, although
  `WalkVariable` relies on the checker for exactly this.
* `assign_to_parameter`: `WalkAssign` takes the base of a register and drops
  its offset, so assigning to the second parameter overwrites the first.
* `parser_double_free`: in `a + b + ;` the second `+` adopts the first before its
  operand is parsed. Both have a handler, and the exception runs both.

`SyntaxErrorsAreClean` is checked where the double free and the leak cannot
happen, without binary operators, `new`, `default`, and only for errors of the
parser itself: those findings are that the restriction is needed. It covers
every other function and every place an exception can come from in it.

`LinesAreCounted` excepts three newlines that the lexer reads without counting
them: the one that ends a line comment (`SkipSingleLineComments`), one directly
after `/*`, and one that is a character constant. Nothing else goes wrong.

`LoadsMatchAnnotations` and `CheckedVariablesAreFound` exclude the names that
wait for the update of an enclosing FOR: the first finding is that the
exclusion is needed, the runs show that nothing else is.

## The theorems

`ModuleLifecycleProofs` proves, for every set of source programs (any number of
functions and specs) and every host, from `ProgramsAssumption` (a source has a
list of counts that is not empty, `::main` is one of its static functions or
absent): `TypeOK`, `SlotsMatchSymbols`, `TableHasRoom`,
`FilledSlotsAreRight`, `TableMeansComplete`, `CallsReachTheirFunction` and
`GeneratedOnlyOnce`; and `TreeIsFreed` when no generic spec is instantiated.

The invariant. `SlotsMatchSymbols` is not inductive: it says nothing of where
the walks are. Functions are ordered by group and index; `Rank` of a function
is how many come before it. `IInv` says that the prescan has numbered exactly
the functions before its cursor, each with its rank (`WalkInv`, `NumberInv`);
that the second walk has appended exactly the functions before its cursor, each
at its rank; and that a table belongs to a complete module and each slot in it
is unset or holds what stands at that position (`TableInv`). The lemmas
`BeforeFirst`, `BeforeNext`, `BeforeNextGroup` and `BeforeLast` say what the
cursor has passed after each step; `RankIsInjective`, by cardinality, that two
functions never share a slot; `RankIsBelowCount` that every slot is in the
table. One lemma per action shows that it keeps `IInv`.

The same module proves `NothingCrashes`, also for every source, from the same
invariant and `GarbageAssumption` (an unset slot is no function, a null table no
table). `CareInv` strengthens it: as long as the host has been careful, an
assembled module of which nothing has failed is `Filled` as far as
`AssembleModule` has got: native code for the first functions, and a slot that
leads to each. When `AssembleModule` has got to the end, `::main` is among the
symbols because the table is complete, and the slot of any call is below the
table's size, hence filled.

`LexerProofs` proves, for every alphabet, every length of text and every reuse
of addresses, `TypeOK`, `StringsAreOwnedOnce`, `PositionsAdvance`,
`CommentsEndWhereTheyShould`, `LinesAreCounted` and `TokensAreMaximal`, from the assumptions `Lexer` makes of its
constants. `StringsAreOwnedOnce` is not inductive: in the middle of a call the
window is being moved, and the string a scanner is about to allocate must have
no owner yet. The invariant (`Validity`, `OwnInv`) adds that while a token is
being read the next token is not valid, so that the heap is what the current
token owns; the allocator gives an address that is not on the heap, hence not
its one. For positions (`Reading`, `PosInv`), the reader's line and column are
never before the current token's, and pass it with the first character of a
lexeme. For comments (`Commenting`), what lies between the opening and the
reader holds no end, and the block comment's loop looks at pairs of characters
from the one after its opening; where it sees nothing ahead the text has ended
(`Unread`), so that a comment is unterminated only if it has no end. For lines
(`Counting`), the newlines counted are those read, but one more inside a block comment, whose loop counts the newline
that comes next before it steps over it; `NewlinesGrow` and `PassedOver` add up
newlines over a stretch of text, and where the lexer skips characters two at a
time the hypothesis about the text says that the second is none. For the length
of tokens (`Scanning`), what a scanner has read so far is made of the characters
of its kind, and it stops only at one that is not. For symbols the two tables of
the lexer's switch are taken entry by entry: no two entries make one symbol
(`CHOOSE` in `Spelling` has one choice), and none can be made longer by the
character at which the lexer stopped.

`ExpressionsProofs` proves, for any functions and properties, any body of any
length and any context, `CheckedProgramsAreGenerated`, `OperandsFit`,
`CallsFitTheirFunctions` and `PassesAgree`. It assumes of the declarations what
the prescan has made sure of (`FunctionsAssumption`, `PropertiesAssumption`: types
that exist, no parameter of type `void`, constructors that return it, mangled
names that are distinct and no type's), of the walks what the parser makes
(`FamiliesAssumption`), and that specs are named neither like a built in type nor
`none` (`SpecsAssumption`). None of the four is inductive, since each looks at
the generator's last step only, and at that moment the checker's stack and table
are gone. The invariant `IInv` brings them back: there is a *history*, the stacks
and tables the checker had before and after each node, which can be told from
the annotated nodes (`History`, `Walked`, `Judged`); the checker makes it longer
by a node at a time (`CheckSteps`, `Extend`). The generator, after as many nodes,
*simulates* it: each of its values means the operand in the same place
(`Means`), in the symbol on the node, the type of the result and the kind of
word, and its registers stand for the variables (`Registers`), each as far as
the unusual things met so far allow. `Sound` is what a handler of the generator
owes: a permitted reason if it stops, code that fits, and a value that means
what the checker's does; there is one lemma per handler (`BinarySound`,
`EqualitySound`, `CastSound`, `CallSound`, `GetSound` and so on), which is
used under any stack. For calls, `Stores` says that the arguments are laid where
the parameters are, by the sizes of the same types. `Unrelayed` is the rest: an
operand without a type is on the checker's stack until some node uses it, so
that none is left when the generator begins. The history is quantified, so TLC
cannot evaluate `IInv` as it stands; it was checked on the instance of the run
with a witness for it, the stacks and tables computed from the nodes. The attempt to prove it found what
the six families did not: the comparison of a new object, the property of type
`void`, and the names `this` and those of types (above). The model was right
about them and the properties were not; a seventh family now has them all.

`SymbolTableProofs` proves, for any keys, values and number of scopes, `TypeOK`,
`GetLooksFromTheTop` and the refinement `ImplementsBindings`, from
`BoundsAssumption`. `Pushed`, `Popped` and `Bound` say what the operations do to
the set of live bindings of any table. The invariant `TInv` is `TypeOK`,
`GetLooksFromTheTop` and that the loop variable is zero between calls.
`GetLooksFromTheTop` is what makes the loop right: every binding of the key is
at or below the scope about to be read, so one found there is the deepest, and
there is none when the loop ends (`AnswerPromise`). A step that finds nothing is
a stutter of `Bindings`.

`ScopeWalkProofs` proves, for any names, types, sizes and bounds,
`StoresFitTheirSlots`, `LoadsMatchAnnotations`, `CheckedVariablesAreFound`,
`StorageIsDisjoint` and `BindingsAreStable`, from `TypesAssumption` and `Plain`:
both passes type every expression alike, as `PassesAgree` says they do but for
the exceptions it names. None is inductive; the argument is that of the two
tables. At every node the generator's is as deep as the checker's was there,
and binds no more in any scope, with the same types (`BindsLess`): it may bind
less, because the update of a FOR is bound early by one and late by the other.
Still, at every depth it shows what the checker's shows, of every name that no
pending update at or below that depth waits for (`Agreement`); and updates are
pending from the outside in, each at a scope in which the checker has bound it
(`Waiting`), so that what closes a scope leaves the rest of the stack right.
`Agreement` is about every depth and not only the top, which is what survives a
closing brace. `TapeInv` says that the nodes are those a checker accepted,
`DueInv` that an update at the innermost scope is the next thing to happen.
`MatchPush`, `MatchPop`, `MatchAssign` and `MatchAwait` are the four things that
happen to the pair of tables; each step is one of them. For storage
(`StorageInv`) parameters lie below `param_offset`, each after the other, and
the address of every stack slot is below the next.

`ControlFlowProofs` proves `JumpsAreClosed`, for the bodies of any functions, of
any depth, from `BodiesAssumption` (a body is a sequence of statements, and so
are the blocks of each of them). The invariant is about the code, the jumps
that tasks hold and the labels that loops will jump back to: every jump without
a target is held by a task, every target is a label, the label a loop holds is
there, and nothing is left to do once the function runs. `AppendClosed` and
`SetClosed` say what appending instructions and setting one target do to the
jumps that are open; each step of the generator is one or both.

That code is closed is not that it is right. The same module proves
`StatementsAreExecuted`, for the same bodies: the generated code refines
`Structured!SafeSpec`, so that it does the calls, assignments, conditions and
returns of the statements, in their order, and no other. One more assumption is
used, which the parser justifies: the init of a FOR holds only what is one
instruction here, `do`. The invariant, `RInv`, adds to the one above what is left at each
instruction (`means`): `Flowing`, an instruction does the first statement left,
and what is then left is what is left at the next instruction; `Landing`, what
is left where a jump lands is what is left if it is taken; and, while targets
are missing, `Leads`, each task ends where the next begins, and `Promised`, the
jump a task holds and the label of a loop wait for what that task will put
there. `TakesFlow` shows once that code which flows, appended where the
innermost task is, keeps all of this; each action only has to show that its own
two or three instructions do. When the function runs, `Landing` and `Flowing`
turn every instruction into a step of `Structured` or into none.

`DeclarationsProofs` proves `VerdictFitsProgram`, `AcceptedUsesAreGenerated` and
`ObjectsHoldTheirProperties` for every program: any number of specs, type
parameters, functions and properties, written in any order, from
`ProgramsAssumption` (a program is a tree of the parser's, of bodies with at most
one use). The first is about the end of a walk and a meaning that no walk computes.
What connects them is what lies *behind* the cursor: `Defs`, `Entries`, `Heads`,
`Props` and `Bodies` are the specs, the headers, the properties and the bodies
that a pass has left behind it (`Beyond`), and one lemma per visit says that it
adds what it visits to one of these sets and changes no other (`MadeSpec`,
`MadeHeader`, `TurnIs` and so on). The invariant `VerdictInv` says that the
outermost scope `Holds` the built in types and what is behind the cursor, each
under its mangled name, and nothing else; that the scope of the spec the pass is
in is there, and no other (`TableOf`); that what is behind `Fits`: no two names
clash and every type means something; and that each node behind has the symbol it
should (`Noted`). When a round has ended, all of its kind is behind, whatever the
order, so that a lookup finds a name if and only if the program has it: `ResolveIs`
says it of types, `FoundIs` of functions and properties, from `SignatureSame`: two lists
of argument types have the same mangled names exactly if they mean the same, in
two specs too. If the checker rejects, the visit it is at is a reason why
the program does not fit (`Refuse`), and `WellFormedIff` says that to fit, in
terms of names, is to be well formed, in terms of meanings.

For the generator, `GeneratorInv` says of its tables what `VerdictInv` says of the
checker's: `Registers`, `Objects`: they hold what is behind *its* cursor and
nothing else, under the keys on the nodes. So no visit finds its key taken, and
every use of an accepted program finds its function; a body that makes an instance
of a generic spec is not left behind (`NoInstances`), because the walk ends there.
The layout of an object is a sum over as many properties as it has, which no
prover can unfold. `SumsTo` says of a function f, without computing it, that f[j] is
the size of the first j properties; the invariant says that there is one
(`Laid`, `Summed`): the first round makes it longer by a property at a time
(`SumsMore`) and leaves f[n] in `type_size_table`; the second round, a property at
a time, is at the same f[j] (`OffsetIs`), which is what the getter and the setter
of a property get. Since f grows, the pieces lie apart and below f[n]
(`PiecesApart`). TLC found nothing wrong with the first version of this
model either; the proof did: an instance had been told apart by what its arguments
mean, and the code goes by what they are called. The family of two generic specs is
there for that.

`ParserProofs` proves `TypeOK` and `TreeIsWhole` for every source: any families of
`starts`, `tokens` and `ends`, of any length (`SourceAssumption`), wherever the lexer throws.
`TreeIsWhole` speaks of the moment Parse returns, when the stack is empty; what
makes it true is that at every moment before, each node has one owner, a
variable of one active function or one place under one parent. Neither half of
that can be read off the state: which variables own what they hold, and which
only look at it, is known to the program alone, and `Parser` holds programs as
data. So the proof is in two halves, with a small logic between them.

First half, each function alone. A `Point` is what is left of a function to
execute, with the variables it has set (`known`) and those that own a node
(`owned`). `Moves` is what each instruction asks for and leaves behind: a node is
given to a parent or to a callee by a variable that owns it, and is then owned
no longer; a variable that owns is never written over; what is deleted is owned,
and the next instruction throws; a function ends owning what it returns and
nothing else. A function is `Fit` if it is at a point from which every path
keeps to this, loops included: that there is such a set of points is a statement
without induction or recursion. `Block` says the same of a piece of program, with
what is known and owned on its ways out, and composes: there is a lemma per
instruction (`NewBlock`, `AddBlock`, `LendBlock`, `IfBlock`, `WhileBlock`, ...), one for two
pieces in a row, and one per idiom of the parser; with these, each of the
functions of `ParserGrammar` is one chain of lemmas, and `AllFit` is their sum. A
function of the grammar that leaked on a path that does not throw, or gave a
node to two parents, has no such proof. A call is judged by the signature of
the callee (`Lent`, `Handed`, `Gives`), so recursion costs nothing.

Second half, the stack. `Sound` says that there are a point for each frame and a map
from variables to nodes such that every frame stands at its point or `Waits` for
the one above, the owned variables hold different nodes, and the nodes are a
`Forest`: a node is owned or the child of one parent, once, and not both; the first
node is the module, which `Module` owns to the end (`Rooted`). There is a lemma per
instruction for what it does to the forest and to the map (`CallSound`,
`HandsBack`, and so on). An exception ends this: from the `throw` on the handlers delete
without regard to owners, which is why `NothingFreedTwice` does not hold. What
is kept, `Dying`, is enough for the type invariant and for the deletion of one
tree before a `throw`: what is to be freed is nobody's child, is in no place twice and
has not been freed (`Clearing`), so that nothing is freed twice before an exception is on
its way (the last conjunct of `TypeOK`). `ParserInv` is the sum, and implies both
properties.
Points and owners are quantified, so TLC cannot evaluate `ParserInv`; it checks
what follows from it.

Only model-checked: that the tree has the shape the walkers take for granted
(`TreeFitsTheWalkers`) and that operators bind (`OperatorsBind`), which need the
children each function has added so far in addition to their owners; that an error
of syntax leaks nothing (`SyntaxErrorsAreClean`), which is not so of every source, as the
run with operators shows; of `ImplementsStatements`
that execution does not stop before it returns; and the other liveness properties
(`BuildingEnds`, `GetEnds`, `EveryCallEnds`, `ParsingEnds`), which are out of the
prover's reach. `GetLooksFromTheTop` is proved only, as what the refinement of
`SymbolTable` rests on.

## Plan

In order; each step adds its module, runs and, where noted, proofs.

1. `SymbolTable`, `Bindings`: done and proved.
2. `ScopeWalk`: done and proved.
3. `ModuleLifecycle`: done and proved.
4. `Lexer`: done and proved, but that every call ends.
5. `ParserGrammar`, `AstShape`, `Parser`: done, nodes and their owners, shapes,
   precedence, termination. Proved: types, and one owner for every node. To prove:
   shapes and precedence, from points that also know the children added so far.
6. A composition of the lexer's window with the parser's: exceptions of the
   lexer at each place the parser advances are already inputs of `Parser`.
7. `Symbols`, `Expressions`: done and proved. The offsets of arguments, caller against
   callee, are in it.
8. `Declarations`, with the layout of objects: done and proved.
9. `Statements`, `Structured`, `ControlFlow`: done and proved.
10. `Arithmetic`: the values of words, which every model above leaves out: an
    int8 kept in a four byte register, casts to it that do not truncate,
    division and remainder, at a reduced width. It is one of the two hazards
    listed that no property covers; the other is the token `ParseModuleBody` leaves
    unread, of which the model keeps no record.

Not planned: formatting of error messages, the command line, the garbage
collector, NanoJIT's own translation, all of them either without state or not
this repository's code.
