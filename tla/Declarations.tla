---------------------------- MODULE Declarations ----------------------------
(***************************************************************************)
(* A module as its declarations: static functions, specs, their functions  *)
(* and properties, and which of these the bodies use.  AstWalker visits    *)
(* specs first, then the headers of functions and properties, then bodies, *)
(* so that nothing needs to be declared before it is used; the type        *)
(* checker makes the walk, then the code generator, each with its own      *)
(* table.  A name is looked up as it is mangled: a spec's with one mark    *)
(* for each of its type parameters, a function's with its spec and the     *)
(* names of the types of its arguments.                                    *)
(*                                                                         *)
(* What a use is part of is the subject of Expressions: its arguments, and *)
(* the object of a member, are default values of the types it names, or    *)
(* "this".  Bounds: a type argument is a plain name, one body uses at most *)
(* one thing, what is called is not the name of a type (that would be a    *)
(* cast), and accessors of properties have no body.                        *)
(***************************************************************************)
EXTENDS ScopedTable, FiniteSets

CONSTANT Programs
  (* A program: functions and specs, two sequences.  "op" of a use is      *)
  (* "call", "member", "get", "set" or "new".                              *)

\* "this" is a keyword: it stands for an object, and is no name of a type.
ThisObject == [name |-> "this", args |-> <<>>]
TypeNodes == [name : STRING \ {"this"}, args : Seq(STRING)]
Uses ==
  [op : {"new"}, on : TypeNodes, name : STRING, args : Seq(TypeNodes)]
    \cup [op : {"call", "member", "get", "set"}, on : TypeNodes \cup {ThisObject},
          name : STRING, args : Seq(TypeNodes)]
FunctionNodes ==
  [name : STRING, access : STRING, ret : TypeNodes, params : Seq(TypeNodes), uses : Seq(Uses)]
PropertyNodes == [name : STRING, get : STRING, set : STRING, type : TypeNodes]
SpecNodes ==
  [name : STRING, params : Seq(STRING), functions : Seq(FunctionNodes),
   properties : Seq(PropertyNodes)]
ProgramNodes == [specs : Seq(SpecNodes), functions : Seq(FunctionNodes)]

OneUse(functions) == \A n \in DOMAIN functions : Len(functions[n].uses) <= 1
ASSUME ProgramsAssumption ==
  /\ Programs \subseteq ProgramNodes
  /\ \A p \in Programs :
       OneUse(p.functions) /\ \A i \in DOMAIN p.specs : OneUse(p.specs[i].functions)

VARIABLES
  program,
  phase,           (* which pass is running, or how the compilation ended  *)
  at,              (* where the pass is in the tree                        *)
  symbol_table,    (* SemanticAstWalker::symbol_table_                     *)
  symbols,         (* the symbols on nodes: visit -> symbol                *)
  register_table,  (* LIRGenAstWalker::register_table_; an offset, or 0    *)
  type_size_table, (* LIRGenAstWalker::type_size_table_                    *)
  property_offset, (* LIRGenAstWalker::property_offset_                    *)
  compiled_size    (* of the object whose properties are being summed      *)

sem_vars == <<symbol_table, symbols>>
gen_vars == <<register_table, type_size_table, property_offset, compiled_size>>
vars == <<program, phase, at, sem_vars, gen_vars>>

-----------------------------------------------------------------------------
(***************************************************************************)
(* Names and symbols.  Spec 0 stands for no spec.                          *)
(***************************************************************************)
Sizes == INSTANCE Symbols WITH Specs <- {}
BUILTIN_TYPES ==
  {[kind |-> "type", name |-> <<t>>, size |-> Sizes!SizeOf(t)] : t \in Sizes!BuiltinTypes}

\* MangleSpecTemplateSymbolName
Marked(name, params) == <<name>> \o [i \in DOMAIN params |-> "~"]

TypeKey(name) == <<"type", name>>
FunctionKey(spec_name, name, types) == <<"function", spec_name, name, types>>
GetKey(spec_name, name) == <<"<-", spec_name, name>>
SetKey(spec_name, name) == <<"->", spec_name, name>>
This == <<"Local%%", "this">>

SpecName(i) ==
  IF i = 0 THEN <<>> ELSE Marked(program.specs[i].name, program.specs[i].params)
SpecSymbol(i) ==
  [kind |-> IF program.specs[i].params = <<>> THEN "type" ELSE "generic",
   name |-> SpecName(i), size |-> 8]
TemplateType(name) == [kind |-> "template", name |-> <<name>>, size |-> 8]

FunctionsOf(i) == IF i = 0 THEN program.functions ELSE program.specs[i].functions
PropertiesOf(i) == IF i = 0 THEN <<>> ELSE program.specs[i].properties
Specs == DOMAIN program.specs
Owners == {0} \cup Specs

\* Lookup: no symbol or one.
Look(table, key) == IF IsBound(table, key) THEN {Get(table, key)} ELSE {}

\* ResolveTypeNode: a generic spec is instantiated, its arguments resolved.
The(symbols_found) == CHOOSE s \in symbols_found : TRUE
Argument(table, name) == Look(table, TypeKey(<<name>>))
Instance(table, t) ==
  [kind |-> "instance", size |-> 8,
   name |-> <<t.name, "<", [n \in DOMAIN t.args |-> The(Argument(table, t.args[n])).name]>>]
Resolve(table, t) ==
  LET found == Look(table, TypeKey(Marked(t.name, t.args))) IN
  IF \A s \in found : s.kind # "generic" THEN found
  ELSE IF \A n \in DOMAIN t.args : Argument(table, t.args[n]) # {} THEN {Instance(table, t)}
  ELSE {}

\* All of the types, if there is a symbol for each.
ResolveAll(table, types) ==
  IF \E n \in DOMAIN types : Resolve(table, types[n]) = {} THEN {}
  ELSE {[n \in DOMAIN types |-> The(Resolve(table, types[n]))]}
NamesOf(ss) == [n \in DOMAIN ss |-> ss[n].name]

-----------------------------------------------------------------------------
(***************************************************************************)
(* The walk: WalkModuleChildren and the functions it calls.  It scans for  *)
(* the names of specs, then for headers, then for bodies; a scan goes over *)
(* the static functions (spec 0) and then over each spec.  Item 0 of a     *)
(* spec comes before its functions.                                        *)
(***************************************************************************)
SCAN_SPEC_DEF == 1
SCAN_PROP_FUNC_DEF == 2
SCAN_IMPL_DEF == 3
Start(scan, i) == [scan |-> scan, spec |-> i, item |-> IF i = 0 THEN 1 ELSE 0]

\* The last thing a scan comes to in spec i, or before the specs.  The first
\* scan of the generator sums the properties, one by one.
Last(scan, i) ==
  CASE scan = SCAN_SPEC_DEF ->
         IF phase = "generate" THEN Len(PropertiesOf(i)) ELSE 0
    [] scan = SCAN_PROP_FUNC_DEF ->
         Len(FunctionsOf(i)) + Len(PropertiesOf(i)) + (IF i = 0 THEN 0 ELSE 1)
    [] scan = SCAN_IMPL_DEF -> Len(FunctionsOf(i)) + (IF i = 0 THEN 0 ELSE 1)

\* What the walk calls for where it is.
Visit(op, i, j) == [op |-> op, spec |-> i, item |-> j]
Here ==
  LET i == at.spec  j == at.item  p == at.item - Len(FunctionsOf(i)) IN
  CASE at.scan = SCAN_SPEC_DEF ->
         IF phase = "generate" /\ j < Len(PropertiesOf(i)) THEN Visit("size", i, j + 1)
         ELSE Visit("spec", i, 0)
    [] at.scan # SCAN_SPEC_DEF /\ j = 0 -> Visit("enter", i, 0)
    [] at.scan = SCAN_PROP_FUNC_DEF /\ j \in DOMAIN FunctionsOf(i) -> Visit("header", i, j)
    [] at.scan = SCAN_IMPL_DEF /\ j \in DOMAIN FunctionsOf(i) -> Visit("body", i, j)
    [] at.scan = SCAN_PROP_FUNC_DEF /\ p \in DOMAIN PropertiesOf(i) -> Visit("property", i, p)
    [] OTHER -> Visit("leave", i, 0)

Onward == at' = [at EXCEPT !.item = at.item + 1]

\* Nothing is left of the spec, or of the static functions: to the next spec,
\* or to the next scan.
FaultNext(scan, i) ==
  IF i = 0 /\ scan = SCAN_PROP_FUNC_DEF THEN Start(SCAN_IMPL_DEF, 0)
  ELSE IF i = 0 /\ scan = SCAN_IMPL_DEF THEN Start(SCAN_PROP_FUNC_DEF, 1)
  ELSE IF i < Len(program.specs) THEN Start(scan, i + 1)
  ELSE IF scan = SCAN_PROP_FUNC_DEF THEN Start(SCAN_IMPL_DEF, 1)
  ELSE Start(scan + 1, 0)
NextBlock(scan, i) ==
  IF i < Len(program.specs) THEN Start(scan, i + 1) ELSE Start(scan + 1, 0)
Walking(pass) == phase = pass /\ at.scan <= SCAN_IMPL_DEF
Turn ==
  /\ Walking("check") \/ Walking("generate")
  /\ at.item > Last(at.scan, at.spec)
  /\ at' = NextBlock(at.scan, at.spec)
  /\ UNCHANGED <<program, phase, sem_vars, gen_vars>>

Init ==
  /\ program \in Programs
  /\ phase = "check"
  /\ at = Start(SCAN_SPEC_DEF, 0)
  /\ symbol_table = <<[k \in {TypeKey(s.name) : s \in BUILTIN_TYPES} |->
                        CHOOSE s \in BUILTIN_TYPES : TypeKey(s.name) = k]>>
  /\ symbols = EmptyScope
  /\ register_table = <<EmptyScope>>
  /\ type_size_table = EmptyScope
  /\ property_offset = 0
  /\ compiled_size = 0

Reaches(pass, op) ==
  /\ Walking(pass)
  /\ at.item <= Last(at.scan, at.spec)
  /\ Here.op = op
  /\ UNCHANGED program

-----------------------------------------------------------------------------
(***************************************************************************)
(* The type checker.                                                       *)
(***************************************************************************)

\* A visit leaves a symbol on its node, unless the checker throws.
Checks(op, allowed, table, symbol) ==
  /\ Reaches("check", op)
  /\ \/ ~allowed /\ phase' = "rejected" /\ UNCHANGED <<at, sem_vars>>
     \/ /\ allowed
        /\ Onward
        /\ symbol_table' = table
        /\ symbols' = Bind(symbols, Here, symbol)
        /\ UNCHANGED phase
  /\ UNCHANGED gen_vars

Unbound(key) == key \notin DOMAIN symbol_table[1]

\* WalkSpecDeclarationPrescan
CheckSpec ==
  LET symbol == SpecSymbol(Here.spec)
      key == TypeKey(symbol.name)
  IN  Checks("spec", Unbound(key), PutBottom(symbol_table, key, symbol), symbol)

\* WalkSpec, WalkSpecDeclaration: a scope with the type parameters and "this".
ParamKeys(i) ==
  {TypeKey(<<program.specs[i].params[n]>>) : n \in DOMAIN program.specs[i].params}
ParamScope(i) ==
  [k \in ParamKeys(i) \cup {This} |->
     IF k = This THEN SpecSymbol(i) ELSE TemplateType(k[2][1])]
CheckEnter ==
  LET params == program.specs[Here.spec].params IN
  Checks("enter", Cardinality({params[n] : n \in DOMAIN params}) = Len(params),
         Append(symbol_table, ParamScope(Here.spec)), SpecSymbol(Here.spec))
CheckLeave ==
  Checks("leave", TRUE, Pop(symbol_table), SpecSymbol(Here.spec))

\* WalkFunctionChildren, prescan: the parameters, the return type, the name.
IsVoid(s) == s.name = <<"void">>
Params(f) ==
  {ss \in ResolveAll(symbol_table, f.params) : \A n \in DOMAIN ss : ~IsVoid(ss[n])}
FunctionSymbol(i, j, key) ==
  [kind |-> "function", key |-> key, access |-> FunctionsOf(i)[j].access,
   spec_name |-> IF i = 0 THEN <<>> ELSE <<program.specs[i].name>>,
   item |-> Visit("header", i, j)]
CheckHeader ==
  LET i == Here.spec  j == Here.item
      f == FunctionsOf(i)[j]
      params == Params(f)
      key == FunctionKey(SpecName(i), f.name, NamesOf(The(params)))
      symbol == FunctionSymbol(i, j, key)
      allowed == params # {} /\ Resolve(symbol_table, f.ret) # {} /\ Unbound(key)
  IN  Checks("header", allowed, PutBottom(symbol_table, key, symbol), symbol)

\* WalkSpecPropertyDeclaration, prescan: a getter and a setter.
PropertySymbol(i, j, key, access, type) ==
  [kind |-> "property", key |-> key, access |-> access, spec_name |-> SpecName(i),
   item |-> Visit("property", i, j), size |-> type.size]
CheckProperty ==
  LET i == Here.spec  j == Here.item
      p == PropertiesOf(i)[j]
      types == Resolve(symbol_table, p.type)
      type == The(types)
      get == PropertySymbol(i, j, GetKey(SpecName(i), p.name), p.get, type)
      set == PropertySymbol(i, j, SetKey(SpecName(i), p.name), p.set, type)
      allowed == types # {} /\ Unbound(get.key) /\ Unbound(set.key)
      table == PutBottom(PutBottom(symbol_table, get.key, get), set.key, set)
  IN  Checks("property", allowed, table, [get |-> get, set |-> set])

\* What a use finds by its name: a symbol or none.
Object(t) == IF t.name = "this" THEN Look(symbol_table, This) ELSE Resolve(symbol_table, t)
Static(use, types) == Look(symbol_table, FunctionKey(<<>>, use.name, types))
Member(use, spec_name, types) ==
  Look(symbol_table, FunctionKey(spec_name, use.name, types))
Finding(use, types) ==
  CASE use.op = "call" -> Static(use, types)
    [] use.op = "member" ->
         UNION {IF Member(use, on.name, types) # {} THEN Member(use, on.name, types)
                ELSE Static(use, types) : on \in Object(use.on)}
    [] use.op = "get" ->
         UNION {Look(symbol_table, GetKey(on.name, use.name)) : on \in Object(use.on)}
    [] use.op = "set" ->
         UNION {Look(symbol_table, SetKey(on.name, use.name)) : on \in Object(use.on)}
    [] use.op = "new" ->
         UNION {Member(use, Marked(use.on.name, use.on.args), types) : on \in Object(use.on)}
Finds(use) ==
  UNION {Finding(use, NamesOf(ss)) : ss \in ResolveAll(symbol_table, use.args)}

\* CheckAccessModifier, which nobody calls for a constructor.
Accessible(symbol, use) ==
  \/ use.op = "new"
  \/ symbol.access = "public"
  \/ symbol.access = "concealed" /\ symbol.spec_name = SpecName(Here.spec)

\* WalkFunctionChildren: the parameters again, and the body.
CheckBody ==
  LET f == FunctionsOf(Here.spec)[Here.item]
      use == f.uses[1]
      found == {s \in Finds(use) : Accessible(s, use)}
      type == IF use.op = "new" THEN The(Object(use.on)).name ELSE <<>>
      allowed == Params(f) # {} /\ (f.uses = <<>> \/ found # {})
  IN  Checks("body", allowed, symbol_table,
             IF f.uses = <<>> THEN {} ELSE [found |-> The(found), type |-> type])

CheckEnd ==
  /\ phase = "check"
  /\ at.scan > SCAN_IMPL_DEF
  /\ phase' = "generate"
  /\ at' = Start(SCAN_SPEC_DEF, 0)
  /\ UNCHANGED <<program, sem_vars, gen_vars>>

Check ==
  \/ CheckSpec \/ CheckEnter \/ CheckLeave \/ CheckHeader \/ CheckProperty
  \/ CheckBody \/ CheckEnd

-----------------------------------------------------------------------------
(***************************************************************************)
(* The code generator makes the same walk, and looks things up by the      *)
(* names of the symbols it finds on the nodes.                             *)
(***************************************************************************)
Symbol == symbols[Here]
Generates(op, fate) ==
  /\ Reaches("generate", op)
  /\ phase' = fate
  /\ Onward
  /\ UNCHANGED sem_vars

\* WalkSpecDeclaration, prescan: the size of an object, a sum.
GenSize ==
  /\ Generates("size", "generate")
  /\ compiled_size' = compiled_size + symbols[Visit("property", Here.spec, Here.item)].get.size
  /\ UNCHANGED <<register_table, type_size_table, property_offset>>
GenSpec ==
  /\ Generates("spec", "generate")
  /\ type_size_table' = IF Symbol.name \in DOMAIN type_size_table THEN type_size_table
                         ELSE Bind(type_size_table, Symbol.name, compiled_size)
  /\ compiled_size' = 0
  /\ property_offset' = 0
  /\ UNCHANGED register_table

\* WalkSpec
FaultGenEnter ==
  /\ Generates("enter", "generate")
  /\ register_table' = Push(register_table)
  /\ UNCHANGED <<type_size_table, property_offset, compiled_size>>
GenEnter ==
  /\ Generates("enter", "generate")
  /\ register_table' = Push(register_table)
  /\ property_offset' = 0
  /\ UNCHANGED <<type_size_table, compiled_size>>
GenLeave ==
  /\ Generates("leave", "generate")
  /\ register_table' = Pop(register_table)
  /\ UNCHANGED <<type_size_table, property_offset, compiled_size>>

\* WalkFunctionChildren, prescan: where the function's code will be found.
FaultGenHeader ==
  /\ Generates("header", "generate")
  /\ register_table' = Put(register_table, Symbol.key, 0)
  /\ UNCHANGED <<type_size_table, property_offset, compiled_size>>
GenHeader ==
  LET new == Symbol.key \notin DOMAIN register_table[1] IN
  /\ Generates("header", IF new THEN "generate" ELSE "failed")
  /\ register_table' = IF new THEN PutBottom(register_table, Symbol.key, 0) ELSE register_table
  /\ UNCHANGED <<type_size_table, property_offset, compiled_size>>

\* WalkSpecPropertyDeclaration, prescan
GenProperty ==
  LET get == Symbol.get.key  set == Symbol.set.key
      new == {get, set} \cap DOMAIN register_table[1] = {}
  IN  /\ Generates("property", IF new THEN "generate" ELSE "failed")
      /\ register_table' =
           IF new THEN PutBottom(PutBottom(register_table, get, property_offset),
                                 set, property_offset)
           ELSE register_table
      /\ property_offset' = property_offset + Symbol.get.size
      /\ UNCHANGED <<type_size_table, compiled_size>>

\* A use, by the handlers of Expressions: "new" first asks for the size of the
\* object, and what is thrown if there is none is no Exception.
GenBody ==
  LET uses == FunctionsOf(Here.spec)[Here.item].uses IN
  /\ Generates("body",
       IF uses = <<>> THEN "generate"
       ELSE IF uses[1].op = "new" /\ Symbol.type \notin DOMAIN type_size_table
       THEN "uncaught"
       ELSE IF ~IsBound(register_table, Symbol.found.key) THEN "failed"
       ELSE "generate")
  /\ UNCHANGED gen_vars

GenEnd ==
  /\ phase = "generate"
  /\ at.scan > SCAN_IMPL_DEF
  /\ phase' = "done"
  /\ UNCHANGED <<program, at, sem_vars, gen_vars>>

Generate ==
  GenSize \/ GenSpec \/ GenEnter \/ GenLeave \/ GenHeader \/ GenProperty \/ GenBody \/ GenEnd

Next == Turn \/ Check \/ Generate

Spec == Init /\ [][Next]_vars

-----------------------------------------------------------------------------
(***************************************************************************)
(* What a program means, whatever the order of its declarations.  A type   *)
(* used in spec i is a type parameter of i, a built in type, a spec, or an *)
(* instance of one: a set of one meaning, or of none.                      *)
(***************************************************************************)
Elements(seq) == {seq[n] : n \in DOMAIN seq}
IsGeneric(i) == program.specs[i].params # <<>>

PlainMeanings(i, name) ==
  LET types == {<<"built in", s.name[1]>> : s \in {b \in BUILTIN_TYPES : b.name = <<name>>}}
                 \cup {<<"spec", k>> : k \in {k \in Specs : program.specs[k].name = name
                                                            /\ ~IsGeneric(k)}}
      params == IF i = 0 THEN {} ELSE Elements(program.specs[i].params)
  IN  IF types # {} THEN types ELSE {<<"parameter", name>> : p \in {name} \cap params}
Meanings(i, t) ==
  IF t.name = "this" THEN {<<"spec", i>> : k \in {i} \ {0}}
  ELSE IF t.args = <<>> THEN PlainMeanings(i, t.name)
  ELSE {<<"instance", k, [n \in DOMAIN t.args |-> PlainMeanings(i, t.args[n])]>>
        : k \in {k \in Specs :
                   /\ program.specs[k].name = t.name
                   /\ Len(program.specs[k].params) = Len(t.args)
                   /\ \A n \in DOMAIN t.args : PlainMeanings(i, t.args[n]) # {}}}
Means(i, t) == Meanings(i, t) # {}
Signature(i, types) == [n \in DOMAIN types |-> Meanings(i, types[n])]

\* The functions of spec k, or of no spec, that take values of these types.
Taking(k, name, signature) ==
  {Visit("header", k, j) : j \in {j \in DOMAIN FunctionsOf(k) :
     /\ FunctionsOf(k)[j].name = name
     /\ Signature(k, FunctionsOf(k)[j].params) = signature}}
Called(k, name) ==
  {Visit("property", k, j) : j \in {j \in DOMAIN PropertiesOf(k) :
                                      PropertiesOf(k)[j].name = name}}

\* What a use in spec i denotes.  An instance of a generic spec has no
\* members; a member that is not there may be a function of no spec.
OwnersOf(i, use) ==
  {m[2] : m \in {m \in Meanings(i, use.on) :
                    m[1] = "spec" \/ (use.op = "new" /\ m[1] = "instance")}}
Denotes(i, use) ==
  LET signature == Signature(i, use.args)
      members == UNION {Taking(k, use.name, signature) : k \in OwnersOf(i, use)}
      statics == Taking(0, use.name, signature)
  IN  IF \E n \in DOMAIN use.args : ~Means(i, use.args[n]) THEN {}
      ELSE IF use.op = "call" THEN statics
      ELSE IF ~Means(i, use.on) THEN {}
      ELSE IF use.op \in {"get", "set"}
      THEN UNION {Called(k, use.name) : k \in OwnersOf(i, use)}
      ELSE IF use.op = "member" /\ members = {} THEN statics
      ELSE members

\* Nothing of another spec that is concealed, and no function that is
\* concealed in a generic spec, not even there.
AccessOf(use, item) ==
  CASE use.op = "get" -> PropertiesOf(item.spec)[item.item].get
    [] use.op = "set" -> PropertiesOf(item.spec)[item.item].set
    [] OTHER -> FunctionsOf(item.spec)[item.item].access
MayUse(i, use, item) ==
  \/ use.op = "new"
  \/ AccessOf(use, item) = "public"
  \/ /\ AccessOf(use, item) = "concealed"
     /\ item.spec = i
     /\ item.op = "property" \/ i = 0 \/ ~IsGeneric(i)

Distinct(seq) == \A m, n \in DOMAIN seq : m # n => seq[m] # seq[n]
WellFormed ==
  /\ Distinct([i \in Specs |-> <<program.specs[i].name, Len(program.specs[i].params)>>])
  /\ \A i \in Specs :
       /\ IsGeneric(i) \/ \A b \in BUILTIN_TYPES : b.name # <<program.specs[i].name>>
       /\ Distinct(program.specs[i].params)
       /\ Distinct([n \in DOMAIN PropertiesOf(i) |-> PropertiesOf(i)[n].name])
       /\ \A p \in Elements(PropertiesOf(i)) : Means(i, p.type)
  /\ \A i \in Owners :
       /\ Distinct([n \in DOMAIN FunctionsOf(i) |->
                     <<FunctionsOf(i)[n].name, Signature(i, FunctionsOf(i)[n].params)>>])
       /\ \A f \in Elements(FunctionsOf(i)) :
            /\ Means(i, f.ret)
            /\ \A t \in Elements(f.params) :
                 Means(i, t) /\ t # [name |-> "void", args |-> <<>>]
            /\ \A use \in Elements(f.uses) : \E item \in Denotes(i, use) : MayUse(i, use, item)

Accepted == phase \in {"generate", "failed", "uncaught", "done"}
UsesIn(i) ==
  {j \in DOMAIN FunctionsOf(i) : FunctionsOf(i)[j].uses # <<>>}

(* The type checker accepts exactly the programs that mean something, in   *)
(* whatever order their specs and functions are written and refer to each  *)
(* other, and every use in them finds what it denotes: the order of the    *)
(* scans, the scopes of type parameters and the mangled names agree.       *)
VerdictFitsProgram ==
  /\ phase = "rejected" => ~WellFormed
  /\ Accepted =>
       /\ WellFormed
       /\ \A i \in Owners : \A j \in UsesIn(i) :
            symbols[Visit("body", i, j)].found.item
              \in Denotes(i, FunctionsOf(i)[j].uses[1])

(* What the checker found, the generator finds in its own table, which it  *)
(* fills by the same walk; a function that makes an instance of a generic  *)
(* spec is the one thing accepted that it cannot compile, and that leaves  *)
(* it as no Exception.                                                     *)
MakesInstance(i, j) ==
  LET use == FunctionsOf(i)[j].uses[1] IN use.op = "new" /\ use.on.args # <<>>
AcceptedUsesAreGenerated ==
  /\ phase # "failed"
  /\ phase = "uncaught" => \E i \in Owners : \E j \in UsesIn(i) : MakesInstance(i, j)
  /\ phase = "done" => \A i \in Owners : \A j \in UsesIn(i) : ~MakesInstance(i, j)

(* The properties of an object lie apart, inside the object that is        *)
(* allocated, and a getter reads where the setter of its property writes,  *)
(* although sizes are summed in one scan and offsets in another.           *)
SizeOfType(i, t) ==
  LET m == The(Meanings(i, t)) IN
  IF m[1] = "built in" /\ t.name \notin Elements(program.specs[i].params)
  THEN Sizes!SizeOf(m[2]) ELSE 8
ObjectsHoldTheirProperties ==
  phase = "done" =>
    \A i \in Specs :
      LET Offset(j) == register_table[1][GetKey(SpecName(i), PropertiesOf(i)[j].name)]
          Bytes(j) == Offset(j) .. (Offset(j) + SizeOfType(i, PropertiesOf(i)[j].type) - 1)
      IN  \A j \in DOMAIN PropertiesOf(i) :
            /\ register_table[1][SetKey(SpecName(i), PropertiesOf(i)[j].name)] = Offset(j)
            /\ Bytes(j) \subseteq 0 .. (type_size_table[SpecName(i)] - 1)
            /\ \A k \in 1 .. (j - 1) : Bytes(j) \cap Bytes(k) = {}

=============================================================================
