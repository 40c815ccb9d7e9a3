------------------------------ MODULE Symbols ------------------------------
(***************************************************************************)
(* The symbols the type checker hangs on nodes and keeps in its table, and *)
(* the types they lead to.  A TypeSymbol is a name; its format and size    *)
(* follow from it.  A FunctionSymbol stands for a function, a property, a  *)
(* parameter or a variable: a name of its own and the symbol it returns.   *)
(* Symbols are compared by name alone, whatever they are symbols of, and   *)
(* type_symbol() takes what a FunctionSymbol returns for a TypeSymbol      *)
(* without looking.                                                        *)
(***************************************************************************)
EXTENDS Naturals

CONSTANT Specs   (* names of specs, which are types held by pointer         *)

BuiltinTypes == {"void", "bool", "int32", "float32", "string", "int8"}
Types == BuiltinTypes \cup Specs

ASSUME SpecsAssumption == Specs \cap (BuiltinTypes \cup {"none", ""}) = {}

TypeSymbol(t) == [kind |-> "type", name |-> t]
FunctionSymbol(kind, name, s) == [kind |-> kind, name |-> name, returns |-> s]

\* A node no symbol has been set on.
NoSymbol == [kind |-> "null"]

IsType(s) == s.kind = "type"

\* SymbolBase::operator==
Same(s, u) == s.name = u.name
Is(s, t) == s.name = t

\* type_symbol(): one step, and then a cast.
TypeOf(s) == IF IsType(s) THEN s ELSE s.returns

\* Whether what type_symbol() leads to is a type.  If it is not, its format
\* and size are read from memory that holds something else.
Formed(s) == IsType(TypeOf(s))

FormatOf(t) ==
  CASE t = "void"              -> "void"
    [] t = "bool"              -> "bool"
    [] t \in {"int32", "int8"} -> "int"
    [] t = "float32"           -> "float"
    [] OTHER                   -> "pointer"

SizeOf(t) ==
  CASE FormatOf(t) = "void"    -> 0
    [] FormatOf(t) = "pointer" -> 8
    [] t = "int8"              -> 1
    [] OTHER                   -> 4

Format(s) == FormatOf(TypeOf(s).name)
Size(s) == SizeOf(TypeOf(s).name)

\* The kind of machine word an instruction yields for a value of a format:
\* an int, a float, a pointer.
KindOf(format) ==
  CASE format = "pointer" -> "p"
    [] format = "float"   -> "f"
    [] OTHER              -> "i"

Numeric == {"int", "float"}
=============================================================================
