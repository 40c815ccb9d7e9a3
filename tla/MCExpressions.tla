--------------------------- MODULE MCExpressions ---------------------------
(***************************************************************************)
(* Small declarations and families of bodies for Expressions.  Each family *)
(* is a set of walks and a bound, so that a few nodes are enough for the   *)
(* parts of the language that interact to meet.                            *)
(***************************************************************************)
EXTENDS Expressions

MCSpecs == {"S"}

Fn(id, spec, name, params, ret, access) ==
  [id |-> id, spec |-> spec, name |-> name, params |-> params, ret |-> ret,
   access |-> access]

\* Overloads by type and by spec, arguments of every size, each class of
\* return, a concealed member, a constructor with a parameter.
MCFunctions == {
  Fn("f(b,i)", "", "f", <<"int8", "int32">>, "int32", "public"),
  Fn("f(f)", "", "f", <<"float32">>, "float32", "public"),
  Fn("f(S,f)", "", "f", <<"S", "float32">>, "S", "public"),
  Fn("g()", "", "g", <<>>, "void", "public"),
  Fn("g(i)", "", "g", <<"int32">>, "bool", "public"),
  Fn("S.f(f)", "S", "f", <<"float32">>, "S", "public"),
  Fn("S.h()", "S", "h", <<>>, "int8", "concealed"),
  Fn("S.construct(i)", "S", "construct", <<"int32">>, "void", "public")}

Prop(id, name, type, get, set) ==
  [id |-> id, spec |-> "S", name |-> name, type |-> type, get |-> get, set |-> set]
MCProperties == {
  Prop("S.n", "n", "int32", "public", "public"),
  Prop("S.v", "v", "void", "public", "public"),
  Prop("S.x", "x", "float32", "public", "concealed"),
  Prop("S.s", "s", "S", "concealed", "concealed")}

Body(kind, spec, params, ret) ==
  [kind |-> kind, spec |-> spec, params |-> params, ret |-> ret]
Param(name, type) == [name |-> name, type |-> type]

Static(params, ret) == Body("function", "", params, ret)
Method(params, ret) == Body("function", "S", params, ret)

Plain(ops) == {<<op, "">> : op \in ops}
OpOf(op, data) == {<<op, d>> : d \in data}
Returns == {<<"return", 0>>, <<"return", 1>>}

MCFamilies == {
  \* Arithmetic, comparison and logic.
  [contexts |-> {Static(<<Param("b", "bool")>>, "int32")},
   walks |-> OpOf("literal", {"int32", "float32"}) \cup OpOf("variable", {"b"})
               \cup Plain({"add", "sub", "negate", "ordering", "equality", "not",
                           "logic", "clause", "if"}),
   most |-> 6],
  \* Literals of every type, default values, and casts between them.
  [contexts |-> {Static(<<>>, t) : t \in {"bool", "void", "int8"}},
   walks |-> OpOf("literal", {"int32", "float32", "bool", "string"})
               \cup OpOf("default", {"int8", "S", "void"})
               \cup OpOf("call", {"int8", "int32", "float32", "bool", "S"} \X {1})
               \cup OpOf("multiply", {"mod"})
               \cup Plain({"char", "add", "equality", "clause"}) \cup Returns,
   most |-> 4],
  \* Calls and overloads; casts when there is none.
  [contexts |-> {Static(<<Param("s", "S")>>, "float32"), Static(<<>>, "void")},
   walks |-> OpOf("literal", {"int32", "float32"}) \cup OpOf("default", {"int8"})
               \cup OpOf("variable", {"s"})
               \cup OpOf("call", {<<"f", 2>>, <<"f", 1>>, <<"g", 0>>, <<"g", 1>>,
                                  <<"int8", 1>>})
               \cup Plain({"char", "discard", "if"}) \cup Returns,
   most |-> 5],
  \* Objects: members, properties, constructors, in and out of their spec.
  [contexts |-> {Method(<<Param("a", "S")>>, "S"), Static(<<Param("a", "S")>>, "void"),
                 Body("get", "S", <<>>, "int32"),
                 Body("set", "S", <<Param("value", "int32")>>, "int32")},
   walks |-> OpOf("literal", {"int32", "float32"}) \cup OpOf("variable", {"this", "a"})
               \cup OpOf("get", {"n", "x", "s"}) \cup OpOf("set", {"n", "x", "s"})
               \cup OpOf("new", {<<"S", 1>>})
               \cup OpOf("member_call", {<<"f", 1>>, <<"h", 0>>, <<"g", 0>>})
               \cup Plain({"add", "discard", "clause"}) \cup Returns,
   most |-> 5],
  \* Variables, assigned once, twice and in a chain.
  [contexts |-> {Method(<<Param("a", "int32"), Param("b", "bool")>>, "float32")},
   walks |-> OpOf("literal", {"int32", "float32", "bool"})
               \cup OpOf("assign", {"a", "x", "this"})
               \cup OpOf("variable", {"a", "b", "x"})
               \cup Plain({"add", "discard", "if"}) \cup Returns,
   most |-> 6],
  \* Objects compared; names that mean something else: types and "this".
  [contexts |-> {Static(<<Param("bool", "float32"), Param("S", "int32"),
                          Param("this", "int32")>>, "S"),
                 Method(<<Param("bool", "S")>>, "S")},
   walks |-> OpOf("literal", {"int32"}) \cup OpOf("default", {"S"})
               \cup OpOf("variable", {"bool", "S", "this"})
               \cup OpOf("assign", {"x"}) \cup OpOf("new", {<<"S", 1>>})
               \cup OpOf("get", {"v"})
               \cup OpOf("call", {<<"f", 2>>, <<"int32", 1>>})
               \cup Plain({"add", "not", "equality", "clause", "if"}) \cup Returns,
   most |-> 5],
  \* A parameter called "none", of any type.
  [contexts |-> {Static(<<Param("none", t)>>, "float32") : t \in {"bool", "int32", "S"}},
   walks |-> OpOf("literal", {"int32", "float32"}) \cup OpOf("variable", {"none"})
               \cup OpOf("multiply", {"div"}) \cup OpOf("call", {<<"f", 1>>})
               \cup Plain({"add", "sub", "ordering", "equality", "clause"}) \cup Returns,
   most |-> 5]}
=============================================================================
