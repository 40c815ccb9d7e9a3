--------------------------- MODULE MCDeclarations ---------------------------
(***************************************************************************)
(* Families of small programs for Declarations.  In each, one function has *)
(* a use, which may come before or after what it names.                    *)
(***************************************************************************)
EXTENDS Declarations

T(name) == [name |-> name, args |-> <<>>]
L(name) == [name |-> "L", args |-> <<name>>]

Use(op, on, name, args) == [op |-> op, on |-> on, name |-> name, args |-> args]
Fn(name, access, params, ret, uses) ==
  [name |-> name, access |-> access, ret |-> ret, params |-> params, uses |-> uses]
Prop(name, type, get, set) == [name |-> name, get |-> get, set |-> set, type |-> type]
Sp(name, params, functions, properties) ==
  [name |-> name, params |-> params, functions |-> functions, properties |-> properties]
AllOf(specs, functions) ==
  {[specs |-> s, functions |-> f] : s \in specs, f \in functions}

Empty(name, access, params) == Fn(name, access, params, T("void"), <<>>)
Using(op, on, name, args) ==
  Fn("u", "public", <<>>, T("int32"), <<Use(op, on, name, args)>>)
Access == {"public", "concealed", "internal"}

\* Functions, overloads and the fallback of a member, within and across specs.
CallUses ==
  {Using(op, on, "f", args) : op \in {"call", "member"}, on \in {T("this"), T("A"), T("B")},
     args \in {<<>>, <<T("int32")>>, <<T("A")>>, <<T("B")>>}}
Callees == {Empty("f", a, p) : a \in Access, p \in {<<>>, <<T("A")>>}}
Calls ==
  AllOf({<<Sp("A", <<>>, <<u, c>>, <<>>), Sp("B", <<>>, <<d>>, <<>>)>>
             : u \in CallUses, c \in Callees, d \in Callees},
            {<<>>, <<Empty("f", "concealed", <<>>)>>, <<Empty("f", "public", <<T("B")>>)>>})
  \cup AllOf({<<>>, <<Sp("A", <<>>, <<Empty("f", "public", <<>>)>>, <<>>)>>},
         {<<u, c>> : u \in CallUses, c \in Callees} \cup {<<c, d>> : c \in Callees, d \in Callees})

\* Declarations that clash, or that name types that are not there.
Types == {T("void"), T("int32"), T("A"), T("B"), L("int32")}
Clashes ==
  AllOf({<<Sp(n, p, <<>>, <<>>), Sp("A", q, <<Empty("f", "public", <<t>>)>>, <<>>)>>
             : n \in {"A", "B", "int32"}, p \in {<<>>, <<"T">>}, t \in Types,
               q \in {<<>>, <<"T">>, <<"T", "T">>, <<"T", "U">>}},
            {<<>>, <<Fn("f", "public", <<>>, T("B"), <<>>)>>})
  \cup AllOf({<<>>}, {<<Empty("f", "public", <<t>>), Empty("f", "public", <<s>>)>>
                            : t \in Types, s \in Types})

\* Properties of every size, in more than one spec, and their uses.
PropUses ==
  {Using(op, on, n, <<>>) : op \in {"get", "set"}, on \in {T("this"), T("A"), T("B")},
                            n \in {"x", "y"}}
PropTypes == {T("int8"), T("int32"), T("string"), T("B"), T("C")}
Properties ==
  AllOf({<<Sp("A", <<>>, <<u>>, <<Prop("x", t, a, b), Prop(n, s, "public", "concealed")>>),
               Sp("B", <<>>, <<>>, <<Prop("x", s, b, a)>>)>>
             : u \in PropUses, t \in PropTypes, s \in PropTypes, n \in {"x", "y"},
               a \in {"public", "concealed"}, b \in {"public", "concealed"}}, {<<>>})

\* Constructors and generic specs: type parameters, instances, "this".
NewUses ==
  {Using("new", on, "%construct%", args) : on \in {T("A"), T("T"), T("int32"), L("T"), L("A")},
     args \in {<<>>, <<T("T")>>, <<T("A")>>}}
GenericUses ==
  {Using("member", on, "f", args) : on \in {T("this"), L("T"), L("A")},
                                    args \in {<<>>, <<T("T")>>, <<L("T")>>}}
  \cup {Using(op, on, "x", <<>>) : op \in {"get", "set"}, on \in {T("this"), L("A")}}
Made == {Empty("%construct%", a, p) : a \in {"public", "concealed"},
                                    p \in {<<>>, <<T("T")>>, <<T("A")>>}}
Generics ==
  AllOf({<<Sp("L", <<p>>, <<u, c, Empty("f", a, <<t>>)>>,
                  <<Prop("x", T(p), a, "concealed"), Prop("y", T("int8"), a, a)>>),
               Sp("A", <<>>, <<Empty("%construct%", a, <<>>)>>, <<Prop("x", L("A"), a, a)>>)>>
             : p \in {"T", "A"}, u \in NewUses \cup GenericUses, c \in Made,
               a \in {"public", "concealed"}, t \in {T("T"), L("T"), T("A")}}, {<<>>})
  \cup AllOf({<<Sp("A", <<>>, <<c>>, <<>>), Sp("L", <<"T">>, <<d>>, <<>>)>>
                  : c \in Made, d \in Made}, {<<u>> : u \in NewUses})

\* Two generic specs whose type parameters may have the same name, or that of
\* a type.
Twins ==
  AllOf({<<Sp("L", <<"T">>, <<Empty("%construct%", "public", p)>>,
              <<Prop("x", T("T"), "public", "public")>>),
           Sp("M", <<q>>, <<Using("new", on, "%construct%", a)>>,
              <<Prop("x", T(q), "public", "public")>>)>>
             : p \in {<<>>, <<T("T")>>, <<L("T")>>}, q \in {"T", "U", "int32"},
               on \in {L("T"), L("U")},
               a \in {<<>>, <<T("T")>>, <<T("U")>>, <<L("T")>>, <<L("U")>>}}, {<<>>})

MCPrograms == Calls \cup Clashes \cup Properties \cup Generics \cup Twins
=============================================================================
