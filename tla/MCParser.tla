------------------------------ MODULE MCParser ------------------------------
(* Families of sources for the model checker.                               *)
EXTENDS Parser

Family(starts, tokens, ends, most) ==
  [starts |-> starts, tokens |-> tokens, ends |-> ends, most |-> most]

Package == <<"package", "string", ";">>
InSpec == Package \o <<"modifier", "spec", "name", "{">>
InProperty == InSpec \o <<"name", "name", "{">>
InFunction == Package \o <<"modifier", "name", "name", "(", ")", "{">>
AfterIf == InFunction \o <<"if", "(", "name", ")", "{", "}">>
InReturn == InFunction \o <<"return">>

\* What each part of the grammar tells apart, and room for its longest
\* production.
Modules ==
  Family({Package},
         {"depends", "string", ";", "modifier", "spec", "name", "(", ")", "{", "}", ",", "<", ">"},
         {<<>>, <<"{", "}">>}, 9)

Specs ==
  Family({InSpec, InProperty}, {"modifier", "name", "construct", "get", "set", ";", "(", ")", "{", "}"},
         {<<"}">>}, 8)

Statements ==
  Family({InFunction, AfterIf, InFunction \o <<"for", "(">>, InFunction \o <<"while", "(">>},
         {"name", "if", "else", "for", "return", "(", ")", "{", "}", ";"},
         {<<"}">>, <<")", "{", "}", "}">>}, 5)

Expressions ==
  Family({InReturn, InReturn \o <<"name">>}, {"name", "||", "&&", "=", "+", "*", ".", "-", "!"},
         {<<"name", ";", "}">>}, 5)

Wrong ==
  Family({InFunction}, {"name", "if", "return", "(", ")", ",", "{", "}", ";", "string", "bad"},
         {<<>>, <<";", "}">>, <<"}">>}, 5)

Chains ==
  Family({InFunction}, {"name", "+", ";", "(", ")", "<-"}, {<<>>, <<";", "}">>, <<"}">>}, 6)

TreeSources ==
  [modules |-> Modules, specs |-> Specs, statements |-> Statements, expressions |-> Expressions]

WrongSources == [wrong |-> Wrong]
ChainSources == [chains |-> Chains]
=============================================================================
