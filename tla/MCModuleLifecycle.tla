------------------------- MODULE MCModuleLifecycle -------------------------
(* Instances of ModuleLifecycle for TLC.                                   *)
EXTENDS ModuleLifecycle

\* Sources with and without static functions, specs, an empty spec, ::main
\* and a depends statement.
Program(counts, main, depends) ==
  [counts |-> counts, main |-> main, depends |-> depends]

ProgramsDef ==
  {Program(<<0>>, 0, FALSE), Program(<<1>>, 1, FALSE), Program(<<1>>, 1, TRUE),
   Program(<<2, 1>>, 2, FALSE), Program(<<1, 0, 2>>, 0, FALSE),
   Program(<<2, 2, 1>>, 1, FALSE)}
=============================================================================
