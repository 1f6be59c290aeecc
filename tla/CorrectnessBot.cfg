\* The five sequences against the reference engine, with one hiccup and one
\* session at a time that ends late.
SPECIFICATION Spec
CONSTANTS
  NoSession = none
  MaxHiccups = 1
  MaxLate = 1
INVARIANTS
  TypeOK
  FullMarks
  FailuresExplained
CHECK_DEADLOCK FALSE
