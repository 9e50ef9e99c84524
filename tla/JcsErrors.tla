------------------------------- MODULE JcsErrors -------------------------------
(***************************************************************************)
(* The failure taxonomy of jcserr: the classes an error may carry and the  *)
(* process exit code each class determines.                                *)
(***************************************************************************)
EXTENDS Integers

InputClass ==
  {"INVALID_UTF8", "INVALID_GRAMMAR", "DUPLICATE_KEY", "LONE_SURROGATE",
   "NONCHARACTER", "NUMBER_OVERFLOW", "NUMBER_NEGZERO", "NUMBER_UNDERFLOW",
   "BOUND_EXCEEDED"}

InternalClass == {"INTERNAL_IO", "INTERNAL_ERROR"}

FailureClass == InputClass \cup InternalClass \cup {"NOT_CANONICAL", "CLI_USAGE"}

ExitCode_BoundIsInternal(class) ==
  IF class \in InternalClass \cup {"BOUND_EXCEEDED"} THEN 10 ELSE 2

ExitCode(class) == IF class \in InternalClass THEN 10 ELSE 2

================================================================================
