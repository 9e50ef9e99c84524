------------------------------ MODULE BinaryFormat ------------------------------
(***************************************************************************)
(* A binary floating-point format, which the algorithm and what it is      *)
(* judged by share.                                                        *)
(***************************************************************************)

CONSTANTS MantBits, ExpBits   \* the widths of the fraction and of the exponent

================================================================================
