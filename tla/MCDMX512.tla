------------------------------ MODULE MCDMX512 ------------------------------
(***************************************************************************)
(* A small DMX512 device for TLC: two nodes selected each alone or both,   *)
(* a byte of three bits, and a level that clips in `adjust' and wraps in   *)
(* `set'.                                                                  *)
(***************************************************************************)
EXTENDS DMX512

CONSTANTS m, n

Selections == {{m}, {m, n}}

OneLevel == {-2}
=============================================================================
