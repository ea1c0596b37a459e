------------------------------- MODULE MCRS485 -------------------------------
(***************************************************************************)
(* Small buses for TLC: two Modbus devices on two segments, or one Modbus  *)
(* and one DMX512 device on one segment or on two.                         *)
(***************************************************************************)
EXTENDS RS485, TLC

CONSTANTS a, b, s1, s2, a1, a2, b1, b2

Owner == [r \in Request |-> IF r \in {a1, a2} THEN a ELSE b]

Apart    == a :> s1 @@ b :> s2
Together == a :> s1 @@ b :> s1
=============================================================================
