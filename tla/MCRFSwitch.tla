----------------------------- MODULE MCRFSwitch -----------------------------
(***************************************************************************)
(* Two RF devices of different timing, three requests, codes of two bits,  *)
(* and a repeat counter that wraps at 2.                                   *)
(***************************************************************************)
EXTENDS RFSwitch

CONSTANTS d1, d2

Timings == [d \in {d1, d2} |->
    IF d = d1 THEN [starth |-> 90, startl |-> 80, period |-> 200,
                    bit0 |-> 60, bit1 |-> 120, gap |-> 50]
              ELSE [starth |-> 70, startl |-> 75, period |-> 150,
                    bit0 |-> 55, bit1 |-> 95, gap |-> 20]]

Configs == [d \in {d1, d2} |-> IF d = d1 THEN 0 ELSE 1]

OneCode == {{2}}
=============================================================================
