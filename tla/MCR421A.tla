------------------------------- MODULE MCR421A -------------------------------
(***************************************************************************)
(* A board of two relays, configured as one of three, for TLC.             *)
(***************************************************************************)
EXTENDS R421A
=============================================================================
