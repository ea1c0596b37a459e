---------------------------- MODULE MCController ----------------------------
(***************************************************************************)
(* Small controllers for TLC.  A bus has a device with nodes and one       *)
(* without; commands of the first may be refused by execute() and be       *)
(* submitted from callbacks.                                               *)
(***************************************************************************)
EXTENDS Controller, TLC

CONSTANTS relay, probe, dmx

NoPairs == {}

\* An RS485 bus: a relay board and a device without nodes.
BusCommands  == {<<relay, "command">>, <<probe, "command">>}
BusRejected  == {<<relay, "command">>}
BusReentrant == {<<relay, "command">>}

\* A relay board that shares the bus with a DMX512 device.
SharedCommands  == {<<relay, "command">>, <<dmx, "command">>, <<dmx, "update">>}
SharedImmediate == {<<dmx, "command">>}

\* Request objects are interchangeable.
Objects == Permutations(Request)
=============================================================================
