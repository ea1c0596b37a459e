---------------------------- MODULE RequestQueue ----------------------------
(***************************************************************************)
(* What a controller promises the application: requests form one line, in  *)
(* the order they were submitted; at most one of them, the first, is on    *)
(* the bus; a request leaves the line once, from the front, and the line   *)
(* never stops moving.                                                     *)
(*                                                                         *)
(* README.rst: "The controller serialises requests".  IO/Request.h, line   *)
(* 68: "Each call to submit() _always_ has a corresponding call to         *)
(* complete()".                                                            *)
(***************************************************************************)
EXTENDS Sequences

CONSTANT Request        \* the request objects the heap can hold

VARIABLES line,         \* submitted and not completed, oldest first
          serving       \* the first request of the line is on the bus

vars == <<line, serving>>

Init == line = <<>> /\ serving = FALSE

\* submit(): the request joins the line at its end.
Enter(r) ==
    /\ \A i \in DOMAIN line : line[i] # r
    /\ line' = Append(line, r)
    /\ UNCHANGED serving

\* The first request goes onto the bus.
Serve ==
    /\ line # <<>>
    /\ ~serving
    /\ serving' = TRUE
    /\ UNCHANGED line

\* An exchange ended but its request has another one to make.
Retry ==
    /\ serving
    /\ serving' = FALSE
    /\ UNCHANGED line

\* complete(): the first request leaves, served or refused.
Leave ==
    /\ line # <<>>
    /\ line' = Tail(line)
    /\ serving' = FALSE

Next == (\E r \in Request : Enter(r)) \/ Serve \/ Retry \/ Leave

Spec == Init /\ [][Next]_vars /\ WF_vars(Leave)
=============================================================================
