-------------------------------- MODULE R421A --------------------------------
(***************************************************************************)
(* A Modbus R421A relay board and the device and requests that drive it    *)
(* (src/src/Modbus/R421A/Request.cpp and Device.cpp, over Modbus/Device.cpp *)
(* and the base classes).                                                  *)
(*                                                                         *)
(* The board switches one relay per exchange: a request for several        *)
(* channels is submitted again after each answer, at the head of the queue.*)
(* The device keeps what it believes of the relays; answers get lost, so a *)
(* relay may have switched without the device being told.                  *)
(***************************************************************************)
EXTENDS Integers, Sequences

CONSTANTS
    Channel,      \* nodeIdMin() .. nodeIdMax()
    Fitted,       \* the channels the board really has
    Command,      \* the commands the application submits
    Late,         \* whether an answer may come after the next frame is sent
    MaxQueue,     \* bound: requests in the controller's queue
    MaxAnswers    \* bound: answers on the wire

Writes == {"on", "off", "toggle", "latch", "momentary"}

ASSUME ChannelAssumption == Channel \subseteq Nat /\ Fitted \subseteq Channel
ASSUME CommandAssumption == Command \subseteq Writes \cup {"query"}
ASSUME WireAssumption    == Late \in BOOLEAN /\ MaxQueue \in Nat /\ MaxAnswers \in Nat

VARIABLES
    queue,        \* requests of the device, the head being executed
    waiting,      \* the head has been sent: its transaction timer runs
    devState,     \* IO::Device::state
    restart,      \* the controller's restart timer is armed
    known,        \* Device::states.channelMask
    states,       \* Device::states.channelStates
    relay,        \* the relays that are closed
    frame,        \* what the board has been asked and not yet done
    answers       \* answers under way, oldest first

deviceVars == <<devState, restart, known, states>>
boardVars  == <<relay, frame, answers>>
vars       == <<queue, waiting, deviceVars, boardVars>>

\* commandData.channelMask, response.channelMask and response.channelStates.
Request == [command : Writes \cup {"query"}, todo : SUBSET Channel,
            mask : SUBSET Channel, on : SUBSET Channel]

NewRequest(c, S) == [command |-> c, todo |-> S, mask |-> {}, on |-> {}]

NoFrame == [command |-> "none", channels |-> {}]

Frame == [command : Writes, channels : {{c} : c \in Channel}]
         \cup {[command |-> "query", channels |-> Channel], NoFrame}

Answer == [to : {"query", "write", "exception"}, mask : SUBSET Channel, on : SUBSET Channel]

TypeOK ==
    /\ queue \in Seq(Request) /\ Len(queue) <= MaxQueue
    /\ waiting \in BOOLEAN
    /\ devState \in {"stopped", "starting", "fault", "normal"}
    /\ restart \in BOOLEAN
    /\ known \subseteq Channel
    /\ states \subseteq Channel
    /\ relay \subseteq Fitted
    /\ frame \in Frame
    /\ answers \in Seq(Answer) /\ Len(answers) <= MaxAnswers

\* The relays are as an earlier run of the program left them.
Init ==
    /\ queue = <<>>
    /\ waiting = FALSE
    /\ devState = "stopped"
    /\ restart = TRUE
    /\ known = {}
    /\ states = {}
    /\ relay \in SUBSET Fitted
    /\ frame = NoFrame
    /\ answers = <<>>

-----------------------------------------------------------------------------
(* Submission and execution *)

\* The application selects one channel, several, or all of them.
Submit(c, S) ==
    /\ Len(queue) < MaxQueue
    /\ queue' = Append(queue, NewRequest(c, S))
    /\ UNCHANGED <<waiting, deviceVars, boardVars>>

PastFirst(S) == {1 + CHOOSE c \in S : \A d \in S : c <= d}

\* The loop of fillRequestData() stops at the first channel selected.
FirstOf(S) == {CHOOSE c \in S : \A d \in S : c <= d}

FillRequestData(r) ==
    [command  |-> r.command,
     channels |-> IF r.command = "query" THEN Channel ELSE FirstOf(r.todo)]

\* Modbus::Device::execute() clears the receive buffer and sends.  What the
\* board was asked before and has not begun to do is lost.
Execute ==
    /\ queue # <<>>
    /\ ~waiting
    /\ waiting' = TRUE
    /\ frame' = FillRequestData(Head(queue))
    /\ answers' \in {<<>>} \cup (IF Late THEN {answers} ELSE {})
    /\ UNCHANGED <<queue, deviceVars, relay>>

-----------------------------------------------------------------------------
(* The board *)

Flip(S) == (relay \ S) \cup (S \ relay)

\* The relays after command c for the channels S, all fitted.
Switched(c, S) ==
    CASE c = "query"     -> relay
      [] c = "on"        -> relay \cup S
      [] c = "off"       -> relay \ S
      [] c = "toggle"    -> Flip(S)
      [] c = "latch"     -> S
      [] c = "momentary" -> relay \ S

\* A query reads nonsense for a channel the board does not have, a write of it
\* is an exception.
AnswerTo(f) ==
    CASE f.command = "query" -> [to |-> "query", mask |-> Fitted, on |-> relay]
      [] f.command # "query" /\ f.channels \subseteq Fitted ->
            [to |-> "write", mask |-> f.channels, on |-> {}]
      [] OTHER -> [to |-> "exception", mask |-> {}, on |-> {}]

BoardActs ==
    /\ frame # NoFrame
    /\ frame' = NoFrame
    /\ relay' = IF frame.channels \subseteq Fitted
                THEN Switched(frame.command, frame.channels) ELSE relay
    /\ \/ Len(answers) < MaxAnswers /\ answers' = Append(answers, AnswerTo(frame))
       \/ UNCHANGED answers                                     \* it gets lost
    /\ UNCHANGED <<queue, waiting, deviceVars>>

FrameLost ==
    /\ frame # NoFrame
    /\ frame' = NoFrame
    /\ UNCHANGED <<queue, waiting, deviceVars, relay, answers>>

-----------------------------------------------------------------------------
(* Completion *)

NeverRestart == UNCHANGED restart

\* Controller::deviceError()
ScheduleRestart == restart' = TRUE

\* complete(error): the device learns nothing of what has been done.
Fail ==
    /\ queue' = Tail(queue)
    /\ waiting' = FALSE
    /\ devState' = "fault"
    /\ ScheduleRestart
    /\ UNCHANGED <<known, states>>

OnlyClosed(r) == states \cup r.on

\* What r has learnt replaces what the device believed of the same channels.
Learnt(r) == (states \ r.mask) \cup r.on

\* complete(success)
Succeed(r) ==
    /\ queue' = Tail(queue)
    /\ waiting' = FALSE
    /\ known' = known \cup r.mask
    /\ states' = Learnt(r)
    /\ devState' = IF devState = "starting" THEN "normal" ELSE devState
    /\ UNCHANGED restart

\* The channels an answered write has closed, as far as the request can tell.
Closed(r, S) == CASE r.command = "toggle" -> S \ states
                  [] r.command = "on"     -> S
                  [] OTHER                -> {}

\* callback(): a request for more channels is submitted again.
Callback(r, a) ==
    LET done == [r EXCEPT !.todo = IF a.to = "write" THEN @ \ a.mask ELSE @,
                          !.mask = @ \cup a.mask,
                          !.on   = @ \cup IF a.to = "write" THEN Closed(r, a.mask) ELSE a.on]
    IN IF a.to = "write" /\ done.todo # {}
       THEN /\ queue' = <<done>> \o Tail(queue)
            /\ waiting' = FALSE
            /\ UNCHANGED deviceVars
       ELSE Succeed(done)

\* readResponse(): the function code is all that ties an answer to the request.
Matches(r, a) == a.to = IF r.command = "query" THEN "query" ELSE "write"

Receive ==
    LET r == Head(queue)
        a == Head(answers) IN
    /\ waiting
    /\ answers # <<>>
    /\ answers' = Tail(answers)
    /\ IF Matches(r, a) THEN Callback(r, a) ELSE Fail
    /\ UNCHANGED <<relay, frame>>

\* No request is waiting: the application gets the bytes.
ReceiveByOther ==
    /\ ~waiting
    /\ answers # <<>>
    /\ answers' = Tail(answers)
    /\ UNCHANGED <<queue, waiting, deviceVars, relay, frame>>

Timeout ==
    /\ waiting
    /\ Fail
    /\ UNCHANGED boardVars

-----------------------------------------------------------------------------
(* The restart timer *)

\* Controller::startDevices() and Device::start(): all channels are queried.
Restart ==
    /\ restart
    /\ restart' = FALSE
    /\ IF devState \in {"normal", "starting"}
       THEN UNCHANGED <<queue, devState>>
       ELSE /\ Len(queue) < MaxQueue
            /\ queue' = Append(queue, NewRequest("query", Channel))
            /\ devState' = "starting"
    /\ UNCHANGED <<waiting, known, states, boardVars>>

-----------------------------------------------------------------------------
SomeCommand == \E c \in Command, S \in (SUBSET Channel) \ {{}} : Submit(c, S)

Next ==
    \/ SomeCommand
    \/ Execute
    \/ BoardActs \/ FrameLost
    \/ Receive \/ ReceiveByOther
    \/ Timeout
    \/ Restart

\* A request is sent in its turn, the timers expire, an answer that arrives is
\* taken.  The board need not act on a frame, but the frame ends.
Fairness ==
    /\ WF_vars(Execute)
    /\ WF_vars(BoardActs \/ FrameLost)
    /\ WF_vars(Receive \/ Timeout)
    /\ WF_vars(Restart)

Spec == Init /\ [][Next]_vars /\ Fairness

-----------------------------------------------------------------------------
(* Properties *)

\* Device.h of R421A, "Tracks current output states as far as possible": a
\* device that is idle and not in fault knows every relay of the board, whatever
\* got lost, was refused or was half done in the past.
Faithful == queue = <<>> /\ devState = "normal" => known = Fitted /\ states = relay

\* What can fail, for ever.
SomeFailure == Timeout \/ (Receive /\ devState' = "fault")

\* Device.cpp 51-74 and R421A/Request.cpp 150-154: unless commands or failures
\* go on for ever, all requests complete and the device works.
Recovers ==
    \/ []<><<SomeCommand>>_vars
    \/ []<><<SomeFailure>>_vars
    \/ <>[](queue = <<>> /\ devState = "normal")
=============================================================================
