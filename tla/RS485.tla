-------------------------------- MODULE RS485 --------------------------------
(***************************************************************************)
(* IO::RS485::Controller with the Modbus and DMX512 devices that share its *)
(* UART (src/src/RS485/Controller.cpp, RS485/Device.cpp, Modbus/Device.cpp,*)
(* DMX512/Device.cpp).                                                     *)
(*                                                                         *)
(* Three things run against each other: the tasks of the one thread, the   *)
(* UART interrupt, which posts callbacks to the task queue, and the bus    *)
(* itself, where answers may stay out, come late or be preceded by noise.  *)
(*                                                                         *)
(* The interrupt comes in the middle of a task as well.  A task is cut     *)
(* into steps, `todo' says which is next, wherever what it has left undone *)
(* can be told by the interrupt: between the calls that set, capture and   *)
(* clear a pointer to a request.                                           *)
(***************************************************************************)
EXTENDS Naturals, Sequences, FiniteSets

CONSTANTS
    Device,        \* the devices on the bus
    Dmx,           \* those that speak DMX512; the others speak Modbus
    Segment,       \* the multiplexed bus segments
    SegmentOf,     \* the segment of each device
    Request,       \* request objects
    DeviceOf,      \* Request::device
    NoRequest,     \* nullptr
    Noise,         \* whether bytes nobody sent may arrive
    MidTransfer,   \* whether DMX512 commands also come during a request
    Timely,        \* whether frames, answers and callbacks beat the timer
    MaxParts,      \* bound: exchanges a Modbus request needs beyond its first
    MaxTasks,      \* bound: callbacks waiting in the task queue
    MaxBytes       \* bound: frames held by the receive buffer

ASSUME BusAssumption   == Dmx \subseteq Device /\ SegmentOf \in [Device -> Segment]
ASSUME NullAssumption  == NoRequest \notin Request
ASSUME OwnerAssumption == DeviceOf \in [Request -> Device]
ASSUME LimitAssumption == /\ MaxParts \in Nat /\ MaxTasks \in Nat
                          /\ MaxBytes \in Nat
                          /\ Noise \in BOOLEAN /\ Timely \in BOOLEAN
                          /\ MidTransfer \in BOOLEAN

VARIABLES
    queue,            \* IO::Controller::queue
    parts,            \* per request: exchanges it still needs after this one
    todo,             \* what the running task does next, see Todo
    request,          \* Controller::request
    transmitCompleteRequest,
    timer,            \* the transaction timer is armed
    tasks,            \* queued callbacks, oldest first
    listening,        \* the UART callback is installed
    segment,          \* Controller::segment
    direction,        \* per segment: what setDirection() last told its driver
    config,           \* what the UART is set to
    savedConfig,      \* Controller::savedConfig
    sending,          \* the request whose frame the UART sends
    replies,          \* devices whose answer is still to come
    received          \* the receive buffer: the sender of each frame

clientVars == <<queue, parts>>
irqVars    == <<transmitCompleteRequest, timer, tasks>>
portVars   == <<segment, direction, config, savedConfig>>
lineVars   == <<sending, replies, received>>
vars       == <<clientVars, todo, request, irqVars, listening, portVars, lineVars>>

\* What the port is opened with, Serial::Config{}, and one for each protocol.
Config == {"default", "none", "modbus", "dmx"}

Garbage == "garbage"    \* sender of bytes nobody sent

\* Where the running task is: nowhere, about to execute the head of the queue,
\* to send it, to acquire the port again, to read a response or the rest of one
\* that came too late, to release the port.
Todo == {"none", "execute", "send", "again", "response", "timeout", "release"}

TypeOK ==
    /\ queue \in Seq(Request)
    /\ parts \in [Request -> 0 .. MaxParts]
    /\ todo \in Todo
    /\ request \in Request \cup {NoRequest}
    /\ transmitCompleteRequest \in Request \cup {NoRequest}
    /\ timer \in BOOLEAN
    /\ tasks \in Seq({"transmitted", "received"}) /\ Len(tasks) <= MaxTasks
    /\ listening \in BOOLEAN
    /\ segment \in Segment
    /\ direction \in [Segment -> {"Idle", "Outgoing", "Incoming"}]
    /\ config \in Config /\ savedConfig \in Config
    /\ sending \in Request \cup {NoRequest}
    /\ replies \subseteq Device
    /\ received \in Seq(Device \cup {Garbage}) /\ Len(received) <= MaxBytes

Init ==
    /\ queue = <<>>
    /\ parts = [r \in Request |-> 0]
    /\ todo = "none"
    /\ request = NoRequest
    /\ transmitCompleteRequest = NoRequest
    /\ timer = FALSE
    /\ tasks = <<>>
    /\ listening = FALSE
    /\ segment \in Segment
    /\ direction = [s \in Segment |-> "Idle"]
    /\ config = "default" /\ savedConfig = "none"
    /\ sending = NoRequest
    /\ replies = {}
    /\ received = <<>>

-----------------------------------------------------------------------------
(* Helpers *)

\* No task is running: the next one, or the expired timer, can be served.
AtRest == todo = "none"

Queued(r) == \E i \in DOMAIN queue : queue[i] = r

\* The running task goes on from one step to the next.
Goes(from, to) == todo = from /\ todo' = to

IsDmx(r) == r # NoRequest /\ DeviceOf[r] \in Dmx

OwnSegment(r) == SegmentOf[DeviceOf[r]]

\* Serial::getConfig(): activeConfig, which setConfig() does not touch.
CurrentConfig == config
GetConfig == "default"

SetDirection(way) == direction' = [direction EXCEPT ![segment] = way]

\* System.queueCallback()
Post(t) == tasks' = Append(tasks, t)

Posted(t) == \E i \in DOMAIN tasks : tasks[i] = t

-----------------------------------------------------------------------------
(* Tasks of the application *)

\* submit(): the queue, which runs the request if it was empty.
Submit(r) ==
    /\ AtRest
    /\ ~Queued(r)
    /\ queue' = Append(queue, r)
    /\ \E n \in 0 .. (IF IsDmx(r) THEN 0 ELSE MaxParts) :
          parts' = [parts EXCEPT ![r] = n]
    /\ todo' = IF queue = <<>> THEN "execute" ELSE todo
    /\ UNCHANGED <<request, irqVars, listening, portVars, lineVars>>

\* Controller::start() and stop(), as DeviceManager::begin() and stop() call
\* them: once canStop() holds.
Start ==
    /\ AtRest
    /\ queue = <<>>
    /\ listening' = TRUE
    /\ request' = NoRequest
    /\ UNCHANGED <<clientVars, todo, irqVars, portVars, lineVars>>

Stop ==
    /\ AtRest
    /\ listening
    /\ queue = <<>>
    /\ listening' = FALSE
    /\ UNCHANGED <<clientVars, todo, request, irqVars, portVars, lineVars>>

-----------------------------------------------------------------------------
(* Execution of the request at the head of the queue *)

\* timer.startOnce()
LeaveTimer == UNCHANGED timer
StartTimer == timer' = TRUE

\* RS485::Device::handleEvent(Execute): setSegment().
KeepSegment(r) == UNCHANGED segment
SetSegment(r) == segment' = OwnSegment(r)

\* What the interrupt captured is of an earlier request, or an earlier exchange.
KeepCaptured == UNCHANGED transmitCompleteRequest
ForgetCaptured == transmitCompleteRequest' = NoRequest

\* ... and RS485::Controller::handleEvent(Execute): r owns the port and the
\* transaction timer runs.
Acquire(r) ==
    /\ SetSegment(r)
    /\ request' = r
    /\ ForgetCaptured
    /\ StartTimer
    /\ savedConfig' = GetConfig

\* Modbus::Device::handleEvent(Execute) acquires the port ...
AcquireModbus ==
    /\ Goes("execute", "send")
    /\ ~IsDmx(Head(queue))
    /\ Acquire(Head(queue))
    /\ UNCHANGED <<clientVars, tasks, listening, direction, config, lineVars>>

\* ... and execute() sets up the UART and sends.
SendModbus ==
    /\ Goes("send", "again")
    /\ config' = "modbus"
    /\ SetDirection("Outgoing")
    /\ sending' = request
    /\ received' = <<>>
    /\ UNCHANGED <<clientVars, request, irqVars, listening, segment, savedConfig,
                   replies>>

\* The event then breaks from its switch and acquires a second time.
AcquireAgain ==
    /\ Goes("again", "none")
    /\ Acquire(Head(queue))
    /\ UNCHANGED <<clientVars, tasks, listening, direction, config, lineVars>>

\* DMX512::Device::handleEvent(Execute) sends first, on the segment the port
\* happens to be on, and acquires then, long before the frame is out.
ExecuteDmx ==
    LET r == Head(queue) IN
    /\ Goes("execute", "none")
    /\ IsDmx(r)
    /\ config' = "dmx"
    /\ SetDirection("Outgoing")
    /\ sending' = r
    /\ Acquire(r)
    /\ UNCHANGED <<clientVars, tasks, listening, replies, received>>

\* timer.stop()
StopTimer == timer' = FALSE

\* The driver goes off.
KeepDirection == UNCHANGED direction
GoIdle == SetDirection("Idle")

\* Controller::executeNext()
NothingNext == "none"
ExecuteNext == IF Tail(queue) = <<>> THEN "none" ELSE "execute"

\* complete(): RS485::Controller::handleEvent(RequestComplete) turns timer and
\* driver off ...
Completes(from) ==
    /\ Goes(from, "release")
    /\ StopTimer
    /\ GoIdle
    /\ UNCHANGED <<clientVars, request, transmitCompleteRequest, segment, config,
                   savedConfig>>

\* ... and only then forgets the request.
FreePort ==
    /\ request' = NoRequest
    /\ config' = savedConfig

\* The base class's follows: the request is deleted, the next one executed.
Release ==
    /\ todo = "release"
    /\ FreePort
    /\ queue' = Tail(queue)
    /\ parts' = [parts EXCEPT ![Head(queue)] = 0]
    /\ todo' = ExecuteNext
    /\ UNCHANGED <<irqVars, listening, segment, direction, savedConfig, lineVars>>

\* A DMX512 command other than `update' acts and completes in submit().  It was
\* never queued, but its completion releases the port, whoever holds it, and
\* executes the head of the queue.
CommandDmx ==
    /\ AtRest
    /\ Dmx # {}
    /\ queue = <<>> \/ MidTransfer
    /\ StopTimer
    /\ GoIdle
    /\ FreePort
    /\ todo' = IF queue = <<>> THEN "none" ELSE "execute"
    /\ UNCHANGED <<clientVars, transmitCompleteRequest, tasks, listening, segment,
                   savedConfig, lineVars>>

\* Modbus::Device::execute() finds the request cannot be sent.
RefuseModbus == Completes("send") /\ UNCHANGED <<tasks, listening, lineVars>>

-----------------------------------------------------------------------------
(* Tasks the interrupt and the timer start *)

\* TransmitComplete for the captured request: the end of a DMX update.  What
\* happens to a request that has been completed, and so deleted, is undefined
\* (PointersLive says when it may be one); here it is nothing.
Transmitted ==
    /\ AtRest
    /\ tasks # <<>> /\ Head(tasks) = "transmitted"
    /\ tasks' = Tail(tasks)
    /\ IF transmitCompleteRequest = request /\ IsDmx(request)
       THEN Completes("none")
       ELSE UNCHANGED <<clientVars, todo, request, transmitCompleteRequest, timer,
                        portVars>>
    /\ UNCHANGED <<listening, lineVars>>

\* receiveComplete() hands what was received to the current request.  DMX512
\* ignores it, and with no request it is the application's.
ReceiveComplete ==
    /\ AtRest
    /\ tasks # <<>> /\ Head(tasks) = "received"
    /\ tasks' = Tail(tasks)
    /\ transmitCompleteRequest' = NoRequest
    /\ todo' = IF request = NoRequest \/ IsDmx(request) THEN "none" ELSE "response"
    /\ UNCHANGED <<clientVars, request, timer, listening, portVars, lineVars>>

\* Modbus::Device::readResponse() takes all of the buffer for one response.
Answers(r) == received = <<DeviceOf[r]>>

NeverDone(r) == TRUE

\* The callback needs another exchange: a channel has still to be set.
NeedsMore(r) == parts[r] > 0

\* It answers the request's last exchange, or is no answer: completed.  The event
\* then goes on, with the request deleted, to RS485::Device::handleEvent, which
\* reads Request::device and does nothing (Modbus/Device.cpp 59-73).
ResponseCompletes ==
    /\ Completes("response")
    /\ ~(Answers(request) /\ NeedsMore(request))
    /\ received' = <<>>
    /\ UNCHANGED <<tasks, listening, sending, replies>>

\* It answers an earlier one: Modbus::Request::callback() submits the request
\* again, and the controller executes it, still at the head, at once.
ResponseResubmits ==
    /\ Goes("response", "execute")
    /\ Answers(request) /\ NeedsMore(request)
    /\ parts' = [parts EXCEPT ![request] = @ - 1]
    /\ received' = <<>>
    /\ UNCHANGED <<queue, request, irqVars, listening, portVars, sending, replies>>

\* The transaction timer.
Timeout ==
    /\ Goes("none", "timeout")
    /\ timer /\ timer' = FALSE
    /\ Timely => tasks = <<>> /\ sending = NoRequest /\ replies = {}
    /\ transmitCompleteRequest' = NoRequest
    /\ UNCHANGED <<clientVars, request, tasks, listening, portVars, lineVars>>

\* The buffer is drained and the request fails.
TimeoutFails ==
    /\ Completes("timeout")
    /\ received' = <<>>
    /\ UNCHANGED <<tasks, listening, sending, replies>>

-----------------------------------------------------------------------------
(* The UART interrupt *)

\* The transmit FIFO is empty: the driver turns to receive.  A Modbus device
\* may answer.
TransmitInterrupt ==
    /\ sending # NoRequest
    /\ sending' = NoRequest
    /\ replies' \in {replies} \cup
                    (IF IsDmx(sending) THEN {} ELSE {replies \cup {DeviceOf[sending]}})
    /\ IF listening
       THEN /\ SetDirection("Incoming")
            /\ received' = <<>>
            /\ IF request # NoRequest /\ transmitCompleteRequest = NoRequest
               THEN /\ Len(tasks) < MaxTasks
                    /\ transmitCompleteRequest' = request
                    /\ Post("transmitted")
               ELSE UNCHANGED <<transmitCompleteRequest, tasks>>
       ELSE UNCHANGED <<direction, received, transmitCompleteRequest, tasks>>
    /\ UNCHANGED <<clientVars, todo, request, timer, listening, segment, config,
                   savedConfig>>

\* Bytes of f, then silence: the timer stops and the task queue is told.
ReceiveInterrupt(f) ==
    /\ Len(received) < MaxBytes
    /\ received' = Append(received, f)
    /\ IF listening
       THEN /\ Len(tasks) < MaxTasks
            /\ timer' = FALSE
            /\ SetDirection("Idle")
            /\ Post("received")
       ELSE UNCHANGED <<timer, direction, tasks>>
    /\ UNCHANGED <<clientVars, todo, request, transmitCompleteRequest, listening,
                   segment, config, savedConfig, sending>>

\* A device answers; what is not received as Modbus is garbled.
Reply ==
    \E d \in replies :
        /\ ReceiveInterrupt(IF config = "modbus" THEN d ELSE Garbage)
        /\ replies' = replies \ {d}

NoiseArrives == Noise /\ ReceiveInterrupt(Garbage) /\ UNCHANGED replies

-----------------------------------------------------------------------------
Application ==
    \/ \E r \in Request : Submit(r)
    \/ CommandDmx
    \/ Start \/ Stop

\* The task that runs goes on ...
Execute == AcquireModbus \/ SendModbus \/ RefuseModbus \/ AcquireAgain \/ ExecuteDmx

Continue ==
    \/ Execute
    \/ ResponseCompletes \/ ResponseResubmits \/ TimeoutFails
    \/ Release

\* ... or, at rest, the next one starts.
Task == Transmitted \/ ReceiveComplete

Next ==
    \/ Application
    \/ Continue
    \/ Task
    \/ Timeout
    \/ TransmitInterrupt
    \/ Reply
    \/ NoiseArrives

\* Tasks run to their end and in their turn, the timer expires, a frame once
\* sent empties the FIFO.  Only on a timely bus does an answer, once under way,
\* have to come.
Fairness ==
    /\ WF_vars(Continue)
    /\ WF_vars(Task)
    /\ WF_vars(Timeout)
    /\ WF_vars(TransmitInterrupt)
    /\ Timely => WF_vars(Reply)

Spec == Init /\ [][Next]_vars /\ Fairness

-----------------------------------------------------------------------------
(* Properties *)

\* Controller.cpp 64-152: what the timer and the queued callbacks will use while
\* a request has the port is that request, whatever ended the one before it.
\* Without a request nothing reads the timer's pointer; but a captured one may
\* then be of a request that is gone, see CapturedLive.
PointersLive ==
    /\ AtRest => request = IF queue = <<>> THEN NoRequest ELSE Head(queue)
    /\ AtRest /\ timer => request # NoRequest
    /\ AtRest /\ request # NoRequest /\ Posted("transmitted") =>
           transmitCompleteRequest \in {NoRequest, request}

\* Controller.cpp 74: "Guard against timeout firing before this callback".  The
\* callback never gets a request that is gone.  The code does not keep this: the
\* timer and the receiver clear the captured pointer before the request has
\* ended, and the interrupt may still capture it.
CapturedLive == AtRest /\ Posted("transmitted") =>
    transmitCompleteRequest \in {NoRequest, request}

\* Something queued or armed will end the request that has the port.
WillEnd ==
    \/ timer
    \/ Posted("received")
    \/ Posted("transmitted") /\ transmitCompleteRequest = request /\ IsDmx(request)

\* Controller.cpp 104-115: a request that holds the port is watched: the timer
\* will end it, or the callback is queued for which the interrupt stopped the
\* timer.
Watched == AtRest /\ request # NoRequest => WillEnd

\* ... at least once its frame is out and no interrupt for it is to come.
WatchedOnceSent == AtRest /\ request # NoRequest /\ sending = NoRequest => WillEnd

\* Controller.h 69-72: once a frame is out, and until an answer, noise or the
\* timeout, the driver of the segment it went to is receiving.
Listening ==
    AtRest /\ listening /\ timer /\ sending = NoRequest /\ ~Posted("received") =>
        direction[OwnSegment(request)] = "Incoming"

\* Controller.h 72: "Port should normally be left in receive mode on request
\* completion".  With no request in progress no driver transmits.
PortReleased == request = NoRequest => \A s \in Segment : direction[s] # "Outgoing"

\* Controller.cpp 116 and 123: between requests, from the first on, the UART is
\* set as the application opened it.
IdleUart == request = NoRequest /\ savedConfig # "none" => config = "default"

\* The bus serialises its requests and completes each of them.
Line == INSTANCE RequestQueue WITH line <- queue, serving <- request # NoRequest

Serialises == Line!Spec
=============================================================================
