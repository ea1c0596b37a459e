----------------------------- MODULE Controller -----------------------------
(***************************************************************************)
(* IO::Controller with the part every IO::Device and IO::Request shares    *)
(* with it: the request queue, completion, and the recovery of devices     *)
(* that fail (src/src/Controller.cpp, Device.cpp, Request.cpp).            *)
(*                                                                         *)
(* All of it runs in one thread, but complete() re-enters the controller   *)
(* from inside execute(), the callbacks it makes may submit again, and the *)
(* restart loop submits queries that may complete before submit() returns. *)
(* The pending C++ calls are therefore state: `calls` is the call stack,   *)
(* innermost first.                                                        *)
(***************************************************************************)
EXTENDS Naturals, Sequences, FiniteSets

CONSTANTS
    Device,       \* the devices of this controller
    Request,      \* request objects: as many as the heap can hold
    NoDevice,     \* stands for "start() of no device is running"
    Nodeless,     \* devices whose requests refuse setNode(DevNode_ALL)
    Passive,      \* devices whose start() does nothing (DMX512)
    Rejected,     \* <<device, kind>> that execute() may fail at once
    Immediate,    \* <<device, kind>> that submit() completes, never queued
    Commands,     \* <<device, kind>> the application submits
    Reentrant,    \* those of them it also submits from within a callback
    MaxParts,     \* bound: exchanges one request can need beyond its first
    CheckTicks    \* DEVICECHECK_INTERVAL, in ticks of the clock

Kind == {"query", "command", "update"}
Pairs == Device \X Kind

ASSUME DeviceAssumption  == NoDevice \notin Device
ASSUME ClassAssumption   == Nodeless \subseteq Device /\ Passive \subseteq Device
ASSUME PairsAssumption   == /\ Rejected \subseteq Pairs
                            /\ Immediate \subseteq Pairs
                            /\ Commands \subseteq Pairs
                            /\ Reentrant \subseteq Commands
ASSUME QueryAssumption   == \A d \in Device : <<d, "query">> \notin Immediate
ASSUME BoundsAssumption  == MaxParts \in Nat /\ CheckTicks \in Nat \ {0}

VARIABLES
    queue,        \* Controller::queue
    status,       \* per request object: unallocated, or Request::errorCode
    info,         \* per request object: its device, command, exchanges left
    inFlight,     \* requests given to the hardware and not answered
    calls,        \* pending calls, innermost first
    devState,     \* Device::state
    checkTimer,   \* deviceCheckTimer: 0 none, 1 due, n > 1 due in n - 1 ticks
    up,           \* started and not stopped since
    looping,      \* inside startDevices()
    toStart,      \* devices startDevices() has still to visit
    current,      \* the device whose start() waits for submit() to return
    startFailed   \* failCount # 0

reqVars  == <<queue, status, info, inFlight>>
loopVars == <<looping, toStart, current, startFailed>>
vars     == <<reqVars, calls, devState, checkTimer, up, loopVars>>

Frame == [op : {"Execute", "Succeed", "Fail", "Dispose"}, r : Request]

Info == [device : Device \cup {NoDevice}, kind : Kind, parts : 0 .. MaxParts]

NoInfo == [device |-> NoDevice, kind |-> "query", parts |-> 0]

State == {"stopped", "starting", "fault", "normal"}

TypeOK ==
    /\ queue \in Seq(Request)
    /\ status \in [Request -> {"free", "pending", "success", "failed"}]
    /\ info \in [Request -> Info]
    /\ inFlight \subseteq Request
    /\ calls \in Seq(Frame)
    /\ devState \in [Device -> State]
    /\ checkTimer \in 0 .. CheckTicks
    /\ up \in BOOLEAN
    /\ looping \in BOOLEAN
    /\ toStart \subseteq Device
    /\ current \in Device \cup {NoDevice}
    /\ startFailed \in BOOLEAN

Init ==
    /\ queue = <<>>
    /\ status = [r \in Request |-> "free"]
    /\ info = [r \in Request |-> NoInfo]
    /\ inFlight = {}
    /\ calls = <<>>
    /\ devState = [d \in Device |-> "stopped"]
    /\ checkTimer = 0
    /\ up = FALSE
    /\ looping = FALSE
    /\ toStart = {}
    /\ current = NoDevice
    /\ startFailed = FALSE

-----------------------------------------------------------------------------
(* Helpers *)

Free == {r \in Request : status[r] = "free"}

\* No code of the controller is on the stack: a task of the application, a
\* timer or an answer of the hardware can run.
AtRest == calls = <<>> /\ ~looping

\* The call in progress is op(r).
Running(op, r) == calls # <<>> /\ Head(calls) = [op |-> op, r |-> r]

\* The call in progress calls op(r); it returns before op(r) runs (a tail call).
Becomes(op, r) == calls' = <<[op |-> op, r |-> r]>> \o Tail(calls)

\* The call in progress, if any, waits for op(r) to return.
Calls(op, r) == calls' = <<[op |-> op, r |-> r]>> \o calls

Pair(r) == <<info[r].device, info[r].kind>>

Allocate(r, d, k, n) ==
    /\ r \in Free
    /\ status' = [status EXCEPT ![r] = "pending"]
    /\ info' = [info EXCEPT ![r] = [device |-> d, kind |-> k, parts |-> n]]

NeverStartTimer == UNCHANGED checkTimer
StartTimerLate == checkTimer' = CheckTicks + 1

\* The end of startDevices() and deviceError(): (re)start the one-shot timer.
StartTimer == checkTimer' = CheckTicks

OnlyQueue(r) == queue' = Append(queue, r) /\ UNCHANGED calls
AlwaysExecute(r) == queue' = Append(queue, r) /\ Calls("Execute", r)
JumpQueue(r) ==
    /\ queue' = <<r>> \o queue
    /\ IF queue = <<>> THEN Calls("Execute", r) ELSE UNCHANGED calls

\* Controller::submit() for a request that is not at the head of the queue.
Enqueue(r) ==
    /\ queue' = Append(queue, r)
    /\ IF queue = <<>> THEN Calls("Execute", r) ELSE UNCHANGED calls

-----------------------------------------------------------------------------
(* The application *)

\* It submits a request of kind k to d, from a task or from a callback.
MaySubmit(d, k) == AtRest \/ (calls # <<>> /\ <<d, k>> \in Reentrant)

Submit(d, k) ==
    /\ MaySubmit(d, k)
    /\ <<d, k>> \notin Immediate
    /\ \E r \in Request, n \in 0 .. MaxParts : Allocate(r, d, k, n) /\ Enqueue(r)
    /\ UNCHANGED <<inFlight, devState, checkTimer, up, loopVars>>

\* DMX512::Request::submit(): all but `update' act and complete at once,
\* without going through the queue.
SubmitImmediate(d, k) ==
    /\ MaySubmit(d, k)
    /\ <<d, k>> \in Immediate
    /\ \E r \in Request, op \in {"Succeed", "Fail"} :
          Allocate(r, d, k, 0) /\ Calls(op, r)
    /\ UNCHANGED <<queue, inFlight, devState, checkTimer, up, loopVars>>

-----------------------------------------------------------------------------
(* Execution and completion: the calls on the stack *)

\* executeNext() or a re-submission hands r to the device, which starts the
\* exchange on the bus.
Execute(r) ==
    /\ Running("Execute", r)
    /\ inFlight' = inFlight \cup {r}
    /\ calls' = Tail(calls)
    /\ UNCHANGED <<queue, status, info, devState, checkTimer, up, loopVars>>

\* ... or finds that it cannot and completes r with an error.
Reject(r) ==
    /\ Running("Execute", r)
    /\ Pair(r) \in Rejected
    /\ Becomes("Fail", r)
    /\ UNCHANGED <<reqVars, devState, checkTimer, up, loopVars>>

StillStarting(d) == devState[d]

\* Device::handleEvent: success ends an initialisation, and only that.
AfterSuccess(d) == IF devState[d] = "starting" THEN "normal" ELSE devState[d]

\* complete(success): Device::handleEvent ends the device's initialisation.
Succeed(r) ==
    /\ Running("Succeed", r)
    /\ status' = [status EXCEPT ![r] = "success"]
    /\ inFlight' = inFlight \ {r}
    /\ devState' = [devState EXCEPT ![info[r].device] = AfterSuccess(info[r].device)]
    /\ Becomes("Dispose", r)
    /\ UNCHANGED <<queue, info, checkTimer, up, loopVars>>

\* complete(error): Device::handleEvent marks the device and has the
\* controller schedule a restart.
Fail(r) ==
    /\ Running("Fail", r)
    /\ status' = [status EXCEPT ![r] = "failed"]
    /\ inFlight' = inFlight \ {r}
    /\ devState' = [devState EXCEPT ![info[r].device] = "fault"]
    /\ StartTimer
    /\ Becomes("Dispose", r)
    /\ UNCHANGED <<queue, info, up, loopVars>>

RemoveHead(r) == IF queue # <<>> THEN Tail(queue) ELSE queue

\* The queue without a completed request, which is at its head or not in it.
Without(r) == IF queue # <<>> /\ Head(queue) = r THEN Tail(queue) ELSE queue

\* Controller::handleEvent(RequestComplete) after the callback: r is deleted,
\* from the queue if it is at its head, and the next request executed.
Dispose(r) ==
    LET rest == Without(r) IN
    /\ Running("Dispose", r)
    /\ queue' = rest
    /\ status' = [status EXCEPT ![r] = "free"]
    /\ info' = [info EXCEPT ![r] = NoInfo]
    /\ IF rest = <<>> THEN calls' = Tail(calls) ELSE Becomes("Execute", Head(rest))
    /\ UNCHANGED <<inFlight, devState, checkTimer, up, loopVars>>

-----------------------------------------------------------------------------
(* The hardware: an answer, or an error or timeout, for a request in flight *)

\* Completed, the request is deleted.  Modbus::Device::handleEvent() still passes
\* the event on with it (Modbus/Device.cpp 61 and 73), which reads its device and
\* does nothing more: undefined, and no change of state here.
Answered(r) ==
    /\ AtRest
    /\ r \in inFlight
    /\ info[r].parts = 0
    /\ Calls("Succeed", r)
    /\ UNCHANGED <<reqVars, devState, checkTimer, up, loopVars>>

HardwareFails(r) ==
    /\ AtRest
    /\ r \in inFlight
    /\ Calls("Fail", r)
    /\ UNCHANGED <<reqVars, devState, checkTimer, up, loopVars>>

\* The answer calls for another exchange (Modbus R421A, one per channel):
\* r is submitted again, and Controller::submit() executes the head at once.
Resubmit(r) ==
    /\ AtRest
    /\ r \in inFlight
    /\ info[r].parts > 0
    /\ inFlight' = inFlight \ {r}
    /\ info' = [info EXCEPT ![r].parts = @ - 1]
    /\ IF queue # <<>> /\ Head(queue) = r
       THEN Calls("Execute", r) /\ UNCHANGED queue
       ELSE Enqueue(r)
    /\ UNCHANGED <<status, devState, checkTimer, up, loopVars>>

-----------------------------------------------------------------------------
(* startDevices() and the restart timer *)

\* stopTimer(), failCount = 0 and the start of the loop over the devices.
StartDevices ==
    /\ checkTimer' = 0
    /\ looping' = TRUE
    /\ toStart' = Device
    /\ startFailed' = FALSE
    /\ UNCHANGED current

\* start() of d can run: the previous device's has returned.
Visit(d) ==
    /\ looping
    /\ calls = <<>>
    /\ current = NoDevice
    /\ d \in toStart
    /\ toStart' = toStart \ {d}
    /\ UNCHANGED looping

\* Device::start() of a device that works or is being started, and the start()
\* of DMX512, which does nothing.
StartSkips(d) ==
    /\ Visit(d)
    /\ d \in Passive \/ devState[d] \in {"normal", "starting"}
    /\ UNCHANGED <<reqVars, calls, devState, checkTimer, up, current, startFailed>>

Startable(d) == d \notin Passive /\ devState[d] \in {"stopped", "fault"}

\* createRequest() finds no memory.
StartNoMem(d) ==
    /\ Visit(d)
    /\ Startable(d)
    /\ Free = {}
    /\ startFailed' = TRUE
    /\ UNCHANGED <<reqVars, calls, devState, checkTimer, up, current>>

\* A device without nodes cannot be queried: it counts as working.
StartNodeless(d) ==
    /\ Visit(d)
    /\ Startable(d)
    /\ Free # {}
    /\ d \in Nodeless
    /\ devState' = [devState EXCEPT ![d] = "normal"]
    /\ UNCHANGED <<reqVars, calls, checkTimer, up, current, startFailed>>

\* The query is submitted; start() continues when submit() returns.
StartQueries(d) ==
    /\ Visit(d)
    /\ Startable(d)
    /\ d \notin Nodeless
    /\ \E r \in Request : Allocate(r, d, "query", 0) /\ Enqueue(r)
    /\ current' = d
    /\ UNCHANGED <<inFlight, devState, checkTimer, up, startFailed>>

\* submit() has returned: `state = State::starting', whatever it was.
StartReturns(d) ==
    /\ current = d
    /\ calls = <<>>
    /\ devState' = [devState EXCEPT ![d] = "starting"]
    /\ current' = NoDevice
    /\ UNCHANGED <<reqVars, calls, checkTimer, up, looping, toStart, startFailed>>

\* The last device is started; the timer will retry those that failed.
LoopEnds ==
    /\ looping
    /\ calls = <<>>
    /\ current = NoDevice
    /\ toStart = {}
    /\ looping' = FALSE
    /\ startFailed' = FALSE
    /\ IF startFailed THEN StartTimer ELSE UNCHANGED checkTimer
    /\ UNCHANGED <<reqVars, calls, devState, up, toStart, current>>

\* The clock runs whatever the code does.
Tick ==
    /\ checkTimer > 1
    /\ checkTimer' = checkTimer - 1
    /\ UNCHANGED <<reqVars, calls, devState, up, loopVars>>

TimerFires ==
    /\ AtRest
    /\ checkTimer = 1
    /\ StartDevices
    /\ UNCHANGED <<reqVars, calls, devState, up>>

-----------------------------------------------------------------------------
(* The device manager starts, stops and reloads the controller *)

\* DeviceManager::start(), also of a controller that runs already.
Start ==
    /\ AtRest
    /\ up' = TRUE
    /\ StartDevices
    /\ UNCHANGED <<reqVars, calls, devState>>

\* DeviceManager::stop() of a controller whose canStop() holds.
Stop ==
    /\ AtRest
    /\ queue = <<>>
    /\ up' = FALSE
    /\ checkTimer' = 0
    /\ UNCHANGED <<reqVars, calls, devState, loopVars>>

\* DeviceManager::begin(): end(), the devices created anew, start().
Begin ==
    /\ AtRest
    /\ queue = <<>>
    /\ up' = TRUE
    /\ devState' = [d \in Device |-> "stopped"]
    /\ StartDevices
    /\ UNCHANGED <<reqVars, calls>>

-----------------------------------------------------------------------------
Application ==
    \/ \E p \in Commands : Submit(p[1], p[2]) \/ SubmitImmediate(p[1], p[2])
    \/ Start \/ Stop \/ Begin

CallStep == \E r \in Request :
    Execute(r) \/ Reject(r) \/ Succeed(r) \/ Fail(r) \/ Dispose(r)

LoopStep ==
    \/ \E d \in Device : \/ StartSkips(d) \/ StartNoMem(d) \/ StartNodeless(d)
                         \/ StartQueries(d) \/ StartReturns(d)
    \/ LoopEnds

Hardware(r) == Answered(r) \/ HardwareFails(r) \/ Resubmit(r)

Next ==
    \/ Application
    \/ CallStep
    \/ LoopStep
    \/ \E r \in Request : Hardware(r)
    \/ Tick
    \/ TimerFires

\* Calls return and loops end; the hardware's transaction timer answers for
\* every request in flight and an expired timer is served, in the end, however
\* often other tasks run first (SF); time passes.
Fairness ==
    /\ WF_vars(CallStep)
    /\ WF_vars(LoopStep)
    /\ \A r \in Request : SF_vars(Hardware(r))
    /\ SF_vars(TimerFires)
    /\ WF_vars(Tick)

Spec == Init /\ [][Next]_vars /\ Fairness

-----------------------------------------------------------------------------
(* Properties *)

\* Serialisation, Controller.cpp 172-195 and 227-234: a request is handed to
\* the hardware only when the hardware has answered the one before, whatever
\* the callbacks and failed executions on the stack submit.
SerialExecution ==
    /\ \A i \in DOMAIN calls : calls[i].op = "Execute" => inFlight = {}
    /\ \A r, s \in inFlight : r = s

\* Progress of the queue, Controller.cpp 172-234: nothing but an exchange on
\* the bus can move a queue that is not empty, so when the last call has
\* returned there must be one, for the request at the head and no other.
NoStall == calls = <<>> =>
    inFlight = IF queue = <<>> THEN {} ELSE {Head(queue)}

\* Recovery, Controller.cpp 130-170 and Device.cpp 89-101: a running
\* controller never forgets a device in fault: the restart timer is armed or
\* the loop of startDevices() has yet to deal with the device.
NoOrphanFault == \A d \in Device \ Passive : up /\ devState[d] = "fault" =>
    \/ checkTimer > 0
    \/ looping /\ (d \in toStart \/ d = current \/ startFailed)

\* Initialisation, Device.cpp 51-74 and 89-101: start() skips a device that is
\* `starting', so such a device needs a query under way that will end it.
StartingHasQuery == \A d \in Device : devState[d] = "starting" =>
    \E r \in Request : status[r] = "pending" /\ Pair(r) = <<d, "query">>

\* The requests still to complete, in order, and whether one is on the bus.
Waiting == IF queue # <<>> /\ status[Head(queue)] # "pending"
           THEN Tail(queue) ELSE queue

Line == INSTANCE RequestQueue WITH line <- Waiting, serving <- inFlight # {}

\* README.rst, "The controller serialises requests", and Request.h 68, "Each
\* call to submit() always has a corresponding call to complete()": one line,
\* served in order, one at a time, that never stops.
Serialises == Line!Spec

SomeFailure == \E r \in Request : Fail(r)

Attempted(d) == (up /\ devState[d] = "fault") ~>
                    (d \in toStart \/ d = current \/ ~up)

\* Recovery comes, Controller.cpp 104-170: startDevices() visits every device
\* in fault unless the controller is stopped, or requests fail for ever.
RestartAttempted == []<><<SomeFailure>>_vars \/ \A d \in Device \ Passive : Attempted(d)
=============================================================================
