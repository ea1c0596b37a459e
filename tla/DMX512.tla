------------------------------- MODULE DMX512 -------------------------------
(***************************************************************************)
(* The DMX512 devices of one RS485 controller and the cycle that sends     *)
(* their data (src/src/DMX512/Device.cpp, Request.cpp; NodeData in         *)
(* include/IO/DMX512/Device.h).                                            *)
(*                                                                         *)
(* Commands change the nodes at once.  A timer that all devices share      *)
(* queues `update' requests behind whatever else uses the bus; an update   *)
(* moves each node one step of its fade, sends every node's value and,     *)
(* when the frame is out, arms the timer again.                            *)
(***************************************************************************)
EXTENDS Integers

CONSTANTS
    Node,          \* the nodes of the controller's DMX512 devices
    Selection,     \* what a command can select: one node or all of a device
    Levels,        \* the values commands carry, an int each
    MaxValue,      \* largest value of a uint8_t
    DefaultLevel,  \* the target `on' gives a node that has none
    MaxUpdates     \* bound: update requests queued at a time

ASSUME SelectionAssumption == Selection \subseteq SUBSET Node
ASSUME LevelAssumption     == /\ Levels \subseteq Int
                              /\ MaxValue \in Nat
                              /\ DefaultLevel \in 1 .. MaxValue
ASSUME UpdateAssumption    == MaxUpdates \in Nat \ {0}

VARIABLES
    node,          \* Device::nodeData
    timer,         \* Device::timer: off, or armed with one of two intervals
    dataChanged,   \* Device::dataChanged
    updating,      \* Device::updating
    updates,       \* update requests submitted and not completed
    onBus,         \* one of them holds the bus
    sent           \* per node, the value in the last frame

cycleVars == <<timer, updating, updates, onBus>>
vars      == <<node, cycleVars, dataChanged, sent>>

Value == 0 .. MaxValue

NodeData == [target : Value, value : Value,
             state : {"disabled", "enabling", "enabled", "disabling"}]

Blank == [target |-> 0, value |-> 0, state |-> "disabled"]

TypeOK ==
    /\ node \in [Node -> NodeData]
    /\ timer \in {"off", "changed", "periodic"}
    /\ dataChanged \in BOOLEAN
    /\ updating \in BOOLEAN
    /\ updates \in 0 .. MaxUpdates
    /\ onBus \in BOOLEAN
    /\ sent \in [Node -> Value]

\* As init() of the devices leaves it.
Init ==
    /\ node = [n \in Node |-> Blank]
    /\ timer = "changed"
    /\ dataChanged = FALSE
    /\ updating = FALSE
    /\ updates = 0
    /\ onBus = FALSE
    /\ sent = [n \in Node |-> 0]

-----------------------------------------------------------------------------
(* NodeData *)

NoClip(v) == v

\* TRange(0, 0xff).clip()
Clip(v) == IF v < 0 THEN 0 ELSE IF v > MaxValue THEN MaxValue ELSE v

Enable(d) == IF d.state = "enabled" THEN d ELSE [d EXCEPT !.state = "enabling"]

Disable(d) == IF d.state = "disabled" THEN d ELSE [d EXCEPT !.state = "disabling"]

\* setValue(): the int loses all but its low byte.
SetValue(v) ==
    LET byte == v % (MaxValue + 1) IN
    [target |-> byte, value |-> byte,
     state |-> IF byte = 0 THEN "disabling" ELSE "enabling"]

\* Where the fade of d leads: adjustTarget.
Goal(d) == IF d.state = "disabling" THEN 0 ELSE d.target

\* The most a fade moves d at a time.
Step(d) == IF d.state = "enabled" THEN 1 ELSE 4

\* One step of the fade.
Stepped(d) == Clip(d.value + (IF d.value < Goal(d) THEN Step(d) ELSE -Step(d)))

\* A node that has reached its goal has finished its fade ...
Finished(d) ==
    [d EXCEPT !.state = CASE d.state = "disabling" -> "disabled"
                          [] d.state = "enabling"  -> "enabled"
                          [] OTHER                 -> d.state]

\* ... and any other moves: adjust() returns true.
Moves(d) == d.state # "disabled" /\ d.value # Goal(d)

EagerAdjust(d) == IF d.state = "disabling" THEN [d EXCEPT !.state = "disabled"]
                  ELSE IF Moves(d) THEN [d EXCEPT !.value = Stepped(d)] ELSE Finished(d)
AdjustAway(d) == IF Moves(d) THEN [d EXCEPT !.value = Clip(d.value + Step(d))] ELSE Finished(d)

\* adjust()
Adjusted(d) == IF Moves(d) THEN [d EXCEPT !.value = Stepped(d)] ELSE Finished(d)

-----------------------------------------------------------------------------
(* Commands *)

Commands == {"off", "on", "other"} \X {0} \cup {"adjust", "set"} \X Levels

\* What command c does to a node.  Those DMX512 does not know do nothing.
Effect(c, d) ==
    CASE c[1] = "off"    -> Disable(d)
      [] c[1] = "on"     -> Enable([d EXCEPT !.target = IF @ = 0 THEN DefaultLevel ELSE @])
      [] c[1] = "adjust" -> Enable([d EXCEPT !.target = Clip(@ + c[2])])
      [] c[1] = "set"    -> SetValue(c[2])
      [] c[1] = "other"  -> d

NotifyOnce == IF timer = "off" THEN timer' = "changed" ELSE UNCHANGED timer

\* The end of Device::execute(): the first change since the last update was
\* done makes the next one due soon.
NotifyChange == IF dataChanged THEN UNCHANGED timer ELSE timer' = "changed"

\* updateSlaves() with the nodes d: fade them, send them.
SendSlaves(d) ==
    /\ node' = [n \in Node |-> Adjusted(d[n])]
    /\ sent' = [n \in Node |-> Adjusted(d[n]).value]
    /\ updating' = TRUE

\* Request::submit() of command c for the nodes S.  Completing it has the
\* controller execute the head of its queue again: an update on the bus is
\* sent a second time.
Command(S, c) ==
    LET d == [n \in Node |-> IF n \in S THEN Effect(c, node[n]) ELSE node[n]] IN
    /\ NotifyChange
    /\ dataChanged' = TRUE
    /\ IF onBus THEN SendSlaves(d) ELSE node' = d /\ UNCHANGED <<updating, sent>>
    /\ UNCHANGED <<updates, onBus>>

-----------------------------------------------------------------------------
(* The update cycle *)

\* The timer's callback submits an update request.
TimerFires ==
    /\ timer # "off"
    /\ updates < MaxUpdates
    /\ timer' = "off"
    /\ updates' = updates + 1
    /\ UNCHANGED <<node, dataChanged, updating, onBus, sent>>

\* The controller gets to an update request.
AfterAdjusting == dataChanged \/ \E n \in Node : Moves(node[n])

Execute ==
    /\ updates > 0
    /\ ~onBus
    /\ onBus' = TRUE
    /\ SendSlaves(node)
    /\ dataChanged' = AfterAdjusting
    /\ UNCHANGED <<timer, updates>>

\* The update request is completed and leaves the queue.
Complete == updates' = updates - 1 /\ onBus' = FALSE

OnlyIfChanged == IF dataChanged THEN timer' = "changed" ELSE UNCHANGED timer

\* Device::handleEvent(TransmitComplete) schedules the next update.
ScheduleNext == timer' = IF dataChanged THEN "changed" ELSE "periodic"

TransmitComplete ==
    /\ onBus
    /\ updating' = FALSE
    /\ ScheduleNext
    /\ dataChanged' = FALSE
    /\ Complete
    /\ UNCHANGED <<node, sent>>

\* The transaction timer ends the update: handleEvent passes the event on and
\* the request completes with an error.
Timeout ==
    /\ onBus
    /\ Complete
    /\ UNCHANGED <<node, timer, dataChanged, updating, sent>>

\* DeviceManager::begin() makes the devices anew; what is static stays.
Reload ==
    /\ updates = 0
    /\ node' = [n \in Node |-> Blank]
    /\ timer' = "changed"
    /\ UNCHANGED <<dataChanged, updating, updates, onBus, sent>>

-----------------------------------------------------------------------------
SomeCommand == \E S \in Selection, c \in Commands : Command(S, c)

Next == SomeCommand \/ TimerFires \/ Execute \/ TransmitComplete \/ Timeout \/ Reload

\* The timer expires, the controller gets to every request it queued, and the
\* transmitter runs empty or the transaction times out.
Fairness ==
    /\ WF_vars(TimerFires)
    /\ WF_vars(Execute)
    /\ WF_vars(TransmitComplete \/ Timeout)

Spec == Init /\ [][Next]_vars /\ Fairness

-----------------------------------------------------------------------------
(* Properties *)

\* The cycle, Device.cpp 53: "DMX spec. says we should be pumping out updates
\* continuously".  Whenever no update is queued the timer will queue one.
KeepsPumping == timer # "off" \/ updates > 0

\* The last update did not end with TransmitComplete.
Failed == updating /\ ~onBus

\* Device.cpp 199-213: nothing but the failure of an update stops the cycle.
StopsOnFailure == KeepsPumping \/ Failed

\* What the last frame did not say: a value, or the next step of a fade.
Unsent(n) == Moves(node[n]) \/ node[n].value # sent[n]

\* Device.cpp 64-66: a change goes out after the short interval, whichever way
\* commands and updates overlap.  Either the short timer runs, or an update
\* is still to read the data, or the one on the bus will restart that timer;
\* or an update has failed.
ChangesGoOut == (\E n \in Node : Unsent(n)) =>
    \/ timer = "changed"
    \/ updates > 0 /\ ~onBus
    \/ updates > 1
    \/ onBus /\ dataChanged
    \/ Failed

\* Device.h 76-91: a node is `disabled', and no longer looked at by updates,
\* only when its light is out.
DisabledDark == \A n \in Node : node[n].state = "disabled" => node[n].value = 0

Near(n) == node[n].state = "disabled" \/ node[n].value - Goal(node[n]) \in -3 .. 3

\* Device.h 76-97: when the last command is done every fade arrives, unless the
\* cycle stops.  A fade of `enabling' passes a goal its steps of 4 do not meet,
\* and swings about it.
FadesArrive ==
    \/ []<><<SomeCommand>>_vars
    \/ <>[]~KeepsPumping
    \/ \A n \in Node : <>[]Near(n)
=============================================================================
