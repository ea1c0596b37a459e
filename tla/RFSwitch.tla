------------------------------ MODULE RFSwitch ------------------------------
(***************************************************************************)
(* The controller of the 433 MHz transmitter (src/src/RFSwitch).  A        *)
(* request's code is sent pulse by pulse from a hardware timer interrupt,  *)
(* which shares its state with the task that queues and completes          *)
(* requests; the last interrupt posts the completion to that task.         *)
(*                                                                         *)
(* A code is the set of its bits that are 1, bit Bits sent first.          *)
(***************************************************************************)
EXTENDS Integers, Sequences

CONSTANTS
    Device,        \* the RFSwitch devices of the controller
    Request,       \* request objects the heap can hold
    None,          \* no request
    Timing,        \* Device::timing, per device, in microseconds
    Configured,    \* "repeats" of the configuration, per device, 0 if absent
    Default,       \* RF_DEFAULT_REPEATS
    Bits,          \* bits of a code
    Codes,         \* the codes asked for
    MaxRepeats,    \* largest value of a uint8_t
    MaxLow,        \* largest value of a uint16_t
    Extension,     \* RC_PULSE_EXTENSION
    Latency        \* LATENCY

ASSUME NoneAssumption   == None \notin Request
ASSUME DeviceAssumption == Device # {}
ASSUME CodeAssumption   == Bits \in Nat \ {0} /\ Codes \subseteq SUBSET (1 .. Bits)
ASSUME RepeatAssumption == /\ MaxRepeats \in Nat /\ Default \in 1 .. MaxRepeats
                           /\ Configured \in [Device -> 0 .. MaxRepeats]
ASSUME TimingAssumption ==
    /\ {MaxLow, Extension, Latency} \subseteq Nat
    /\ Timing \in [Device -> [starth : Nat, startl : Nat, period : Nat,
                              bit0 : Nat, bit1 : Nat, gap : Nat]]

VARIABLES
    queue,             \* Controller::queue
    request,           \* the content of the request objects
    executing,         \* the task is about to execute the head of the queue
    activeRequest,     \* Controller::activeRequest
    transmitState,     \* Controller::transmitState
    transmitMask,      \* Controller::transmitMask: the bit to send next, 0 none
    lowDuration,       \* Controller::lowDuration
    repeatsRemaining,  \* Controller::repeatsRemaining
    pin,               \* the transmitter's pin: not driven, or its level
    armed,             \* the hardware timer runs
    posted,            \* System.queueCallback() has the completion to call
    air                \* history: the pulses of the active request, its level
                       \* and the interval the timer was set to

taskVars  == <<queue, request, executing>>
sendVars  == <<activeRequest, transmitState, transmitMask, lowDuration, repeatsRemaining>>
outVars   == <<pin, armed, posted, air>>
vars      == <<taskVars, sendVars, outVars>>

Content == [device : Device, set : BOOLEAN, code : Codes \cup {{}}, repeats : 0 .. MaxRepeats]

Blank == [device |-> CHOOSE d \in Device : TRUE, set |-> FALSE, code |-> {}, repeats |-> 0]

TypeOK ==
    /\ queue \in Seq(Request)
    /\ request \in [Request -> Content]
    /\ executing \in BOOLEAN
    /\ activeRequest \in Request \cup {None}
    /\ transmitState \in {"idle", "startHigh", "startLow", "dataHigh", "dataLow"}
    /\ transmitMask \in 0 .. Bits
    /\ lowDuration \in 0 .. MaxLow
    /\ repeatsRemaining \in 0 .. MaxRepeats
    /\ pin \in {"input", "low", "high"}
    /\ armed \in BOOLEAN
    /\ posted \in BOOLEAN
    /\ air \in Seq({"low", "high"} \X Int)

Init ==
    /\ queue = <<>>
    /\ request = [r \in Request |-> Blank]
    /\ executing = FALSE
    /\ activeRequest = None
    /\ transmitState = "idle"
    /\ transmitMask = 0
    /\ lowDuration = 0
    /\ repeatsRemaining = 0
    /\ pin = "input"
    /\ armed = FALSE
    /\ posted = FALSE
    /\ air = <<>>

-----------------------------------------------------------------------------
(* Requests *)

Queued == {queue[i] : i \in DOMAIN queue}

\* Device::init()
DeviceRepeats(d) == IF Configured[d] = 0 THEN Default ELSE Configured[d]

\* Controller::submit(): a task of the application, or a callback the
\* controller makes while its queue is not empty.
Submit(c) ==
    /\ \E r \in Request \ Queued :
         /\ queue' = Append(queue, r)
         /\ request' = [request EXCEPT ![r] = c]
    /\ executing' = (executing \/ queue = <<>>)
    /\ UNCHANGED <<sendVars, outVars>>

Asked(d, set, code, repeats) ==
    Submit([device |-> d, set |-> set, code |-> code, repeats |-> repeats])

\* Request::send(): 0 repeats ask for the device's.
Send(d, code, repeats) ==
    Asked(d, TRUE, code, IF repeats = 0 THEN DeviceRepeats(d) ELSE repeats)

\* Request::parseJson(): a message to one device.  It may name a command other
\* than the `set' of a new request, and may name a number of repeats.
Parse(d, set, code) ==
    \/ Asked(d, set, code, DeviceRepeats(d))
    \/ \E repeats \in 0 .. MaxRepeats : Asked(d, set, code, repeats)

\* A message to a group of devices carries no code; Device::start() queries.
Group(d, set) == Asked(d, set, {}, 0)

CompleteBusy ==
    /\ activeRequest' = None
    /\ queue' = Tail(queue)
    /\ request' = [request EXCEPT ![Head(queue)] = Blank]
    /\ executing' = (Tail(queue) # <<>>)
    /\ UNCHANGED <<transmitState, transmitMask, lowDuration, repeatsRemaining>>

CompleteAgain ==
    /\ activeRequest' = None
    /\ transmitState' = "idle"
    /\ executing' = TRUE
    /\ UNCHANGED <<queue, request, transmitMask, lowDuration, repeatsRemaining>>

\* complete() of the head of the queue, up to the next call of execute().
Complete ==
    /\ activeRequest' = None
    /\ transmitState' = "idle"
    /\ queue' = Tail(queue)
    /\ request' = [request EXCEPT ![Head(queue)] = Blank]
    /\ executing' = (Tail(queue) # <<>>)
    /\ UNCHANGED <<transmitMask, lowDuration, repeatsRemaining>>

-----------------------------------------------------------------------------
(* Transmission *)

T(r) == Timing[request[r].device]

PulseOf(r, bit) == IF bit \in request[r].code THEN T(r).bit1 ELSE T(r).bit0

\* The timer intervals of a high and of a low pulse that is to last d.
HighFor(d) == d + Extension - Latency
LowFor(d)  == d - Extension - Latency

\* setTransmit(state, true, d) for request r, after the pulses in before.  The
\* low pulse that fills the bit period is extended, when the last one, by gap.
TransmitHigh(before, r, state, d, gap) ==
    /\ pin' = "high"
    /\ lowDuration' = (((T(r).period - d) % (MaxLow + 1)) + gap) % (MaxLow + 1)
    /\ transmitState' = state
    /\ armed' = TRUE
    /\ air' = Append(before, <<"high", HighFor(d)>>)

\* setTransmit(state, false, d)
TransmitLow(state, d) ==
    /\ pin' = "low"
    /\ transmitState' = state
    /\ armed' = TRUE
    /\ air' = Append(air, <<"low", LowFor(d)>>)

StartHigh(before, r) == TransmitHigh(before, r, "startHigh", T(r).starth, 0)

\* A request with a command other than `set' is completed at once ...
Refuse ==
    /\ executing
    /\ ~request[Head(queue)].set
    /\ Complete
    /\ UNCHANGED outVars

\* ... and the code of any other begins to go out.
Execute ==
    /\ executing
    /\ request[Head(queue)].set
    /\ executing' = FALSE
    /\ activeRequest' = Head(queue)
    /\ repeatsRemaining' = request[Head(queue)].repeats
    /\ StartHigh(<<>>, Head(queue))
    /\ UNCHANGED <<queue, request, transmitMask, posted>>

SendBitStale(r, bit) ==
    /\ TransmitHigh(air, r, "dataHigh", PulseOf(r, bit), IF bit = 2 THEN T(r).gap ELSE 0)
    /\ transmitMask' = bit - 1

\* A bit of the code: its high pulse.
SendBit(r, bit) ==
    /\ TransmitHigh(air, r, "dataHigh", PulseOf(r, bit), IF bit = 1 THEN T(r).gap ELSE 0)
    /\ transmitMask' = bit - 1

EndOfFrameKeyed(r) ==
    /\ repeatsRemaining' = (repeatsRemaining - 1) % (MaxRepeats + 1)
    /\ UNCHANGED transmitMask
    /\ \/ repeatsRemaining' # 0 /\ StartHigh(air, r) /\ UNCHANGED posted
       \/ /\ repeatsRemaining' = 0
          /\ armed' = FALSE
          /\ posted' = TRUE
          /\ UNCHANGED <<pin, transmitState, lowDuration, air>>

EndOfFrameSigned(r) ==
    /\ repeatsRemaining' = repeatsRemaining - 1
    /\ UNCHANGED transmitMask
    /\ \/ repeatsRemaining' # 0 /\ StartHigh(air, r) /\ UNCHANGED posted
       \/ /\ repeatsRemaining' = 0
          /\ pin' = "input"
          /\ armed' = FALSE
          /\ posted' = TRUE
          /\ UNCHANGED <<transmitState, lowDuration, air>>

\* All bits are out: again, or done.
EndOfFrame(r) ==
    /\ repeatsRemaining' = (repeatsRemaining - 1) % (MaxRepeats + 1)
    /\ UNCHANGED transmitMask
    /\ \/ repeatsRemaining' # 0 /\ StartHigh(air, r) /\ UNCHANGED posted
       \/ /\ repeatsRemaining' = 0
          /\ pin' = "input"
          /\ armed' = FALSE
          /\ posted' = TRUE
          /\ UNCHANGED <<transmitState, lowDuration, air>>

\* transmitInterruptHandler(), once the timer it is called by has expired.
\* With no active request it returns: the timer is never armed then.
Interrupt ==
    /\ armed
    /\ activeRequest # None
    /\ UNCHANGED <<taskVars, activeRequest>>
    /\ \/ /\ transmitState = "startHigh"
          /\ TransmitLow("startLow", T(activeRequest).startl)
          /\ UNCHANGED <<transmitMask, lowDuration, repeatsRemaining, posted>>
       \/ /\ transmitState = "dataHigh"
          /\ TransmitLow("dataLow", lowDuration)
          /\ UNCHANGED <<transmitMask, lowDuration, repeatsRemaining, posted>>
       \/ /\ transmitState = "startLow"
          /\ SendBit(activeRequest, Bits)
          /\ UNCHANGED <<repeatsRemaining, posted>>
       \/ /\ transmitState = "dataLow"
          /\ transmitMask # 0
          /\ SendBit(activeRequest, transmitMask)
          /\ UNCHANGED <<repeatsRemaining, posted>>
       \/ /\ transmitState = "dataLow"
          /\ transmitMask = 0
          /\ EndOfFrame(activeRequest)

\* The posted callback runs: activeRequest->complete(success).
Callback ==
    /\ posted
    /\ ~executing
    /\ posted' = FALSE
    /\ Complete
    /\ UNCHANGED <<pin, armed, air>>

-----------------------------------------------------------------------------
Next ==
    \/ \E d \in Device, code \in Codes, n \in 0 .. MaxRepeats : Send(d, code, n)
    \/ \E d \in Device, set \in BOOLEAN, code \in Codes : Parse(d, set, code)
    \/ \E d \in Device, set \in BOOLEAN : Group(d, set)
    \/ Refuse
    \/ Execute
    \/ Interrupt
    \/ Callback

\* Calls under way go on, an armed timer expires, a posted callback is called.
Fairness == WF_vars(Refuse) /\ WF_vars(Execute) /\ WF_vars(Interrupt) /\ WF_vars(Callback)

Spec == Init /\ [][Next]_vars /\ Fairness

-----------------------------------------------------------------------------
(* Properties *)

\* RFSwitch/Controller.cpp 177-178: the assertions of execute() hold however
\* completions, refusals and submissions follow one another.
Asserted == executing => activeRequest = None /\ transmitState = "idle"

\* What a receiver sees of the i-th pulse of a frame of request r.
Pulse(r, i) ==
    LET bit == Bits - (i - 3) \div 2
        gap == IF bit = 1 THEN T(r).gap ELSE 0 IN
    CASE i = 1     -> <<"high", HighFor(T(r).starth)>>
      [] i = 2     -> <<"low", LowFor(T(r).startl)>>
      [] i > 2 /\ i % 2 = 1 -> <<"high", HighFor(PulseOf(r, bit))>>
      [] OTHER     -> <<"low", LowFor(T(r).period - PulseOf(r, bit) + gap)>>

FrameLength == 2 + 2 * Bits

\* The counter is decremented before it is tested: 0 asks for as many frames as
\* a uint8_t can count.
Frames(r) == IF request[r].repeats = 0 THEN MaxRepeats + 1 ELSE request[r].repeats

\* RFSwitch/Controller.cpp 118-168: the interrupts put the frame of the active
\* request's code on the air, with the timing of its device, as often as it
\* asks, and the request is completed after the last pulse and not before.
OnAir == activeRequest # None =>
    /\ \A i \in DOMAIN air :
          air[i] = Pulse(activeRequest, ((i - 1) % FrameLength) + 1)
    /\ Len(air) <= Frames(activeRequest) * FrameLength
    /\ posted <=> (Len(air) = Frames(activeRequest) * FrameLength /\ ~armed)

\* RFSwitch/Controller.cpp 158-165: the transmitter is keyed, and its timer
\* armed, only for the request at the head of the queue; whenever nothing is
\* being sent the pin is not driven.
QuietWhenIdle ==
    IF armed
    THEN activeRequest # None /\ queue # <<>> /\ activeRequest = Head(queue) /\ ~posted
    ELSE pin = "input" /\ (posted <=> activeRequest # None)

\* The controller keeps the promise of RequestQueue, and keeps moving.
Abstract == INSTANCE RequestQueue WITH line <- queue, serving <- activeRequest # None

Serialises == Abstract!Spec
=============================================================================
