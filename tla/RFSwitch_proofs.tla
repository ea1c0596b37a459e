--------------------------- MODULE RFSwitch_proofs ---------------------------
(***************************************************************************)
(* Proofs about the RF controller, for every set of devices and requests,  *)
(* every number of bits and repeats and every timing.                      *)
(***************************************************************************)
EXTENDS RFSwitch, SequenceTheorems, TLAPS

-----------------------------------------------------------------------------
(* Type correctness *)

\* A request object that is not in use.
LEMMA BlankType == Blank \in Content
BY DeviceAssumption, RepeatAssumption DEF Blank, Content, DeviceAssumption, RepeatAssumption

\* What is left of a division.
LEMMA Remainder == ASSUME NEW i \in Int, NEW n \in Nat PROVE i % (n + 1) \in 0 .. n
OBVIOUS

\* A request has the timing of its device, and its pulses have durations.
LEMMA TimingType ==
    ASSUME TypeOK, NEW r \in Request
    PROVE  /\ T(r).starth \in Nat /\ T(r).startl \in Nat /\ T(r).period \in Nat
           /\ T(r).gap \in Nat
           /\ \A bit : PulseOf(r, bit) \in Nat
<1>1. request[r].device \in Device
  BY DEF TypeOK, Content
<1>2. T(r) \in [starth : Nat, startl : Nat, period : Nat, bit0 : Nat, bit1 : Nat, gap : Nat]
  BY <1>1, TimingAssumption DEF TimingAssumption, T
<1> QED
  BY <1>2 DEF PulseOf

\* The history of pulses.
LEMMA AirType ==
    ASSUME NEW a \in Seq({"low", "high"} \X Int), NEW l \in {"low", "high"}, NEW d \in Int
    PROVE  Append(a, <<l, d>>) \in Seq({"low", "high"} \X Int)
<1>1. <<l, d>> \in {"low", "high"} \X Int
  OBVIOUS
<1> QED
  BY <1>1, AppendProperties

\* setTransmit() for a high and for a low pulse.
LEMMA HighType ==
    ASSUME TypeOK, NEW r \in Request, NEW before \in Seq({"low", "high"} \X Int),
           NEW state, NEW d \in Nat, NEW gap \in Nat,
           TransmitHigh(before, r, state, d, gap)
    PROVE  /\ pin' = "high" /\ armed' = TRUE /\ transmitState' = state
           /\ lowDuration' \in 0 .. MaxLow
           /\ air' \in Seq({"low", "high"} \X Int)
<1>1. HighFor(d) \in Int
  BY TimingAssumption DEF TimingAssumption, HighFor
<1>2. MaxLow \in Nat /\ T(r).period - d \in Int
  BY TimingAssumption, TimingType DEF TimingAssumption
<1>3. (T(r).period - d) % (MaxLow + 1) \in 0 .. MaxLow
  BY <1>2, Remainder
<1>4. ((T(r).period - d) % (MaxLow + 1)) + gap \in Int
  BY <1>2, <1>3
<1>5. lowDuration' \in 0 .. MaxLow
  BY <1>2, <1>4, Remainder DEF TransmitHigh
<1> QED
  BY <1>1, <1>5, AirType DEF TransmitHigh

\* See HighType.
LEMMA LowType ==
    ASSUME TypeOK, NEW state, NEW d \in Nat, TransmitLow(state, d)
    PROVE  /\ pin' = "low" /\ armed' = TRUE /\ transmitState' = state
           /\ air' \in Seq({"low", "high"} \X Int)
<1>1. LowFor(d) \in Int
  BY TimingAssumption DEF TimingAssumption, LowFor
<1> QED
  BY <1>1, AirType DEF TransmitLow, TypeOK

-----------------------------------------------------------------------------
(* Handover.  A request is executed by a task and ended by another, with   *)
(* the interrupts in between: what each finds of the other two.            *)

Handover ==
    /\ executing => queue # <<>> /\ activeRequest = None /\ transmitState = "idle"
    /\ ~executing /\ queue # <<>> => activeRequest = Head(queue)
    /\ queue = <<>> => activeRequest = None /\ transmitState = "idle"
    /\ armed => activeRequest # None /\ ~posted
    /\ ~armed => pin = "input" /\ (posted <=> activeRequest # None)

Inv == TypeOK /\ Handover

\* It holds when the program starts.
LEMMA InvInit == Init => Inv
<1> SUFFICES ASSUME Init PROVE Inv
  OBVIOUS
<1>1. request \in [Request -> Content]
  BY BlankType DEF Init
<1>2. queue \in Seq(Request) /\ air \in Seq({"low", "high"} \X Int)
  BY EmptySeq DEF Init
<1>3. 0 \in 0 .. Bits /\ 0 \in 0 .. MaxLow /\ 0 \in 0 .. MaxRepeats
  BY RepeatAssumption, TimingAssumption, CodeAssumption
     DEF RepeatAssumption, TimingAssumption, CodeAssumption
<1>4. TypeOK
  BY <1>1, <1>2, <1>3 DEF Init, TypeOK
<1>5. Handover
  BY DEF Init, Handover
<1> QED
  BY <1>4, <1>5 DEF Inv

\* Submitting appends to the queue, and executes when it was empty.
LEMMA SubmitInv == ASSUME Inv, NEW c \in Content, Submit(c) PROVE Inv'
<1>1. PICK r \in Request \ Queued :
         queue' = Append(queue, r) /\ request' = [request EXCEPT ![r] = c]
  BY DEF Submit
<1>2. /\ queue' \in Seq(Request) /\ queue' # <<>>
      /\ queue # <<>> => Head(queue') = Head(queue)
  BY <1>1, AppendProperties, HeadTailProperties DEF Inv, TypeOK
<1>3. request' \in [Request -> Content]
  BY <1>1 DEF Inv, TypeOK
<1>4. UNCHANGED <<sendVars, outVars>> /\ executing' = (executing \/ queue = <<>>)
  BY DEF Submit
<1>5. TypeOK'
  BY <1>2, <1>3, <1>4 DEF Inv, TypeOK, sendVars, outVars
<1>6. Handover'
  BY <1>2, <1>4 DEF Inv, Handover, TypeOK, sendVars, outVars
<1> QED
  BY <1>5, <1>6 DEF Inv

\* A device has a number of repeats, configured or the default.
LEMMA RepeatsType == ASSUME NEW d \in Device PROVE DeviceRepeats(d) \in 0 .. MaxRepeats
BY RepeatAssumption DEF RepeatAssumption, DeviceRepeats

\* Every step but those of the transmission submits a request of the type.
LEMMA Steps ==
    ASSUME Next
    PROVE  (\E c \in Content : Submit(c)) \/ Refuse \/ Execute \/ Interrupt \/ Callback
<1>1. ASSUME NEW d \in Device, NEW set \in BOOLEAN, NEW code \in Codes \cup {{}},
             NEW n \in 0 .. MaxRepeats, Asked(d, set, code, n)
      PROVE  \E c \in Content : Submit(c)
  <2>1. [device |-> d, set |-> set, code |-> code, repeats |-> n] \in Content
    BY DEF Content
  <2> QED
    BY <1>1, <2>1 DEF Asked
<1>2. ASSUME NEW d \in Device, NEW code \in Codes, NEW n \in 0 .. MaxRepeats, Send(d, code, n)
      PROVE  \E c \in Content : Submit(c)
  BY <1>1, <1>2, RepeatsType DEF Send
<1>3. ASSUME NEW d \in Device, NEW set \in BOOLEAN, NEW code \in Codes, Parse(d, set, code)
      PROVE  \E c \in Content : Submit(c)
  <2>1. CASE Asked(d, set, code, DeviceRepeats(d))
    BY <1>1, <2>1, RepeatsType
  <2>2. ASSUME NEW n \in 0 .. MaxRepeats, Asked(d, set, code, n)
        PROVE  \E c \in Content : Submit(c)
    BY <1>1, <2>2
  <2> QED
    BY <1>3, <2>1, <2>2 DEF Parse
<1>4. ASSUME NEW d \in Device, NEW set \in BOOLEAN, Group(d, set)
      PROVE  \E c \in Content : Submit(c)
  <2>1. 0 \in 0 .. MaxRepeats
    BY RepeatAssumption DEF RepeatAssumption
  <2> QED
    BY <1>1, <1>4, <2>1 DEF Group
<1> QED
  BY <1>2, <1>3, <1>4 DEF Next

\* Completing takes the head of the queue off, when nothing is being sent.
LEMMA CompleteInv ==
    ASSUME Inv, queue # <<>>, Complete, armed' = FALSE, posted' = FALSE, ~armed,
           UNCHANGED <<pin, air>>
    PROVE  Inv'
<1>1. Tail(queue) \in Seq(Request) /\ Head(queue) \in Request
  BY HeadTailProperties DEF Inv, TypeOK
<1>2. request' \in [Request -> Content]
  BY BlankType DEF Complete, Inv, TypeOK
<1>3. TypeOK'
  BY <1>1, <1>2 DEF Complete, Inv, TypeOK
<1>4. Handover'
  BY <1>1 DEF Complete, Inv, Handover
<1> QED
  BY <1>3, <1>4 DEF Inv

\* What the interrupts leave alone.
LEMMA SendingInv ==
    ASSUME Inv, armed, UNCHANGED <<taskVars, activeRequest>>,
           transmitState' \in {"startHigh", "startLow", "dataHigh", "dataLow"},
           transmitMask' \in 0 .. Bits, lowDuration' \in 0 .. MaxLow,
           repeatsRemaining' \in 0 .. MaxRepeats,
           air' \in Seq({"low", "high"} \X Int),
           \/ armed' = TRUE /\ pin' \in {"low", "high"} /\ posted' = posted
           \/ armed' = FALSE /\ pin' = "input" /\ posted' = TRUE
    PROVE  Inv'
<1>1. TypeOK'
  BY DEF Inv, TypeOK, taskVars
<1>2. Handover'
  BY DEF Inv, Handover, TypeOK, taskVars
<1> QED
  BY <1>1, <1>2 DEF Inv

\* The interrupt that sends a bit, ...
LEMMA SendBitInv ==
    ASSUME Inv, armed, UNCHANGED <<taskVars, activeRequest, repeatsRemaining, posted>>,
           NEW r \in Request, NEW bit \in 1 .. Bits, SendBit(r, bit)
    PROVE  Inv'
<1> DEFINE gap == IF bit = 1 THEN T(r).gap ELSE 0
<1>1. gap \in Nat /\ PulseOf(r, bit) \in Nat
  BY TimingType DEF Inv
<1>2. TransmitHigh(air, r, "dataHigh", PulseOf(r, bit), gap) /\ transmitMask' = bit - 1
  BY DEF SendBit
<1>3. air \in Seq({"low", "high"} \X Int)
  BY DEF Inv, TypeOK
<1> HIDE DEF gap
<1>4. /\ pin' = "high" /\ armed' = TRUE /\ transmitState' = "dataHigh"
      /\ lowDuration' \in 0 .. MaxLow
      /\ air' \in Seq({"low", "high"} \X Int)
  BY <1>1, <1>2, <1>3, HighType DEF Inv
<1>5. transmitMask' \in 0 .. Bits
  BY <1>2, CodeAssumption DEF CodeAssumption
<1>6. repeatsRemaining' \in 0 .. MaxRepeats
  BY DEF Inv, TypeOK
<1> QED
  BY <1>4, <1>5, <1>6, SendingInv

\* The start pulse of a frame.
LEMMA StartHighType ==
    ASSUME TypeOK, NEW r \in Request, NEW before \in Seq({"low", "high"} \X Int),
           StartHigh(before, r)
    PROVE  /\ pin' = "high" /\ armed' = TRUE /\ transmitState' = "startHigh"
           /\ lowDuration' \in 0 .. MaxLow
           /\ air' \in Seq({"low", "high"} \X Int)
BY TimingType, HighType DEF StartHigh

\* ... that ends a frame, ...
LEMMA EndOfFrameInv ==
    ASSUME Inv, armed, UNCHANGED <<taskVars, activeRequest>>, NEW r \in Request,
           transmitState = "dataLow", EndOfFrame(r)
    PROVE  Inv'
<1>1. repeatsRemaining' \in 0 .. MaxRepeats
  BY RepeatAssumption, Remainder DEF RepeatAssumption, EndOfFrame, Inv, TypeOK
<1>2. CASE repeatsRemaining' # 0
  <2>1. StartHigh(air, r) /\ UNCHANGED <<transmitMask, posted>>
    BY <1>2 DEF EndOfFrame
  <2>2. /\ pin' = "high" /\ armed' = TRUE /\ transmitState' = "startHigh"
        /\ lowDuration' \in 0 .. MaxLow
        /\ air' \in Seq({"low", "high"} \X Int)
    BY <2>1, StartHighType DEF Inv, TypeOK
  <2>3. transmitMask' \in 0 .. Bits
    BY <2>1 DEF Inv, TypeOK
  <2> QED
    BY <1>1, <2>1, <2>2, <2>3, SendingInv
<1>3. CASE repeatsRemaining' = 0
  <2>1. /\ armed' = FALSE /\ pin' = "input" /\ posted' = TRUE
        /\ UNCHANGED <<transmitMask, transmitState, lowDuration, air>>
    BY <1>3 DEF EndOfFrame
  <2> QED
    BY <1>1, <2>1, SendingInv DEF Inv, TypeOK
<1> QED
  BY <1>2, <1>3

\* ... and any interrupt.
LEMMA InterruptInv == ASSUME Inv, Interrupt PROVE Inv'
<1>1. /\ armed /\ activeRequest \in Request
      /\ UNCHANGED <<taskVars, activeRequest>>
  BY DEF Interrupt, Inv, TypeOK
<1>2. ASSUME NEW d \in Nat, NEW state \in {"startLow", "dataLow"}, TransmitLow(state, d),
             UNCHANGED <<transmitMask, lowDuration, repeatsRemaining, posted>>
      PROVE  Inv'
  <2>1. /\ pin' = "low" /\ armed' = TRUE /\ transmitState' = state
        /\ air' \in Seq({"low", "high"} \X Int)
    BY <1>2, LowType DEF Inv
  <2> QED
    BY <1>1, <1>2, <2>1, SendingInv DEF Inv, TypeOK
<1>3. CASE transmitState = "startHigh"
  BY <1>1, <1>2, <1>3, TimingType DEF Interrupt, Inv
<1>4. CASE transmitState = "dataHigh"
  <2>1. lowDuration \in Nat
    BY TimingAssumption DEF TimingAssumption, Inv, TypeOK
  <2> QED
    BY <1>1, <1>2, <1>4, <2>1 DEF Interrupt
<1>5. CASE transmitState = "startLow"
  <2>1. Bits \in 1 .. Bits
    BY CodeAssumption DEF CodeAssumption
  <2> QED
    BY <1>1, <1>5, <2>1, SendBitInv DEF Interrupt
<1>6. CASE transmitState = "dataLow" /\ transmitMask # 0
  <2>1. transmitMask \in 1 .. Bits
    BY <1>6, CodeAssumption DEF CodeAssumption, Inv, TypeOK
  <2> QED
    BY <1>1, <1>6, <2>1, SendBitInv DEF Interrupt
<1>7. CASE transmitState = "dataLow" /\ transmitMask = 0
  BY <1>1, <1>7, EndOfFrameInv DEF Interrupt
<1> QED
  BY <1>3, <1>4, <1>5, <1>6, <1>7 DEF Interrupt

\* execute() of a request with a code to send,
LEMMA ExecuteInv == ASSUME Inv, Execute PROVE Inv'
<1>1. queue # <<>> /\ Head(queue) \in Request /\ activeRequest = None
  BY HeadTailProperties DEF Execute, Inv, Handover, TypeOK
<1>2. ~armed /\ ~posted
  BY <1>1 DEF Inv, Handover
<1>3. /\ pin' = "high" /\ armed' = TRUE /\ transmitState' = "startHigh"
      /\ lowDuration' \in 0 .. MaxLow
      /\ air' \in Seq({"low", "high"} \X Int)
  BY <1>1, StartHighType, EmptySeq DEF Execute, Inv
<1>4. repeatsRemaining' \in 0 .. MaxRepeats
  BY <1>1 DEF Execute, Inv, TypeOK, Content
<1>5. TypeOK'
  BY <1>1, <1>3, <1>4 DEF Execute, Inv, TypeOK
<1>6. Handover'
  BY <1>1, <1>2, <1>3, NoneAssumption DEF Execute, Handover, NoneAssumption
<1> QED
  BY <1>5, <1>6 DEF Inv

\* of one with another command,
LEMMA RefuseInv == ASSUME Inv, Refuse PROVE Inv'
<1>1. queue # <<>> /\ activeRequest = None /\ ~armed /\ ~posted
  BY DEF Refuse, Inv, Handover
<1>2. armed = FALSE /\ posted = FALSE
  BY <1>1 DEF Inv, TypeOK
<1> QED
  BY <1>1, <1>2, CompleteInv DEF Refuse, outVars

\* and the callback that ends a transmission.
LEMMA CallbackInv == ASSUME Inv, Callback PROVE Inv'
<1>1. ~armed /\ activeRequest # None
  BY DEF Callback, Inv, Handover
<1>2. queue # <<>> /\ armed = FALSE
  BY <1>1 DEF Inv, Handover, TypeOK
<1> QED
  BY <1>1, <1>2, CompleteInv DEF Callback

\* The invariant is inductive.
LEMMA InvNext == Inv /\ [Next]_vars => Inv'
<1> SUFFICES ASSUME Inv, [Next]_vars PROVE Inv'
  OBVIOUS
<1>1. CASE UNCHANGED vars
  BY <1>1 DEF vars, taskVars, sendVars, outVars, Inv, TypeOK, Handover
<1> QED
  BY <1>1, Steps, SubmitInv, RefuseInv, ExecuteInv, InterruptInv, CallbackInv

\* It holds always.
LEMMA InvHolds == Spec => []Inv
<1> QED
  BY InvInit, InvNext, PTL DEF Spec

\* The type invariant: among others, no counter or timer leaves its width.
THEOREM TypeCorrect == Spec => []TypeOK
<1>1. Inv => TypeOK
  BY DEF Inv
<1> QED
  BY <1>1, InvHolds, PTL

\* RFSwitch/Controller.cpp 177-178: the assertions of execute().
THEOREM AssertionsHold == Spec => []Asserted
<1>1. Inv => Asserted
  BY DEF Inv, Handover, Asserted
<1> QED
  BY <1>1, InvHolds, PTL

\* RFSwitch/Controller.cpp 158-165: nothing drives the pin, and no timer runs,
\* but for the request at the head of the queue.
THEOREM Quiet == Spec => []QuietWhenIdle
<1>1. Inv => QuietWhenIdle
  BY DEF Inv, TypeOK, Handover, QuietWhenIdle
<1> QED
  BY <1>1, InvHolds, PTL

-----------------------------------------------------------------------------
(* The code on the air.  Where a frame is follows from the state and the   *)
(* mask; how many went before it, from the repeats that are left.          *)

\* The pulses a device can send: a bit fits into its period, and what is left
\* of that, with the gap, into lowDuration.
Fitting == \A d \in Device : \A p \in {Timing[d].bit0, Timing[d].bit1} :
    p <= Timing[d].period /\ Timing[d].period - p + Timing[d].gap <= MaxLow

\* Frames still to be sent, the present one included.
FramesLeft == IF repeatsRemaining = 0 THEN MaxRepeats + 1 ELSE repeatsRemaining

\* Pulses sent of the present frame.
Position == CASE transmitState = "startHigh" -> 1
              [] transmitState = "startLow"  -> 2
              [] transmitState = "dataHigh"  -> 2 * (Bits - transmitMask) + 1
              [] OTHER                       -> 2 * (Bits - transmitMask) + 2

GapAfter(r, bit) == IF bit = 1 THEN T(r).gap ELSE 0

Patterned(r) == \A i \in DOMAIN air : air[i] = Pulse(r, ((i - 1) % FrameLength) + 1)

Sending(r) ==
    /\ FramesLeft <= Frames(r)
    /\ Len(air) = (Frames(r) - FramesLeft) * FrameLength + Position
    /\ transmitState # "idle"
    /\ transmitState \in {"dataHigh", "dataLow"} => transmitMask < Bits
    /\ transmitState = "dataHigh" =>
          LET bit == transmitMask + 1
          IN lowDuration = T(r).period - PulseOf(r, bit) + GapAfter(r, bit)

Signal(r) ==
    /\ Patterned(r)
    /\ armed => Sending(r)
    /\ ~armed => Len(air) = Frames(r) * FrameLength

\* Frames as multiples of their length.
LEMMA Times ==
    ASSUME NEW m \in Nat, NEW n \in Nat, m <= n, NEW l \in Nat \ {0}
    PROVE  n * l \in Nat /\ m * l <= n * l /\ (n + 1) * l = n * l + l
OBVIOUS

\* The place in its frame of the pulse k after n frames.
LEMMA Within ==
    ASSUME NEW n \in Nat, NEW l \in Nat \ {0}, NEW k \in 0 .. l - 1
    PROVE  (n * l + k) % l = k
OBVIOUS

\* A frame has its start and at least one bit.
LEMMA FrameLengthType == FrameLength \in Nat \ {0} /\ FrameLength >= 4
BY CodeAssumption DEF CodeAssumption, FrameLength

\* At least one frame is sent; 0 repeats are the most.
LEMMA FramesType ==
    ASSUME TypeOK, NEW r \in Request
    PROVE  Frames(r) \in 1 .. MaxRepeats + 1 /\ FramesLeft \in 1 .. MaxRepeats + 1
<1>1. request[r].repeats \in 0 .. MaxRepeats /\ repeatsRemaining \in 0 .. MaxRepeats
  BY DEF TypeOK, Content
<1> QED
  BY <1>1, RepeatAssumption DEF RepeatAssumption, Frames, FramesLeft

\* The k-th pulse of a frame that follows n others.
LEMMA PulseAppends ==
    ASSUME TypeOK, NEW r \in Request, request' = request, Patterned(r),
           NEW n \in Nat, NEW k \in 1 .. FrameLength,
           Len(air) = n * FrameLength + (k - 1),
           air' = Append(air, Pulse(r, k))
    PROVE  Patterned(r)' /\ Len(air') = n * FrameLength + k
<1>1. air \in Seq({"low", "high"} \X Int)
  BY DEF TypeOK
<1>2. n * FrameLength \in Nat /\ FrameLength \in Nat \ {0}
  BY FrameLengthType, Times
<1>3. /\ Len(air') = n * FrameLength + k
      /\ DOMAIN air' = 1 .. Len(air) + 1 /\ DOMAIN air = 1 .. Len(air)
      /\ \A i \in 1 .. Len(air) : air'[i] = air[i]
      /\ air'[Len(air) + 1] = Pulse(r, k)
  BY <1>1, <1>2
<1>4. (((Len(air) + 1) - 1) % FrameLength) + 1 = k
  <2>1. k - 1 \in 0 .. FrameLength - 1
    BY <1>2
  <2>2. (n * FrameLength + (k - 1)) % FrameLength = k - 1
    BY <1>2, <2>1, Within
  <2>3. (Len(air) + 1) - 1 = n * FrameLength + (k - 1)
    BY <1>2
  <2> QED
    BY <2>2, <2>3
<1>5. \A i \in DOMAIN air' : air'[i] = Pulse(r, ((i - 1) % FrameLength) + 1)
  BY <1>3, <1>4 DEF Patterned
<1>6. \A i : Pulse(r, i)' = Pulse(r, i)
  BY DEF Pulse, T, PulseOf
<1> QED
  BY <1>3, <1>5, <1>6 DEF Patterned, FrameLength

\* What Pulse says of the start of a frame, and of each bit.
LEMMA StartPulses ==
    ASSUME NEW r \in Request
    PROVE  /\ Pulse(r, 1) = <<"high", HighFor(T(r).starth)>>
           /\ Pulse(r, 2) = <<"low", LowFor(T(r).startl)>>
BY DEF Pulse

\* See StartPulses.
LEMMA BitPulses ==
    ASSUME NEW r \in Request, NEW bit \in 1 .. Bits
    PROVE  LET k == 2 * (Bits - bit) IN
           /\ Pulse(r, k + 3) = <<"high", HighFor(PulseOf(r, bit))>>
           /\ Pulse(r, k + 4) =
                 <<"low", LowFor(T(r).period - PulseOf(r, bit) + GapAfter(r, bit))>>
<1> DEFINE k == 2 * (Bits - bit)
<1>1. /\ k \in Nat
      /\ (k + 3) % 2 = 1 /\ k + 3 > 2 /\ Bits - ((k + 3) - 3) \div 2 = bit
      /\ (k + 4) % 2 # 1 /\ k + 4 > 2 /\ Bits - ((k + 4) - 3) \div 2 = bit
  BY CodeAssumption DEF CodeAssumption
<1>2. k + 3 # 1 /\ k + 3 # 2 /\ k + 4 # 1 /\ k + 4 # 2
  BY <1>1
<1> HIDE DEF k
<1>3. Pulse(r, k + 3) = <<"high", HighFor(PulseOf(r, bit))>>
  BY <1>1, <1>2 DEF Pulse
<1>4. Pulse(r, k + 4) = <<"low", LowFor(T(r).period - PulseOf(r, bit) + GapAfter(r, bit))>>
  BY <1>1, <1>2 DEF Pulse, GapAfter
<1> QED
  BY <1>3, <1>4 DEF k

\* With timings that fit nothing is cut off.
LEMMA LowDurationFits ==
    ASSUME Fitting, TypeOK, NEW r \in Request, NEW bit
    PROVE  LET low == T(r).period - PulseOf(r, bit) IN
           ((low % (MaxLow + 1)) + GapAfter(r, bit)) % (MaxLow + 1) = low + GapAfter(r, bit)
<1> DEFINE low == T(r).period - PulseOf(r, bit)
           gap == GapAfter(r, bit)
<1>1. T(r).period \in Nat /\ T(r).gap \in Nat /\ PulseOf(r, bit) \in Nat
  BY TimingType
<1>2. request[r].device \in Device
  BY DEF TypeOK, Content
<1>3. low >= 0 /\ low + T(r).gap <= MaxLow
  BY <1>1, <1>2 DEF Fitting, PulseOf, T
<1>4. gap \in {0, T(r).gap} /\ MaxLow \in Nat
  BY TimingAssumption DEF GapAfter, TimingAssumption
<1>5. low \in 0 .. MaxLow /\ low + gap \in 0 .. MaxLow
  BY <1>1, <1>3, <1>4
<1> HIDE DEF low, gap
<1>6. \A x \in 0 .. MaxLow : x % (MaxLow + 1) = x
  BY <1>4
<1> QED
  BY <1>5, <1>6 DEF low, gap

\* Nothing else changes what is on the air.
LEMMA SignalStays ==
    ASSUME NEW r \in Request, Signal(r), request'[r] = request[r], UNCHANGED <<sendVars, outVars>>
    PROVE  Signal(r)'
BY DEF Signal, Patterned, Sending, FramesLeft, Position, GapAfter, Pulse, PulseOf, T, Frames,
       FrameLength, sendVars, outVars

\* The first pulse of the first frame ...
LEMMA ExecuteSignal == ASSUME Inv, NEW r \in Request, Execute, r = Head(queue) PROVE Signal(r)'
<1>1. /\ StartHigh(<<>>, r) /\ repeatsRemaining' = request[r].repeats /\ request' = request
      /\ UNCHANGED transmitMask
  BY DEF Execute
<1>2. /\ armed' = TRUE /\ transmitState' = "startHigh"
      /\ air' = Append(<<>>, Pulse(r, 1))
  BY <1>1, StartPulses DEF StartHigh, TransmitHigh
<1>3. Len(air') = 1 /\ air'[1] = Pulse(r, 1) /\ DOMAIN air' = {1}
  BY <1>2
<1>4. \A i : Pulse(r, i)' = Pulse(r, i)
  BY <1>1 DEF Pulse, T, PulseOf
<1>5. ((1 - 1) % FrameLength) + 1 = 1
  BY FrameLengthType
<1>6. Patterned(r)'
  BY <1>3, <1>4, <1>5 DEF Patterned, FrameLength
<1>7. Frames(r)' = Frames(r) /\ FramesLeft' = Frames(r) /\ Frames(r) \in Nat
  BY <1>1, FramesType DEF Frames, FramesLeft, Inv
<1>8. Position' = 1 /\ (Frames(r) - Frames(r)) * FrameLength = 0
  BY <1>2, <1>7, FrameLengthType DEF Position
<1>9. Sending(r)'
  BY <1>2, <1>3, <1>7, <1>8 DEF Sending, FrameLength
<1> QED
  BY <1>2, <1>6, <1>9 DEF Signal

\* ... and each pulse that an interrupt adds.
LEMMA SendBitSignal ==
    ASSUME Fitting, Inv, NEW r \in Request, request' = request, Patterned(r), Sending(r),
           NEW bit \in 1 .. Bits, SendBit(r, bit), UNCHANGED repeatsRemaining,
           Position = 2 * (Bits - bit) + 2
    PROVE  Signal(r)'
<1> DEFINE n == Frames(r) - FramesLeft
           k == 2 * (Bits - bit) + 3
<1>1. n \in Nat /\ k \in 1 .. FrameLength
  BY FramesType, CodeAssumption DEF Inv, Sending, CodeAssumption, FrameLength
<1>2. Len(air) = n * FrameLength + (k - 1)
  <2>1. Len(air) = n * FrameLength + (2 * (Bits - bit) + 2)
    BY DEF Sending
  <2>2. n * FrameLength \in Nat
    BY <1>1, FrameLengthType, Times
  <2> QED
    BY <2>1, <2>2, CodeAssumption DEF CodeAssumption
<1>3. TransmitHigh(air, r, "dataHigh", PulseOf(r, bit), GapAfter(r, bit)) /\ transmitMask' = bit - 1
  BY DEF SendBit, GapAfter
<1>4. air' = Append(air, Pulse(r, k))
  BY <1>3, BitPulses DEF TransmitHigh
<1>5. Patterned(r)' /\ Len(air') = n * FrameLength + k
  BY <1>1, <1>2, <1>4, PulseAppends DEF Inv
<1>6. /\ FramesLeft' = FramesLeft /\ Frames(r)' = Frames(r)
      /\ T(r)' = T(r) /\ PulseOf(r, bit)' = PulseOf(r, bit) /\ GapAfter(r, bit)' = GapAfter(r, bit)
  BY DEF FramesLeft, Frames, T, PulseOf, GapAfter
<1>7. /\ transmitState' = "dataHigh" /\ armed' = TRUE
      /\ transmitMask' + 1 = bit /\ transmitMask' < Bits
  BY <1>3, CodeAssumption DEF TransmitHigh, CodeAssumption
<1>8. Position' = k
  <2>1. Position' = 2 * (Bits - transmitMask') + 1
    BY <1>7 DEF Position
  <2> QED
    BY <1>3, <2>1, CodeAssumption DEF CodeAssumption
<1>9. lowDuration' = T(r).period - PulseOf(r, bit) + GapAfter(r, bit)
  BY <1>3, LowDurationFits DEF TransmitHigh, Inv
<1>10. Sending(r)'
  BY <1>5, <1>6, <1>7, <1>8, <1>9 DEF Sending, FrameLength
<1> QED
  BY <1>5, <1>7, <1>10 DEF Signal

\* An interrupt that ends a high pulse adds the low one.
LEMMA LowSignal ==
    ASSUME Inv, NEW r \in Request, request' = request, Patterned(r), Sending(r),
           NEW d \in Nat, NEW state \in {"startLow", "dataLow"}, TransmitLow(state, d),
           UNCHANGED <<transmitMask, repeatsRemaining>>,
           Position + 1 \in 1 .. FrameLength,
           Pulse(r, Position + 1) = <<"low", LowFor(d)>>,
           state = "startLow" => Position = 1,
           state = "dataLow" => transmitMask < Bits /\ Position = 2 * (Bits - transmitMask) + 1
    PROVE  Signal(r)'
<1> DEFINE n == Frames(r) - FramesLeft
           k == Position + 1
<1>1. n \in Nat /\ k \in 1 .. FrameLength
  BY FramesType DEF Inv, Sending
<1>2. Len(air) = n * FrameLength + (k - 1)
  <2>1. Len(air) = n * FrameLength + Position
    BY DEF Sending
  <2>2. Position = k - 1
    BY CodeAssumption DEF CodeAssumption, Position, Inv, TypeOK
  <2> QED
    BY <2>1, <2>2
<1>3. air' = Append(air, Pulse(r, k))
  BY DEF TransmitLow
<1>4. Patterned(r)' /\ Len(air') = n * FrameLength + k
  BY <1>1, <1>2, <1>3, PulseAppends DEF Inv
<1>5. FramesLeft' = FramesLeft /\ Frames(r)' = Frames(r)
  BY DEF FramesLeft, Frames
<1>6. transmitState' = state /\ armed' = TRUE
  BY DEF TransmitLow
<1>7. Position' = k
  BY <1>6, CodeAssumption DEF Position, CodeAssumption, Inv, TypeOK
<1>8. Sending(r)'
  BY <1>4, <1>5, <1>6, <1>7 DEF Sending, FrameLength
<1> QED
  BY <1>4, <1>6, <1>8 DEF Signal

\* The repeat counter, which starts at 0 for MaxRepeats + 1 frames.
LEMMA CountDown ==
    ASSUME TypeOK, repeatsRemaining' = (repeatsRemaining - 1) % (MaxRepeats + 1)
    PROVE  IF repeatsRemaining' = 0 THEN FramesLeft = 1 ELSE FramesLeft' = FramesLeft - 1
<1>1. repeatsRemaining \in 0 .. MaxRepeats /\ MaxRepeats \in Nat \ {0}
  BY RepeatAssumption DEF RepeatAssumption, TypeOK
<1>2. CASE repeatsRemaining = 0
  <2>1. repeatsRemaining' = MaxRepeats
    BY <1>1, <1>2
  <2> QED
    BY <1>1, <1>2, <2>1 DEF FramesLeft
<1>3. CASE repeatsRemaining # 0
  <2>1. repeatsRemaining' = repeatsRemaining - 1
    BY <1>1, <1>3
  <2> QED
    BY <1>1, <1>3, <2>1 DEF FramesLeft
<1> QED
  BY <1>2, <1>3

\* After the last pulse of a frame comes the first of the next, or nothing.
LEMMA EndOfFrameSignal ==
    ASSUME Inv, NEW r \in Request, request' = request, Patterned(r), Sending(r),
           transmitState = "dataLow", transmitMask = 0, EndOfFrame(r)
    PROVE  Signal(r)'
<1> DEFINE n == Frames(r) - FramesLeft
<1>1. n \in Nat /\ Frames(r) \in Nat /\ FramesLeft \in Nat
  BY FramesType DEF Inv, Sending
<1>2. /\ Len(air) = (n + 1) * FrameLength
      /\ (n + 1) * FrameLength \in Nat
  <2>1. Position = FrameLength
    BY CodeAssumption DEF CodeAssumption, Position, FrameLength
  <2>2. Len(air) = n * FrameLength + FrameLength
    BY <2>1 DEF Sending
  <2> QED
    BY <1>1, <2>2, FrameLengthType, Times
<1>3. IF repeatsRemaining' = 0 THEN FramesLeft = 1 ELSE FramesLeft' = FramesLeft - 1
  BY CountDown DEF EndOfFrame, Inv
<1>4. Frames(r)' = Frames(r)
  BY DEF Frames
<1>5. CASE repeatsRemaining' # 0
  <2>1. StartHigh(air, r)
    BY <1>5 DEF EndOfFrame
  <2>2. /\ air' = Append(air, Pulse(r, 1))
        /\ armed' = TRUE /\ transmitState' = "startHigh"
    BY <2>1, StartPulses DEF StartHigh, TransmitHigh
  <2>3. 1 \in 1 .. FrameLength /\ n + 1 \in Nat
        /\ Len(air) = (n + 1) * FrameLength + (1 - 1)
    BY <1>1, <1>2, FrameLengthType
  <2>4. Patterned(r)' /\ Len(air') = (n + 1) * FrameLength + 1
    BY <2>2, <2>3, PulseAppends DEF Inv
  <2>5. Frames(r) - FramesLeft' = n + 1 /\ FramesLeft' <= Frames(r)
    BY <1>1, <1>3, <1>5
  <2>6. Position' = 1
    BY <2>2 DEF Position
  <2>7. Sending(r)'
    BY <1>4, <2>2, <2>4, <2>5, <2>6 DEF Sending, FrameLength
  <2> QED
    BY <2>2, <2>4, <2>7 DEF Signal
<1>6. CASE repeatsRemaining' = 0
  <2>1. armed' = FALSE /\ air' = air
    BY <1>6 DEF EndOfFrame
  <2>2. Len(air) = Frames(r) * FrameLength
    BY <1>1, <1>2, <1>3, <1>6
  <2>3. \A i : Pulse(r, i)' = Pulse(r, i)
    BY DEF Pulse, T, PulseOf
  <2>4. Patterned(r)'
    BY <2>1, <2>3 DEF Patterned, FrameLength
  <2> QED
    BY <1>4, <2>1, <2>2, <2>4 DEF Signal, FrameLength
<1> QED
  BY <1>5, <1>6

\* Whatever the state of the transmission, an interrupt keeps to the frame.
LEMMA InterruptSignal ==
    ASSUME Fitting, Inv, NEW r \in Request, activeRequest = r, Signal(r), Interrupt
    PROVE  Signal(r)'
<1>1. /\ armed /\ request' = request /\ Patterned(r) /\ Sending(r)
      /\ transmitMask \in 0 .. Bits /\ Bits \in Nat \ {0}
  BY CodeAssumption DEF CodeAssumption, Interrupt, taskVars, Signal, Inv, TypeOK
<1>2. CASE transmitState = "startHigh"
  <2>1. TransmitLow("startLow", T(r).startl) /\ UNCHANGED <<transmitMask, repeatsRemaining>>
    BY <1>2 DEF Interrupt
  <2>2. Position = 1 /\ Position + 1 = 2 /\ 2 \in 1 .. FrameLength
    BY <1>2, FrameLengthType DEF Position
  <2>3. T(r).startl \in Nat /\ Pulse(r, 2) = <<"low", LowFor(T(r).startl)>>
    BY TimingType, StartPulses DEF Inv
  <2> QED
    BY <1>1, <2>1, <2>2, <2>3, LowSignal
<1>3. CASE transmitState = "startLow"
  <2>1. SendBit(r, Bits) /\ UNCHANGED repeatsRemaining
    BY <1>3 DEF Interrupt
  <2>2. Position = 2 * (Bits - Bits) + 2 /\ Bits \in 1 .. Bits
    BY <1>1, <1>3 DEF Position
  <2> QED
    BY <1>1, <2>1, <2>2, SendBitSignal
<1>4. CASE transmitState = "dataHigh"
  <2> DEFINE bit == transmitMask + 1
  <2>1. TransmitLow("dataLow", lowDuration) /\ UNCHANGED <<transmitMask, repeatsRemaining>>
    BY <1>4 DEF Interrupt
  <2>2. /\ bit \in 1 .. Bits /\ transmitMask < Bits
        /\ lowDuration = T(r).period - PulseOf(r, bit) + GapAfter(r, bit)
    BY <1>1, <1>4 DEF Sending
  <2>3. Position = 2 * (Bits - transmitMask) + 1
    BY <1>4 DEF Position
  <2>4. Position + 1 = 2 * (Bits - bit) + 4 /\ Position + 1 \in 1 .. FrameLength
    BY <1>1, <2>2, <2>3 DEF FrameLength
  <2>5. Pulse(r, Position + 1) = <<"low", LowFor(lowDuration)>>
    BY <2>2, <2>4, BitPulses
  <2>6. lowDuration \in Nat
    BY TimingAssumption DEF TimingAssumption, Inv, TypeOK
  <2> QED
    BY <1>1, <2>1, <2>2, <2>3, <2>4, <2>5, <2>6, LowSignal
<1>5. CASE transmitState = "dataLow" /\ transmitMask # 0
  <2>1. SendBit(r, transmitMask) /\ UNCHANGED repeatsRemaining
    BY <1>5 DEF Interrupt
  <2>2. Position = 2 * (Bits - transmitMask) + 2 /\ transmitMask \in 1 .. Bits
    BY <1>1, <1>5 DEF Position
  <2> QED
    BY <1>1, <2>1, <2>2, SendBitSignal
<1>6. CASE transmitState = "dataLow" /\ transmitMask = 0
  BY <1>1, <1>6, EndOfFrameSignal DEF Interrupt
<1> QED
  BY <1>2, <1>3, <1>4, <1>5, <1>6 DEF Interrupt

\* The active request is being sent as Signal says.
SignalInv == activeRequest # None => Signal(activeRequest)

\* Submitting takes a request object that is not in the queue.
LEMMA SubmitSignal ==
    ASSUME Inv, SignalInv, NEW c \in Content, Submit(c) PROVE SignalInv'
<1>1. UNCHANGED <<sendVars, outVars>>
  BY DEF Submit
<1>2. activeRequest' = activeRequest
  BY <1>1 DEF sendVars
<1>3. SUFFICES ASSUME NEW r \in Request, activeRequest = r PROVE Signal(r)'
  BY <1>2 DEF SignalInv, Inv, TypeOK
<1>4. queue # <<>> /\ r = Head(queue)
  BY <1>3, NoneAssumption DEF NoneAssumption, Inv, Handover
<1>5. r \in Queued
  BY <1>4 DEF Queued, Inv, TypeOK
<1>6. request'[r] = request[r]
  BY <1>5 DEF Submit, Inv, TypeOK
<1> QED
  BY <1>1, <1>3, <1>6, NoneAssumption, SignalStays DEF SignalInv, NoneAssumption

\* SignalInv is inductive with Inv.
LEMMA SignalNext == Fitting /\ Inv /\ SignalInv /\ [Next]_vars => SignalInv'
<1> SUFFICES ASSUME Fitting, Inv, SignalInv, [Next]_vars PROVE SignalInv'
  OBVIOUS
<1>1. CASE Refuse \/ Callback
  BY <1>1 DEF Refuse, Callback, Complete, SignalInv
<1>2. CASE Execute
  <2> DEFINE r == Head(queue)
  <2>1. r \in Request /\ activeRequest' = r
    BY <1>2, HeadTailProperties DEF Execute, Inv, Handover, TypeOK
  <2> HIDE DEF r
  <2>2. ASSUME NEW q \in Request, q = r PROVE Signal(q)'
    BY <1>2, <2>2, ExecuteSignal DEF r
  <2>3. PICK q \in Request : q = r /\ activeRequest' = q
    BY <2>1
  <2> QED
    BY <2>2, <2>3 DEF SignalInv, Signal, Patterned, Sending, FramesLeft, Position, GapAfter,
                      Pulse, PulseOf, T, Frames, FrameLength
<1>3. CASE Interrupt
  <2>1. PICK r \in Request : activeRequest = r /\ activeRequest' = r
    BY <1>3 DEF Interrupt, Inv, TypeOK
  <2>2. Signal(r)'
    BY <1>3, <2>1, NoneAssumption, InterruptSignal DEF SignalInv, NoneAssumption
  <2> QED
    BY <2>1, <2>2 DEF SignalInv
<1>4. CASE UNCHANGED vars
  BY <1>4 DEF vars, taskVars, sendVars, outVars, SignalInv, Signal, Patterned, Sending,
              FramesLeft, Position, GapAfter, Pulse, PulseOf, T, Frames, FrameLength
<1> QED
  BY <1>1, <1>2, <1>3, <1>4, Steps, SubmitSignal

\* What it says is all that is wanted.
LEMMA SignalSafe == Inv /\ SignalInv => OnAir
<1> SUFFICES ASSUME Inv, SignalInv, activeRequest # None PROVE OnAir
  BY DEF OnAir
<1> DEFINE r == activeRequest
<1>1. r \in Request /\ Signal(r)
  BY DEF Inv, TypeOK, SignalInv
<1>2. posted <=> ~armed
  BY DEF Inv, Handover
<1>3. Frames(r) \in Nat /\ FramesLeft \in Nat \ {0} /\ FrameLength \in Nat \ {0}
  BY <1>1, FramesType, FrameLengthType DEF Inv
<1>4. CASE armed
  <2>1. FramesLeft <= Frames(r) /\ Len(air) = (Frames(r) - FramesLeft) * FrameLength + Position
    BY <1>1, <1>4 DEF Signal, Sending
  <2>2. Position \in Nat /\ Position <= FrameLength
    BY CodeAssumption, FrameLengthType
       DEF CodeAssumption, Position, FrameLength, Inv, TypeOK
  <2>3. /\ (Frames(r) - FramesLeft + 1) * FrameLength <= Frames(r) * FrameLength
        /\ (Frames(r) - FramesLeft + 1) * FrameLength
             = (Frames(r) - FramesLeft) * FrameLength + FrameLength
        /\ (Frames(r) - FramesLeft) * FrameLength \in Nat
    BY <1>3, <2>1, Times
  <2>4. Len(air) <= Frames(r) * FrameLength
    BY <1>3, <2>1, <2>2, <2>3
  <2> QED
    BY <1>1, <1>2, <1>4, <2>4 DEF OnAir, Signal, Patterned
<1>5. CASE ~armed
  <2>1. Len(air) = Frames(r) * FrameLength /\ Frames(r) * FrameLength \in Nat
    BY <1>1, <1>3, <1>5, Times DEF Signal
  <2> QED
    BY <1>1, <1>2, <1>5, <2>1 DEF OnAir, Signal, Patterned
<1> QED
  BY <1>4, <1>5

\* RFSwitch/Controller.cpp 118-168: with timings that fit, the interrupts put
\* on the air exactly the frames of the active request's code, bit by bit with
\* the timing of its device, as often as it asks, and complete it after that.
THEOREM Transmission ==
    ASSUME Fitting
    PROVE  Spec => []OnAir
<1>1. Init => SignalInv
  BY DEF Init, SignalInv
<1>2. Inv /\ SignalInv /\ [Next]_vars => SignalInv'
  BY SignalNext
<1> QED
  BY <1>1, <1>2, InvHolds, SignalSafe, PTL DEF Spec

-----------------------------------------------------------------------------
(* Refinement *)

\* The controller's steps are those of a line of requests served one at a time
\* from the front (that the line keeps moving is left to TLC, which checks
\* Serialises).
THEOREM Implements == Spec => Abstract!Init /\ [][Abstract!Next]_(Abstract!vars)
<1>1. Init => Abstract!Init
  BY DEF Init, Abstract!Init
<1>2. Inv /\ [Next]_vars => [Abstract!Next]_(Abstract!vars)
  <2> SUFFICES ASSUME Inv, [Next]_vars PROVE [Abstract!Next]_(Abstract!vars)
    OBVIOUS
  <2>1. ASSUME NEW c \in Content, Submit(c) PROVE Abstract!Next
    <3>1. PICK r \in Request \ Queued : queue' = Append(queue, r)
      BY <2>1 DEF Submit
    <3>2. \A i \in DOMAIN queue : queue[i] # r
      BY DEF Queued
    <3>3. UNCHANGED activeRequest
      BY <2>1 DEF Submit, sendVars
    <3> QED
      BY <3>1, <3>2, <3>3 DEF Abstract!Next, Abstract!Enter
  <2>2. CASE Refuse \/ Callback
    <3>1. queue # <<>>
      BY <2>2 DEF Refuse, Callback, Inv, Handover
    <3> QED
      BY <2>2, <3>1 DEF Refuse, Callback, Complete, Abstract!Next, Abstract!Leave
  <2>3. CASE Execute
    <3>1. queue # <<>> /\ activeRequest = None /\ Head(queue) \in Request
      BY <2>3, HeadTailProperties DEF Execute, Inv, Handover, TypeOK
    <3> QED
      BY <2>3, <3>1, NoneAssumption DEF NoneAssumption, Execute, Abstract!Next, Abstract!Serve
  <2>4. CASE Interrupt
    BY <2>4 DEF Interrupt, taskVars, Abstract!vars
  <2>5. CASE UNCHANGED vars
    BY <2>5 DEF vars, taskVars, sendVars, Abstract!vars
  <2> QED
    BY <2>1, <2>2, <2>3, <2>4, <2>5, Steps
<1> QED
  BY <1>1, <1>2, InvHolds, PTL DEF Spec
=============================================================================
