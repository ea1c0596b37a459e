------------------------- MODULE Controller_proofs --------------------------
(***************************************************************************)
(* Proofs about the controller, for every set of devices and requests and  *)
(* every choice of the other constants.                                    *)
(***************************************************************************)
EXTENDS Controller, SequenceTheorems, TLAPS

-----------------------------------------------------------------------------
(* Type correctness *)

\* Putting a call on the stack.
LEMMA PushFrame ==
    ASSUME NEW f \in Frame, NEW s \in Seq(Frame)
    PROVE  /\ <<f>> \o s \in Seq(Frame)
           /\ Head(<<f>> \o s) = f
           /\ Len(<<f>> \o s) = Len(s) + 1
<1>1. <<f>> \in Seq(Frame) /\ Len(<<f>>) = 1 /\ <<f>>[1] = f
  OBVIOUS
<1>2. /\ <<f>> \o s \in Seq(Frame)
      /\ Len(<<f>> \o s) = Len(s) + 1
      /\ (<<f>> \o s)[1] = f
  BY <1>1, ConcatProperties
<1> QED
  BY <1>2

\* Each way the stack changes leaves a stack.
LEMMA StackType ==
    ASSUME TypeOK, NEW r \in Request,
           NEW op \in {"Execute", "Succeed", "Fail", "Dispose"}
    PROVE  /\ Calls(op, r) => calls' \in Seq(Frame)
           /\ calls # <<>> /\ Becomes(op, r) => calls' \in Seq(Frame)
           /\ calls # <<>> => Tail(calls) \in Seq(Frame)
<1> DEFINE f == [op |-> op, r |-> r]
<1>1. f \in Frame
  BY DEF Frame
<1>2. calls # <<>> => Tail(calls) \in Seq(Frame)
  BY HeadTailProperties DEF TypeOK
<1>3. calls \in Seq(Frame)
  BY DEF TypeOK
<1> HIDE DEF f
<1>4. <<f>> \o calls \in Seq(Frame)
  BY <1>1, <1>3, PushFrame
<1>5. calls # <<>> => <<f>> \o Tail(calls) \in Seq(Frame)
  BY <1>1, <1>2, PushFrame
<1> QED
  BY <1>2, <1>4, <1>5 DEF f, Calls, Becomes

LEMMA TypeInit == Init => TypeOK
<1> SUFFICES ASSUME Init PROVE TypeOK
  OBVIOUS
<1>1. NoInfo \in Info
  BY BoundsAssumption DEF NoInfo, Info, Kind, BoundsAssumption
<1>2. 0 \in 0 .. CheckTicks
  BY BoundsAssumption DEF BoundsAssumption
<1>3. info \in [Request -> Info]
  BY <1>1 DEF Init
<1>4. queue \in Seq(Request) /\ calls \in Seq(Frame)
  BY EmptySeq DEF Init
<1>5. status \in [Request -> {"free", "pending", "success", "failed"}]
  BY DEF Init
<1>6. devState \in [Device -> State]
  BY DEF Init, State
<1> QED
  BY <1>2, <1>3, <1>4, <1>5, <1>6 DEF Init, TypeOK

LEMMA AllocateType ==
    ASSUME TypeOK, NEW r \in Request, NEW d \in Device, NEW k \in Kind,
           NEW n \in 0 .. MaxParts, Allocate(r, d, k, n)
    PROVE  /\ status' \in [Request -> {"free", "pending", "success", "failed"}]
           /\ info' \in [Request -> Info]
  BY DEF TypeOK, Allocate, Info

LEMMA EnqueueType ==
    ASSUME TypeOK, NEW r \in Request, Enqueue(r)
    PROVE  queue' \in Seq(Request) /\ calls' \in Seq(Frame)
  BY StackType DEF TypeOK, Enqueue

LEMMA TypeNext == TypeOK /\ [Next]_vars => TypeOK'
<1> SUFFICES ASSUME TypeOK, [Next]_vars PROVE TypeOK'
  OBVIOUS
<1> USE DEF reqVars, loopVars
<1>0. CheckTicks \in 0 .. CheckTicks /\ 0 \in 0 .. CheckTicks
  BY BoundsAssumption DEF BoundsAssumption
<1>1. ASSUME NEW p \in Commands, Submit(p[1], p[2]) PROVE TypeOK'
  <2>1. p[1] \in Device /\ p[2] \in Kind
    BY PairsAssumption DEF PairsAssumption, Pairs
  <2>2. PICK r \in Request, n \in 0 .. MaxParts :
          Allocate(r, p[1], p[2], n) /\ Enqueue(r)
    BY <1>1 DEF Submit
  <2>3. /\ status' \in [Request -> {"free", "pending", "success", "failed"}]
        /\ info' \in [Request -> Info]
    BY <2>1, <2>2, AllocateType
  <2>4. queue' \in Seq(Request) /\ calls' \in Seq(Frame)
    BY <2>2, EnqueueType
  <2> QED
    BY <1>1, <2>3, <2>4 DEF Submit, TypeOK
<1>2. ASSUME NEW p \in Commands, SubmitImmediate(p[1], p[2]) PROVE TypeOK'
  <2>1. p[1] \in Device /\ p[2] \in Kind
    BY PairsAssumption DEF PairsAssumption, Pairs
  <2>2. PICK r \in Request, op \in {"Succeed", "Fail"} :
          Allocate(r, p[1], p[2], 0) /\ Calls(op, r)
    BY <1>2 DEF SubmitImmediate
  <2>3. 0 \in 0 .. MaxParts
    BY BoundsAssumption DEF BoundsAssumption
  <2>4. /\ status' \in [Request -> {"free", "pending", "success", "failed"}]
        /\ info' \in [Request -> Info]
    BY <2>1, <2>2, <2>3, AllocateType
  <2>5. calls' \in Seq(Frame)
    BY <2>2, StackType
  <2> QED
    BY <1>2, <2>4, <2>5 DEF SubmitImmediate, TypeOK
<1>3. CASE Start
  BY <1>0, <1>3 DEF Start, StartDevices, TypeOK
<1>4. CASE Stop
  BY <1>0, <1>4 DEF Stop, TypeOK
<1>5. CASE Begin
  <2>1. devState' \in [Device -> State]
    BY <1>5 DEF Begin, State
  <2> QED
    BY <1>0, <1>5, <2>1 DEF Begin, StartDevices, TypeOK
<1>6. ASSUME NEW r \in Request, Execute(r) PROVE TypeOK'
  <2>1. calls' \in Seq(Frame)
    BY <1>6, StackType DEF Execute, Running
  <2> QED
    BY <1>6, <2>1 DEF Execute, TypeOK
<1>7. ASSUME NEW r \in Request, Reject(r) PROVE TypeOK'
  <2>1. calls' \in Seq(Frame)
    BY <1>7, StackType DEF Reject, Running
  <2> QED
    BY <1>7, <2>1 DEF Reject, TypeOK
<1>8. ASSUME NEW r \in Request, Succeed(r) PROVE TypeOK'
  <2>1. calls' \in Seq(Frame)
    BY <1>8, StackType DEF Succeed, Running
  <2>2. devState' \in [Device -> State]
    BY <1>8 DEF Succeed, AfterSuccess, TypeOK, State
  <2>3. status' \in [Request -> {"free", "pending", "success", "failed"}]
    BY <1>8 DEF Succeed, TypeOK
  <2> QED
    BY <1>8, <2>1, <2>2, <2>3 DEF Succeed, TypeOK
<1>9. ASSUME NEW r \in Request, Fail(r) PROVE TypeOK'
  <2>1. calls' \in Seq(Frame)
    BY <1>9, StackType DEF Fail, Running
  <2>2. devState' \in [Device -> State]
    BY <1>9 DEF Fail, TypeOK, State
  <2>3. status' \in [Request -> {"free", "pending", "success", "failed"}]
    BY <1>9 DEF Fail, TypeOK
  <2> QED
    BY <1>0, <1>9, <2>1, <2>2, <2>3 DEF Fail, StartTimer, TypeOK
<1>10. ASSUME NEW r \in Request, Dispose(r) PROVE TypeOK'
  <2>1. Without(r) \in Seq(Request)
    BY HeadTailProperties DEF TypeOK, Without
  <2>2. queue' \in Seq(Request)
    BY <1>10, <2>1 DEF Dispose
  <2>3. calls # <<>>
    BY <1>10 DEF Dispose, Running
  <2>4. calls' \in Seq(Frame)
    <3>1. CASE Without(r) = <<>>
      BY <1>10, <2>3, <3>1, StackType DEF Dispose
    <3>2. CASE Without(r) # <<>>
      <4>1. Head(Without(r)) \in Request
        BY <2>1, <3>2, HeadTailProperties
      <4> QED
        BY <1>10, <2>3, <3>2, <4>1, StackType DEF Dispose
    <3> QED
      BY <3>1, <3>2
  <2>5. status' \in [Request -> {"free", "pending", "success", "failed"}]
    BY <1>10 DEF Dispose, TypeOK
  <2>6. NoInfo \in Info
    BY BoundsAssumption DEF NoInfo, Info, Kind, BoundsAssumption
  <2>7. info' \in [Request -> Info]
    BY <1>10, <2>6 DEF Dispose, TypeOK
  <2> QED
    BY <1>10, <2>2, <2>4, <2>5, <2>7 DEF Dispose, TypeOK
<1>11. ASSUME NEW r \in Request, Answered(r) PROVE TypeOK'
  BY <1>11, StackType DEF Answered, TypeOK
<1>12. ASSUME NEW r \in Request, HardwareFails(r) PROVE TypeOK'
  BY <1>12, StackType DEF HardwareFails, TypeOK
<1>13. ASSUME NEW r \in Request, Resubmit(r) PROVE TypeOK'
  <2>1. queue' \in Seq(Request) /\ calls' \in Seq(Frame)
    <3>1. CASE queue # <<>> /\ Head(queue) = r
      BY <1>13, <3>1, StackType DEF Resubmit, TypeOK
    <3>2. CASE ~(queue # <<>> /\ Head(queue) = r)
      BY <1>13, <3>2, EnqueueType DEF Resubmit
    <3> QED
      BY <3>1, <3>2
  <2>2. info[r] \in Info /\ info[r].parts > 0
    BY <1>13 DEF Resubmit, TypeOK
  <2>3. [info[r] EXCEPT !.parts = @ - 1] \in Info
    BY <2>2, BoundsAssumption DEF Info, BoundsAssumption
  <2>4. info' = [info EXCEPT ![r] = [info[r] EXCEPT !.parts = @ - 1]]
    BY <1>13 DEF Resubmit, TypeOK
  <2>5. info' \in [Request -> Info]
    BY <2>3, <2>4 DEF TypeOK
  <2> QED
    BY <1>13, <2>1, <2>5 DEF Resubmit, TypeOK
<1>14. ASSUME NEW d \in Device, StartSkips(d) PROVE TypeOK'
  BY <1>14 DEF StartSkips, Visit, TypeOK
<1>15. ASSUME NEW d \in Device, StartNoMem(d) PROVE TypeOK'
  BY <1>15 DEF StartNoMem, Visit, TypeOK
<1>16. ASSUME NEW d \in Device, StartNodeless(d) PROVE TypeOK'
  <2>1. devState' \in [Device -> State]
    BY <1>16 DEF StartNodeless, TypeOK, State
  <2> QED
    BY <1>16, <2>1 DEF StartNodeless, Visit, TypeOK
<1>17. ASSUME NEW d \in Device, StartQueries(d) PROVE TypeOK'
  <2>1. PICK r \in Request : Allocate(r, d, "query", 0) /\ Enqueue(r)
    BY <1>17 DEF StartQueries
  <2>2. 0 \in 0 .. MaxParts /\ "query" \in Kind
    BY BoundsAssumption DEF BoundsAssumption, Kind
  <2>3. /\ status' \in [Request -> {"free", "pending", "success", "failed"}]
        /\ info' \in [Request -> Info]
    BY <2>1, <2>2, AllocateType
  <2>4. queue' \in Seq(Request) /\ calls' \in Seq(Frame)
    BY <2>1, EnqueueType
  <2> QED
    BY <1>17, <2>3, <2>4 DEF StartQueries, Visit, TypeOK
<1>18. ASSUME NEW d \in Device, StartReturns(d) PROVE TypeOK'
  <2>1. devState' \in [Device -> State]
    BY <1>18 DEF StartReturns, TypeOK, State
  <2> QED
    BY <1>18, <2>1 DEF StartReturns, TypeOK
<1>19. CASE LoopEnds
  BY <1>0, <1>19 DEF LoopEnds, StartTimer, TypeOK
<1>20. CASE Tick
  <2>1. checkTimer' \in 0 .. CheckTicks
    BY <1>20, BoundsAssumption DEF Tick, TypeOK, BoundsAssumption
  <2> QED
    BY <1>20, <2>1 DEF Tick, TypeOK
<1>21. CASE TimerFires
  BY <1>0, <1>21 DEF TimerFires, StartDevices, TypeOK
<1>22. CASE UNCHANGED vars
  BY <1>22 DEF vars, TypeOK
<1> QED
  BY <1>1, <1>2, <1>3, <1>4, <1>5, <1>6, <1>7, <1>8, <1>9, <1>10, <1>11,
     <1>12, <1>13, <1>14, <1>15, <1>16, <1>17, <1>18, <1>19, <1>20, <1>21,
     <1>22 DEF Next, Application, CallStep, LoopStep, Hardware

\* The variables keep their types: every state the controller reaches is one
\* the properties below speak about.
THEOREM TypeCorrect == Spec => []TypeOK
<1> QED
  BY TypeInit, TypeNext, PTL DEF Spec

-----------------------------------------------------------------------------
(* Recovery: NoOrphanFault is inductive with the types *)

\* What a step does to the state of one device, its timer and the loop.
LEMMA RecoveryNext == TypeOK /\ NoOrphanFault /\ [Next]_vars => NoOrphanFault'
<1> SUFFICES ASSUME TypeOK, NoOrphanFault, [Next]_vars,
                    NEW d \in Device, d \notin Passive,
                    up', devState'[d] = "fault"
             PROVE  \/ checkTimer' > 0
                    \/ looping' /\ (d \in toStart' \/ d = current' \/ startFailed')
  BY DEF NoOrphanFault
<1> USE DEF reqVars, loopVars
<1> DEFINE Covered == \/ checkTimer > 0
                      \/ looping /\ (d \in toStart \/ d = current \/ startFailed)
           Goal == \/ checkTimer' > 0
                   \/ looping' /\ (d \in toStart' \/ d = current' \/ startFailed')
<1>a. up /\ devState[d] = "fault" => Covered
  BY DEF NoOrphanFault
<1>b. CheckTicks > 0 /\ d # NoDevice
  BY BoundsAssumption, DeviceAssumption DEF BoundsAssumption, DeviceAssumption
\* Most steps leave all this alone.
<1>c. ASSUME UNCHANGED <<devState, checkTimer, up, loopVars>> PROVE Goal
  BY <1>a, <1>c
<1>1. ASSUME NEW p \in Commands, Submit(p[1], p[2]) \/ SubmitImmediate(p[1], p[2])
      PROVE  Goal
  BY <1>1, <1>c DEF Submit, SubmitImmediate
<1>2. CASE Start \/ Begin \/ TimerFires
  BY <1>2 DEF Start, Begin, TimerFires, StartDevices
<1>3. CASE Stop
  BY <1>3 DEF Stop
<1>4. ASSUME NEW r \in Request, Execute(r) \/ Reject(r) \/ Dispose(r) \/ Hardware(r)
      PROVE  Goal
  BY <1>4, <1>c DEF Execute, Reject, Dispose, Hardware, Answered, HardwareFails,
                    Resubmit
<1>5. ASSUME NEW r \in Request, Succeed(r) PROVE Goal
  <2>1. devState[d] = "fault"
    BY <1>5 DEF Succeed, AfterSuccess, TypeOK
  <2> QED
    BY <1>5, <1>a, <2>1 DEF Succeed
<1>6. ASSUME NEW r \in Request, Fail(r) PROVE Goal
  BY <1>6, <1>b DEF Fail, StartTimer
<1>7. ASSUME NEW e \in Device, StartSkips(e) PROVE Goal
  <2>1. d # e
    BY <1>7 DEF StartSkips
  <2> QED
    BY <1>7, <1>a, <2>1 DEF StartSkips, Visit
<1>8. ASSUME NEW e \in Device, StartNoMem(e) PROVE Goal
  BY <1>8 DEF StartNoMem, Visit
<1>9. ASSUME NEW e \in Device, StartNodeless(e) PROVE Goal
  <2>1. d # e /\ devState[d] = "fault"
    BY <1>9 DEF StartNodeless, TypeOK
  <2> QED
    BY <1>9, <1>a, <2>1 DEF StartNodeless, Visit
<1>10. ASSUME NEW e \in Device, StartQueries(e) PROVE Goal
  BY <1>10, <1>a, <1>b DEF StartQueries, Visit
<1>11. ASSUME NEW e \in Device, StartReturns(e) PROVE Goal
  <2>1. d # e /\ devState[d] = "fault"
    BY <1>11 DEF StartReturns, TypeOK
  <2> QED
    BY <1>11, <1>a, <2>1 DEF StartReturns
<1>12. CASE LoopEnds
  BY <1>12, <1>a, <1>b DEF LoopEnds, StartTimer
<1>13. CASE Tick
  BY <1>13 DEF Tick, TypeOK
<1>14. CASE UNCHANGED vars
  BY <1>14, <1>c DEF vars
<1> QED
  BY <1>1, <1>2, <1>3, <1>4, <1>5, <1>6, <1>7, <1>8, <1>9, <1>10, <1>11, <1>12,
     <1>13, <1>14 DEF Next, Application, CallStep, LoopStep

\* Controller.cpp 130-170: whatever is submitted, refused, answered or lost, and
\* however full the heap, a running controller has a restart pending for each
\* device in fault.
THEOREM Recovery == Spec => []NoOrphanFault
<1>1. Init => NoOrphanFault
  BY DEF Init, NoOrphanFault
<1> QED
  BY <1>1, TypeCorrect, RecoveryNext, PTL DEF Spec

-----------------------------------------------------------------------------
(* Serialisation.  When every request is queued (Immediate = {}) at most   *)
(* one call is pending, it works for the head of the queue, and what is in *)
(* flight follows from the call.                                           *)

\* The queue holds each allocated request once; all behind the head wait.
QueueInv ==
    /\ \A i, j \in 1 .. Len(queue) : queue[i] = queue[j] => i = j
    /\ \A r \in Request : status[r] = "free" <=>
           \A i \in 1 .. Len(queue) : queue[i] # r
    /\ \A i \in 2 .. Len(queue) : status[queue[i]] = "pending"

\* No call: the head is on the bus.
RestInv == calls = <<>> =>
    /\ NoStall
    /\ queue # <<>> => status[Head(queue)] = "pending"

\* One call, for the head.
CallInv == calls # <<>> =>
    /\ queue # <<>>
    /\ Tail(calls) = <<>>
    /\ Head(calls).r = Head(queue)
    /\ Head(calls).op = "Execute" =>
           status[Head(queue)] = "pending" /\ inFlight = {}
    /\ Head(calls).op \in {"Succeed", "Fail"} =>
           status[Head(queue)] = "pending" /\ inFlight \subseteq {Head(queue)}
    /\ Head(calls).op = "Dispose" =>
           status[Head(queue)] \in {"success", "failed"} /\ inFlight = {}

SerialInv == QueueInv /\ RestInv /\ CallInv

LEMMA SingleCall ==
    ASSUME NEW f \in Frame
    PROVE  /\ <<f>> \o <<>> = <<f>>
           /\ <<f>> # <<>> /\ Head(<<f>>) = f /\ Tail(<<f>>) = <<>>
<1>1. <<f>> \in Seq(Frame)
  OBVIOUS
<1>2. <<f>> \o <<>> = <<f>>
  BY <1>1, ConcatEmptySeq
<1>3. <<f>> # <<>> /\ Head(<<f>>) = f
  OBVIOUS
<1>4. Len(Tail(<<f>>)) = 0 /\ Tail(<<f>>) \in Seq(Frame)
  BY <1>1, <1>3, HeadTailProperties
<1>5. Tail(<<f>>) = <<>>
  BY <1>4, EmptySeq
<1> QED
  BY <1>2, <1>3, <1>5

\* A call started from no call, or from the only one, is the only one.
LEMMA OnlyCall ==
    ASSUME NEW r \in Request,
           NEW op \in {"Execute", "Succeed", "Fail", "Dispose"},
           \/ calls = <<>> /\ Calls(op, r)
           \/ Tail(calls) = <<>> /\ Becomes(op, r)
    PROVE  /\ calls' # <<>> /\ Tail(calls') = <<>>
           /\ Head(calls').op = op /\ Head(calls').r = r
<1> DEFINE f == [op |-> op, r |-> r]
<1>1. f \in Frame /\ f.op = op /\ f.r = r
  BY DEF Frame
<1>2. calls' = <<f>> \o <<>>
  BY DEF Calls, Becomes
<1> HIDE DEF f
<1>3. calls' = <<f>>
  BY <1>1, <1>2, SingleCall
<1> QED
  BY <1>1, <1>3, SingleCall

LEMMA First ==
    ASSUME NEW q \in Seq(Request), q # <<>>
    PROVE  Head(q) = q[1] /\ Len(q) \in Nat /\ Len(q) > 0
<1>1. Len(q) \in Nat \ {0}
  BY EmptySeq
<1> QED
  BY <1>1

\* A queue that grows.
LEMMA Grows ==
    ASSUME NEW q \in Seq(Request), NEW r \in Request
    PROVE  /\ Append(q, r) \in Seq(Request)
           /\ Len(q) \in Nat
           /\ Len(Append(q, r)) = Len(q) + 1
           /\ \A i \in 1 .. Len(q) : Append(q, r)[i] = q[i]
           /\ Append(q, r)[Len(q) + 1] = r
           /\ Append(q, r) # <<>>
           /\ Head(Append(q, r)) = IF q = <<>> THEN r ELSE Head(q)
  BY AppendProperties, HeadTailAppend, LenProperties

LEMMA QueueGrows ==
    ASSUME TypeOK, QueueInv, NEW r \in Request, status[r] = "free",
           queue' = Append(queue, r),
           status' = [status EXCEPT ![r] = "pending"]
    PROVE  QueueInv'
<1> DEFINE n == Len(queue)
<1>1. /\ n \in Nat /\ Len(queue') = n + 1 /\ queue'[n + 1] = r
      /\ \A i \in 1 .. n : queue'[i] = queue[i] /\ queue[i] \in Request
  BY Grows, ElementOfSeq DEF TypeOK
<1>2. \A i \in 1 .. n : queue[i] # r
  BY DEF QueueInv
<1>3. \A i, j \in 1 .. n + 1 : queue'[i] = queue'[j] => i = j
  BY <1>1, <1>2 DEF QueueInv
<1>4. \A s \in Request : status'[s] = "free" <=>
          \A i \in 1 .. n + 1 : queue'[i] # s
  BY <1>1, <1>2 DEF QueueInv, TypeOK
<1>5. \A i \in 2 .. n + 1 : status'[queue'[i]] = "pending"
  BY <1>1, <1>2 DEF QueueInv, TypeOK
<1> QED
  BY <1>1, <1>3, <1>4, <1>5 DEF QueueInv

LEMMA QueueShrinks ==
    ASSUME TypeOK, QueueInv, queue # <<>>,
           queue' = Tail(queue),
           status' = [status EXCEPT ![Head(queue)] = "free"]
    PROVE  /\ QueueInv'
           /\ queue' # <<>> => status'[Head(queue')] = "pending"
<1> DEFINE n == Len(queue)
<1>1. /\ n \in Nat /\ n > 0 /\ Len(queue') = n - 1 /\ Head(queue) = queue[1]
      /\ \A i \in 1 .. n - 1 : queue'[i] = queue[i + 1]
      /\ \A i \in 1 .. n : queue[i] \in Request
  BY HeadTailProperties, First, ElementOfSeq DEF TypeOK
<1>2. \A i \in 2 .. n : queue[i] # queue[1]
  BY <1>1 DEF QueueInv
<1>3. \A i, j \in 1 .. n - 1 : queue'[i] = queue'[j] => i = j
  BY <1>1 DEF QueueInv
<1>4. \A s \in Request : status'[s] = "free" <=>
          \A i \in 1 .. n - 1 : queue'[i] # s
  <2> SUFFICES ASSUME NEW s \in Request
               PROVE  status'[s] = "free" <=> \A i \in 1 .. n - 1 : queue'[i] # s
    OBVIOUS
  <2>1. CASE s = queue[1]
    BY <1>1, <1>2, <2>1 DEF TypeOK
  <2>2. CASE s # queue[1]
    <3>1. status'[s] = status[s]
      BY <1>1, <2>2 DEF TypeOK
    <3>2. status[s] = "free" <=> \A i \in 1 .. n : queue[i] # s
      BY DEF QueueInv
    <3>3. (\A i \in 1 .. n : queue[i] # s) <=> (\A i \in 1 .. n - 1 : queue[i + 1] # s)
      <4>1. ASSUME \A i \in 1 .. n : queue[i] # s, NEW i \in 1 .. n - 1
            PROVE  queue[i + 1] # s
        BY <1>1, <4>1
      <4>2. ASSUME \A i \in 1 .. n - 1 : queue[i + 1] # s, NEW i \in 2 .. n
            PROVE  queue[i] # s
        <5>1. i - 1 \in 1 .. n - 1 /\ (i - 1) + 1 = i
          BY <1>1
        <5> QED
          BY <4>2, <5>1
      <4> QED
        BY <1>1, <2>2, <4>1, <4>2
    <3> QED
      BY <1>1, <3>1, <3>2, <3>3
  <2> QED
    BY <2>1, <2>2
<1>5. \A i \in 2 .. n : status'[queue[i]] = "pending"
  BY <1>1, <1>2 DEF QueueInv, TypeOK
<1>6. \A i \in 1 .. n - 1 : status'[queue'[i]] = "pending"
  BY <1>1, <1>5
<1>7. queue' # <<>> => status'[Head(queue')] = "pending"
  <2>1. queue' \in Seq(Request)
    BY HeadTailProperties DEF TypeOK
  <2>2. queue' # <<>> => Head(queue') = queue'[1] /\ Len(queue') > 0
    BY <2>1, First
  <2> QED
    BY <1>1, <1>6, <2>1, <2>2
<1> QED
  BY <1>1, <1>3, <1>4, <1>6, <1>7 DEF QueueInv

\* A submission, by the application or by start(), from no call or from the
\* only one.
LEMMA SubmitSerial ==
    ASSUME TypeOK, SerialInv, NEW r \in Request, NEW d, NEW k, NEW n,
           Allocate(r, d, k, n), Enqueue(r), UNCHANGED inFlight
    PROVE  SerialInv'
<1>1. status[r] = "free" /\ status' = [status EXCEPT ![r] = "pending"]
  BY DEF Allocate, Free
<1>2. queue' = Append(queue, r)
  BY DEF Enqueue
<1>3. QueueInv'
  BY <1>1, <1>2, QueueGrows DEF SerialInv
<1>4. queue \in Seq(Request) /\ queue' # <<>>
      /\ Head(queue') = IF queue = <<>> THEN r ELSE Head(queue)
  BY <1>2, Grows DEF TypeOK
<1>5. CASE queue = <<>>
  <2>1. calls = <<>> /\ inFlight = {} /\ Calls("Execute", r)
    BY <1>5 DEF SerialInv, CallInv, RestInv, NoStall, Enqueue
  <2>2. /\ calls' # <<>> /\ Tail(calls') = <<>>
        /\ Head(calls').op = "Execute" /\ Head(calls').r = r
    BY <2>1, OnlyCall
  <2>3. status'[r] = "pending"
    BY <1>1 DEF TypeOK
  <2> QED
    BY <1>3, <1>4, <1>5, <2>1, <2>2, <2>3 DEF SerialInv, CallInv, RestInv
<1>6. CASE queue # <<>>
  <2>1. calls' = calls /\ Head(queue') = Head(queue)
    BY <1>4, <1>6 DEF Enqueue
  <2>2. Head(queue) = queue[1] /\ 1 \in 1 .. Len(queue) /\ Head(queue) \in Request
    BY <1>4, <1>6, First, HeadTailProperties
  <2>3. status'[Head(queue)] = status[Head(queue)]
    BY <1>1, <2>2 DEF SerialInv, QueueInv, TypeOK
  <2> QED
    BY <1>3, <1>4, <1>6, <2>1, <2>3 DEF SerialInv, CallInv, RestInv, NoStall
<1> QED
  BY <1>5, <1>6

LEMMA SerialInit == Init => SerialInv
<1> SUFFICES ASSUME Init PROVE SerialInv
  OBVIOUS
<1>1. Len(queue) = 0 /\ queue = <<>> /\ calls = <<>> /\ inFlight = {}
  BY EmptySeq DEF Init
<1>2. QueueInv
  BY <1>1 DEF Init, QueueInv
<1> QED
  BY <1>1, <1>2 DEF SerialInv, CallInv, RestInv, NoStall

\* A completion sets the status of the head; the queue stays as it is.
LEMMA QueueKept ==
    ASSUME TypeOK, QueueInv, queue # <<>>, NEW result \in {"success", "failed"},
           status[Head(queue)] = "pending", queue' = queue,
           status' = [status EXCEPT ![Head(queue)] = result]
    PROVE  QueueInv' /\ status'[Head(queue')] = result
<1>1. /\ Head(queue) = queue[1] /\ 1 \in 1 .. Len(queue) /\ Len(queue) \in Nat
      /\ Head(queue) \in Request
      /\ \A i \in 1 .. Len(queue) : queue[i] \in Request
  BY First, HeadTailProperties, ElementOfSeq DEF TypeOK
<1>2. \A i \in 2 .. Len(queue) : queue[i] # Head(queue)
  BY <1>1 DEF QueueInv
<1>3. \A s \in Request : status'[s] = "free" <=> status[s] = "free"
  BY <1>1 DEF TypeOK
<1>4. \A i \in 2 .. Len(queue) : status'[queue[i]] = "pending"
  BY <1>1, <1>2 DEF QueueInv, TypeOK
<1>5. status'[Head(queue)] = result
  BY <1>1 DEF TypeOK
<1> QED
  BY <1>1, <1>3, <1>4, <1>5 DEF QueueInv

LEMMA SerialNext ==
    ASSUME Immediate = {}
    PROVE  TypeOK /\ SerialInv /\ [Next]_vars => SerialInv'
<1> SUFFICES ASSUME TypeOK, SerialInv, [Next]_vars PROVE SerialInv'
  OBVIOUS
<1> USE DEF reqVars
<1>a. ASSUME UNCHANGED <<queue, status, inFlight, calls>> PROVE SerialInv'
  BY <1>a DEF SerialInv, QueueInv, CallInv, RestInv, NoStall
<1>b. ASSUME UNCHANGED <<queue, status>> PROVE QueueInv'
  BY <1>b DEF SerialInv, QueueInv
\* What a running call says of the queue.
<1>c. ASSUME NEW op, NEW r, Running(op, r)
      PROVE  /\ calls # <<>> /\ queue # <<>> /\ Tail(calls) = <<>>
             /\ r = Head(queue) /\ Head(calls).op = op
  BY <1>c DEF Running, SerialInv, CallInv
<1>1. ASSUME NEW p \in Commands, Submit(p[1], p[2]) PROVE SerialInv'
  BY <1>1, SubmitSerial DEF Submit
<1>2. ASSUME NEW p \in Commands, SubmitImmediate(p[1], p[2]) PROVE SerialInv'
  BY <1>2 DEF SubmitImmediate
<1>3. CASE Start \/ Stop \/ Begin
  BY <1>3, <1>a DEF Start, Stop, Begin
<1>4. ASSUME NEW r \in Request, Execute(r) PROVE SerialInv'
  <2>1. /\ queue # <<>> /\ r = Head(queue)
        /\ status[r] = "pending" /\ inFlight = {} /\ Tail(calls) = <<>>
    BY <1>4, <1>c DEF Execute, SerialInv, CallInv
  <2>2. calls' = <<>> /\ inFlight' = {Head(queue')} /\ UNCHANGED <<queue, status>>
    BY <1>4, <2>1 DEF Execute
  <2> QED
    BY <1>b, <2>1, <2>2 DEF SerialInv, CallInv, RestInv, NoStall
<1>5. ASSUME NEW r \in Request, Reject(r) PROVE SerialInv'
  <2>1. /\ queue # <<>> /\ r = Head(queue)
        /\ status[r] = "pending" /\ inFlight = {} /\ Tail(calls) = <<>>
    BY <1>5, <1>c DEF Reject, SerialInv, CallInv
  <2>2. /\ calls' # <<>> /\ Tail(calls') = <<>>
        /\ Head(calls').op = "Fail" /\ Head(calls').r = r
    BY <1>5, <2>1, OnlyCall DEF Reject
  <2> QED
    BY <1>5, <1>b, <2>1, <2>2 DEF Reject, SerialInv, CallInv, RestInv
<1>6. ASSUME NEW r \in Request, Succeed(r) \/ Fail(r) PROVE SerialInv'
  <2>1. /\ queue # <<>> /\ r = Head(queue)
        /\ status[r] = "pending" /\ inFlight \subseteq {r} /\ Tail(calls) = <<>>
    BY <1>6, <1>c DEF Succeed, Fail, SerialInv, CallInv
  <2>2. PICK result \in {"success", "failed"} :
          status' = [status EXCEPT ![Head(queue)] = result]
    BY <1>6, <2>1 DEF Succeed, Fail
  <2>3. queue' = queue /\ inFlight' = {} /\ Becomes("Dispose", r)
    BY <1>6, <2>1 DEF Succeed, Fail
  <2>4. QueueInv' /\ status'[Head(queue')] \in {"success", "failed"}
    BY <2>1, <2>2, <2>3, QueueKept DEF SerialInv
  <2>5. /\ calls' # <<>> /\ Tail(calls') = <<>>
        /\ Head(calls').op = "Dispose" /\ Head(calls').r = r
    BY <2>1, <2>3, OnlyCall
  <2> QED
    BY <2>1, <2>3, <2>4, <2>5 DEF SerialInv, CallInv, RestInv
<1>7. ASSUME NEW r \in Request, Dispose(r) PROVE SerialInv'
  <2>1. queue # <<>> /\ r = Head(queue) /\ inFlight = {} /\ Tail(calls) = <<>>
    BY <1>7, <1>c DEF Dispose, SerialInv, CallInv
  <2>2. /\ queue' = Tail(queue) /\ inFlight' = {}
        /\ status' = [status EXCEPT ![Head(queue)] = "free"]
    BY <1>7, <2>1 DEF Dispose, Without
  <2>3. QueueInv' /\ (queue' # <<>> => status'[Head(queue')] = "pending")
    BY <2>1, <2>2, QueueShrinks DEF SerialInv
  <2>4. CASE queue' = <<>>
    <3>1. calls' = <<>>
      BY <1>7, <2>1, <2>4 DEF Dispose
    <3> QED
      BY <2>2, <2>3, <2>4, <3>1 DEF SerialInv, CallInv, RestInv, NoStall
  <2>5. CASE queue' # <<>>
    <3>1. Becomes("Execute", Head(queue'))
      BY <1>7, <2>5 DEF Dispose
    <3>2. Head(queue') \in Request
      BY <2>1, <2>2, <2>5, HeadTailProperties DEF TypeOK
    <3> HIDE DEF Becomes
    <3>3. PICK h \in Request : h = Head(queue')
      BY <3>2
    <3>4. /\ calls' # <<>> /\ Tail(calls') = <<>>
          /\ Head(calls').op = "Execute" /\ Head(calls').r = h
      BY <2>1, <3>1, <3>3, OnlyCall
    <3> QED
      BY <2>2, <2>3, <2>5, <3>3, <3>4 DEF SerialInv, CallInv, RestInv
  <2> QED
    BY <2>4, <2>5
\* The hardware answers for the head.
<1>d. ASSUME NEW r \in inFlight, AtRest
      PROVE  /\ calls = <<>> /\ queue # <<>> /\ r = Head(queue)
             /\ inFlight = {r} /\ status[r] = "pending"
  BY <1>d DEF AtRest, SerialInv, RestInv, NoStall
<1>8. ASSUME NEW r \in Request, Answered(r) \/ HardwareFails(r) PROVE SerialInv'
  <2>1. /\ calls = <<>> /\ queue # <<>> /\ r = Head(queue)
        /\ inFlight = {r} /\ status[r] = "pending"
    BY <1>8, <1>d DEF Answered, HardwareFails
  <2>2. /\ calls' # <<>> /\ Tail(calls') = <<>>
        /\ Head(calls').op \in {"Succeed", "Fail"} /\ Head(calls').r = r
    BY <1>8, <2>1, OnlyCall DEF Answered, HardwareFails
  <2> QED
    BY <1>8, <1>b, <2>1, <2>2 DEF Answered, HardwareFails, SerialInv, CallInv, RestInv
<1>9. ASSUME NEW r \in Request, Resubmit(r) PROVE SerialInv'
  <2>1. /\ calls = <<>> /\ queue # <<>> /\ r = Head(queue)
        /\ inFlight = {r} /\ status[r] = "pending"
    BY <1>9, <1>d DEF Resubmit
  <2>2. inFlight' = {} /\ UNCHANGED <<queue, status>> /\ Calls("Execute", r)
    BY <1>9, <2>1 DEF Resubmit
  <2>3. /\ calls' # <<>> /\ Tail(calls') = <<>>
        /\ Head(calls').op = "Execute" /\ Head(calls').r = r
    BY <2>1, <2>2, OnlyCall
  <2> QED
    BY <1>b, <2>1, <2>2, <2>3 DEF SerialInv, CallInv, RestInv
<1>10. ASSUME NEW e \in Device, StartQueries(e) PROVE SerialInv'
  BY <1>10, SubmitSerial DEF StartQueries
<1>11. ASSUME NEW e \in Device, \/ StartSkips(e) \/ StartNoMem(e)
                                \/ StartNodeless(e) \/ StartReturns(e)
       PROVE  SerialInv'
  BY <1>11, <1>a DEF StartSkips, StartNoMem, StartNodeless, StartReturns
<1>12. CASE LoopEnds \/ Tick \/ TimerFires \/ UNCHANGED vars
  BY <1>12, <1>a DEF LoopEnds, Tick, TimerFires, vars
<1> QED
  BY <1>1, <1>2, <1>3, <1>4, <1>5, <1>6, <1>7, <1>8, <1>9, <1>10, <1>11, <1>12
     DEF Next, Application, CallStep, LoopStep, Hardware

LEMMA SerialSafe == TypeOK /\ SerialInv => SerialExecution /\ NoStall
<1> SUFFICES ASSUME TypeOK, SerialInv PROVE SerialExecution /\ NoStall
  OBVIOUS
<1>1. NoStall
  BY DEF SerialInv, RestInv, NoStall
<1>2. CASE calls = <<>>
  <2>1. DOMAIN calls = {}
    BY <1>2, EmptySeq
  <2> QED
    BY <1>1, <1>2, <2>1 DEF SerialExecution, NoStall
<1>3. CASE calls # <<>>
  <2>1. Len(calls) = 1 /\ DOMAIN calls = 1 .. 1
    <3>1. calls \in Seq(Frame) /\ Tail(calls) = <<>>
      BY <1>3 DEF TypeOK, SerialInv, CallInv
    <3>2. Len(calls) - 1 = 0 /\ Len(calls) \in Nat /\ DOMAIN calls = 1 .. Len(calls)
      BY <1>3, <3>1, HeadTailProperties, LenProperties, EmptySeq
    <3> QED
      BY <3>2
  <2>2. \A i \in DOMAIN calls : calls[i] = Head(calls)
    BY <2>1
  <2>3. Head(calls) \in Frame
    BY <1>3, HeadTailProperties DEF TypeOK
  <2> QED
    BY <1>1, <1>3, <2>2, <2>3 DEF SerialExecution, SerialInv, CallInv, Frame
<1> QED
  BY <1>2, <1>3

\* Controller.cpp 172-234: where every request goes through the queue, at most
\* one is on the bus, none is started while another is, and the queue never
\* waits for nothing.
THEOREM Serial ==
    ASSUME Immediate = {}
    PROVE  Spec => []SerialExecution /\ []NoStall
<1>1. TypeOK /\ SerialInv /\ [Next]_vars => SerialInv'
  BY SerialNext
<1> QED
  BY <1>1, SerialInit, TypeCorrect, SerialSafe, PTL DEF Spec

-----------------------------------------------------------------------------
(* Progress, also where some requests never enter the queue.  Such a       *)
(* request completes on top of whatever is in flight and then executes the *)
(* head of the queue, which may be in flight already.                      *)

\* Requests in the queue are allocated, each is there once, and all behind the
\* head wait.
LineInv ==
    /\ \A i, j \in 1 .. Len(queue) : queue[i] = queue[j] => i = j
    /\ \A i \in 1 .. Len(queue) : status[queue[i]] # "free"
    /\ \A i \in 2 .. Len(queue) : status[queue[i]] = "pending"

\* The call f completes a request that is not in the queue.
Apart(f) ==
    /\ f.op # "Execute"
    /\ status[f.r] # "free"
    /\ \A i \in 1 .. Len(queue) : queue[i] # f.r

\* The call f works for the head of the queue.
ForHead(f) ==
    /\ queue # <<>>
    /\ f.r = Head(queue)
    /\ f.op # "Dispose" => status[f.r] = "pending" /\ inFlight \subseteq {f.r}
    /\ f.op = "Dispose" => inFlight = {}

\* The head of the queue, and nothing else, is on the bus.
OnBus ==
    /\ inFlight = IF queue = <<>> THEN {} ELSE {Head(queue)}
    /\ queue # <<>> => status[Head(queue)] = "pending"

\* The stack s is empty, or one request that is not in the queue completes.
Lower(s) == s = <<>> \/ (s # <<>> /\ Tail(s) = <<>> /\ Apart(Head(s)))

\* At most one call for the head of the queue, above at most one other.
StackInv ==
    \/ Lower(calls) /\ OnBus
    \/ calls # <<>> /\ ForHead(Head(calls)) /\ Lower(Tail(calls))

ProgressInv == LineInv /\ StackInv

\* What is on top of a stack and below it.
LEMMA Pushed ==
    ASSUME NEW f \in Frame, NEW s \in Seq(Frame)
    PROVE  <<f>> \o s # <<>> /\ Head(<<f>> \o s) = f /\ Tail(<<f>> \o s) = s
<1> DEFINE t == <<f>> \o s
<1>1. /\ <<f>> \in Seq(Frame) /\ Len(<<f>>) = 1 /\ Len(s) \in Nat
      /\ t \in Seq(Frame) /\ Len(t) = Len(s) + 1 /\ Head(t) = f
  BY PushFrame, LenProperties
<1>2. \A i \in 1 .. 1 + Len(s) : t[i] = IF i <= 1 THEN <<f>>[i] ELSE s[i - 1]
  BY <1>1, ConcatProperties
<1> HIDE DEF t
<1>3. t # <<>>
  BY <1>1, EmptySeq
<1>4. /\ Tail(t) \in Seq(Frame) /\ Len(Tail(t)) = Len(s)
      /\ \A i \in 1 .. Len(s) : Tail(t)[i] = t[i + 1]
  BY <1>1, <1>3, HeadTailProperties
<1>5. \A i \in 1 .. Len(s) : t[i + 1] = s[i]
  <2> SUFFICES ASSUME NEW i \in 1 .. Len(s)
               PROVE  t[i + 1] = s[i]
    OBVIOUS
  <2>1. i + 1 \in 1 .. 1 + Len(s) /\ ~(i + 1 <= 1) /\ (i + 1) - 1 = i
    BY <1>1
  <2> QED
    BY <1>2, <2>1
<1>6. Tail(t) = s
  BY <1>4, <1>5, SeqEqual
<1> QED
  BY <1>1, <1>3, <1>6 DEF t

\* A call above the one in progress, or in its place.
LEMMA OnTop ==
    ASSUME TypeOK, NEW r \in Request, NEW op \in {"Execute", "Succeed", "Fail", "Dispose"}
    PROVE  /\ Calls(op, r) => /\ calls' # <<>> /\ Tail(calls') = calls
                              /\ Head(calls').op = op /\ Head(calls').r = r
           /\ calls # <<>> /\ Becomes(op, r) =>
                 /\ calls' # <<>> /\ Tail(calls') = Tail(calls)
                 /\ Head(calls').op = op /\ Head(calls').r = r
<1> DEFINE f == [op |-> op, r |-> r]
<1>1. f \in Frame /\ f.op = op /\ f.r = r
  BY DEF Frame
<1>2. calls \in Seq(Frame) /\ (calls # <<>> => Tail(calls) \in Seq(Frame))
  BY StackType DEF TypeOK
<1>3. /\ Calls(op, r) => calls' = <<f>> \o calls
      /\ Becomes(op, r) => calls' = <<f>> \o Tail(calls)
  BY DEF Calls, Becomes
<1> HIDE DEF f
<1> QED
  BY <1>1, <1>2, <1>3, Pushed

\* The head of the queue is its first element.
LEMMA HeadOfLine ==
    ASSUME TypeOK, queue # <<>>
    PROVE  /\ Head(queue) = queue[1] /\ 1 \in 1 .. Len(queue) /\ Len(queue) \in Nat
           /\ Head(queue) \in Request
           /\ \A i \in 1 .. Len(queue) : queue[i] \in Request
  BY First, HeadTailProperties, ElementOfSeq DEF TypeOK

\* Nothing below the calls of the queue is disturbed by what they do.
LEMMA LowerSame ==
    ASSUME \A f : Apart(f) => Apart(f)'
    PROVE  /\ Lower(calls) /\ calls' = calls => Lower(calls)'
           /\ Lower(calls) /\ Tail(calls') = calls => Lower(Tail(calls))'
           /\ Lower(Tail(calls)) /\ calls' = Tail(calls) => Lower(calls)'
           /\ Lower(Tail(calls)) /\ Tail(calls') = Tail(calls) => Lower(Tail(calls))'
  BY DEF Lower

\* A submission, by the application or by start().
LEMMA SubmitProgress ==
    ASSUME TypeOK, ProgressInv, NEW r \in Request, NEW d, NEW k, NEW n,
           Allocate(r, d, k, n), Enqueue(r), UNCHANGED inFlight
    PROVE  ProgressInv'
<1>1. status[r] = "free" /\ status' = [status EXCEPT ![r] = "pending"]
  BY DEF Allocate, Free
<1>2. queue' = Append(queue, r) /\ queue \in Seq(Request)
  BY DEF Enqueue, TypeOK
<1>3. /\ Len(queue) \in Nat /\ Len(queue') = Len(queue) + 1 /\ queue'[Len(queue) + 1] = r
      /\ \A i \in 1 .. Len(queue) : queue'[i] = queue[i] /\ queue[i] \in Request
      /\ queue' # <<>> /\ Head(queue') = IF queue = <<>> THEN r ELSE Head(queue)
  BY <1>2, Grows, ElementOfSeq
<1>4. \A i \in 1 .. Len(queue) : queue[i] # r
  BY <1>1 DEF ProgressInv, LineInv
<1>5. \A s \in Request : status'[s] = IF s = r THEN "pending" ELSE status[s]
  BY <1>1 DEF TypeOK
<1>6. LineInv'
  <2>1. \A i, j \in 1 .. Len(queue) + 1 : queue'[i] = queue'[j] => i = j
    BY <1>3, <1>4 DEF ProgressInv, LineInv
  <2>2. \A i \in 1 .. Len(queue) + 1 : status'[queue'[i]] # "free"
    BY <1>3, <1>4, <1>5 DEF ProgressInv, LineInv
  <2>3. \A i \in 2 .. Len(queue) + 1 : status'[queue'[i]] = "pending"
    BY <1>3, <1>4, <1>5 DEF ProgressInv, LineInv
  <2> QED
    BY <1>3, <2>1, <2>2, <2>3 DEF LineInv
<1>7. \A f : Apart(f) => Apart(f)'
  <2> SUFFICES ASSUME NEW f, Apart(f)
               PROVE  Apart(f)'
    OBVIOUS
  <2>1. f.r # r
    BY <1>1 DEF Apart
  <2>2. status'[f.r] = status[f.r]
    BY <1>1, <2>1 DEF TypeOK
  <2>3. \A i \in 1 .. Len(queue) + 1 : queue'[i] # f.r
    BY <1>3, <2>1 DEF Apart
  <2> QED
    BY <1>3, <2>2, <2>3 DEF Apart
<1>8. CASE queue = <<>>
  <2>1. Lower(calls) /\ inFlight = {}
    BY <1>8 DEF ProgressInv, StackInv, ForHead, OnBus
  <2>2. Calls("Execute", r)
    BY <1>8 DEF Enqueue
  <2>3. /\ calls' # <<>> /\ Tail(calls') = calls
        /\ Head(calls').op = "Execute" /\ Head(calls').r = r
    BY <2>2, OnTop
  <2>4. Lower(Tail(calls))'
    BY <1>7, <2>1, <2>3, LowerSame
  <2>5. ForHead(Head(calls))'
    BY <1>3, <1>5, <1>8, <2>1, <2>3 DEF ForHead
  <2> QED
    BY <1>6, <2>3, <2>4, <2>5 DEF ProgressInv, StackInv
<1>9. CASE queue # <<>>
  <2>1. calls' = calls /\ Head(queue') = Head(queue)
    BY <1>3, <1>9 DEF Enqueue
  <2>2. Head(queue) \in Request /\ Head(queue) # r
    BY <1>4, <1>9, HeadOfLine
  <2>3. status'[Head(queue)] = status[Head(queue)]
    BY <1>5, <2>2
  <2>4. CASE Lower(calls) /\ OnBus
    <3>1. Lower(calls)' /\ OnBus'
      BY <1>3, <1>7, <1>9, <2>1, <2>3, <2>4, LowerSame DEF OnBus
    <3> QED
      BY <1>6, <3>1 DEF ProgressInv, StackInv
  <2>5. CASE calls # <<>> /\ ForHead(Head(calls)) /\ Lower(Tail(calls))
    <3>1. Lower(Tail(calls))'
      BY <1>7, <2>1, <2>5, LowerSame
    <3>2. ForHead(Head(calls))'
      BY <1>3, <2>1, <2>3, <2>5 DEF ForHead
    <3> QED
      BY <1>6, <2>1, <2>5, <3>1, <3>2 DEF ProgressInv, StackInv
  <2> QED
    BY <2>4, <2>5 DEF ProgressInv, StackInv
<1> QED
  BY <1>8, <1>9

LEMMA ProgressInit == Init => ProgressInv
<1> SUFFICES ASSUME Init PROVE ProgressInv
  OBVIOUS
<1>1. Len(queue) = 0 /\ queue = <<>> /\ calls = <<>> /\ inFlight = {}
  BY EmptySeq DEF Init
<1>2. LineInv
  BY <1>1 DEF LineInv
<1> QED
  BY <1>1, <1>2 DEF ProgressInv, StackInv, Lower, OnBus

\* The call in progress is for the head, or completes a request of its own.
LEMMA CallIs ==
    ASSUME ProgressInv, NEW op, NEW r, Running(op, r)
    PROVE  /\ calls # <<>> /\ Head(calls).op = op /\ Head(calls).r = r
           /\ \/ ForHead(Head(calls)) /\ Lower(Tail(calls))
              \/ Apart(Head(calls)) /\ Tail(calls) = <<>> /\ OnBus
  BY DEF Running, ProgressInv, StackInv, Lower

\* complete() of the call in progress.
LEMMA CompleteProgress ==
    ASSUME TypeOK, ProgressInv, NEW r \in Request, Succeed(r) \/ Fail(r)
    PROVE  ProgressInv'
<1>1. PICK result \in {"success", "failed"} : status' = [status EXCEPT ![r] = result]
  BY DEF Succeed, Fail
<1>2. /\ queue' = queue /\ inFlight' = inFlight \ {r} /\ Becomes("Dispose", r)
      /\ Running("Succeed", r) \/ Running("Fail", r)
  BY DEF Succeed, Fail
<1>3. /\ calls # <<>> /\ Head(calls).op \in {"Succeed", "Fail"} /\ Head(calls).r = r
      /\ \/ ForHead(Head(calls)) /\ Lower(Tail(calls))
         \/ Apart(Head(calls)) /\ Tail(calls) = <<>> /\ OnBus
  BY <1>2, CallIs
<1>4. /\ calls' # <<>> /\ Tail(calls') = Tail(calls)
      /\ Head(calls').op = "Dispose" /\ Head(calls').r = r
  BY <1>2, <1>3, OnTop
<1>5. \A s \in Request : status'[s] = IF s = r THEN result ELSE status[s]
  BY <1>1 DEF TypeOK
<1>6. \A i \in 1 .. Len(queue) : queue[i] \in Request
  BY ElementOfSeq DEF TypeOK
<1>7. \A f : Apart(f) => Apart(f)'
  BY <1>1, <1>2 DEF Apart, TypeOK
<1>8. CASE ForHead(Head(calls)) /\ Lower(Tail(calls))
  <2>1. queue # <<>> /\ r = Head(queue) /\ inFlight \subseteq {r}
    BY <1>3, <1>8 DEF ForHead
  <2>2. r = queue[1] /\ 1 \in 1 .. Len(queue) /\ Len(queue) \in Nat
    BY <2>1, HeadOfLine
  <2>3. \A i \in 2 .. Len(queue) : queue[i] # r
    BY <2>2 DEF ProgressInv, LineInv
  <2>4. LineInv'
    BY <1>2, <1>5, <1>6, <2>2, <2>3 DEF ProgressInv, LineInv
  <2>5. ForHead(Head(calls))'
    BY <1>2, <1>4, <2>1 DEF ForHead
  <2>6. Lower(Tail(calls))'
    BY <1>4, <1>7, <1>8, LowerSame
  <2> QED
    BY <1>4, <2>4, <2>5, <2>6 DEF ProgressInv, StackInv
<1>9. CASE Apart(Head(calls)) /\ Tail(calls) = <<>> /\ OnBus
  <2>1. \A i \in 1 .. Len(queue) : queue[i] # r
    BY <1>3, <1>9 DEF Apart
  <2>2. LineInv'
    BY <1>2, <1>5, <1>6, <2>1 DEF ProgressInv, LineInv
  <2>3. Apart(Head(calls))'
    BY <1>2, <1>3, <1>4, <1>5, <2>1 DEF Apart
  <2>4. OnBus'
    <3>1. CASE queue = <<>>
      BY <1>2, <1>9, <3>1 DEF OnBus
    <3>2. CASE queue # <<>>
      <4>1. Head(queue) # r /\ Head(queue) \in Request
        BY <2>1, <3>2, HeadOfLine
      <4> QED
        BY <1>2, <1>5, <1>9, <3>2, <4>1 DEF OnBus
    <3> QED
      BY <3>1, <3>2
  <2>5. Lower(calls)'
    BY <1>4, <1>9, <2>3 DEF Lower
  <2> QED
    BY <2>2, <2>4, <2>5 DEF ProgressInv, StackInv
<1> QED
  BY <1>3, <1>8, <1>9

\* The completed request is deleted and the head of the queue executed.
LEMMA DisposeProgress ==
    ASSUME TypeOK, ProgressInv, NEW r \in Request, Dispose(r)
    PROVE  ProgressInv'
<1>1. /\ queue' = Without(r) /\ inFlight' = inFlight /\ Running("Dispose", r)
      /\ status' = [status EXCEPT ![r] = "free"]
      /\ IF queue' = <<>> THEN calls' = Tail(calls) ELSE Becomes("Execute", Head(queue'))
  BY DEF Dispose
<1>2. /\ calls # <<>> /\ Head(calls).op = "Dispose" /\ Head(calls).r = r
      /\ \/ ForHead(Head(calls)) /\ Lower(Tail(calls))
         \/ Apart(Head(calls)) /\ Tail(calls) = <<>> /\ OnBus
  BY <1>1, CallIs
<1>3. \A s \in Request : status'[s] = IF s = r THEN "free" ELSE status[s]
  BY <1>1 DEF TypeOK
<1>4. queue \in Seq(Request) /\ \A i \in 1 .. Len(queue) : queue[i] \in Request
  BY ElementOfSeq DEF TypeOK
<1>5. queue' \in Seq(Request) /\ (queue' # <<>> => Head(queue') = queue'[1] /\ Len(queue') > 0
                                                  /\ Len(queue') \in Nat)
  <2>1. queue' \in Seq(Request)
    BY <1>1, <1>4, HeadTailProperties DEF Without
  <2> QED
    BY <2>1, First
\* The rest of the queue waits, and the stack below is as it was.
<1>6. CASE ForHead(Head(calls)) /\ Lower(Tail(calls))
  <2>1. queue # <<>> /\ r = Head(queue) /\ inFlight = {} /\ queue' = Tail(queue)
    BY <1>1, <1>2, <1>6 DEF ForHead, Without
  <2>2. /\ r = queue[1] /\ Len(queue) \in Nat /\ Len(queue) > 0 /\ Len(queue') = Len(queue) - 1
        /\ \A i \in 1 .. Len(queue) - 1 : queue'[i] = queue[i + 1]
    BY <1>4, <2>1, First, HeadTailProperties
  <2>3. \A i \in 2 .. Len(queue) : queue[i] # r /\ status'[queue[i]] = "pending"
    BY <1>3, <1>4, <2>2 DEF ProgressInv, LineInv
  <2>4. \A i \in 1 .. Len(queue) - 1 : i + 1 \in 2 .. Len(queue) /\ queue'[i] = queue[i + 1]
    BY <2>2
  <2>5. \A i \in 1 .. Len(queue') : status'[queue'[i]] = "pending" /\ queue'[i] \in Request
    BY <1>4, <2>2, <2>3, <2>4
  <2>6. \A i, j \in 1 .. Len(queue') : queue'[i] = queue'[j] => i = j
    BY <2>2, <2>4 DEF ProgressInv, LineInv
  <2>7. LineInv'
    BY <2>2, <2>5, <2>6 DEF LineInv
  <2>8. ASSUME NEW f, Apart(f)
        PROVE  Apart(f)'
    <3>1. f.r # r
      BY <2>2, <2>8 DEF Apart
    <3>2. status'[f.r] = status[f.r]
      BY <1>1, <3>1 DEF TypeOK
    <3>3. \A i \in 1 .. Len(queue') : queue'[i] # f.r
      BY <2>2, <2>4, <2>8 DEF Apart
    <3> QED
      BY <2>8, <3>2, <3>3 DEF Apart
  <2>9. CASE queue' = <<>>
    <3>1. Lower(calls)'
      BY <1>1, <1>6, <2>8, <2>9, LowerSame
    <3>2. OnBus'
      BY <1>1, <2>1, <2>9 DEF OnBus
    <3> QED
      BY <2>7, <3>1, <3>2 DEF ProgressInv, StackInv
  <2>10. CASE queue' # <<>>
    <3>1. PICK h \in Request : h = Head(queue')
      BY <1>5, <2>5, <2>10
    <3>2. Becomes("Execute", h)
      BY <1>1, <2>10, <3>1
    <3>3. /\ calls' # <<>> /\ Tail(calls') = Tail(calls)
          /\ Head(calls').op = "Execute" /\ Head(calls').r = h
      BY <1>2, <3>2, OnTop
    <3>4. status'[h] = "pending"
      BY <1>5, <2>5, <2>10, <3>1
    <3>5. ForHead(Head(calls))'
      BY <1>1, <2>1, <2>10, <3>1, <3>3, <3>4 DEF ForHead
    <3>6. Lower(Tail(calls))'
      BY <1>6, <2>8, <3>3, LowerSame
    <3> QED
      BY <2>7, <3>3, <3>5, <3>6 DEF ProgressInv, StackInv
  <2> QED
    BY <2>9, <2>10
\* The queue is as it was, and its head may be in flight already.
<1>7. CASE Apart(Head(calls)) /\ Tail(calls) = <<>> /\ OnBus
  <2>1. \A i \in 1 .. Len(queue) : queue[i] # r
    BY <1>2, <1>7 DEF Apart
  <2>2. queue # <<>> => Head(queue) # r /\ Head(queue) \in Request
    BY <2>1, HeadOfLine
  <2>3. queue' = queue
    BY <1>1, <2>2 DEF Without
  <2>4. LineInv'
    BY <1>3, <1>4, <2>1, <2>3 DEF ProgressInv, LineInv
  <2>5. CASE queue' = <<>>
    <3>1. calls' = <<>>
      BY <1>1, <1>7, <2>5
    <3>2. OnBus'
      BY <1>1, <1>7, <2>3, <2>5 DEF OnBus
    <3> QED
      BY <2>4, <3>1, <3>2 DEF ProgressInv, StackInv, Lower
  <2>6. CASE queue' # <<>>
    <3>1. PICK h \in Request : h = Head(queue')
      BY <2>2, <2>3, <2>6
    <3>2. Becomes("Execute", h)
      BY <1>1, <2>6, <3>1
    <3>3. /\ calls' # <<>> /\ Tail(calls') = <<>>
          /\ Head(calls').op = "Execute" /\ Head(calls').r = h
      BY <1>2, <1>7, <3>2, OnTop
    <3>4. status'[h] = "pending" /\ inFlight' = {h}
      BY <1>1, <1>3, <1>7, <2>2, <2>3, <2>6, <3>1 DEF OnBus
    <3>5. ForHead(Head(calls))'
      BY <2>6, <3>1, <3>3, <3>4 DEF ForHead
    <3> QED
      BY <2>4, <3>3, <3>5 DEF ProgressInv, StackInv, Lower
  <2> QED
    BY <2>5, <2>6
<1> QED
  BY <1>2, <1>6, <1>7

LEMMA ProgressNext ==
    ASSUME Reentrant \cap Immediate = {}
    PROVE  TypeOK /\ ProgressInv /\ [Next]_vars => ProgressInv'
<1> SUFFICES ASSUME TypeOK, ProgressInv, [Next]_vars PROVE ProgressInv'
  OBVIOUS
<1> USE DEF reqVars
<1>a. ASSUME UNCHANGED <<queue, status>>
      PROVE  LineInv' /\ \A f : Apart(f) => Apart(f)'
  BY <1>a DEF ProgressInv, LineInv, Apart
<1>b. ASSUME UNCHANGED <<queue, status, inFlight, calls>> PROVE ProgressInv'
  BY <1>b DEF ProgressInv, LineInv, StackInv, Lower, Apart, ForHead, OnBus
<1>1. ASSUME NEW p \in Commands, Submit(p[1], p[2]) PROVE ProgressInv'
  BY <1>1, SubmitProgress DEF Submit
<1>2. ASSUME NEW p \in Commands, SubmitImmediate(p[1], p[2]) PROVE ProgressInv'
  <2>1. PICK r \in Request, op \in {"Succeed", "Fail"} :
          Allocate(r, p[1], p[2], 0) /\ Calls(op, r)
    BY <1>2 DEF SubmitImmediate
  <2>2. calls = <<>> /\ UNCHANGED <<queue, inFlight>>
    BY <1>2 DEF SubmitImmediate, MaySubmit, AtRest
  <2>3. status[r] = "free" /\ status' = [status EXCEPT ![r] = "pending"]
    BY <2>1 DEF Allocate, Free
  <2>4. OnBus
    BY <2>2 DEF ProgressInv, StackInv
  <2>5. \A s \in Request : status'[s] = IF s = r THEN "pending" ELSE status[s]
    BY <2>3 DEF TypeOK
  <2>6. /\ \A i \in 1 .. Len(queue) : queue[i] # r /\ queue[i] \in Request
        /\ queue # <<>> => Head(queue) # r /\ Head(queue) \in Request
    <3>1. \A i \in 1 .. Len(queue) : queue[i] # r /\ queue[i] \in Request
      BY <2>3, ElementOfSeq DEF ProgressInv, LineInv, TypeOK
    <3> QED
      BY <3>1, HeadOfLine
  <2>7. LineInv'
    BY <2>2, <2>5, <2>6 DEF ProgressInv, LineInv
  <2>8. OnBus'
    BY <2>2, <2>4, <2>5, <2>6 DEF OnBus
  <2>9. /\ calls' # <<>> /\ Tail(calls') = <<>>
        /\ Head(calls').op # "Execute" /\ Head(calls').r = r
    BY <2>1, <2>2, OnTop
  <2>10. Apart(Head(calls))'
    BY <2>2, <2>5, <2>6, <2>9 DEF Apart
  <2> QED
    BY <2>7, <2>8, <2>9, <2>10 DEF ProgressInv, StackInv, Lower
<1>3. CASE Start \/ Stop \/ Begin
  BY <1>3, <1>b DEF Start, Stop, Begin
<1>4. ASSUME NEW r \in Request, Execute(r) PROVE ProgressInv'
  <2>1. /\ calls # <<>> /\ Head(calls).op = "Execute" /\ Head(calls).r = r
        /\ ForHead(Head(calls)) /\ Lower(Tail(calls))
    BY <1>4, CallIs DEF Execute, Apart
  <2>2. /\ calls' = Tail(calls) /\ inFlight' = inFlight \cup {r} /\ UNCHANGED <<queue, status>>
    BY <1>4 DEF Execute
  <2>3. OnBus'
    BY <2>1, <2>2 DEF OnBus, ForHead
  <2>4. Lower(calls)'
    BY <1>a, <2>1, <2>2, LowerSame
  <2> QED
    BY <1>a, <2>2, <2>3, <2>4 DEF ProgressInv, StackInv
<1>5. ASSUME NEW r \in Request, Reject(r) PROVE ProgressInv'
  <2>1. /\ calls # <<>> /\ Head(calls).op = "Execute" /\ Head(calls).r = r
        /\ ForHead(Head(calls)) /\ Lower(Tail(calls))
    BY <1>5, CallIs DEF Reject, Apart
  <2>2. Becomes("Fail", r) /\ UNCHANGED <<queue, status, inFlight>>
    BY <1>5 DEF Reject
  <2>3. /\ calls' # <<>> /\ Tail(calls') = Tail(calls)
        /\ Head(calls').op = "Fail" /\ Head(calls').r = r
    BY <2>1, <2>2, OnTop
  <2>4. ForHead(Head(calls))'
    BY <2>1, <2>2, <2>3 DEF ForHead
  <2>5. Lower(Tail(calls))'
    BY <1>a, <2>1, <2>2, <2>3, LowerSame
  <2> QED
    BY <1>a, <2>2, <2>3, <2>4, <2>5 DEF ProgressInv, StackInv
<1>6. ASSUME NEW r \in Request, Succeed(r) \/ Fail(r) PROVE ProgressInv'
  BY <1>6, CompleteProgress
<1>7. ASSUME NEW r \in Request, Dispose(r) PROVE ProgressInv'
  BY <1>7, DisposeProgress
\* The hardware answers for the head.
<1>c. ASSUME NEW r \in inFlight, AtRest
      PROVE  /\ calls = <<>> /\ queue # <<>> /\ r = Head(queue)
             /\ inFlight = {r} /\ status[r] = "pending"
  BY <1>c DEF AtRest, ProgressInv, StackInv, OnBus
<1>d. ASSUME NEW r \in Request, NEW op \in {"Execute", "Succeed", "Fail"}, Calls(op, r),
             calls = <<>>, queue # <<>>, r = Head(queue), status[r] = "pending",
             inFlight' \subseteq {r}, UNCHANGED <<queue, status>>
      PROVE  ProgressInv'
  <2>1. /\ calls' # <<>> /\ Tail(calls') = <<>>
        /\ Head(calls').op = op /\ Head(calls').r = r
    BY <1>d, OnTop
  <2>2. ForHead(Head(calls))'
    BY <1>d, <2>1 DEF ForHead
  <2> QED
    BY <1>a, <1>d, <2>1, <2>2 DEF ProgressInv, StackInv, Lower
<1>8. ASSUME NEW r \in Request, Answered(r) \/ HardwareFails(r) PROVE ProgressInv'
  <2>1. AtRest /\ r \in inFlight /\ UNCHANGED <<queue, status, inFlight>>
        /\ (Calls("Succeed", r) \/ Calls("Fail", r))
    BY <1>8 DEF Answered, HardwareFails
  <2> QED
    BY <1>c, <1>d, <2>1
<1>9. ASSUME NEW r \in Request, Resubmit(r) PROVE ProgressInv'
  <2>1. /\ calls = <<>> /\ queue # <<>> /\ r = Head(queue)
        /\ inFlight = {r} /\ status[r] = "pending"
    BY <1>9, <1>c DEF Resubmit
  <2>2. inFlight' = {} /\ UNCHANGED <<queue, status>> /\ Calls("Execute", r)
    BY <1>9, <2>1 DEF Resubmit
  <2> QED
    BY <1>d, <2>1, <2>2
<1>10. ASSUME NEW e \in Device, StartQueries(e) PROVE ProgressInv'
  BY <1>10, SubmitProgress DEF StartQueries
<1>11. ASSUME NEW e \in Device, \/ StartSkips(e) \/ StartNoMem(e)
                                \/ StartNodeless(e) \/ StartReturns(e)
       PROVE  ProgressInv'
  BY <1>11, <1>b DEF StartSkips, StartNoMem, StartNodeless, StartReturns
<1>12. CASE LoopEnds \/ Tick \/ TimerFires \/ UNCHANGED vars
  BY <1>12, <1>b DEF LoopEnds, Tick, TimerFires, vars
<1> QED
  BY <1>1, <1>2, <1>3, <1>4, <1>5, <1>6, <1>7, <1>8, <1>9, <1>10, <1>11, <1>12
     DEF Next, Application, CallStep, LoopStep, Hardware

\* Controller.cpp 172-234: when the last call has returned, a queue that is not
\* empty has its head on the bus, so the queue never waits for nothing.  This
\* holds with requests that complete at once beside those that queue, and with
\* failures of execute(), as long as no callback submits one of the former:
\* its completion would execute the head again below a call for it.
THEOREM NeverStalled ==
    ASSUME Reentrant \cap Immediate = {}
    PROVE  Spec => []NoStall
<1>1. TypeOK /\ ProgressInv /\ [Next]_vars => ProgressInv'
  BY ProgressNext
<1>2. ProgressInv => NoStall
  BY DEF ProgressInv, StackInv, OnBus, NoStall
<1> QED
  BY <1>1, <1>2, ProgressInit, TypeCorrect, PTL DEF Spec

-----------------------------------------------------------------------------
(* Initialisation.  The query that start() submits is still pending when   *)
(* submit() returns, provided execute() refuses no query.                  *)

Queried(d, r) == status[r] = "pending" /\ Pair(r) = <<d, "query">>

\* While submit() of a query runs, the query waits or is about to be executed.
SubmittingInv == current # NoDevice =>
    /\ looping
    /\ \E r \in Request : /\ Queried(current, r)
                          /\ calls = <<>> \/ Running("Execute", r)

StartInv == StartingHasQuery /\ SubmittingInv

\* A query that a step leaves pending still stands for its device.
LEMMA QueryKept ==
    ASSUME TypeOK, NEW d \in Device, StartingHasQuery, devState[d] = "starting",
           \A r \in Request : Queried(d, r) => Queried(d, r)'
    PROVE  \E r \in Request : Queried(d, r)'
  BY DEF StartingHasQuery, Queried

LEMMA AllocateKeeps ==
    ASSUME TypeOK, NEW r \in Request, NEW d, NEW k, NEW n, Allocate(r, d, k, n)
    PROVE  /\ Queried(d, r)' <=> k = "query"
           /\ \A s \in Request, e \in Device : Queried(e, s) => Queried(e, s)'
  BY DEF Allocate, Queried, Pair, Free, TypeOK

LEMMA StartNext ==
    ASSUME Immediate = {}, \A d \in Device : <<d, "query">> \notin Rejected
    PROVE  TypeOK /\ SerialInv /\ StartInv /\ [Next]_vars => StartInv'
<1> SUFFICES ASSUME TypeOK, SerialInv, StartInv, [Next]_vars PROVE StartInv'
  OBVIOUS
<1> USE DEF reqVars, loopVars
<1>a. ASSUME UNCHANGED <<status, info, calls, devState, loopVars>> PROVE StartInv'
  BY <1>a DEF StartInv, StartingHasQuery, SubmittingInv, Queried, Pair, Running
<1>b. ASSUME AtRest PROVE current = NoDevice
  BY <1>b DEF AtRest, StartInv, SubmittingInv
<1>c. ASSUME UNCHANGED devState,
             \A r \in Request, e \in Device : Queried(e, r) => Queried(e, r)'
      PROVE  StartingHasQuery'
  BY <1>c DEF StartInv, StartingHasQuery, Queried
\* A submission made while submit() of a query runs leaves the stack alone.
<1>1. ASSUME NEW p \in Commands, Submit(p[1], p[2]) PROVE StartInv'
  <2>1. PICK r \in Request, n \in 0 .. MaxParts :
          Allocate(r, p[1], p[2], n) /\ Enqueue(r)
    BY <1>1 DEF Submit
  <2>2. \A s \in Request, e \in Device : Queried(e, s) => Queried(e, s)'
    BY <2>1, AllocateKeeps
  <2>3. StartingHasQuery'
    BY <1>1, <1>c, <2>2 DEF Submit
  <2>4. ASSUME current # NoDevice PROVE UNCHANGED calls
    <3>1. calls # <<>>
      BY <1>1, <1>b, <2>4 DEF Submit, MaySubmit
    <3>2. queue # <<>>
      BY <3>1 DEF SerialInv, CallInv
    <3> QED
      BY <2>1, <3>2 DEF Enqueue
  <2>5. SubmittingInv'
    BY <1>1, <2>2, <2>4 DEF Submit, StartInv, SubmittingInv, Running, TypeOK
  <2> QED
    BY <2>3, <2>5 DEF StartInv
<1>2. ASSUME NEW p \in Commands, SubmitImmediate(p[1], p[2]) PROVE StartInv'
  BY <1>2 DEF SubmitImmediate
<1>3. CASE Start \/ TimerFires
  <2>1. current' = NoDevice
    BY <1>3, <1>b DEF Start, TimerFires, StartDevices
  <2> QED
    BY <1>3, <2>1 DEF Start, TimerFires, StartDevices, StartInv,
                      StartingHasQuery, SubmittingInv, Pair
<1>4. CASE Stop
  BY <1>4, <1>a DEF Stop
<1>5. CASE Begin
  <2>1. current' = NoDevice
    BY <1>5, <1>b DEF Begin, StartDevices
  <2> QED
    BY <1>5, <2>1 DEF Begin, StartInv, StartingHasQuery, SubmittingInv
<1>6. ASSUME NEW r \in Request, Execute(r) PROVE StartInv'
  <2>1. calls' = <<>>
    BY <1>6 DEF Execute, Running, SerialInv, CallInv
  <2> QED
    BY <1>6, <2>1 DEF Execute, StartInv, StartingHasQuery, SubmittingInv,
                      Queried, Pair
\* Only Execute runs inside submit() of a query, so the other calls find no
\* start() waiting.
<1>d. ASSUME NEW op \in {"Succeed", "Fail", "Dispose"}, NEW r, Running(op, r)
      PROVE  current = NoDevice
  BY <1>d DEF Running, StartInv, SubmittingInv
<1>7. ASSUME NEW r \in Request, Reject(r) PROVE StartInv'
  <2>1. current = NoDevice
    <3>1. ASSUME current # NoDevice PROVE FALSE
      <4>1. current \in Device
        BY <3>1 DEF TypeOK
      <4>2. Pair(r) = <<current, "query">>
        BY <1>7, <3>1 DEF Reject, Running, StartInv, SubmittingInv, Queried
      <4> QED
        BY <1>7, <4>1, <4>2 DEF Reject
    <3> QED
      BY <3>1
  <2> QED
    BY <1>7, <2>1 DEF Reject, StartInv, StartingHasQuery, SubmittingInv, Pair
<1>8. ASSUME NEW r \in Request, Succeed(r) \/ Fail(r) PROVE StartInv'
  <2>1. current = NoDevice /\ current' = NoDevice /\ UNCHANGED info
    BY <1>8, <1>d DEF Succeed, Fail
  <2>2. ASSUME NEW d \in Device, devState'[d] = "starting"
        PROVE  \E s \in Request : Queried(d, s)'
    <3>1. devState[d] = "starting" /\ d # info[r].device
      BY <1>8, <2>2 DEF Succeed, Fail, AfterSuccess, TypeOK
    <3>2. PICK s \in Request : Queried(d, s)
      BY <3>1 DEF StartInv, StartingHasQuery, Queried
    <3>3. s # r
      BY <3>1, <3>2 DEF Queried, Pair
    <3>4. status'[s] = status[s]
      BY <1>8, <3>3 DEF Succeed, Fail, TypeOK
    <3> QED
      BY <2>1, <3>2, <3>4 DEF Queried, Pair
  <2> QED
    BY <2>1, <2>2 DEF StartInv, StartingHasQuery, SubmittingInv, Queried
<1>9. ASSUME NEW r \in Request, Dispose(r) PROVE StartInv'
  <2>1. current = NoDevice /\ current' = NoDevice
    BY <1>9, <1>d DEF Dispose
  <2>2. status[r] # "pending"
    BY <1>9 DEF Dispose, Running, SerialInv, CallInv
  <2>3. \A s \in Request, e \in Device : Queried(e, s) => Queried(e, s)'
    BY <1>9, <2>2 DEF Dispose, Queried, Pair, TypeOK
  <2>4. StartingHasQuery'
    BY <1>9, <1>c, <2>3 DEF Dispose
  <2> QED
    BY <2>1, <2>4 DEF StartInv, SubmittingInv
<1>10. ASSUME NEW r \in Request, Answered(r) \/ HardwareFails(r) PROVE StartInv'
  <2>1. current = NoDevice
    BY <1>10, <1>b DEF Answered, HardwareFails
  <2> QED
    BY <1>10, <2>1 DEF Answered, HardwareFails, StartInv, StartingHasQuery,
                       SubmittingInv, Pair
<1>11. ASSUME NEW r \in Request, Resubmit(r) PROVE StartInv'
  <2>1. current = NoDevice /\ current' = NoDevice
    BY <1>11, <1>b DEF Resubmit
  <2>2. \A s \in Request : info'[s].device = info[s].device
                           /\ info'[s].kind = info[s].kind
    BY <1>11 DEF Resubmit, TypeOK, Info
  <2>3. \A s \in Request, e \in Device : Queried(e, s) => Queried(e, s)'
    BY <1>11, <2>2 DEF Resubmit, Queried, Pair
  <2>4. StartingHasQuery'
    BY <1>11, <1>c, <2>3 DEF Resubmit
  <2> QED
    BY <2>1, <2>4 DEF StartInv, SubmittingInv
<1>12. ASSUME NEW d \in Device, StartSkips(d) \/ StartNoMem(d) PROVE StartInv'
  BY <1>12 DEF StartSkips, StartNoMem, Visit, StartInv, StartingHasQuery,
               SubmittingInv, Pair
<1>13. ASSUME NEW d \in Device, StartNodeless(d) PROVE StartInv'
  BY <1>13 DEF StartNodeless, Visit, StartInv, StartingHasQuery, SubmittingInv,
               Pair, TypeOK
<1>14. ASSUME NEW d \in Device, StartQueries(d) PROVE StartInv'
  <2>1. PICK r \in Request : Allocate(r, d, "query", 0) /\ Enqueue(r)
    BY <1>14 DEF StartQueries
  <2>2. /\ \A s \in Request, e \in Device : Queried(e, s) => Queried(e, s)'
        /\ Queried(d, r)'
    BY <2>1, AllocateKeeps
  <2>3. StartingHasQuery'
    BY <1>14, <1>c, <2>2 DEF StartQueries
  <2>4. calls' = <<>> \/ Running("Execute", r)'
    <3>1. calls = <<>>
      BY <1>14 DEF StartQueries, Visit
    <3>2. CASE queue = <<>>
      <4>1. /\ [op |-> "Execute", r |-> r] \in Frame
            /\ calls' = <<[op |-> "Execute", r |-> r]>> \o <<>>
        BY <2>1, <3>1, <3>2 DEF Enqueue, Calls, Frame
      <4>2. calls' # <<>> /\ Head(calls') = [op |-> "Execute", r |-> r]
        BY <4>1, SingleCall
      <4> QED
        BY <4>2 DEF Running
    <3> QED
      BY <2>1, <3>1, <3>2 DEF Enqueue
  <2>5. looping' /\ current' = d
    BY <1>14 DEF StartQueries, Visit
  <2> QED
    BY <2>2, <2>3, <2>4, <2>5 DEF StartInv, SubmittingInv
<1>15. ASSUME NEW d \in Device, StartReturns(d) PROVE StartInv'
  <2>1. current' = NoDevice /\ current = d /\ d # NoDevice
    BY <1>15, DeviceAssumption DEF StartReturns, DeviceAssumption
  <2>2. PICK r \in Request : Queried(d, r)
    BY <2>1 DEF StartInv, SubmittingInv
  <2>3. \A e \in Device : e # d => devState'[e] = devState[e]
    BY <1>15 DEF StartReturns, TypeOK
  <2> QED
    BY <1>15, <2>1, <2>2, <2>3
       DEF StartReturns, StartInv, StartingHasQuery, SubmittingInv, Queried, Pair
<1>16. CASE LoopEnds
  BY <1>16 DEF LoopEnds, StartInv, StartingHasQuery, SubmittingInv, Pair
<1>17. CASE Tick \/ UNCHANGED vars
  BY <1>17, <1>a DEF Tick, vars
<1> QED
  BY <1>1, <1>2, <1>3, <1>4, <1>5, <1>6, <1>7, <1>8, <1>9, <1>10, <1>11, <1>12,
     <1>13, <1>14, <1>15, <1>16, <1>17
     DEF Next, Application, CallStep, LoopStep, Hardware

\* Device.cpp 51-74: a device stays `starting' only while its query is under
\* way, on a controller that queues every request and can execute queries.
THEOREM Starting ==
    ASSUME Immediate = {}, \A d \in Device : <<d, "query">> \notin Rejected
    PROVE  Spec => []StartingHasQuery
<1>1. Init => StartInv
  BY DEF Init, StartInv, StartingHasQuery, SubmittingInv
<1>2. TypeOK /\ SerialInv /\ StartInv /\ [Next]_vars => StartInv'
  BY StartNext
<1>3. TypeOK /\ SerialInv /\ [Next]_vars => SerialInv'
  BY SerialNext
<1>4. StartInv => StartingHasQuery
  BY DEF StartInv
<1> QED
  BY <1>1, <1>2, <1>3, <1>4, SerialInit, TypeCorrect, PTL DEF Spec

-----------------------------------------------------------------------------
(* The controller implements the safety part of RequestQueue.  Between a   *)
(* completion and the deletion of the request the line is the tail of the  *)
(* queue; otherwise it is the queue.                                       *)

\* A request that a submission adds to the queue enters the line.
LEMMA SubmitEnters ==
    ASSUME TypeOK, SerialInv, NEW r \in Request, NEW d, NEW k, NEW n,
           Allocate(r, d, k, n), Enqueue(r), UNCHANGED inFlight
    PROVE  Line!Enter(r)
<1>1. status[r] = "free" /\ status' = [status EXCEPT ![r] = "pending"]
  BY DEF Allocate, Free
<1>2. queue' = Append(queue, r) /\ queue \in Seq(Request)
  BY DEF Enqueue, TypeOK
<1>3. \A i \in 1 .. Len(queue) : queue[i] # r
  BY <1>1 DEF SerialInv, QueueInv
<1>4. /\ queue' # <<>>
      /\ Head(queue') = IF queue = <<>> THEN r ELSE Head(queue)
      /\ Tail(queue') = IF queue = <<>> THEN <<>> ELSE Append(Tail(queue), r)
  BY <1>2, HeadTailAppend, AppendProperties
<1>5. CASE queue = <<>>
  <2>1. status'[r] = "pending"
    BY <1>1 DEF TypeOK
  <2>2. Waiting = <<>> /\ Waiting' = Append(<<>>, r)
    BY <1>2, <1>4, <1>5, <2>1 DEF Waiting
  <2>3. DOMAIN Waiting = {}
    BY <2>2
  <2> QED
    BY <2>2, <2>3 DEF Line!Enter
<1>6. CASE queue # <<>>
  <2>1. Head(queue) = queue[1] /\ 1 \in 1 .. Len(queue) /\ Head(queue) \in Request
    BY <1>2, <1>6, First, HeadTailProperties
  <2>2. status'[Head(queue')] = status[Head(queue)]
    BY <1>1, <1>3, <1>4, <1>6, <2>1 DEF TypeOK
  <2>3. Waiting' = Append(Waiting, r)
    BY <1>2, <1>4, <1>6, <2>2 DEF Waiting
  <2>4. \A i \in DOMAIN Waiting : Waiting[i] # r
    <3>1. CASE Waiting = queue
      BY <1>2, <1>3, <3>1, LenProperties
    <3>2. CASE Waiting = Tail(queue)
      <4>1. /\ Tail(queue) \in Seq(Request) /\ Len(Tail(queue)) = Len(queue) - 1
            /\ \A i \in 1 .. Len(Tail(queue)) : Tail(queue)[i] = queue[i + 1]
            /\ Len(queue) \in Nat
        BY <1>2, <1>6, HeadTailProperties, First
      <4>2. DOMAIN Tail(queue) = 1 .. Len(queue) - 1
        BY <4>1, LenProperties
      <4>3. \A i \in 1 .. Len(queue) - 1 : i + 1 \in 1 .. Len(queue)
        BY <4>1
      <4> QED
        BY <1>3, <3>2, <4>1, <4>2, <4>3
    <3> QED
      BY <3>1, <3>2 DEF Waiting
  <2> QED
    BY <2>3, <2>4 DEF Line!Enter
<1> QED
  BY <1>5, <1>6

LEMMA LineNext ==
    ASSUME Immediate = {}
    PROVE  TypeOK /\ SerialInv /\ [Next]_vars => [Line!Next]_(Line!vars)
<1> SUFFICES ASSUME TypeOK, SerialInv, [Next]_vars
             PROVE  Line!Next \/ UNCHANGED Line!vars
  OBVIOUS
<1> USE DEF reqVars, Line!vars
<1>a. ASSUME UNCHANGED <<queue, status, inFlight>> PROVE UNCHANGED Line!vars
  BY <1>a DEF Waiting
<1>b. ASSUME NEW r \in Request, NEW op \in {"Execute", "Succeed", "Fail"},
             Running(op, r)
      PROVE  /\ queue # <<>> /\ r = Head(queue) /\ status[r] = "pending"
             /\ Waiting = queue
  BY <1>b DEF Running, Waiting, SerialInv, CallInv
<1>1. ASSUME NEW p \in Commands, Submit(p[1], p[2]) PROVE Line!Next
  BY <1>1, SubmitEnters DEF Submit, Line!Next
<1>2. ASSUME NEW p \in Commands, SubmitImmediate(p[1], p[2]) PROVE FALSE
  BY <1>2 DEF SubmitImmediate
<1>3. CASE Start \/ Stop \/ Begin
  BY <1>3, <1>a DEF Start, Stop, Begin
<1>4. ASSUME NEW r \in Request, Execute(r) PROVE Line!Next
  <2>1. Waiting # <<>> /\ Waiting' = Waiting
    BY <1>4, <1>b DEF Execute, Waiting
  <2>2. inFlight = {} /\ inFlight' = {r}
    BY <1>4 DEF Execute, Running, SerialInv, CallInv
  <2> QED
    BY <2>1, <2>2 DEF Line!Next, Line!Serve
<1>5. ASSUME NEW r \in Request, Reject(r) PROVE UNCHANGED Line!vars
  BY <1>5, <1>a DEF Reject
<1>6. ASSUME NEW r \in Request, Succeed(r) \/ Fail(r) PROVE Line!Next
  <2>1. queue # <<>> /\ r = Head(queue) /\ Waiting = queue
    BY <1>6, <1>b DEF Succeed, Fail
  <2>2. queue' = queue /\ status'[r] \in {"success", "failed"}
    BY <1>6 DEF Succeed, Fail, TypeOK
  <2>3. Waiting' = Tail(queue)
    BY <2>1, <2>2 DEF Waiting
  <2>4. inFlight' = {}
    BY <1>6, <2>1 DEF Succeed, Fail, Running, SerialInv, CallInv
  <2> QED
    BY <2>1, <2>3, <2>4 DEF Line!Next, Line!Leave
<1>7. ASSUME NEW r \in Request, Dispose(r) PROVE UNCHANGED Line!vars
  <2>1. /\ queue # <<>> /\ r = Head(queue)
        /\ status[r] \in {"success", "failed"}
    BY <1>7 DEF Dispose, Running, SerialInv, CallInv
  <2>2. Waiting = Tail(queue) /\ queue' = Tail(queue)
    BY <1>7, <2>1 DEF Dispose, Without, Waiting
  <2>3. status' = [status EXCEPT ![Head(queue)] = "free"]
    BY <1>7, <2>1 DEF Dispose
  <2>4. queue' # <<>> => status'[Head(queue')] = "pending"
    BY <2>1, <2>2, <2>3, QueueShrinks DEF SerialInv
  <2>5. Waiting' = queue'
    BY <2>4 DEF Waiting
  <2> QED
    BY <1>7, <2>2, <2>5 DEF Dispose
<1>8. ASSUME NEW r \in Request, Answered(r) \/ HardwareFails(r)
      PROVE  UNCHANGED Line!vars
  BY <1>8, <1>a DEF Answered, HardwareFails
<1>9. ASSUME NEW r \in Request, Resubmit(r) PROVE Line!Next
  <2>1. queue # <<>> /\ r = Head(queue) /\ inFlight = {r}
    BY <1>9 DEF Resubmit, AtRest, SerialInv, RestInv, NoStall
  <2>2. UNCHANGED <<queue, status>> /\ inFlight' = {}
    BY <1>9, <2>1 DEF Resubmit
  <2>3. Waiting' = Waiting
    BY <2>2 DEF Waiting
  <2> QED
    BY <2>1, <2>2, <2>3 DEF Line!Next, Line!Retry
<1>10. ASSUME NEW d \in Device, StartQueries(d) PROVE Line!Next
  BY <1>10, SubmitEnters DEF StartQueries, Line!Next
<1>11. ASSUME NEW d \in Device, \/ StartSkips(d) \/ StartNoMem(d)
                                \/ StartNodeless(d) \/ StartReturns(d)
       PROVE  UNCHANGED Line!vars
  BY <1>11, <1>a DEF StartSkips, StartNoMem, StartNodeless, StartReturns
<1>12. CASE LoopEnds \/ Tick \/ TimerFires \/ UNCHANGED vars
  BY <1>12, <1>a DEF LoopEnds, Tick, TimerFires, vars
<1> QED
  BY <1>1, <1>2, <1>3, <1>4, <1>5, <1>6, <1>7, <1>8, <1>9, <1>10, <1>11, <1>12
     DEF Next, Application, CallStep, LoopStep, Hardware

\* README.rst, "The controller serialises requests": every behaviour of the
\* controller is one of the line it promises (that the line keeps moving is
\* left to TLC, which checks Serialises).
THEOREM Implements ==
    ASSUME Immediate = {}
    PROVE  Spec => Line!Init /\ [][Line!Next]_(Line!vars)
<1>1. Init => Line!Init
  BY DEF Init, Line!Init, Waiting
<1>2. TypeOK /\ SerialInv /\ [Next]_vars => [Line!Next]_(Line!vars)
  BY LineNext
<1>3. TypeOK /\ SerialInv /\ [Next]_vars => SerialInv'
  BY SerialNext
<1> QED
  BY <1>1, <1>2, <1>3, SerialInit, TypeCorrect, PTL DEF Spec
=============================================================================
