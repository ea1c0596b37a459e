----------------------------- MODULE RS485_proofs -----------------------------
(***************************************************************************)
(* Proofs about the RS485 controller: for every number of devices, segments*)
(* and requests, and every bound.  What a theorem asks of the bus beyond   *)
(* that it states as a hypothesis.                                         *)
(***************************************************************************)
EXTENDS RS485, SequenceTheorems, TLAPS

-----------------------------------------------------------------------------
(* The two queues *)

\* A sequence of one grows to a sequence of two.
LEMMA AppendToOne ==
    ASSUME NEW x, NEW y
    PROVE  Append(<<x>>, y) = <<x, y>>
<1> DEFINE S == {x, y}
           s == <<x>>
           t == Append(s, y)
           u == <<x, y>>
<1>1. s \in Seq(S) /\ u \in Seq(S) /\ y \in S
  OBVIOUS
<1>2. Len(s) = 1 /\ s[1] = x /\ Len(u) = 2 /\ u[1] = x /\ u[2] = y
  OBVIOUS
<1> HIDE DEF s, u, S
<1>3. t \in Seq(S) /\ Len(t) = Len(s) + 1
  BY <1>1, AppendProperties
<1>4. t[1] = x
  BY <1>1, <1>2, AppendProperties
<1>5. t[2] = y
  <2>1. t[Len(s) + 1] = y
    BY <1>1, AppendProperties
  <2>2. Len(s) + 1 = 2
    BY <1>2
  <2> QED
    BY <2>1, <2>2
<1> HIDE DEF t
<1>6. \A i \in 1 .. Len(t) : t[i] = u[i]
  BY <1>2, <1>3, <1>4, <1>5
<1>7. t = u
  BY <1>1, <1>2, <1>3, <1>6, SeqEqual
<1> QED
  BY <1>7 DEF s, t, u

\* How the callbacks of an exchange come and go.
LEMMA Callbacks ==
    /\ Head(<<"transmitted">>) = "transmitted" /\ Tail(<<"transmitted">>) = <<>>
    /\ Head(<<"received">>) = "received" /\ Tail(<<"received">>) = <<>>
    /\ Head(<<"transmitted", "received">>) = "transmitted"
    /\ Tail(<<"transmitted", "received">>) = <<"received">>
    /\ Append(<<>>, "transmitted") = <<"transmitted">>
    /\ Append(<<>>, "received") = <<"received">>
    /\ Append(<<"transmitted">>, "received") = <<"transmitted", "received">>
    /\ <<"received">> # <<>> /\ <<"transmitted">> # <<>>
<1>1. /\ Head(<<"transmitted">>) = "transmitted" /\ Head(<<"received">>) = "received"
      /\ Head(<<"transmitted", "received">>) = "transmitted"
  OBVIOUS
<1>2. Tail(<<"transmitted">>) = <<>>
  OBVIOUS
<1>3. Tail(<<"received">>) = <<>>
  OBVIOUS
<1>4. Tail(<<"transmitted", "received">>) = <<"received">>
  OBVIOUS
<1>5. Append(<<>>, "transmitted") = <<"transmitted">>
  OBVIOUS
<1>6. Append(<<>>, "received") = <<"received">>
  OBVIOUS
<1>7. Append(<<"transmitted">>, "received") = <<"transmitted", "received">>
  BY AppendToOne
<1>8. <<"received">> # <<>> /\ <<"transmitted">> # <<>>
  OBVIOUS
<1> QED
  BY <1>1, <1>2, <1>3, <1>4, <1>5, <1>6, <1>7, <1>8

\* Taking the oldest callback from the task queue.
LEMMA TaskTaken ==
    ASSUME TypeOK, tasks # <<>>, tasks' = Tail(tasks)
    PROVE  /\ tasks' \in Seq({"transmitted", "received"})
           /\ Len(tasks') <= MaxTasks
           /\ \A t \in {"transmitted", "received"} :
                 /\ Posted(t)' => Posted(t)
                 /\ Posted(t) => Posted(t)' \/ t = Head(tasks)
<1>1. /\ tasks \in Seq({"transmitted", "received"})
      /\ MaxTasks \in Nat /\ Len(tasks) \in Nat /\ Len(tasks) <= MaxTasks
      /\ Len(tasks) # 0
  BY LimitAssumption, EmptySeq, LenProperties DEF TypeOK, LimitAssumption
<1>2. /\ tasks' \in Seq({"transmitted", "received"})
      /\ Len(tasks') = Len(tasks) - 1
      /\ \A i \in 1 .. Len(tasks') : tasks'[i] = tasks[i + 1]
  BY <1>1, HeadTailProperties
<1>3. DOMAIN tasks = 1 .. Len(tasks) /\ DOMAIN tasks' = 1 .. Len(tasks')
  BY <1>1, <1>2, LenProperties
<1>4. Head(tasks) = tasks[1]
  BY <1>1
<1>5. ASSUME NEW t \in {"transmitted", "received"}
      PROVE  Posted(t)' => Posted(t)
  <2> SUFFICES ASSUME NEW i \in DOMAIN tasks', tasks'[i] = t
               PROVE  Posted(t)
    BY DEF Posted
  <2>1. i + 1 \in 1 .. Len(tasks) /\ tasks[i + 1] = t
    BY <1>1, <1>2, <1>3
  <2> QED
    BY <1>3, <2>1 DEF Posted
<1>6. ASSUME NEW t \in {"transmitted", "received"}, Posted(t), t # Head(tasks)
      PROVE  Posted(t)'
  <2>1. PICK i \in 1 .. Len(tasks) : tasks[i] = t
    BY <1>3, <1>6 DEF Posted
  <2>2. i # 1
    BY <1>4, <1>6, <2>1
  <2>3. i - 1 \in 1 .. Len(tasks') /\ tasks'[i - 1] = t
    BY <1>1, <1>2, <2>1, <2>2
  <2> QED
    BY <1>3, <2>3 DEF Posted
<1> QED
  BY <1>1, <1>2, <1>5, <1>6

\* Adding a callback to it, when there is room.
LEMMA TaskPosted ==
    ASSUME TypeOK, NEW t \in {"transmitted", "received"}, Post(t),
           Len(tasks) < MaxTasks
    PROVE  /\ tasks' \in Seq({"transmitted", "received"})
           /\ Len(tasks') <= MaxTasks
           /\ Posted(t)'
           /\ \A u \in {"transmitted", "received"} :
                 /\ Posted(u) => Posted(u)'
                 /\ Posted(u)' => Posted(u) \/ u = t
<1>1. /\ tasks \in Seq({"transmitted", "received"})
      /\ MaxTasks \in Nat /\ Len(tasks) \in Nat
  BY LimitAssumption, LenProperties DEF TypeOK, LimitAssumption
<1>2. /\ tasks' \in Seq({"transmitted", "received"})
      /\ Len(tasks') = Len(tasks) + 1
      /\ \A i \in 1 .. Len(tasks) : tasks'[i] = tasks[i]
      /\ tasks'[Len(tasks) + 1] = t
  BY <1>1, AppendProperties DEF Post
<1>3. DOMAIN tasks = 1 .. Len(tasks) /\ DOMAIN tasks' = 1 .. Len(tasks')
  BY <1>1, <1>2, LenProperties
<1>4. Len(tasks) + 1 \in DOMAIN tasks'
  BY <1>1, <1>2, <1>3
<1>5. \A i \in DOMAIN tasks : i \in DOMAIN tasks' /\ tasks'[i] = tasks[i]
  BY <1>1, <1>2, <1>3
<1>6. \A i \in DOMAIN tasks' : i \in DOMAIN tasks \/ i = Len(tasks) + 1
  BY <1>1, <1>2, <1>3
<1> QED
  BY <1>1, <1>2, <1>4, <1>5, <1>6 DEF Posted

\* A request joins the queue at its end.
LEMMA QueueGrows ==
    ASSUME TypeOK, NEW r \in Request, queue' = Append(queue, r)
    PROVE  /\ queue' \in Seq(Request) /\ queue' # <<>>
           /\ queue # <<>> => Head(queue') = Head(queue)
           /\ queue = <<>> => Head(queue') = r
<1>1. queue \in Seq(Request)
  BY DEF TypeOK
<1>2. /\ queue' \in Seq(Request) /\ Len(queue') = Len(queue) + 1
      /\ \A i \in 1 .. Len(queue) : queue'[i] = queue[i]
      /\ queue'[Len(queue) + 1] = r
  BY <1>1, AppendProperties
<1>3. Len(queue) \in Nat /\ (queue # <<>> => Len(queue) # 0) /\ Len(<<>>) = 0
  BY <1>1, EmptySeq, LenProperties
<1>4. queue' # <<>>
  BY <1>2, <1>3
<1>5. Head(queue') = queue'[1] /\ Head(queue) = queue[1]
  BY <1>1, <1>2
<1> QED
  BY <1>2, <1>3, <1>4, <1>5

\* Its head is a request, and not nullptr.
LEMMA HeadType ==
    ASSUME TypeOK, queue # <<>>
    PROVE  /\ Head(queue) \in Request /\ Head(queue) # NoRequest
           /\ DeviceOf[Head(queue)] \in Device
           /\ OwnSegment(Head(queue)) \in Segment
           /\ Tail(queue) \in Seq(Request)
<1>1. queue \in Seq(Request)
  BY DEF TypeOK
<1>2. Head(queue) \in Request /\ Tail(queue) \in Seq(Request)
  BY <1>1, HeadTailProperties
<1>3. Head(queue) # NoRequest
  BY <1>2, NullAssumption DEF NullAssumption
<1>4. DeviceOf[Head(queue)] \in Device
  BY <1>2, OwnerAssumption DEF OwnerAssumption
<1>5. OwnSegment(Head(queue)) \in Segment
  BY <1>4, BusAssumption DEF BusAssumption, OwnSegment
<1> QED
  BY <1>2, <1>3, <1>4, <1>5

\* What the first half of completing a request does, ...
LEMMA Completed ==
    ASSUME TypeOK, NEW from, Completes(from)
    PROVE  /\ todo = from /\ todo' = "release" /\ timer' = FALSE
           /\ direction' = [direction EXCEPT ![segment] = "Idle"]
           /\ direction' \in [Segment -> {"Idle", "Outgoing", "Incoming"}]
           /\ UNCHANGED <<queue, parts, request, transmitCompleteRequest, segment,
                          config, savedConfig>>
<1>1. direction' = [direction EXCEPT ![segment] = "Idle"]
  BY DEF Completes, GoIdle, SetDirection
<1>2. direction' \in [Segment -> {"Idle", "Outgoing", "Incoming"}]
  BY <1>1 DEF TypeOK
<1> QED
  BY <1>1, <1>2 DEF Completes, Goes, StopTimer, clientVars

\* ... and the second, which takes it off the queue.
LEMMA Released ==
    ASSUME TypeOK, queue # <<>>, Release
    PROVE  /\ queue' = Tail(queue) /\ queue' \in Seq(Request)
           /\ parts' \in [Request -> 0 .. MaxParts]
           /\ todo = "release" /\ todo' = IF queue' = <<>> THEN "none" ELSE "execute"
           /\ request' = NoRequest
           /\ config' = savedConfig
           /\ UNCHANGED <<transmitCompleteRequest, timer, tasks, listening, segment,
                          direction, savedConfig, sending, replies, received>>
<1>1. Tail(queue) \in Seq(Request) /\ 0 \in 0 .. MaxParts
  BY HeadType, LimitAssumption DEF LimitAssumption
<1>2. parts' \in [Request -> 0 .. MaxParts]
  BY <1>1 DEF Release, TypeOK
<1> QED
  BY <1>1, <1>2 DEF Release, FreePort, ExecuteNext, irqVars, lineVars

-----------------------------------------------------------------------------
(* Who has the port *)

\* The controller's pointer is to the first request of the queue, and is set
\* whenever the tasks are done and the queue is not empty; the transaction
\* timer runs for no other, the port is on its segment, and what the interrupt
\* captured while it is set is the same request.
Ownership ==
    /\ todo # "none" => queue # <<>>
    /\ request # NoRequest =>
           queue # <<>> /\ request = Head(queue) /\ segment = OwnSegment(request)
    /\ timer => request # NoRequest /\ todo # "release"
    /\ todo \in {"timeout", "release"} => request # NoRequest
    /\ AtRest /\ queue # <<>> => request # NoRequest
    /\ todo \in {"send", "again", "response"} => request # NoRequest /\ ~IsDmx(request)
    /\ request # NoRequest => transmitCompleteRequest \in {NoRequest, request}

\* Types and ownership when the controller has been started, ...
LEMMA OwnershipInit == Init => TypeOK /\ Ownership
<1> SUFFICES ASSUME Init PROVE TypeOK /\ Ownership
  OBVIOUS
<1>1. parts \in [Request -> 0 .. MaxParts] /\ MaxTasks \in Nat /\ MaxBytes \in Nat
  BY LimitAssumption DEF Init, LimitAssumption
<1>2. /\ queue \in Seq(Request) /\ tasks \in Seq({"transmitted", "received"})
      /\ received \in Seq(Device \cup {Garbage})
  BY EmptySeq DEF Init
<1>3. Len(tasks) <= MaxTasks /\ Len(received) <= MaxBytes
  BY <1>1, EmptySeq DEF Init
<1>4. direction \in [Segment -> {"Idle", "Outgoing", "Incoming"}]
  BY DEF Init
<1>5. TypeOK
  BY <1>1, <1>2, <1>3, <1>4 DEF Init, TypeOK, Config, Todo
<1> QED
  BY <1>5 DEF Init, Ownership, AtRest

\* ... and after every step.
LEMMA OwnershipStep ==
    ASSUME TypeOK, Ownership, [Next]_vars
    PROVE  TypeOK' /\ Ownership'
<1> USE DEF Ownership
<1>0. /\ MaxParts \in Nat /\ MaxTasks \in Nat /\ MaxBytes \in Nat
      /\ <<>> \in Seq(Device \cup {Garbage}) /\ Len(<<>>) <= MaxBytes
  BY LimitAssumption, EmptySeq DEF LimitAssumption
<1>1. ASSUME NEW r \in Request, Submit(r)
      PROVE  TypeOK' /\ Ownership'
  <2>1. /\ queue' \in Seq(Request) /\ queue' # <<>>
        /\ queue # <<>> => Head(queue') = Head(queue)
    BY <1>1, QueueGrows DEF Submit
  <2>2. parts' \in [Request -> 0 .. MaxParts]
    <3>1. PICK n \in 0 .. (IF IsDmx(r) THEN 0 ELSE MaxParts) :
             parts' = [parts EXCEPT ![r] = n]
      BY <1>1 DEF Submit
    <3>2. n \in 0 .. MaxParts
      BY <1>0
    <3> QED
      BY <3>1, <3>2 DEF TypeOK
  <2>3. /\ todo' = IF queue = <<>> THEN "execute" ELSE todo
        /\ UNCHANGED <<request, transmitCompleteRequest, timer, tasks, listening,
                       segment, direction, config, savedConfig, sending, replies,
                       received>>
        /\ todo = "none"
    BY <1>1 DEF Submit, AtRest, irqVars, portVars, lineVars
  <2>4. TypeOK'
    BY <2>1, <2>2, <2>3 DEF TypeOK, Todo
  <2>5. Ownership'
    BY <2>1, <2>3 DEF AtRest, OwnSegment, IsDmx
  <2> QED
    BY <2>4, <2>5
<1>2. CASE CommandDmx
  <2>1. /\ request' = NoRequest /\ timer' = FALSE /\ config' = savedConfig
        /\ direction' = [direction EXCEPT ![segment] = "Idle"]
        /\ todo' = IF queue = <<>> THEN "none" ELSE "execute"
        /\ UNCHANGED <<queue, parts, transmitCompleteRequest, tasks, listening,
                       segment, savedConfig, sending, replies, received>>
    BY <1>2 DEF CommandDmx, FreePort, StopTimer, GoIdle, SetDirection, clientVars, lineVars
  <2> QED
    BY <2>1 DEF TypeOK, Todo, AtRest
<1>3. CASE Start \/ Stop
  <2>1. /\ queue = <<>> /\ listening' \in BOOLEAN
        /\ request' = NoRequest
        /\ UNCHANGED <<queue, parts, todo, transmitCompleteRequest, timer, tasks,
                       segment, direction, config, savedConfig, sending, replies,
                       received>>
    BY <1>3 DEF Start, Stop, clientVars, irqVars, portVars, lineVars
  <2> QED
    BY <2>1 DEF TypeOK, AtRest
<1>4. CASE AcquireModbus \/ AcquireAgain
  <2> DEFINE r == Head(queue)
  <2>1. r \in Request /\ r # NoRequest /\ OwnSegment(r) \in Segment
    BY <1>4, HeadType DEF AcquireModbus, AcquireAgain, Goes
  <2>2. /\ segment' = OwnSegment(r) /\ request' = r /\ timer' = TRUE
        /\ transmitCompleteRequest' = NoRequest /\ savedConfig' = "default"
        /\ \/ todo = "execute" /\ todo' = "send" /\ ~IsDmx(r)
           \/ todo = "again" /\ todo' = "none"
        /\ UNCHANGED <<queue, parts, tasks, listening, direction, config, sending,
                       replies, received>>
    BY <1>4 DEF AcquireModbus, AcquireAgain, Goes, Acquire, SetSegment, ForgetCaptured,
                StartTimer, GetConfig, clientVars, lineVars
  <2> HIDE DEF r
  <2>3. TypeOK'
    BY <2>1, <2>2 DEF TypeOK, Config, Todo
  <2>4. Ownership'
    BY <2>1, <2>2 DEF r, AtRest, IsDmx, OwnSegment
  <2> QED
    BY <2>3, <2>4
<1>5. CASE SendModbus
  <2>1. /\ config' = "modbus" /\ sending' = request /\ received' = <<>>
        /\ direction' = [direction EXCEPT ![segment] = "Outgoing"]
        /\ todo = "send" /\ todo' = "again"
        /\ UNCHANGED <<queue, parts, request, transmitCompleteRequest, timer, tasks,
                       listening, segment, savedConfig, replies>>
    BY <1>5 DEF SendModbus, Goes, SetDirection, clientVars, irqVars
  <2>2. TypeOK'
    BY <1>0, <2>1 DEF TypeOK, Config, Todo
  <2> QED
    BY <2>1, <2>2 DEF AtRest, IsDmx, OwnSegment
<1>6. ASSUME NEW from \in {"send", "response", "timeout"}, Completes(from),
             UNCHANGED <<tasks, listening, sending, replies>>,
             received' \in {received, <<>>}
      PROVE  TypeOK' /\ Ownership'
  <2>1. TypeOK'
    BY <1>0, <1>6, Completed DEF TypeOK, Todo
  <2> QED
    BY <1>6, <2>1, Completed DEF AtRest, OwnSegment
<1>7. CASE ExecuteDmx
  <2> DEFINE r == Head(queue)
  <2>1. r \in Request /\ r # NoRequest /\ OwnSegment(r) \in Segment
    BY <1>7, HeadType DEF ExecuteDmx, Goes
  <2>2. /\ segment' = OwnSegment(r) /\ request' = r /\ timer' = TRUE
        /\ transmitCompleteRequest' = NoRequest /\ savedConfig' = "default"
        /\ config' = "dmx" /\ sending' = r
        /\ direction' = [direction EXCEPT ![segment] = "Outgoing"]
        /\ todo' = "none" /\ todo = "execute"
        /\ UNCHANGED <<queue, parts, tasks, listening, replies, received>>
    BY <1>7 DEF ExecuteDmx, Goes, Acquire, SetSegment, ForgetCaptured, StartTimer,
                GetConfig, SetDirection, clientVars
  <2> HIDE DEF r
  <2>3. TypeOK'
    BY <2>1, <2>2 DEF TypeOK, Config, Todo
  <2>4. Ownership'
    BY <2>1, <2>2 DEF r, AtRest, OwnSegment
  <2> QED
    BY <2>3, <2>4
<1>8. CASE Transmitted
  <2>1. /\ tasks' \in Seq({"transmitted", "received"}) /\ Len(tasks') <= MaxTasks
        /\ UNCHANGED <<listening, sending, replies, received>>
    BY <1>8, TaskTaken DEF Transmitted, lineVars
  <2>2. CASE transmitCompleteRequest = request /\ IsDmx(request)
    <3>1. Completes("none") /\ request # NoRequest
      BY <1>8, <2>2 DEF Transmitted, IsDmx
    <3> QED
      BY <2>1, <3>1, Completed DEF TypeOK, Todo, AtRest, OwnSegment
  <2>3. CASE ~(transmitCompleteRequest = request /\ IsDmx(request))
    <3>1. UNCHANGED <<queue, parts, todo, request, transmitCompleteRequest, timer,
                      segment, direction, config, savedConfig>>
      BY <1>8, <2>3 DEF Transmitted, clientVars, portVars
    <3> QED
      BY <2>1, <3>1 DEF TypeOK, AtRest, IsDmx, OwnSegment
  <2> QED
    BY <2>2, <2>3
<1>9. CASE ReceiveComplete
  <2>1. /\ tasks' \in Seq({"transmitted", "received"}) /\ Len(tasks') <= MaxTasks
    BY <1>9, TaskTaken DEF ReceiveComplete
  <2>2. /\ transmitCompleteRequest' = NoRequest /\ todo = "none"
        /\ todo' = IF request = NoRequest \/ IsDmx(request) THEN "none" ELSE "response"
        /\ UNCHANGED <<queue, parts, request, timer, listening, segment, direction,
                       config, savedConfig, sending, replies, received>>
    BY <1>9 DEF ReceiveComplete, AtRest, clientVars, portVars, lineVars
  <2>3. TypeOK'
    BY <2>1, <2>2 DEF TypeOK, Todo
  <2> QED
    BY <2>2, <2>3 DEF AtRest, IsDmx, OwnSegment
<1>10. CASE Release
  <2>1. queue # <<>>
    BY <1>10 DEF Release
  <2>2. TypeOK'
    BY <1>10, <2>1, Released DEF TypeOK, Todo, Config
  <2> QED
    BY <1>10, <2>1, <2>2, Released DEF AtRest
<1>11. CASE RefuseModbus \/ ResponseCompletes \/ TimeoutFails
  BY <1>6, <1>11 DEF RefuseModbus, ResponseCompletes, TimeoutFails, lineVars
<1>12. CASE ResponseResubmits
  <2>1. /\ queue # <<>> /\ received' = <<>> /\ todo' = "execute"
        /\ request \in Request /\ parts[request] > 0
        /\ parts' = [parts EXCEPT ![request] = parts[request] - 1]
        /\ UNCHANGED <<queue, request, transmitCompleteRequest, timer, tasks,
                       listening, segment, direction, config, savedConfig, sending,
                       replies>>
    BY <1>12 DEF ResponseResubmits, Goes, NeedsMore, irqVars, portVars, TypeOK
  <2>2. parts[request] - 1 \in 0 .. MaxParts
    BY <1>0, <2>1 DEF TypeOK
  <2>3. parts' \in [Request -> 0 .. MaxParts]
    BY <2>1, <2>2 DEF TypeOK
  <2> QED
    BY <1>0, <2>1, <2>3 DEF TypeOK, Todo, AtRest, OwnSegment
<1>13. CASE Timeout
  <2>1. /\ todo' = "timeout" /\ timer /\ timer' = FALSE
        /\ transmitCompleteRequest' = NoRequest
        /\ UNCHANGED <<queue, parts, request, tasks, listening, segment, direction,
                       config, savedConfig, sending, replies, received>>
    BY <1>13 DEF Timeout, Goes, clientVars, portVars, lineVars
  <2> QED
    BY <2>1 DEF TypeOK, Todo, AtRest, OwnSegment
<1>14. CASE TransmitInterrupt
  <2>1. /\ sending # NoRequest /\ sending' = NoRequest
        /\ replies' \in {replies} \cup
                    (IF IsDmx(sending) THEN {} ELSE {replies \cup {DeviceOf[sending]}})
        /\ UNCHANGED <<queue, parts, todo, request, timer, listening, segment, config,
                       savedConfig>>
    BY <1>14 DEF TransmitInterrupt, clientVars
  <2>2. replies' \subseteq Device
    <3>1. DeviceOf[sending] \in Device
      BY <2>1, OwnerAssumption DEF OwnerAssumption, TypeOK
    <3> QED
      BY <2>1, <3>1 DEF TypeOK
  <2>3. /\ direction' \in [Segment -> {"Idle", "Outgoing", "Incoming"}]
        /\ received' \in Seq(Device \cup {Garbage}) /\ Len(received') <= MaxBytes
    BY <1>0, <1>14 DEF TransmitInterrupt, SetDirection, TypeOK
  <2>4. /\ transmitCompleteRequest' \in Request \cup {NoRequest}
        /\ tasks' \in Seq({"transmitted", "received"}) /\ Len(tasks') <= MaxTasks
    <3>1. CASE UNCHANGED <<transmitCompleteRequest, tasks>>
      BY <3>1 DEF TypeOK
    <3>2. CASE /\ Len(tasks) < MaxTasks /\ transmitCompleteRequest' = request
               /\ Post("transmitted")
      BY <3>2, TaskPosted DEF TypeOK
    <3> QED
      BY <1>14, <3>1, <3>2 DEF TransmitInterrupt
  <2>5. TypeOK'
    BY <2>1, <2>2, <2>3, <2>4 DEF TypeOK
  <2>6. transmitCompleteRequest' \in {transmitCompleteRequest, request}
    BY <1>14 DEF TransmitInterrupt
  <2> QED
    BY <2>1, <2>5, <2>6 DEF AtRest, IsDmx, OwnSegment
<1>15. ASSUME NEW f \in Device \cup {Garbage}, ReceiveInterrupt(f),
              replies' \subseteq Device
       PROVE  TypeOK' /\ Ownership'
  <2>1. /\ received' \in Seq(Device \cup {Garbage})
        /\ Len(received') <= MaxBytes
    <3>1. /\ received \in Seq(Device \cup {Garbage}) /\ Len(received) < MaxBytes
          /\ received' = Append(received, f) /\ Len(received) \in Nat
      BY <1>15, LenProperties DEF ReceiveInterrupt, TypeOK
    <3>2. /\ received' \in Seq(Device \cup {Garbage})
          /\ Len(received') = Len(received) + 1
      BY <3>1, AppendProperties
    <3> QED
      BY <1>0, <3>1, <3>2
  <2>2. /\ timer' \in BOOLEAN /\ (timer' => timer)
        /\ direction' \in [Segment -> {"Idle", "Outgoing", "Incoming"}]
        /\ tasks' \in Seq({"transmitted", "received"}) /\ Len(tasks') <= MaxTasks
    <3>1. CASE listening
      <4>1. Len(tasks) < MaxTasks /\ Post("received")
        BY <1>15, <3>1 DEF ReceiveInterrupt
      <4> QED
        BY <1>15, <3>1, <4>1, TaskPosted DEF ReceiveInterrupt, SetDirection, TypeOK
    <3>2. CASE ~listening
      BY <1>15, <3>2 DEF ReceiveInterrupt, TypeOK
    <3> QED
      BY <3>1, <3>2
  <2>3. UNCHANGED <<queue, parts, todo, request, transmitCompleteRequest, listening,
                    segment, config, savedConfig, sending>>
    BY <1>15 DEF ReceiveInterrupt, clientVars
  <2>4. TypeOK'
    BY <1>15, <2>1, <2>2, <2>3 DEF TypeOK
  <2> QED
    BY <2>2, <2>3, <2>4 DEF AtRest, IsDmx, OwnSegment
<1>16. CASE Reply
  <2>1. PICK d \in replies :
           /\ ReceiveInterrupt(IF config = "modbus" THEN d ELSE Garbage)
           /\ replies' = replies \ {d}
    BY <1>16 DEF Reply
  <2> QED
    BY <1>15, <2>1 DEF TypeOK
<1>17. CASE NoiseArrives
  BY <1>15, <1>17 DEF NoiseArrives, TypeOK
<1>18. CASE UNCHANGED vars
  BY <1>18 DEF vars, clientVars, irqVars, portVars, lineVars, TypeOK, AtRest, IsDmx,
               OwnSegment
<1> QED
  BY <1>1, <1>2, <1>3, <1>4, <1>5, <1>7, <1>8, <1>9, <1>10, <1>11, <1>12, <1>13,
     <1>14, <1>16, <1>17, <1>18
     DEF Next, Application, Continue, Execute, Task

-----------------------------------------------------------------------------
(* The UART and the drivers *)

\* What the UART is restored to is what it was opened with.
Restored ==
    /\ savedConfig \in {"none", "default"}
    /\ request # NoRequest => savedConfig = "default"
    /\ IdleUart

\* The driver receives once the frame is out, until bytes arrive: these stop
\* the timer, or find Modbus::Device about to start it a second time.
Receiving ==
    todo \in {"none", "again"} /\ request # NoRequest /\ listening /\ sending = NoRequest =>
        \/ direction[segment] = "Incoming"
        \/ Posted("received") /\ ~IsDmx(request)
        \/ ~timer /\ AtRest

\* Every step does one of these to the configuration of the UART.
LEMMA UartSteps ==
    ASSUME TypeOK, Ownership, [Next]_vars
    PROVE  \/ UNCHANGED <<request, config, savedConfig>>
           \/ request # NoRequest /\ UNCHANGED <<request, savedConfig>>
           \/ request' # NoRequest /\ savedConfig' = "default"
           \/ /\ request' = NoRequest /\ config' = savedConfig
              /\ savedConfig' = savedConfig
<1>1. CASE Application
  BY <1>1 DEF Application, Submit, CommandDmx, Start, Stop, FreePort, portVars,
              Ownership, AtRest
<1>2. CASE AcquireModbus \/ AcquireAgain \/ ExecuteDmx
  <2>1. queue # <<>>
    BY <1>2 DEF AcquireModbus, AcquireAgain, ExecuteDmx, Goes, Ownership
  <2>2. Head(queue) # NoRequest
    BY <2>1, HeadType
  <2> QED
    BY <1>2, <2>2 DEF AcquireModbus, AcquireAgain, ExecuteDmx, Acquire, GetConfig
<1>3. CASE SendModbus
  BY <1>3 DEF SendModbus, Goes, Ownership
<1>4. CASE RefuseModbus \/ ResponseCompletes \/ TimeoutFails
  BY <1>4, Completed DEF RefuseModbus, ResponseCompletes, TimeoutFails
<1>5. CASE Release
  BY <1>5 DEF Release, FreePort
<1>6. CASE Transmitted
  BY <1>6, Completed DEF Transmitted, portVars
<1>7. CASE ReceiveComplete \/ ResponseResubmits \/ Timeout
  BY <1>7 DEF ReceiveComplete, ResponseResubmits, Timeout, portVars
<1>8. CASE TransmitInterrupt \/ Reply \/ NoiseArrives
  BY <1>8 DEF TransmitInterrupt, Reply, NoiseArrives, ReceiveInterrupt
<1>9. CASE UNCHANGED vars
  BY <1>9 DEF vars, portVars
<1> QED
  BY <1>1, <1>2, <1>3, <1>4, <1>5, <1>6, <1>7, <1>8, <1>9
     DEF Next, Continue, Execute, Task

\* The configuration is restored whenever the port is released.
LEMMA RestoredStep ==
    ASSUME TypeOK, Ownership, Restored, [Next]_vars
    PROVE  Restored'
BY UartSteps DEF Restored, IdleUart

\* Every step keeps the driver receiving while an answer may come.
LEMMA ReceivingStep ==
    ASSUME TypeOK, Ownership, Receiving, [Next]_vars
    PROVE  Receiving'
<1> USE DEF Receiving
<1>0. TypeOK' /\ Ownership'
  BY OwnershipStep
<1>1. ASSUME NEW r \in Request, Submit(r)
      PROVE  Receiving'
  BY <1>1 DEF Submit, AtRest, irqVars, portVars, lineVars, Ownership, Posted, IsDmx
<1>2. CASE CommandDmx \/ Release
  BY <1>2 DEF CommandDmx, Release, FreePort
<1>3. CASE Start \/ Stop
  BY <1>3 DEF Start, Stop, Ownership, AtRest
<1>4. CASE SendModbus \/ ExecuteDmx
  <2>1. sending' # NoRequest
    BY <1>4, HeadType DEF SendModbus, ExecuteDmx, Goes, Ownership
  <2> QED
    BY <2>1
<1>5. CASE todo' \notin {"none", "again"}
  BY <1>5
<1>6. CASE AcquireAgain
  BY <1>6 DEF AcquireAgain, Goes, Acquire, SetSegment, Ownership, Posted, IsDmx, AtRest,
              OwnSegment, lineVars
<1>7. CASE Transmitted
  <2>1. CASE Completes("none")
    BY <2>1 DEF Completes, Goes
  <2>2. CASE UNCHANGED <<clientVars, todo, request, transmitCompleteRequest, timer,
                         portVars>>
    <3>1. Posted("received") => Posted("received")'
      BY <1>7, TaskTaken DEF Transmitted
    <3> QED
      BY <1>7, <2>2, <3>1 DEF Transmitted, lineVars, portVars, AtRest, IsDmx
  <2> QED
    BY <1>7, <2>1, <2>2 DEF Transmitted
<1>8. CASE ReceiveComplete
  BY <1>8 DEF ReceiveComplete, lineVars, portVars, AtRest, IsDmx
<1>9. CASE \/ AcquireModbus \/ RefuseModbus \/ ResponseCompletes \/ ResponseResubmits
           \/ Timeout \/ TimeoutFails
  BY <1>5, <1>9 DEF AcquireModbus, RefuseModbus, ResponseCompletes, ResponseResubmits,
                    Timeout, TimeoutFails, Completes, Goes
<1>10. CASE TransmitInterrupt
  BY <1>10 DEF TransmitInterrupt, SetDirection, TypeOK
<1>11. ASSUME NEW f, ReceiveInterrupt(f)
       PROVE  Receiving'
  <2>1. CASE listening
    <3>1. Posted("received")' /\ timer' = FALSE
      BY <1>11, <2>1, TaskPosted DEF ReceiveInterrupt
    <3> QED
      BY <1>0, <3>1 DEF Ownership, AtRest
  <2>2. CASE ~listening
    BY <1>11, <2>2 DEF ReceiveInterrupt
  <2> QED
    BY <2>1, <2>2
<1>12. CASE Reply \/ NoiseArrives
  BY <1>11, <1>12 DEF Reply, NoiseArrives
<1>13. CASE UNCHANGED vars
  BY <1>13 DEF vars, irqVars, portVars, lineVars, Posted, IsDmx, AtRest
<1> QED
  BY <1>1, <1>2, <1>3, <1>4, <1>6, <1>7, <1>8, <1>9, <1>10, <1>12, <1>13
     DEF Next, Application, Continue, Execute, Task

-----------------------------------------------------------------------------
(* What holds on every bus *)

Bus == TypeOK /\ Ownership /\ Restored /\ Receiving

\* The invariant of the theorems below.
LEMMA BusInvariant == Spec => []Bus
<1>1. Init => Bus
  BY OwnershipInit DEF Bus, Init, Restored, IdleUart, Receiving
<1>2. Bus /\ [Next]_vars => Bus'
  BY OwnershipStep, RestoredStep, ReceivingStep DEF Bus
<1> QED
  BY <1>1, <1>2, PTL DEF Spec

\* Every variable keeps its type; the queues of callbacks and of bytes stay
\* within their bounds.
THEOREM TypeCorrect == Spec => []TypeOK
<1>1. Bus => TypeOK
  BY DEF Bus
<1> QED
  BY <1>1, BusInvariant, PTL

\* Controller.cpp 116 and 123: however requests, commands and interrupts
\* interleave, between requests the UART is set as the application opened it.
THEOREM UartRestored == Spec => []IdleUart
<1>1. Bus => IdleUart
  BY DEF Bus, Restored
<1> QED
  BY <1>1, BusInvariant, PTL

\* Controller.h 69-72: with its frame out, and until something is received or
\* the timer expires, a request has its own segment's driver receiving.
THEOREM AnswerHeard == Spec => []Listening
<1>1. Bus => Listening
  BY DEF Bus, Receiving, Ownership, Listening, AtRest
<1> QED
  BY <1>1, BusInvariant, PTL

-----------------------------------------------------------------------------
(* The drivers *)

\* Only the driver of the port's segment transmits, and only for a request that
\* is not about to release it.
OneDriver == \A s \in Segment :
    direction[s] = "Outgoing" =>
        request # NoRequest /\ todo # "release" /\ s = segment

\* No DMX512 device shares a bus of several segments: one sends its frame on
\* the segment the port happens to be on (DMX512/Device.cpp 191-221).
Unshared == Dmx = {} \/ \A s, t \in Segment : s = t

\* Every step keeps it, unless DMX512 devices are on more than one segment.
LEMMA OneDriverStep ==
    ASSUME TypeOK, Ownership, OneDriver, Unshared, [Next]_vars
    PROVE  OneDriver'
<1> USE DEF OneDriver
<1>0. segment \in Segment /\ segment' \in Segment
  BY OwnershipStep DEF TypeOK
<1>1. CASE /\ UNCHANGED segment
           /\ \/ direction' = [direction EXCEPT ![segment] = "Idle"]
              \/ direction' = [direction EXCEPT ![segment] = "Incoming"]
  BY <1>1 DEF TypeOK
<1>2. CASE UNCHANGED <<request, segment, direction>> /\ todo' # "release"
  BY <1>2
<1>3. CASE CommandDmx
  BY <1>1, <1>3 DEF CommandDmx, GoIdle, SetDirection
<1>4. CASE Start \/ Stop
  BY <1>4 DEF Start, Stop, portVars, Ownership, AtRest
<1>5. CASE AcquireModbus \/ AcquireAgain
  <2>1. /\ request' # NoRequest /\ todo' # "release" /\ UNCHANGED direction
        /\ segment' = OwnSegment(Head(queue))
        /\ request # NoRequest => segment' = segment
    BY <1>5, HeadType
       DEF AcquireModbus, AcquireAgain, Goes, Acquire, SetSegment, Ownership
  <2> QED
    BY <2>1
<1>6. CASE SendModbus
  <2>1. /\ request' # NoRequest /\ todo' # "release" /\ UNCHANGED <<request, segment>>
        /\ direction' = [direction EXCEPT ![segment] = "Outgoing"]
    BY <1>6 DEF SendModbus, Goes, SetDirection, Ownership
  <2> QED
    BY <2>1 DEF TypeOK
<1>7. CASE ExecuteDmx
  <2>1. queue # <<>> /\ request' = Head(queue) /\ Dmx # {} /\ todo' # "release"
    BY <1>7 DEF ExecuteDmx, Goes, Acquire, Ownership, IsDmx
  <2>2. request' # NoRequest /\ \A s, t \in Segment : s = t
    BY <2>1, HeadType DEF Unshared
  <2> QED
    BY <1>0, <2>1, <2>2
<1>8. CASE RefuseModbus \/ ResponseCompletes \/ TimeoutFails
  BY <1>1, <1>8, Completed DEF RefuseModbus, ResponseCompletes, TimeoutFails
<1>9. CASE Release
  <2>1. todo = "release" /\ UNCHANGED direction
    BY <1>9 DEF Release
  <2> QED
    BY <2>1
<1>10. CASE Transmitted
  <2>1. CASE Completes("none")
    BY <1>1, <2>1, Completed
  <2>2. CASE UNCHANGED <<todo, request, portVars>>
    BY <1>10, <2>2 DEF Transmitted, AtRest, portVars
  <2> QED
    BY <1>10, <2>1, <2>2 DEF Transmitted
<1>11. CASE TransmitInterrupt \/ Reply \/ NoiseArrives
  <2>1. /\ UNCHANGED <<todo, request, segment>>
        /\ \/ UNCHANGED direction
           \/ direction' = [direction EXCEPT ![segment] = "Idle"]
           \/ direction' = [direction EXCEPT ![segment] = "Incoming"]
    BY <1>11 DEF TransmitInterrupt, Reply, NoiseArrives, ReceiveInterrupt, SetDirection
  <2> QED
    BY <1>1, <2>1
<1>12. CASE (\E r \in Request : Submit(r)) \/ ReceiveComplete \/ ResponseResubmits
            \/ Timeout
  BY <1>2, <1>12 DEF Submit, AtRest, ReceiveComplete, ResponseResubmits, Timeout, Goes,
                     portVars
<1>13. CASE UNCHANGED vars
  BY <1>13 DEF vars, portVars
<1> QED
  BY <1>3, <1>4, <1>5, <1>6, <1>7, <1>8, <1>9, <1>10, <1>11, <1>12, <1>13
     DEF Next, Application, Continue, Execute, Task

\* Controller.h 72: with no request in progress no driver transmits.  It holds
\* for buses of any number of segments with Modbus devices, and for buses of
\* one segment whatever its devices.
THEOREM DriversReleased ==
    ASSUME Unshared
    PROVE  Spec => []PortReleased
<1>1. Init => OneDriver
  BY DEF Init, OneDriver
<1>2. Bus /\ OneDriver /\ [Next]_vars => OneDriver'
  BY OneDriverStep DEF Bus
<1>3. OneDriver => PortReleased
  BY DEF OneDriver, PortReleased
<1> QED
  BY <1>1, <1>2, <1>3, BusInvariant, PTL DEF Spec

-----------------------------------------------------------------------------
(* The bus is a line of requests *)

\* Every step moves the line by one of its actions, or not at all.
LEMMA LineStep ==
    ASSUME TypeOK, Ownership, [Next]_vars
    PROVE  [Line!Next]_(Line!vars)
<1> USE DEF Line!vars
<1>1. ASSUME NEW r \in Request, Submit(r)
      PROVE  Line!Next
  <2>1. \A i \in DOMAIN queue : queue[i] # r
    BY <1>1 DEF Submit, Queued
  <2> QED
    BY <1>1, <2>1 DEF Submit, Line!Next, Line!Enter
<1>2. CASE UNCHANGED <<queue, request>>
  BY <1>2
<1>3. CASE queue' = queue /\ request' = NoRequest
  BY <1>3 DEF Line!Next, Line!Retry
<1>4. CASE queue' = queue /\ queue # <<>> /\ request' = Head(queue)
  BY <1>4, HeadType DEF Line!Next, Line!Serve
<1>5. CASE queue' = Tail(queue) /\ queue # <<>> /\ request' = NoRequest
  BY <1>5 DEF Line!Next, Line!Leave
<1>6. CASE CommandDmx \/ Start
  BY <1>3, <1>6 DEF CommandDmx, Start, FreePort, clientVars
<1>7. CASE AcquireModbus \/ AcquireAgain \/ ExecuteDmx
  BY <1>4, <1>7 DEF AcquireModbus, AcquireAgain, ExecuteDmx, Goes, Acquire, Ownership,
                    clientVars
<1>8. CASE SendModbus \/ RefuseModbus \/ ResponseCompletes \/ TimeoutFails
  BY <1>2, <1>8, Completed DEF SendModbus, RefuseModbus, ResponseCompletes, TimeoutFails,
                               clientVars
<1>9. CASE Release
  BY <1>5, <1>9 DEF Release, FreePort, Ownership
<1>10. CASE Transmitted
  BY <1>2, <1>10, Completed DEF Transmitted, clientVars
<1>11. CASE \/ Stop \/ ReceiveComplete \/ ResponseResubmits \/ Timeout
            \/ TransmitInterrupt \/ Reply \/ NoiseArrives \/ UNCHANGED vars
  BY <1>2, <1>11 DEF Stop, ReceiveComplete, ResponseResubmits, Timeout,
                     TransmitInterrupt, Reply, NoiseArrives, ReceiveInterrupt,
                     clientVars, vars
<1> QED
  BY <1>1, <1>6, <1>7, <1>8, <1>9, <1>10, <1>11
     DEF Next, Application, Continue, Execute, Task

\* README.rst, "The controller serialises requests": the safety part of
\* Serialises, on any bus and whatever arrives late or unasked.  Requests are
\* served in the order of submit(), one at a time, and each leaves once.
THEOREM Serialised == Spec => Line!Init /\ [][Line!Next]_(Line!vars)
<1>1. Init => Line!Init
  BY DEF Init, Line!Init
<1>2. Bus /\ [Next]_vars => [Line!Next]_(Line!vars)
  BY LineStep DEF Bus
<1> QED
  BY <1>1, <1>2, BusInvariant, PTL DEF Spec

-----------------------------------------------------------------------------
(* Pointers to requests, and the timer *)

\* Controller.cpp 64-152: whatever comes late, twice or unasked, and whatever the
\* devices on the bus, the timer and the queued callbacks refer to the request
\* that has the port while there is one.
THEOREM NoStalePointer == Spec => []PointersLive
<1>1. Bus => PointersLive
  BY DEF Bus, Ownership, PointersLive, AtRest
<1> QED
  BY <1>1, BusInvariant, PTL

\* No callback but its own waits while a DMX512 update has the port: it would
\* take away the pointer its end needs.
Separate == AtRest /\ IsDmx(request) => tasks \in {<<>>, <<"transmitted">>}

\* A request stays watched wherever that is so.
LEMMA WatchedStep ==
    ASSUME TypeOK, Ownership, Watched, Separate, [Next]_vars
    PROVE  Watched'
<1> USE DEF Watched, WillEnd
<1>1. CASE todo' # "none"
  BY <1>1 DEF AtRest
<1>2. CASE request' = NoRequest
  BY <1>2
<1>3. ASSUME NEW r \in Request, Submit(r)
      PROVE  Watched'
  BY <1>3 DEF Submit, AtRest, irqVars, Posted, IsDmx
<1>4. CASE CommandDmx \/ Release \/ Start
  BY <1>2, <1>4 DEF CommandDmx, Release, FreePort, Start
<1>5. CASE Stop
  BY <1>2, <1>5 DEF Stop, Ownership, AtRest
<1>6. CASE AcquireModbus \/ AcquireAgain \/ ExecuteDmx
  BY <1>6 DEF AcquireModbus, AcquireAgain, ExecuteDmx, Acquire, StartTimer
<1>7. CASE \/ SendModbus \/ RefuseModbus \/ ResponseCompletes \/ ResponseResubmits
           \/ Timeout \/ TimeoutFails
  BY <1>1, <1>7 DEF SendModbus, RefuseModbus, ResponseCompletes, ResponseResubmits,
                    Timeout, TimeoutFails, Completes, Goes
<1>8. CASE Transmitted
  <2>1. CASE transmitCompleteRequest = request /\ IsDmx(request)
    BY <1>1, <1>8, <2>1 DEF Transmitted, Completes, Goes
  <2>2. CASE ~(transmitCompleteRequest = request /\ IsDmx(request))
    <3>1. UNCHANGED <<todo, request, timer>>
      BY <1>8, <2>2 DEF Transmitted
    <3>2. Posted("received") => Posted("received")'
      BY <1>8, TaskTaken DEF Transmitted
    <3> QED
      BY <2>2, <3>1, <3>2 DEF AtRest
  <2> QED
    BY <2>1, <2>2
<1>9. CASE ReceiveComplete
  <2>1. /\ AtRest /\ tasks # <<>> /\ Head(tasks) = "received"
        /\ todo' = IF request = NoRequest \/ IsDmx(request) THEN "none" ELSE "response"
        /\ request' = request
    BY <1>9 DEF ReceiveComplete
  <2>2. ~IsDmx(request)
    BY <2>1, Callbacks DEF Separate
  <2> QED
    BY <1>1, <1>2, <2>1, <2>2
<1>10. CASE TransmitInterrupt
  <2>1. UNCHANGED <<todo, request, timer>>
    BY <1>10 DEF TransmitInterrupt
  <2>2. CASE UNCHANGED <<transmitCompleteRequest, tasks>>
    BY <2>1, <2>2 DEF AtRest, Posted, IsDmx
  <2>3. CASE /\ request # NoRequest /\ transmitCompleteRequest = NoRequest
             /\ Len(tasks) < MaxTasks
             /\ transmitCompleteRequest' = request /\ Post("transmitted")
    BY <2>1, <2>3, TaskPosted DEF AtRest
  <2> QED
    BY <1>10, <2>2, <2>3 DEF TransmitInterrupt
<1>11. ASSUME NEW f, ReceiveInterrupt(f)
       PROVE  Watched'
  <2>1. UNCHANGED <<todo, request, transmitCompleteRequest>>
    BY <1>11 DEF ReceiveInterrupt
  <2>2. CASE listening
    <3>1. Len(tasks) < MaxTasks /\ Post("received")
      BY <1>11, <2>2 DEF ReceiveInterrupt
    <3> QED
      BY <2>1, <3>1, TaskPosted DEF AtRest
  <2>3. CASE ~listening
    BY <1>11, <2>1, <2>3 DEF ReceiveInterrupt, AtRest, Posted, IsDmx
  <2> QED
    BY <2>2, <2>3
<1>12. CASE Reply \/ NoiseArrives
  BY <1>11, <1>12 DEF Reply, NoiseArrives
<1>13. CASE UNCHANGED vars
  BY <1>13 DEF vars, irqVars, AtRest, Posted, IsDmx
<1> QED
  BY <1>3, <1>4, <1>5, <1>6, <1>7, <1>8, <1>9, <1>10, <1>12, <1>13
     DEF Next, Application, Continue, Execute, Task

-----------------------------------------------------------------------------
(* One exchange at a time *)

\* Nothing is under way on the bus.
Quiet == sending = NoRequest /\ replies = {} /\ tasks = <<>>

\* What may be under way for the request that has the port: its frame, then the
\* callback that it is out and an answer, then the callback of the answer.
Exchange ==
    \/ sending = request /\ replies = {} /\ tasks = <<>>
    \/ /\ sending = NoRequest
       /\ replies \subseteq (IF IsDmx(request) THEN {} ELSE {DeviceOf[request]})
       /\ tasks \in {<<>>, <<"transmitted">>}
    \/ /\ sending = NoRequest /\ replies = {} /\ ~IsDmx(request)
       /\ tasks \in {<<"received">>, <<"transmitted", "received">>}

\* Nothing outlasts its request, and nothing but an exchange comes while the tasks
\* wait for it.
OneExchange ==
    IF request # NoRequest /\ todo \in {"none", "again"} THEN Exchange ELSE Quiet

\* Every answer comes in time, nothing else arrives, and DMX512 commands are
\* not sent during a request.
Orderly == Timely /\ ~Noise /\ ~MidTransfer

\* On an orderly bus every step keeps that.
LEMMA ExchangeStep ==
    ASSUME TypeOK, Ownership, OneExchange, Orderly, [Next]_vars
    PROVE  OneExchange'
<1> USE DEF OneExchange
<1>1. CASE /\ Quiet /\ UNCHANGED <<sending, replies, tasks>>
           /\ request' = NoRequest \/ todo' \notin {"none", "again"}
  BY <1>1 DEF Quiet
<1>2. CASE UNCHANGED <<request, todo, sending, replies, tasks>>
  BY <1>2 DEF Quiet, Exchange, IsDmx
<1>3. CASE Application
  <2>1. UNCHANGED <<sending, replies, tasks>>
    BY <1>3 DEF Application, Submit, CommandDmx, Start, Stop, irqVars, lineVars
  <2>2. CASE \E r \in Request : Submit(r)
    <3>1. /\ request' = request /\ todo = "none"
          /\ IF queue = <<>> THEN todo' = "execute" ELSE todo' = todo
      BY <2>2 DEF Submit, AtRest
    <3>2. queue = <<>> => Quiet
      BY DEF Ownership
    <3> QED
      BY <1>1, <1>2, <2>1, <3>1, <3>2
  <2>3. CASE CommandDmx \/ Start \/ Stop
    <3>1. queue = <<>> /\ (request' = NoRequest \/ request' = request)
      BY <2>3 DEF CommandDmx, Start, Stop, FreePort, Orderly
    <3>2. Quiet /\ request' = NoRequest
      BY <3>1 DEF Ownership
    <3> QED
      BY <1>1, <2>1, <3>2
  <2> QED
    BY <1>3, <2>2, <2>3 DEF Application
<1>4. CASE AcquireModbus \/ RefuseModbus \/ ResponseCompletes \/ ResponseResubmits
           \/ TimeoutFails
  <2>1. /\ todo \notin {"none", "again"} /\ todo' \notin {"none", "again"}
        /\ UNCHANGED <<sending, replies, tasks>>
    BY <1>4 DEF AcquireModbus, RefuseModbus, ResponseCompletes, ResponseResubmits,
                TimeoutFails, Completes, Goes, irqVars, lineVars
  <2> QED
    BY <1>1, <2>1
<1>5. CASE SendModbus \/ ExecuteDmx
  <2>1. /\ Quiet /\ todo' \in {"none", "again"}
        /\ sending' = request' /\ UNCHANGED <<replies, tasks>>
    BY <1>5 DEF SendModbus, ExecuteDmx, Goes, Acquire, irqVars
  <2>2. request' # NoRequest
    BY <1>5, HeadType DEF SendModbus, ExecuteDmx, Goes, Acquire, Ownership
  <2> QED
    BY <2>1, <2>2 DEF Exchange, Quiet
<1>6. CASE AcquireAgain
  <2>1. /\ todo = "again" /\ todo' = "none" /\ request' = request
        /\ request # NoRequest /\ UNCHANGED <<sending, replies, tasks>>
    BY <1>6 DEF AcquireAgain, Goes, Acquire, Ownership, lineVars
  <2> QED
    BY <2>1 DEF Exchange, IsDmx
<1>7. CASE Release
  <2>1. Quiet /\ UNCHANGED <<sending, replies, tasks>> /\ request' = NoRequest
    BY <1>7 DEF Release, FreePort, irqVars, lineVars
  <2> QED
    BY <1>1, <2>1
<1>8. CASE Transmitted
  <2>1. /\ todo = "none" /\ tasks # <<>> /\ Head(tasks) = "transmitted"
        /\ tasks' = Tail(tasks) /\ UNCHANGED <<sending, replies>>
    BY <1>8 DEF Transmitted, AtRest, lineVars
  <2>2. request # NoRequest /\ Exchange
    BY <2>1 DEF Quiet
  <2>3. CASE transmitCompleteRequest = request /\ IsDmx(request)
    <3>1. tasks = <<"transmitted">> /\ replies = {} /\ sending = NoRequest
      BY <2>1, <2>2, <2>3 DEF Exchange
    <3>2. todo' = "release"
      BY <1>8, <2>3 DEF Transmitted, Completes, Goes
    <3> QED
      BY <2>1, <3>1, <3>2, Callbacks DEF Quiet
  <2>4. CASE ~(transmitCompleteRequest = request /\ IsDmx(request))
    <3>1. UNCHANGED <<todo, request>>
      BY <1>8, <2>4 DEF Transmitted
    <3>2. sending = NoRequest /\ sending' = NoRequest
      BY <2>1, <2>2, Callbacks DEF Exchange
    <3>3. CASE tasks = <<"transmitted">>
      <4>1. tasks' = <<>>
        BY <2>1, <3>3, Callbacks
      <4>2. replies \subseteq (IF IsDmx(request) THEN {} ELSE {DeviceOf[request]})
        BY <2>2, <3>3, Callbacks DEF Exchange
      <4>3. Exchange'
        BY <2>1, <3>1, <3>2, <4>1, <4>2 DEF Exchange, IsDmx
      <4> QED
        BY <2>1, <2>2, <3>1, <4>3
    <3>4. CASE tasks = <<"transmitted", "received">>
      <4>1. tasks' = <<"received">>
        BY <2>1, <3>4, Callbacks
      <4>2. replies = {} /\ ~IsDmx(request)
        BY <2>2, <3>4 DEF Exchange
      <4>3. Exchange'
        BY <2>1, <3>1, <3>2, <4>1, <4>2 DEF Exchange, IsDmx
      <4> QED
        BY <2>1, <2>2, <3>1, <4>3
    <3> QED
      BY <2>1, <2>2, <3>3, <3>4, Callbacks DEF Exchange
  <2> QED
    BY <2>3, <2>4
<1>9. CASE ReceiveComplete
  <2>1. /\ todo = "none" /\ tasks # <<>> /\ Head(tasks) = "received"
        /\ tasks' = Tail(tasks) /\ UNCHANGED <<sending, replies>>
        /\ todo' = IF request = NoRequest \/ IsDmx(request) THEN "none" ELSE "response"
    BY <1>9 DEF ReceiveComplete, AtRest, lineVars
  <2>2. request # NoRequest /\ Exchange
    BY <2>1 DEF Quiet
  <2>3. tasks = <<"received">> /\ sending = NoRequest /\ replies = {} /\ ~IsDmx(request)
    BY <2>1, <2>2, Callbacks DEF Exchange
  <2>4. tasks' = <<>> /\ todo' = "response"
    BY <2>1, <2>2, <2>3, Callbacks
  <2> QED
    BY <2>1, <2>3, <2>4 DEF Quiet
<1>10. CASE Timeout
  <2>1. /\ Quiet /\ UNCHANGED <<sending, replies, tasks>> /\ todo' = "timeout"
    BY <1>10 DEF Timeout, Goes, Orderly, Quiet, lineVars
  <2> QED
    BY <1>1, <2>1
<1>11. CASE TransmitInterrupt
  <2>1. /\ sending # NoRequest /\ sending' = NoRequest
        /\ UNCHANGED <<todo, request>>
        /\ replies' \in {replies} \cup
                    (IF IsDmx(sending) THEN {} ELSE {replies \cup {DeviceOf[sending]}})
        /\ UNCHANGED tasks \/ Post("transmitted")
    BY <1>11 DEF TransmitInterrupt
  <2>2. /\ todo \in {"none", "again"} /\ request # NoRequest
        /\ sending = request /\ replies = {} /\ tasks = <<>>
    BY <2>1 DEF Quiet, Exchange
  <2>3. replies' \subseteq (IF IsDmx(request) THEN {} ELSE {DeviceOf[request]})
    BY <2>1, <2>2
  <2>4. tasks' \in {<<>>, <<"transmitted">>}
    BY <2>1, <2>2, Callbacks DEF Post
  <2>5. Exchange'
    BY <2>1, <2>3, <2>4 DEF Exchange, IsDmx
  <2> QED
    BY <2>1, <2>2, <2>5
<1>12. CASE Reply \/ NoiseArrives
  <2>1. PICK d \in replies : ReceiveInterrupt(IF config = "modbus" THEN d ELSE Garbage)
                             /\ replies' = replies \ {d}
    BY <1>12 DEF Reply, NoiseArrives, Orderly
  <2>2. /\ UNCHANGED <<todo, request, sending>>
        /\ UNCHANGED tasks \/ Post("received")
    BY <2>1 DEF ReceiveInterrupt
  <2>3. /\ todo \in {"none", "again"} /\ request # NoRequest /\ sending = NoRequest
        /\ ~IsDmx(request) /\ replies = {d} /\ tasks \in {<<>>, <<"transmitted">>}
    BY <2>1 DEF Quiet, Exchange
  <2>4. replies' = {}
    BY <2>1, <2>3
  <2>5. tasks' \in {<<>>, <<"transmitted">>, <<"received">>, <<"transmitted", "received">>}
    BY <2>2, <2>3, Callbacks DEF Post
  <2>6. Exchange'
    BY <2>2, <2>3, <2>4, <2>5 DEF Exchange, IsDmx
  <2> QED
    BY <2>2, <2>3, <2>6
<1>13. CASE UNCHANGED vars
  BY <1>2, <1>13 DEF vars, irqVars, lineVars
<1> QED
  BY <1>3, <1>4, <1>5, <1>6, <1>7, <1>8, <1>9, <1>10, <1>11, <1>12, <1>13
     DEF Next, Continue, Execute, Task

\* An orderly bus has one exchange at a time.
LEMMA ExchangeInvariant ==
    ASSUME Orderly
    PROVE  Spec => [](Bus /\ OneExchange)
<1>1. Init => OneExchange
  BY DEF Init, OneExchange, Quiet
<1>2. Bus /\ OneExchange /\ [Next]_vars => OneExchange'
  BY ExchangeStep DEF Bus
<1> QED
  BY <1>1, <1>2, BusInvariant, PTL DEF Spec

\* Controller.cpp 74: no queued callback gets a request that is gone, if every
\* frame is out before its request ends.
THEOREM NothingCapturedLate ==
    ASSUME Orderly
    PROVE  Spec => []CapturedLive
<1>1. Bus /\ OneExchange => CapturedLive
  <2> SUFFICES ASSUME Bus, OneExchange, AtRest, Posted("transmitted")
               PROVE  transmitCompleteRequest \in {NoRequest, request}
    BY DEF CapturedLive
  <2>1. tasks # <<>>
    BY EmptySeq DEF Posted
  <2>2. request # NoRequest
    BY <2>1 DEF OneExchange, Quiet
  <2> QED
    BY <2>2 DEF Bus, Ownership
<1> QED
  BY <1>1, ExchangeInvariant, PTL

\* Controller.cpp 104-115: a request that has the port is watched, so that the
\* bus cannot be blocked by it: on a Modbus bus whatever comes late, twice or
\* unasked, and on one with DMX512 devices if it is orderly.
THEOREM AlwaysWatched ==
    ASSUME Dmx = {} \/ Orderly
    PROVE  Spec => []Watched
<1>1. Init => Watched
  BY DEF Init, Watched
<1>2. CASE Dmx = {}
  <2>1. Bus /\ Watched /\ [Next]_vars => Watched'
    BY <1>2, WatchedStep DEF Bus, Separate, IsDmx
  <2> QED
    BY <1>1, <2>1, BusInvariant, PTL DEF Spec
<1>3. CASE Orderly
  <2>1. OneExchange => Separate
    BY DEF Separate, OneExchange, Exchange, AtRest, IsDmx
  <2>2. Bus /\ OneExchange /\ Watched /\ [Next]_vars => Watched'
    BY <2>1, WatchedStep DEF Bus
  <2> QED
    BY <1>1, <1>3, <2>2, ExchangeInvariant, PTL DEF Spec
<1> QED
  BY <1>2, <1>3

=============================================================================
