----------------------------- MODULE R421A_proofs -----------------------------
(***************************************************************************)
(* Proofs about the R421A relay board: for boards and configurations of any*)
(* number of channels, and every bound.                                    *)
(***************************************************************************)
EXTENDS R421A, SequenceTheorems, WellFoundedInduction, TLAPS

-----------------------------------------------------------------------------
(* Frames and answers *)

\* The loop of fillRequestData() finds a channel if one is selected.
LEMMA FirstSelected ==
    ASSUME NEW S, S \subseteq Channel, S # {}
    PROVE  \E c \in S : FirstOf(S) = {c}
<1>1. S \subseteq Nat
  BY ChannelAssumption DEF ChannelAssumption
<1>2. \E c \in S : \A d \in S : ~(<<d, c>> \in OpToRel(<, Nat))
  BY <1>1, NatLessThanWellFounded, WFMin
<1>3. PICK c \in S : \A d \in S : ~(<<d, c>> \in OpToRel(<, Nat))
  BY <1>2
<1>4. \A d \in S : ~(d < c)
  BY <1>1, <1>3, Zenon DEF OpToRel
<1>5. \A d \in S : c <= d
  BY <1>1, <1>4, SMT
<1>6. \E x \in S : \A d \in S : x <= d
  BY <1>5
<1> QED
  BY <1>6 DEF FirstOf

\* A request has something to do.
HasWork(r) == r.command # "query" => r.todo # {}

\* The frame of a request, ...
LEMMA FrameOf ==
    ASSUME NEW r \in Request, HasWork(r)
    PROVE  /\ FillRequestData(r) \in Frame /\ FillRequestData(r) # NoFrame
           /\ FillRequestData(r).command = r.command
           /\ r.command = "query" => FillRequestData(r).channels = Channel
           /\ r.command # "query" =>
                 \E c \in r.todo : FillRequestData(r).channels = {c}
<1>1. r.todo \subseteq Channel /\ r.command \in Writes \cup {"query"}
  BY DEF Request
<1>2. FillRequestData(r).command = r.command
  BY DEF FillRequestData
<1>3. FillRequestData(r) # NoFrame
  BY <1>1, <1>2 DEF NoFrame, Writes
<1>4. CASE r.command = "query"
  <2>1. FillRequestData(r) = [command |-> "query", channels |-> Channel]
    BY <1>4 DEF FillRequestData
  <2>2. FillRequestData(r) \in Frame
    BY <2>1 DEF Frame
  <2>3. FillRequestData(r).channels = Channel
    BY <2>1
  <2> QED
    BY <1>2, <1>3, <1>4, <2>2, <2>3
<1>5. CASE r.command # "query"
  <2>1. PICK c \in r.todo : FirstOf(r.todo) = {c}
    BY <1>1, <1>5, FirstSelected DEF HasWork
  <2>2. FillRequestData(r) = [command |-> r.command, channels |-> {c}]
    BY <1>5, <2>1 DEF FillRequestData
  <2>3. c \in Channel /\ r.command \in Writes
    BY <1>1, <1>5, <2>1
  <2>4. FillRequestData(r) \in [command : Writes, channels : {{d} : d \in Channel}]
    BY <2>2, <2>3
  <2> QED
    <3>1. FillRequestData(r) \in Frame
      BY <2>4 DEF Frame
    <3>2. FillRequestData(r).channels = {c}
      BY <2>2
    <3> QED
      BY <1>2, <1>3, <1>5, <2>1, <3>1, <3>2
<1> QED
  BY <1>4, <1>5

\* An answer and the channels it is about.
FittedAnswer(a) == a.mask \subseteq Fitted /\ a.on \subseteq Fitted

\* ... and the answer to it.
LEMMA AnswerOf ==
    ASSUME relay \subseteq Fitted, NEW f \in Frame, f # NoFrame
    PROVE  AnswerTo(f) \in Answer /\ FittedAnswer(AnswerTo(f))
<1>1. Fitted \subseteq Channel
  BY ChannelAssumption DEF ChannelAssumption
<1>3. CASE f.command = "query"
  BY <1>1, <1>3 DEF AnswerTo, Answer, FittedAnswer
<1>4. CASE f.command # "query" /\ f.channels \subseteq Fitted
  BY <1>1, <1>4 DEF AnswerTo, Answer, FittedAnswer
<1>5. CASE f.command # "query" /\ ~(f.channels \subseteq Fitted)
  <2>1. AnswerTo(f) = [to |-> "exception", mask |-> {}, on |-> {}]
    BY <1>5 DEF AnswerTo
  <2> QED
    BY <2>1 DEF Answer, FittedAnswer
<1> QED
  BY <1>3, <1>4, <1>5

\* The relays a frame leaves are relays of the board.
LEMMA SwitchedFitted ==
    ASSUME relay \subseteq Fitted, NEW f \in Frame, f.channels \subseteq Fitted,
           f # NoFrame
    PROVE  Switched(f.command, f.channels) \subseteq Fitted
<1>1. f.command \in {"query", "on", "off", "toggle", "latch", "momentary"}
  BY DEF Frame, Writes
<1> QED
  BY <1>1 DEF Switched, Flip

-----------------------------------------------------------------------------
(* The queue *)

\* What the head of a queue is.
LEMMA HeadIsFirst ==
    ASSUME NEW S, NEW s \in Seq(S)
    PROVE  Head(s) = s[1]
OBVIOUS

\* A request joins the queue at its end.
LEMMA Joined ==
    ASSUME TypeOK, NEW r \in Request, queue' = Append(queue, r),
           Len(queue) < MaxQueue
    PROVE  /\ queue' \in Seq(Request) /\ Len(queue') <= MaxQueue /\ queue' # <<>>
           /\ \A i \in DOMAIN queue : i \in DOMAIN queue' /\ queue'[i] = queue[i]
           /\ \A i \in DOMAIN queue' \ DOMAIN queue : queue'[i] = r
           /\ \E i \in DOMAIN queue' : queue'[i] = r
           /\ queue # <<>> => Head(queue') = Head(queue)
           /\ queue = <<>> => Head(queue') = r /\ DOMAIN queue' = {1}
<1>1. queue \in Seq(Request) /\ MaxQueue \in Nat
  BY WireAssumption DEF TypeOK, WireAssumption
<1>2. /\ Len(queue) \in Nat /\ DOMAIN queue = 1 .. Len(queue)
      /\ queue # <<>> => Len(queue) # 0
      /\ Len(<<>>) = 0
  BY <1>1, EmptySeq, LenProperties
<1>3. /\ queue' \in Seq(Request) /\ Len(queue') = Len(queue) + 1 /\ queue' # <<>>
      /\ \A i \in 1 .. Len(queue) : queue'[i] = queue[i]
      /\ queue'[Len(queue) + 1] = r
  BY <1>1, AppendProperties
<1>4. DOMAIN queue' = 1 .. Len(queue) + 1
  BY <1>3, LenProperties
<1>5. Head(queue') = queue'[1] /\ Head(queue) = queue[1]
  BY <1>1, <1>3
<1>6. Len(queue) + 1 \in DOMAIN queue'
  BY <1>2, <1>4
<1>7. Len(queue') <= MaxQueue
  BY <1>1, <1>2, <1>3
<1>8. \A i \in DOMAIN queue : i \in DOMAIN queue' /\ queue'[i] = queue[i]
  BY <1>2, <1>3, <1>4
<1>9. \A i \in DOMAIN queue' \ DOMAIN queue : queue'[i] = r
  BY <1>2, <1>3, <1>4
<1>10. queue # <<>> => Head(queue') = Head(queue)
  BY <1>2, <1>3, <1>5
<1>11. queue = <<>> => Head(queue') = r /\ DOMAIN queue' = {1}
  BY <1>2, <1>3, <1>4, <1>5
<1> QED
  BY <1>3, <1>6, <1>7, <1>8, <1>9, <1>10, <1>11

\* The head of the queue leaves it.
LEMMA Left ==
    ASSUME TypeOK, queue # <<>>, queue' = Tail(queue)
    PROVE  /\ queue' \in Seq(Request) /\ Len(queue') <= MaxQueue
           /\ \A i \in DOMAIN queue' :
                 /\ i + 1 \in DOMAIN queue /\ i + 1 # 1
                 /\ queue'[i] = queue[i + 1]
           /\ \A i \in DOMAIN queue : i # 1 =>
                 i - 1 \in DOMAIN queue' /\ queue'[i - 1] = queue[i]
           /\ queue' # <<>> =>
                 2 \in DOMAIN queue /\ Head(queue') = queue[2]
<1>1. queue \in Seq(Request) /\ MaxQueue \in Nat /\ Len(queue) <= MaxQueue
  BY WireAssumption DEF TypeOK, WireAssumption
<1>2. Len(queue) \in Nat \ {0} /\ DOMAIN queue = 1 .. Len(queue)
  BY <1>1, EmptySeq, LenProperties
<1>3. /\ queue' \in Seq(Request) /\ Len(queue') = Len(queue) - 1
      /\ \A i \in 1 .. Len(queue') : queue'[i] = queue[i + 1]
  BY <1>1, HeadTailProperties
<1>4. DOMAIN queue' = 1 .. Len(queue) - 1
  BY <1>3, LenProperties
<1>5. Len(queue') <= MaxQueue
  BY <1>1, <1>2, <1>3
<1>6. \A i \in DOMAIN queue' :
         i + 1 \in DOMAIN queue /\ i + 1 # 1 /\ queue'[i] = queue[i + 1]
  BY <1>2, <1>3, <1>4
<1>7. \A i \in DOMAIN queue : i # 1 =>
         i - 1 \in DOMAIN queue' /\ queue'[i - 1] = queue[i]
  BY <1>2, <1>3, <1>4
<1>8. ASSUME queue' # <<>>
      PROVE  2 \in DOMAIN queue /\ Head(queue') = queue[2]
  <2>1. Len(queue') \in Nat \ {0}
    BY <1>3, <1>8, EmptySeq
  <2>2. Head(queue') = queue'[1]
    BY <1>3, HeadIsFirst
  <2> QED
    BY <1>2, <1>3, <2>1, <2>2
<1> QED
  BY <1>3, <1>5, <1>6, <1>7, <1>8

\* The head of the queue is submitted again, having changed.
LEMMA Again ==
    ASSUME TypeOK, queue # <<>>, NEW r \in Request, queue' = <<r>> \o Tail(queue)
    PROVE  /\ queue' \in Seq(Request) /\ Len(queue') <= MaxQueue /\ queue' # <<>>
           /\ DOMAIN queue' = DOMAIN queue
           /\ queue'[1] = r /\ Head(queue') = r
           /\ \A i \in DOMAIN queue : i # 1 => queue'[i] = queue[i]
<1>1. queue \in Seq(Request) /\ MaxQueue \in Nat /\ Len(queue) <= MaxQueue
  BY WireAssumption DEF TypeOK, WireAssumption
<1>2. Len(queue) \in Nat \ {0} /\ DOMAIN queue = 1 .. Len(queue)
  BY <1>1, EmptySeq, LenProperties
<1>3. /\ Tail(queue) \in Seq(Request) /\ Len(Tail(queue)) = Len(queue) - 1
      /\ \A i \in 1 .. Len(queue) - 1 : Tail(queue)[i] = queue[i + 1]
  BY <1>1, HeadTailProperties
<1>4. <<r>> \in Seq(Request) /\ Len(<<r>>) = 1 /\ <<r>>[1] = r
  OBVIOUS
<1>5. /\ queue' \in Seq(Request) /\ Len(queue') = 1 + (Len(queue) - 1)
      /\ \A i \in 1 .. 1 + (Len(queue) - 1) :
            queue'[i] = IF i <= 1 THEN r ELSE Tail(queue)[i - 1]
  BY <1>3, <1>4, ConcatProperties
<1>6. Len(queue') = Len(queue)
  BY <1>2, <1>5
<1>7. DOMAIN queue' = DOMAIN queue
  BY <1>2, <1>5, <1>6, LenProperties
<1>8. queue' # <<>>
  BY <1>2, <1>6, EmptySeq
<1>9. queue'[1] = r /\ Head(queue') = queue'[1]
  BY <1>2, <1>5
<1>10. \A i \in DOMAIN queue : i # 1 => queue'[i] = queue[i]
  BY <1>2, <1>3, <1>5
<1> QED
  BY <1>1, <1>5, <1>6, <1>7, <1>8, <1>9, <1>10

\* The head is at the first place.
LEMMA First ==
    ASSUME TypeOK, queue # <<>>
    PROVE  1 \in DOMAIN queue /\ Head(queue) = queue[1] /\ Head(queue) \in Request
<1>1. queue \in Seq(Request)
  BY DEF TypeOK
<1>2. Len(queue) \in Nat \ {0} /\ DOMAIN queue = 1 .. Len(queue)
  BY <1>1, EmptySeq, LenProperties
<1>3. Head(queue) \in Request
  BY <1>1, HeadTailProperties
<1> QED
  BY <1>1, <1>2, <1>3

-----------------------------------------------------------------------------
(* What holds whatever is lost, late or refused *)

\* A request nothing has been done for.
Untouched(r) == r.mask = {} /\ r.on = {}

\* A request has something to do, which is not what it has done already.
Sound(r) ==
    /\ HasWork(r)
    /\ r.command \in Command \cup {"query"}
    /\ r.on \subseteq r.mask /\ r.mask \subseteq Fitted
    /\ r.mask \cap r.todo = {}

\* Only a write at the head of the queue can have begun.
Requests ==
    /\ \A i \in DOMAIN queue :
          /\ Sound(queue[i])
          /\ queue[i].command = "query" \/ i # 1 => Untouched(queue[i])
    /\ waiting => queue # <<>>

\* All that is ever learnt is about channels the board has.
OnlyFitted ==
    /\ known \subseteq Fitted /\ states \subseteq Fitted
    /\ \A i \in DOMAIN answers : FittedAnswer(answers[i])

Base == TypeOK /\ Requests /\ OnlyFitted

\* What request r is after answer a: `done' of Callback.
Done(r, a) ==
    [r EXCEPT !.todo = IF a.to = "write" THEN @ \ a.mask ELSE @,
              !.mask = @ \cup a.mask,
              !.on   = @ \cup IF a.to = "write" THEN Closed(r, a.mask) ELSE a.on]

\* It is a request about channels the board has, and sound if it goes on.
LEMMA DoneType ==
    ASSUME NEW r \in Request, Sound(r), NEW a \in Answer, FittedAnswer(a)
    PROVE  /\ Done(r, a) \in Request
           /\ Done(r, a).command = r.command
           /\ Done(r, a).mask = r.mask \cup a.mask
           /\ Done(r, a).on =
                 r.on \cup IF a.to = "write" THEN Closed(r, a.mask) ELSE a.on
           /\ Done(r, a).mask \subseteq Fitted /\ Done(r, a).on \subseteq Fitted
           /\ a.to = "write" /\ Done(r, a).todo # {} => Sound(Done(r, a))
<1>1. Fitted \subseteq Channel
  BY ChannelAssumption DEF ChannelAssumption
<1>2. Closed(r, a.mask) \subseteq a.mask
  BY DEF Closed
<1>3. /\ r.todo \subseteq Channel /\ r.mask \subseteq Channel /\ r.on \subseteq Channel
      /\ r.command \in Writes \cup {"query"}
  BY DEF Request
<1> DEFINE T == IF a.to = "write" THEN r.todo \ a.mask ELSE r.todo
           M == r.mask \cup a.mask
           O == r.on \cup IF a.to = "write" THEN Closed(r, a.mask) ELSE a.on
<1>4. Done(r, a) = [[[r EXCEPT !.todo = T] EXCEPT !.mask = M] EXCEPT !.on = O]
  BY DEF Done, Request
<1>5. /\ Done(r, a).command = r.command /\ Done(r, a).todo = T
      /\ Done(r, a).mask = M /\ Done(r, a).on = O
  BY <1>4 DEF Request
<1>6. T \subseteq Channel /\ M \subseteq Fitted /\ O \subseteq Fitted
  BY <1>1, <1>2, <1>3 DEF Sound, FittedAnswer
<1>7. a.to = "write" => O \subseteq M /\ M \cap T = {}
  BY <1>2 DEF Sound
<1>8. /\ Done(r, a).mask = r.mask \cup a.mask
      /\ Done(r, a).on = r.on \cup IF a.to = "write" THEN Closed(r, a.mask) ELSE a.on
  BY <1>5
<1> HIDE DEF T, M, O
<1>9. Done(r, a) \in Request
  BY <1>1, <1>4, <1>6 DEF Request
<1> QED
  BY <1>5, <1>6, <1>7, <1>8, <1>9 DEF Sound, HasWork

\* A new request may join the queue, ...
LEMMA JoinedSound ==
    ASSUME Base, NEW c \in Command \cup {"query"}, NEW S \in SUBSET Channel,
           c # "query" => S # {},
           queue' = Append(queue, NewRequest(c, S)), Len(queue) < MaxQueue,
           UNCHANGED waiting
    PROVE  queue' \in Seq(Request) /\ Len(queue') <= MaxQueue /\ Requests'
<1> DEFINE r == NewRequest(c, S)
<1>1. r \in Request
  BY CommandAssumption DEF CommandAssumption, NewRequest, Request
<1>2. Untouched(r) /\ Sound(r)
  BY DEF NewRequest, Untouched, Sound, HasWork
<1> HIDE DEF r
<1>3. TypeOK
  BY DEF Base
<1>4. /\ queue' \in Seq(Request) /\ Len(queue') <= MaxQueue /\ queue' # <<>>
      /\ \A i \in DOMAIN queue : i \in DOMAIN queue' /\ queue'[i] = queue[i]
      /\ \A i \in DOMAIN queue' \ DOMAIN queue : queue'[i] = r
  BY <1>1, <1>3, Joined DEF r
<1>5. ASSUME NEW i \in DOMAIN queue'
      PROVE  /\ Sound(queue'[i])
             /\ queue'[i].command = "query" \/ i # 1 => Untouched(queue'[i])
  BY <1>2, <1>4 DEF Base, Requests
<1> QED
  BY <1>4, <1>5 DEF Requests

\* ... the head may leave it, ...
LEMMA LeftSound ==
    ASSUME Base, queue # <<>>, queue' = Tail(queue), waiting' = FALSE
    PROVE  queue' \in Seq(Request) /\ Len(queue') <= MaxQueue /\ Requests'
<1>1. TypeOK
  BY DEF Base
<1>2. /\ queue' \in Seq(Request) /\ Len(queue') <= MaxQueue
      /\ \A i \in DOMAIN queue' :
            i + 1 \in DOMAIN queue /\ i + 1 # 1 /\ queue'[i] = queue[i + 1]
  BY <1>1, Left
<1>3. ASSUME NEW i \in DOMAIN queue'
      PROVE  Sound(queue'[i]) /\ Untouched(queue'[i])
  BY <1>2 DEF Base, Requests
<1> QED
  BY <1>2, <1>3 DEF Requests

\* ... and a write at the head may go on.
LEMMA AgainSound ==
    ASSUME Base, queue # <<>>, NEW r \in Request, Sound(r), r.command # "query",
           queue' = <<r>> \o Tail(queue), waiting' = FALSE
    PROVE  queue' \in Seq(Request) /\ Len(queue') <= MaxQueue /\ Requests'
<1>1. TypeOK
  BY DEF Base
<1>2. /\ queue' \in Seq(Request) /\ Len(queue') <= MaxQueue
      /\ DOMAIN queue' = DOMAIN queue /\ queue'[1] = r
      /\ \A i \in DOMAIN queue : i # 1 => queue'[i] = queue[i]
  BY <1>1, Again
<1>3. ASSUME NEW i \in DOMAIN queue'
      PROVE  /\ Sound(queue'[i])
             /\ queue'[i].command = "query" \/ i # 1 => Untouched(queue'[i])
  BY <1>2 DEF Base, Requests
<1> QED
  BY <1>2, <1>3 DEF Requests

\* The oldest answer, and the others.
LEMMA AnswerTaken ==
    ASSUME Base, answers # <<>>
    PROVE  /\ Head(answers) \in Answer /\ FittedAnswer(Head(answers))
           /\ Tail(answers) \in Seq(Answer) /\ Len(Tail(answers)) <= MaxAnswers
           /\ \A i \in DOMAIN Tail(answers) : FittedAnswer(Tail(answers)[i])
<1>1. /\ answers \in Seq(Answer) /\ Len(answers) <= MaxAnswers /\ MaxAnswers \in Nat
      /\ \A i \in DOMAIN answers : FittedAnswer(answers[i])
  BY WireAssumption DEF Base, TypeOK, OnlyFitted, WireAssumption
<1>2. Len(answers) \in Nat \ {0} /\ DOMAIN answers = 1 .. Len(answers)
  BY <1>1, EmptySeq, LenProperties
<1>3. /\ Head(answers) \in Answer
      /\ Tail(answers) \in Seq(Answer) /\ Len(Tail(answers)) = Len(answers) - 1
      /\ \A i \in 1 .. Len(Tail(answers)) : Tail(answers)[i] = answers[i + 1]
  BY <1>1, HeadTailProperties
<1>4. Head(answers) = answers[1]
  BY <1>1, HeadIsFirst
<1>5. FittedAnswer(Head(answers))
  BY <1>1, <1>2, <1>4
<1>6. DOMAIN Tail(answers) = 1 .. Len(answers) - 1
  BY <1>3, LenProperties
<1>7. ASSUME NEW i \in DOMAIN Tail(answers)
      PROVE  FittedAnswer(Tail(answers)[i])
  <2>1. i + 1 \in DOMAIN answers /\ Tail(answers)[i] = answers[i + 1]
    BY <1>2, <1>3, <1>6
  <2> QED
    BY <1>1, <2>1
<1> QED
  BY <1>1, <1>2, <1>3, <1>5, <1>7

\* The wire may have one more of them.
LEMMA AnswerSent ==
    ASSUME Base, NEW a \in Answer, FittedAnswer(a), Len(answers) < MaxAnswers,
           answers' = Append(answers, a)
    PROVE  /\ answers' \in Seq(Answer) /\ Len(answers') <= MaxAnswers
           /\ \A i \in DOMAIN answers' : FittedAnswer(answers'[i])
<1>1. /\ answers \in Seq(Answer) /\ MaxAnswers \in Nat
      /\ \A i \in DOMAIN answers : FittedAnswer(answers[i])
  BY WireAssumption DEF Base, TypeOK, OnlyFitted, WireAssumption
<1>2. Len(answers) \in Nat /\ DOMAIN answers = 1 .. Len(answers)
  BY <1>1, LenProperties
<1>3. /\ answers' \in Seq(Answer) /\ Len(answers') = Len(answers) + 1
      /\ \A i \in 1 .. Len(answers) : answers'[i] = answers[i]
      /\ answers'[Len(answers) + 1] = a
  BY <1>1, AppendProperties
<1>4. DOMAIN answers' = 1 .. Len(answers) + 1
  BY <1>3, LenProperties
<1>5. ASSUME NEW i \in DOMAIN answers'
      PROVE  FittedAnswer(answers'[i])
  <2>1. CASE i = Len(answers) + 1
    BY <1>3, <2>1
  <2>2. CASE i # Len(answers) + 1
    <3>1. i \in DOMAIN answers /\ answers'[i] = answers[i]
      BY <1>2, <1>3, <1>4, <2>2
    <3> QED
      BY <1>1, <3>1
  <2> QED
    BY <2>1, <2>2
<1> QED
  BY <1>1, <1>2, <1>3, <1>5

\* It holds when the program starts, ...
LEMMA BaseInit == Init => Base
<1> SUFFICES ASSUME Init PROVE Base
  OBVIOUS
<1>1. MaxQueue \in Nat /\ MaxAnswers \in Nat
  BY WireAssumption DEF WireAssumption
<1>2. /\ queue \in Seq(Request) /\ Len(queue) = 0 /\ DOMAIN queue = {}
      /\ answers \in Seq(Answer) /\ Len(answers) = 0 /\ DOMAIN answers = {}
  BY EmptySeq DEF Init
<1>3. NoFrame \in Frame
  BY DEF Frame
<1>4. TypeOK
  <2>1. Len(queue) <= MaxQueue /\ Len(answers) <= MaxAnswers
    BY <1>1, <1>2
  <2>2. /\ waiting = FALSE /\ devState = "stopped" /\ restart = TRUE
        /\ known = {} /\ states = {} /\ relay \in SUBSET Fitted /\ frame = NoFrame
    BY DEF Init
  <2> QED
    BY <1>2, <1>3, <2>1, <2>2 DEF TypeOK
<1> QED
  BY <1>2, <1>4 DEF Init, Base, Requests, OnlyFitted

\* ... and after every step.
LEMMA BaseStep ==
    ASSUME Base, [Next]_vars
    PROVE  Base'
<1> USE DEF Base
<1>0. /\ TypeOK /\ Requests /\ OnlyFitted
      /\ queue # <<>> => /\ Head(queue) \in Request /\ Sound(Head(queue))
                         /\ Head(queue) = queue[1] /\ 1 \in DOMAIN queue
  BY First DEF Requests
<1>1. ASSUME NEW c \in Command, NEW S \in (SUBSET Channel) \ {{}}, Submit(c, S)
      PROVE  Base'
  <2>1. /\ c \in Command \cup {"query"} /\ S \in SUBSET Channel /\ S # {}
        /\ queue' = Append(queue, NewRequest(c, S)) /\ Len(queue) < MaxQueue
        /\ UNCHANGED <<waiting, deviceVars, boardVars>>
    BY <1>1 DEF Submit
  <2>2. queue' \in Seq(Request) /\ Len(queue') <= MaxQueue /\ Requests'
    BY <2>1, JoinedSound
  <2> QED
    BY <2>1, <2>2 DEF TypeOK, OnlyFitted, deviceVars, boardVars
<1>2. CASE Execute
  <2>1. frame' \in Frame
    BY <1>0, <1>2, FrameOf DEF Execute, Sound
  <2>2. answers' = <<>> \/ answers' = answers
    BY <1>2 DEF Execute
  <2>3. /\ answers' \in Seq(Answer) /\ Len(answers') <= MaxAnswers
        /\ \A i \in DOMAIN answers' : FittedAnswer(answers'[i])
    <3>1. /\ <<>> \in Seq(Answer) /\ Len(<<>>) = 0 /\ DOMAIN <<>> = {}
          /\ MaxAnswers \in Nat
      BY WireAssumption, EmptySeq DEF WireAssumption
    <3>2. CASE answers' = <<>>
      BY <3>1, <3>2
    <3>3. CASE answers' = answers
      BY <3>3 DEF TypeOK, OnlyFitted
    <3> QED
      BY <2>2, <3>2, <3>3
  <2> QED
    BY <1>2, <2>1, <2>3 DEF Execute, TypeOK, Requests, OnlyFitted, deviceVars
<1>3. CASE BoardActs
  <2>1. frame \in Frame /\ frame # NoFrame /\ relay \subseteq Fitted
    BY <1>3 DEF BoardActs, TypeOK
  <2>2. relay' \subseteq Fitted
    BY <1>3, <2>1, SwitchedFitted DEF BoardActs
  <2>3. /\ answers' \in Seq(Answer) /\ Len(answers') <= MaxAnswers
        /\ \A i \in DOMAIN answers' : FittedAnswer(answers'[i])
    <3>1. CASE answers' = answers
      BY <3>1 DEF TypeOK, OnlyFitted
    <3>2. CASE Len(answers) < MaxAnswers /\ answers' = Append(answers, AnswerTo(frame))
      BY <2>1, <3>2, AnswerOf, AnswerSent
    <3> QED
      BY <1>3, <3>1, <3>2 DEF BoardActs
  <2>4. frame' \in Frame
    BY <1>3 DEF BoardActs, Frame
  <2> QED
    BY <1>3, <2>2, <2>3, <2>4 DEF BoardActs, TypeOK, Requests, OnlyFitted, deviceVars
<1>4. CASE FrameLost
  BY <1>4 DEF FrameLost, Frame, TypeOK, Requests, OnlyFitted, deviceVars
<1>5. ASSUME queue # <<>>, Fail, UNCHANGED <<relay, frame>>,
             /\ answers' \in Seq(Answer) /\ Len(answers') <= MaxAnswers
             /\ \A i \in DOMAIN answers' : FittedAnswer(answers'[i])
      PROVE  Base'
  <2>1. queue' \in Seq(Request) /\ Len(queue') <= MaxQueue /\ Requests'
    BY <1>5, LeftSound DEF Fail
  <2> QED
    BY <1>5, <2>1 DEF Fail, ScheduleRestart, TypeOK, OnlyFitted
<1>6. CASE Receive
  <2> DEFINE r == Head(queue)
             a == Head(answers)
  <2>1. /\ waiting /\ answers # <<>> /\ answers' = Tail(answers)
        /\ UNCHANGED <<relay, frame>>
        /\ IF Matches(r, a) THEN Callback(r, a) ELSE Fail
    BY <1>6 DEF Receive
  <2>2. queue # <<>> /\ r \in Request /\ Sound(r)
    BY <1>0, <2>1 DEF Requests
  <2>3. /\ a \in Answer /\ FittedAnswer(a)
        /\ answers' \in Seq(Answer) /\ Len(answers') <= MaxAnswers
        /\ \A i \in DOMAIN answers' : FittedAnswer(answers'[i])
    BY <2>1, AnswerTaken
  <2> DEFINE d == Done(r, a)
  <2>4. /\ d \in Request /\ d.command = r.command
        /\ d.mask \subseteq Fitted /\ d.on \subseteq Fitted
        /\ a.to = "write" /\ d.todo # {} => Sound(d)
    BY <2>2, <2>3, DoneType
  <2>5. CASE Matches(r, a) /\ a.to = "write" /\ d.todo # {}
    <3>1. queue' = <<d>> \o Tail(queue) /\ waiting' = FALSE /\ UNCHANGED deviceVars
      BY <2>1, <2>5 DEF Callback, Done
    <3>2. d.command # "query"
      BY <2>4, <2>5 DEF Matches
    <3> HIDE DEF d
    <3>3. queue' \in Seq(Request) /\ Len(queue') <= MaxQueue /\ Requests'
      BY <2>2, <2>4, <2>5, <3>1, <3>2, AgainSound
    <3> QED
      BY <2>1, <2>3, <3>1, <3>3 DEF TypeOK, OnlyFitted, deviceVars
  <2>6. CASE Matches(r, a) /\ ~(a.to = "write" /\ d.todo # {})
    <3>1. Succeed(d)
      BY <2>1, <2>6 DEF Callback, Done
    <3> HIDE DEF d
    <3>2. queue' \in Seq(Request) /\ Len(queue') <= MaxQueue /\ Requests'
      BY <2>2, <3>1, LeftSound DEF Succeed
    <3>3. known' \subseteq Fitted /\ states' \subseteq Fitted
      BY <2>4, <3>1 DEF Succeed, Learnt, OnlyFitted
    <3>4. Fitted \subseteq Channel
      BY ChannelAssumption DEF ChannelAssumption
    <3>5. devState' \in {"stopped", "starting", "fault", "normal"} /\ restart' \in BOOLEAN
      BY <3>1 DEF Succeed, TypeOK
    <3> QED
      BY <2>1, <2>3, <3>1, <3>2, <3>3, <3>4, <3>5 DEF Succeed, TypeOK, OnlyFitted
  <2>7. CASE ~Matches(r, a)
    BY <1>5, <2>1, <2>2, <2>3, <2>7
  <2> QED
    BY <2>5, <2>6, <2>7
<1>7. CASE ReceiveByOther
  <2>1. /\ answers' \in Seq(Answer) /\ Len(answers') <= MaxAnswers
        /\ \A i \in DOMAIN answers' : FittedAnswer(answers'[i])
    BY <1>7, AnswerTaken DEF ReceiveByOther
  <2> QED
    BY <1>7, <2>1 DEF ReceiveByOther, TypeOK, Requests, OnlyFitted, deviceVars
<1>8. CASE Timeout
  BY <1>5, <1>8 DEF Timeout, boardVars, TypeOK, Requests, OnlyFitted
<1>9. CASE Restart
  <2>1. /\ restart' = FALSE
        /\ devState' \in {"stopped", "starting", "fault", "normal"}
        /\ UNCHANGED <<waiting, known, states, relay, frame, answers>>
    BY <1>9 DEF Restart, boardVars, TypeOK
  <2>2. queue' \in Seq(Request) /\ Len(queue') <= MaxQueue /\ Requests'
    <3>1. CASE queue' = queue
      BY <2>1, <3>1 DEF TypeOK, Requests
    <3>2. CASE /\ Len(queue) < MaxQueue
               /\ queue' = Append(queue, NewRequest("query", Channel))
      BY <2>1, <3>2, JoinedSound
    <3> QED
      BY <1>9, <3>1, <3>2 DEF Restart
  <2> QED
    BY <2>1, <2>2 DEF TypeOK, OnlyFitted
<1>10. CASE UNCHANGED vars
  BY <1>10 DEF vars, deviceVars, boardVars, TypeOK, Requests, OnlyFitted
<1> QED
  BY <1>1, <1>2, <1>3, <1>4, <1>6, <1>7, <1>8, <1>9, <1>10 DEF Next, SomeCommand

LEMMA BaseInvariant == Spec => []Base
BY BaseInit, BaseStep, PTL DEF Spec

\* R421A/Device.h 49-51: every variable keeps its type, whatever answers are lost
\* or late; the queues stay within their bounds.
THEOREM TypeCorrect == Spec => []TypeOK
<1>1. Base => TypeOK
  BY DEF Base
<1> QED
  BY <1>1, BaseInvariant, PTL

-----------------------------------------------------------------------------
(* What the device knows *)

\* Only commands are submitted whose outcome the device can tell: it does not
\* know that `latch' closes a relay, nor that it opens the others.
Tellable == Command \subseteq {"query", "on", "off", "toggle", "momentary"}

\* The device may not know the relays: it will be restarted, or is about to ask.
Doubt ==
    \/ devState \in {"stopped", "fault"}
    \/ \E i \in DOMAIN queue : queue[i].command = "query"

\* While the head waits the board has its frame, or its answer is under way, or
\* one of them was lost; and nothing else is on the wire.
Exchange == waiting =>
    \/ frame = FillRequestData(Head(queue)) /\ answers = <<>>
    \/ frame = NoFrame /\ answers = <<>>
    \/ frame = NoFrame /\ answers = <<AnswerTo(FillRequestData(Head(queue)))>>

\* What the device believes and the request at the head has learnt are together
\* what the relays are, except while an answer is missing.
Tracks ==
    /\ known = Fitted
    /\ ~waiting => frame = NoFrame
    /\ queue = <<>> => states = relay
    /\ queue # <<>> /\ (~waiting \/ frame # NoFrame) => Learnt(Head(queue)) = relay
    /\ waiting /\ answers # <<>> /\ Head(answers).to = "write" =>
          Learnt(Done(Head(queue), Head(answers))) = relay

\* The inductive invariant: what is not tracked is in doubt.
Known == Base /\ Exchange /\ (Doubt \/ Tracks)

\* A write the device can tell adds to what its request has learnt just what it
\* does to the relays.
LEMMA SwitchLearnt ==
    ASSUME NEW r \in Request, Sound(r),
           r.command \in {"on", "off", "toggle", "momentary"},
           NEW c \in r.todo, c \in Fitted, Learnt(r) = relay,
           NEW a \in Answer, FittedAnswer(a), a.to = "write", a.mask = {c}
    PROVE  Learnt(Done(r, a)) = Switched(r.command, {c})
<1>1. /\ Done(r, a).mask = r.mask \cup {c}
      /\ Done(r, a).on = r.on \cup Closed(r, {c})
  BY DoneType
<1>2. c \notin r.mask /\ c \notin r.on
  BY DEF Sound
<1>3. Learnt(Done(r, a)) = (states \ (r.mask \cup {c})) \cup (r.on \cup Closed(r, {c}))
  BY <1>1 DEF Learnt
<1>4. relay = (states \ r.mask) \cup r.on
  BY DEF Learnt
<1>5. CASE r.command = "on"
  BY <1>2, <1>3, <1>4, <1>5 DEF Closed, Switched
<1>6. CASE r.command = "off" \/ r.command = "momentary"
  BY <1>2, <1>3, <1>4, <1>6 DEF Closed, Switched
<1>7. CASE r.command = "toggle"
  <2>1. Closed(r, {c}) = {c} \ states
    BY <1>7 DEF Closed
  <2>2. Switched(r.command, {c}) = (relay \ {c}) \cup ({c} \ relay)
    BY <1>7 DEF Switched, Flip
  <2> QED
    BY <1>2, <1>3, <1>4, <2>1, <2>2
<1> QED
  BY <1>5, <1>6, <1>7

\* What a waiting request's frame asks and what its answer says.
LEMMA Asked ==
    ASSUME Base, NEW r \in Request, Sound(r)
    PROVE  LET f == FillRequestData(r) IN
           /\ f # NoFrame /\ AnswerTo(f) \in Answer /\ FittedAnswer(AnswerTo(f))
           /\ r.command = "query" =>
                 AnswerTo(f) = [to |-> "query", mask |-> Fitted, on |-> relay]
           /\ r.command # "query" => AnswerTo(f).to # "query"
           /\ AnswerTo(f).to = "write" =>
                 \E c \in r.todo : c \in Fitted /\ f.channels = {c}
                                   /\ AnswerTo(f).mask = {c}
<1> DEFINE f == FillRequestData(r)
<1>1. /\ f \in Frame /\ f # NoFrame /\ f.command = r.command
      /\ r.command # "query" => \E c \in r.todo : f.channels = {c}
  BY FrameOf DEF Sound
<1>2. AnswerTo(f) \in Answer /\ FittedAnswer(AnswerTo(f))
  BY <1>1, AnswerOf DEF Base, TypeOK
<1> HIDE DEF f
<1>3. CASE r.command = "query"
  <2>1. AnswerTo(f) = [to |-> "query", mask |-> Fitted, on |-> relay]
    BY <1>1, <1>3 DEF AnswerTo
  <2> QED
    BY <1>1, <1>2, <1>3, <2>1 DEF f
<1>4. CASE r.command # "query" /\ f.channels \subseteq Fitted
  <2>1. AnswerTo(f) = [to |-> "write", mask |-> f.channels, on |-> {}]
    BY <1>1, <1>4 DEF AnswerTo
  <2>2. PICK c \in r.todo : f.channels = {c}
    BY <1>1, <1>4
  <2>3. c \in Fitted /\ AnswerTo(f).mask = {c} /\ AnswerTo(f).to = "write"
    BY <1>4, <2>1, <2>2
  <2> QED
    BY <1>1, <1>2, <1>4, <2>2, <2>3 DEF f
<1>5. CASE r.command # "query" /\ ~(f.channels \subseteq Fitted)
  <2>1. AnswerTo(f) = [to |-> "exception", mask |-> {}, on |-> {}]
    BY <1>1, <1>5 DEF AnswerTo
  <2>2. AnswerTo(f).to = "exception"
    BY <2>1
  <2> QED
    BY <1>1, <1>2, <1>5, <2>2 DEF f
<1> QED
  BY <1>3, <1>4, <1>5

\* An answer is the same after the board has acted.
LEMMA AnswerKept ==
    ASSUME Base, NEW f \in Frame, f # NoFrame,
           relay' = IF f.channels \subseteq Fitted
                    THEN Switched(f.command, f.channels) ELSE relay
    PROVE  AnswerTo(f)' = AnswerTo(f)
<1>1. CASE f.command = "query"
  <2>1. relay' = relay
    BY <1>1 DEF Switched
  <2> QED
    BY <2>1 DEF AnswerTo
<1>2. CASE f.command # "query"
  BY <1>2 DEF AnswerTo
<1> QED
  BY <1>1, <1>2

\* A new request leaves the head of a queue what it is.
LEMMA JoinedHead ==
    ASSUME Base, NEW r \in Request, queue' = Append(queue, r), Len(queue) < MaxQueue
    PROVE  /\ queue' # <<>>
           /\ queue # <<>> => Head(queue') = Head(queue)
           /\ queue = <<>> => Head(queue') = r
           /\ r.command = "query" =>
                 \E i \in DOMAIN queue' : queue'[i].command = "query"
           /\ (\E i \in DOMAIN queue : queue[i].command = "query") =>
                 \E i \in DOMAIN queue' : queue'[i].command = "query"
<1>1. TypeOK
  BY DEF Base
<1> QED
  BY <1>1, Joined

\* Every step keeps exchanges apart.
LEMMA ExchangeStep ==
    ASSUME Base, Exchange, ~Late, [Next]_vars
    PROVE  Exchange'
<1> USE DEF Exchange
<1>1. CASE waiting' = FALSE
  BY <1>1
<1>2. ASSUME NEW q \in Request, queue' = Append(queue, q), Len(queue) < MaxQueue,
             UNCHANGED <<waiting, frame, answers, relay>>
      PROVE  Exchange'
  <2>1. waiting => Head(queue') = Head(queue)
    BY <1>2, JoinedHead DEF Base, Requests
  <2> QED
    BY <1>2, <2>1 DEF AnswerTo
<1>3. CASE SomeCommand
  <2>1. PICK c \in Command, S \in SUBSET Channel : Submit(c, S)
    BY <1>3 DEF SomeCommand
  <2>2. NewRequest(c, S) \in Request
    BY CommandAssumption DEF CommandAssumption, NewRequest, Request
  <2> QED
    BY <1>2, <2>1, <2>2 DEF Submit, boardVars
<1>4. CASE Execute
  BY <1>4 DEF Execute
<1>5. CASE BoardActs
  <2>1. SUFFICES ASSUME waiting PROVE Exchange'
    BY <1>1, <1>5 DEF BoardActs, Base, TypeOK
  <2>2. PICK r : r = Head(queue)
    OBVIOUS
  <2>3. r \in Request /\ Sound(r)
    BY <2>1, <2>2, First DEF Base, Requests
  <2>4. PICK f : f = FillRequestData(r)
    OBVIOUS
  <2>5. f \in Frame /\ f # NoFrame
    BY <2>3, <2>4, FrameOf DEF Sound
  <2>6. frame = f /\ answers = <<>>
    BY <1>5, <2>1, <2>2, <2>4 DEF BoardActs
  <2>7. AnswerTo(f)' = AnswerTo(f)
    BY <1>5, <2>5, <2>6, AnswerKept DEF BoardActs
  <2>8. answers' = <<>> \/ answers' = <<AnswerTo(f)>>
    <3>1. Append(<<>>, AnswerTo(f)) = <<AnswerTo(f)>>
      OBVIOUS
    <3> QED
      BY <1>5, <2>6, <3>1 DEF BoardActs
  <2>9. frame' = NoFrame /\ queue' = queue
    BY <1>5 DEF BoardActs
  <2>10. FillRequestData(Head(queue'))  = f
    BY <2>2, <2>4, <2>9
  <2>11. AnswerTo(f)' = AnswerTo(FillRequestData(Head(queue)))'
    BY <2>10
  <2> QED
    BY <2>7, <2>8, <2>9, <2>11
<1>6. CASE FrameLost
  BY <1>6 DEF FrameLost, AnswerTo
<1>7. CASE Receive \/ ReceiveByOther \/ Timeout
  <2>1. waiting' = FALSE
    BY <1>7 DEF Receive, ReceiveByOther, Timeout, Callback, Succeed, Fail, Base, TypeOK
  <2> QED
    BY <1>1, <2>1
<1>8. CASE Restart
  <2>1. NewRequest("query", Channel) \in Request
    BY DEF NewRequest, Request
  <2>2. UNCHANGED <<waiting, frame, answers, relay>>
    BY <1>8 DEF Restart, boardVars
  <2>3. CASE UNCHANGED queue
    BY <2>2, <2>3 DEF AnswerTo
  <2>4. CASE Len(queue) < MaxQueue /\ queue' = Append(queue, NewRequest("query", Channel))
    BY <1>2, <2>1, <2>2, <2>4
  <2> QED
    BY <1>8, <2>3, <2>4 DEF Restart
<1>9. CASE UNCHANGED vars
  BY <1>9 DEF vars, boardVars, AnswerTo
<1> QED
  BY <1>3, <1>4, <1>5, <1>6, <1>7, <1>8, <1>9 DEF Next

\* Every step keeps track of the relays, or puts them in doubt.
LEMMA TracksStep ==
    ASSUME Base, Exchange, Doubt \/ Tracks, ~Late, Tellable, [Next]_vars
    PROVE  (Doubt \/ Tracks)'
<1>0. /\ TypeOK /\ Requests /\ OnlyFitted
      /\ queue # <<>> => /\ Head(queue) \in Request /\ Sound(Head(queue))
                         /\ Head(queue) = queue[1] /\ 1 \in DOMAIN queue
  BY First DEF Base, Requests
<1>1. ASSUME NEW c \in Command, NEW S \in SUBSET Channel, Submit(c, S)
      PROVE  (Doubt \/ Tracks)'
  <2>1. PICK q : q = NewRequest(c, S)
    OBVIOUS
  <2>2. q \in Request /\ Untouched(q)
    BY <2>1, CommandAssumption
       DEF CommandAssumption, NewRequest, Request, Untouched
  <2>3. /\ queue' = Append(queue, q) /\ Len(queue) < MaxQueue
        /\ UNCHANGED <<waiting, devState, known, states, relay, frame, answers>>
    BY <1>1, <2>1 DEF Submit, deviceVars, boardVars
  <2>4. /\ queue' # <<>>
        /\ queue # <<>> => Head(queue') = Head(queue)
        /\ queue = <<>> => Head(queue') = q
    BY <2>2, <2>3, JoinedHead
  <2>5. Doubt => Doubt'
    BY <2>2, <2>3, JoinedHead DEF Doubt
  <2>6. ASSUME Tracks PROVE Tracks'
    <3>1. CASE queue = <<>>
      <4>1. ~waiting /\ states = relay /\ frame = NoFrame
        BY <1>0, <2>6, <3>1 DEF Tracks, Requests
      <4>2. Learnt(q) = states
        BY <2>2 DEF Learnt, Untouched
      <4>3. Learnt(q)' = Learnt(q)
        BY <2>3 DEF Learnt
      <4>4. Learnt(Head(queue))' = Learnt(q)'
        BY <2>4, <3>1
      <4> QED
        BY <2>3, <2>4, <2>6, <4>1, <4>2, <4>3, <4>4 DEF Tracks
    <3>2. CASE queue # <<>>
      BY <2>3, <2>4, <2>6, <3>2 DEF Tracks, Learnt, Done, Closed
    <3> QED
      BY <3>1, <3>2
  <2> QED
    BY <2>5, <2>6
<1>2. CASE Execute
  <2>1. /\ queue # <<>> /\ ~waiting /\ waiting' = TRUE /\ answers' = <<>>
        /\ UNCHANGED <<queue, devState, known, states, relay>>
    BY <1>2 DEF Execute, deviceVars
  <2> QED
    BY <2>1 DEF Doubt, Tracks, Learnt
<1>3. CASE BoardActs
  <2>1. /\ frame # NoFrame /\ frame' = NoFrame
        /\ UNCHANGED <<queue, waiting, devState, known, states>>
    BY <1>3 DEF BoardActs, deviceVars
  <2>2. Doubt => Doubt'
    BY <2>1 DEF Doubt
  <2>3. ASSUME Tracks, ~Doubt PROVE Tracks'
    <3>1. waiting /\ queue # <<>>
      BY <1>0, <2>1, <2>3 DEF Tracks, Requests
    <3>2. PICK r : r = Head(queue)
      OBVIOUS
    <3>3. r \in Request /\ Sound(r) /\ r.command # "query"
      BY <1>0, <2>3, <3>1, <3>2 DEF Doubt
    <3>4. r.command \in {"on", "off", "toggle", "momentary"}
      BY <3>3 DEF Sound, Tellable
    <3>5. PICK f : f = FillRequestData(r)
      OBVIOUS
    <3>6. frame = f /\ answers = <<>> /\ Learnt(r) = relay
      BY <2>1, <2>3, <3>1, <3>2, <3>5 DEF Exchange, Tracks
    <3>7. PICK a : a = AnswerTo(f)
      OBVIOUS
    <3>8. answers' = <<>> \/ answers' = <<a>>
      <4>1. Append(<<>>, a) = <<a>>
        OBVIOUS
      <4> QED
        BY <1>3, <3>6, <3>7, <4>1 DEF BoardActs
    <3>9. ASSUME a.to = "write" PROVE Learnt(Done(r, a))' = relay'
      <4>1. PICK c \in r.todo : c \in Fitted /\ f.channels = {c} /\ a.mask = {c}
        BY <3>3, <3>5, <3>7, <3>9, Asked
      <4>2. a \in Answer /\ FittedAnswer(a)
        BY <3>3, <3>5, <3>7, Asked
      <4>3. f.command = r.command
        BY <3>5 DEF FillRequestData
      <4>4. relay' = Switched(r.command, {c})
        BY <1>3, <3>6, <4>1, <4>3 DEF BoardActs
      <4>5. Learnt(Done(r, a)) = Switched(r.command, {c})
        BY <3>3, <3>4, <3>6, <3>9, <4>1, <4>2, SwitchLearnt
      <4>6. Learnt(Done(r, a))' = Learnt(Done(r, a))
        BY <2>1 DEF Learnt, Done, Closed
      <4> QED
        BY <4>4, <4>5, <4>6
    <3>10. ASSUME answers' # <<>>, Head(answers').to = "write"
           PROVE  Learnt(Done(Head(queue), Head(answers)))' = relay'
      <4>1. answers' = <<a>>
        BY <3>8, <3>10
      <4>2. Head(answers') = a /\ Head(queue') = r
        BY <2>1, <3>2, <4>1
      <4>3. Learnt(Done(Head(queue), Head(answers)))' = Learnt(Done(r, a))'
        BY <4>2
      <4> QED
        BY <3>9, <3>10, <4>2, <4>3
    <3> QED
      BY <2>1, <2>3, <3>1, <3>10 DEF Tracks
  <2> QED
    BY <2>2, <2>3
<1>4. CASE FrameLost
  <2>1. /\ frame # NoFrame /\ frame' = NoFrame
        /\ UNCHANGED <<queue, waiting, devState, known, states, relay, answers>>
    BY <1>4 DEF FrameLost, deviceVars
  <2>2. Doubt => Doubt'
    BY <2>1 DEF Doubt
  <2>3. ASSUME Tracks PROVE Tracks'
    <3>1. waiting /\ queue # <<>>
      BY <1>0, <2>1, <2>3 DEF Tracks, Requests
    <3>2. answers = <<>>
      BY <2>1, <3>1 DEF Exchange
    <3> QED
      BY <2>1, <2>3, <3>1, <3>2 DEF Tracks
  <2> QED
    BY <2>2, <2>3
<1>5. CASE Receive
  <2>1. PICK r : r = Head(queue)
    OBVIOUS
  <2>2. PICK a : a = Head(answers)
    OBVIOUS
  <2>3. /\ waiting /\ answers # <<>> /\ UNCHANGED <<relay, frame>>
        /\ IF Matches(r, a) THEN Callback(r, a) ELSE Fail
    BY <1>5, <2>1, <2>2 DEF Receive
  <2>4. /\ queue # <<>> /\ r \in Request /\ Sound(r)
        /\ r = queue[1] /\ 1 \in DOMAIN queue
        /\ r.command = "query" => Untouched(r)
    BY <1>0, <2>1, <2>3 DEF Requests
  <2>5. frame = NoFrame /\ a = AnswerTo(FillRequestData(r))
    BY <2>1, <2>2, <2>3 DEF Exchange
  <2>6. a \in Answer /\ FittedAnswer(a)
    BY <2>4, <2>5, Asked
  <2>7. PICK d : d = Done(r, a)
    OBVIOUS
  <2>8. /\ d \in Request /\ d.command = r.command /\ d.mask \subseteq Fitted
        /\ d.mask = r.mask \cup a.mask
        /\ d.on = r.on \cup IF a.to = "write" THEN Closed(r, a.mask) ELSE a.on
    BY <2>4, <2>6, <2>7, DoneType
  <2>9. a.to = "write" /\ ~Doubt => known = Fitted /\ Learnt(d) = relay
    BY <2>1, <2>2, <2>3, <2>7 DEF Tracks
  <2>10. CASE ~Matches(r, a)
    BY <2>3, <2>10 DEF Fail, Doubt
  <2>11. CASE Matches(r, a) /\ a.to = "write" /\ d.todo # {}
    <3>1. queue' = <<d>> \o Tail(queue) /\ waiting' = FALSE /\ UNCHANGED deviceVars
      BY <2>3, <2>7, <2>11 DEF Callback, Done
    <3>2. UNCHANGED <<devState, known, states>>
      BY <3>1 DEF deviceVars
    <3>3. /\ queue' # <<>> /\ DOMAIN queue' = DOMAIN queue
          /\ queue'[1] = d /\ Head(queue') = d
          /\ \A i \in DOMAIN queue : i # 1 => queue'[i] = queue[i]
      BY <1>0, <2>4, <2>8, <3>1, Again
    <3>4. Doubt => Doubt'
      BY <2>4, <2>8, <3>2, <3>3 DEF Doubt
    <3>5. ASSUME ~Doubt PROVE Tracks'
      <4>1. Learnt(d)' = relay'
        BY <2>3, <2>9, <2>11, <3>2, <3>5 DEF Learnt
      <4>2. Learnt(Head(queue))' = relay'
        BY <3>3, <4>1
      <4> QED
        BY <2>3, <2>5, <2>9, <2>11, <3>1, <3>2, <3>3, <3>5, <4>2 DEF Tracks
    <3> QED
      BY <3>4, <3>5
  <2>12. CASE Matches(r, a) /\ ~(a.to = "write" /\ d.todo # {})
    <3>1. Succeed(d)
      BY <2>3, <2>7, <2>12 DEF Callback, Done
    <3>2. /\ queue' = Tail(queue) /\ waiting' = FALSE
          /\ known' = known \cup d.mask /\ states' = Learnt(d)
          /\ devState' = IF devState = "starting" THEN "normal" ELSE devState
      BY <3>1 DEF Succeed
    <3>3. /\ \A i \in DOMAIN queue : i # 1 =>
                i - 1 \in DOMAIN queue' /\ queue'[i - 1] = queue[i]
          /\ queue' # <<>> => 2 \in DOMAIN queue /\ Head(queue') = queue[2]
      BY <1>0, <2>4, <3>2, Left
    <3>4. ASSUME known' = Fitted, states' = relay PROVE Tracks'
      <4>1. queue' # <<>> => Untouched(Head(queue'))
        BY <1>0, <3>3 DEF Requests
      <4>2. queue' # <<>> => Learnt(Head(queue))' = states'
        BY <4>1 DEF Learnt, Untouched
      <4> QED
        BY <2>3, <2>5, <3>2, <3>4, <4>2 DEF Tracks
    <3>5. CASE r.command = "query"
      <4>1. a = [to |-> "query", mask |-> Fitted, on |-> relay]
        BY <2>4, <2>5, <3>5, Asked
      <4>2. d.mask = Fitted /\ d.on = relay
        BY <2>4, <2>8, <3>5, <4>1 DEF Untouched
      <4>3. known' = Fitted /\ states' = relay
        BY <1>0, <3>2, <4>2 DEF OnlyFitted, Learnt
      <4> QED
        BY <3>4, <4>3
    <3>6. CASE r.command # "query"
      <4>1. a.to = "write"
        BY <2>12, <3>6 DEF Matches
      <4>2. Doubt => Doubt'
        <5>1. devState \in {"stopped", "fault"} => Doubt'
          BY <3>2 DEF Doubt
        <5>2. ASSUME NEW i \in DOMAIN queue, queue[i].command = "query"
              PROVE  Doubt'
          <6>1. i # 1
            BY <2>4, <3>6, <5>2
          <6> QED
            BY <3>3, <5>2, <6>1 DEF Doubt
        <5> QED
          BY <5>1, <5>2 DEF Doubt
      <4>3. ASSUME ~Doubt PROVE known' = Fitted /\ states' = relay
        BY <2>8, <2>9, <3>2, <4>1, <4>3
      <4> QED
        BY <3>4, <4>2, <4>3
    <3> QED
      BY <3>5, <3>6
  <2> QED
    BY <2>10, <2>11, <2>12
<1>6. CASE ReceiveByOther
  <2>1. /\ ~waiting
        /\ UNCHANGED <<queue, waiting, devState, known, states, relay, frame>>
    BY <1>6 DEF ReceiveByOther, deviceVars
  <2> QED
    BY <2>1 DEF Doubt, Tracks, Learnt
<1>7. CASE Timeout
  BY <1>7 DEF Timeout, Fail, Doubt
<1>8. CASE Restart
  <2>1. PICK q : q = NewRequest("query", Channel)
    OBVIOUS
  <2>2. q \in Request /\ q.command = "query"
    BY <2>1 DEF NewRequest, Request
  <2>3. CASE UNCHANGED <<queue, devState>>
    BY <1>8, <2>3 DEF Restart, boardVars, Doubt, Tracks, Learnt, Done, Closed
  <2>4. CASE Len(queue) < MaxQueue /\ queue' = Append(queue, q)
    BY <2>2, <2>4, JoinedHead DEF Doubt
  <2> QED
    BY <1>8, <2>1, <2>3, <2>4 DEF Restart
<1>9. CASE UNCHANGED vars
  BY <1>9 DEF vars, deviceVars, boardVars, Doubt, Tracks, Learnt, Done, Closed
<1> QED
  BY <1>1, <1>2, <1>3, <1>4, <1>5, <1>6, <1>7, <1>8, <1>9 DEF Next, SomeCommand

\* R421A/Device.h, "Tracks current output states as far as possible".  Whatever
\* gets lost, is refused or is half done, a device that is idle and not in fault
\* knows every relay of the board, if answers come before the next frame is sent
\* and no `latch' is.
THEOREM RelaysKnown ==
    ASSUME ~Late, Tellable
    PROVE  Spec => []Faithful
<1>1. Init => Known
  BY BaseInit DEF Known, Init, Exchange, Doubt
<1>2. Known /\ [Next]_vars => Known'
  BY BaseStep, ExchangeStep, TracksStep DEF Known
<1>3. Known => Faithful
  BY DEF Known, Doubt, Tracks, Faithful
<1> QED
  BY <1>1, <1>2, <1>3, PTL DEF Spec

=============================================================================
