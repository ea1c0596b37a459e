----------------------------- MODULE ModbusLink -----------------------------
(***************************************************************************)
(* One exchange after another between a Modbus master, Modbus::Device of   *)
(* src/src/Modbus/Device.cpp, and an application that answers as a slave   *)
(* through src/src/Modbus/Slave.cpp, over a line that loses, damages and   *)
(* truncates frames and adds noise to them.                                *)
(*                                                                         *)
(* What is sent is a message: a function and the fields of its structure.  *)
(* Both ends go through the same memory images, frames and checks, those   *)
(* of ModbusADU.                                                           *)
(***************************************************************************)
EXTENDS ModbusADU

CONSTANTS
    Asked,         \* functions the master's requests use
    Served,        \* functions the slave's application implements
    Own,           \* the slave's address
    Addresses,     \* addresses the master's devices have
    Seeds,         \* one word each, from which messages are made up
    ReadCounts,    \* items asked for in reads, per function
    WriteCounts,   \* items written, more than a frame can hold included
    Fill,          \* what a receive buffer may hold where nothing came in
    Stray,         \* octets that noise can consist of
    Damageable,    \* bound: positions at which an octet can be damaged
    Cuts,          \* bound: lengths at which a frame can be cut off
    MaxLate,       \* bound: octets of an answer that is late
    MaxFaults      \* bound: faults in one exchange

ASSUME AddressAssumption  == Own \in 1 .. 247 /\ Addresses \subseteq 1 .. 247
ASSUME FunctionAssumption == Asked \subseteq Function /\ Served \subseteq Function
ASSUME MessageAssumption  == /\ Seeds \subseteq Word /\ WriteCounts \subseteq Word
                             /\ ReadCounts \in [Asked -> SUBSET Word]
ASSUME LineAssumption     == /\ Fill \subseteq Octet /\ Stray \subseteq Octet
                             /\ MaxFaults \in Nat /\ MaxLate \in Nat
                             /\ Damageable \subseteq 1 .. MaxSize /\ Cuts \subseteq 1 .. MaxSize

VARIABLES
    phase,       \* who has the bus
    frame,       \* the octets on it
    faults,      \* of this exchange
    request,     \* what the master asked, and of whom
    understood,  \* what the slave read, or Nothing
    answer,      \* what the slave answered, or Nothing
    outcome,     \* the error the request completed with, what it was told
    late,        \* an answer that is still under way, or NoAnswer
    stale        \* the answer on the bus is one that was late

vars == <<phase, frame, faults, request, understood, answer, outcome, late, stale>>

NoMessage == [words |-> <<>>, array |-> <<>>]
Nothing   == [function |-> "None", message |-> NoMessage]
NoAnswer  == [frame |-> <<>>, understood |-> Nothing, answer |-> Nothing]

Refused == [function |-> "IllegalFunction", message |-> NoMessage]

Message == [words : Seq(Word), array : Seq(Word)]
Content == [function : Function \cup {"IllegalFunction"}, message : Message]

TypeOK ==
    /\ phase \in {"idle", "request", "response", "silent"}
    /\ frame \in Seq(Octet) /\ Len(frame) <= MaxSize + MaxFaults
    /\ faults \in 0 .. MaxFaults
    /\ request \in [address : Addresses, content : Content]
    /\ understood \in Content
    /\ answer \in Content
    /\ outcome \in [error : {"pending", "success", "timeout", "bad_size", "bad_checksum",
                             "bad_param", "bad_command", "bad_node"},
                    message : Message]
    /\ late \in [frame : Seq(Octet), understood : Content, answer : Content]
    /\ stale \in BOOLEAN

Pending == [error |-> "pending", message |-> NoMessage]

Init ==
    /\ phase = "idle"
    /\ frame = <<>>
    /\ faults = 0
    /\ request \in [address : Addresses, content : {Nothing}]
    /\ understood = Nothing
    /\ answer = Nothing
    /\ outcome = Pending
    /\ late = NoAnswer
    /\ stale = FALSE

-----------------------------------------------------------------------------
(* Messages *)

\* The words and elements of a message differ from one another.
MadeUp(seed, i) == (seed * i) % 65536

Elements(layout, seed, n) ==
    [i \in 1 .. n |-> MadeUp(seed, i) % (IF layout.unit = 2 THEN 65536 ELSE 256)]

\* The application fills in a request: the addresses, the quantity and, with
\* setCount, the array.  What reads and writes reads as much as it writes.
RequestMessage(f, seed, n) ==
    LET layout == Data(f).request
        set    == SetRequestCount(f, n)
        word(i) == CASE i = 2 /\ ~layout.counted -> n
                     [] i \in {2, layout.words} /\ layout.counted -> set.quantity
                     [] OTHER -> MadeUp(seed, i)
    IN [words |-> [i \in 1 .. layout.words |-> word(i)],
        array |-> Elements(layout, seed, set.elements)]

\* So does the application of the slave, for the n items it was asked for.
ResponseMessage(f, asked, seed, n) ==
    LET layout == Data(f).response
        set    == SetResponseCount(f, n)
        word(i) == CASE layout.more > 0 /\ i = 2 -> set.quantity
                     [] i \in DOMAIN asked.words /\ layout.more = 0 -> asked.words[i]
                     [] OTHER -> MadeUp(seed, i)
    IN [words |-> [i \in 1 .. layout.words + layout.more |-> word(i)],
        array |-> Elements(layout, seed, set.elements)]

Reads == {"ReadCoils", "ReadDiscreteInputs", "ReadHoldingRegisters",
          "ReadInputRegisters", "ReadWriteMultipleRegisters"}

-----------------------------------------------------------------------------
(* The master *)

\* Device::execute(), which clears the receive buffer; with no frame the request
\* completes with bad_size.
Execute(a, f, seed, n) ==
    LET msg == RequestMessage(f, seed, n)
        out == PrepareRequest(a, f, Image(Data(f).request, SetRequestCount(f, n).byteCount, msg))
    IN
    /\ phase = "idle"
    /\ request' = [address |-> a, content |-> [function |-> f, message |-> msg]]
    /\ understood' = Nothing
    /\ answer' = Nothing
    /\ faults' = 0
    /\ frame' = out
    /\ stale' = FALSE
    /\ UNCHANGED late
    /\ IF out = <<>>
       THEN phase' = "idle" /\ outcome' = [Pending EXCEPT !.error = "bad_size"]
       ELSE phase' = "request" /\ outcome' = Pending

\* How an exception of the slave is reported.
ErrorFor(exception) ==
    CASE exception = 3 -> "bad_param"
      [] exception = 1 -> "bad_command"
      [] OTHER         -> "bad_node"

\* PDU::exception(): Success is 0.
Exception(buffer) == IF ExceptionFlag(buffer[2]) THEN ResponseData(buffer)[1] ELSE 0

\* An exception frame with the code 0 goes to the request's callback, as an
\* answer does.
Told(buffer) ==
    IF Exception(buffer) # 0
    THEN [Pending EXCEPT !.error = ErrorFor(Exception(buffer))]
    ELSE [error   |-> "success",
          message |-> Fields(Data(request.content.function).response, ResponseData(buffer))]

ReadAnyResponse(buffer, received) ==
    LET err == ParseResponse(buffer, received) IN
    IF err # "success" THEN [Pending EXCEPT !.error = err] ELSE Told(buffer)

\* readResponse()
ReadResponse(buffer, received) ==
    LET err == ParseResponse(buffer, received) IN
    CASE err # "success" -> [Pending EXCEPT !.error = err]
      [] err = "success" /\ buffer[1] # request.address -> [Pending EXCEPT !.error = "bad_param"]
      [] err = "success" /\ buffer[1] = request.address ->
            IF FunctionOf(buffer[2]) # request.content.function
            THEN [Pending EXCEPT !.error = "bad_command"] ELSE Told(buffer)

\* serial.read(): no more than the buffer of either end can hold.
Received == Least(Len(frame), MaxSize)

MasterReads(fill) ==
    /\ phase = "response"
    /\ outcome' = ReadResponse(Buffer(frame, fill), Received)
    /\ phase' = "idle"
    /\ frame' = <<>>
    /\ UNCHANGED <<faults, request, understood, answer, late, stale>>

Timeout ==
    /\ phase = "silent"
    /\ outcome' = [Pending EXCEPT !.error = "timeout"]
    /\ phase' = "idle"
    /\ UNCHANGED <<frame, faults, request, understood, answer, late, stale>>

-----------------------------------------------------------------------------
(* The slave *)

\* readRequest() and the address check: handleRS485Request() leaves everything
\* else alone.
Ignores(buffer, received) ==
    ParseRequest(buffer, received) # "success" \/ buffer[1] # Own

SlaveIgnores(fill) ==
    /\ phase = "request"
    /\ Ignores(Buffer(frame, fill), Received)
    /\ phase' = "silent"
    /\ frame' = <<>>
    /\ UNCHANGED <<faults, request, understood, answer, outcome, late, stale>>

\* Of a function it does not implement it sends an exception.
Answers(f, asked, seed, n) ==
    IF f \notin Served THEN Refused
    ELSE [function |-> f, message |-> ResponseMessage(f, asked, seed, n)]

SlaveAnswers(fill, seed, n) ==
    LET buffer == Buffer(frame, fill)
        f      == FunctionOf(buffer[2])
        asked  == Fields(Data(f).request, RequestData(buffer))
        items  == IF f \in Reads THEN asked.words[2] ELSE n
        said   == Answers(f, asked, seed, items)
    IN
    /\ phase = "request"
    /\ ~Ignores(buffer, Received)
    /\ understood' = [function |-> f, message |-> asked]
    /\ answer' = said
    /\ frame' = IF said = Refused THEN PrepareException(Own, buffer[2], 1)
                ELSE PrepareResponse(Own, f,
                        Image(Data(f).response, SetResponseCount(f, items).byteCount, said.message))
    /\ phase' = "response"
    /\ UNCHANGED <<faults, request, outcome, late, stale>>

-----------------------------------------------------------------------------
(* The line *)

OnLine == phase \in {"request", "response"}

Fault ==
    /\ OnLine
    /\ late = NoAnswer
    /\ faults < MaxFaults
    /\ faults' = faults + 1
    /\ UNCHANGED <<request, outcome, stale>>

Lose ==
    /\ Fault
    /\ phase' = "silent"
    /\ frame' = <<>>
    /\ UNCHANGED <<understood, answer, late>>

Garble == Fault /\ UNCHANGED <<phase, understood, answer, late>>

\* One bit of an octet is received wrong.
Damage ==
    /\ Garble
    /\ \E i \in Damageable \cap DOMAIN frame, b \in 0 .. 7 :
          frame' = [frame EXCEPT ![i] = IF b \in BitsOf(@) THEN @ - BitValue[b + 1]
                                             ELSE @ + BitValue[b + 1]]

Truncate ==
    /\ Garble
    /\ \E n \in Cuts : n < Len(frame) /\ frame' = SubSeq(frame, 1, n)

Noise ==
    /\ Garble
    /\ \E octet \in Stray : frame' = Append(frame, octet) \/ frame' = <<octet>> \o frame

\* An answer comes after the request has timed out, while the next is under
\* way, and is taken for the answer to that.
Delay ==
    /\ Fault
    /\ phase = "response"
    /\ Len(frame) <= MaxLate
    /\ late' = [frame |-> frame, understood |-> understood, answer |-> answer]
    /\ phase' = "silent"
    /\ frame' = <<>>
    /\ understood' = Nothing
    /\ answer' = Nothing

ComesLate ==
    /\ late # NoAnswer
    /\ phase \in {"request", "silent"}
    /\ phase' = "response"
    /\ frame' = late.frame
    /\ understood' = late.understood
    /\ answer' = late.answer
    /\ late' = NoAnswer
    /\ stale' = TRUE
    /\ UNCHANGED <<faults, request, outcome>>

-----------------------------------------------------------------------------
CountsFor(f) == IF Data(f).request.counted THEN WriteCounts ELSE ReadCounts[f]

Next ==
    \/ \E a \in Addresses, f \in Asked, seed \in Seeds :
          \E n \in CountsFor(f) : Execute(a, f, seed, n)
    \/ \E fill \in Fill, seed \in Seeds, n \in {0, 3} : SlaveAnswers(fill, seed, n)
    \/ \E fill \in Fill : MasterReads(fill) \/ SlaveIgnores(fill)
    \/ Timeout \/ Lose \/ Damage \/ Truncate \/ Noise \/ Delay \/ ComesLate

Spec == Init /\ [][Next]_vars

-----------------------------------------------------------------------------
(* Properties *)

\* Words as Modbus sends them, high octet first.
Net(ws) == [i \in 1 .. 2 * Len(ws) |->
               LET w == ws[(i + 1) \div 2] IN IF i % 2 = 1 THEN w \div 256 ELSE w % 256]

\* The Modbus encoding of a message: its byte count says how much follows.
Encoded(layout, msg) ==
    Net(SubSeq(msg.words, 1, layout.words))
    \o (IF layout.counted THEN <<2 * layout.more + layout.unit * Len(msg.array)>> ELSE <<>>)
    \o Net(SubSeq(msg.words, layout.words + 1, layout.words + layout.more))
    \o (IF layout.unit = 2 THEN Net(msg.array) ELSE msg.array)

FrameOf(address, code, data) ==
    LET packet == <<address, code>> \o data IN packet \o Checksum(packet)

\* PDU.h 33-45, 51: what goes out is, for every function, the Modbus encoding
\* of the fields the application set: sizes, byte counts and the swapping of
\* words agree with the structures, for requests and for responses.
Conforms == faults = 0 /\ ~stale =>
    /\ phase = "request" =>
          frame = FrameOf(request.address, CodeOf[request.content.function],
                          Encoded(Data(request.content.function).request,
                                  request.content.message))
    /\ phase = "response" /\ answer # Refused =>
          frame = FrameOf(Own, CodeOf[answer.function],
                          Encoded(Data(answer.function).response, answer.message))

\* ADU.cpp 94-131: whatever happens on the line, and whatever its buffer held
\* before, a slave that takes a frame for a request has read what was asked.
Understood == understood # Nothing /\ ~stale =>
    understood = request.content /\ request.address = Own

\* Device.cpp 111-154: a request that succeeds has been told what the slave,
\* asked by it, answered; if the answer was late, then at least what the same
\* slave answered to the same function.  One that reports an illegal function
\* was refused, unless the answer was late, and any other error has a cause.
Answered == phase = "idle" /\ outcome.error # "pending" =>
    CASE outcome.error = "success" ->
            /\ request.address = Own
            /\ outcome.message = answer.message
            /\ answer.function = request.content.function
            /\ ~stale => understood = request.content
      [] outcome.error = "bad_command" -> answer = Refused \/ stale
      [] outcome.error = "bad_param"   -> stale /\ request.address # Own
      [] outcome.error \in {"timeout", "bad_size", "bad_checksum"} ->
            faults > 0 \/ request.address # Own
      [] OTHER -> FALSE

\* ADU.h 33-40: parsing a frame writes to the buffer only.  The code does not
\* keep this: ADU.cpp 97 and 104 swap a frame that has been refused too, by a
\* byte count that nobody has checked.
SwapsInside ==
    \A fill \in Fill :
        /\ phase = "request"  => RequestSwapEnd(Buffer(frame, fill)) <= MaxSize
        /\ phase = "response" => ResponseSwapEnd(Buffer(frame, fill)) <= MaxSize
=============================================================================
