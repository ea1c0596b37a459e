----------------------------- MODULE ModbusPDU -----------------------------
(***************************************************************************)
(* The content of Modbus frames (include/IO/Modbus/PDU.h, ADU.h and        *)
(* src/Modbus/PDU.cpp, ADU.cpp) as operators.                              *)
(*                                                                         *)
(* PDU.h says how the data of a request or response is laid out in memory, *)
(* low byte of a word first; PDU.cpp computes its size from the byte count *)
(* in it and swaps the bytes of its words, function by function.  Both are *)
(* modelled as they are written; that they agree is for the properties.    *)
(*                                                                         *)
(* Data is a sequence of octets, data[1] the octet after the function code.*)
(***************************************************************************)
EXTENDS Integers, Sequences

MaxOctet == 255
Octet    == 0 .. MaxOctet
MaxWord  == 65535
Word     == 0 .. MaxWord

\* Function.h
Function == {"None", "ReadCoils", "ReadDiscreteInputs", "ReadHoldingRegisters",
             "ReadInputRegisters", "WriteSingleCoil", "WriteSingleRegister",
             "ReadExceptionStatus", "GetComEventCounter", "GetComEventLog",
             "WriteMultipleCoils", "WriteMultipleRegisters", "ReportServerId",
             "MaskWriteRegister", "ReadWriteMultipleRegisters"}

CodeOf == [None |-> 0, ReadCoils |-> 1, ReadDiscreteInputs |-> 2,
           ReadHoldingRegisters |-> 3, ReadInputRegisters |-> 4,
           WriteSingleCoil |-> 5, WriteSingleRegister |-> 6,
           ReadExceptionStatus |-> 7, GetComEventCounter |-> 11,
           GetComEventLog |-> 12, WriteMultipleCoils |-> 15,
           WriteMultipleRegisters |-> 16, ReportServerId |-> 17,
           MaskWriteRegister |-> 22, ReadWriteMultipleRegisters |-> 23]

\* A function code that is none of these is treated as None is, but not equal to it.
FunctionOf(code) == IF \E f \in Function : CodeOf[f] = code % 128
                    THEN CHOOSE f \in Function : CodeOf[f] = code % 128 ELSE "Unknown"

ExceptionFlag(code) == code >= 128

Least(a, b) == IF a < b THEN a ELSE b

-----------------------------------------------------------------------------
(* PDU::Data: what each structure holds *)

\* words uint16_t; if counted, then byteCount, more words, and an array of
\* at most max octets, its elements of unit octets each.
Fixed(words) == [words |-> words, counted |-> FALSE, more |-> 0, unit |-> 1, max |-> 0]

Counted(words, more, unit, max) ==
    [words |-> words, counted |-> TRUE, more |-> more, unit |-> unit, max |-> max]

OneOctet == [Fixed(0) EXCEPT !.max = 1]

NoData             == [request |-> Fixed(0), response |-> Fixed(0)]
ReadBits           == [request |-> Fixed(2), response |-> Counted(0, 0, 1, 250)]
ReadRegisters      == [request |-> Fixed(2), response |-> Counted(0, 0, 2, 250)]
WriteSingle        == [request |-> Fixed(2), response |-> Fixed(2)]
ExceptionStatus    == [request |-> Fixed(0), response |-> OneOctet]
ComEventCounter    == [request |-> Fixed(0), response |-> Fixed(2)]
ComEventLog        == [request |-> Fixed(0), response |-> Counted(0, 3, 1, 64)]
WriteCoils         == [request |-> Counted(2, 0, 1, 246), response |-> Fixed(2)]
WriteRegisters     == [request |-> Counted(2, 0, 2, 246), response |-> Fixed(2)]
ServerId           == [request |-> Fixed(0), response |-> Counted(0, 0, 1, 250)]
MaskWrite          == [request |-> Fixed(3), response |-> Fixed(3)]
ReadWriteRegisters == [request |-> Counted(4, 0, 2, 242), response |-> Counted(0, 0, 2, 250)]

Data(f) ==
    CASE f \in {"None", "Unknown"}                         -> NoData
      [] f \in {"ReadCoils", "ReadDiscreteInputs"}         -> ReadBits
      [] f \in {"ReadHoldingRegisters", "ReadInputRegisters"} -> ReadRegisters
      [] f \in {"WriteSingleCoil", "WriteSingleRegister"}  -> WriteSingle
      [] f = "ReadExceptionStatus"                         -> ExceptionStatus
      [] f = "GetComEventCounter"                          -> ComEventCounter
      [] f = "GetComEventLog"                              -> ComEventLog
      [] f = "WriteMultipleCoils"                          -> WriteCoils
      [] f = "WriteMultipleRegisters"                      -> WriteRegisters
      [] f = "ReportServerId"                              -> ServerId
      [] f = "MaskWriteRegister"                           -> MaskWrite
      [] f = "ReadWriteMultipleRegisters"                  -> ReadWriteRegisters

-----------------------------------------------------------------------------
(* The setCount methods *)

\* What they leave in byteCount and in the quantity field for n items, and how
\* many elements of the array the caller then fills.
Setting(byteCount, quantity, elements) ==
    [byteCount |-> byteCount % (MaxOctet + 1), quantity |-> quantity, elements |-> elements]

OctetsFor(bits) == (bits + 7) \div 8

SetRequestCount(f, n) ==
    CASE f = "WriteMultipleCoils" ->
            LET q == Least(n, 8 * 246) IN Setting(OctetsFor(q), q, OctetsFor(q))
      [] f = "WriteMultipleRegisters" ->
            LET q == Least(n, 123) IN Setting(2 * q, q, q)
      [] f = "ReadWriteMultipleRegisters" ->
            LET q == Least(n, 121) IN Setting(2 * q, q, q)
      [] OTHER -> Setting(0, 0, 0)

\* Only ReadInputRegisters and GetComEventLog limit the count.  The byte count
\* of an event log is one more than the octets that follow it.
SetResponseCount(f, n) ==
    CASE f \in {"ReadCoils", "ReadDiscreteInputs"} ->
            Setting(OctetsFor(n), 0, Least(OctetsFor(n), 250))
      [] f \in {"ReadHoldingRegisters", "ReadWriteMultipleRegisters"} ->
            Setting(2 * n, 0, Least(n, 125))
      [] f = "ReadInputRegisters" ->
            LET q == Least(n, 125) IN Setting(2 * q, 0, q)
      [] f = "GetComEventLog" ->
            LET q == Least(n, 64) IN Setting(7 + q, q, q)
      [] f = "ReportServerId" -> Setting(2 + n, 0, Least(2 + n, 250))
      [] f = "ReadExceptionStatus" -> Setting(0, 0, 1)
      [] OTHER -> Setting(0, 0, 0)

-----------------------------------------------------------------------------
(* Memory *)

\* Words as they lie in memory.
Host(ws) == [i \in 1 .. 2 * Len(ws) |->
                LET w == ws[(i + 1) \div 2] IN IF i % 2 = 1 THEN w % 256 ELSE w \div 256]

\* A message is its words and its array; count is what byteCount holds.
Image(layout, count, msg) ==
    Host(SubSeq(msg.words, 1, layout.words))
    \o (IF layout.counted THEN <<count>> ELSE <<>>)
    \o Host(SubSeq(msg.words, layout.words + 1, layout.words + layout.more))
    \o (IF layout.unit = 2 THEN Host(msg.array) ELSE msg.array)

WordAtShifted(data, i) == data[i] + 512 * data[i + 1]

WordAt(data, i) == data[i] + 256 * data[i + 1]

\* Where the array begins.
ArrayAt(layout) == 2 * (layout.words + layout.more) + (IF layout.counted THEN 2 ELSE 1)

\* The size of the array in octets: what the getCount methods start from.
ArraySize(layout, data) ==
    IF layout.counted THEN data[2 * layout.words + 1] - 2 * layout.more ELSE layout.max

\* The fields of data: what the application reads in the structure.
Fields(layout, data) ==
    [words |-> [i \in 1 .. layout.words + layout.more |->
                    WordAt(data, 2 * i - (IF i > layout.words THEN 0 ELSE 1))],
     array |-> [i \in 1 .. ArraySize(layout, data) \div layout.unit |->
                    IF layout.unit = 2 THEN WordAt(data, ArrayAt(layout) + 2 * (i - 1))
                    ELSE data[ArrayAt(layout) + i - 1]]]

-----------------------------------------------------------------------------
(* Size and byte order *)

RequestDataSize(f, data) ==
    CASE f \in {"ReadCoils", "ReadDiscreteInputs", "ReadHoldingRegisters",
                "ReadInputRegisters", "WriteSingleCoil", "WriteSingleRegister"} -> 4
      [] f \in {"WriteMultipleCoils", "WriteMultipleRegisters"} -> 5 + data[5]
      [] f = "MaskWriteRegister" -> 6
      [] f = "ReadWriteMultipleRegisters" -> 9 + data[9]
      [] OTHER -> 0

ResponseDataSize(f, data) ==
    CASE f \in {"ReadCoils", "ReadDiscreteInputs", "ReadHoldingRegisters",
                "ReadInputRegisters", "ReportServerId", "ReadWriteMultipleRegisters",
                "GetComEventLog"} -> 1 + data[1]
      [] f \in {"WriteSingleCoil", "WriteSingleRegister", "GetComEventCounter",
                "WriteMultipleCoils", "WriteMultipleRegisters"} -> 4
      [] f = "ReadExceptionStatus" -> 1
      [] f = "MaskWriteRegister" -> 6
      [] OTHER -> 0

SwappedShort(data, at, n) ==
    [i \in DOMAIN data |->
        IF i < at \/ i >= at + 2 * (n - 1) THEN data[i]
        ELSE IF (i - at) % 2 = 0 THEN data[i + 1] ELSE data[i - 1]]

\* bswap(): the n words from data[at] on.
Swapped(data, at, n) ==
    [i \in DOMAIN data |->
        IF i < at \/ i >= at + 2 * n THEN data[i]
        ELSE IF (i - at) % 2 = 0 THEN data[i + 1] ELSE data[i - 1]]

SwapRequest(f, data) ==
    CASE f \in {"None", "Unknown", "GetComEventLog", "ReadExceptionStatus",
                "ReportServerId"} -> data
      [] f \in {"ReadCoils", "ReadDiscreteInputs", "ReadHoldingRegisters",
                "ReadInputRegisters", "WriteSingleCoil", "WriteSingleRegister",
                "GetComEventCounter", "WriteMultipleCoils"} -> Swapped(data, 1, 2)
      [] f = "WriteMultipleRegisters" ->
            Swapped(Swapped(data, 1, 2), 6, data[5] \div 2)
      [] f = "MaskWriteRegister" -> Swapped(data, 1, 3)
      [] f = "ReadWriteMultipleRegisters" ->
            Swapped(Swapped(data, 1, 4), 10, data[9] \div 2)

SwapResponse(f, data) ==
    CASE f \in {"None", "Unknown", "ReadCoils", "ReadDiscreteInputs",
                "ReadExceptionStatus", "ReportServerId"} -> data
      [] f \in {"ReadHoldingRegisters", "ReadInputRegisters",
                "ReadWriteMultipleRegisters"} -> Swapped(data, 2, data[1] \div 2)
      [] f \in {"WriteSingleCoil", "WriteSingleRegister", "GetComEventCounter",
                "WriteMultipleCoils", "WriteMultipleRegisters"} -> Swapped(data, 1, 2)
      [] f = "GetComEventLog" -> Swapped(data, 2, 3)
      [] f = "MaskWriteRegister" -> Swapped(data, 1, 3)
=============================================================================
