----------------------------- MODULE ModbusADU -----------------------------
(***************************************************************************)
(* The serial frame around a Modbus PDU (src/src/Modbus/ADU.cpp): slave    *)
(* address, function code, data and checksum, low octet first.             *)
(***************************************************************************)
EXTENDS ModbusPDU

MinSize == 4
MaxSize == 256

-----------------------------------------------------------------------------
(* Checksum: a register is the set of its bits that are 1 *)

\* 2 ^ b
BitValue == <<1, 2, 4, 8, 16, 32, 64, 128>>

BitsOf(octet) == {b \in 0 .. 7 : (octet \div BitValue[b + 1]) % 2 = 1}

Register == SUBSET (0 .. 15)

Xor(S, T) == (S \ T) \cup (T \ S)

ShiftRight(S) == {b - 1 : b \in S \ {0}}

Polynomial == {0, 13, 15}      \* 0xA001

\* One of the eight rounds of crc16_update().
Round(crc) == IF 0 \in crc THEN Xor(ShiftRight(crc), Polynomial) ELSE ShiftRight(crc)

TwoRounds(crc)  == Round(Round(crc))
FourRounds(crc) == TwoRounds(TwoRounds(crc))

crc16_update(crc, octet) == FourRounds(FourRounds(Xor(crc, BitsOf(octet))))

\* Octet after octet, from the first to the last of a range; in halves, so that
\* TLC's stack lasts for the longest frame.
Crc(octets) ==
    LET at == 1 .. Len(octets)
        over[r \in Register \X at \X at] ==
            LET middle == (r[2] + r[3]) \div 2
            IN IF r[2] = r[3] THEN crc16_update(r[1], octets[r[2]])
               ELSE over[<<over[<<r[1], r[2], middle>>], middle + 1, r[3]>>]
    IN over[<<0 .. 15, 1, Len(octets)>>]

OctetOf(crc, low) ==
    LET bit(b) == IF b + low \in crc THEN BitValue[b + 1] ELSE 0
    IN bit(0) + bit(1) + bit(2) + bit(3) + bit(4) + bit(5) + bit(6) + bit(7)

Checksum(octets) == LET crc == Crc(octets) IN <<OctetOf(crc, 0), OctetOf(crc, 8)>>

-----------------------------------------------------------------------------
(* Frames *)

\* preparePacket(): the buffer's first size octets and their checksum; nothing
\* if that is more than a frame can hold.
PreparePacket(address, code, data, dataSize) ==
    LET packet == <<address, code>> \o SubSeq(data, 1, dataSize) IN
    IF Len(packet) + 2 > MaxSize THEN <<>> ELSE packet \o Checksum(packet)

PrepareRequest(address, f, data) ==
    LET wire == SwapRequest(f, data) IN
    PreparePacket(address, CodeOf[f], wire, RequestDataSize(f, wire))

\* Of an exception the code is all the data there is.
PrepareResponse(address, f, data) ==
    LET wire == SwapResponse(f, data) IN
    PreparePacket(address, CodeOf[f], wire, ResponseDataSize(f, wire))

PrepareException(address, code, exception) ==
    PreparePacket(address, 128 + (code % 128), <<exception>>, 1)

\* The receiver's buffer: what came in, and before that fill.
Buffer(received, fill) ==
    [i \in 1 .. MaxSize |-> IF i <= Len(received) THEN received[i] ELSE fill]

DataIn(buffer) == SubSeq(buffer, 3, MaxSize)

ParseUnchecked(buffer, receivedSize, dataSize) ==
    IF receivedSize < MinSize \/ receivedSize < 2 + dataSize + 2 THEN "bad_size"
    ELSE "success"

\* parsePacket(): octets after the frame are not looked at.
ParsePacket(buffer, receivedSize, dataSize) ==
    LET aduSize == 2 + dataSize + 2 IN
    IF receivedSize < MinSize \/ receivedSize < aduSize THEN "bad_size"
    ELSE IF Crc(SubSeq(buffer, 1, aduSize)) # {} THEN "bad_checksum"
    ELSE "success"

\* The error, and the data in the order of memory.  A frame that is refused is
\* swapped as well; nobody reads its data then, but see RequestSwapEnd.
ParseRequest(buffer, receivedSize) ==
    ParsePacket(buffer, receivedSize,
                RequestDataSize(FunctionOf(buffer[2]), DataIn(buffer)))

RequestData(buffer) ==
    IF ExceptionFlag(buffer[2]) THEN DataIn(buffer)
    ELSE SwapRequest(FunctionOf(buffer[2]), DataIn(buffer))

ParseResponse(buffer, receivedSize) ==
    ParsePacket(buffer, receivedSize,
                IF ExceptionFlag(buffer[2]) THEN 1
                ELSE ResponseDataSize(FunctionOf(buffer[2]), DataIn(buffer)))

ResponseData(buffer) ==
    IF ExceptionFlag(buffer[2]) THEN DataIn(buffer)
    ELSE SwapResponse(FunctionOf(buffer[2]), DataIn(buffer))

-----------------------------------------------------------------------------
(* How far into the buffer the swap reaches *)

\* The last octet that bswap() of n words from data[at] on exchanges.
SwapEnd(at, n) == 2 + at + 2 * n - 1

\* swapRequestByteOrder(), which takes its count from the frame whatever
\* parsePacket() has said of it; three words at most where there is no count.
RequestSwapEnd(buffer) ==
    LET f    == FunctionOf(buffer[2])
        data == DataIn(buffer)
    IN CASE ~ExceptionFlag(buffer[2]) /\ f = "WriteMultipleRegisters" ->
               SwapEnd(6, data[5] \div 2)
         [] ~ExceptionFlag(buffer[2]) /\ f = "ReadWriteMultipleRegisters" ->
               SwapEnd(10, data[9] \div 2)
         [] OTHER -> SwapEnd(1, 3)

\* swapResponseByteOrder()
ResponseSwapEnd(buffer) ==
    IF /\ ~ExceptionFlag(buffer[2])
       /\ FunctionOf(buffer[2]) \in {"ReadHoldingRegisters", "ReadInputRegisters",
                                     "ReadWriteMultipleRegisters"}
    THEN SwapEnd(2, DataIn(buffer)[1] \div 2)
    ELSE SwapEnd(2, 3)
=============================================================================
