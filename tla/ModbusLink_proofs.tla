-------------------------- MODULE ModbusLink_proofs --------------------------
(***************************************************************************)
(* Proofs about the exchange of Modbus frames, for any addresses, seeds,   *)
(* fill and number of exchanges.                                           *)
(*                                                                         *)
(* What goes out is the Modbus encoding of the message; what is read of a  *)
(* frame that arrives whole is the message again, for every function; and  *)
(* a frame that is cut off, or has a wrong octet, or does not begin with   *)
(* an address, is left alone.  From that: with at most one fault in an     *)
(* exchange the slave understands what it was asked or nothing, and the    *)
(* master is told what was answered, or why not.                           *)
(***************************************************************************)
EXTENDS ModbusLink, ModbusADU_proofs

-----------------------------------------------------------------------------
(* Words and their octets *)

\* Words as octets, in the order of memory and in that of Modbus.
LEMMA HostOctets ==
    ASSUME NEW S, Octet \subseteq S, NEW ws \in Seq(Word)
    PROVE  /\ Host(ws) \in Seq(S) /\ Len(Host(ws)) = 2 * Len(ws)
           /\ \A i \in 1 .. 2 * Len(ws) :
                 Host(ws)[i] = IF i % 2 = 1 THEN ws[(i + 1) \div 2] % 256
                                            ELSE ws[(i + 1) \div 2] \div 256
<1>0. PICK k \in Nat : k = Len(ws)
  BY LenProperties
<1>1. \A i \in 1 .. 2 * k : (i + 1) \div 2 \in 1 .. k
  OBVIOUS
<1>2. \A i \in 1 .. 2 * k : ws[(i + 1) \div 2] \in Word
  BY <1>0, <1>1, ElementOfSeq
<1>3. \A w \in Word : (w % 256) \in S /\ (w \div 256) \in S
  BY LowHigh
<1>4. Host(ws) = [i \in 1 .. 2 * k |-> IF i % 2 = 1 THEN ws[(i + 1) \div 2] % 256
                                                    ELSE ws[(i + 1) \div 2] \div 256]
  BY <1>0 DEF Host
<1>5. Host(ws) \in [1 .. 2 * k -> S]
  BY <1>2, <1>3, <1>4
<1>6. PICK n \in Nat : n = 2 * k
  OBVIOUS
<1>7. Host(ws) \in Seq(S) /\ Len(Host(ws)) = n
  BY <1>5, <1>6
<1> QED
  BY <1>0, <1>4, <1>6, <1>7

\* Words in the order of Modbus, octet by octet.
LEMMA NetOctets ==
    ASSUME NEW S, Octet \subseteq S, NEW ws \in Seq(Word)
    PROVE  /\ Net(ws) \in Seq(S) /\ Len(Net(ws)) = 2 * Len(ws)
           /\ \A i \in 1 .. 2 * Len(ws) :
                 Net(ws)[i] = IF i % 2 = 1 THEN ws[(i + 1) \div 2] \div 256
                                           ELSE ws[(i + 1) \div 2] % 256
<1>0. PICK k \in Nat : k = Len(ws)
  BY LenProperties
<1>1. \A i \in 1 .. 2 * k : (i + 1) \div 2 \in 1 .. k
  OBVIOUS
<1>2. \A i \in 1 .. 2 * k : ws[(i + 1) \div 2] \in Word
  BY <1>0, <1>1, ElementOfSeq
<1>3. \A w \in Word : (w % 256) \in S /\ (w \div 256) \in S
  BY LowHigh
<1>4. Net(ws) = [i \in 1 .. 2 * k |-> IF i % 2 = 1 THEN ws[(i + 1) \div 2] \div 256
                                                   ELSE ws[(i + 1) \div 2] % 256]
  BY <1>0 DEF Net
<1>5. Net(ws) \in [1 .. 2 * k -> S]
  BY <1>2, <1>3, <1>4
<1>6. PICK n \in Nat : n = 2 * k
  OBVIOUS
<1>7. Net(ws) \in Seq(S) /\ Len(Net(ws)) = n
  BY <1>5, <1>6
<1> QED
  BY <1>0, <1>4, <1>6, <1>7

\* PDU.cpp 118-126: swapping the octets of words in place turns one order into
\* the other, and leaves what is around them.
LEMMA SwapWords ==
    ASSUME NEW S, Octet \subseteq S, NEW ws \in Seq(Word)
    PROVE  Swaps(S, Host(ws), Net(ws), Len(ws)) /\ Swaps(S, Net(ws), Host(ws), Len(ws))
<1>1. PICK k \in Nat : k = Len(ws)
  BY LenProperties
<1>2. PICK h \in Seq(S) : h = Host(ws)
  BY HostOctets
<1>3. PICK w \in Seq(S) : w = Net(ws)
  BY NetOctets
<1>4. /\ Len(h) = 2 * k
      /\ \A i \in 1 .. 2 * k :
            h[i] = IF i % 2 = 1 THEN ws[(i + 1) \div 2] % 256 ELSE ws[(i + 1) \div 2] \div 256
  <2>1. /\ Len(h) = 2 * Len(ws)
        /\ \A i \in 1 .. 2 * Len(ws) :
            h[i] = IF i % 2 = 1 THEN ws[(i + 1) \div 2] % 256 ELSE ws[(i + 1) \div 2] \div 256
    BY <1>2, HostOctets
  <2> QED
    BY <2>1, <1>1
<1>5. /\ Len(w) = 2 * k
      /\ \A i \in 1 .. 2 * k :
            w[i] = IF i % 2 = 1 THEN ws[(i + 1) \div 2] \div 256 ELSE ws[(i + 1) \div 2] % 256
  <2>1. /\ Len(w) = 2 * Len(ws)
        /\ \A i \in 1 .. 2 * Len(ws) :
            w[i] = IF i % 2 = 1 THEN ws[(i + 1) \div 2] \div 256 ELSE ws[(i + 1) \div 2] % 256
    BY <1>3, NetOctets
  <2> QED
    BY <2>1, <1>1
<1>6. ASSUME NEW i \in 1 .. 2 * k
      PROVE  /\ h[i] = IF i % 2 = 1 THEN w[i + 1] ELSE w[i - 1]
             /\ w[i] = IF i % 2 = 1 THEN h[i + 1] ELSE h[i - 1]
  <2>1. PICK j : j = (i + 1) \div 2
    OBVIOUS
  <2>2. CASE i % 2 = 1
    <3>1. i + 1 \in 1 .. 2 * k /\ ((i + 1) + 1) \div 2 = j /\ (i + 1) % 2 # 1
      BY <2>1, <2>2, Pairs
    <3>2. h[i] = ws[j] % 256 /\ h[i + 1] = ws[j] \div 256
      BY <3>1, <2>1, <2>2, <1>4
    <3>3. w[i] = ws[j] \div 256 /\ w[i + 1] = ws[j] % 256
      BY <3>1, <2>1, <2>2, <1>5
    <3> QED
      BY <3>2, <3>3, <2>2
  <2>3. CASE i % 2 # 1
    <3>1. i - 1 \in 1 .. 2 * k /\ ((i - 1) + 1) \div 2 = j /\ (i - 1) % 2 = 1
      BY <2>1, <2>3, Pairs
    <3>2. h[i] = ws[j] \div 256 /\ h[i - 1] = ws[j] % 256
      BY <3>1, <2>1, <2>3, <1>4
    <3>3. w[i] = ws[j] % 256 /\ w[i - 1] = ws[j] \div 256
      BY <3>1, <2>1, <2>3, <1>5
    <3> QED
      BY <3>2, <3>3, <2>3
  <2> QED
    BY <2>2, <2>3
<1>7. Turned(h, w, k) /\ Turned(w, h, k)
  BY <1>4, <1>5, <1>6 DEF Turned
<1>8. Swaps(S, h, w, k) /\ Swaps(S, w, h, k)
  BY <1>7, SwapPairs
<1> QED
  BY <1>1, <1>2, <1>3, <1>8

-----------------------------------------------------------------------------
(* Layouts and the messages that fill them *)

\* The parts of a structure behind its words: the byte count, and the array in
\* the order of memory or of Modbus.
CountIn(layout, c)  == IF layout.counted THEN <<c>> ELSE <<>>
StoredIn(layout, a) == IF layout.unit = 2 THEN Host(a) ELSE a
SentIn(layout, a)   == IF layout.unit = 2 THEN Net(a) ELSE a

\* A layout without words behind its byte count; only GetComEventLog has such.
Plain(layout) ==
    /\ layout.words \in Nat /\ layout.more = 0
    /\ layout.counted \in BOOLEAN /\ layout.unit \in {1, 2}
    /\ ~layout.counted => layout.unit = 1

\* A message that fills the structure, whose byte count is c.
Proper(layout, c, msg) ==
    /\ msg \in Message
    /\ Len(msg.words) = layout.words
    /\ layout.unit = 1 => msg.array \in Seq(Octet)
    /\ layout.counted => c \in Octet /\ c = layout.unit * Len(msg.array)
    /\ ~layout.counted => Len(msg.array) = layout.max

\* The array in octets.
LEMMA Arrays ==
    ASSUME NEW S, Octet \subseteq S, NEW layout, Plain(layout), NEW c, NEW msg, Proper(layout, c, msg)
    PROVE  /\ msg.words \in Seq(Word)
           /\ CountIn(layout, c) \in Seq(S)
           /\ StoredIn(layout, msg.array) \in Seq(S)
           /\ SentIn(layout, msg.array) \in Seq(S)
           /\ layout.unit * Len(msg.array) \in Nat
           /\ Len(StoredIn(layout, msg.array)) = layout.unit * Len(msg.array)
           /\ Len(SentIn(layout, msg.array)) = layout.unit * Len(msg.array)
<1>1. msg.words \in Seq(Word) /\ msg.array \in Seq(Word)
  BY DEF Proper, Message
<1>2. CountIn(layout, c) \in Seq(S)
  BY EmptySeq DEF CountIn, Proper
<1>3. PICK n \in Nat : n = Len(msg.array)
  BY <1>1, LenProperties
<1>4. CASE layout.unit = 2
  <2>1. Host(msg.array) \in Seq(S) /\ Len(Host(msg.array)) = 2 * Len(msg.array)
    BY <1>1, HostOctets
  <2>2. Net(msg.array) \in Seq(S) /\ Len(Net(msg.array)) = 2 * Len(msg.array)
    BY <1>1, NetOctets
  <2> QED
    BY <1>1, <1>2, <1>3, <1>4, <2>1, <2>2 DEF StoredIn, SentIn
<1>5. CASE layout.unit = 1
  <2>1. msg.array \in Seq(S)
    BY <1>5, SeqMonotonic DEF Proper
  <2>2. 1 * n = n
    OBVIOUS
  <2> QED
    BY <1>1, <1>2, <1>3, <1>5, <2>1, <2>2 DEF StoredIn, SentIn
<1> QED
  BY <1>4, <1>5 DEF Plain

\* PDU.h 33-45: the image of a structure in memory, and what Modbus sends of it,
\* are the same parts in two orders.
LEMMA Forms ==
    ASSUME NEW layout, Plain(layout), NEW c, NEW msg, Proper(layout, c, msg)
    PROVE  /\ Image(layout, c, msg) =
                 Join(Join(Host(msg.words), CountIn(layout, c)), StoredIn(layout, msg.array))
           /\ Encoded(layout, msg) =
                 Join(Join(Net(msg.words), CountIn(layout, c)), SentIn(layout, msg.array))
<1>0. PICK w \in Nat : w = layout.words /\ w = Len(msg.words)
  BY DEF Plain, Proper
<1>1. msg.words \in Seq(Word)
  BY DEF Proper, Message
<1>2. SubSeq(msg.words, 1, w) = msg.words
  BY <1>0, <1>1
<1>3. SubSeq(msg.words, w + 1, w + 0) = <<>>
  BY <1>0, SubSeqEmpty
<1>4. Host(<<>>) = <<>> /\ Net(<<>>) = <<>>
  BY DEF Host, Net
<1>5. PICK s \in Seq(Octet) : s = Host(msg.words)
  BY <1>1, HostOctets
<1>6. PICK n \in Seq(Octet) : n = Net(msg.words)
  BY <1>1, NetOctets
<1>7. PICK k \in Seq(Octet) : k = CountIn(layout, c)
  BY Arrays
<1>8. Join(s, k) \in Seq(Octet) /\ Join(n, k) \in Seq(Octet)
  BY JoinTwo
<1>9. Join(Join(s, k), <<>>) = Join(s, k) /\ Join(Join(n, k), <<>>) = Join(n, k)
  BY <1>8, JoinEmpty
<1>10. /\ layout.more = 0 /\ w + layout.more = w + 0
       /\ 2 * layout.more + layout.unit * Len(msg.array) = layout.unit * Len(msg.array)
  <2>1. layout.unit * Len(msg.array) \in Nat
    BY Arrays
  <2> QED
    BY <1>0, <2>1 DEF Plain
<1>11. (IF layout.counted THEN <<2 * layout.more + layout.unit * Len(msg.array)>> ELSE <<>>) = k
  BY <1>7, <1>10 DEF CountIn, Proper
<1>12. Image(layout, c, msg) = Join(Join(Join(s, k), <<>>), StoredIn(layout, msg.array))
  BY <1>0, <1>2, <1>3, <1>4, <1>5, <1>7, <1>10 DEF Image, StoredIn, CountIn, Join
<1>13. Encoded(layout, msg) = Join(Join(Join(n, k), <<>>), SentIn(layout, msg.array))
  BY <1>0, <1>2, <1>3, <1>4, <1>6, <1>10, <1>11 DEF Encoded, SentIn, Join
<1> QED
  BY <1>5, <1>6, <1>7, <1>9, <1>12, <1>13

\* How much Modbus sends.
LEMMA EncodedLen ==
    ASSUME NEW layout, Plain(layout), NEW c, NEW msg, Proper(layout, c, msg)
    PROVE  /\ Encoded(layout, msg) \in Seq(Octet)
           /\ Image(layout, c, msg) \in Seq(Octet)
           /\ Len(Encoded(layout, msg)) = IF layout.counted THEN 2 * layout.words + 1 + c
                                          ELSE 2 * layout.words + layout.max
<1>0. PICK w \in Nat : w = layout.words /\ w = Len(msg.words)
  BY DEF Plain, Proper
<1>1. PICK s \in Seq(Octet) : s = Host(msg.words)
  BY HostOctets DEF Proper, Message
<1>2. PICK n \in Seq(Octet) : n = Net(msg.words) /\ Len(n) = 2 * w
  BY <1>0, NetOctets DEF Proper, Message
<1>3. PICK k \in Seq(Octet) : k = CountIn(layout, c)
  BY Arrays
<1>31. Len(k) = IF layout.counted THEN 1 ELSE 0
  <2>1. Len(<<c>>) = 1 /\ Len(<<>>) = 0
    OBVIOUS
  <2> QED
    BY <2>1, <1>3 DEF CountIn
<1>4. PICK a \in Seq(Octet) : a = StoredIn(layout, msg.array)
  BY Arrays
<1>5. PICK b \in Seq(Octet) : b = SentIn(layout, msg.array) /\ Len(b) = layout.unit * Len(msg.array)
  BY Arrays
<1>6. Join(s, k) \in Seq(Octet) /\ Join(n, k) \in Seq(Octet) /\ Len(Join(n, k)) = Len(n) + Len(k)
  BY JoinTwo
<1>7. /\ Join(Join(s, k), a) \in Seq(Octet) /\ Join(Join(n, k), b) \in Seq(Octet)
      /\ Len(Join(Join(n, k), b)) = Len(Join(n, k)) + Len(b)
  BY <1>6, JoinTwo
<1>8. Len(b) = IF layout.counted THEN c ELSE layout.max
  <2>1. CASE layout.counted
    BY <2>1, <1>5 DEF Proper
  <2>2. CASE ~layout.counted
    <3>1. PICK m \in Nat : m = Len(msg.array)
      BY LenProperties DEF Proper, Message
    <3>2. 1 * m = m
      OBVIOUS
    <3> QED
      BY <2>2, <3>1, <3>2, <1>5 DEF Proper, Plain
  <2> QED
    BY <2>1, <2>2
<1>9. PICK j \in Nat : j = Len(b)
  BY LenProperties
<1>10. Encoded(layout, msg) = Join(Join(n, k), b) /\ Image(layout, c, msg) = Join(Join(s, k), a)
  BY <1>1, <1>2, <1>3, <1>4, <1>5, Forms
<1>11. Len(Join(Join(n, k), b)) = (2 * w + Len(k)) + j
  BY <1>2, <1>6, <1>7, <1>9
<1>12. (2 * w + Len(k)) + j = IF layout.counted THEN 2 * w + 1 + c ELSE 2 * w + layout.max
  <2>1. CASE layout.counted
    BY <2>1, <1>31, <1>8, <1>9
  <2>2. CASE ~layout.counted
    BY <2>2, <1>31, <1>8, <1>9
  <2> QED
    BY <2>1, <2>2
<1> QED
  BY <1>0, <1>7, <1>10, <1>11, <1>12

-----------------------------------------------------------------------------
(* Swapping a structure *)

\* Swapping what stands first, and what stands behind s.
LEMMA FirstSwapped ==
    ASSUME NEW S, NEW k \in Nat, NEW a \in Seq(S), NEW b \in Seq(S), NEW u \in Seq(S),
           Swaps(S, a, b, k)
    PROVE  Swapped(Join(a, u), 1, k) = Join(b, u)
<1>1. PICK e \in Seq(S) : e = <<>>
  BY EmptySeq
<1>2. Len(e) + 1 = 1
  BY <1>1
<1>3. Swapped(Join(e, Join(a, u)), Len(e) + 1, k) = Join(e, Join(b, u))
  BY DEF Swaps
<1>4. Join(a, u) \in Seq(S) /\ Join(b, u) \in Seq(S)
  BY JoinTwo
<1>5. Join(e, Join(a, u)) = Join(a, u) /\ Join(e, Join(b, u)) = Join(b, u)
  BY <1>1, <1>4, JoinEmpty
<1> QED
  BY <1>2, <1>3, <1>5

\* Words behind octets that stay: the octets keep their place.
LEMMA LastSwapped ==
    ASSUME NEW S, NEW k \in Nat, NEW s \in Seq(S), NEW a \in Seq(S), NEW b \in Seq(S),
           NEW t \in Seq(S), Swaps(S, a, b, k)
    PROVE  Swapped(Join(Join(s, a), t), Len(s) + 1, k) = Join(Join(s, b), t)
<1>1. Swapped(Join(s, Join(a, t)), Len(s) + 1, k) = Join(s, Join(b, t))
  BY DEF Swaps
<1>2. Join(Join(s, a), t) = Join(s, Join(a, t)) /\ Join(Join(s, b), t) = Join(s, Join(b, t))
  BY JoinThree
<1> QED
  BY <1>1, <1>2

\* The byte count stands right behind the words.
LEMMA CountAt ==
    ASSUME NEW S, NEW c \in S, NEW a \in Seq(S), NEW b \in Seq(S), NEW t \in Seq(S)
    PROVE  Join(Join(Join(a, <<c>>), b), t)[Len(a) + 1] = c
<1>0. <<c>> \in Seq(S)
  OBVIOUS
<1>1. PICK k : k = <<c>>
  OBVIOUS
<1>2. k \in Seq(S) /\ Len(k) = 1 /\ k[1] = c
  BY <1>0, <1>1
<1>3. Join(b, t) \in Seq(S) /\ Join(a, k) \in Seq(S) /\ Len(Join(a, k)) = Len(a) + Len(k)
  BY <1>2, JoinTwo
<1>4. Join(Join(Join(a, k), b), t) = Join(Join(a, k), Join(b, t))
  BY <1>3, JoinThree
<1>5. PICK n \in Nat : n = Len(a)
  BY LenProperties
<1>6. n + 1 \in 1 .. Len(Join(a, k))
  BY <1>2, <1>3, <1>5
<1>7. Join(Join(a, k), Join(b, t))[n + 1] = Join(a, k)[n + 1]
  BY <1>3, <1>6, JoinAt
<1>8. Join(a, k)[n + 1] = k[1]
  <2>1. k \in Seq(S)
    BY <1>2
  <2>2. \A i \in 1 .. Len(k) : Join(a, k)[Len(a) + i] = k[i]
    BY <2>1, JoinAt
  <2> QED
    BY <2>2, <1>2, <1>5
<1> QED
  BY <1>1, <1>2, <1>4, <1>5, <1>7, <1>8

\* A structure of words and single octets is swapped at its words.
LEMMA WordsSwapped ==
    ASSUME NEW S, Octet \subseteq S, NEW layout, Plain(layout), layout.unit = 1,
           NEW c, NEW msg, Proper(layout, c, msg), NEW t \in Seq(S)
    PROVE  /\ Swapped(Join(Image(layout, c, msg), t), 1, layout.words) = Join(Encoded(layout, msg), t)
           /\ Swapped(Join(Encoded(layout, msg), t), 1, layout.words) = Join(Image(layout, c, msg), t)
<1>0. PICK w \in Nat : w = layout.words /\ w = Len(msg.words)
  BY DEF Plain, Proper
<1>1. PICK ws \in Seq(Word) : ws = msg.words
  BY Arrays
<1>2. PICK h \in Seq(S) : h = Host(ws)
  BY HostOctets
<1>3. PICK n \in Seq(S) : n = Net(ws)
  BY NetOctets
<1>4. PICK k \in Seq(S) : k = CountIn(layout, c)
  BY Arrays
<1>5. PICK a \in Seq(S) : a = StoredIn(layout, msg.array) /\ a = SentIn(layout, msg.array)
  BY Arrays DEF StoredIn, SentIn
<1>6. Swaps(S, h, n, w) /\ Swaps(S, n, h, w)
  BY <1>0, <1>1, <1>2, <1>3, SwapWords
<1>7. /\ Join(k, a) \in Seq(S) /\ Join(Join(k, a), t) \in Seq(S)
  <2>1. Join(k, a) \in Seq(S)
    BY JoinTwo
  <2> QED
    BY <2>1, JoinTwo
<1>9. \A x \in Seq(S) : Join(Join(Join(x, k), a), t) = Join(x, Join(Join(k, a), t))
  BY <1>7, JoinThree
<1>11. /\ Swapped(Join(h, Join(Join(k, a), t)), 1, w) = Join(n, Join(Join(k, a), t))
       /\ Swapped(Join(n, Join(Join(k, a), t)), 1, w) = Join(h, Join(Join(k, a), t))
  BY <1>6, <1>7, FirstSwapped
<1>12. Image(layout, c, msg) = Join(Join(h, k), a) /\ Encoded(layout, msg) = Join(Join(n, k), a)
  BY <1>1, <1>2, <1>3, <1>4, <1>5, Forms
<1> QED
  BY <1>0, <1>9, <1>11, <1>12

\* A structure without words is the same in memory and on the line, unless its
\* array is one of words.
LEMMA OctetsAlike ==
    ASSUME NEW layout, Plain(layout), layout.unit = 1, layout.words = 0,
           NEW c, NEW msg, Proper(layout, c, msg)
    PROVE  Image(layout, c, msg) = Encoded(layout, msg)
<1>1. Len(msg.words) = 0
  BY DEF Proper
<1>2. msg.words = <<>>
  BY <1>1, EmptySeq DEF Proper, Message
<1>3. Host(<<>>) = <<>> /\ Net(<<>>) = <<>>
  BY DEF Host, Net
<1>4. StoredIn(layout, msg.array) = SentIn(layout, msg.array)
  BY DEF StoredIn, SentIn
<1> QED
  BY <1>2, <1>3, <1>4, Forms

\* An array of words is swapped behind its byte count.
LEMMA ArraySwapped ==
    ASSUME NEW S, Octet \subseteq S, NEW ws \in Seq(Word), NEW p \in Seq(S), NEW t \in Seq(S)
    PROVE  /\ Swapped(Join(Join(p, Host(ws)), t), Len(p) + 1, Len(ws)) = Join(Join(p, Net(ws)), t)
           /\ Swapped(Join(Join(p, Net(ws)), t), Len(p) + 1, Len(ws)) = Join(Join(p, Host(ws)), t)
<1>1. PICK k \in Nat : k = Len(ws)
  BY LenProperties
<1>3. PICK h \in Seq(S) : h = Host(ws)
  BY HostOctets
<1>4. PICK n \in Seq(S) : n = Net(ws)
  BY NetOctets
<1>5. Swaps(S, h, n, k) /\ Swaps(S, n, h, k)
  BY <1>1, <1>3, <1>4, SwapWords
<1>6. Swapped(Join(Join(p, h), t), Len(p) + 1, k) = Join(Join(p, n), t)
  BY <1>5, LastSwapped
<1>7. Swapped(Join(Join(p, n), t), Len(p) + 1, k) = Join(Join(p, h), t)
  BY <1>5, LastSwapped
<1> QED
  BY <1>1, <1>3, <1>4, <1>6, <1>7

\* A structure that ends in an array of words is swapped at its words, then at
\* its array, of which its byte count tells the length.
LEMMA AllSwapped ==
    ASSUME NEW S, Octet \subseteq S, NEW layout, Plain(layout), layout.unit = 2,
           NEW c, NEW msg, Proper(layout, c, msg), NEW t \in Seq(S), NEW w \in Nat,
           w = layout.words
    PROVE  /\ Join(Image(layout, c, msg), t)[2 * w + 1] = c
           /\ Join(Encoded(layout, msg), t)[2 * w + 1] = c
           /\ Swapped(Swapped(Join(Image(layout, c, msg), t), 1, w), 2 * w + 2, c \div 2) =
                 Join(Encoded(layout, msg), t)
           /\ Swapped(Swapped(Join(Encoded(layout, msg), t), 1, w), 2 * w + 2, c \div 2) =
                 Join(Image(layout, c, msg), t)
<1>a. \A x \in Seq(S), r \in Seq(Word) :
         /\ Swapped(Join(Join(x, Host(r)), t), Len(x) + 1, Len(r)) = Join(Join(x, Net(r)), t)
         /\ Swapped(Join(Join(x, Net(r)), t), Len(x) + 1, Len(r)) = Join(Join(x, Host(r)), t)
  <2> TAKE x \in Seq(S), r \in Seq(Word)
  <2> QED
    BY ArraySwapped, ZenonT(60)
<1>0. w = Len(msg.words)
  BY DEF Proper
<1>1. PICK ws \in Seq(Word) : ws = msg.words
  BY Arrays
<1>2. PICK h \in Seq(S) : h = Host(ws) /\ Len(h) = 2 * Len(ws)
  BY HostOctets
<1>3. PICK n \in Seq(S) : n = Net(ws) /\ Len(n) = 2 * Len(ws)
  BY NetOctets
<1>4. PICK k \in Seq(S) : k = CountIn(layout, c)
  BY Arrays
<1>5. layout.counted /\ c \in Octet /\ c = 2 * Len(msg.array) /\ msg.array \in Seq(Word)
  BY DEF Plain, Proper, Message
<1>6. PICK a \in Seq(S) : a = Host(msg.array)
  BY <1>5, HostOctets
<1>7. PICK b \in Seq(S) : b = Net(msg.array)
  BY <1>5, NetOctets
<1>8. Image(layout, c, msg) = Join(Join(h, k), a) /\ Encoded(layout, msg) = Join(Join(n, k), b)
  BY <1>1, <1>2, <1>3, <1>4, <1>6, <1>7, Forms DEF StoredIn, SentIn
<1>9. k = <<c>> /\ Len(k) = 1
  BY <1>4, <1>5 DEF CountIn
<1>10. /\ Join(Join(Join(h, k), a), t)[2 * w + 1] = c
       /\ Join(Join(Join(n, k), b), t)[2 * w + 1] = c
  <2>1. c \in S
    BY <1>5
  <2>2. Len(h) + 1 = 2 * w + 1 /\ Len(n) + 1 = 2 * w + 1
    BY <1>0, <1>1, <1>2, <1>3
  <2>3. Join(Join(Join(h, <<c>>), a), t)[Len(h) + 1] = c
    BY <2>1, CountAt
  <2>4. Join(Join(Join(n, <<c>>), b), t)[Len(n) + 1] = c
    BY <2>1, CountAt
  <2> QED
    BY <1>9, <2>2, <2>3, <2>4
<1>11. Swaps(S, h, n, w) /\ Swaps(S, n, h, w)
  BY <1>0, <1>1, <1>2, <1>3, SwapWords
<1>12. \A x \in Seq(S), y \in Seq(S) :
          /\ Join(k, y) \in Seq(S) /\ Join(Join(k, y), t) \in Seq(S)
          /\ Join(x, k) \in Seq(S)
          /\ Join(Join(Join(x, k), y), t) = Join(x, Join(Join(k, y), t))
  <2> TAKE x \in Seq(S), y \in Seq(S)
  <2>1. Join(k, y) \in Seq(S) /\ Join(x, k) \in Seq(S)
    BY JoinTwo
  <2>2. Join(Join(k, y), t) \in Seq(S)
    BY <2>1, JoinTwo
  <2> QED
    BY <2>1, <2>2, JoinThree
<1>13. Swapped(Join(h, Join(Join(k, a), t)), 1, w) = Join(n, Join(Join(k, a), t))
  BY <1>11, <1>12, FirstSwapped
<1>14. Swapped(Join(n, Join(Join(k, b), t)), 1, w) = Join(h, Join(Join(k, b), t))
  BY <1>11, <1>12, FirstSwapped
<1>15. Len(Join(n, k)) + 1 = 2 * w + 2 /\ Len(Join(h, k)) + 1 = 2 * w + 2
  <2>1. Len(Join(n, k)) = Len(n) + Len(k) /\ Len(Join(h, k)) = Len(h) + Len(k)
    BY JoinTwo
  <2> QED
    BY <2>1, <1>0, <1>1, <1>2, <1>3, <1>9
<1>16. /\ Swapped(Join(Join(Join(n, k), a), t), 2 * w + 2, c \div 2) = Join(Join(Join(n, k), b), t)
       /\ Swapped(Join(Join(Join(h, k), b), t), 2 * w + 2, c \div 2) = Join(Join(Join(h, k), a), t)
  <2>1. PICK p \in Seq(S) : p = Join(n, k)
    BY <1>12
  <2>2. PICK q \in Seq(S) : q = Join(h, k)
    BY <1>12
  <2>3. PICK r \in Seq(Word) : r = msg.array
    BY <1>5
  <2>4. c \div 2 = Len(r)
    <3>1. PICK m \in Nat : m = Len(r)
      BY LenProperties
    <3>2. (2 * m) \div 2 = m
      OBVIOUS
    <3> QED
      BY <3>1, <3>2, <2>3, <1>5
  <2>5. /\ Swapped(Join(Join(p, Host(r)), t), Len(p) + 1, Len(r)) = Join(Join(p, Net(r)), t)
        /\ Swapped(Join(Join(p, Net(r)), t), Len(p) + 1, Len(r)) = Join(Join(p, Host(r)), t)
    BY <1>a
  <2>6. Swapped(Join(Join(q, Net(r)), t), Len(q) + 1, Len(r)) = Join(Join(q, Host(r)), t)
    BY <1>a
  <2> QED
    BY <2>1, <2>2, <2>3, <2>4, <2>5, <2>6, <1>6, <1>7, <1>15
<1> QED
  BY <1>8, <1>10, <1>12, <1>13, <1>14, <1>16

-----------------------------------------------------------------------------
(* Every request and response *)

\* Where the byte count of a frame is.
LEMMA CountSent ==
    ASSUME NEW S, Octet \subseteq S, NEW layout, Plain(layout), layout.counted,
           NEW c, NEW msg, Proper(layout, c, msg), NEW t \in Seq(S)
    PROVE  /\ Join(Image(layout, c, msg), t)[2 * layout.words + 1] = c
           /\ Join(Encoded(layout, msg), t)[2 * layout.words + 1] = c
<1>0. PICK w \in Nat : w = layout.words /\ w = Len(msg.words)
  BY DEF Plain, Proper
<1>1. PICK ws \in Seq(Word) : ws = msg.words
  BY Arrays
<1>2. PICK h \in Seq(S) : h = Host(ws) /\ Len(h) = 2 * Len(ws)
  BY HostOctets
<1>3. PICK n \in Seq(S) : n = Net(ws) /\ Len(n) = 2 * Len(ws)
  BY NetOctets
<1>4. PICK a \in Seq(S) : a = StoredIn(layout, msg.array)
  BY Arrays
<1>5. PICK b \in Seq(S) : b = SentIn(layout, msg.array)
  BY Arrays
<1>6. CountIn(layout, c) = <<c>>
  BY DEF CountIn
<1>7. c \in S
  BY DEF Proper
<1>8. Len(h) + 1 = 2 * w + 1 /\ Len(n) + 1 = 2 * w + 1
  BY <1>0, <1>1, <1>2, <1>3
<1>9. Join(Join(Join(h, <<c>>), a), t)[Len(h) + 1] = c
  BY <1>7, CountAt
<1>10. Join(Join(Join(n, <<c>>), b), t)[Len(n) + 1] = c
  BY <1>7, CountAt
<1>11. Image(layout, c, msg) = Join(Join(h, <<c>>), a) /\ Encoded(layout, msg) = Join(Join(n, <<c>>), b)
  BY <1>1, <1>2, <1>3, <1>4, <1>5, <1>6, Forms
<1> QED
  BY <1>0, <1>8, <1>9, <1>10, <1>11

\* Where there are no words in front of the byte count, only the array is swapped.
LEMMA BehindCount ==
    ASSUME NEW S, Octet \subseteq S, NEW layout, Plain(layout), layout.unit = 2,
           layout.words = 0, NEW c, NEW msg, Proper(layout, c, msg), NEW t \in Seq(S)
    PROVE  /\ Swapped(Join(Image(layout, c, msg), t), 2, c \div 2) = Join(Encoded(layout, msg), t)
           /\ Swapped(Join(Encoded(layout, msg), t), 2, c \div 2) = Join(Image(layout, c, msg), t)
<1>1. PICK h \in Seq(S) : h = Image(layout, c, msg)
  BY EncodedLen, SeqMonotonic
<1>2. PICK n \in Seq(S) : n = Encoded(layout, msg)
  BY EncodedLen, SeqMonotonic
<1>3. Join(h, t) \in Seq(S) /\ Join(n, t) \in Seq(S)
  BY JoinTwo
<1>4. \A s \in Seq(S) : Swapped(s, 1, 0) = s
  BY DEF Swapped
<1>5. /\ Swapped(Swapped(Join(h, t), 1, 0), 2 * 0 + 2, c \div 2) = Join(n, t)
      /\ Swapped(Swapped(Join(n, t), 1, 0), 2 * 0 + 2, c \div 2) = Join(h, t)
  BY <1>1, <1>2, AllSwapped
<1> QED
  BY <1>1, <1>2, <1>3, <1>4, <1>5

\* PDU.h 112-311: no structure but the event log has words behind its byte count.
LEMMA PlainData ==
    ASSUME NEW f \in Function
    PROVE  /\ Plain(Data(f).request)
           /\ f # "GetComEventLog" => Plain(Data(f).response)
  BY DEF Function, Plain, Data, NoData, ReadBits, ReadRegisters, WriteSingle, ExceptionStatus,
         ComEventCounter, ComEventLog, WriteCoils, WriteRegisters, ServerId, MaskWrite,
         ReadWriteRegisters, Fixed, Counted, OneOctet

\* The structures of a function.
RequestOf(f)  == Data(f).request
ResponseOf(f) == Data(f).response

\* PDU.cpp 24-53, 128-178: swapping a request, whatever stands behind it in the
\* buffer, turns memory into the Modbus encoding and back, and its size is found.
LEMMA RequestSwapped ==
    ASSUME NEW S, Octet \subseteq S, NEW f \in Function, f # "GetComEventCounter",
           NEW c, NEW msg, Proper(RequestOf(f), c, msg), NEW t \in Seq(S)
    PROVE  /\ SwapRequest(f, Join(Image(RequestOf(f), c, msg), t))
                 = Join(Encoded(RequestOf(f), msg), t)
           /\ SwapRequest(f, Join(Encoded(RequestOf(f), msg), t))
                 = Join(Image(RequestOf(f), c, msg), t)
           /\ RequestDataSize(f, Join(Encoded(RequestOf(f), msg), t))
                 = Len(Encoded(RequestOf(f), msg))
<1>0. PICK lay : lay = Data(f).request /\ lay = RequestOf(f)
  BY DEF RequestOf
<1>1. Plain(lay) /\ Proper(lay, c, msg)
  BY <1>0, PlainData
<1>2. PICK image : image = Join(Image(lay, c, msg), t)
  OBVIOUS
<1>3. PICK sent : sent = Join(Encoded(lay, msg), t)
  OBVIOUS
<1>4. lay.unit = 1 => Swapped(image, 1, lay.words) = sent /\ Swapped(sent, 1, lay.words) = image
  BY <1>1, <1>2, <1>3, WordsSwapped
<1>5. lay.unit = 1 /\ lay.words = 0 => image = sent
  BY <1>1, <1>2, <1>3, OctetsAlike
<1>6. lay.counted => image[2 * lay.words + 1] = c /\ sent[2 * lay.words + 1] = c
  BY <1>1, <1>2, <1>3, CountSent
<1>7. lay.unit = 2 => LET w == lay.words IN
         /\ Swapped(Swapped(image, 1, w), 2 * w + 2, c \div 2) = sent
         /\ Swapped(Swapped(sent, 1, w), 2 * w + 2, c \div 2) = image
  <2>1. PICK w \in Nat : w = lay.words
    BY <1>1 DEF Plain
  <2> QED
    BY <2>1, <1>1, <1>2, <1>3, AllSwapped
<1>8. Len(Encoded(lay, msg)) = IF lay.counted THEN 2 * lay.words + 1 + c
                               ELSE 2 * lay.words + lay.max
  BY <1>1, EncodedLen
<1>9. lay.counted => c \in Octet
  BY <1>1 DEF Proper
<1>10. /\ SwapRequest(f, image) = sent
       /\ SwapRequest(f, sent) = image
       /\ RequestDataSize(f, sent) = Len(Encoded(lay, msg))
  <2>1. CASE f \in {"None", "GetComEventLog", "ReadExceptionStatus", "ReportServerId"}
    <3>1. lay = Fixed(0)
      BY <2>1, <1>0 DEF Data, NoData, ComEventLog, ExceptionStatus, ServerId
    <3>2. lay.words = 0 /\ lay.unit = 1 /\ ~lay.counted /\ lay.max = 0
      BY <3>1 DEF Fixed
    <3>3. image = sent
      BY <3>2, <1>5
    <3>4. Len(Encoded(lay, msg)) = 0
      BY <3>2, <1>8
    <3> QED
      BY <2>1, <3>3, <3>4 DEF SwapRequest, RequestDataSize
  <2>2. CASE f \in {"ReadCoils", "ReadDiscreteInputs", "ReadHoldingRegisters",
                    "ReadInputRegisters", "WriteSingleCoil", "WriteSingleRegister"}
    <3>1. lay = Fixed(2)
      BY <2>2, <1>0 DEF Data, ReadBits, ReadRegisters, WriteSingle
    <3>2. lay.words = 2 /\ lay.unit = 1 /\ ~lay.counted /\ lay.max = 0
      BY <3>1 DEF Fixed
    <3>3. Swapped(image, 1, 2) = sent /\ Swapped(sent, 1, 2) = image
      BY <3>2, <1>4
    <3>4. Len(Encoded(lay, msg)) = 4
      BY <3>2, <1>8
    <3> QED
      BY <2>2, <3>3, <3>4 DEF SwapRequest, RequestDataSize
  <2>3. CASE f = "WriteMultipleCoils"
    <3>1. lay = Counted(2, 0, 1, 246)
      BY <2>3, <1>0 DEF Data, WriteCoils
    <3>2. lay.words = 2 /\ lay.unit = 1 /\ lay.counted /\ lay.max = 246
      BY <3>1 DEF Counted
    <3>3. Swapped(image, 1, 2) = sent /\ Swapped(sent, 1, 2) = image
      BY <3>2, <1>4
    <3>4. image[5] = c /\ sent[5] = c
      BY <3>2, <1>6
    <3>5. Len(Encoded(lay, msg)) = 5 + c
      BY <3>2, <1>8, <1>9 DEF Octet, MaxOctet
    <3> QED
      BY <2>3, <3>3, <3>4, <3>5 DEF SwapRequest, RequestDataSize
  <2>4. CASE f = "WriteMultipleRegisters"
    <3>1. lay = Counted(2, 0, 2, 246)
      BY <2>4, <1>0 DEF Data, WriteRegisters
    <3>2. lay.words = 2 /\ lay.unit = 2 /\ lay.counted /\ lay.max = 246
      BY <3>1 DEF Counted
    <3>3. /\ Swapped(Swapped(image, 1, 2), 6, c \div 2) = sent
          /\ Swapped(Swapped(sent, 1, 2), 6, c \div 2) = image
      BY <3>2, <1>7
    <3>4. image[5] = c /\ sent[5] = c
      BY <3>2, <1>6
    <3>5. Len(Encoded(lay, msg)) = 5 + c
      BY <3>2, <1>8, <1>9 DEF Octet, MaxOctet
    <3> QED
      BY <2>4, <3>3, <3>4, <3>5 DEF SwapRequest, RequestDataSize
  <2>5. CASE f = "MaskWriteRegister"
    <3>1. lay = Fixed(3)
      BY <2>5, <1>0 DEF Data, MaskWrite
    <3>2. lay.words = 3 /\ lay.unit = 1 /\ ~lay.counted /\ lay.max = 0
      BY <3>1 DEF Fixed
    <3>3. Swapped(image, 1, 3) = sent /\ Swapped(sent, 1, 3) = image
      BY <3>2, <1>4
    <3>4. Len(Encoded(lay, msg)) = 6
      BY <3>2, <1>8
    <3> QED
      BY <2>5, <3>3, <3>4 DEF SwapRequest, RequestDataSize
  <2>6. CASE f = "ReadWriteMultipleRegisters"
    <3>1. lay = Counted(4, 0, 2, 242)
      BY <2>6, <1>0 DEF Data, ReadWriteRegisters
    <3>2. lay.words = 4 /\ lay.unit = 2 /\ lay.counted /\ lay.max = 242
      BY <3>1 DEF Counted
    <3>3. /\ Swapped(Swapped(image, 1, 4), 10, c \div 2) = sent
          /\ Swapped(Swapped(sent, 1, 4), 10, c \div 2) = image
      BY <3>2, <1>7
    <3>4. image[9] = c /\ sent[9] = c
      BY <3>2, <1>6
    <3>5. Len(Encoded(lay, msg)) = 9 + c
      BY <3>2, <1>8, <1>9 DEF Octet, MaxOctet
    <3> QED
      BY <2>6, <3>3, <3>4, <3>5 DEF SwapRequest, RequestDataSize
  <2> QED
    BY <2>1, <2>2, <2>3, <2>4, <2>5, <2>6 DEF Function
<1> QED
  BY <1>0, <1>2, <1>3, <1>10

\* PDU.cpp 55-87, 180-228: so does swapping a response.
LEMMA ResponseSwapped ==
    ASSUME NEW S, Octet \subseteq S, NEW f \in Function, f # "GetComEventLog",
           NEW c, NEW msg, Proper(ResponseOf(f), c, msg), NEW t \in Seq(S)
    PROVE  /\ SwapResponse(f, Join(Image(ResponseOf(f), c, msg), t))
                 = Join(Encoded(ResponseOf(f), msg), t)
           /\ SwapResponse(f, Join(Encoded(ResponseOf(f), msg), t))
                 = Join(Image(ResponseOf(f), c, msg), t)
           /\ ResponseDataSize(f, Join(Encoded(ResponseOf(f), msg), t))
                 = Len(Encoded(ResponseOf(f), msg))
<1>0. PICK lay : lay = Data(f).response /\ lay = ResponseOf(f)
  BY DEF ResponseOf
<1>1. Plain(lay) /\ Proper(lay, c, msg)
  BY <1>0, PlainData
<1>2. PICK image : image = Join(Image(lay, c, msg), t)
  OBVIOUS
<1>3. PICK sent : sent = Join(Encoded(lay, msg), t)
  OBVIOUS
<1>4. lay.unit = 1 => Swapped(image, 1, lay.words) = sent /\ Swapped(sent, 1, lay.words) = image
  BY <1>1, <1>2, <1>3, WordsSwapped
<1>5. lay.unit = 1 /\ lay.words = 0 => image = sent
  BY <1>1, <1>2, <1>3, OctetsAlike
<1>6. lay.counted => image[2 * lay.words + 1] = c /\ sent[2 * lay.words + 1] = c
  BY <1>1, <1>2, <1>3, CountSent
<1>7. lay.unit = 2 /\ lay.words = 0 =>
         Swapped(image, 2, c \div 2) = sent /\ Swapped(sent, 2, c \div 2) = image
  BY <1>1, <1>2, <1>3, BehindCount
<1>8. Len(Encoded(lay, msg)) = IF lay.counted THEN 2 * lay.words + 1 + c
                               ELSE 2 * lay.words + lay.max
  BY <1>1, EncodedLen
<1>9. lay.counted => c \in Octet
  BY <1>1 DEF Proper
<1>10. /\ SwapResponse(f, image) = sent
       /\ SwapResponse(f, sent) = image
       /\ ResponseDataSize(f, sent) = Len(Encoded(lay, msg))
  <2>1. CASE f = "None"
    <3>1. lay = Fixed(0)
      BY <2>1, <1>0 DEF Data, NoData
    <3>2. lay.words = 0 /\ lay.unit = 1 /\ ~lay.counted /\ lay.max = 0
      BY <3>1 DEF Fixed
    <3>3. image = sent
      BY <3>2, <1>5
    <3>4. Len(Encoded(lay, msg)) = 0
      BY <3>2, <1>8
    <3> QED
      BY <2>1, <3>3, <3>4 DEF SwapResponse, ResponseDataSize
  <2>2. CASE f \in {"ReadCoils", "ReadDiscreteInputs", "ReportServerId"}
    <3>1. lay = Counted(0, 0, 1, 250)
      BY <2>2, <1>0 DEF Data, ReadBits, ServerId
    <3>2. lay.words = 0 /\ lay.unit = 1 /\ lay.counted /\ lay.max = 250
      BY <3>1 DEF Counted
    <3>3. image = sent
      BY <3>2, <1>5
    <3>4. image[1] = c /\ sent[1] = c
      BY <3>2, <1>6
    <3>5. Len(Encoded(lay, msg)) = 1 + c
      BY <3>2, <1>8, <1>9 DEF Octet, MaxOctet
    <3> QED
      BY <2>2, <3>3, <3>4, <3>5 DEF SwapResponse, ResponseDataSize
  <2>3. CASE f \in {"ReadHoldingRegisters", "ReadInputRegisters", "ReadWriteMultipleRegisters"}
    <3>1. lay = Counted(0, 0, 2, 250)
      BY <2>3, <1>0 DEF Data, ReadRegisters, ReadWriteRegisters
    <3>2. lay.words = 0 /\ lay.unit = 2 /\ lay.counted /\ lay.max = 250
      BY <3>1 DEF Counted
    <3>3. Swapped(image, 2, c \div 2) = sent /\ Swapped(sent, 2, c \div 2) = image
      BY <3>2, <1>7
    <3>4. image[1] = c /\ sent[1] = c
      BY <3>2, <1>6
    <3>5. Len(Encoded(lay, msg)) = 1 + c
      BY <3>2, <1>8, <1>9 DEF Octet, MaxOctet
    <3> QED
      BY <2>3, <3>3, <3>4, <3>5 DEF SwapResponse, ResponseDataSize
  <2>4. CASE f \in {"WriteSingleCoil", "WriteSingleRegister", "GetComEventCounter",
                    "WriteMultipleCoils", "WriteMultipleRegisters"}
    <3>1. lay = Fixed(2)
      BY <2>4, <1>0 DEF Data, WriteSingle, ComEventCounter, WriteCoils, WriteRegisters
    <3>2. lay.words = 2 /\ lay.unit = 1 /\ ~lay.counted /\ lay.max = 0
      BY <3>1 DEF Fixed
    <3>3. Swapped(image, 1, 2) = sent /\ Swapped(sent, 1, 2) = image
      BY <3>2, <1>4
    <3>4. Len(Encoded(lay, msg)) = 4
      BY <3>2, <1>8
    <3> QED
      BY <2>4, <3>3, <3>4 DEF SwapResponse, ResponseDataSize
  <2>5. CASE f = "ReadExceptionStatus"
    <3>1. lay = OneOctet
      BY <2>5, <1>0 DEF Data, ExceptionStatus
    <3>2. lay.words = 0 /\ lay.unit = 1 /\ ~lay.counted /\ lay.max = 1
      BY <3>1 DEF OneOctet, Fixed
    <3>3. image = sent
      BY <3>2, <1>5
    <3>4. Len(Encoded(lay, msg)) = 1
      BY <3>2, <1>8
    <3> QED
      BY <2>5, <3>3, <3>4 DEF SwapResponse, ResponseDataSize
  <2>6. CASE f = "MaskWriteRegister"
    <3>1. lay = Fixed(3)
      BY <2>6, <1>0 DEF Data, MaskWrite
    <3>2. lay.words = 3 /\ lay.unit = 1 /\ ~lay.counted /\ lay.max = 0
      BY <3>1 DEF Fixed
    <3>3. Swapped(image, 1, 3) = sent /\ Swapped(sent, 1, 3) = image
      BY <3>2, <1>4
    <3>4. Len(Encoded(lay, msg)) = 6
      BY <3>2, <1>8
    <3> QED
      BY <2>6, <3>3, <3>4 DEF SwapResponse, ResponseDataSize
  <2> QED
    BY <2>1, <2>2, <2>3, <2>4, <2>5, <2>6 DEF Function
<1> QED
  BY <1>0, <1>2, <1>3, <1>10

-----------------------------------------------------------------------------
(* Reading the fields *)

\* The two octets of a word in memory make up the word.
LEMMA WordStored ==
    ASSUME NEW ws \in Seq(Word), NEW i \in 1 .. Len(ws)
    PROVE  /\ 2 * i - 1 \in 1 .. Len(Host(ws)) /\ 2 * i \in 1 .. Len(Host(ws))
           /\ Host(ws)[2 * i - 1] + 256 * Host(ws)[2 * i] = ws[i]
<1>1. PICK k \in Nat : k = Len(ws)
  BY LenProperties
<1>2. PICK j \in 1 .. k : j = i
  BY <1>1
<1>3. /\ 2 * j - 1 \in 1 .. 2 * k /\ 2 * j \in 1 .. 2 * k
      /\ (2 * j - 1) % 2 = 1 /\ (2 * j) % 2 # 1
      /\ ((2 * j - 1) + 1) \div 2 = j /\ ((2 * j) + 1) \div 2 = j
  OBVIOUS
<1>4. Len(Host(ws)) = 2 * k
  BY <1>1, HostOctets
<1>5. \A m \in 1 .. 2 * k : Host(ws)[m] = IF m % 2 = 1 THEN ws[(m + 1) \div 2] % 256
                                                    ELSE ws[(m + 1) \div 2] \div 256
  <2>1. \A m \in 1 .. 2 * Len(ws) : Host(ws)[m] = IF m % 2 = 1 THEN ws[(m + 1) \div 2] % 256
                                                    ELSE ws[(m + 1) \div 2] \div 256
    BY HostOctets
  <2> QED
    BY <2>1, <1>1
<1>6. PICK w \in Word : w = ws[j]
  BY <1>1, <1>2, ElementOfSeq
<1>7. Host(ws)[2 * j - 1] = w % 256 /\ Host(ws)[2 * j] = w \div 256
  BY <1>3, <1>5, <1>6
<1>8. (w % 256) + 256 * (w \div 256) = w
  BY LowHigh
<1> QED
  BY <1>2, <1>3, <1>4, <1>6, <1>7, <1>8

\* What the application reads in a structure is what was put into it, whatever
\* stands behind it.
LEMMA FieldsRead ==
    ASSUME NEW S, Octet \subseteq S, NEW layout, Plain(layout),
           NEW c, NEW msg, Proper(layout, c, msg), NEW t \in Seq(S)
    PROVE  Fields(layout, Join(Image(layout, c, msg), t)) = msg
<1>0. PICK w \in Nat : w = layout.words /\ w = Len(msg.words)
  BY DEF Plain, Proper
<1>1. PICK ws \in Seq(Word) : ws = msg.words
  BY Arrays
<1>2. PICK h \in Seq(S) : h = Host(ws)
  BY HostOctets
<1>3. PICK k \in Seq(S) : k = CountIn(layout, c)
  BY Arrays
<1>4. PICK a \in Seq(S) : a = StoredIn(layout, msg.array)
  BY Arrays
<1>5. PICK data : data = Join(Join(Join(h, k), a), t)
  OBVIOUS
<1>6. data = Join(Image(layout, c, msg), t)
  BY <1>1, <1>2, <1>3, <1>4, <1>5, Forms
<1>7. PICK p \in Seq(S) : p = Join(h, k)
  BY JoinTwo
<1>8. /\ Join(k, Join(a, t)) \in Seq(S) /\ Join(a, t) \in Seq(S)
      /\ data = Join(p, Join(a, t))
      /\ data = Join(h, Join(k, Join(a, t)))
  <2>1. Join(a, t) \in Seq(S)
    BY JoinTwo
  <2>2. Join(k, Join(a, t)) \in Seq(S)
    BY <2>1, JoinTwo
  <2>3. data = Join(p, Join(a, t))
    BY <1>5, <1>7, JoinThree
  <2>4. Join(Join(h, k), Join(a, t)) = Join(h, Join(k, Join(a, t)))
    BY <2>1, JoinThree
  <2> QED
    BY <2>1, <2>2, <2>3, <2>4, <1>7
<1>9. \A i \in 1 .. Len(h) : data[i] = h[i]
  <2>1. PICK u \in Seq(S) : u = Join(k, Join(a, t))
    BY <1>8
  <2>2. \A i \in 1 .. Len(h) : Join(h, u)[i] = h[i]
    BY JoinAt
  <2> QED
    BY <2>1, <2>2, <1>8
<1>10. \A i \in 1 .. Len(a) : data[Len(p) + i] = a[i]
  <2>1. \A i \in 1 .. Len(a) : Join(a, t)[i] = a[i]
    BY JoinAt
  <2>0. PICK u \in Seq(S) : u = Join(a, t)
    BY <1>8
  <2>20. \A i \in 1 .. Len(u) : Join(p, u)[Len(p) + i] = u[i]
    BY JoinAt
  <2>2. \A i \in 1 .. Len(Join(a, t)) : data[Len(p) + i] = Join(a, t)[i]
    BY <2>0, <2>20, <1>8
  <2>3. PICK l, m \in Nat : l = Len(a) /\ m = Len(t)
    BY LenProperties
  <2>4. Len(Join(a, t)) = l + m
    BY <2>3, JoinTwo
  <2>5. \A i \in 1 .. l : i \in 1 .. l + m
    OBVIOUS
  <2> QED
    BY <2>1, <2>2, <2>3, <2>4, <2>5
<1>11. [i \in 1 .. w |-> WordAt(data, 2 * i - 1)] = ws
  <2>1. ASSUME NEW i \in 1 .. w
        PROVE  WordAt(data, 2 * i - 1) = ws[i]
    <3>1. /\ 2 * i - 1 \in 1 .. Len(h) /\ 2 * i \in 1 .. Len(h)
          /\ h[2 * i - 1] + 256 * h[2 * i] = ws[i]
      BY <1>0, <1>1, <1>2, WordStored
    <3>2. data[2 * i - 1] = h[2 * i - 1] /\ data[2 * i] = h[2 * i]
      BY <3>1, <1>9
    <3>3. (2 * i - 1) + 1 = 2 * i
      BY <1>0
    <3> QED
      BY <3>1, <3>2, <3>3 DEF WordAt
  <2>2. DOMAIN ws = 1 .. w /\ ws = [i \in DOMAIN ws |-> ws[i]]
    BY <1>0, <1>1
  <2> QED
    BY <2>1, <2>2
<1>12. PICK m \in Nat : m = Len(msg.array)
  BY LenProperties DEF Proper, Message
<1>13. ASSUME layout.counted
       PROVE  data[2 * w + 1] = c
  <2>1. Join(Image(layout, c, msg), t)[2 * layout.words + 1] = c
    BY <1>13, CountSent
  <2> QED
    BY <2>1, <1>0, <1>6
<1>14. ArraySize(layout, data) \div layout.unit = m
  <2>1. CASE layout.counted
    <3>1. c = layout.unit * m /\ c \in Octet /\ layout.more = 0
      BY <2>1, <1>12 DEF Proper, Plain
    <3>2. ArraySize(layout, data) = c
      <4>1. ArraySize(layout, data) = c - 2 * 0
        BY <3>1, <2>1, <1>0, <1>13 DEF ArraySize
      <4>2. PICK n \in 0 .. 255 : n = c
        BY <3>1 DEF Octet, MaxOctet
      <4>3. n - 2 * 0 = n
        OBVIOUS
      <4> QED
        BY <4>1, <4>2, <4>3
    <3>3. (1 * m) \div 1 = m /\ (2 * m) \div 2 = m
      OBVIOUS
    <3>4. layout.unit = 1 \/ layout.unit = 2
      BY DEF Plain
    <3> QED
      BY <3>1, <3>2, <3>3, <3>4
  <2>2. CASE ~layout.counted
    <3>1. ArraySize(layout, data) = m /\ layout.unit = 1
      BY <2>2, <1>12 DEF ArraySize, Proper, Plain
    <3>2. m \div 1 = m
      OBVIOUS
    <3> QED
      BY <3>1, <3>2
  <2> QED
    BY <2>1, <2>2
<1>15. ArrayAt(layout) = Len(p) + 1
  <2>1. Len(p) = Len(h) + Len(k)
    BY <1>7, JoinTwo
  <2>2. Len(h) = 2 * w
    BY <1>0, <1>1, <1>2, HostOctets
  <2>3. Len(k) = IF layout.counted THEN 1 ELSE 0
    <3>1. Len(<<c>>) = 1 /\ Len(<<>>) = 0
      OBVIOUS
    <3> QED
      BY <3>1, <1>3 DEF CountIn
  <2>4. ArrayAt(layout) = 2 * (w + 0) + (IF layout.counted THEN 2 ELSE 1)
    BY <1>0 DEF ArrayAt, Plain
  <2>5. CASE layout.counted
    BY <2>1, <2>2, <2>3, <2>4, <2>5, <1>0
  <2>6. CASE ~layout.counted
    BY <2>1, <2>2, <2>3, <2>4, <2>6, <1>0
  <2> QED
    BY <2>5, <2>6
<1>16. PICK n \in Nat : n = Len(p)
  BY LenProperties
<1>17. [i \in 1 .. m |-> IF layout.unit = 2 THEN WordAt(data, (n + 1) + 2 * (i - 1))
                         ELSE data[(n + 1) + i - 1]] = msg.array
  <2>0. msg.array \in Seq(Word)
    BY DEF Proper, Message
  <2>1. CASE layout.unit = 2
    <3>1. a = Host(msg.array)
      BY <2>1, <1>4 DEF StoredIn
    <3>2. ASSUME NEW i \in 1 .. m
          PROVE  WordAt(data, (n + 1) + 2 * (i - 1)) = msg.array[i]
      <4>1. /\ 2 * i - 1 \in 1 .. Len(a) /\ 2 * i \in 1 .. Len(a)
            /\ a[2 * i - 1] + 256 * a[2 * i] = msg.array[i]
        BY <2>0, <3>1, <1>12, WordStored
      <4>2. data[n + (2 * i - 1)] = a[2 * i - 1] /\ data[n + 2 * i] = a[2 * i]
        BY <4>1, <1>10, <1>16
      <4>3. (n + 1) + 2 * (i - 1) = n + (2 * i - 1) /\ (n + 1) + 2 * (i - 1) + 1 = n + 2 * i
        BY <1>12
      <4> QED
        BY <4>1, <4>2, <4>3 DEF WordAt
    <3>3. DOMAIN msg.array = 1 .. m /\ msg.array = [i \in DOMAIN msg.array |-> msg.array[i]]
      BY <2>0, <1>12
    <3> QED
      BY <2>1, <3>2, <3>3
  <2>2. CASE layout.unit # 2
    <3>1. a = msg.array
      BY <2>2, <1>4 DEF StoredIn
    <3>2. ASSUME NEW i \in 1 .. m
          PROVE  data[(n + 1) + i - 1] = msg.array[i]
      <4>1. (n + 1) + i - 1 = n + i
        BY <1>12
      <4>2. i \in 1 .. Len(a)
        BY <3>1, <1>12
      <4> QED
        BY <4>1, <4>2, <3>1, <1>10, <1>16
    <3>3. DOMAIN msg.array = 1 .. m /\ msg.array = [i \in DOMAIN msg.array |-> msg.array[i]]
      BY <2>0, <1>12
    <3> QED
      BY <2>2, <3>2, <3>3
  <2> QED
    BY <2>1, <2>2
<1>18. Fields(layout, data) = [words |-> ws, array |-> msg.array]
  <2>1. layout.more = 0 /\ w + 0 = w
    BY <1>0 DEF Plain
  <2>2. \A i \in 1 .. w : ~(i > w)
    BY <1>0
  <2> QED
    BY <2>1, <2>2, <1>0, <1>11, <1>14, <1>15, <1>16, <1>17 DEF Fields
<1>19. msg = [words |-> msg.words, array |-> msg.array]
  BY DEF Proper, Message
<1> QED
  BY <1>1, <1>6, <1>18, <1>19

-----------------------------------------------------------------------------
(* Frames *)

\* A structure of nothing.
LEMMA NothingIn ==
    ASSUME NEW c, NEW msg, Proper(Fixed(0), c, msg)
    PROVE  msg = NoMessage /\ Image(Fixed(0), c, msg) = <<>> /\ Encoded(Fixed(0), msg) = <<>>
<1>1. Fixed(0) = [words |-> 0, counted |-> FALSE, more |-> 0, unit |-> 1, max |-> 0]
  BY DEF Fixed
<1>2. msg = [words |-> msg.words, array |-> msg.array]
  BY DEF Proper, Message
<1>3. /\ msg.words \in Seq(Word) /\ msg.array \in Seq(Word)
      /\ Len(msg.words) = 0 /\ Len(msg.array) = 0
  BY <1>1 DEF Proper, Message
<1>4. msg.words = <<>> /\ msg.array = <<>>
  BY <1>3, EmptySeq
<1>5. msg = NoMessage
  BY <1>2, <1>4 DEF NoMessage
<1>6. Plain(Fixed(0))
  BY DEF Plain, Fixed
<1>7. Image(Fixed(0), c, msg) = Encoded(Fixed(0), msg)
  BY <1>1, <1>6, OctetsAlike
<1>8. Encoded(Fixed(0), msg) \in Seq(Octet) /\ Len(Encoded(Fixed(0), msg)) = 2 * 0 + 0
  BY <1>1, <1>6, EncodedLen
<1>9. Encoded(Fixed(0), msg) = <<>>
  BY <1>8, EmptySeq
<1> QED
  BY <1>5, <1>7, <1>9

\* What goes out for data, if anything does.
Framed(out, address, code, data) ==
    out = IF Len(data) + 4 <= MaxSize THEN FrameOf(address, code, data) ELSE <<>>

\* ADU.cpp 41-53: the whole of the data goes out, or nothing.
LEMMA Packed ==
    ASSUME NEW address \in Octet, NEW code \in Octet, NEW data \in Seq(Octet)
    PROVE  Framed(PreparePacket(address, code, data, Len(data)), address, code, data)
<1>1. SubSeq(data, 1, Len(data)) = data
  OBVIOUS
<1>2. PICK k \in Seq(Octet) : k = <<address, code>>
  <2>1. <<address, code>> \in Seq(Octet)
    OBVIOUS
  <2> QED
    BY <2>1
<1>3. Len(Join(k, data)) = 2 + Len(data)
  <2>1. Len(Join(k, data)) = Len(k) + Len(data)
    BY JoinTwo
  <2> QED
    BY <2>1, <1>2
<1>4. PICK n \in Nat : n = Len(data)
  BY LenProperties
<1>5. (2 + n) + 2 > MaxSize <=> ~(n + 4 <= MaxSize)
  BY DEF MaxSize
<1>6. PICK packet : packet = Join(k, data)
  OBVIOUS
<1>7. Len(packet) + 2 > MaxSize <=> ~(Len(data) + 4 <= MaxSize)
  BY <1>3, <1>4, <1>5, <1>6
<1>8. PreparePacket(address, code, data, Len(data)) =
         IF Len(packet) + 2 > MaxSize THEN <<>> ELSE packet \o Checksum(packet)
  BY <1>1, <1>2, <1>6 DEF PreparePacket, Join
<1>9. FrameOf(address, code, data) = packet \o Checksum(packet)
  BY <1>2, <1>6 DEF FrameOf, Join
<1> QED
  BY <1>7, <1>8, <1>9 DEF Framed

\* ADU.cpp 55-64: a request goes out in the Modbus encoding.
LEMMA RequestFramed ==
    ASSUME NEW address \in Octet, NEW f \in Function, NEW c, NEW msg,
           Proper(RequestOf(f), c, msg)
    PROVE  Framed(PrepareRequest(address, f, Image(RequestOf(f), c, msg)),
                  address, CodeOf[f], Encoded(RequestOf(f), msg))
<1>1. CodeOf[f] \in Octet
  BY Codes
<1>2. PICK d \in Seq(Octet) : d = Encoded(RequestOf(f), msg)
  BY PlainData, EncodedLen DEF RequestOf
<1>3. PICK s \in Seq(Octet) : s = Image(RequestOf(f), c, msg)
  BY PlainData, EncodedLen DEF RequestOf
<1>4. SwapRequest(f, s) = d /\ RequestDataSize(f, d) = Len(d)
  <2>1. CASE f = "GetComEventCounter"
    <3>1. RequestOf(f) = Fixed(0)
      BY <2>1 DEF RequestOf, Data, ComEventCounter
    <3>2. s = <<>> /\ d = <<>>
      BY <3>1, <1>2, <1>3, NothingIn
    <3>3. Swapped(<<>>, 1, 2) = <<>>
      BY DEF Swapped
    <3> QED
      BY <2>1, <3>2, <3>3 DEF SwapRequest, RequestDataSize
  <2>2. CASE f # "GetComEventCounter"
    <3>1. PICK S : S = Octet
      OBVIOUS
    <3>2. PICK e \in Seq(S) : e = <<>>
      BY EmptySeq
    <3>3. /\ SwapRequest(f, Join(Image(RequestOf(f), c, msg), e)) = Join(Encoded(RequestOf(f), msg), e)
       /\ RequestDataSize(f, Join(Encoded(RequestOf(f), msg), e)) = Len(Encoded(RequestOf(f), msg))
      BY <2>2, <3>1, RequestSwapped
    <3>4. Join(s, <<>>) = s /\ Join(d, <<>>) = d
      BY JoinEmpty
    <3> QED
      BY <3>2, <3>3, <3>4, <1>2, <1>3
  <2> QED
    BY <2>1, <2>2
<1>5. Framed(PreparePacket(address, CodeOf[f], d, Len(d)), address, CodeOf[f], d)
  BY <1>1, Packed
<1> QED
  BY <1>2, <1>3, <1>4, <1>5 DEF PrepareRequest

\* ADU.cpp 66-79: so does a response.
LEMMA ResponseFramed ==
    ASSUME NEW address \in Octet, NEW f \in Function, f # "GetComEventLog", NEW c, NEW msg,
           Proper(ResponseOf(f), c, msg)
    PROVE  Framed(PrepareResponse(address, f, Image(ResponseOf(f), c, msg)),
                  address, CodeOf[f], Encoded(ResponseOf(f), msg))
<1>1. CodeOf[f] \in Octet
  BY Codes
<1>2. PICK d \in Seq(Octet) : d = Encoded(ResponseOf(f), msg)
  BY PlainData, EncodedLen DEF ResponseOf
<1>3. PICK s \in Seq(Octet) : s = Image(ResponseOf(f), c, msg)
  BY PlainData, EncodedLen DEF ResponseOf
<1>4. SwapResponse(f, s) = d /\ ResponseDataSize(f, d) = Len(d)
  <2>1. PICK S : S = Octet
    OBVIOUS
  <2>2. PICK e \in Seq(S) : e = <<>>
    BY EmptySeq
  <2>3. /\ SwapResponse(f, Join(Image(ResponseOf(f), c, msg), e)) = Join(Encoded(ResponseOf(f), msg), e)
     /\ ResponseDataSize(f, Join(Encoded(ResponseOf(f), msg), e)) = Len(Encoded(ResponseOf(f), msg))
    BY <2>1, ResponseSwapped
  <2>4. Join(s, <<>>) = s /\ Join(d, <<>>) = d
    BY JoinEmpty
  <2> QED
    BY <2>2, <2>3, <2>4, <1>2, <1>3
<1>5. Framed(PreparePacket(address, CodeOf[f], d, Len(d)), address, CodeOf[f], d)
  BY <1>1, Packed
<1> QED
  BY <1>2, <1>3, <1>4, <1>5 DEF PrepareResponse

-----------------------------------------------------------------------------
(* What the applications fill in *)

\* What messages are made up of.
LEMMA WordMade ==
    ASSUME NEW seed \in Word, NEW i \in Nat
    PROVE  /\ MadeUp(seed, i) \in Word /\ (MadeUp(seed, i) % 65536) \in Word
           /\ (MadeUp(seed, i) % 256) \in Octet
<1>1. seed \in Nat
  BY WordIs
<1>2. seed * i \in Nat
  BY <1>1
<1>3. PICK m \in Nat : m = seed * i
  BY <1>2
<1>4. (m % 65536) \in Word /\ ((m % 65536) % 65536) \in Word /\ ((m % 65536) % 256) \in Octet
  BY Remainders
<1> QED
  BY <1>3, <1>4 DEF MadeUp

\* The elements an application makes up fit the array.
LEMMA ElementsMade ==
    ASSUME NEW layout, layout.unit \in {1, 2}, NEW seed \in Word, NEW k \in Nat
    PROVE  /\ Elements(layout, seed, k) \in Seq(Word)
           /\ Len(Elements(layout, seed, k)) = k
           /\ layout.unit = 1 => Elements(layout, seed, k) \in Seq(Octet)
<1>1. ASSUME NEW i \in 1 .. k
      PROVE  (MadeUp(seed, i) % 65536) \in Word /\ (MadeUp(seed, i) % 256) \in Octet
  BY WordMade
<1>2. CASE layout.unit = 2
  <2>1. Elements(layout, seed, k) = [i \in 1 .. k |-> MadeUp(seed, i) % 65536]
    BY <1>2 DEF Elements
  <2>2. Elements(layout, seed, k) \in [1 .. k -> Word]
    BY <2>1, <1>1
  <2> QED
    BY <2>2, <1>2
<1>3. CASE layout.unit = 1
  <2>1. Elements(layout, seed, k) = [i \in 1 .. k |-> MadeUp(seed, i) % 256]
    BY <1>3 DEF Elements
  <2>2. Elements(layout, seed, k) \in [1 .. k -> Octet]
    BY <2>1, <1>1
  <2>3. Elements(layout, seed, k) \in Seq(Octet) /\ Len(Elements(layout, seed, k)) = k
    BY <2>2
  <2> QED
    BY <2>3, OctetWord, SeqMonotonic
<1> QED
  BY <1>2, <1>3

\* PDU.h: what setCount leaves in the byte count is what the array then filled
\* takes, and fits in an octet.
Set(layout, set) ==
    /\ set.elements \in Nat /\ set.quantity \in Word
    /\ layout.counted => /\ set.byteCount \in Octet /\ set.byteCount <= 250
                         /\ set.byteCount = layout.unit * set.elements
    /\ ~layout.counted => set.elements = layout.max

\* For octets, and for words.
LEMMA SetOctets ==
    ASSUME NEW layout, layout.counted, layout.unit = 1, NEW k \in Nat, k <= 250, NEW q \in Word
    PROVE  Set(layout, Setting(k, q, k))
<1>1. k % (MaxOctet + 1) = k /\ 1 * k = k /\ k \in Octet
  BY Mod, OctetIs
<1> QED
  BY <1>1 DEF Set, Setting

\* An array of n words, and its byte count.
LEMMA SetWords ==
    ASSUME NEW layout, layout.counted, layout.unit = 2, NEW k \in Nat, k <= 125, NEW q \in Word
    PROVE  Set(layout, Setting(2 * k, q, k))
<1>1. PICK j \in Nat : j = 2 * k /\ j <= 250
  OBVIOUS
<1>2. j % (MaxOctet + 1) = j /\ j \in Octet
  BY <1>1, Mod, OctetIs
<1> QED
  BY <1>1, <1>2 DEF Set, Setting

\* Of a structure without byte count setCount() sets nothing.
LEMMA SetNothing ==
    ASSUME NEW layout, ~layout.counted, NEW k \in Nat, layout.max = k
    PROVE  Set(layout, Setting(0, 0, k))
<1>1. 0 \in Word
  BY WordIs
<1> QED
  BY <1>1 DEF Set, Setting

\* PDU.h: setCount() of a request keeps every array to what a frame can hold.
LEMMA RequestSet ==
    ASSUME NEW f \in Function, NEW n \in Word
    PROVE  /\ Set(RequestOf(f), SetRequestCount(f, n))
           /\ f = "ReadWriteMultipleRegisters" => SetRequestCount(f, n).quantity <= 125
<1>0. n \in Nat
  BY WordIs
<1>1. CASE f = "WriteMultipleCoils"
  <2>1. PICK q \in Nat : q = Least(n, 8 * 246) /\ q <= 1968
    <3>1. PICK b \in Nat : b = 8 * 246 /\ b = 1968
      OBVIOUS
    <3>2. Least(n, b) \in Nat /\ Least(n, b) <= b
      BY <1>0, LeastIs
    <3> QED
      BY <3>1, <3>2
  <2>2. PICK k \in Nat : k = OctetsFor(q) /\ k <= 250
    <3>1. OctetsFor(q) \in Nat /\ OctetsFor(q) <= 246
      BY <2>1, OctetsOf
    <3> QED
      BY <3>1
  <2>3. q \in Word
    BY <2>1, WordIs
  <2>4. SetRequestCount(f, n) = Setting(k, q, k)
    BY <1>1, <2>1, <2>2 DEF SetRequestCount
  <2>5. RequestOf(f).counted /\ RequestOf(f).unit = 1
    BY <1>1 DEF RequestOf, Data, WriteCoils, Counted
  <2> QED
    BY <1>1, <2>2, <2>3, <2>4, <2>5, SetOctets
<1>2. ASSUME NEW b \in Nat, b <= 123,
             SetRequestCount(f, n) = LET q == Least(n, b) IN Setting(2 * q, q, q),
             RequestOf(f).counted, RequestOf(f).unit = 2
      PROVE  Set(RequestOf(f), SetRequestCount(f, n)) /\ SetRequestCount(f, n).quantity <= 125
  <2>1. PICK q \in Nat : q = Least(n, b) /\ q <= 123
    <3>1. Least(n, b) \in Nat /\ Least(n, b) <= b
      BY <1>0, LeastIs
    <3> QED
      BY <3>1, <1>2
  <2>2. q \in Word /\ q <= 125
    BY <2>1, WordIs
  <2>3. SetRequestCount(f, n) = Setting(2 * q, q, q)
    BY <1>2, <2>1
  <2>4. Set(RequestOf(f), Setting(2 * q, q, q))
    BY <1>2, <2>2, SetWords
  <2> QED
    BY <2>2, <2>3, <2>4 DEF Setting
<1>3. CASE f = "WriteMultipleRegisters"
  <2>1. SetRequestCount(f, n) = LET q == Least(n, 123) IN Setting(2 * q, q, q)
    BY <1>3 DEF SetRequestCount
  <2>2. RequestOf(f).counted /\ RequestOf(f).unit = 2
    BY <1>3 DEF RequestOf, Data, WriteRegisters, Counted
  <2> QED
    BY <1>2, <1>3, <2>1, <2>2
<1>4. CASE f = "ReadWriteMultipleRegisters"
  <2>1. SetRequestCount(f, n) = LET q == Least(n, 121) IN Setting(2 * q, q, q)
    BY <1>4 DEF SetRequestCount
  <2>2. RequestOf(f).counted /\ RequestOf(f).unit = 2
    BY <1>4 DEF RequestOf, Data, ReadWriteRegisters, Counted
  <2> QED
    BY <1>2, <2>1, <2>2
<1>5. CASE f \notin {"WriteMultipleCoils", "WriteMultipleRegisters", "ReadWriteMultipleRegisters"}
  <2>1. SetRequestCount(f, n) = Setting(0, 0, 0)
    BY <1>5 DEF SetRequestCount
  <2>2. RequestOf(f) \in {Fixed(0), Fixed(2), Fixed(3)}
    BY <1>5 DEF RequestOf, Data, Function, NoData, ReadBits, ReadRegisters, WriteSingle,
                ExceptionStatus, ComEventCounter, ComEventLog, ServerId, MaskWrite
  <2>3. ~RequestOf(f).counted /\ RequestOf(f).max = 0
    BY <2>2 DEF Fixed
  <2> QED
    BY <1>5, <2>1, <2>3, SetNothing
<1> QED
  BY <1>1, <1>3, <1>4, <1>5

\* What a slave is asked for that its answer has room for: only some of the
\* setCount methods of a response see to that.
Room(f, n) ==
    /\ f \in {"ReadCoils", "ReadDiscreteInputs"} => n <= 2000
    /\ f \in {"ReadHoldingRegisters", "ReadWriteMultipleRegisters"} => n <= 125
    /\ f = "ReportServerId" => n <= 248

\* PDU.h: setCount() of a response does if the reader did not ask for more.
LEMMA ResponseSet ==
    ASSUME NEW f \in Function, f # "GetComEventLog", NEW n \in Word, Room(f, n)
    PROVE  Set(ResponseOf(f), SetResponseCount(f, n))
<1>0. n \in Nat /\ 0 \in Word
  BY WordIs
<1>1. CASE f \in {"ReadCoils", "ReadDiscreteInputs"}
  <2>1. PICK k \in Nat : k = OctetsFor(n) /\ k <= 250
    BY <1>0, <1>1, OctetsOf DEF Room
  <2>2. Least(k, 250) = k
    BY <2>1, LeastIs
  <2>3. SetResponseCount(f, n) = Setting(k, 0, k)
    BY <1>1, <2>1, <2>2 DEF SetResponseCount
  <2>4. ResponseOf(f) = Counted(0, 0, 1, 250)
    BY <1>1 DEF ResponseOf, Data, ReadBits
  <2>5. ResponseOf(f).counted /\ ResponseOf(f).unit = 1
    BY <2>4 DEF Counted
  <2> QED
    BY <1>0, <2>1, <2>3, <2>5, SetOctets
<1>2. CASE f = "ReportServerId"
  <2>1. PICK k \in Nat : k = 2 + n /\ k <= 250
    BY <1>0, <1>2 DEF Room
  <2>2. Least(k, 250) = k
    BY <2>1, LeastIs
  <2>3. SetResponseCount(f, n) = Setting(k, 0, k)
    BY <1>2, <2>1, <2>2 DEF SetResponseCount
  <2>4. ResponseOf(f) = Counted(0, 0, 1, 250)
    BY <1>2 DEF ResponseOf, Data, ServerId
  <2>5. ResponseOf(f).counted /\ ResponseOf(f).unit = 1
    BY <2>4 DEF Counted
  <2> QED
    BY <1>0, <2>1, <2>3, <2>5, SetOctets
<1>3. CASE f \in {"ReadHoldingRegisters", "ReadWriteMultipleRegisters", "ReadInputRegisters"}
  <2>1. PICK q \in Nat : q = Least(n, 125) /\ q <= 125
    BY <1>0, LeastIs
  <2>2. SetResponseCount(f, n) = Setting(2 * q, 0, q)
    <3>1. CASE f = "ReadInputRegisters"
      BY <3>1, <2>1 DEF SetResponseCount
    <3>2. CASE f # "ReadInputRegisters"
      <4>1. n = q
        BY <1>0, <1>3, <2>1, <3>2, LeastIs DEF Room
      <4> QED
        BY <1>3, <2>1, <3>2, <4>1 DEF SetResponseCount
    <3> QED
      BY <3>1, <3>2
  <2>3. ResponseOf(f) = Counted(0, 0, 2, 250)
    BY <1>3 DEF ResponseOf, Data, ReadRegisters, ReadWriteRegisters
  <2>4. ResponseOf(f).counted /\ ResponseOf(f).unit = 2
    BY <2>3 DEF Counted
  <2> QED
    BY <1>0, <2>1, <2>2, <2>4, SetWords
<1>4. CASE f = "ReadExceptionStatus"
  <2>1. SetResponseCount(f, n) = Setting(0, 0, 1)
    BY <1>4 DEF SetResponseCount
  <2>2. ~ResponseOf(f).counted /\ ResponseOf(f).max = 1
    BY <1>4 DEF ResponseOf, Data, ExceptionStatus, OneOctet, Fixed
  <2> QED
    BY <2>1, <2>2, SetNothing
<1>5. CASE f \in {"None", "WriteSingleCoil", "WriteSingleRegister", "GetComEventCounter",
                  "WriteMultipleCoils", "WriteMultipleRegisters", "MaskWriteRegister"}
  <2>1. SetResponseCount(f, n) = Setting(0, 0, 0)
    BY <1>5 DEF SetResponseCount
  <2>2. ResponseOf(f) \in {Fixed(0), Fixed(2), Fixed(3)}
    BY <1>5 DEF ResponseOf, Data, NoData, WriteSingle, ComEventCounter, WriteCoils,
                WriteRegisters, MaskWrite
  <2>3. ~ResponseOf(f).counted /\ ResponseOf(f).max = 0
    BY <2>2 DEF Fixed
  <2> QED
    BY <2>1, <2>3, SetNothing
<1> QED
  BY <1>1, <1>2, <1>3, <1>4, <1>5 DEF Function

\* A request as the application fills it in is one that fills its structure.
LEMMA RequestMade ==
    ASSUME NEW f \in Function, NEW seed \in Word, NEW n \in Word
    PROVE  Proper(RequestOf(f), SetRequestCount(f, n).byteCount, RequestMessage(f, seed, n))
<1>1. PICK lay : lay = RequestOf(f)
  OBVIOUS
<1>2. PICK set : set = SetRequestCount(f, n)
  OBVIOUS
<1>3. Plain(lay) /\ Set(lay, set)
  BY <1>1, <1>2, PlainData, RequestSet DEF RequestOf
<1>4. PICK w \in Nat : w = lay.words
  BY <1>3 DEF Plain
<1> DEFINE word(i) == CASE i = 2 /\ ~lay.counted -> n
                        [] i \in {2, w} /\ lay.counted -> set.quantity
                        [] OTHER -> MadeUp(seed, i)
<1>5. ASSUME NEW i \in 1 .. w
      PROVE  word(i) \in Word
  <2>1. MadeUp(seed, i) \in Word
    BY WordMade
  <2> QED
    BY <2>1, <1>3 DEF Set
<1>6. PICK ws : ws = [i \in 1 .. w |-> word(i)]
  OBVIOUS
<1>7. ws \in Seq(Word) /\ Len(ws) = w
  <2>1. ws \in [1 .. w -> Word]
    BY <1>5, <1>6
  <2> QED
    BY <2>1
<1>8. PICK a : a = Elements(lay, seed, set.elements)
  OBVIOUS
<1>9. a \in Seq(Word) /\ Len(a) = set.elements /\ (lay.unit = 1 => a \in Seq(Octet))
  BY <1>3, <1>8, ElementsMade DEF Plain, Set
<1>10. RequestMessage(f, seed, n) = [words |-> ws, array |-> a]
  BY <1>1, <1>2, <1>4, <1>6, <1>8 DEF RequestMessage, RequestOf
<1>11. lay.counted => set.byteCount \in Octet
  BY <1>3 DEF Set
<1> HIDE DEF word
<1>12. Proper(lay, set.byteCount, [words |-> ws, array |-> a])
  BY <1>3, <1>4, <1>7, <1>9, <1>11 DEF Proper, Message, Set
<1> QED
  BY <1>1, <1>2, <1>10, <1>12

\* So is a response, if there is room for what was asked.
LEMMA ResponseMade ==
    ASSUME NEW f \in Function, f # "GetComEventLog", NEW asked \in Message,
           NEW seed \in Word, NEW n \in Word, Room(f, n)
    PROVE  Proper(ResponseOf(f), SetResponseCount(f, n).byteCount, ResponseMessage(f, asked, seed, n))
<1>1. PICK lay : lay = ResponseOf(f)
  OBVIOUS
<1>2. PICK set : set = SetResponseCount(f, n)
  OBVIOUS
<1>3. Plain(lay) /\ Set(lay, set)
  BY <1>1, <1>2, PlainData, ResponseSet DEF ResponseOf
<1>4. PICK w \in Nat : w = lay.words /\ lay.more = 0 /\ w + lay.more = w
  BY <1>3 DEF Plain
<1> DEFINE word(i) == CASE lay.more > 0 /\ i = 2 -> set.quantity
                        [] i \in DOMAIN asked.words /\ lay.more = 0 -> asked.words[i]
                        [] OTHER -> MadeUp(seed, i)
<1>5. ASSUME NEW i \in 1 .. w
      PROVE  word(i) \in Word
  <2>1. MadeUp(seed, i) \in Word
    BY WordMade
  <2>2. i \in DOMAIN asked.words => asked.words[i] \in Word
    BY DEF Message
  <2>3. ~(lay.more > 0)
    BY <1>4
  <2>4. CASE i \in DOMAIN asked.words
    BY <2>2, <2>3, <2>4, <1>4
  <2>5. CASE i \notin DOMAIN asked.words
    BY <2>1, <2>3, <2>5
  <2> QED
    BY <2>4, <2>5
<1>6. PICK ws : ws = [i \in 1 .. w |-> word(i)]
  OBVIOUS
<1>7. ws \in Seq(Word) /\ Len(ws) = w
  <2>1. ws \in [1 .. w -> Word]
    BY <1>5, <1>6
  <2> QED
    BY <2>1
<1>8. PICK a : a = Elements(lay, seed, set.elements)
  OBVIOUS
<1>9. a \in Seq(Word) /\ Len(a) = set.elements /\ (lay.unit = 1 => a \in Seq(Octet))
  BY <1>3, <1>8, ElementsMade DEF Plain, Set
<1>10. ResponseMessage(f, asked, seed, n) = [words |-> ws, array |-> a]
  <2>1. ResponseMessage(f, asked, seed, n) =
           [words |-> [i \in 1 .. lay.words + lay.more |-> word(i)],
            array |-> Elements(lay, seed, set.elements)]
    BY <1>1, <1>2 DEF ResponseMessage, ResponseOf
  <2> QED
    BY <2>1, <1>4, <1>6, <1>8
<1>11. lay.counted => set.byteCount \in Octet
  BY <1>3 DEF Set
<1> HIDE DEF word
<1>12. Proper(lay, set.byteCount, [words |-> ws, array |-> a])
  BY <1>3, <1>4, <1>7, <1>9, <1>11 DEF Proper, Message, Set
<1> QED
  BY <1>1, <1>2, <1>10, <1>12

\* An exception has one octet of data.
LEMMA ExceptionFramed ==
    ASSUME NEW address \in Octet, NEW f \in Function
    PROVE  PrepareException(address, CodeOf[f], 1) = FrameOf(address, 128 + (CodeOf[f] % 128), << 1 >>)
<1>1. PICK d \in Seq(Octet) : d = << 1 >>
  <2>1. 1 \in Octet
    BY OctetIs
  <2>2. << 1 >> \in Seq(Octet)
    BY <2>1
  <2> QED
    BY <2>2
<1>2. Len(d) = 1
  BY <1>1
<1>3. PICK k \in Nat : k = CodeOf[f] /\ k <= 127
  BY Codes
<1>4. PICK e \in Octet : e = 128 + (CodeOf[f] % 128)
  <2>1. 128 + (k % 128) \in Nat /\ 128 + (k % 128) <= 255
    BY <1>3
  <2> QED
    BY <2>1, <1>3, OctetIs
<1>5. Framed(PreparePacket(address, e, d, Len(d)), address, e, d)
  BY Packed
<1>6. Len(d) + 4 <= MaxSize
  BY <1>2 DEF MaxSize
<1> QED
  BY <1>1, <1>2, <1>4, <1>5, <1>6 DEF Framed, PrepareException

\* Such an answer fits in a frame.
LEMMA RoomFits ==
    ASSUME NEW f \in Function, f # "GetComEventLog", NEW n \in Word, Room(f, n), NEW c, NEW msg,
           c = SetResponseCount(f, n).byteCount, Proper(ResponseOf(f), c, msg)
    PROVE  Len(Encoded(ResponseOf(f), msg)) + 4 <= MaxSize
<1>1. PICK lay : lay = ResponseOf(f)
  OBVIOUS
<1>2. Plain(lay) /\ Proper(lay, c, msg)
  BY <1>1, PlainData DEF ResponseOf
<1>3. Len(Encoded(lay, msg)) = IF lay.counted THEN 2 * lay.words + 1 + c ELSE 2 * lay.words + lay.max
  BY <1>2, EncodedLen
<1>4. Set(lay, SetResponseCount(f, n))
  BY <1>1, ResponseSet
<1>5. \/ lay = Counted(0, 0, 1, 250) \/ lay = Counted(0, 0, 2, 250)
      \/ lay = Fixed(0) \/ lay = Fixed(2) \/ lay = Fixed(3) \/ lay = OneOctet
  BY <1>1 DEF ResponseOf, Function, Data, NoData, ReadBits, ReadRegisters, WriteSingle,
              ExceptionStatus, ComEventCounter, WriteCoils, WriteRegisters, ServerId, MaskWrite,
              ReadWriteRegisters
<1>6. CASE lay.counted
  <2>1. lay.words = 0
    BY <1>5, <1>6 DEF Counted, Fixed, OneOctet
  <2>2. PICK k \in Nat : k = c /\ k <= 250
    BY <1>4, <1>6, OctetIs DEF Set
  <2>3. Len(Encoded(lay, msg)) = 2 * 0 + 1 + k
    BY <1>3, <1>6, <2>1, <2>2
  <2>4. 2 * 0 + 1 + k + 4 <= 256
    BY <2>2
  <2> QED
    BY <1>1, <2>3, <2>4 DEF MaxSize
<1>7. CASE ~lay.counted
  <2>1. lay.words \in {0, 2, 3} /\ lay.max \in {0, 1}
    BY <1>5, <1>7 DEF Counted, Fixed, OneOctet
  <2>2. Len(Encoded(lay, msg)) = 2 * lay.words + lay.max
    BY <1>3, <1>7
  <2> QED
    BY <1>1, <2>1, <2>2 DEF MaxSize
<1> QED
  BY <1>6, <1>7

\* A request fits in a frame, as setCount() limits it.
LEMMA RequestFits ==
    ASSUME NEW f \in Function, NEW seed \in Word, NEW n \in Word
    PROVE  Len(Encoded(RequestOf(f), RequestMessage(f, seed, n))) + 4 <= MaxSize
<1>1. PICK lay : lay = RequestOf(f)
  OBVIOUS
<1>2. PICK c : c = SetRequestCount(f, n).byteCount
  OBVIOUS
<1>3. PICK msg : msg = RequestMessage(f, seed, n)
  OBVIOUS
<1>4. Plain(lay) /\ Proper(lay, c, msg)
  BY <1>1, <1>2, <1>3, PlainData, RequestMade DEF RequestOf
<1>5. Len(Encoded(lay, msg)) = IF lay.counted THEN 2 * lay.words + 1 + c ELSE 2 * lay.words + lay.max
  BY <1>4, EncodedLen
<1>6. n \in Nat
  BY WordIs
<1>7. CASE f = "WriteMultipleCoils"
  <2>1. lay = Counted(2, 0, 1, 246)
    BY <1>1, <1>7 DEF RequestOf, Data, WriteCoils
  <2>2. lay.words = 2 /\ lay.counted
    BY <2>1 DEF Counted
  <2>3. PICK b \in Nat : b = 8 * 246 /\ b = 1968
    OBVIOUS
  <2>4. PICK q \in Nat : q = Least(n, b) /\ q <= b
    BY <1>6, LeastIs
  <2>5. PICK k \in Nat : k = OctetsFor(q) /\ k <= 246
    BY <2>3, <2>4, OctetsOf
  <2>6. SetRequestCount(f, n) = Setting(k, q, k)
    BY <1>7, <2>3, <2>4, <2>5 DEF SetRequestCount
  <2>7. c = k % (MaxOctet + 1)
    BY <1>2, <2>6 DEF Setting
  <2>8. c = k
    BY <2>5, <2>7, Mod
  <2>9. 2 * 2 + 1 + k + 4 <= 256
    BY <2>5
  <2> QED
    BY <1>1, <1>3, <1>5, <2>2, <2>8, <2>9 DEF MaxSize
<1>8. CASE f = "WriteMultipleRegisters"
  <2>1. lay = Counted(2, 0, 2, 246)
    BY <1>1, <1>8 DEF RequestOf, Data, WriteRegisters
  <2>2. lay.words = 2 /\ lay.counted
    BY <2>1 DEF Counted
  <2>3. PICK q \in Nat : q = Least(n, 123) /\ q <= 123
    BY <1>6, LeastIs
  <2>4. PICK k \in Nat : k = 2 * q /\ k <= 246
    BY <2>3
  <2>5. SetRequestCount(f, n) = Setting(k, q, q)
    BY <1>8, <2>3, <2>4 DEF SetRequestCount
  <2>6. c = k % (MaxOctet + 1)
    BY <1>2, <2>5 DEF Setting
  <2>7. c = k
    BY <2>4, <2>6, Mod
  <2>8. 2 * 2 + 1 + k + 4 <= 256
    BY <2>4
  <2> QED
    BY <1>1, <1>3, <1>5, <2>2, <2>7, <2>8 DEF MaxSize
<1>9. CASE f = "ReadWriteMultipleRegisters"
  <2>1. lay = Counted(4, 0, 2, 242)
    BY <1>1, <1>9 DEF RequestOf, Data, ReadWriteRegisters
  <2>2. lay.words = 4 /\ lay.counted
    BY <2>1 DEF Counted
  <2>3. PICK q \in Nat : q = Least(n, 121) /\ q <= 121
    BY <1>6, LeastIs
  <2>4. PICK k \in Nat : k = 2 * q /\ k <= 242
    BY <2>3
  <2>5. SetRequestCount(f, n) = Setting(k, q, q)
    BY <1>9, <2>3, <2>4 DEF SetRequestCount
  <2>6. c = k % (MaxOctet + 1)
    BY <1>2, <2>5 DEF Setting
  <2>7. c = k
    BY <2>4, <2>6, Mod
  <2>8. 2 * 4 + 1 + k + 4 <= 256
    BY <2>4
  <2> QED
    BY <1>1, <1>3, <1>5, <2>2, <2>7, <2>8 DEF MaxSize
<1>10. CASE f \notin {"WriteMultipleCoils", "WriteMultipleRegisters", "ReadWriteMultipleRegisters"}
  <2>1. lay = Fixed(0) \/ lay = Fixed(2) \/ lay = Fixed(3)
    BY <1>1, <1>10 DEF RequestOf, Function, Data, NoData, ReadBits, ReadRegisters, WriteSingle,
                       ExceptionStatus, ComEventCounter, ComEventLog, ServerId, MaskWrite
  <2>2. ~lay.counted /\ lay.words \in {0, 2, 3} /\ lay.max = 0
    BY <2>1 DEF Fixed
  <2>3. Len(Encoded(lay, msg)) = 2 * lay.words + 0
    BY <1>5, <2>2
  <2> QED
    BY <1>1, <1>3, <2>2, <2>3 DEF MaxSize
<1> QED
  BY <1>7, <1>8, <1>9, <1>10

-----------------------------------------------------------------------------
(* What the receiver reads *)

\* A frame: where its parts are, and that they clear the register.
IsFrame(g, address, code, data) ==
    /\ g \in Seq(Octet) /\ Len(g) = Len(data) + 4 /\ Crc(g) = {}
    /\ g[1] = address /\ g[2] = code /\ \A i \in 1 .. Len(data) : g[2 + i] = data[i]

\* That is what a frame is made of.
LEMMA FrameIs ==
    ASSUME NEW address \in Octet, NEW code \in Octet, NEW data \in Seq(Octet)
    PROVE  IsFrame(FrameOf(address, code, data), address, code, data)
<1>1. PICK k \in Seq(Octet) : k = <<address, code>>
  <2>1. <<address, code>> \in Seq(Octet)
    OBVIOUS
  <2> QED
    BY <2>1
<1>2. Len(k) = 2 /\ k[1] = address /\ k[2] = code
  BY <1>1
<1>3. PICK n \in Nat : n = Len(data)
  BY LenProperties
<1>4. PICK p \in Seq(Octet) : p = Join(k, data)
  BY JoinTwo
<1>5. /\ Len(p) = 2 + n
      /\ \A i \in 1 .. 2 : p[i] = k[i]
      /\ \A i \in 1 .. n : p[2 + i] = data[i]
  <2>1. Len(p) = Len(k) + Len(data)
    BY <1>4, JoinTwo
  <2>2. /\ \A i \in 1 .. Len(k) : p[i] = k[i]
        /\ \A i \in 1 .. Len(data) : p[Len(k) + i] = data[i]
    BY <1>4, JoinAt
  <2> QED
    BY <1>2, <1>3, <2>1, <2>2
<1>6. p # <<>>
  BY <1>5, <1>3, EmptySeq
<1>7. Checksum(p) \in Seq(Octet) /\ Len(Checksum(p)) = 2
  BY <1>6, ChecksumIs
<1>8. PICK g \in Seq(Octet) : g = Join(p, Checksum(p))
  BY <1>7, JoinTwo
<1>9. Len(g) = (2 + n) + 2 /\ \A i \in 1 .. 2 + n : g[i] = p[i]
  <2>1. PICK c \in Seq(Octet) : c = Checksum(p) /\ Len(c) = 2
    BY <1>7
  <2>2. Len(g) = Len(p) + Len(c)
    BY <1>8, <2>1, JoinTwo
  <2>3. \A i \in 1 .. Len(p) : g[i] = p[i]
    BY <1>8, <2>1, JoinAt
  <2> QED
    BY <1>5, <2>1, <2>2, <2>3
<1>10. g = FrameOf(address, code, data)
  BY <1>1, <1>4, <1>8 DEF FrameOf, Join
<1>11. Crc(g) = {}
  BY <1>6, <1>8, Residue DEF Join
<1>12. 1 \in 1 .. 2 + n /\ 2 \in 1 .. 2 + n /\ \A i \in 1 .. n : 2 + i \in 1 .. 2 + n
  BY <1>3
<1>13. g[1] = address /\ g[2] = code /\ \A i \in 1 .. n : g[2 + i] = data[i]
  BY <1>2, <1>5, <1>9, <1>12
<1>14. (2 + n) + 2 = n + 4
  BY <1>3
<1> QED
  BY <1>3, <1>9, <1>10, <1>11, <1>13, <1>14 DEF IsFrame

\* A receive buffer.
Buf == {b \in Seq(Octet) : Len(b) = MaxSize}

\* It holds what came in, and behind that whatever it held before.
LEMMA BufferIs ==
    ASSUME NEW w \in Seq(Octet), NEW fill \in Octet
    PROVE  /\ Buffer(w, fill) \in Buf
           /\ \A i \in 1 .. 256 : Buffer(w, fill)[i] = IF i <= Len(w) THEN w[i] ELSE fill
<1>1. PICK n \in Nat : n = Len(w)
  BY LenProperties
<1>2. PICK b : b = Buffer(w, fill)
  OBVIOUS
<1>3. b = [i \in 1 .. 256 |-> IF i <= n THEN w[i] ELSE fill]
  BY <1>1, <1>2 DEF Buffer, MaxSize
<1>4. ASSUME NEW i \in 1 .. 256
      PROVE  b[i] \in Octet
  <2>1. i <= n => i \in 1 .. n
    OBVIOUS
  <2> QED
    BY <1>1, <1>3, <2>1, ElementOfSeq
<1>5. b \in [1 .. 256 -> Octet]
  BY <1>3, <1>4
<1>6. b \in Seq(Octet) /\ Len(b) = 256
  <2>1. PICK m \in Nat : m = 256
    OBVIOUS
  <2>2. b \in [1 .. m -> Octet]
    BY <1>5, <2>1
  <2>3. b \in Seq(Octet) /\ Len(b) = m
    BY <2>2
  <2> QED
    BY <2>1, <2>3
<1> QED
  BY <1>1, <1>2, <1>3, <1>6 DEF Buf, MaxSize

\* A buffer begins with a frame.
Holds(b, g) == \A i \in 1 .. Len(g) : b[i] = g[i]

\* The frame is what the checksum is taken of.
LEMMA FrameIn ==
    ASSUME NEW b \in Buf, NEW g \in Seq(Octet), Len(g) <= MaxSize, Holds(b, g)
    PROVE  SubSeq(b, 1, Len(g)) = g
<1>1. PICK n \in Nat : n = Len(g) /\ n <= 256
  BY LenProperties DEF MaxSize
<1>2. b \in Seq(Octet) /\ Len(b) = 256
  BY DEF Buf, MaxSize
<1>3. PICK s : s = SubSeq(b, 1, n)
  OBVIOUS
<1>4. s = [i \in 1 .. n |-> b[i]]
  BY <1>1, <1>2, <1>3
<1>5. g = [i \in 1 .. n |-> g[i]]
  BY <1>1
<1>6. [i \in 1 .. n |-> b[i]] = [i \in 1 .. n |-> g[i]]
  BY <1>1 DEF Holds
<1> QED
  BY <1>1, <1>3, <1>4, <1>5, <1>6

\* ADU.cpp 32-38, 94-131: in the buffer of the receiver the address, the function
\* code and the data stand where it looks for them.
LEMMA Delivered ==
    ASSUME NEW address \in Octet, NEW code \in Octet, NEW data \in Seq(Octet),
           Len(data) + 4 <= MaxSize, NEW b \in Buf, Holds(b, FrameOf(address, code, data))
    PROVE  /\ b[1] = address /\ b[2] = code
           /\ \E t \in Seq(Octet) : DataIn(b) = Join(data, t)
<1>1. PICK n \in 0 .. 252 : n = Len(data)
  <2>1. PICK m \in Nat : m = Len(data)
    BY LenProperties
  <2>2. m + 4 <= 256
    BY <2>1 DEF MaxSize
  <2>3. m \in 0 .. 252
    BY <2>2
  <2> QED
    BY <2>1, <2>3
<1>2. PICK g : g = FrameOf(address, code, data) /\ IsFrame(g, address, code, data)
  BY FrameIs
<1>3. Len(g) = n + 4 /\ g[1] = address /\ g[2] = code /\ \A i \in 1 .. n : g[2 + i] = data[i]
  BY <1>1, <1>2 DEF IsFrame
<1>4. \A i \in 1 .. n + 4 : b[i] = g[i]
  BY <1>2, <1>3 DEF Holds
<1>5. b[1] = address /\ b[2] = code /\ \A i \in 1 .. n : b[2 + i] = data[i]
  <2>1. 1 \in 1 .. n + 4 /\ 2 \in 1 .. n + 4 /\ \A i \in 1 .. n : 2 + i \in 1 .. n + 4
    OBVIOUS
  <2> QED
    BY <2>1, <1>3, <1>4
<1>6. b \in Seq(Octet) /\ Len(b) = 256
  BY DEF Buf, MaxSize
<1>60. b \in [1 .. 256 -> Octet]
  BY <1>6, LenProperties
<1>7. PICK d : d = DataIn(b)
  OBVIOUS
<1>8. d = [i \in 1 .. 254 |-> b[i + 2]]
  <2>1. SubSeq(b, 3, 256) = [i \in 1 .. 254 |-> b[i + 2]]
    BY <1>6
  <2> QED
    BY <2>1, <1>7 DEF DataIn, MaxSize
<1>9. PICK t : t = [i \in 1 .. 254 - n |-> b[(2 + n) + i]]
  OBVIOUS
<1>10. t \in Seq(Octet) /\ Len(t) = 254 - n
  <2>1. 254 - n \in Nat /\ \A i \in 1 .. 254 - n : (2 + n) + i \in 1 .. 256
    OBVIOUS
  <2>2. t \in [1 .. 254 - n -> Octet]
    BY <2>1, <1>60, <1>9
  <2>3. PICK m \in Nat : m = 254 - n
    BY <2>1
  <2>4. t \in [1 .. m -> Octet]
    BY <2>2, <2>3
  <2>5. t \in Seq(Octet) /\ Len(t) = m
    BY <2>4
  <2> QED
    BY <2>3, <2>5
<1>11. PICK e \in Seq(Octet) : e = Join(data, t) /\ Len(e) = 254
  <2>1. Join(data, t) \in Seq(Octet) /\ Len(Join(data, t)) = Len(data) + Len(t)
    BY <1>10, JoinTwo
  <2> QED
    BY <2>1, <1>1, <1>10
<1>12. ASSUME NEW i \in 1 .. 254
       PROVE  e[i] = d[i]
  <2>0. /\ \A j \in 1 .. Len(data) : Join(data, t)[j] = data[j]
        /\ \A j \in 1 .. Len(t) : Join(data, t)[Len(data) + j] = t[j]
    BY <1>10, JoinAt
  <2>1. CASE i <= n
    <3>1. i \in 1 .. n /\ i + 2 = 2 + i
      BY <2>1
    <3>2. e[i] = data[i]
      BY <3>1, <2>0, <1>1, <1>11
    <3> QED
      BY <3>1, <3>2, <1>5, <1>8
  <2>2. CASE ~(i <= n)
    <3>1. PICK j \in 1 .. 254 - n : j = i - n
      BY <2>2
    <3>2. n + j = i /\ (2 + n) + j = i + 2
      BY <3>1
    <3>0. j \in 1 .. Len(t)
      BY <1>10
    <3>3. e[i] = t[j]
      BY <3>0, <3>2, <2>0, <1>1, <1>11
    <3> QED
      BY <3>1, <3>2, <3>3, <1>8, <1>9
  <2> QED
    BY <2>1, <2>2
<1>13. d = e
  <2>1. e = [i \in 1 .. 254 |-> e[i]]
    BY <1>11
  <2>2. [i \in 1 .. 254 |-> e[i]] = [i \in 1 .. 254 |-> b[i + 2]]
    BY <1>8, <1>12
  <2> QED
    BY <2>1, <2>2, <1>8
<1> QED
  BY <1>5, <1>7, <1>10, <1>11, <1>13

-----------------------------------------------------------------------------
(* What is in the buffer *)

\* How much data the receiver takes a frame to have.
RequestSize(b) == RequestDataSize(FunctionOf(b[2]), DataIn(b))

ResponseSize(b) ==
    IF ExceptionFlag(b[2]) THEN 1 ELSE ResponseDataSize(FunctionOf(b[2]), DataIn(b))

\* What is to be read in a buffer: a request of address, or its answer.
RequestIn(b, address, f, msg) ==
    /\ b[1] = address /\ b[2] = CodeOf[f]
    /\ Fields(RequestOf(f), RequestData(b)) = msg
    /\ RequestSize(b) = Len(Encoded(RequestOf(f), msg))

ResponseIn(b, address, f, msg) ==
    /\ b[1] = address /\ b[2] = CodeOf[f]
    /\ Fields(ResponseOf(f), ResponseData(b)) = msg
    /\ ResponseSize(b) = Len(Encoded(ResponseOf(f), msg))

ExceptionIn(b, address, f) ==
    /\ b[1] = address /\ b[2] = 128 + (CodeOf[f] % 128)
    /\ ResponseData(b)[1] = 1
    /\ ResponseSize(b) = 1

\* What the slave reads in the frame of a request is the request.
LEMMA RequestRead ==
    ASSUME NEW address \in Octet, NEW f \in Function, NEW c, NEW msg,
           Proper(RequestOf(f), c, msg), Len(Encoded(RequestOf(f), msg)) + 4 <= MaxSize,
           NEW b \in Buf, Holds(b, FrameOf(address, CodeOf[f], Encoded(RequestOf(f), msg)))
    PROVE  RequestIn(b, address, f, msg)
<1>1. PICK d \in Seq(Octet) : d = Encoded(RequestOf(f), msg)
  BY PlainData, EncodedLen DEF RequestOf
<1>2. CodeOf[f] \in Octet
  BY Codes
<1>3. /\ b[1] = address /\ b[2] = CodeOf[f]
      /\ \E t \in Seq(Octet) : DataIn(b) = Join(d, t)
  BY <1>1, <1>2, Delivered
<1>4. RequestData(b) = SwapRequest(f, DataIn(b)) /\ RequestSize(b) = RequestDataSize(f, DataIn(b))
  BY <1>3, FunctionOfCode DEF RequestData, RequestSize
<1>5. PICK S : S = Octet
  OBVIOUS
<1>6. PICK t \in Seq(S) : DataIn(b) = Join(d, t)
  BY <1>3, <1>5
<1>7. ASSUME f = "GetComEventCounter"
      PROVE  Fields(RequestOf(f), RequestData(b)) = msg /\ RequestSize(b) = Len(d)
  <2>1. RequestOf(f) = Fixed(0)
    BY <1>7 DEF RequestOf, Data, ComEventCounter
  <2>2. Fixed(0) = [words |-> 0, counted |-> FALSE, more |-> 0, unit |-> 1, max |-> 0]
    BY DEF Fixed
  <2>3. msg = NoMessage /\ d = <<>>
    BY <1>1, <2>1, NothingIn
  <2>4. \A x : Fields(Fixed(0), x) = NoMessage
    <3> TAKE x
    <3>1. ArraySize(Fixed(0), x) \div 1 = 0
      BY <2>2 DEF ArraySize
    <3> QED
      BY <2>2, <3>1 DEF Fields, NoMessage
  <2>5. RequestDataSize(f, DataIn(b)) = 0
    BY <1>7 DEF RequestDataSize
  <2>6. Len(d) = 0
    BY <2>3
  <2> QED
    BY <1>4, <2>1, <2>3, <2>4, <2>5, <2>6
<1>8. ASSUME f # "GetComEventCounter"
      PROVE  Fields(RequestOf(f), RequestData(b)) = msg /\ RequestSize(b) = Len(d)
  <2>1. /\ SwapRequest(f, Join(Encoded(RequestOf(f), msg), t)) = Join(Image(RequestOf(f), c, msg), t)
        /\ RequestDataSize(f, Join(Encoded(RequestOf(f), msg), t)) = Len(Encoded(RequestOf(f), msg))
    BY <1>5, <1>8, RequestSwapped
  <2>2. Plain(RequestOf(f))
    BY PlainData DEF RequestOf
  <2>3. Fields(RequestOf(f), Join(Image(RequestOf(f), c, msg), t)) = msg
    BY <1>5, <2>2, FieldsRead
  <2> QED
    BY <1>1, <1>4, <1>6, <2>1, <2>3
<1>9. Fields(RequestOf(f), RequestData(b)) = msg /\ RequestSize(b) = Len(d)
  BY <1>7, <1>8
<1> QED
  BY <1>1, <1>3, <1>9 DEF RequestIn

\* What the master reads in the frame of an answer is the answer.
LEMMA ResponseRead ==
    ASSUME NEW address \in Octet, NEW f \in Function, f # "GetComEventLog", NEW c, NEW msg,
           Proper(ResponseOf(f), c, msg), Len(Encoded(ResponseOf(f), msg)) + 4 <= MaxSize,
           NEW b \in Buf, Holds(b, FrameOf(address, CodeOf[f], Encoded(ResponseOf(f), msg)))
    PROVE  ResponseIn(b, address, f, msg)
<1>1. PICK d \in Seq(Octet) : d = Encoded(ResponseOf(f), msg)
  BY PlainData, EncodedLen DEF ResponseOf
<1>2. CodeOf[f] \in Octet
  BY Codes
<1>3. /\ b[1] = address /\ b[2] = CodeOf[f]
      /\ \E t \in Seq(Octet) : DataIn(b) = Join(d, t)
  BY <1>1, <1>2, Delivered
<1>4. ResponseData(b) = SwapResponse(f, DataIn(b)) /\ ResponseSize(b) = ResponseDataSize(f, DataIn(b))
  BY <1>3, FunctionOfCode DEF ResponseData, ResponseSize
<1>5. PICK S : S = Octet
  OBVIOUS
<1>6. PICK t \in Seq(S) : DataIn(b) = Join(d, t)
  BY <1>3, <1>5
<1>7. /\ SwapResponse(f, Join(Encoded(ResponseOf(f), msg), t)) = Join(Image(ResponseOf(f), c, msg), t)
      /\ ResponseDataSize(f, Join(Encoded(ResponseOf(f), msg), t)) = Len(Encoded(ResponseOf(f), msg))
  BY <1>5, ResponseSwapped
<1>8. Plain(ResponseOf(f))
  BY PlainData DEF ResponseOf
<1>9. Fields(ResponseOf(f), Join(Image(ResponseOf(f), c, msg), t)) = msg
  BY <1>5, <1>8, FieldsRead
<1> QED
  BY <1>1, <1>3, <1>4, <1>6, <1>7, <1>9 DEF ResponseIn

\* What the master reads in the frame of an exception is the exception.
LEMMA ExceptionRead ==
    ASSUME NEW address \in Octet, NEW f \in Function,
           NEW b \in Buf, Holds(b, FrameOf(address, 128 + (CodeOf[f] % 128), << 1 >>))
    PROVE  ExceptionIn(b, address, f)
<1>1. PICK d \in Seq(Octet) : d = << 1 >>
  <2>1. 1 \in Octet
    BY OctetIs
  <2>2. << 1 >> \in Seq(Octet)
    BY <2>1
  <2> QED
    BY <2>2
<1>2. Len(d) = 1 /\ d[1] = 1
  BY <1>1
<1>3. PICK k \in Nat : k = CodeOf[f] /\ k <= 127
  BY Codes
<1>4. PICK e \in Octet : e = 128 + (CodeOf[f] % 128)
  <2>1. 128 + (k % 128) \in Nat /\ 128 + (k % 128) <= 255
    BY <1>3
  <2> QED
    BY <2>1, <1>3, OctetIs
<1>5. Len(d) + 4 <= MaxSize
  BY <1>2 DEF MaxSize
<1>6. Holds(b, FrameOf(address, e, d))
  BY <1>1, <1>4
<1>7. /\ b[1] = address /\ b[2] = e
      /\ \E t \in Seq(Octet) : DataIn(b) = Join(d, t)
  BY <1>5, <1>6, Delivered
<1>8. PICK t \in Seq(Octet) : DataIn(b) = Join(d, t)
  BY <1>7
<1>9. Join(d, t)[1] = d[1]
  <2>1. \A i \in 1 .. Len(d) : Join(d, t)[i] = d[i]
    BY JoinAt
  <2> QED
    BY <2>1, <1>2
<1>10. ResponseData(b) = DataIn(b) /\ ResponseSize(b) = 1
  BY <1>4, <1>7, FunctionOfCode DEF ResponseData, ResponseSize
<1> QED
  BY <1>2, <1>4, <1>7, <1>8, <1>9, <1>10 DEF ExceptionIn

-----------------------------------------------------------------------------
(* Size *)

\* Where the data is.
LEMMA DataAt ==
    ASSUME NEW b \in Buf
    PROVE  /\ DataIn(b)[1] = b[3] /\ DataIn(b)[5] = b[7] /\ DataIn(b)[9] = b[11]
           /\ b[3] \in Nat /\ b[7] \in Nat /\ b[11] \in Nat
<1>1. b \in Seq(Octet) /\ Len(b) = 256
  BY DEF Buf, MaxSize
<1>2. DataIn(b) = [i \in 1 .. 254 |-> b[i + 2]]
  BY <1>1 DEF DataIn, MaxSize
<1>3. b \in [1 .. 256 -> Octet]
  BY <1>1, LenProperties
<1>4. b[3] \in Octet /\ b[7] \in Octet /\ b[11] \in Octet
  BY <1>3
<1> QED
  BY <1>2, <1>4, OctetIs

\* PDU.cpp 24-53: the size of a request follows from its function code and its octet
\* count; if that has not come in, neither has all the rest.
LEMMA RequestSizes ==
    ASSUME NEW b \in Buf, NEW x \in Buf, b[2] = x[2]
    PROVE  /\ RequestSize(b) \in Nat
           /\ b[7] = x[7] /\ b[11] = x[11] => RequestSize(b) = RequestSize(x)
           /\ \A n \in Nat : (\A i \in 1 .. n : b[i] = x[i]) =>
                 RequestSize(b) = RequestSize(x) \/ n < RequestSize(b) + 4
<1>1. PICK f : f = FunctionOf(b[2]) /\ f = FunctionOf(x[2])
  OBVIOUS
<1>2. RequestSize(b) = RequestDataSize(f, DataIn(b)) /\ RequestSize(x) = RequestDataSize(f, DataIn(x))
  BY <1>1 DEF RequestSize
<1>3. /\ DataIn(b)[5] = b[7] /\ DataIn(b)[9] = b[11] /\ b[7] \in Nat /\ b[11] \in Nat
      /\ DataIn(x)[5] = x[7] /\ DataIn(x)[9] = x[11]
  BY DataAt
<1>4. CASE f \in {"WriteMultipleCoils", "WriteMultipleRegisters"}
  <2>1. RequestSize(b) = 5 + b[7] /\ RequestSize(x) = 5 + x[7]
    BY <1>2, <1>3, <1>4 DEF RequestDataSize
  <2>2. ASSUME NEW n \in Nat, \A i \in 1 .. n : b[i] = x[i]
        PROVE  b[7] = x[7] \/ n < 5 + b[7] + 4
    <3>1. CASE n >= 7
      BY <2>2, <3>1
    <3>2. CASE ~(n >= 7)
      BY <1>3, <3>2
    <3> QED
      BY <3>1, <3>2
  <2> QED
    BY <1>3, <2>1, <2>2
<1>5. CASE f = "ReadWriteMultipleRegisters"
  <2>1. RequestSize(b) = 9 + b[11] /\ RequestSize(x) = 9 + x[11]
    BY <1>2, <1>3, <1>5 DEF RequestDataSize
  <2>2. ASSUME NEW n \in Nat, \A i \in 1 .. n : b[i] = x[i]
        PROVE  b[11] = x[11] \/ n < 9 + b[11] + 4
    <3>1. CASE n >= 11
      BY <2>2, <3>1
    <3>2. CASE ~(n >= 11)
      BY <1>3, <3>2
    <3> QED
      BY <3>1, <3>2
  <2> QED
    BY <1>3, <2>1, <2>2
<1>6. CASE f \notin {"WriteMultipleCoils", "WriteMultipleRegisters", "ReadWriteMultipleRegisters"}
  <2>1. RequestSize(b) \in {0, 4, 6} /\ RequestSize(x) = RequestSize(b)
    BY <1>2, <1>6 DEF RequestDataSize
  <2> QED
    BY <2>1
<1> QED
  BY <1>4, <1>5, <1>6

\* PDU.cpp 55-87: so does the size of a response.
LEMMA ResponseSizes ==
    ASSUME NEW b \in Buf, NEW x \in Buf, b[2] = x[2]
    PROVE  /\ ResponseSize(b) \in Nat
           /\ b[3] = x[3] => ResponseSize(b) = ResponseSize(x)
           /\ \A n \in Nat : (\A i \in 1 .. n : b[i] = x[i]) =>
                 ResponseSize(b) = ResponseSize(x) \/ n < ResponseSize(b) + 4
<1>1. PICK f : f = FunctionOf(b[2]) /\ f = FunctionOf(x[2])
  OBVIOUS
<1>2. DataIn(b)[1] = b[3] /\ DataIn(x)[1] = x[3] /\ b[3] \in Nat
  BY DataAt
<1>3. CASE ExceptionFlag(b[2])
  <2>1. ResponseSize(b) = 1 /\ ResponseSize(x) = 1
    BY <1>3 DEF ResponseSize
  <2> QED
    BY <2>1
<1>4. CASE ~ExceptionFlag(b[2])
  <2>0. /\ ResponseSize(b) = ResponseDataSize(f, DataIn(b))
        /\ ResponseSize(x) = ResponseDataSize(f, DataIn(x))
    BY <1>1, <1>4 DEF ResponseSize
  <2>1. CASE f \in {"ReadCoils", "ReadDiscreteInputs", "ReadHoldingRegisters",
                    "ReadInputRegisters", "ReportServerId", "ReadWriteMultipleRegisters",
                    "GetComEventLog"}
    <3>1. ResponseSize(b) = 1 + b[3] /\ ResponseSize(x) = 1 + x[3]
      BY <1>2, <2>0, <2>1 DEF ResponseDataSize
    <3>2. ASSUME NEW n \in Nat, \A i \in 1 .. n : b[i] = x[i]
          PROVE  b[3] = x[3] \/ n < 1 + b[3] + 4
      <4>1. CASE n >= 3
        BY <3>2, <4>1
      <4>2. CASE ~(n >= 3)
        BY <1>2, <4>2
      <4> QED
        BY <4>1, <4>2
    <3> QED
      BY <1>2, <3>1, <3>2
  <2>2. CASE f \notin {"ReadCoils", "ReadDiscreteInputs", "ReadHoldingRegisters",
                       "ReadInputRegisters", "ReportServerId", "ReadWriteMultipleRegisters",
                       "GetComEventLog"}
    <3>1. ResponseSize(b) \in {0, 1, 4, 6} /\ ResponseSize(x) = ResponseSize(b)
      BY <2>0, <2>2 DEF ResponseDataSize
    <3> QED
      BY <3>1
  <2> QED
    BY <2>1, <2>2
<1> QED
  BY <1>3, <1>4

-----------------------------------------------------------------------------
(* What the line leaves of a frame *)

\* What can become of a frame g on the line: it arrives whole, perhaps with more
\* behind it; or is cut off; or one octet, and none that says how long it is, is
\* wrong; or it does not begin with an address.
Whole(g, w) == Len(w) >= Len(g) /\ \A i \in 1 .. Len(g) : w[i] = g[i]

Cut(g, w) == Len(w) < Len(g) /\ \A i \in 1 .. Len(w) : w[i] = g[i]

Lengths == {2, 3, 7, 11}

Wrong(g, w) == Len(w) = Len(g) /\ \E k \in (1 .. Len(g)) \ Lengths :
                                     \A i \in 1 .. Len(g) : w[i] = g[i] <=> i # k

Shifted(w) == w # <<>> /\ w[1] \notin Addresses \cup {Own}

\* A frame with m octets of data.
Good(g, m) == /\ g \in Seq(Octet) /\ m \in Nat /\ Len(g) = m + 4
              /\ Len(g) <= MaxSize /\ Crc(g) = {}

\* What is received of a frame of n octets.
LEMMA ReceivedIs ==
    ASSUME NEW l \in Nat
    PROVE  /\ Least(l, MaxSize) \in Nat
           /\ l <= 256 => Least(l, MaxSize) = l
           /\ \A n \in Nat : n <= 256 /\ n <= l => n <= Least(l, MaxSize)
<1>1. PICK q \in Nat : q = MaxSize /\ q = 256
  BY DEF MaxSize
<1>2. /\ Least(l, q) \in Nat
      /\ l <= q => Least(l, q) = l
      /\ \A n \in Nat : n <= q /\ n <= l => n <= Least(l, q)
  BY DEF Least
<1> QED
  BY <1>1, <1>2

\* ADU.cpp 94-131, by the size of the frame.
LEMMA PacketParsed ==
    ASSUME NEW b, NEW received, NEW m \in Nat, NEW n \in Nat, n = m + 4
    PROVE  ParsePacket(b, received, m) =
              IF received < MinSize \/ received < n THEN "bad_size"
              ELSE IF Crc(SubSeq(b, 1, n)) # {} THEN "bad_checksum" ELSE "success"
<1>1. 2 + m + 2 = n
  OBVIOUS
<1>2. ParsePacket(b, received, m) =
         IF received < MinSize \/ received < 2 + m + 2 THEN "bad_size"
         ELSE IF Crc(SubSeq(b, 1, 2 + m + 2)) # {} THEN "bad_checksum" ELSE "success"
  BY Zenon DEF ParsePacket
<1> QED
  BY <1>1, <1>2, Zenon

\* Of a whole frame the checksum fits.
LEMMA WholeParsed ==
    ASSUME NEW g, NEW m, Good(g, m), NEW w \in Seq(Octet), NEW fill \in Octet, Whole(g, w)
    PROVE  /\ Holds(Buffer(w, fill), g)
           /\ ParsePacket(Buffer(w, fill), Least(Len(w), MaxSize), m) = "success"
<1>1. PICK n \in Nat : /\ n = Len(g) /\ n = m + 4 /\ n <= 256
                       /\ g \in Seq(Octet) /\ m \in Nat /\ Crc(g) = {}
  BY LenProperties DEF Good, MaxSize
<1>2. PICK l \in Nat : l = Len(w) /\ n <= l /\ \A i \in 1 .. n : w[i] = g[i]
  BY <1>1, LenProperties DEF Whole
<1>3. PICK b \in Buf : b = Buffer(w, fill)
  BY BufferIs
<1>4. Holds(b, g)
  <2>1. \A i \in 1 .. n : i \in 1 .. 256 /\ i <= l
    BY <1>1, <1>2
  <2>2. \A i \in 1 .. 256 : b[i] = IF i <= l THEN w[i] ELSE fill
    BY <1>2, <1>3, BufferIs
  <2> QED
    BY <1>1, <1>2, <2>1, <2>2 DEF Holds
<1>5. SubSeq(b, 1, n) = g
  BY <1>1, <1>4, FrameIn DEF MaxSize
<1>6. PICK r \in Nat : r = Least(l, MaxSize) /\ n <= r /\ 4 <= r
  BY <1>1, <1>2, ReceivedIs
<1>7. ParsePacket(b, r, m) = "success"
  <2>1. ~(r < MinSize) /\ ~(r < n)
    BY <1>1, <1>6 DEF MinSize
  <2>2. Crc(SubSeq(b, 1, n)) = {}
    BY <1>1, <1>5, Zenon
  <2> QED
    BY <1>1, <2>1, <2>2, PacketParsed
<1> QED
  BY <1>2, <1>3, <1>4, <1>6, <1>7

\* A frame with a wrong octet is refused.
LEMMA WrongParsed ==
    ASSUME NEW g, NEW m, Good(g, m), NEW w \in Seq(Octet), NEW fill \in Octet, Wrong(g, w)
    PROVE  /\ ParsePacket(Buffer(w, fill), Least(Len(w), MaxSize), m) = "bad_checksum"
           /\ \A i \in Lengths : Buffer(w, fill)[i] = Buffer(g, fill)[i]
<1>1. PICK n \in Nat : /\ n = Len(g) /\ n = m + 4 /\ n <= 256
                       /\ g \in Seq(Octet) /\ m \in Nat /\ Crc(g) = {}
  BY LenProperties DEF Good, MaxSize
<1>2. PICK k \in (1 .. n) \ Lengths : Len(w) = n /\ \A i \in 1 .. n : w[i] = g[i] <=> i # k
  BY <1>1 DEF Wrong
<1>3. PICK b \in Buf : b = Buffer(w, fill)
  BY BufferIs
<1>4. \A i \in 1 .. 256 : /\ b[i] = IF i <= n THEN w[i] ELSE fill
                          /\ Buffer(g, fill)[i] = IF i <= n THEN g[i] ELSE fill
  <2>1. \A i \in 1 .. 256 : b[i] = IF i <= n THEN w[i] ELSE fill
    <3>1. n = Len(w)
      BY <1>2
    <3> QED
      BY <1>3, <3>1, BufferIs
  <2>2. \A i \in 1 .. 256 : Buffer(g, fill)[i] = IF i <= n THEN g[i] ELSE fill
    <3>1. g \in Seq(Octet) /\ n = Len(g)
      BY <1>1
    <3> QED
      BY <3>1, BufferIs
  <2> QED
    BY <2>1, <2>2
<1>5. Holds(b, w)
  <2>1. \A i \in 1 .. n : i \in 1 .. 256 /\ i <= n
    BY <1>1
  <2> QED
    BY <1>2, <1>4, <2>1 DEF Holds
<1>6. SubSeq(b, 1, n) = w
  BY <1>1, <1>2, <1>5, FrameIn DEF MaxSize
<1>7. Crc(w) # {}
  <2>1. Crc(w) # Crc(g)
    BY <1>1, <1>2, OneOctetWrong
  <2> QED
    BY <1>1, <2>1
<1>8. PICK r \in Nat : r = Least(n, MaxSize) /\ r = n /\ 4 <= r
  BY <1>1, ReceivedIs
<1>9. ParsePacket(b, r, m) = "bad_checksum"
  <2>1. ~(r < MinSize) /\ ~(r < n)
    BY <1>8 DEF MinSize
  <2>2. Crc(SubSeq(b, 1, n)) # {}
    BY <1>6, <1>7, Zenon
  <2> QED
    BY <1>1, <2>1, <2>2, PacketParsed
<1>10. ASSUME NEW i \in Lengths
       PROVE  b[i] = Buffer(g, fill)[i]
  <2>1. i \in 1 .. 256 /\ i # k
    BY <1>2 DEF Lengths
  <2>2. i <= n => i \in 1 .. n
    BY <2>1
  <2> QED
    BY <1>2, <1>4, <2>1, <2>2
<1> QED
  BY <1>2, <1>3, <1>8, <1>9, <1>10

\* So is one that is cut off, whatever the buffer holds where the rest should be.
LEMMA CutParsed ==
    ASSUME NEW g, NEW m, Good(g, m), NEW w \in Seq(Octet), NEW fill \in Octet, Cut(g, w)
    PROVE  /\ \A i \in 1 .. Len(w) : Buffer(w, fill)[i] = Buffer(g, fill)[i]
           /\ \A s \in Nat : Len(w) < 4 \/ s = m \/ Len(w) < s + 4 =>
                 ParsePacket(Buffer(w, fill), Least(Len(w), MaxSize), s) = "bad_size"
<1>1. PICK n \in Nat : n = Len(g) /\ n = m + 4 /\ n <= 256 /\ g \in Seq(Octet) /\ m \in Nat
  BY LenProperties DEF Good, MaxSize
<1>2. PICK l \in Nat : l = Len(w) /\ l < n /\ \A i \in 1 .. l : w[i] = g[i]
  BY <1>1, LenProperties DEF Cut
<1>3. ASSUME NEW i \in 1 .. l
      PROVE  Buffer(w, fill)[i] = Buffer(g, fill)[i]
  <2>1. i \in 1 .. 256 /\ i <= l /\ i <= n
    BY <1>1, <1>2
  <2>2. Buffer(w, fill)[i] = w[i] /\ Buffer(g, fill)[i] = g[i]
    BY <1>1, <1>2, <2>1, BufferIs
  <2> QED
    BY <1>2, <2>2
<1>4. Least(l, MaxSize) = l
  BY <1>1, <1>2, ReceivedIs
<1>5. ASSUME NEW s \in Nat, l < 4 \/ s = m \/ l < s + 4
      PROVE  ParsePacket(Buffer(w, fill), l, s) = "bad_size"
  <2>1. l < 4 \/ l < 2 + s + 2
    BY <1>1, <1>2, <1>5
  <2> QED
    BY <2>1 DEF ParsePacket, MinSize
<1> QED
  BY <1>2, <1>3, <1>4, <1>5

\* What does not begin with an address is not taken for a frame.
LEMMA ShiftedAt ==
    ASSUME NEW w \in Seq(Octet), NEW fill \in Octet, Shifted(w)
    PROVE  Buffer(w, fill)[1] \notin Addresses \cup {Own}
<1>1. PICK n \in Nat : n = Len(w) /\ 1 <= n
  BY LenProperties, EmptySeq DEF Shifted
<1>2. 1 \in 1 .. 256
  OBVIOUS
<1>3. Buffer(w, fill)[1] = w[1]
  BY <1>1, <1>2, BufferIs
<1> QED
  BY <1>3 DEF Shifted

\* A request is taken if it arrives whole, and refused if it is cut off or wrong.
LEMMA RequestParsed ==
    ASSUME NEW g, NEW m, Good(g, m), \A b \in Buf : Holds(b, g) => RequestSize(b) = m,
           NEW w \in Seq(Octet), NEW fill \in Octet
    PROVE  /\ Whole(g, w) =>
                 /\ Holds(Buffer(w, fill), g)
                 /\ ParseRequest(Buffer(w, fill), Least(Len(w), MaxSize)) = "success"
           /\ Cut(g, w) \/ Wrong(g, w) =>
                 ParseRequest(Buffer(w, fill), Least(Len(w), MaxSize)) # "success"
<1>1. PICK b \in Buf : b = Buffer(w, fill)
  BY BufferIs
<1>2. g \in Seq(Octet) /\ m \in Nat
  BY DEF Good
<1>3. PICK x \in Buf : x = Buffer(g, fill)
  BY <1>2, BufferIs
<1>4. RequestSize(x) = m
  <2>1. Whole(g, g)
    BY <1>2, LenProperties DEF Whole
  <2>2. Holds(x, g)
    BY <1>2, <1>3, <2>1, WholeParsed
  <2> QED
    BY <2>2
<1>5. PICK r : r = Least(Len(w), MaxSize)
  OBVIOUS
<1>6. ParseRequest(b, r) = ParsePacket(b, r, RequestSize(b))
  BY DEF ParseRequest, RequestSize
<1>7. ASSUME Whole(g, w)
      PROVE  Holds(b, g) /\ ParseRequest(b, r) = "success"
  <2>1. Holds(b, g) /\ ParsePacket(b, r, m) = "success"
    BY <1>1, <1>5, <1>7, WholeParsed
  <2> QED
    BY <1>6, <2>1
<1>8. ASSUME Cut(g, w)
      PROVE  ParseRequest(b, r) = "bad_size"
  <2>1. PICK l \in Nat : l = Len(w)
    BY LenProperties
  <2>2. /\ \A i \in 1 .. l : b[i] = x[i]
        /\ \A s \in Nat : l < 4 \/ s = m \/ l < s + 4 => ParsePacket(b, r, s) = "bad_size"
    BY <1>1, <1>3, <1>5, <1>8, <2>1, CutParsed
  <2>3. CASE l < 4
    <3>1. RequestSize(b) \in Nat
      BY RequestSizes
    <3> QED
      BY <1>6, <2>2, <2>3, <3>1
  <2>4. CASE ~(l < 4)
    <3>1. b[2] = x[2]
      BY <2>2, <2>4
    <3>2. RequestSize(b) \in Nat /\ (RequestSize(b) = RequestSize(x) \/ l < RequestSize(b) + 4)
      BY <2>2, <3>1, RequestSizes
    <3> QED
      BY <1>4, <1>6, <2>2, <3>2
  <2> QED
    BY <2>3, <2>4
<1>9. ASSUME Wrong(g, w)
      PROVE  ParseRequest(b, r) = "bad_checksum"
  <2>1. ParsePacket(b, r, m) = "bad_checksum" /\ b[2] = x[2] /\ b[7] = x[7] /\ b[11] = x[11]
    BY <1>1, <1>3, <1>5, <1>9, WrongParsed DEF Lengths
  <2>2. RequestSize(b) = RequestSize(x)
    BY <2>1, RequestSizes
  <2> QED
    BY <1>4, <1>6, <2>1, <2>2
<1> QED
  BY <1>1, <1>5, <1>7, <1>8, <1>9

\* So is a response; one that is not taken is reported as such.
LEMMA ResponseParsed ==
    ASSUME NEW g, NEW m, Good(g, m), \A b \in Buf : Holds(b, g) => ResponseSize(b) = m,
           NEW w \in Seq(Octet), NEW fill \in Octet
    PROVE  /\ Whole(g, w) =>
                 /\ Holds(Buffer(w, fill), g)
                 /\ ParseResponse(Buffer(w, fill), Least(Len(w), MaxSize)) = "success"
           /\ Cut(g, w) \/ Wrong(g, w) =>
                 ParseResponse(Buffer(w, fill), Least(Len(w), MaxSize)) \in {"bad_size", "bad_checksum"}
<1>1. PICK b \in Buf : b = Buffer(w, fill)
  BY BufferIs
<1>2. g \in Seq(Octet) /\ m \in Nat
  BY DEF Good
<1>3. PICK x \in Buf : x = Buffer(g, fill)
  BY <1>2, BufferIs
<1>4. ResponseSize(x) = m
  <2>1. Whole(g, g)
    BY <1>2, LenProperties DEF Whole
  <2>2. Holds(x, g)
    BY <1>2, <1>3, <2>1, WholeParsed
  <2> QED
    BY <2>2
<1>5. PICK r : r = Least(Len(w), MaxSize)
  OBVIOUS
<1>6. ParseResponse(b, r) = ParsePacket(b, r, ResponseSize(b))
  BY DEF ParseResponse, ResponseSize
<1>7. ASSUME Whole(g, w)
      PROVE  Holds(b, g) /\ ParseResponse(b, r) = "success"
  <2>1. Holds(b, g) /\ ParsePacket(b, r, m) = "success"
    BY <1>1, <1>5, <1>7, WholeParsed
  <2> QED
    BY <1>6, <2>1
<1>8. ASSUME Cut(g, w)
      PROVE  ParseResponse(b, r) = "bad_size"
  <2>1. PICK l \in Nat : l = Len(w)
    BY LenProperties
  <2>2. /\ \A i \in 1 .. l : b[i] = x[i]
        /\ \A s \in Nat : l < 4 \/ s = m \/ l < s + 4 => ParsePacket(b, r, s) = "bad_size"
    BY <1>1, <1>3, <1>5, <1>8, <2>1, CutParsed
  <2>3. CASE l < 4
    <3>1. ResponseSize(b) \in Nat
      BY ResponseSizes
    <3> QED
      BY <1>6, <2>2, <2>3, <3>1
  <2>4. CASE ~(l < 4)
    <3>1. b[2] = x[2]
      BY <2>2, <2>4
    <3>2. ResponseSize(b) \in Nat /\ (ResponseSize(b) = ResponseSize(x) \/ l < ResponseSize(b) + 4)
      BY <2>2, <3>1, ResponseSizes
    <3> QED
      BY <1>4, <1>6, <2>2, <3>2
  <2> QED
    BY <2>3, <2>4
<1>9. ASSUME Wrong(g, w)
      PROVE  ParseResponse(b, r) = "bad_checksum"
  <2>1. ParsePacket(b, r, m) = "bad_checksum" /\ b[2] = x[2] /\ b[3] = x[3]
    BY <1>1, <1>3, <1>5, <1>9, WrongParsed DEF Lengths
  <2>2. ResponseSize(b) = ResponseSize(x)
    BY <2>1, ResponseSizes
  <2> QED
    BY <1>4, <1>6, <2>1, <2>2
<1> QED
  BY <1>1, <1>5, <1>7, <1>8, <1>9

-----------------------------------------------------------------------------
(* Requests and answers *)

\* What the theorems assume of the constants: that reads do not ask for more than
\* a response has room for, and that the slave has no event log.
ReadLimits ==
    /\ "GetComEventLog" \notin Served
    /\ \A f \in Asked \cap {"ReadCoils", "ReadDiscreteInputs"} : \A n \in ReadCounts[f] : n <= 2000
    /\ "ReadHoldingRegisters" \in Asked => \A n \in ReadCounts["ReadHoldingRegisters"] : n <= 125

\* What some of them assume of the line: one fault in an exchange; what noise puts
\* before a frame is no address; and the octet that is received wrong is not one
\* that says how long the frame is.
OneFault ==
    /\ MaxFaults <= 1
    /\ Stray \cap (Addresses \cup {Own}) = {}
    /\ Damageable \cap Lengths = {}

\* A request as Execute makes them.
WellAsked(content) ==
    /\ content = [function |-> content.function, message |-> content.message]
    /\ content.function \in Function
    /\ \E c : Proper(RequestOf(content.function), c, content.message)
    /\ Len(Encoded(RequestOf(content.function), content.message)) + 4 <= MaxSize
    /\ content.function \in Reads => /\ content.message.words[2] \in Word
                                     /\ Room(content.function, content.message.words[2])

\* An answer as the slave's application makes them, to a request of function f.
WellAnswered(f, said) ==
    /\ f \in Function
    /\ \/ said = Refused
       \/ /\ said = [function |-> f, message |-> said.message]
          /\ f # "GetComEventLog"
          /\ \E c : Proper(ResponseOf(f), c, said.message)
          /\ Len(Encoded(ResponseOf(f), said.message)) + 4 <= MaxSize

\* The frame of a request, and that of the slave's answer to a request of function f.
RequestFrame(address, content) ==
    FrameOf(address, CodeOf[content.function],
            Encoded(RequestOf(content.function), content.message))

AnswerFrame(f, said) ==
    IF said = Refused THEN FrameOf(Own, 128 + (CodeOf[f] % 128), << 1 >>)
    ELSE FrameOf(Own, CodeOf[f], Encoded(ResponseOf(f), said.message))

\* What the slave takes a frame for, and the master.
Asking(b, address, content) ==
    /\ b[1] = address /\ FunctionOf(b[2]) = content.function /\ b[2] = CodeOf[content.function]
    /\ Fields(RequestOf(content.function), RequestData(b)) = content.message

Answering(b, f, said) ==
    /\ b[1] = Own /\ FunctionOf(b[2]) = f
    /\ said = Refused => ExceptionFlag(b[2]) /\ ResponseData(b)[1] = 1
    /\ said # Refused => ~ExceptionFlag(b[2]) /\ Fields(ResponseOf(f), ResponseData(b)) = said.message

\* The slave's address is an octet.
LEMMA OwnIs == Own \in Octet
  BY AddressAssumption, OctetIs

\* An answer is a refusal or not.
LEMMA RefusedIs == \A f \in Function : \A msg : [function |-> f, message |-> msg] # Refused
  BY DEF Refused, Function

\* A frame with a request in it can be parsed.
LEMMA RequestWhole ==
    ASSUME NEW address \in Octet, NEW content, WellAsked(content)
    PROVE  \E m : /\ Good(RequestFrame(address, content), m)
                  /\ \A b \in Buf : Holds(b, RequestFrame(address, content)) =>
                        RequestSize(b) = m /\ Asking(b, address, content)
<1>1. PICK f \in Function : f = content.function
  BY DEF WellAsked
<1>2. PICK msg : msg = content.message
  OBVIOUS
<1>3. PICK c : Proper(RequestOf(f), c, msg)
  BY <1>1, <1>2 DEF WellAsked
<1>4. PICK d \in Seq(Octet) : d = Encoded(RequestOf(f), msg) /\ Len(d) + 4 <= MaxSize
  <2>1. Encoded(RequestOf(f), msg) \in Seq(Octet)
    BY <1>3, PlainData, EncodedLen DEF RequestOf
  <2> QED
    BY <1>1, <1>2, <2>1 DEF WellAsked
<1>5. PICK g : g = FrameOf(address, CodeOf[f], d) /\ g = RequestFrame(address, content)
  BY <1>1, <1>2, <1>4 DEF RequestFrame
<1>6. Good(g, Len(d))
  <2>1. IsFrame(g, address, CodeOf[f], d)
    BY <1>5, Codes, FrameIs
  <2> QED
    BY <1>4, <2>1, LenProperties DEF IsFrame, Good
<1>7. ASSUME NEW b \in Buf, Holds(b, g)
      PROVE  RequestSize(b) = Len(d) /\ Asking(b, address, content)
  <2>1. /\ Len(Encoded(RequestOf(f), msg)) + 4 <= MaxSize
        /\ Holds(b, FrameOf(address, CodeOf[f], Encoded(RequestOf(f), msg)))
    BY <1>4, <1>5, <1>7
  <2>2. RequestIn(b, address, f, msg)
    BY <1>3, <2>1, RequestRead
  <2> QED
    BY <1>1, <1>2, <1>4, <2>2, FunctionOfCode DEF RequestIn, Asking
<1> QED
  BY <1>5, <1>6, <1>7

\* So can one with an answer.
LEMMA AnswerWhole ==
    ASSUME NEW f \in Function, NEW said, WellAnswered(f, said)
    PROVE  \E m : /\ Good(AnswerFrame(f, said), m)
                  /\ \A b \in Buf : Holds(b, AnswerFrame(f, said)) =>
                        ResponseSize(b) = m /\ Answering(b, f, said)
<1>1. CASE said = Refused
  <2>1. PICK d \in Seq(Octet) : d = << 1 >> /\ Len(d) = 1
    <3>1. 1 \in Octet
      BY OctetIs
    <3>2. << 1 >> \in Seq(Octet) /\ Len(<< 1 >>) = 1
      BY <3>1
    <3> QED
      BY <3>2
  <2>2. PICK e \in Octet : e = 128 + (CodeOf[f] % 128)
    <3>1. PICK k \in Nat : k = CodeOf[f] /\ k <= 127
      BY Codes
    <3>2. 128 + (k % 128) \in Nat /\ 128 + (k % 128) <= 255
      BY <3>1
    <3> QED
      BY <3>1, <3>2, OctetIs
  <2>3. PICK g : g = FrameOf(Own, e, d) /\ g = AnswerFrame(f, said)
    BY <1>1, <2>1, <2>2 DEF AnswerFrame
  <2>4. Good(g, 1)
    <3>1. IsFrame(g, Own, e, d)
      BY <2>3, OwnIs, FrameIs
    <3>2. 1 + 4 <= MaxSize
      BY DEF MaxSize
    <3> QED
      BY <2>1, <3>1, <3>2 DEF IsFrame, Good
  <2>5. ASSUME NEW b \in Buf, Holds(b, g)
        PROVE  ResponseSize(b) = 1 /\ Answering(b, f, said)
    <3>1. Holds(b, FrameOf(Own, 128 + (CodeOf[f] % 128), << 1 >>))
      BY <2>1, <2>2, <2>3, <2>5
    <3>2. ExceptionIn(b, Own, f)
      BY <3>1, OwnIs, ExceptionRead
    <3> QED
      BY <1>1, <3>2, FunctionOfCode DEF ExceptionIn, Answering
  <2> QED
    BY <2>3, <2>4, <2>5
<1>2. CASE said # Refused
  <2>1. PICK msg : msg = said.message
    OBVIOUS
  <2>2. f # "GetComEventLog" /\ \E c : Proper(ResponseOf(f), c, msg)
    BY <1>2, <2>1 DEF WellAnswered
  <2>3. PICK c : Proper(ResponseOf(f), c, msg)
    BY <2>2
  <2>4. PICK d \in Seq(Octet) : d = Encoded(ResponseOf(f), msg) /\ Len(d) + 4 <= MaxSize
    <3>1. Encoded(ResponseOf(f), msg) \in Seq(Octet)
      BY <2>2, <2>3, PlainData, EncodedLen DEF ResponseOf
    <3> QED
      BY <1>2, <2>1, <3>1 DEF WellAnswered
  <2>5. PICK g : g = FrameOf(Own, CodeOf[f], d) /\ g = AnswerFrame(f, said)
    BY <1>2, <2>1, <2>4 DEF AnswerFrame
  <2>6. Good(g, Len(d))
    <3>1. IsFrame(g, Own, CodeOf[f], d)
      BY <2>5, OwnIs, Codes, FrameIs
    <3> QED
      BY <2>4, <3>1, LenProperties DEF IsFrame, Good
  <2>7. ASSUME NEW b \in Buf, Holds(b, g)
        PROVE  ResponseSize(b) = Len(d) /\ Answering(b, f, said)
    <3>1. /\ Len(Encoded(ResponseOf(f), msg)) + 4 <= MaxSize
          /\ Holds(b, FrameOf(Own, CodeOf[f], Encoded(ResponseOf(f), msg)))
      BY <2>4, <2>5, <2>7
    <3>2. ResponseIn(b, Own, f, msg)
      BY <2>2, <2>3, <3>1, OwnIs, ResponseRead
    <3> QED
      BY <1>2, <2>1, <2>4, <3>2, FunctionOfCode DEF ResponseIn, Answering
  <2> QED
    BY <2>5, <2>6, <2>7
<1> QED
  BY <1>1, <1>2

\* A request has the slave's attention only if it arrives whole.
LEMMA SlaveTakes ==
    ASSUME NEW address \in Octet, NEW content, WellAsked(content),
           NEW w \in Seq(Octet), NEW fill \in Octet
    PROVE  LET g == RequestFrame(address, content)
               b == Buffer(w, fill)
               r == Least(Len(w), MaxSize)
           IN /\ Whole(g, w) => /\ Asking(b, address, content)
                                /\ Ignores(b, r) <=> address # Own
              /\ Cut(g, w) \/ Wrong(g, w) \/ Shifted(w) => Ignores(b, r)
<1>1. PICK g, m : /\ g = RequestFrame(address, content) /\ Good(g, m)
                  /\ \A b \in Buf : Holds(b, g) => RequestSize(b) = m /\ Asking(b, address, content)
  BY RequestWhole
<1>2. PICK b \in Buf : b = Buffer(w, fill)
  BY BufferIs
<1>3. PICK r : r = Least(Len(w), MaxSize)
  OBVIOUS
<1>4. /\ Whole(g, w) => Holds(b, g) /\ ParseRequest(b, r) = "success"
      /\ Cut(g, w) \/ Wrong(g, w) => ParseRequest(b, r) # "success"
  BY <1>1, <1>2, <1>3, RequestParsed
<1>5. Shifted(w) => b[1] # Own
  BY <1>2, ShiftedAt
<1>6. Whole(g, w) => Asking(b, address, content) /\ (Ignores(b, r) <=> address # Own)
  BY <1>1, <1>4 DEF Ignores, Asking
<1>7. Cut(g, w) \/ Wrong(g, w) \/ Shifted(w) => Ignores(b, r)
  BY <1>4, <1>5 DEF Ignores
<1> QED
  BY <1>1, <1>2, <1>3, <1>6, <1>7

\* What is sent for a request is its frame.
LEMMA RequestOut ==
    ASSUME NEW address \in Octet, NEW f \in Function, NEW c, NEW msg,
           Proper(RequestOf(f), c, msg), Len(Encoded(RequestOf(f), msg)) + 4 <= MaxSize
    PROVE  PrepareRequest(address, f, Image(RequestOf(f), c, msg)) =
              RequestFrame(address, [function |-> f, message |-> msg])
<1>1. Framed(PrepareRequest(address, f, Image(RequestOf(f), c, msg)),
             address, CodeOf[f], Encoded(RequestOf(f), msg))
  BY RequestFramed
<1> QED
  BY <1>1 DEF Framed, RequestFrame

\* And for an answer.
LEMMA ResponseOut ==
    ASSUME NEW f \in Function, f # "GetComEventLog", NEW c, NEW msg,
           Proper(ResponseOf(f), c, msg), Len(Encoded(ResponseOf(f), msg)) + 4 <= MaxSize
    PROVE  PrepareResponse(Own, f, Image(ResponseOf(f), c, msg)) =
              AnswerFrame(f, [function |-> f, message |-> msg])
<1>1. Framed(PrepareResponse(Own, f, Image(ResponseOf(f), c, msg)),
             Own, CodeOf[f], Encoded(ResponseOf(f), msg))
  BY OwnIs, ResponseFramed
<1>2. [function |-> f, message |-> msg] # Refused
  BY RefusedIs
<1> QED
  BY <1>1, <1>2 DEF Framed, AnswerFrame

-----------------------------------------------------------------------------
(* The invariant: what is on the bus *)

\* No fault of the line can have touched this exchange.
Undisturbed == faults = 0 /\ ~stale

\* What the exchange comes to is known.
Trusted == Undisturbed \/ OneFault

\* Of a frame g that was sent, w is on the bus after n faults.
Arrived(g, w, n) ==
    /\ w \in Seq(Octet) /\ Len(w) <= Len(g) + n
    /\ n = 0 => w = g
    /\ Whole(g, w) \/ Cut(g, w) \/ Wrong(g, w) \/ Shifted(w)

\* The invariant: the bus has the request, or the answer of the slave to what it
\* has understood, or what a fault has left of it; with nothing on it the request
\* was lost, or nobody's; and an answer that is late was sent as well.
Linked ==
    /\ faults \in Nat
    /\ phase = "request" =>
          /\ ~stale /\ request.address \in Octet /\ WellAsked(request.content)
          /\ Trusted => Arrived(RequestFrame(request.address, request.content), frame, faults)
    /\ phase = "response" /\ Trusted =>
          /\ ~stale => understood = request.content /\ request.address = Own
          /\ WellAnswered(understood.function, answer)
          /\ Arrived(AnswerFrame(understood.function, answer), frame, faults)
    /\ phase = "silent" /\ Trusted => faults > 0 \/ request.address # Own
    /\ OneFault /\ late # NoAnswer =>
          /\ WellAnswered(late.understood.function, late.answer)
          /\ late.frame = AnswerFrame(late.understood.function, late.answer)

\* What is sent arrives if nothing happens to it.
LEMMA SentArrives ==
    ASSUME NEW g \in Seq(Octet), NEW n \in Nat
    PROVE  Arrived(g, g, n)
<1>1. Len(g) \in Nat
  BY LenProperties
<1> QED
  BY <1>1 DEF Arrived, Whole

\* The frames are sequences of octets.
LEMMA FramesAre ==
    /\ \A address \in Octet : \A content : WellAsked(content) =>
          /\ RequestFrame(address, content) \in Seq(Octet) /\ RequestFrame(address, content) # <<>>
          /\ Len(RequestFrame(address, content)) <= MaxSize
    /\ \A f \in Function : \A said : WellAnswered(f, said) =>
          AnswerFrame(f, said) \in Seq(Octet) /\ Len(AnswerFrame(f, said)) <= MaxSize
<1>1. ASSUME NEW address \in Octet, NEW content, WellAsked(content)
      PROVE  /\ RequestFrame(address, content) \in Seq(Octet) /\ RequestFrame(address, content) # <<>>
             /\ Len(RequestFrame(address, content)) <= MaxSize
  <2>1. PICK m : Good(RequestFrame(address, content), m)
    BY <1>1, RequestWhole
  <2>2. PICK k \in Nat : k = m /\ Len(RequestFrame(address, content)) = k + 4
    BY <2>1 DEF Good
  <2>3. Len(RequestFrame(address, content)) # 0
    BY <2>2
  <2> QED
    BY <2>1, <2>3, EmptySeq DEF Good
<1>2. ASSUME NEW f \in Function, NEW said, WellAnswered(f, said)
      PROVE  AnswerFrame(f, said) \in Seq(Octet) /\ Len(AnswerFrame(f, said)) <= MaxSize
  BY <1>2, AnswerWhole DEF Good
<1> QED
  BY <1>1, <1>2

\* A bit of an octet that is received wrong makes it another octet.
LEMMA BitFlipped ==
    ASSUME NEW o \in Octet, NEW b \in 0 .. 7
    PROVE  /\ b \in BitsOf(o) => o - BitValue[b + 1] \in Octet /\ o - BitValue[b + 1] # o
           /\ b \notin BitsOf(o) => o + BitValue[b + 1] \in Octet /\ o + BitValue[b + 1] # o
<1>1. PICK x \in Nat : x = o /\ x <= 255
  BY OctetIs
<1>2. PICK v \in {1, 2, 4, 8, 16, 32, 64, 128} :
         v = BitValue[b + 1] /\ (b \in BitsOf(o) <=> (x \div v) % 2 = 1)
  <2>1. b \in {0, 1, 2, 3, 4, 5, 6, 7}
    OBVIOUS
  <2> QED
    BY <1>1, <2>1, ValuesAre, BitsAre
<1>3. /\ (x \div v) % 2 = 1 => x - v \in Nat /\ x - v <= 255 /\ x - v # x
      /\ (x \div v) % 2 # 1 => x + v \in Nat /\ x + v <= 255 /\ x + v # x
  BY <1>1
<1>4. /\ x - v \in Octet <=> x - v \in Nat /\ x - v <= 255
      /\ x + v \in Octet <=> x + v \in Nat /\ x + v <= 255
  BY OctetIs
<1> QED
  BY <1>1, <1>2, <1>3, <1>4

\* What one fault leaves of a frame.
LEMMA FaultLeaves ==
    ASSUME OneFault, frame \in Seq(Octet), Damage \/ Truncate \/ Noise
    PROVE  Arrived(frame, frame', 1)
<1>1. PICK n \in Nat : n = Len(frame)
  BY LenProperties
<1>2. CASE Damage
  <2>1. PICK i \in Damageable \cap DOMAIN frame, b \in 0 .. 7 :
           frame' = [frame EXCEPT ![i] = IF b \in BitsOf(@) THEN @ - BitValue[b + 1]
                                                           ELSE @ + BitValue[b + 1]]
    BY <1>2 DEF Damage
  <2>2. i \in (1 .. n) \ Lengths
    BY <1>1, <2>1, LenProperties DEF OneFault
  <2>3. PICK o \in Octet : o = frame[i]
    BY <1>1, <2>2, ElementOfSeq
  <2>4. PICK p \in Octet : p # o /\ frame' = [frame EXCEPT ![i] = p]
    <3>1. /\ b \in BitsOf(o) => o - BitValue[b + 1] \in Octet /\ o - BitValue[b + 1] # o
          /\ b \notin BitsOf(o) => o + BitValue[b + 1] \in Octet /\ o + BitValue[b + 1] # o
      BY BitFlipped
    <3>2. frame' = [frame EXCEPT ![i] = IF b \in BitsOf(o) THEN o - BitValue[b + 1]
                                                           ELSE o + BitValue[b + 1]]
      BY <2>1, <2>3
    <3>3. CASE b \in BitsOf(o)
      BY <3>1, <3>2, <3>3
    <3>4. CASE b \notin BitsOf(o)
      BY <3>1, <3>2, <3>4
    <3> QED
      BY <3>3, <3>4
  <2>5. /\ frame' \in Seq(Octet) /\ Len(frame') = n
        /\ \A j \in 1 .. n : frame'[j] = IF j = i THEN p ELSE frame[j]
    BY <1>1, <2>2, <2>4, ExceptSeq
  <2>6. Wrong(frame, frame')
    BY <1>1, <2>2, <2>3, <2>4, <2>5 DEF Wrong
  <2> QED
    BY <1>1, <2>5, <2>6 DEF Arrived
<1>3. CASE Truncate
  <2>1. PICK k \in Cuts : k < Len(frame) /\ frame' = SubSeq(frame, 1, k)
    BY <1>3 DEF Truncate
  <2>2. k \in Nat /\ k < n
    BY <1>1, <2>1, LineAssumption DEF MaxSize
  <2>3. frame' = [j \in 1 .. k |-> frame[j]]
    BY <1>1, <2>1, <2>2
  <2>4. \A j \in 1 .. k : frame[j] \in Octet
    BY <1>1, <2>2, ElementOfSeq
  <2>5. frame' \in Seq(Octet) /\ Len(frame') = k
    <3>1. frame' \in [1 .. k -> Octet]
      BY <2>3, <2>4
    <3> QED
      BY <2>2, <3>1
  <2>6. Cut(frame, frame')
    BY <1>1, <2>2, <2>3, <2>5 DEF Cut
  <2> QED
    BY <1>1, <2>2, <2>5, <2>6 DEF Arrived
<1>4. CASE Noise
  <2>1. PICK x \in Stray : frame' = Append(frame, x) \/ frame' = <<x>> \o frame
    BY <1>4 DEF Noise
  <2>2. x \in Octet /\ x \notin Addresses \cup {Own}
    BY LineAssumption DEF OneFault
  <2>3. CASE frame' = Append(frame, x)
    <3>1. /\ frame' \in Seq(Octet) /\ Len(frame') = n + 1
          /\ \A j \in 1 .. n : frame'[j] = frame[j]
      BY <1>1, <2>2, <2>3, AppendProperties
    <3>2. Whole(frame, frame')
      BY <1>1, <3>1 DEF Whole
    <3> QED
      BY <1>1, <3>1, <3>2 DEF Arrived
  <2>4. CASE frame' = <<x>> \o frame
    <3>1. <<x>> \in Seq(Octet) /\ Len(<<x>>) = 1 /\ <<x>>[1] = x
      BY <2>2
    <3>2. frame' \in Seq(Octet) /\ Len(frame') = 1 + n
      BY <1>1, <2>4, <3>1, ConcatProperties
    <3>3. frame'[1] = x
      <4>1. 1 \in 1 .. 1 + n
        BY <1>1
      <4>2. \A j \in 1 .. 1 + n : frame'[j] = IF j <= 1 THEN <<x>>[j] ELSE frame[j - 1]
        BY <1>1, <2>4, <3>1, ConcatProperties
      <4> QED
        BY <3>1, <4>1, <4>2
    <3>4. Shifted(frame')
      <4>1. Len(frame') # 0
        BY <1>1, <3>2
      <4> QED
        BY <2>2, <3>2, <3>3, <4>1, EmptySeq DEF Shifted
    <3> QED
      BY <1>1, <3>2, <3>4 DEF Arrived
  <2> QED
    BY <2>1, <2>3, <2>4
<1> QED
  BY <1>2, <1>3, <1>4

-----------------------------------------------------------------------------
(* Sending and answering *)

\* A read asks for no more than the answer has room for.
LEMMA RequestRoom ==
    ASSUME NEW f \in Reads, NEW seed \in Word, NEW n \in Word,
           f # "ReadWriteMultipleRegisters" => Room(f, n)
    PROVE  /\ RequestMessage(f, seed, n).words[2] \in Word
           /\ Room(f, RequestMessage(f, seed, n).words[2])
<1>1. CASE f = "ReadWriteMultipleRegisters"
  <2>1. Data(f).request.words = 4 /\ Data(f).request.counted
    BY <1>1 DEF Data, ReadWriteRegisters, Counted
  <2>2. RequestMessage(f, seed, n).words[2] = SetRequestCount(f, n).quantity
    BY <2>1 DEF RequestMessage
  <2>3. f \in Function
    BY <1>1 DEF Function
  <2>4. SetRequestCount(f, n).quantity \in Word /\ SetRequestCount(f, n).quantity <= 125
    BY <1>1, <2>3, RequestSet DEF Set
  <2> QED
    BY <1>1, <2>2, <2>4 DEF Room
<1>2. CASE f # "ReadWriteMultipleRegisters"
  <2>1. Data(f).request = Fixed(2)
    BY <1>2 DEF Reads, Data, ReadBits, ReadRegisters
  <2>2. Data(f).request.words = 2 /\ ~Data(f).request.counted
    BY <2>1 DEF Fixed
  <2>3. RequestMessage(f, seed, n).words[2] = n
    BY <2>2 DEF RequestMessage
  <2> QED
    BY <1>2, <2>3
<1> QED
  BY <1>1, <1>2

\* Execute sends the frame of the request it fills in.
LEMMA ExecuteSends ==
    ASSUME ReadLimits, NEW a \in Addresses, NEW f \in Asked, NEW seed \in Seeds,
           NEW n \in CountsFor(f), Execute(a, f, seed, n)
    PROVE  /\ phase' = "request" /\ faults' = 0 /\ stale' = FALSE /\ outcome' = Pending
           /\ request'.address = a /\ a \in Octet /\ WellAsked(request'.content)
           /\ request' = [address |-> a, content |-> request'.content]
           /\ frame' = RequestFrame(a, request'.content)
           /\ understood' = Nothing /\ answer' = Nothing /\ late' = late
<1>1. f \in Function /\ seed \in Word /\ n \in Word /\ a \in Octet
  <2>1. a \in Octet
    BY AddressAssumption, OctetIs
  <2> QED
    BY <2>1, FunctionAssumption, MessageAssumption DEF CountsFor
<1>2. PICK msg : msg = RequestMessage(f, seed, n)
  OBVIOUS
<1>3. PICK c : c = SetRequestCount(f, n).byteCount
  OBVIOUS
<1>4. PICK out : out = PrepareRequest(a, f, Image(RequestOf(f), c, msg))
  OBVIOUS
<1>5. Proper(RequestOf(f), c, msg) /\ Len(Encoded(RequestOf(f), msg)) + 4 <= MaxSize
  BY <1>1, <1>2, <1>3, RequestMade, RequestFits
<1>6. PICK content : content = [function |-> f, message |-> msg]
  OBVIOUS
<1>7. content.function = f /\ content.message = msg
  BY <1>6
<1>8. f \in Reads => msg.words[2] \in Word /\ Room(f, msg.words[2])
  <2>1. f \in Reads /\ f # "ReadWriteMultipleRegisters" => Room(f, n)
    <3>1. f \in Reads /\ f # "ReadWriteMultipleRegisters" => n \in ReadCounts[f]
      BY DEF CountsFor, Reads, Data, ReadBits, ReadRegisters, Fixed
    <3> QED
      BY <3>1 DEF ReadLimits, Room, Reads
  <2> QED
    BY <1>1, <1>2, <2>1, RequestRoom
<1>9. WellAsked(content)
  BY <1>1, <1>5, <1>6, <1>7, <1>8 DEF WellAsked
<1>10. out = RequestFrame(a, content) /\ out # <<>>
  <2>1. out = RequestFrame(a, content)
    BY <1>1, <1>4, <1>5, <1>6, RequestOut
  <2> QED
    BY <1>1, <1>9, <2>1, FramesAre
<1>11. /\ request' = [address |-> a, content |-> content]
       /\ faults' = 0 /\ frame' = out /\ stale' = FALSE
       /\ understood' = Nothing /\ answer' = Nothing /\ late' = late
       /\ IF out = <<>>
          THEN phase' = "idle" /\ outcome' = [Pending EXCEPT !.error = "bad_size"]
          ELSE phase' = "request" /\ outcome' = Pending
  BY <1>2, <1>3, <1>4, <1>6, Zenon DEF Execute, RequestOf
<1>12. request'.address = a /\ request'.content = content
  BY <1>11
<1> QED
  BY <1>1, <1>9, <1>10, <1>11, <1>12

\* A slave that answers has read the request, and answers it.
LEMMA SlaveReads ==
    ASSUME ReadLimits, Linked, Trusted, NEW fill \in Fill, NEW seed \in Seeds, NEW n \in {0, 3},
           SlaveAnswers(fill, seed, n)
    PROVE  /\ understood' = request.content /\ request.address = Own
           /\ WellAnswered(understood'.function, answer')
           /\ frame' = AnswerFrame(understood'.function, answer')
<1>1. phase = "request"
  BY DEF SlaveAnswers
<1>2. PICK content : content = request.content
  OBVIOUS
<1>3. PICK a \in Octet : a = request.address
  BY <1>1 DEF Linked
<1>4. WellAsked(content) /\ Arrived(RequestFrame(a, content), frame, faults)
  BY <1>1, <1>2, <1>3 DEF Linked
<1>5. PICK f : f = content.function /\ f \in Function
  BY <1>4 DEF WellAsked
<1>6. PICK msg : msg = content.message /\ content = [function |-> f, message |-> msg]
  BY <1>4, <1>5 DEF WellAsked
<1>7. fill \in Octet
  BY LineAssumption
<1>8. PICK buffer : buffer = Buffer(frame, fill)
  OBVIOUS
<1>9. PICK items : items = IF f \in Reads THEN msg.words[2] ELSE n
  OBVIOUS
<1>10. PICK said : said = Answers(f, msg, seed, items)
  OBVIOUS
<1>11. LET asked == Fields(Data(FunctionOf(buffer[2])).request, RequestData(buffer))
           g     == FunctionOf(buffer[2])
           m     == IF g \in Reads THEN asked.words[2] ELSE n
           s     == Answers(g, asked, seed, m)
       IN /\ ~Ignores(buffer, Received)
          /\ understood' = [function |-> g, message |-> asked]
          /\ answer' = s
          /\ frame' = IF s = Refused THEN PrepareException(Own, buffer[2], 1)
                      ELSE PrepareResponse(Own, g, Image(Data(g).response,
                              SetResponseCount(g, m).byteCount, s.message))
  BY <1>8, Zenon DEF SlaveAnswers
<1>12. ~Ignores(buffer, Received)
  BY <1>11
<1>13. a = Own /\ Asking(buffer, a, content)
  <2>1. PICK w \in Seq(Octet) : w = frame
    BY <1>4 DEF Arrived
  <2>2. Received = Least(Len(w), MaxSize)
    BY <2>1 DEF Received
  <2>3. PICK g : g = RequestFrame(a, content)
    OBVIOUS
  <2>4. /\ Whole(g, w) => /\ Asking(buffer, a, content)
                          /\ Ignores(buffer, Received) <=> a # Own
        /\ Cut(g, w) \/ Wrong(g, w) \/ Shifted(w) => Ignores(buffer, Received)
    BY <1>4, <1>7, <1>8, <2>1, <2>2, <2>3, SlaveTakes
  <2>5. Whole(g, w) \/ Cut(g, w) \/ Wrong(g, w) \/ Shifted(w)
    BY <1>4, <2>1, <2>3 DEF Arrived
  <2> QED
    BY <1>12, <2>4, <2>5
<1>14. /\ FunctionOf(buffer[2]) = f /\ buffer[2] = CodeOf[f]
       /\ Fields(Data(FunctionOf(buffer[2])).request, RequestData(buffer)) = msg
  BY <1>5, <1>6, <1>13 DEF Asking, RequestOf
<1>15. /\ understood' = [function |-> f, message |-> msg]
       /\ answer' = said
       /\ frame' = IF said = Refused THEN PrepareException(Own, CodeOf[f], 1)
                   ELSE PrepareResponse(Own, f, Image(ResponseOf(f),
                           SetResponseCount(f, items).byteCount, said.message))
  BY <1>9, <1>10, <1>11, <1>14, Zenon DEF ResponseOf
<1>16. understood' = request.content /\ request.address = Own /\ understood'.function = f
  BY <1>2, <1>3, <1>5, <1>6, <1>13, <1>15
<1>17. CASE f \notin Served
  <2>1. said = Refused
    BY <1>10, <1>17 DEF Answers
  <2>2. frame' = FrameOf(Own, 128 + (CodeOf[f] % 128), << 1 >>)
    BY <1>5, <1>15, <2>1, OwnIs, ExceptionFramed
  <2> QED
    BY <1>5, <1>15, <1>16, <2>1, <2>2 DEF WellAnswered, AnswerFrame
<1>18. CASE f \in Served
  <2>1. PICK m : m = ResponseMessage(f, msg, seed, items)
    OBVIOUS
  <2>2. said = [function |-> f, message |-> m] /\ said.message = m
    BY <1>10, <1>18, <2>1 DEF Answers
  <2>3. said # Refused
    BY <1>5, <2>2, RefusedIs
  <2>4. PICK k : k = SetResponseCount(f, items).byteCount
    OBVIOUS
  <2>5. f # "GetComEventLog"
    BY <1>18 DEF ReadLimits
  <2>6. items \in Word /\ Room(f, items)
    <3>1. CASE f \in Reads
      BY <1>4, <1>5, <1>6, <1>9, <3>1 DEF WellAsked
    <3>2. CASE f \notin Reads
      <4>1. items = n /\ n \in Nat /\ n <= 248
        BY <1>9, <3>2
      <4> QED
        BY <3>2, <4>1, WordIs DEF Room, Reads
    <3> QED
      BY <3>1, <3>2
  <2>7. msg \in Message
    BY <1>4, <1>5, <1>6 DEF WellAsked, Proper
  <2>8. Proper(ResponseOf(f), k, m)
    BY <1>5, <2>1, <2>4, <2>5, <2>6, <2>7, MessageAssumption, ResponseMade
  <2>9. Len(Encoded(ResponseOf(f), m)) + 4 <= MaxSize
    BY <1>5, <2>4, <2>5, <2>6, <2>8, RoomFits
  <2>10. frame' = PrepareResponse(Own, f, Image(ResponseOf(f), k, m))
    BY <1>15, <2>2, <2>3, <2>4
  <2>11. frame' = AnswerFrame(f, said)
    BY <1>5, <2>2, <2>5, <2>8, <2>9, <2>10, ResponseOut
  <2>12. WellAnswered(f, said)
    BY <1>5, <2>2, <2>5, <2>8, <2>9 DEF WellAnswered
  <2> QED
    BY <1>15, <1>16, <2>11, <2>12
<1> QED
  BY <1>17, <1>18

-----------------------------------------------------------------------------
(* Every step keeps it *)

\* Before the first request nothing is on the bus.
LEMMA LinkedInit == Init => Linked
<1> SUFFICES ASSUME Init
             PROVE  Linked
  OBVIOUS
<1>1. faults = 0 /\ phase = "idle" /\ late = NoAnswer
  BY DEF Init
<1>2. 0 \in Nat
  OBVIOUS
<1> QED
  BY <1>1, <1>2 DEF Linked

\* A fault is the only one, and what it strikes has been sent as it is.
LEMMA Struck ==
    ASSUME Linked, Fault, OneFault
    PROVE  /\ faults = 0 /\ faults' = 1
           /\ phase = "request" => frame = RequestFrame(request.address, request.content)
           /\ phase = "response" => frame = AnswerFrame(understood.function, answer)
           /\ frame \in Seq(Octet)
<1>1. faults \in Nat /\ faults < MaxFaults /\ faults' = faults + 1 /\ phase \in {"request", "response"}
  BY DEF Linked, Fault, OnLine
<1>2. faults = 0
  BY <1>1, LineAssumption DEF OneFault
<1>3. phase = "request" => Arrived(RequestFrame(request.address, request.content), frame, faults)
  BY DEF Linked, Trusted
<1>4. phase = "response" => Arrived(AnswerFrame(understood.function, answer), frame, faults)
  BY DEF Linked, Trusted
<1> QED
  BY <1>1, <1>2, <1>3, <1>4 DEF Arrived

\* Faults preserve it.
LEMMA FaultKeeps ==
    ASSUME Linked, Lose \/ Damage \/ Truncate \/ Noise \/ Delay
    PROVE  Linked'
<1>1. /\ Fault /\ faults' = faults + 1 /\ faults \in Nat
      /\ request' = request /\ stale' = stale /\ phase \in {"request", "response"}
  BY DEF Linked, Lose, Damage, Truncate, Noise, Delay, Garble, Fault, OnLine
<1>2. faults' \in Nat /\ faults' > 0 /\ (Trusted' => OneFault)
  BY <1>1 DEF Trusted, Undisturbed
<1>3. CASE Lose
  <2>1. phase' = "silent" /\ late' = late
    BY <1>3 DEF Lose
  <2> QED
    BY <1>2, <2>1 DEF Linked
<1>4. CASE Damage \/ Truncate \/ Noise
  <2>1. UNCHANGED <<phase, understood, answer, late>>
    BY <1>4 DEF Damage, Truncate, Noise, Garble
  <2>2. ASSUME OneFault
        PROVE  /\ phase = "request" =>
                     Arrived(RequestFrame(request.address, request.content), frame', faults')
               /\ phase = "response" =>
                     Arrived(AnswerFrame(understood.function, answer), frame', faults')
    <3>1. faults' = 1 /\ frame \in Seq(Octet)
      BY <1>1, <2>2, Struck
    <3>2. Arrived(frame, frame', 1)
      BY <1>4, <2>2, <3>1, FaultLeaves
    <3> QED
      BY <1>1, <2>2, <3>1, <3>2, Struck
  <2>3. phase' = "request" =>
          /\ ~stale' /\ request'.address \in Octet /\ WellAsked(request'.content)
          /\ Trusted' => Arrived(RequestFrame(request'.address, request'.content), frame', faults')
    BY <1>1, <1>2, <2>1, <2>2 DEF Linked
  <2>4. phase' = "response" /\ Trusted' =>
          /\ ~stale' => understood' = request'.content /\ request'.address = Own
          /\ WellAnswered(understood'.function, answer')
          /\ Arrived(AnswerFrame(understood'.function, answer'), frame', faults')
    BY <1>1, <1>2, <2>1, <2>2 DEF Linked, Trusted
  <2>5. phase' # "silent"
    BY <1>1, <2>1
  <2>6. OneFault /\ late' # NoAnswer =>
          /\ WellAnswered(late'.understood.function, late'.answer)
          /\ late'.frame = AnswerFrame(late'.understood.function, late'.answer)
    BY <2>1 DEF Linked
  <2> QED
    BY <1>2, <2>3, <2>4, <2>5, <2>6 DEF Linked
<1>5. CASE Delay
  <2>1. /\ phase = "response" /\ phase' = "silent"
        /\ late' = [frame |-> frame, understood |-> understood, answer |-> answer]
    BY <1>5 DEF Delay
  <2>2. late'.frame = frame /\ late'.understood = understood /\ late'.answer = answer
    BY <2>1
  <2>3. ASSUME OneFault
        PROVE  /\ WellAnswered(understood.function, answer)
               /\ frame = AnswerFrame(understood.function, answer)
    BY <1>1, <2>1, <2>3, Struck DEF Linked, Trusted
  <2> QED
    BY <1>2, <2>1, <2>2, <2>3 DEF Linked
<1> QED
  BY <1>3, <1>4, <1>5

\* Every step preserves it, faults and late answers included.
LEMMA LinkedNext ==
    ASSUME ReadLimits, Linked, [Next]_vars
    PROVE  Linked'
<1>1. ASSUME NEW a \in Addresses, NEW f \in Asked, NEW seed \in Seeds,
             NEW n \in CountsFor(f), Execute(a, f, seed, n)
      PROVE  Linked'
  <2>1. /\ phase' = "request" /\ faults' = 0 /\ stale' = FALSE
        /\ request'.address = a /\ a \in Octet /\ WellAsked(request'.content)
        /\ frame' = RequestFrame(a, request'.content) /\ late' = late
    BY <1>1, ExecuteSends
  <2>2. Arrived(RequestFrame(a, request'.content), frame', 0)
    <3>1. RequestFrame(a, request'.content) \in Seq(Octet)
      BY <2>1, FramesAre
    <3> QED
      BY <2>1, <3>1, SentArrives
  <2> QED
    BY <2>1, <2>2 DEF Linked
<1>2. ASSUME NEW fill \in Fill, NEW seed \in Seeds, NEW n \in {0, 3}, SlaveAnswers(fill, seed, n)
      PROVE  Linked'
  <2>1. /\ phase = "request" /\ phase' = "response" /\ request' = request
        /\ faults' = faults /\ stale' = stale /\ late' = late
    BY <1>2, Zenon DEF SlaveAnswers
  <2>2. faults' \in Nat /\ (Trusted' => Trusted)
    BY <2>1 DEF Linked, Trusted, Undisturbed
  <2>3. ASSUME Trusted
        PROVE  /\ understood' = request.content /\ request.address = Own
               /\ WellAnswered(understood'.function, answer')
               /\ Arrived(AnswerFrame(understood'.function, answer'), frame', faults')
    <3>1. /\ understood' = request.content /\ request.address = Own
          /\ WellAnswered(understood'.function, answer')
          /\ frame' = AnswerFrame(understood'.function, answer')
      BY <1>2, <2>3, SlaveReads
    <3>2. understood'.function \in Function
      BY <3>1 DEF WellAnswered
    <3>3. frame' \in Seq(Octet)
      BY <3>1, <3>2, FramesAre
    <3> QED
      BY <2>2, <3>1, <3>3, SentArrives
  <2> QED
    BY <2>1, <2>2, <2>3 DEF Linked
<1>3. ASSUME NEW fill \in Fill, SlaveIgnores(fill)
      PROVE  Linked'
  <2>1. /\ phase = "request" /\ phase' = "silent" /\ faults' = faults /\ stale' = stale
        /\ request' = request /\ late' = late
        /\ Ignores(Buffer(frame, fill), Received)
    BY <1>3 DEF SlaveIgnores
  <2>2. ASSUME Trusted, ~(faults > 0)
        PROVE  request.address # Own
    <3>1. PICK a \in Octet : a = request.address
      BY <2>1 DEF Linked
    <3>2. PICK content : content = request.content /\ WellAsked(content)
      BY <2>1 DEF Linked
    <3>3. PICK g \in Seq(Octet) : g = RequestFrame(a, content) /\ frame = g
      <4>1. Arrived(RequestFrame(a, content), frame, faults) /\ faults = 0
        BY <2>1, <2>2, <3>1, <3>2 DEF Linked
      <4> QED
        BY <4>1 DEF Arrived
    <3>4. Whole(g, g)
      BY <3>3, LenProperties DEF Whole
    <3>5. fill \in Octet
      BY LineAssumption
    <3>6. Ignores(Buffer(g, fill), Least(Len(g), MaxSize))
      BY <2>1, <3>3 DEF Received
    <3> QED
      BY <3>1, <3>2, <3>3, <3>4, <3>5, <3>6, SlaveTakes
  <2>3. Trusted' => Trusted
    BY <2>1 DEF Trusted, Undisturbed
  <2> QED
    BY <2>1, <2>2, <2>3 DEF Linked
<1>4. ASSUME phase' = "idle", faults' = faults, late' = late
      PROVE  Linked'
  BY <1>4 DEF Linked
<1>5. ASSUME NEW fill \in Fill, MasterReads(fill)
      PROVE  Linked'
  BY <1>4, <1>5 DEF MasterReads
<1>6. CASE Timeout
  BY <1>4, <1>6 DEF Timeout
<1>7. CASE Lose \/ Damage \/ Truncate \/ Noise \/ Delay
  BY <1>7, FaultKeeps
<1>8. CASE ComesLate
  <2>1. /\ late # NoAnswer /\ phase' = "response" /\ frame' = late.frame
        /\ understood' = late.understood /\ answer' = late.answer /\ late' = NoAnswer
        /\ stale' = TRUE /\ faults' = faults
    BY <1>8 DEF ComesLate
  <2>2. faults' \in Nat /\ (Trusted' => OneFault)
    BY <2>1 DEF Linked, Trusted, Undisturbed
  <2>3. ASSUME OneFault
        PROVE  /\ WellAnswered(understood'.function, answer')
               /\ Arrived(AnswerFrame(understood'.function, answer'), frame', faults')
    <3>1. /\ WellAnswered(understood'.function, answer')
          /\ frame' = AnswerFrame(understood'.function, answer')
      BY <2>1, <2>3 DEF Linked
    <3>2. understood'.function \in Function
      BY <3>1 DEF WellAnswered
    <3>3. frame' \in Seq(Octet)
      BY <3>1, <3>2, FramesAre
    <3> QED
      BY <2>2, <3>1, <3>3, SentArrives
  <2> QED
    BY <2>1, <2>2, <2>3 DEF Linked
<1>9. CASE UNCHANGED vars
  BY <1>9 DEF vars, Linked, Trusted, Undisturbed
<1> QED
  BY <1>1, <1>2, <1>3, <1>5, <1>6, <1>7, <1>8, <1>9 DEF Next

\* What is sent is the encoding the property asks for.
LEMMA LinkedConforms == Linked => Conforms
<1> SUFFICES ASSUME Linked, Undisturbed
             PROVE  Conforms
  BY DEF Undisturbed, Conforms
<1>1. ASSUME phase = "request"
      PROVE  frame = FrameOf(request.address, CodeOf[request.content.function],
                          Encoded(Data(request.content.function).request,
                                  request.content.message))
  BY <1>1 DEF Linked, Trusted, Undisturbed, Arrived, RequestFrame, RequestOf
<1>2. ASSUME phase = "response", answer # Refused
      PROVE  frame = FrameOf(Own, CodeOf[answer.function],
                          Encoded(Data(answer.function).response, answer.message))
  <2>1. /\ WellAnswered(understood.function, answer)
        /\ frame = AnswerFrame(understood.function, answer)
    BY <1>2 DEF Linked, Trusted, Undisturbed, Arrived
  <2>2. answer.function = understood.function
    BY <1>2, <2>1 DEF WellAnswered
  <2> QED
    BY <1>2, <2>1, <2>2 DEF AnswerFrame, ResponseOf
<1> QED
  BY <1>1, <1>2 DEF Conforms

\* PDU.h 33-45, 51: until a fault touches it, what goes out on the line is, for
\* every function and every message, the Modbus encoding of the fields that the
\* application set.
THEOREM FramesConform ==
    ASSUME ReadLimits
    PROVE  Spec => []Conforms
<1>1. Init => Linked
  BY LinkedInit
<1>2. Linked /\ [Next]_vars => Linked'
  BY LinkedNext
<1>3. Linked => Conforms
  BY LinkedConforms
<1> QED
  BY <1>1, <1>2, <1>3, PTL DEF Spec

-----------------------------------------------------------------------------
(* The slave has understood *)

\* Every step preserves that it has.
LEMMA UnderstoodNext ==
    ASSUME ReadLimits, Linked, Trusted => Understood, [Next]_vars
    PROVE  Trusted' => Understood'
<1>1. ASSUME NEW a \in Addresses, NEW f \in Asked, NEW seed \in Seeds,
             NEW n \in CountsFor(f), Execute(a, f, seed, n)
      PROVE  Understood'
  <2>1. understood' = Nothing
    BY <1>1, ExecuteSends
  <2> QED
    BY <2>1 DEF Understood
<1>2. ASSUME NEW fill \in Fill, NEW seed \in Seeds, NEW n \in {0, 3}, SlaveAnswers(fill, seed, n)
      PROVE  Trusted' => Understood'
  <2>1. request' = request /\ faults' = faults /\ stale' = stale
    BY <1>2, Zenon DEF SlaveAnswers
  <2>2. Trusted' => Trusted
    BY <2>1 DEF Trusted, Undisturbed
  <2>3. Trusted => understood' = request.content /\ request.address = Own
    BY <1>2, SlaveReads
  <2> QED
    BY <2>1, <2>2, <2>3 DEF Understood
<1>3. ASSUME request' = request, stale' = stale, understood' \in {understood, Nothing},
             Trusted' => Trusted
      PROVE  Trusted' => Understood'
  BY <1>3 DEF Understood
<1>4. ASSUME UNCHANGED <<faults, request, understood, stale>>
      PROVE  Trusted' => Understood'
  <2>1. Trusted' => Trusted
    BY <1>4 DEF Trusted, Undisturbed
  <2> QED
    BY <1>3, <1>4, <2>1
<1>5. ASSUME NEW fill \in Fill, MasterReads(fill) \/ SlaveIgnores(fill)
      PROVE  Trusted' => Understood'
  BY <1>4, <1>5 DEF MasterReads, SlaveIgnores
<1>6. CASE Timeout
  BY <1>4, <1>6 DEF Timeout
<1>7. CASE Lose \/ Damage \/ Truncate \/ Noise \/ Delay
  <2>1. /\ faults' = faults + 1 /\ request' = request /\ stale' = stale
        /\ understood' \in {understood, Nothing}
    BY <1>7 DEF Lose, Damage, Truncate, Noise, Delay, Garble, Fault
  <2>2. Trusted' => Trusted
    BY <2>1 DEF Linked, Trusted, Undisturbed
  <2> QED
    BY <1>3, <2>1, <2>2
<1>8. CASE ComesLate
  BY <1>8 DEF ComesLate, Understood
<1>9. CASE UNCHANGED vars
  BY <1>4, <1>9 DEF vars
<1> QED
  BY <1>1, <1>2, <1>5, <1>6, <1>7, <1>8, <1>9 DEF Next

\* Before the first request it has understood nothing.
LEMMA UnderstoodInit == Init => (Trusted => Understood)
  BY DEF Init, Understood

\* ADU.cpp 94-131: without faults a slave that takes a frame for a request has
\* read, field for field, what it was asked, whatever its buffer held before.
THEOREM RequestsUnderstood ==
    ASSUME ReadLimits
    PROVE  Spec => [](Undisturbed => Understood)
<1>1. Init => Linked /\ (Trusted => Understood)
  BY LinkedInit, UnderstoodInit
<1>2. (Linked /\ (Trusted => Understood)) /\ [Next]_vars => (Linked /\ (Trusted => Understood))'
  BY LinkedNext, UnderstoodNext
<1>3. Linked /\ (Trusted => Understood) => (Undisturbed => Understood)
  BY DEF Trusted
<1> QED
  BY <1>1, <1>2, <1>3, PTL DEF Spec

\* ADU.cpp 94-131: one octet received wrong, a frame cut off, noise before or behind
\* it: if the slave takes what it receives for a request, it is what it was asked.
THEOREM FaultsNoticed ==
    ASSUME ReadLimits, OneFault
    PROVE  Spec => []Understood
<1>1. Init => Linked /\ (Trusted => Understood)
  BY LinkedInit, UnderstoodInit
<1>2. (Linked /\ (Trusted => Understood)) /\ [Next]_vars => (Linked /\ (Trusted => Understood))'
  BY LinkedNext, UnderstoodNext
<1>3. Linked /\ (Trusted => Understood) => Understood
  BY DEF Trusted
<1> QED
  BY <1>1, <1>2, <1>3, PTL DEF Spec

-----------------------------------------------------------------------------
(* The master is told *)

\* A frame is whole, or has too few octets or a wrong checksum.
LEMMA ParseErrors ==
    ASSUME NEW b, NEW received
    PROVE  ParseResponse(b, received) \in {"success", "bad_size", "bad_checksum"}
  BY Zenon DEF ParseResponse, ParsePacket

\* An answer is taken for what it is only if it arrives whole.
LEMMA MasterTakes ==
    ASSUME NEW f \in Function, NEW said, WellAnswered(f, said),
           NEW w \in Seq(Octet), NEW fill \in Octet
    PROVE  LET g == AnswerFrame(f, said)
               b == Buffer(w, fill)
               r == Least(Len(w), MaxSize)
           IN /\ Whole(g, w) => ParseResponse(b, r) = "success" /\ Answering(b, f, said)
              /\ Cut(g, w) \/ Wrong(g, w) => ParseResponse(b, r) \in {"bad_size", "bad_checksum"}
              /\ Shifted(w) => b[1] \notin Addresses \cup {Own}
<1>1. PICK g, m : /\ g = AnswerFrame(f, said) /\ Good(g, m)
                  /\ \A b \in Buf : Holds(b, g) => ResponseSize(b) = m /\ Answering(b, f, said)
  BY AnswerWhole
<1>2. PICK b \in Buf : b = Buffer(w, fill)
  BY BufferIs
<1>3. PICK r : r = Least(Len(w), MaxSize)
  OBVIOUS
<1>4. /\ Whole(g, w) => Holds(b, g) /\ ParseResponse(b, r) = "success"
      /\ Cut(g, w) \/ Wrong(g, w) => ParseResponse(b, r) \in {"bad_size", "bad_checksum"}
  BY <1>1, <1>2, <1>3, ResponseParsed
<1>5. Shifted(w) => b[1] \notin Addresses \cup {Own}
  BY <1>2, ShiftedAt
<1> QED
  BY <1>1, <1>2, <1>3, <1>4, <1>5

\* The invariant: a request has completed as Answered says, or with bad_param
\* after a fault: noise before a frame can look like the checked answer of another.
Reported ==
    /\ request.address \in Addresses
    /\ Trusted => Answered \/ (outcome.error = "bad_param" /\ faults > 0)

\* A request that has been sent completes as it should.
LEMMA MasterReports ==
    ASSUME Linked, Reported, Trusted, NEW fill \in Fill, MasterReads(fill)
    PROVE  Answered' \/ (outcome'.error = "bad_param" /\ faults' > 0)
<1>1. /\ phase = "response" /\ phase' = "idle"
      /\ UNCHANGED <<faults, request, understood, answer, stale>>
      /\ outcome' = ReadResponse(Buffer(frame, fill), Received)
  BY DEF MasterReads
<1>2. PICK f \in Function : f = understood.function /\ WellAnswered(f, answer)
  BY <1>1 DEF Linked, WellAnswered
<1>3. PICK g : g = AnswerFrame(f, answer) /\ Arrived(g, frame, faults)
  BY <1>1, <1>2 DEF Linked
<1>4. PICK w \in Seq(Octet) : w = frame
  BY <1>3 DEF Arrived
<1>5. fill \in Octet
  BY LineAssumption
<1>6. PICK b, r : b = Buffer(frame, fill) /\ r = Received
  OBVIOUS
<1>7. /\ Whole(g, frame) => ParseResponse(b, r) = "success" /\ Answering(b, f, answer)
      /\ Cut(g, frame) \/ Wrong(g, frame) => ParseResponse(b, r) \in {"bad_size", "bad_checksum"}
      /\ Shifted(frame) => b[1] \notin Addresses
  BY <1>2, <1>3, <1>4, <1>5, <1>6, MasterTakes DEF Received
<1>8. outcome' = ReadResponse(b, r)
  BY <1>1, <1>6
<1>9. ~stale => understood = request.content /\ request.address = Own
  BY <1>1 DEF Linked
<1>10. CASE Whole(g, frame)
  <2>1. ParseResponse(b, r) = "success" /\ Answering(b, f, answer)
    BY <1>7, <1>10
  <2>2. b[1] = Own /\ FunctionOf(b[2]) = f
    BY <2>1 DEF Answering
  <2>3. CASE request.address # Own
    <3>1. outcome'.error = "bad_param"
      BY <1>8, <2>1, <2>2, <2>3 DEF ReadResponse, Pending
    <3>2. stale
      BY <1>9, <2>3
    <3> QED
      BY <1>1, <2>3, <3>1, <3>2 DEF Answered
  <2>4. CASE request.address = Own /\ f # request.content.function
    <3>1. outcome'.error = "bad_command"
      BY <1>8, <2>1, <2>2, <2>4 DEF ReadResponse, Pending
    <3>2. stale
      BY <1>2, <1>9, <2>4
    <3> QED
      BY <1>1, <3>1, <3>2 DEF Answered
  <2>5. CASE request.address = Own /\ f = request.content.function /\ answer = Refused
    <3>1. outcome' = Told(b)
      BY <1>8, <2>1, <2>2, <2>5 DEF ReadResponse
    <3>2. ExceptionFlag(b[2]) /\ ResponseData(b)[1] = 1
      BY <2>1, <2>5 DEF Answering
    <3>3. outcome'.error = "bad_command"
      BY <3>1, <3>2 DEF Told, Exception, ErrorFor, Pending
    <3> QED
      BY <1>1, <2>5, <3>3 DEF Answered
  <2>6. CASE request.address = Own /\ f = request.content.function /\ answer # Refused
    <3>1. outcome' = Told(b)
      BY <1>8, <2>1, <2>2, <2>6 DEF ReadResponse
    <3>2. ~ExceptionFlag(b[2]) /\ Fields(ResponseOf(f), ResponseData(b)) = answer.message
      BY <2>1, <2>6 DEF Answering
    <3>3. outcome'.error = "success" /\ outcome'.message = answer.message
      BY <2>6, <3>1, <3>2 DEF Told, Exception, ResponseOf
    <3>4. answer.function = f
      BY <1>2, <2>6 DEF WellAnswered
    <3> QED
      BY <1>1, <1>9, <2>6, <3>3, <3>4 DEF Answered
  <2> QED
    BY <2>3, <2>4, <2>5, <2>6
<1>11. CASE ~Whole(g, frame)
  <2>1. faults \in Nat /\ faults # 0
    <3>1. frame = g => Whole(g, frame)
      BY <1>3, <1>4, LenProperties DEF Whole
    <3> QED
      BY <1>3, <1>11, <3>1 DEF Arrived, Linked
  <2>2. faults' > 0
    BY <1>1, <2>1
  <2>3. Cut(g, frame) \/ Wrong(g, frame) \/ Shifted(frame)
    BY <1>3, <1>11 DEF Arrived
  <2>4. CASE ParseResponse(b, r) # "success"
    <3>1. outcome'.error \in {"bad_size", "bad_checksum"}
      BY <1>8, <2>4, ParseErrors DEF ReadResponse, Pending
    <3> QED
      BY <1>1, <2>2, <3>1 DEF Answered
  <2>5. CASE ParseResponse(b, r) = "success"
    <3>1. b[1] # request.address
      BY <1>7, <2>3, <2>5 DEF Reported
    <3>2. outcome'.error = "bad_param"
      BY <1>8, <2>5, <3>1 DEF ReadResponse, Pending
    <3> QED
      BY <2>2, <3>2
  <2> QED
    BY <2>4, <2>5
<1> QED
  BY <1>10, <1>11

\* Before the first request nothing is reported.
LEMMA ReportedInit == Init => Reported
  BY DEF Init, Reported, Answered, Pending

\* Every step preserves it.
LEMMA ReportedNext ==
    ASSUME ReadLimits, Linked, Reported, [Next]_vars
    PROVE  Reported'
<1>1. ASSUME NEW a \in Addresses, NEW f \in Asked, NEW seed \in Seeds,
             NEW n \in CountsFor(f), Execute(a, f, seed, n)
      PROVE  Reported'
  <2>1. phase' = "request" /\ request'.address = a
    BY <1>1, ExecuteSends
  <2> QED
    BY <2>1 DEF Reported, Answered
<1>2. ASSUME request' = request, phase' # "idle"
      PROVE  Reported'
  BY <1>2 DEF Reported, Answered
<1>3. ASSUME NEW fill \in Fill, NEW seed \in Seeds, NEW n \in {0, 3}, SlaveAnswers(fill, seed, n)
      PROVE  Reported'
  <2>1. request' = request /\ phase' = "response"
    BY <1>3, Zenon DEF SlaveAnswers
  <2> QED
    BY <1>2, <2>1
<1>4. ASSUME NEW fill \in Fill, SlaveIgnores(fill)
      PROVE  Reported'
  BY <1>2, <1>4 DEF SlaveIgnores
<1>5. ASSUME NEW fill \in Fill, MasterReads(fill)
      PROVE  Reported'
  <2>1. UNCHANGED <<faults, request, stale>>
    BY <1>5 DEF MasterReads
  <2>2. Trusted' => Trusted
    BY <2>1 DEF Trusted, Undisturbed
  <2>3. Trusted => Answered' \/ (outcome'.error = "bad_param" /\ faults' > 0)
    BY <1>5, MasterReports
  <2> QED
    BY <2>1, <2>2, <2>3 DEF Reported
<1>6. CASE Timeout
  <2>1. /\ phase = "silent" /\ phase' = "idle" /\ outcome'.error = "timeout"
        /\ UNCHANGED <<faults, request, stale>>
    BY <1>6 DEF Timeout, Pending
  <2>2. Trusted' => Trusted
    BY <2>1 DEF Trusted, Undisturbed
  <2>3. Trusted => faults > 0 \/ request.address # Own
    BY <2>1 DEF Linked
  <2>4. Trusted => Answered'
    BY <2>1, <2>3 DEF Answered
  <2> QED
    BY <2>1, <2>2, <2>4 DEF Reported
<1>7. CASE Lose \/ Damage \/ Truncate \/ Noise \/ Delay
  <2>1. request' = request /\ phase' # "idle"
    BY <1>7 DEF Lose, Damage, Truncate, Noise, Delay, Garble, Fault, OnLine
  <2> QED
    BY <1>2, <2>1
<1>8. CASE ComesLate
  BY <1>2, <1>8 DEF ComesLate
<1>9. CASE UNCHANGED vars
  BY <1>9 DEF vars, Reported, Answered, Trusted, Undisturbed
<1> QED
  BY <1>1, <1>3, <1>4, <1>5, <1>6, <1>7, <1>8, <1>9 DEF Next

\* Device.cpp 111-154: without faults, a request that succeeds has been told what
\* the slave, asked by it, answered, and any error has its cause.
THEOREM AnswersReported ==
    ASSUME ReadLimits
    PROVE  Spec => [](Undisturbed => Answered)
<1>1. Init => Linked /\ Reported
  BY LinkedInit, ReportedInit
<1>2. (Linked /\ Reported) /\ [Next]_vars => (Linked /\ Reported)'
  BY LinkedNext, ReportedNext
<1>3. Linked /\ Reported => (Undisturbed => Answered)
  BY DEF Trusted, Undisturbed, Reported
<1> QED
  BY <1>1, <1>2, <1>3, PTL DEF Spec

\* Device.cpp 111-154: with a fault, or a late answer, a request that succeeds has
\* been told what the same slave answered to the same function.
THEOREM FaultsReported ==
    ASSUME ReadLimits, OneFault
    PROVE  Spec => [](Answered \/ (outcome.error = "bad_param" /\ faults > 0))
<1>1. Init => Linked /\ Reported
  BY LinkedInit, ReportedInit
<1>2. (Linked /\ Reported) /\ [Next]_vars => (Linked /\ Reported)'
  BY LinkedNext, ReportedNext
<1>3. Linked /\ Reported => Answered \/ (outcome.error = "bad_param" /\ faults > 0)
  BY DEF Trusted, Reported
<1> QED
  BY <1>1, <1>2, <1>3, PTL DEF Spec

-----------------------------------------------------------------------------
(* Types *)

\* The invariant, of everything but the frame, which is what Linked says it is.
Typed ==
    /\ phase \in {"idle", "request", "response", "silent"}
    /\ phase \in {"idle", "silent"} => frame = <<>>
    /\ faults <= MaxFaults
    /\ request \in [address : Addresses, content : Content]
    /\ understood \in Content
    /\ answer \in Content
    /\ outcome \in [error : {"pending", "success", "timeout", "bad_size", "bad_checksum",
                             "bad_param", "bad_command", "bad_node"},
                    message : Message]
    /\ late \in [frame : Seq(Octet), understood : Content, answer : Content]
    /\ stale \in BOOLEAN

\* Requests, answers and their absence are of the type that content has.
LEMMA ContentIs ==
    /\ NoMessage \in Message /\ Nothing \in Content
    /\ \A content : WellAsked(content) => content \in Content
    /\ \A f, said : WellAnswered(f, said) => said \in Content
<1>1. NoMessage \in Message
  <2>1. <<>> \in Seq(Word)
    OBVIOUS
  <2> QED
    BY <2>1 DEF NoMessage, Message
<1>2. Nothing \in Content /\ Refused \in Content
  BY <1>1 DEF Nothing, Refused, Content, Function
<1>3. ASSUME NEW content, WellAsked(content)
      PROVE  content \in Content
  BY <1>3 DEF WellAsked, Proper, Content
<1>4. ASSUME NEW f, NEW said, WellAnswered(f, said)
      PROVE  said \in Content
  <2>1. CASE said = Refused
    BY <1>2, <2>1
  <2>2. CASE said # Refused
    BY <1>4, <2>2 DEF WellAnswered, Proper, Content
  <2> QED
    BY <2>1, <2>2
<1> QED
  BY <1>1, <1>2, <1>3, <1>4

\* What a response comes to is a success with a message, or an error without one.
LEMMA OutcomeIs ==
    ASSUME NEW b, NEW received
    PROVE  LET o == ReadResponse(b, received)
           IN \/ o = [error |-> "success", message |-> o.message] /\ o.error = "success"
              \/ o \in [error : {"bad_size", "bad_checksum", "bad_param", "bad_command", "bad_node"},
                        message : {NoMessage}]
<1> DEFINE Errors == {"bad_size", "bad_checksum", "bad_param", "bad_command", "bad_node"}
<1>1. ASSUME NEW e \in Errors
      PROVE  [Pending EXCEPT !.error = e] \in [error : Errors, message : {NoMessage}]
  BY DEF Pending
<1>2. PICK err : err = ParseResponse(b, received) /\ err \in {"success", "bad_size", "bad_checksum"}
  BY ParseErrors
<1>3. CASE err # "success"
  BY <1>1, <1>2, <1>3 DEF ReadResponse
<1>4. CASE err = "success" /\ b[1] # request.address
  BY <1>1, <1>2, <1>4 DEF ReadResponse
<1>5. CASE err = "success" /\ b[1] = request.address
  <2>1. \/ ReadResponse(b, received) = [Pending EXCEPT !.error = "bad_command"]
        \/ ReadResponse(b, received) = Told(b)
    BY <1>2, <1>5 DEF ReadResponse
  <2>2. ErrorFor(Exception(b)) \in Errors
    BY DEF ErrorFor
  <2>3. \/ Told(b) = [error |-> "success", message |-> Told(b).message] /\ Told(b).error = "success"
        \/ Told(b) \in [error : Errors, message : {NoMessage}]
    <3>1. CASE Exception(b) # 0
      BY <1>1, <2>2, <3>1 DEF Told
    <3>2. CASE Exception(b) = 0
      BY <3>2 DEF Told
    <3> QED
      BY <3>1, <3>2
  <2> QED
    BY <1>1, <2>1, <2>3
<1> QED
  BY <1>2, <1>3, <1>4, <1>5

\* Before the first request.
LEMMA TypedInit == Init => Typed
<1> SUFFICES ASSUME Init
             PROVE  Typed
  OBVIOUS
<1>1. 0 <= MaxFaults
  BY LineAssumption
<1>2. request \in [address : Addresses, content : Content]
  BY ContentIs DEF Init
<1>3. Pending \in [error : {"pending"}, message : Message]
  BY ContentIs DEF Pending
<1>4. NoAnswer \in [frame : Seq(Octet), understood : Content, answer : Content]
  <2>1. <<>> \in Seq(Octet)
    OBVIOUS
  <2> QED
    BY <2>1, ContentIs DEF NoAnswer
<1> QED
  BY <1>1, <1>2, <1>3, <1>4, ContentIs DEF Init, Typed

\* Every step preserves it.
LEMMA TypedNext ==
    ASSUME ReadLimits, OneFault, Linked, Reported, Typed, [Next]_vars
    PROVE  Typed'
<1>1. ASSUME NEW a \in Addresses, NEW f \in Asked, NEW seed \in Seeds,
             NEW n \in CountsFor(f), Execute(a, f, seed, n)
      PROVE  Typed'
  <2>1. /\ phase' = "request" /\ faults' = 0 /\ stale' = FALSE /\ outcome' = Pending
        /\ WellAsked(request'.content) /\ request' = [address |-> a, content |-> request'.content]
        /\ understood' = Nothing /\ answer' = Nothing /\ late' = late
    BY <1>1, ExecuteSends
  <2>2. request' \in [address : Addresses, content : Content]
    BY <2>1, ContentIs
  <2>3. faults' <= MaxFaults
    BY <2>1, LineAssumption
  <2>4. outcome' \in [error : {"pending"}, message : Message]
    BY <2>1, ContentIs DEF Pending
  <2> QED
    BY <2>1, <2>2, <2>3, <2>4, ContentIs DEF Typed
<1>2. ASSUME NEW fill \in Fill, NEW seed \in Seeds, NEW n \in {0, 3}, SlaveAnswers(fill, seed, n)
      PROVE  Typed'
  <2>1. /\ phase' = "response" /\ request' = request /\ faults' = faults
        /\ outcome' = outcome /\ stale' = stale /\ late' = late
    BY <1>2, Zenon DEF SlaveAnswers
  <2>2. Trusted
    BY DEF Trusted
  <2>3. understood' = request.content /\ WellAnswered(understood'.function, answer')
    BY <1>2, <2>2, SlaveReads
  <2>4. understood' \in Content /\ answer' \in Content
    BY <2>3, ContentIs DEF Typed
  <2> QED
    BY <2>1, <2>4 DEF Typed
<1>3. ASSUME NEW fill \in Fill, SlaveIgnores(fill)
      PROVE  Typed'
  BY <1>3 DEF SlaveIgnores, Typed
<1>4. ASSUME NEW fill \in Fill, MasterReads(fill)
      PROVE  Typed'
  <2>1. /\ phase' = "idle" /\ frame' = <<>>
        /\ UNCHANGED <<faults, request, understood, answer, late, stale>>
        /\ outcome' = ReadResponse(Buffer(frame, fill), Received)
    BY <1>4 DEF MasterReads
  <2>2. \/ outcome' = [error |-> "success", message |-> outcome'.message] /\ outcome'.error = "success"
        \/ outcome' \in [error : {"bad_size", "bad_checksum", "bad_param", "bad_command", "bad_node"},
                         message : {NoMessage}]
    BY <2>1, OutcomeIs
  <2>3. outcome'.error = "success" => outcome'.message = answer.message
    <3>1. Answered' \/ outcome'.error = "bad_param"
      BY <1>4, MasterReports DEF Trusted
    <3> QED
      BY <2>1, <3>1 DEF Answered
  <2>4. answer.message \in Message
    BY DEF Typed, Content
  <2>5. outcome' \in [error : {"success", "bad_size", "bad_checksum", "bad_param",
                               "bad_command", "bad_node"},
                      message : Message]
    BY <2>2, <2>3, <2>4, ContentIs
  <2> QED
    BY <2>1, <2>5 DEF Typed
<1>5. CASE Timeout
  <2>1. outcome' \in [error : {"timeout"}, message : Message]
    BY <1>5, ContentIs DEF Timeout, Pending
  <2> QED
    BY <1>5, <2>1 DEF Timeout, Typed
<1>6. CASE Lose
  <2>1. faults' <= MaxFaults
    BY <1>6, LineAssumption DEF Lose, Fault, Linked
  <2> QED
    BY <1>6, <2>1 DEF Lose, Fault, Typed
<1>7. CASE Damage \/ Truncate \/ Noise
  <2>1. Garble
    BY <1>7 DEF Damage, Truncate, Noise
  <2>2. faults' <= MaxFaults /\ phase \in {"request", "response"}
    BY <2>1, LineAssumption DEF Garble, Fault, OnLine, Linked
  <2> QED
    BY <2>1, <2>2 DEF Garble, Fault, Typed
<1>8. CASE Delay
  <2>1. faults' <= MaxFaults
    BY <1>8, LineAssumption DEF Delay, Fault, Linked
  <2>2. frame \in Seq(Octet)
    BY <1>8 DEF Delay, Linked, Trusted, Arrived
  <2>3. late' \in [frame : Seq(Octet), understood : Content, answer : Content]
    BY <1>8, <2>2 DEF Delay, Typed
  <2> QED
    BY <1>8, <2>1, <2>3, ContentIs DEF Delay, Fault, Typed
<1>9. CASE ComesLate
  <2>1. /\ phase' = "response" /\ understood' = late.understood /\ answer' = late.answer
        /\ late' = NoAnswer /\ stale' = TRUE /\ UNCHANGED <<faults, request, outcome>>
    BY <1>9 DEF ComesLate
  <2>2. NoAnswer \in [frame : Seq(Octet), understood : Content, answer : Content]
    <3>1. <<>> \in Seq(Octet)
      OBVIOUS
    <3> QED
      BY <3>1, ContentIs DEF NoAnswer
  <2>3. late.understood \in Content /\ late.answer \in Content
    BY DEF Typed
  <2> QED
    BY <2>1, <2>2, <2>3 DEF Typed
<1>10. CASE UNCHANGED vars
  BY <1>10 DEF vars, Typed
<1> QED
  BY <1>1, <1>2, <1>3, <1>4, <1>5, <1>6, <1>7, <1>8, <1>9, <1>10 DEF Next

\* What is on the bus is no longer than a frame, and the noise of each fault.
LEMMA TypesOK == OneFault /\ Linked /\ Typed => TypeOK
<1> SUFFICES ASSUME OneFault, Linked, Typed
             PROVE  TypeOK
  OBVIOUS
<1>1. faults \in 0 .. MaxFaults
  BY LineAssumption DEF Linked, Typed
<1>2. frame \in Seq(Octet) /\ Len(frame) <= MaxSize + MaxFaults
  <2>1. ASSUME NEW g \in Seq(Octet), Len(g) <= MaxSize, Arrived(g, frame, faults)
        PROVE  frame \in Seq(Octet) /\ Len(frame) <= MaxSize + MaxFaults
    <3>1. frame \in Seq(Octet) /\ Len(frame) <= Len(g) + faults
      BY <2>1 DEF Arrived
    <3>2. PICK l, k \in Nat : l = Len(frame) /\ k = Len(g)
      BY <3>1, LenProperties
    <3>3. l <= k + faults /\ k <= 256 /\ faults \in Nat /\ faults <= MaxFaults /\ MaxFaults \in Nat
      BY <1>1, <2>1, <3>1, <3>2, LineAssumption DEF MaxSize
    <3>4. l <= 256 + MaxFaults
      BY <3>2, <3>3
    <3> QED
      BY <3>1, <3>2, <3>4 DEF MaxSize
  <2>2. CASE phase = "request"
    BY <2>1, <2>2, FramesAre DEF Linked, Trusted
  <2>3. CASE phase = "response"
    <3>1. understood.function \in Function
      BY <2>3 DEF Linked, Trusted, WellAnswered
    <3> QED
      BY <2>1, <2>3, <3>1, FramesAre DEF Linked, Trusted
  <2>4. CASE frame = <<>>
    <3>1. <<>> \in Seq(Octet) /\ Len(<<>>) = 0
      OBVIOUS
    <3>2. 0 <= 256 + MaxFaults
      BY LineAssumption
    <3> QED
      BY <2>4, <3>1, <3>2 DEF MaxSize
  <2> QED
    BY <2>2, <2>3, <2>4 DEF Typed
<1> QED
  BY <1>1, <1>2 DEF Typed, TypeOK

\* Device.cpp 111-154, ADU.cpp 94-131: whatever one fault leaves of a frame, what
\* either end reads of it is a message of words and octets of some function, and a
\* request ends with one of the errors that readResponse() and execute() return.
THEOREM TypeCorrect ==
    ASSUME ReadLimits, OneFault
    PROVE  Spec => []TypeOK
<1>1. Init => Linked /\ Reported /\ Typed
  BY LinkedInit, ReportedInit, TypedInit
<1>2. (Linked /\ Reported /\ Typed) /\ [Next]_vars => (Linked /\ Reported /\ Typed)'
  BY LinkedNext, ReportedNext, TypedNext
<1>3. Linked /\ Reported /\ Typed => TypeOK
  BY TypesOK
<1> QED
  BY <1>1, <1>2, <1>3, PTL DEF Spec
=============================================================================
