-------------------------- MODULE ModbusADU_proofs --------------------------
(***************************************************************************)
(* Facts that ModbusLink_proofs cites by name: of the functions, octets    *)
(* and sequences that frames are built from, and of their checksum, which  *)
(* fits a frame that arrives as it was sent, and none with a wrong octet.  *)
(***************************************************************************)
EXTENDS ModbusADU, SequenceTheorems, WellFoundedInduction, TLAPS

-----------------------------------------------------------------------------
(* Words and octets *)

\* A word by its bounds.
LEMMA WordIs ==
    ASSUME NEW m
    PROVE  m \in Word <=> m \in Nat /\ m <= 65535
<1>1. MaxWord \in Nat
  BY DEF MaxWord
<1>2. m \in Word <=> m \in Nat /\ m <= MaxWord
  BY <1>1 DEF Word
<1> QED BY <1>2 DEF MaxWord

\* An octet by its bounds.
LEMMA OctetIs ==
    ASSUME NEW m
    PROVE  m \in Octet <=> m \in Nat /\ m <= 255
<1>1. MaxOctet \in Nat
  BY DEF MaxOctet
<1>2. m \in Octet <=> m \in Nat /\ m <= MaxOctet
  BY <1>1 DEF Octet
<1> QED BY <1>2 DEF MaxOctet

\* An octet fits in a word.
LEMMA OctetWord == Octet \subseteq Word
  BY OctetIs, WordIs

\* What is cut to the width of a word, or of an octet.
LEMMA Remainders ==
    ASSUME NEW m \in Nat
    PROVE  (m % 65536) \in Word /\ ((m % 65536) % 65536) \in Word /\ ((m % 65536) % 256) \in Octet
<1>1. PICK r \in Nat : r = m % 65536 /\ r <= 65535
  OBVIOUS
<1>2. (r % 65536) \in Nat /\ r % 65536 <= 65535 /\ (r % 256) \in Nat /\ r % 256 <= 255
  OBVIOUS
<1> QED
  BY <1>1, <1>2, WordIs, OctetIs

\* The two octets of a word make it up.
LEMMA LowHigh ==
    ASSUME NEW w \in Word
    PROVE  (w % 256) \in Octet /\ (w \div 256) \in Octet /\ (w % 256) + 256 * (w \div 256) = w
<1>1. PICK x \in Nat : x = w /\ x <= 65535
  BY WordIs
<1>2. /\ (x % 256) \in Nat /\ x % 256 <= 255
      /\ (x \div 256) \in Nat /\ x \div 256 <= 255
      /\ (x % 256) + 256 * (x \div 256) = x
  BY <1>1
<1> QED
  BY <1>1, <1>2, OctetIs

\* The lesser of two numbers.
LEMMA LeastIs ==
    ASSUME NEW a \in Nat, NEW b \in Nat
    PROVE  Least(a, b) \in Nat /\ Least(a, b) <= b /\ (a <= b => Least(a, b) = a)
  BY DEF Least

\* Bits that fit in a frame fill no more octets than that.
LEMMA OctetsOf ==
    ASSUME NEW m \in Nat
    PROVE  /\ OctetsFor(m) \in Nat
           /\ m <= 1968 => OctetsFor(m) <= 246
           /\ m <= 2000 => OctetsFor(m) <= 250
  BY DEF OctetsFor

\* An octet keeps its value when it is stored as one.
LEMMA Mod ==
    ASSUME NEW m \in Nat, m <= 255
    PROVE  m % (MaxOctet + 1) = m
  BY DEF MaxOctet

-----------------------------------------------------------------------------
(* Sequences of octets *)

\* The octets of a word lie next to each other.
LEMMA Pairs ==
    ASSUME NEW k \in Nat, NEW i \in 1 .. 2 * k
    PROVE  /\ (i % 2) \in {0, 1}
           /\ (i - 1) % 2 = 0 <=> i % 2 = 1
           /\ i % 2 = 1 => /\ i + 1 \in 1 .. 2 * k
                           /\ (i + 1) % 2 # 1 /\ ((i + 1) + 1) \div 2 = (i + 1) \div 2
           /\ i % 2 # 1 => /\ i - 1 \in 1 .. 2 * k
                           /\ (i - 1) % 2 = 1 /\ ((i - 1) + 1) \div 2 = (i + 1) \div 2
  OBVIOUS

\* A sequence between two others.
LEMMA Between ==
    ASSUME NEW S, NEW s \in Seq(S), NEW a \in Seq(S), NEW t \in Seq(S)
    PROVE  /\ s \o (a \o t) \in Seq(S)
           /\ Len(s \o (a \o t)) = Len(s) + Len(a) + Len(t)
           /\ \A i \in 1 .. Len(s) + Len(a) + Len(t) :
                 (s \o (a \o t))[i] = IF i <= Len(s) THEN s[i]
                                      ELSE IF i <= Len(s) + Len(a) THEN a[i - Len(s)]
                                      ELSE t[i - Len(s) - Len(a)]
<1>0. PICK l, n, k \in Nat : l = Len(s) /\ n = Len(a) /\ k = Len(t)
  BY LenProperties
<1>1. PICK u \in Seq(S) : u = a \o t
  BY ConcatProperties
<1>2. Len(u) = n + k /\ \A i \in 1 .. n + k : u[i] = IF i <= n THEN a[i] ELSE t[i - n]
  BY <1>0, <1>1, ConcatProperties
<1>3. PICK v \in Seq(S) : v = s \o u
  BY ConcatProperties
<1>4. Len(v) = l + (n + k) /\ \A i \in 1 .. l + (n + k) : v[i] = IF i <= l THEN s[i] ELSE u[i - l]
  BY <1>0, <1>2, <1>3, ConcatProperties
<1>5. ASSUME NEW i \in 1 .. l + n + k
      PROVE  v[i] = IF i <= l THEN s[i] ELSE IF i <= l + n THEN a[i - l] ELSE t[i - l - n]
  <2>0. i \in 1 .. l + (n + k)
    OBVIOUS
  <2>1. CASE i <= l
    BY <2>0, <2>1, <1>4
  <2>2. CASE ~(i <= l)
    <3>1. i - l \in 1 .. n + k /\ (i - l <= n <=> i <= l + n)
      BY <2>2
    <3> QED
      BY <3>1, <2>0, <2>2, <1>2, <1>4
  <2> QED
    BY <2>1, <2>2
<1> QED
  BY <1>0, <1>1, <1>3, <1>4, <1>5

\* One sequence after another.
Join(a, b) == a \o b

\* Its elements and its length.
LEMMA JoinTwo ==
    ASSUME NEW S, NEW a \in Seq(S), NEW b \in Seq(S)
    PROVE  Join(a, b) \in Seq(S) /\ Len(Join(a, b)) = Len(a) + Len(b)
  BY ConcatProperties DEF Join

\* Where the elements of the two are.
LEMMA JoinAt ==
    ASSUME NEW S, NEW a \in Seq(S), NEW b \in Seq(S)
    PROVE  /\ \A i \in 1 .. Len(a) : Join(a, b)[i] = a[i]
           /\ \A i \in 1 .. Len(b) : Join(a, b)[Len(a) + i] = b[i]
<1>1. PICK l, m \in Nat : l = Len(a) /\ m = Len(b)
  BY LenProperties
<1>2. \A i \in 1 .. l + m : Join(a, b)[i] = IF i <= l THEN a[i] ELSE b[i - l]
  BY <1>1, ConcatProperties DEF Join
<1>3. \A i \in 1 .. l : i \in 1 .. l + m /\ i <= l
  OBVIOUS
<1>4. \A i \in 1 .. m : l + i \in 1 .. l + m /\ ~(l + i <= l) /\ (l + i) - l = i
  OBVIOUS
<1> QED
  BY <1>1, <1>2, <1>3, <1>4

\* Three in a row.
LEMMA JoinThree ==
    ASSUME NEW S, NEW a \in Seq(S), NEW b \in Seq(S), NEW c \in Seq(S)
    PROVE  Join(Join(a, b), c) = Join(a, Join(b, c))
  BY ConcatAssociative DEF Join

\* Nothing before or behind.
LEMMA JoinEmpty ==
    ASSUME NEW S, NEW a \in Seq(S)
    PROVE  Join(a, <<>>) = a /\ Join(<<>>, a) = a
  BY ConcatEmptySeq DEF Join

\* The octets of each of k words are those of a, exchanged.
Turned(a, b, k) ==
    /\ Len(a) = 2 * k /\ Len(b) = 2 * k
    /\ \A i \in 1 .. 2 * k : b[i] = IF i % 2 = 1 THEN a[i + 1] ELSE a[i - 1]

\* Wherever a is, bswap() makes it b.
Swaps(S, a, b, k) == \A s, t \in Seq(S) :
    Swapped(Join(s, Join(a, t)), Len(s) + 1, k) = Join(s, Join(b, t))

\* bswap() exchanges the octets of each word, and leaves what is around them.
LEMMA SwapPairs ==
    ASSUME NEW S, NEW k \in Nat, NEW a \in Seq(S), NEW b \in Seq(S), Turned(a, b, k)
    PROVE  Swaps(S, a, b, k)
<1> SUFFICES ASSUME NEW s \in Seq(S), NEW t \in Seq(S)
             PROVE  Swapped(s \o (a \o t), Len(s) + 1, k) = s \o (b \o t)
  BY DEF Swaps, Join
<1>0. PICK l \in Nat : l = Len(s)
  BY LenProperties
<1>1. PICK m \in Nat : m = Len(t)
  BY LenProperties
<1>2. PICK n \in Nat : n = 2 * k /\ Len(a) = n /\ Len(b) = n
  BY DEF Turned
<1>3. PICK h \in Seq(S) : h = s \o (a \o t)
  BY Between
<1>4. PICK w \in Seq(S) : w = s \o (b \o t)
  BY Between
<1>5. /\ Len(h) = l + n + m
      /\ \A i \in 1 .. l + n + m :
            h[i] = IF i <= l THEN s[i] ELSE IF i <= l + n THEN a[i - l] ELSE t[i - l - n]
  <2>1. /\ Len(h) = Len(s) + Len(a) + Len(t)
        /\ \A i \in 1 .. Len(s) + Len(a) + Len(t) :
              h[i] = IF i <= Len(s) THEN s[i]
                     ELSE IF i <= Len(s) + Len(a) THEN a[i - Len(s)]
                     ELSE t[i - Len(s) - Len(a)]
    BY <1>3, Between
  <2> QED
    BY <2>1, <1>0, <1>1, <1>2, Zenon
<1>6. /\ Len(w) = l + n + m
      /\ \A i \in 1 .. l + n + m :
            w[i] = IF i <= l THEN s[i] ELSE IF i <= l + n THEN b[i - l] ELSE t[i - l - n]
  <2>1. /\ Len(w) = Len(s) + Len(b) + Len(t)
        /\ \A i \in 1 .. Len(s) + Len(b) + Len(t) :
              w[i] = IF i <= Len(s) THEN s[i]
                     ELSE IF i <= Len(s) + Len(b) THEN b[i - Len(s)]
                     ELSE t[i - Len(s) - Len(b)]
    BY <1>4, Between
  <2> QED
    BY <2>1, <1>0, <1>1, <1>2, Zenon
<1>7. ASSUME NEW i \in 1 .. l + n + m
      PROVE  w[i] = IF i < l + 1 \/ i >= l + 1 + 2 * k THEN h[i]
                    ELSE IF (i - (l + 1)) % 2 = 0 THEN h[i + 1] ELSE h[i - 1]
  <2>1. CASE i < l + 1 \/ i >= l + 1 + n
    <3>1. i <= l \/ (~(i <= l) /\ ~(i <= l + n))
      BY <2>1
    <3>2. w[i] = h[i]
      BY <3>1, <1>5, <1>6
    <3> QED
      BY <3>2, <2>1, <1>2
  <2>2. CASE ~(i < l + 1) /\ ~(i >= l + 1 + n)
    <3>1. PICK j \in 1 .. n : j = i - l
      BY <2>2
    <3>2. ~(i <= l) /\ i <= l + n /\ i - (l + 1) = j - 1 /\ (i + 1) - l = j + 1 /\ (i - 1) - l = j - 1
      BY <3>1
    <3>3. j \in 1 .. 2 * k
      BY <3>1, <1>2
    <3>4. w[i] = b[j]
      BY <3>1, <3>2, <1>6
    <3>5. CASE j % 2 = 1
      <4>1. j + 1 \in 1 .. n /\ (j - 1) % 2 = 0
        BY <3>3, <3>5, <1>2, Pairs
      <4>2. i + 1 \in 1 .. l + n + m /\ ~(i + 1 <= l) /\ i + 1 <= l + n
        BY <4>1, <3>1
      <4>3. h[i + 1] = a[j + 1]
        BY <4>2, <3>2, <1>5
      <4>4. b[j] = a[j + 1]
        BY <3>3, <3>5 DEF Turned
      <4> QED
        BY <4>1, <4>3, <4>4, <3>2, <3>4, <2>2, <1>2
    <3>6. CASE j % 2 # 1
      <4>1. j - 1 \in 1 .. n /\ (j - 1) % 2 # 0
        BY <3>3, <3>6, <1>2, Pairs
      <4>2. i - 1 \in 1 .. l + n + m /\ ~(i - 1 <= l) /\ i - 1 <= l + n
        BY <4>1, <3>1
      <4>3. h[i - 1] = a[j - 1]
        BY <4>2, <3>2, <1>5
      <4>4. b[j] = a[j - 1]
        BY <3>3, <3>6 DEF Turned
      <4> QED
        BY <4>1, <4>3, <4>4, <3>2, <3>4, <2>2, <1>2
    <3> QED
      BY <3>5, <3>6
  <2> QED
    BY <2>1, <2>2, <1>2
<1>8. DOMAIN h = 1 .. l + n + m /\ w = [i \in 1 .. l + n + m |-> w[i]]
  BY <1>5, <1>6
<1>9. Swapped(h, l + 1, k) = w
  BY <1>7, <1>8 DEF Swapped
<1> QED
  BY <1>0, <1>3, <1>4, <1>9

-----------------------------------------------------------------------------
(* Function codes *)

\* PDU.h 71-87: the codes of the functions are all different, and none has the
\* bit that tells an exception.
LEMMA Codes ==
    ASSUME NEW f \in Function
    PROVE  /\ CodeOf[f] \in Nat /\ CodeOf[f] <= 127 /\ CodeOf[f] \in Octet
           /\ \A g \in Function : CodeOf[g] = CodeOf[f] => g = f
<1>1. CodeOf[f] \in Nat /\ CodeOf[f] <= 127
  BY DEF Function, CodeOf
<1>2. \A g \in Function : CodeOf[g] = CodeOf[f] => g = f
  BY DEF Function, CodeOf
<1>3. CodeOf[f] <= 255
  BY <1>1
<1> QED
  BY <1>1, <1>2, <1>3, OctetIs

\* So the function of a frame, and of an exception, is that of its request.
LEMMA FunctionOfCode ==
    ASSUME NEW f \in Function
    PROVE  /\ FunctionOf(CodeOf[f]) = f /\ ~ExceptionFlag(CodeOf[f])
           /\ FunctionOf(128 + (CodeOf[f] % 128)) = f
           /\ ExceptionFlag(128 + (CodeOf[f] % 128))
<1>1. PICK c \in Nat : c = CodeOf[f] /\ c <= 127
  BY Codes
<1>2. c % 128 = c /\ (128 + c) % 128 = c
  BY <1>1
<1>3. (CHOOSE g \in Function : CodeOf[g] = c) = f
  BY <1>1, Codes
<1>4. \A x : x % 128 = c => FunctionOf(x) = f
  BY <1>1, <1>3 DEF FunctionOf
<1>5. FunctionOf(c) = f /\ FunctionOf(128 + (c % 128)) = f
  BY <1>2, <1>4
<1> QED
  BY <1>1, <1>2, <1>5 DEF ExceptionFlag

-----------------------------------------------------------------------------
(* Induction *)

\* Induction, over a set instead of a predicate.
LEMMA SetInduction ==
    ASSUME NEW S, 0 \in S, \A n \in Nat : n \in S => n + 1 \in S
    PROVE  \A n \in Nat : n \in S
<1> DEFINE R == OpToRel(<, Nat)
           T == {n \in Nat : n \notin S}
<1>1. IsWellFoundedOn(R, Nat)
  BY NatLessThanWellFounded
<1>2. ASSUME T # {} PROVE FALSE
  <2>1. PICK x \in T : \A y \in T : ~ (<<y, x>> \in R)
    <3>1. T \subseteq Nat
      OBVIOUS
    <3> HIDE DEF R, T
    <3> QED
      BY <1>1, <1>2, <3>1, WFMin
  <2>2. \A y \in Nat : y < x => <<y, x>> \in R
    BY <2>1 DEF OpToRel
  <2>3. x # 0 /\ x - 1 \in Nat /\ x - 1 < x
    OBVIOUS
  <2>4. x - 1 \in S
    BY <2>1, <2>2, <2>3
  <2> QED
    BY <2>3, <2>4
<1> QED
  BY <1>2

-----------------------------------------------------------------------------
(* Rounds *)

\* The bits of a register.
Bit == 0 .. 15

\* A register is any set of them.
LEMMA RegisterIs == Register = SUBSET Bit
  BY DEF Register, Bit

\* A bit by its bounds.
LEMMA BitIs == \A b : b \in Bit <=> b \in Nat /\ b <= 15
  BY DEF Bit

\* Two registers add up to a register.
LEMMA XorRegister ==
    ASSUME NEW A \in Register, NEW B \in Register
    PROVE  Xor(A, B) \in Register
  BY RegisterIs DEF Xor

\* What is added can be taken away again.
LEMMA XorOneToOne ==
    ASSUME NEW A, NEW B, NEW P, Xor(A, P) = Xor(B, P)
    PROVE  A = B
<1>1. \A x : x \in Xor(A, P) <=> ~(x \in A <=> x \in P)
  BY DEF Xor
<1>2. \A x : x \in Xor(B, P) <=> ~(x \in B <=> x \in P)
  BY DEF Xor
<1>3. \A x : x \in A <=> x \in B
  BY <1>1, <1>2
<1> QED
  BY <1>3

\* After a shift each bit is where the next one was.
LEMMA ShiftIn ==
    ASSUME NEW A \in Register
    PROVE  /\ ShiftRight(A) \in Register
           /\ \A b \in Nat : b \in ShiftRight(A) <=> b + 1 \in A
<1>1. A \subseteq Bit
  BY RegisterIs
<1>2. ASSUME NEW c \in ShiftRight(A)
      PROVE  c \in Bit /\ c + 1 \in A
  <2>1. PICK b \in A \ {0} : c = b - 1
    BY <1>2 DEF ShiftRight
  <2> QED
    BY <1>1, <2>1, BitIs
<1>3. ASSUME NEW b \in Nat, b + 1 \in A
      PROVE  b \in ShiftRight(A)
  <2>1. b + 1 # 0 /\ b = (b + 1) - 1
    OBVIOUS
  <2> QED
    BY <1>3, <2>1 DEF ShiftRight
<1> QED
  BY <1>2, <1>3, RegisterIs

\* crc16_update(): a round keeps the lowest bit, as the highest.
LEMMA RoundIs ==
    ASSUME NEW A \in Register
    PROVE  /\ Round(A) \in Register
           /\ 0 \notin A => Round(A) = ShiftRight(A)
           /\ 0 \in A => Round(A) = Xor(ShiftRight(A), Polynomial)
           /\ 15 \in Round(A) <=> 0 \in A
<1>1. Polynomial \in Register
  BY RegisterIs, BitIs DEF Polynomial
<1>2. 15 \notin ShiftRight(A)
  <2>1. 16 \notin A
    BY RegisterIs, BitIs
  <2> QED
    BY <2>1, ShiftIn
<1>3. 15 \in Polynomial
  BY DEF Polynomial
<1> QED
  BY <1>1, <1>2, <1>3, ShiftIn, XorRegister DEF Round, Xor

\* A round can be undone: its last bit says whether the polynomial was added.
LEMMA RoundOneToOne ==
    ASSUME NEW A \in Register, NEW B \in Register, Round(A) = Round(B)
    PROVE  A = B
<1>1. 0 \in A <=> 0 \in B
  BY RoundIs
<1>2. ShiftRight(A) = ShiftRight(B)
  BY <1>1, RoundIs, XorOneToOne
<1>3. A \subseteq Bit /\ B \subseteq Bit
  BY RegisterIs
<1>4. ASSUME NEW b \in Bit
      PROVE  b \in A <=> b \in B
  <2>1. CASE b = 0
    BY <1>1, <2>1
  <2>2. CASE b # 0
    <3>1. b - 1 \in Nat /\ (b - 1) + 1 = b
      BY <2>2, BitIs
    <3> QED
      BY <1>2, <3>1, ShiftIn
  <2> QED
    BY <2>1, <2>2
<1> QED
  BY <1>3, <1>4

\* Eight rounds, as they are made for an octet.
EightRounds(A) == FourRounds(FourRounds(A))

\* Nor do they lose anything.
LEMMA EightOneToOne ==
    ASSUME NEW A \in Register
    PROVE  /\ EightRounds(A) \in Register
           /\ \A B \in Register : EightRounds(A) = EightRounds(B) => A = B
<1>1. \A C \in Register : TwoRounds(C) \in Register
  BY RoundIs DEF TwoRounds
<1>2. \A C, D \in Register : TwoRounds(C) = TwoRounds(D) => C = D
  BY RoundIs, RoundOneToOne DEF TwoRounds
<1>3. \A C \in Register : FourRounds(C) \in Register
  BY <1>1 DEF FourRounds
<1>4. \A C, D \in Register : FourRounds(C) = FourRounds(D) => C = D
  BY <1>1, <1>2 DEF FourRounds
<1> QED
  BY <1>3, <1>4 DEF EightRounds

\* Where the low octet is empty they shift.
LEMMA EightShift ==
    ASSUME NEW A \in Register, \A b \in 0 .. 7 : b \notin A
    PROVE  \A b \in Nat : b \in EightRounds(A) <=> b + 8 \in A
<1> DEFINE Moved(C, k) == C \in Register /\ \A b \in Nat : b \in C <=> b + k \in A
<1>1. Moved(A, 0)
  OBVIOUS
<1>2. ASSUME NEW C \in Register, NEW k \in 0 .. 7, Moved(C, k)
      PROVE  Moved(Round(C), k + 1)
  <2>1. 0 \notin C
    BY <1>2
  <2>2. Round(C) = ShiftRight(C) /\ Round(C) \in Register
    BY <2>1, RoundIs
  <2>3. ASSUME NEW b \in Nat
        PROVE  b \in Round(C) <=> b + (k + 1) \in A
    <3>1. b + 1 \in C <=> (b + 1) + k \in A
      BY <1>2
    <3>2. (b + 1) + k = b + (k + 1)
      OBVIOUS
    <3> QED
      BY <2>2, <3>1, <3>2, ShiftIn
  <2> QED
    BY <2>2, <2>3
<1> HIDE DEF Moved
<1>3. \A C, k : Moved(C, k) => C \in Register
  BY DEF Moved
<1>4. ASSUME NEW C \in Register, NEW k \in 0 .. 6, Moved(C, k)
      PROVE  Moved(TwoRounds(C), k + 2)
  <2>1. Moved(Round(C), k + 1) /\ k + 1 \in 0 .. 7
    BY <1>2, <1>4
  <2>2. Moved(Round(Round(C)), (k + 1) + 1)
    BY <1>3, <1>2, <2>1
  <2> QED
    BY <2>2 DEF TwoRounds
<1>5. ASSUME NEW C \in Register, NEW k \in {0, 4}, Moved(C, k)
      PROVE  Moved(FourRounds(C), k + 4)
  <2>1. Moved(TwoRounds(C), k + 2) /\ k + 2 \in 0 .. 6
    BY <1>4, <1>5
  <2>2. Moved(TwoRounds(TwoRounds(C)), (k + 2) + 2)
    BY <1>3, <1>4, <2>1
  <2> QED
    BY <2>2 DEF FourRounds
<1>6. Moved(FourRounds(A), 4)
  BY <1>1, <1>5
<1>7. Moved(EightRounds(A), 8)
  BY <1>3, <1>5, <1>6 DEF EightRounds
<1> QED
  BY <1>7 DEF Moved

-----------------------------------------------------------------------------
(* Octets and their bits *)

\* The values of the bits, one by one.
LEMMA ValuesAre ==
    /\ BitValue[1] = 1 /\ BitValue[2] = 2 /\ BitValue[3] = 4 /\ BitValue[4] = 8
    /\ BitValue[5] = 16 /\ BitValue[6] = 32 /\ BitValue[7] = 64 /\ BitValue[8] = 128
  BY DEF BitValue

\* The bits of an octet, one by one.
LEMMA BitsAre ==
    ASSUME NEW o
    PROVE  /\ BitsOf(o) \subseteq 0 .. 7
           /\ 0 \in BitsOf(o) <=> (o \div 1) % 2 = 1
           /\ 1 \in BitsOf(o) <=> (o \div 2) % 2 = 1
           /\ 2 \in BitsOf(o) <=> (o \div 4) % 2 = 1
           /\ 3 \in BitsOf(o) <=> (o \div 8) % 2 = 1
           /\ 4 \in BitsOf(o) <=> (o \div 16) % 2 = 1
           /\ 5 \in BitsOf(o) <=> (o \div 32) % 2 = 1
           /\ 6 \in BitsOf(o) <=> (o \div 64) % 2 = 1
           /\ 7 \in BitsOf(o) <=> (o \div 128) % 2 = 1
  BY ValuesAre DEF BitsOf

\* An octet is what its bits add up to.
LEMMA OctetSum ==
    ASSUME NEW o \in Octet
    PROVE  o = (o % 2) + 2 * ((o \div 2) % 2) + 4 * ((o \div 4) % 2) + 8 * ((o \div 8) % 2)
               + 16 * ((o \div 16) % 2) + 32 * ((o \div 32) % 2) + 64 * ((o \div 64) % 2)
               + 128 * ((o \div 128) % 2)
<1>1. PICK x \in Nat : x = o /\ x <= 255
  BY OctetIs
<1>2. x = (x % 2) + 2 * ((x \div 2) % 2) + 4 * ((x \div 4) % 2) + 8 * ((x \div 8) % 2)
               + 16 * ((x \div 16) % 2) + 32 * ((x \div 32) % 2) + 64 * ((x \div 64) % 2)
               + 128 * ((x \div 128) % 2)
  BY <1>1
<1> QED
  BY <1>1, <1>2

\* Other octets have other bits.
LEMMA BitsOneToOne ==
    ASSUME NEW o \in Octet, NEW p \in Octet, BitsOf(o) = BitsOf(p)
    PROVE  o = p
<1>1. PICK x \in Nat : x = o /\ x <= 255
  BY OctetIs
<1>2. PICK y \in Nat : y = p /\ y <= 255
  BY OctetIs
<1>3. /\ (x \div 1) % 2 = (y \div 1) % 2 /\ (x \div 2) % 2 = (y \div 2) % 2
      /\ (x \div 4) % 2 = (y \div 4) % 2 /\ (x \div 8) % 2 = (y \div 8) % 2
      /\ (x \div 16) % 2 = (y \div 16) % 2 /\ (x \div 32) % 2 = (y \div 32) % 2
      /\ (x \div 64) % 2 = (y \div 64) % 2 /\ (x \div 128) % 2 = (y \div 128) % 2
  BY <1>1, <1>2, BitsAre
<1> QED
  BY <1>1, <1>2, <1>3, OctetSum

\* Of eight bits, what they add up to, and each of them back.
LEMMA BitSum ==
    ASSUME NEW b0 \in {0, 1}, NEW b1 \in {0, 1}, NEW b2 \in {0, 1}, NEW b3 \in {0, 1},
           NEW b4 \in {0, 1}, NEW b5 \in {0, 1}, NEW b6 \in {0, 1}, NEW b7 \in {0, 1},
           NEW v \in Nat,
           v = b0 + 2 * b1 + 4 * b2 + 8 * b3 + 16 * b4 + 32 * b5 + 64 * b6 + 128 * b7
    PROVE  /\ v <= 255
           /\ (v \div 1) % 2 = b0 /\ (v \div 2) % 2 = b1
           /\ (v \div 4) % 2 = b2 /\ (v \div 8) % 2 = b3
           /\ (v \div 16) % 2 = b4 /\ (v \div 32) % 2 = b5
           /\ (v \div 64) % 2 = b6 /\ (v \div 128) % 2 = b7
  OBVIOUS

\* An octet of a register has the bits of the register.
LEMMA OctetBits ==
    ASSUME NEW A, NEW low \in Nat
    PROVE  /\ OctetOf(A, low) \in Octet
           /\ \A b \in 0 .. 7 : b \in BitsOf(OctetOf(A, low)) <=> b + low \in A
<1> DEFINE bit(b) == IF b + low \in A THEN 1 ELSE 0
<1>1. PICK v : v = OctetOf(A, low)
  OBVIOUS
<1>2. v = bit(0) + 2 * bit(1) + 4 * bit(2) + 8 * bit(3)
          + 16 * bit(4) + 32 * bit(5) + 64 * bit(6) + 128 * bit(7)
  BY <1>1, ValuesAre DEF OctetOf
<1>3. \A b : bit(b) \in {0, 1}
  OBVIOUS
<1>4. \A b : bit(b) = 1 <=> b + low \in A
  OBVIOUS
<1> HIDE DEF bit
<1>5. PICK b0, b1, b2, b3, b4, b5, b6, b7 \in {0, 1} :
         /\ b0 = bit(0) /\ b1 = bit(1) /\ b2 = bit(2) /\ b3 = bit(3)
         /\ b4 = bit(4) /\ b5 = bit(5) /\ b6 = bit(6) /\ b7 = bit(7)
  BY <1>3
<1>6. PICK w \in Nat : /\ w = v
                       /\ w = b0 + 2 * b1 + 4 * b2 + 8 * b3 + 16 * b4 + 32 * b5 + 64 * b6 + 128 * b7
  <2>1. b0 + 2 * b1 + 4 * b2 + 8 * b3 + 16 * b4 + 32 * b5 + 64 * b6 + 128 * b7 \in Nat
    OBVIOUS
  <2>2. v = b0 + 2 * b1 + 4 * b2 + 8 * b3 + 16 * b4 + 32 * b5 + 64 * b6 + 128 * b7
    BY <1>2, <1>5
  <2> QED
    BY <2>1, <2>2
<1>7. /\ w <= 255
      /\ (w \div 1) % 2 = b0 /\ (w \div 2) % 2 = b1
      /\ (w \div 4) % 2 = b2 /\ (w \div 8) % 2 = b3
      /\ (w \div 16) % 2 = b4 /\ (w \div 32) % 2 = b5
      /\ (w \div 64) % 2 = b6 /\ (w \div 128) % 2 = b7
  BY <1>6, BitSum
<1>8. /\ v \in Nat /\ v <= 255
      /\ (v \div 1) % 2 = bit(0) /\ (v \div 2) % 2 = bit(1)
      /\ (v \div 4) % 2 = bit(2) /\ (v \div 8) % 2 = bit(3)
      /\ (v \div 16) % 2 = bit(4) /\ (v \div 32) % 2 = bit(5)
      /\ (v \div 64) % 2 = bit(6) /\ (v \div 128) % 2 = bit(7)
  BY <1>5, <1>6, <1>7
<1>9. ASSUME NEW b \in 0 .. 7
      PROVE  b \in BitsOf(v) <=> b + low \in A
  <2>1. b \in {0, 1, 2, 3, 4, 5, 6, 7}
    OBVIOUS
  <2> QED
    BY <1>4, <1>8, <2>1, BitsAre
<1> QED
  BY <1>1, <1>8, <1>9, OctetIs

\* What an octet does to the register.
LEMMA UpdateIs ==
    ASSUME NEW A \in Register, NEW o \in Octet
    PROVE  /\ Xor(A, BitsOf(o)) \in Register
           /\ crc16_update(A, o) = EightRounds(Xor(A, BitsOf(o)))
           /\ crc16_update(A, o) \in Register
<1>1. BitsOf(o) \in Register
  BY BitsAre, RegisterIs, BitIs
<1> QED
  BY <1>1, XorRegister, EightOneToOne DEF crc16_update, EightRounds

\* Neither the register nor the octet can differ unnoticed.
LEMMA UpdateOneToOne ==
    ASSUME NEW A \in Register, NEW B \in Register, NEW o \in Octet, NEW p \in Octet,
           crc16_update(A, o) = crc16_update(B, p)
    PROVE  /\ o = p => A = B
           /\ A = B => o = p
<1>1. Xor(A, BitsOf(o)) = Xor(B, BitsOf(p))
  BY UpdateIs, EightOneToOne
<1>2. \A S, T : Xor(S, T) = Xor(T, S)
  BY DEF Xor
<1>3. A = B => BitsOf(o) = BitsOf(p)
  BY <1>1, <1>2, XorOneToOne
<1> QED
  BY <1>1, <1>3, XorOneToOne, BitsOneToOne

\* The checksum of a register clears it.
LEMMA Cleared ==
    ASSUME NEW A \in Register
    PROVE  crc16_update(crc16_update(A, OctetOf(A, 0)), OctetOf(A, 8)) = {}
<1>1. PICK lo \in Octet : lo = OctetOf(A, 0)
  BY OctetBits
<1>2. PICK hi \in Octet : hi = OctetOf(A, 8)
  BY OctetBits
<1>3. \A b \in 0 .. 7 : (b \in BitsOf(lo) <=> b \in A) /\ (b \in BitsOf(hi) <=> b + 8 \in A)
  BY <1>1, <1>2, OctetBits
<1>4. PICK B \in Register : B = Xor(A, BitsOf(lo))
  BY UpdateIs
<1>5. \A b : b \in B <=> b \in A /\ b \notin 0 .. 7
  BY <1>3, <1>4, BitsAre DEF Xor
<1>6. \A b \in Nat : b \in EightRounds(B) <=> b + 8 \in B
  BY <1>5, EightShift
<1>7. PICK C \in Register : C = crc16_update(A, lo)
  BY UpdateIs
<1>8. C = EightRounds(B)
  BY <1>4, <1>7, UpdateIs
<1>9. ASSUME NEW b
      PROVE  b \in C <=> b \in BitsOf(hi)
  <2>1. b \in C => b \in Nat
    BY RegisterIs, BitIs
  <2>2. b \in BitsOf(hi) => b \in 0 .. 7
    BY BitsAre
  <2>3. ASSUME b \in Nat
        PROVE  b \in C <=> b + 8 \in A
    BY <1>5, <1>6, <1>8, <2>3
  <2>4. b + 8 \in A /\ b \in Nat => b \in 0 .. 7
    BY RegisterIs, BitIs
  <2> QED
    BY <1>3, <2>1, <2>2, <2>3, <2>4
<1>10. Xor(C, BitsOf(hi)) = {}
  BY <1>9 DEF Xor
<1>11. crc16_update(C, hi) = EightRounds({}) /\ {} \in Register
  BY <1>10, UpdateIs
<1>12. EightRounds({}) = {}
  <2>1. \A b \in Nat : b \notin EightRounds({})
    BY <1>11, EightShift
  <2>2. EightRounds({}) \in Register
    BY <1>11, EightOneToOne
  <2> QED
    BY <2>1, <2>2, RegisterIs, BitIs
<1> QED
  BY <1>1, <1>2, <1>7, <1>11, <1>12

-----------------------------------------------------------------------------
(* One octet after another *)

\* The register before and after each octet from position a on.
Trace(s, a, h) ==
    /\ h \in [0 .. Len(s) -> Register]
    /\ \A i \in a .. Len(s) : h[i] = crc16_update(h[i - 1], s[i])

\* There is one, from whatever the register is before that.
LEMMA TraceExists ==
    ASSUME NEW s \in Seq(Octet), NEW a \in 1 .. Len(s), NEW c \in Register
    PROVE  \E h : Trace(s, a, h) /\ h[a - 1] = c
<1>0. PICK n \in Nat : n = Len(s)
  BY LenProperties
<1>1. a \in Nat /\ 1 <= a /\ a <= n /\ a - 1 \in 0 .. n
  BY <1>0
<1> DEFINE UpTo(h, m) == /\ h \in [0 .. n -> Register] /\ h[a - 1] = c
                         /\ \A i \in a .. m : h[i] = crc16_update(h[i - 1], s[i])
           T == {m \in Nat : m <= n => \E h : UpTo(h, m)}
<1>2. 0 \in T
  <2>1. UpTo([i \in 0 .. n |-> c], 0)
    BY <1>1
  <2> QED
    BY <2>1
<1>3. ASSUME NEW m \in Nat, m \in T
      PROVE  m + 1 \in T
  <2> SUFFICES ASSUME m + 1 <= n
               PROVE  \E h : UpTo(h, m + 1)
    OBVIOUS
  <2>1. PICK h : UpTo(h, m)
    BY <1>3
  <2>2. CASE m + 1 < a
    <3>1. \A i \in a .. m + 1 : FALSE
      BY <1>1, <2>2
    <3> QED
      BY <2>1, <3>1
  <2>3. CASE ~(m + 1 < a)
    <3> DEFINE g == [i \in 0 .. n |-> IF i = m + 1 THEN crc16_update(h[m], s[m + 1]) ELSE h[i]]
    <3>1. h[m] \in Register /\ s[m + 1] \in Octet
      BY <1>0, <2>1, ElementOfSeq
    <3>2. g \in [0 .. n -> Register]
      BY <2>1, <3>1, UpdateIs
    <3>3. g[a - 1] = c
      BY <1>1, <2>1, <2>3
    <3>4. ASSUME NEW i \in a .. m + 1
          PROVE  g[i] = crc16_update(g[i - 1], s[i])
      <4>1. i \in 0 .. n /\ i - 1 \in 0 .. n /\ i - 1 # m + 1
        BY <1>1
      <4>2. CASE i = m + 1
        <5>1. i - 1 = m
          BY <4>2
        <5> QED
          BY <4>1, <4>2, <5>1
      <4>3. CASE i # m + 1
        <5>1. i \in a .. m
          BY <1>1, <4>3
        <5>2. h[i] = crc16_update(h[i - 1], s[i])
          BY <2>1, <5>1
        <5>3. g[i] = h[i] /\ g[i - 1] = h[i - 1]
          BY <4>1, <4>3
        <5> QED
          BY <5>2, <5>3
      <4> QED
        BY <4>2, <4>3
    <3> HIDE DEF g
    <3> QED
      BY <3>2, <3>3, <3>4
  <2> QED
    BY <2>2, <2>3
<1>4. n \in T
  <2> HIDE DEF T
  <2> QED
    BY <1>2, <1>3, SetInduction
<1> QED
  BY <1>0, <1>4 DEF Trace

\* And only one.
LEMMA TraceUnique ==
    ASSUME NEW s \in Seq(Octet), NEW a \in 1 .. Len(s), NEW h, NEW g,
           Trace(s, a, h), Trace(s, a, g), h[a - 1] = g[a - 1]
    PROVE  \A i \in a - 1 .. Len(s) : h[i] = g[i]
<1>0. PICK n \in Nat : n = Len(s)
  BY LenProperties
<1>1. a \in Nat /\ 1 <= a /\ a <= n
  BY <1>0
<1> DEFINE T == {m \in Nat : a - 1 <= m /\ m <= n => h[m] = g[m]}
<1>2. 0 \in T
  BY <1>1
<1>3. ASSUME NEW m \in Nat, m \in T
      PROVE  m + 1 \in T
  <2> SUFFICES ASSUME a - 1 <= m + 1, m + 1 <= n, a - 1 # m + 1
               PROVE  h[m + 1] = g[m + 1]
    OBVIOUS
  <2>1. m + 1 \in a .. n /\ (m + 1) - 1 = m /\ a - 1 <= m /\ m <= n
    BY <1>1
  <2>2. h[m] = g[m]
    BY <1>3, <2>1
  <2>3. h[m + 1] = crc16_update(h[m], s[m + 1]) /\ g[m + 1] = crc16_update(g[m], s[m + 1])
    BY <1>0, <2>1 DEF Trace
  <2> QED
    BY <2>2, <2>3
<1>4. \A m \in Nat : m \in T
  <2> HIDE DEF T
  <2> QED
    BY <1>2, <1>3, SetInduction
<1> QED
  BY <1>0, <1>1, <1>4

-----------------------------------------------------------------------------
(* Ranges, and the register at the end of each *)

\* The arguments of the function in Crc, its body, and that it is that function.
Ranges(s) == Register \X (1 .. Len(s)) \X (1 .. Len(s))

Halved(s, over, r) ==
    LET middle == (r[2] + r[3]) \div 2
    IN IF r[2] = r[3] THEN crc16_update(r[1], s[r[2]])
       ELSE over[<<over[<<r[1], r[2], middle>>], middle + 1, r[3]>>]

Solves(s, over) == over = [r \in Ranges(s) |-> Halved(s, over, r)]

\* The octets from a to b take the register from c to e.
Ends(s, c, a, b, e) == \E h : Trace(s, a, h) /\ h[a - 1] = c /\ h[b] = e

\* The checksum is a value of it.
LEMMA CrcChosen ==
    ASSUME NEW s
    PROVE  Crc(s) = (CHOOSE over : Solves(s, over))[<<0 .. 15, 1, Len(s)>>]
  BY Zenon DEF Crc, Solves, Ranges, Halved

\* They take it somewhere.
LEMMA EndExists ==
    ASSUME NEW s \in Seq(Octet), NEW c \in Register, NEW a \in 1 .. Len(s), NEW b \in a - 1 .. Len(s)
    PROVE  \E e \in Register : Ends(s, c, a, b, e)
<1>0. PICK n \in Nat : n = Len(s)
  BY LenProperties
<1>1. PICK h : Trace(s, a, h) /\ h[a - 1] = c
  BY TraceExists
<1>2. b \in 0 .. n
  BY <1>0
<1>3. h[b] \in Register
  BY <1>0, <1>1, <1>2 DEF Trace
<1> QED
  BY <1>1, <1>3 DEF Ends

\* And only there.
LEMMA EndUnique ==
    ASSUME NEW s \in Seq(Octet), NEW c, NEW a \in 1 .. Len(s), NEW b \in a - 1 .. Len(s),
           NEW d, NEW e, Ends(s, c, a, b, d), Ends(s, c, a, b, e)
    PROVE  d = e
<1>1. PICK h : Trace(s, a, h) /\ h[a - 1] = c /\ h[b] = d
  BY DEF Ends
<1>2. PICK g : Trace(s, a, g) /\ g[a - 1] = c /\ g[b] = e
  BY DEF Ends
<1>3. h[b] = g[b]
  BY <1>1, <1>2, TraceUnique
<1> QED
  BY <1>1, <1>2, <1>3

\* One octet is one update.
LEMMA EndOne ==
    ASSUME NEW s \in Seq(Octet), NEW c \in Register, NEW a \in 1 .. Len(s)
    PROVE  Ends(s, c, a, a, crc16_update(c, s[a]))
<1>1. PICK h : Trace(s, a, h) /\ h[a - 1] = c
  BY TraceExists
<1>2. PICK n \in Nat : n = Len(s)
  BY LenProperties
<1>3. a \in a .. Len(s)
  BY <1>2
<1>4. h[a] = crc16_update(c, s[a])
  BY <1>1, <1>3 DEF Trace
<1> QED
  BY <1>1, <1>4 DEF Ends

\* Where one range ends the next one starts.
LEMMA EndJoin ==
    ASSUME NEW s \in Seq(Octet), NEW c \in Register, NEW a \in 1 .. Len(s), NEW b \in 1 .. Len(s),
           NEW m \in 1 .. Len(s), a <= m, m < b, NEW d, NEW e,
           Ends(s, c, a, m, d), Ends(s, d, m + 1, b, e)
    PROVE  Ends(s, c, a, b, e)
<1>0. PICK n \in Nat : n = Len(s)
  BY LenProperties
<1>1. PICK h : Trace(s, a, h) /\ h[a - 1] = c
  BY TraceExists
<1>2. /\ m \in a - 1 .. n /\ m + 1 \in 1 .. n /\ b \in (m + 1) - 1 .. n /\ (m + 1) - 1 = m
      /\ \A i \in m + 1 .. n : i \in a .. n
  BY <1>0
<1>3. Ends(s, c, a, m, h[m])
  BY <1>1 DEF Ends
<1>4. h[m] = d
  BY <1>0, <1>2, <1>3, EndUnique
<1>5. Trace(s, m + 1, h)
  BY <1>0, <1>1, <1>2 DEF Trace
<1>6. Ends(s, d, m + 1, b, h[b])
  BY <1>2, <1>4, <1>5 DEF Ends
<1>7. h[b] = e
  BY <1>0, <1>2, <1>6, EndUnique
<1> QED
  BY <1>1, <1>7 DEF Ends

\* The middle of a range, in order or not.
LEMMA Middle ==
    ASSUME NEW n \in Nat, NEW a \in 1 .. n, NEW b \in 1 .. n
    PROVE  \E m \in 1 .. n :
              /\ m = (a + b) \div 2
              /\ a < b => a <= m /\ m < b /\ m + 1 \in 1 .. n /\ m - a < b - a /\ b - (m + 1) < b - a
              /\ b < a => b <= m /\ m < a /\ m + 1 \in 1 .. n
<1>1. PICK m : m = (a + b) \div 2
  OBVIOUS
<1>2. m \in 1 .. n
  BY <1>1
<1> QED
  BY <1>1, <1>2

\* What the function comes to, and for ranges that are empty as well.
Value(s, r) ==
    IF r[2] <= r[3] THEN CHOOSE e \in Register : Ends(s, r[1], r[2], r[3], e) ELSE r[1]

\* It is the end of the range, or where it started.
LEMMA ValueIs ==
    ASSUME NEW s \in Seq(Octet), NEW c \in Register, NEW a \in 1 .. Len(s), NEW b \in 1 .. Len(s)
    PROVE  /\ <<c, a, b>> \in Ranges(s) /\ Value(s, <<c, a, b>>) \in Register
           /\ a <= b => /\ Ends(s, c, a, b, Value(s, <<c, a, b>>))
                        /\ \A e : Ends(s, c, a, b, e) => e = Value(s, <<c, a, b>>)
           /\ ~(a <= b) => Value(s, <<c, a, b>>) = c
<1>0. PICK n \in Nat : n = Len(s)
  BY LenProperties
<1>1. <<c, a, b>> \in Ranges(s)
  BY DEF Ranges
<1>2. CASE a <= b
  <2>1. b \in a - 1 .. Len(s)
    BY <1>0, <1>2
  <2>2. \E e \in Register : Ends(s, c, a, b, e)
    BY <2>1, EndExists
  <2>3. Value(s, <<c, a, b>>) = CHOOSE e \in Register : Ends(s, c, a, b, e)
    BY <1>2 DEF Value
  <2>4. Value(s, <<c, a, b>>) \in Register /\ Ends(s, c, a, b, Value(s, <<c, a, b>>))
    BY <2>2, <2>3
  <2>5. \A e : Ends(s, c, a, b, e) => e = Value(s, <<c, a, b>>)
    BY <2>1, <2>4, EndUnique
  <2> QED
    BY <1>1, <1>2, <2>4, <2>5
<1>3. CASE ~(a <= b)
  <2>1. Value(s, <<c, a, b>>) = c
    BY <1>3 DEF Value
  <2> QED
    BY <1>1, <1>3, <2>1
<1> QED
  BY <1>2, <1>3

\* There is such a function.
LEMMA SolutionExists ==
    ASSUME NEW s \in Seq(Octet)
    PROVE  Solves(s, [r \in Ranges(s) |-> Value(s, r)])
<1>0. PICK n \in Nat : n = Len(s)
  BY LenProperties
<1>1. PICK w : w = [r \in Ranges(s) |-> Value(s, r)]
  OBVIOUS
<1>2. ASSUME NEW c \in Register, NEW a \in 1 .. Len(s), NEW b \in 1 .. Len(s)
      PROVE  w[<<c, a, b>>] = Value(s, <<c, a, b>>)
  BY <1>1, ValueIs
<1>3. ASSUME NEW c \in Register, NEW a \in 1 .. Len(s), NEW b \in 1 .. Len(s)
      PROVE  Value(s, <<c, a, b>>) = Halved(s, w, <<c, a, b>>)
  <2>1. CASE a = b
    <3>1. a <= b
      BY <1>0, <2>1
    <3>2. Ends(s, c, a, b, crc16_update(c, s[a]))
      BY <2>1, EndOne
    <3>3. Halved(s, w, <<c, a, b>>) = crc16_update(c, s[a])
      BY <2>1 DEF Halved
    <3> QED
      BY <3>1, <3>2, <3>3, ValueIs
  <2>2. CASE a # b
    <3>0. PICK m \in 1 .. n :
             /\ m = (a + b) \div 2
             /\ a < b => a <= m /\ m < b /\ m + 1 \in 1 .. n /\ m - a < b - a /\ b - (m + 1) < b - a
             /\ b < a => b <= m /\ m < a /\ m + 1 \in 1 .. n
      BY <1>0, Middle
    <3>1. m = (a + b) \div 2
      BY <3>0
    <3>2. /\ m \in 1 .. Len(s) /\ m + 1 \in 1 .. Len(s)
          /\ a < b => a <= m /\ m < b /\ m + 1 <= b /\ a <= b
          /\ ~(a < b) => ~(a <= m) /\ ~(m + 1 <= b) /\ ~(a <= b)
      BY <1>0, <2>2, <3>0
    <3>3. PICK d \in Register : d = Value(s, <<c, a, m>>)
      BY <3>2, ValueIs
    <3>4. PICK e \in Register : e = Value(s, <<d, m + 1, b>>)
      BY <3>2, ValueIs
    <3>5. Halved(s, w, <<c, a, b>>) = w[<<w[<<c, a, m>>], m + 1, b>>]
      BY <2>2, <3>1 DEF Halved
    <3>6. w[<<c, a, m>>] = d
      BY <1>2, <3>2, <3>3
    <3>7. w[<<d, m + 1, b>>] = e
      BY <1>2, <3>2, <3>4
    <3>8. CASE a < b
      <4>1. Ends(s, c, a, m, d)
        BY <3>2, <3>3, <3>8, ValueIs
      <4>2. Ends(s, d, m + 1, b, e)
        BY <3>2, <3>4, <3>8, ValueIs
      <4>3. Ends(s, c, a, b, e)
        BY <3>2, <3>8, <4>1, <4>2, EndJoin
      <4>4. \A x : Ends(s, c, a, b, x) => x = Value(s, <<c, a, b>>)
        BY <3>2, <3>8, ValueIs
      <4>5. e = Value(s, <<c, a, b>>)
        BY <4>3, <4>4
      <4> QED
        BY <3>5, <3>6, <3>7, <4>5
    <3>9. CASE ~(a < b)
      <4>1. d = c
        BY <3>2, <3>3, <3>9, ValueIs
      <4>2. e = d
        <5>1. PICK k \in 1 .. Len(s) : k = m + 1 /\ ~(k <= b)
          BY <3>2, <3>9
        <5>2. Value(s, <<d, k, b>>) = d
          BY <3>3, <5>1, ValueIs
        <5> QED
          BY <3>4, <5>1, <5>2
      <4>3. Value(s, <<c, a, b>>) = c
        BY <3>2, <3>9, ValueIs
      <4> QED
        BY <3>5, <3>6, <3>7, <4>1, <4>2, <4>3
    <3> QED
      BY <3>8, <3>9
  <2> QED
    BY <2>1, <2>2
<1>4. ASSUME NEW r \in Ranges(s)
      PROVE  Value(s, r) = Halved(s, w, r)
  <2>1. PICK c \in Register, a \in 1 .. Len(s), b \in 1 .. Len(s) : r = <<c, a, b>>
    BY DEF Ranges
  <2> QED
    BY <1>3, <2>1
<1> QED
  BY <1>1, <1>4, Zenon DEF Solves

\* And any leads where the octets lead.
LEMMA SolutionEnds ==
    ASSUME NEW s \in Seq(Octet), NEW over, Solves(s, over), NEW c \in Register,
           NEW a \in 1 .. Len(s), NEW b \in 1 .. Len(s), a <= b
    PROVE  Ends(s, c, a, b, over[<<c, a, b>>])
<1>0. PICK n \in Nat : n = Len(s)
  BY LenProperties
<1> DEFINE T == {k \in Nat : \A d \in Register, i, j \in 1 .. n :
                    i <= j /\ j - i <= k => Ends(s, d, i, j, over[<<d, i, j>>])}
<1>1. ASSUME NEW d \in Register, NEW i \in 1 .. n, NEW j \in 1 .. n
      PROVE  over[<<d, i, j>>] = Halved(s, over, <<d, i, j>>)
  <2>1. <<d, i, j>> \in Ranges(s)
    BY <1>0 DEF Ranges
  <2> QED
    BY <2>1 DEF Solves
<1>2. ASSUME NEW d \in Register, NEW i \in 1 .. n
      PROVE  Ends(s, d, i, i, over[<<d, i, i>>])
  <2>1. over[<<d, i, i>>] = crc16_update(d, s[i])
    BY <1>1 DEF Halved
  <2> QED
    BY <1>0, <2>1, EndOne
<1>3. 0 \in T
  <2>1. \A i, j \in 1 .. n : i <= j /\ j - i <= 0 => i = j
    OBVIOUS
  <2> QED
    BY <1>2, <2>1
<1>4. ASSUME NEW k \in Nat, k \in T
      PROVE  k + 1 \in T
  <2> SUFFICES ASSUME NEW d \in Register, NEW i \in 1 .. n, NEW j \in 1 .. n, i <= j, j - i <= k + 1
               PROVE  Ends(s, d, i, j, over[<<d, i, j>>])
    OBVIOUS
  <2>1. CASE i = j
    BY <1>2, <2>1
  <2>2. CASE i # j
    <3>0. PICK m \in 1 .. n :
             /\ m = (i + j) \div 2
             /\ i < j => i <= m /\ m < j /\ m + 1 \in 1 .. n /\ m - i < j - i /\ j - (m + 1) < j - i
             /\ j < i => j <= m /\ m < i /\ m + 1 \in 1 .. n
      BY Middle
    <3>1. m = (i + j) \div 2
      BY <3>0
    <3>2. /\ m \in 1 .. n /\ m + 1 \in 1 .. n /\ i <= m /\ m < j /\ m + 1 <= j
          /\ m - i <= k /\ j - (m + 1) <= k
      <4>1. i < j
        BY <2>2
      <4> QED
        BY <3>0, <4>1
    <3>3. PICK e : e = over[<<d, i, m>>]
      OBVIOUS
    <3>4. Ends(s, d, i, m, e)
      BY <1>4, <3>2, <3>3
    <3>5. e \in Register
      <4>1. m \in i - 1 .. Len(s) /\ i \in 1 .. Len(s)
        BY <1>0, <3>2
      <4> QED
        BY <3>4, <4>1, EndExists, EndUnique
    <3>6. Ends(s, e, m + 1, j, over[<<e, m + 1, j>>])
      BY <1>4, <3>2, <3>5
    <3>7. over[<<d, i, j>>] = over[<<e, m + 1, j>>]
      BY <1>1, <2>2, <3>1, <3>3 DEF Halved
    <3>8. Ends(s, d, i, j, over[<<e, m + 1, j>>])
      BY <1>0, <3>2, <3>4, <3>6, EndJoin
    <3> QED
      BY <3>7, <3>8
  <2> QED
    BY <2>1, <2>2
<1>5. b - a \in Nat /\ b - a <= b - a
  BY <1>0
<1>6. b - a \in T
  <2> HIDE DEF T
  <2> QED
    BY <1>3, <1>4, <1>5, SetInduction
<1> QED
  BY <1>0, <1>5, <1>6

\* The checksum is where the octets, taken one after another, lead.
LEMMA CrcEnds ==
    ASSUME NEW s \in Seq(Octet), s # <<>>
    PROVE  Ends(s, 0 .. 15, 1, Len(s), Crc(s)) /\ Crc(s) \in Register
<1>1. Solves(s, CHOOSE over : Solves(s, over))
  BY SolutionExists
<1>2. PICK n \in Nat : n = Len(s) /\ n # 0
  BY LenProperties, EmptySeq
<1>3. 1 \in 1 .. Len(s) /\ Len(s) \in 1 .. Len(s) /\ 1 <= Len(s) /\ Len(s) \in 1 - 1 .. Len(s)
  BY <1>2
<1>4. 0 .. 15 \in Register
  BY DEF Register
<1>5. Ends(s, 0 .. 15, 1, Len(s), Crc(s))
  BY <1>1, <1>3, <1>4, SolutionEnds, CrcChosen
<1>6. Crc(s) \in Register
  BY <1>3, <1>4, <1>5, EndExists, EndUnique
<1> QED
  BY <1>5, <1>6

-----------------------------------------------------------------------------
(* The checksum of a frame *)

\* The checksum is two octets.
LEMMA ChecksumIs ==
    ASSUME NEW s \in Seq(Octet), s # <<>>
    PROVE  \E lo, hi \in Octet : /\ Checksum(s) = <<lo, hi>>
                                 /\ Checksum(s) \in Seq(Octet) /\ Len(Checksum(s)) = 2
                                 /\ crc16_update(crc16_update(Crc(s), lo), hi) = {}
<1>1. PICK A \in Register : A = Crc(s)
  BY CrcEnds
<1>2. PICK lo \in Octet : lo = OctetOf(A, 0)
  BY OctetBits
<1>3. PICK hi \in Octet : hi = OctetOf(A, 8)
  BY OctetBits
<1>4. Checksum(s) = <<lo, hi>>
  BY <1>1, <1>2, <1>3 DEF Checksum
<1>5. crc16_update(crc16_update(A, lo), hi) = {}
  BY <1>2, <1>3, Cleared
<1> QED
  BY <1>1, <1>4, <1>5

\* ADU.cpp 25-47, 80-82, 125-128: the checksum that preparePacket() appends is the one with
\* which parsePacket() finds zero, for every packet.
THEOREM Residue ==
    ASSUME NEW s \in Seq(Octet), s # <<>>
    PROVE  Crc(s \o Checksum(s)) = {}
<1>1. PICK lo, hi \in Octet : /\ Checksum(s) = <<lo, hi>>
                              /\ crc16_update(crc16_update(Crc(s), lo), hi) = {}
  BY ChecksumIs
<1>2. PICK n \in Nat : n = Len(s) /\ n # 0
  BY LenProperties, EmptySeq
<1>3. PICK w \in Seq(Octet) : w = s \o <<lo, hi>>
  <2>1. <<lo, hi>> \in Seq(Octet)
    OBVIOUS
  <2> QED
    BY <2>1, ConcatProperties
<1>4. Len(w) = n + 2 /\ (\A i \in 1 .. n : w[i] = s[i]) /\ w[n + 1] = lo /\ w[n + 2] = hi
  <2>1. <<lo, hi>> \in Seq(Octet) /\ Len(<<lo, hi>>) = 2
    OBVIOUS
  <2>2. Len(w) = n + 2 /\ \A i \in 1 .. n + 2 : w[i] = IF i <= n THEN s[i] ELSE <<lo, hi>>[i - n]
    BY <1>2, <1>3, <2>1, ConcatProperties
  <2>3. /\ n + 1 \in 1 .. n + 2 /\ ~(n + 1 <= n) /\ (n + 1) - n = 1
        /\ n + 2 \in 1 .. n + 2 /\ ~(n + 2 <= n) /\ (n + 2) - n = 2
        /\ \A i \in 1 .. n : i \in 1 .. n + 2 /\ i <= n
    BY <1>2
  <2>4. w[n + 1] = <<lo, hi>>[1] /\ w[n + 2] = <<lo, hi>>[2]
    BY <2>2, <2>3
  <2> QED
    BY <2>2, <2>3, <2>4
<1>5. w # <<>>
  BY <1>2, <1>4, EmptySeq
<1>6. PICK h : Trace(w, 1, h) /\ h[0] = 0 .. 15 /\ h[n + 2] = Crc(w)
  <2>1. Ends(w, 0 .. 15, 1, Len(w), Crc(w))
    BY <1>5, CrcEnds
  <2> QED
    BY <1>4, <2>1 DEF Ends
<1>7. Crc(s) = h[n]
  <2> DEFINE g == [i \in 0 .. n |-> h[i]]
  <2>1. Trace(s, 1, g)
    <3>1. g \in [0 .. n -> Register]
      BY <1>2, <1>4, <1>6 DEF Trace
    <3>2. ASSUME NEW i \in 1 .. n
          PROVE  g[i] = crc16_update(g[i - 1], s[i])
      <4>1. i \in 0 .. n /\ i - 1 \in 0 .. n /\ i \in 1 .. n + 2
        BY <1>2
      <4>2. h[i] = crc16_update(h[i - 1], w[i])
        BY <1>4, <1>6, <4>1 DEF Trace
      <4> QED
        BY <1>4, <4>1, <4>2
    <3> HIDE DEF g
    <3> QED
      BY <1>2, <3>1, <3>2 DEF Trace
  <2>2. Ends(s, 0 .. 15, 1, n, h[n])
    <3>1. g[1 - 1] = 0 .. 15 /\ g[n] = h[n]
      BY <1>2, <1>6
    <3> HIDE DEF g
    <3> QED
      BY <2>1, <3>1 DEF Ends
  <2>3. Ends(s, 0 .. 15, 1, n, Crc(s))
    BY <1>2, CrcEnds
  <2>4. 1 \in 1 .. Len(s) /\ n \in 1 - 1 .. Len(s)
    BY <1>2
  <2> QED
    BY <2>2, <2>3, <2>4, EndUnique
<1>8. h[n + 2] = {}
  <2>1. /\ h[n + 1] = crc16_update(h[(n + 1) - 1], w[n + 1])
        /\ h[n + 2] = crc16_update(h[(n + 2) - 1], w[n + 2])
    BY <1>2, <1>4, <1>6 DEF Trace
  <2>2. (n + 1) - 1 = n /\ (n + 2) - 1 = n + 1
    BY <1>2
  <2>3. h[n + 1] = crc16_update(Crc(s), lo) /\ h[n + 2] = crc16_update(h[n + 1], hi)
    BY <1>4, <1>7, <2>1, <2>2
  <2> QED
    BY <1>1, <2>3
<1> QED
  BY <1>1, <1>3, <1>6, <1>8

\* ADU.cpp 25-47, 125-128: one octet received wrong, wherever it is, and in however
\* many bits, gives another checksum.
THEOREM OneOctetWrong ==
    ASSUME NEW s \in Seq(Octet), NEW t \in Seq(Octet), Len(t) = Len(s), NEW k \in 1 .. Len(s),
           \A i \in 1 .. Len(s) : t[i] = s[i] <=> i # k
    PROVE  Crc(t) # Crc(s)
<1>1. PICK n \in Nat : n = Len(s) /\ k \in 1 .. n /\ Len(t) = n
  BY LenProperties
<1>2. s # <<>> /\ t # <<>> /\ n # 0
  BY <1>1, EmptySeq
<1>3. PICK h : Trace(s, 1, h) /\ h[0] = 0 .. 15 /\ h[n] = Crc(s)
  <2>1. Ends(s, 0 .. 15, 1, n, Crc(s))
    BY <1>1, <1>2, CrcEnds
  <2> QED
    BY <2>1 DEF Ends
<1>4. PICK g : Trace(t, 1, g) /\ g[0] = 0 .. 15 /\ g[n] = Crc(t)
  <2>1. Ends(t, 0 .. 15, 1, n, Crc(t))
    BY <1>1, <1>2, CrcEnds
  <2> QED
    BY <2>1 DEF Ends
<1> DEFINE T == {m \in Nat : m <= n => (h[m] = g[m] <=> m < k)}
<1>5. 0 \in T
  <2>1. 0 < k
    BY <1>1
  <2> QED
    BY <1>3, <1>4, <2>1
<1>6. ASSUME NEW m \in Nat, m \in T
      PROVE  m + 1 \in T
  <2> SUFFICES ASSUME m + 1 <= n
               PROVE  h[m + 1] = g[m + 1] <=> m + 1 < k
    OBVIOUS
  <2>1. m + 1 \in 1 .. n /\ (m + 1) - 1 = m /\ m \in 0 .. n /\ m <= n
    OBVIOUS
  <2>2. h[m + 1] = crc16_update(h[m], s[m + 1]) /\ g[m + 1] = crc16_update(g[m], t[m + 1])
    BY <1>1, <1>3, <1>4, <2>1 DEF Trace
  <2>3. h[m] \in Register /\ g[m] \in Register
    BY <1>1, <1>3, <1>4, <2>1 DEF Trace
  <2>4. s[m + 1] \in Octet /\ t[m + 1] \in Octet
    BY <1>1, <2>1, ElementOfSeq
  <2>5. h[m] = g[m] <=> m < k
    BY <1>6, <2>1
  <2>6. t[m + 1] = s[m + 1] <=> m + 1 # k
    BY <1>1, <2>1
  <2>7. CASE m + 1 < k
    BY <1>1, <2>2, <2>5, <2>6, <2>7
  <2>8. CASE m + 1 = k
    <3>1. h[m] = g[m] /\ t[m + 1] # s[m + 1] /\ ~(m + 1 < k)
      BY <1>1, <2>5, <2>6, <2>8
    <3> QED
      BY <2>2, <2>3, <2>4, <3>1, UpdateOneToOne
  <2>9. CASE m + 1 > k
    <3>1. h[m] # g[m] /\ t[m + 1] = s[m + 1] /\ ~(m + 1 < k)
      BY <1>1, <2>5, <2>6, <2>9
    <3> QED
      BY <2>2, <2>3, <2>4, <3>1, UpdateOneToOne
  <2> QED
    BY <1>1, <2>7, <2>8, <2>9
<1>7. n \in T
  <2> HIDE DEF T
  <2> QED
    BY <1>5, <1>6, SetInduction
<1> QED
  BY <1>1, <1>3, <1>4, <1>7

-----------------------------------------------------------------------------
(* The swap *)

\* ADU.cpp 94-106: swapping a frame that has been accepted stays inside the buffer,
\* whatever is in it.  That a refused one is swapped too is another matter.
THEOREM AcceptedInside ==
    ASSUME NEW buffer \in [1 .. MaxSize -> Octet], NEW received \in 0 .. MaxSize
    PROVE  /\ ParseRequest(buffer, received) = "success"  => RequestSwapEnd(buffer) <= MaxSize
           /\ ParseResponse(buffer, received) = "success" => ResponseSwapEnd(buffer) <= MaxSize
<1>1. PICK f : f = FunctionOf(buffer[2])
  OBVIOUS
<1>2. PICK data : data = DataIn(buffer)
  OBVIOUS
<1>3. data[1] \in Octet /\ data[5] \in Octet /\ data[9] \in Octet
  BY <1>2 DEF DataIn, MaxSize
<1>4. ASSUME NEW n \in Octet
      PROVE  n \in Nat /\ n \div 2 \in Nat /\ 2 * (n \div 2) <= n
  BY DEF Octet, MaxOctet
<1>5. ASSUME NEW size \in Nat, ParsePacket(buffer, received, size) = "success"
      PROVE  size + 4 <= MaxSize
  BY <1>5 DEF ParsePacket, MaxSize
<1>6. ParseRequest(buffer, received) = "success" => RequestSwapEnd(buffer) <= MaxSize
  <2> SUFFICES ASSUME ParsePacket(buffer, received, RequestDataSize(f, data)) = "success"
               PROVE  RequestSwapEnd(buffer) <= MaxSize
    BY <1>1, <1>2 DEF ParseRequest
  <2>1. CASE ~ExceptionFlag(buffer[2]) /\ f = "WriteMultipleRegisters"
    <3>1. RequestDataSize(f, data) = 5 + data[5]
      BY <2>1 DEF RequestDataSize
    <3>2. RequestSwapEnd(buffer) = 7 + 2 * (data[5] \div 2)
      <4>1. PICK n \in Nat : n = data[5] \div 2
        BY <1>3, <1>4
      <4>2. RequestSwapEnd(buffer) = SwapEnd(6, n)
        BY <1>1, <1>2, <4>1, <2>1, Zenon DEF RequestSwapEnd
      <4> QED
        BY <4>1, <4>2 DEF SwapEnd
    <3> QED
      BY <1>3, <1>4, <1>5, <3>1, <3>2 DEF MaxSize
  <2>2. CASE ~ExceptionFlag(buffer[2]) /\ f = "ReadWriteMultipleRegisters"
    <3>1. RequestDataSize(f, data) = 9 + data[9]
      BY <2>2 DEF RequestDataSize
    <3>2. RequestSwapEnd(buffer) = 11 + 2 * (data[9] \div 2)
      <4>1. PICK n \in Nat : n = data[9] \div 2
        BY <1>3, <1>4
      <4>2. RequestSwapEnd(buffer) = SwapEnd(10, n)
        BY <1>1, <1>2, <4>1, <2>2, Zenon DEF RequestSwapEnd
      <4> QED
        BY <4>1, <4>2 DEF SwapEnd
    <3> QED
      BY <1>3, <1>4, <1>5, <3>1, <3>2 DEF MaxSize
  <2>3. CASE ExceptionFlag(buffer[2]) \/ f \notin {"WriteMultipleRegisters", "ReadWriteMultipleRegisters"}
    BY <1>1, <2>3 DEF RequestSwapEnd, SwapEnd, MaxSize
  <2> QED
    BY <2>1, <2>2, <2>3
<1>7. ParseResponse(buffer, received) = "success" => ResponseSwapEnd(buffer) <= MaxSize
  <2> DEFINE Long == ~ExceptionFlag(buffer[2])
                        /\ f \in {"ReadHoldingRegisters", "ReadInputRegisters",
                                 "ReadWriteMultipleRegisters"}
  <2>1. CASE Long
    <3>1. ResponseDataSize(f, data) = 1 + data[1]
      BY <2>1 DEF ResponseDataSize
    <3>2. ResponseSwapEnd(buffer) = 3 + 2 * (data[1] \div 2)
      <4>1. PICK n \in Nat : n = data[1] \div 2
        BY <1>3, <1>4
      <4>2. ResponseSwapEnd(buffer) = SwapEnd(2, n)
        BY <1>1, <1>2, <4>1, <2>1, Zenon DEF ResponseSwapEnd
      <4> QED
        BY <4>1, <4>2 DEF SwapEnd
    <3>3. ParseResponse(buffer, received) = ParsePacket(buffer, received, 1 + data[1])
      BY <1>1, <1>2, <2>1, <3>1 DEF ParseResponse
    <3> QED
      BY <1>3, <1>4, <1>5, <3>2, <3>3 DEF MaxSize
  <2>2. CASE ~Long
    BY <1>1, <2>2 DEF ResponseSwapEnd, SwapEnd, MaxSize
  <2> QED
    BY <2>1, <2>2
<1> QED
  BY <1>6, <1>7
=============================================================================
