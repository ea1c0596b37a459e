---------------------------- MODULE Manager_proofs ----------------------------
(***************************************************************************)
(* Proofs about the device manager: for configurations of any devices on   *)
(* any controllers, messages of any kind and a heap of any size that holds *)
(* a request for every device.                                             *)
(***************************************************************************)
EXTENDS Manager, SequenceTheorems, FiniteSetTheorems, TLAPS

-----------------------------------------------------------------------------
(* Lists *)

\* The elements of a list are those at its places.
LEMMA RangeIs ==
    ASSUME NEW S, NEW s \in Seq(S)
    PROVE  /\ Range(s) = {s[i] : i \in 1 .. Len(s)}
           /\ Range(s) \subseteq S
<1>1. DOMAIN s = 1 .. Len(s)
  BY LenProperties
<1>2. Range(s) = {s[i] : i \in 1 .. Len(s)}
  BY <1>1 DEF Range
<1>3. \A i \in 1 .. Len(s) : s[i] \in S
  BY ElementOfSeq
<1> QED
  BY <1>2, <1>3

\* The empty list has none.
LEMMA RangeEmpty == Range(<<>>) = {}
BY DEF Range

\* Appending adds one.
LEMMA RangeAppend ==
    ASSUME NEW S, NEW s \in Seq(S), NEW x \in S
    PROVE  Range(Append(s, x)) = Range(s) \cup {x}
<1>1. /\ Append(s, x) \in Seq(S)
      /\ Len(Append(s, x)) = Len(s) + 1
      /\ \A i \in 1 .. Len(s) : Append(s, x)[i] = s[i]
      /\ Append(s, x)[Len(s) + 1] = x
  BY AppendProperties
<1>2. Range(Append(s, x)) = {Append(s, x)[i] : i \in 1 .. Len(s) + 1}
  BY <1>1, RangeIs
<1>3. Range(s) = {s[i] : i \in 1 .. Len(s)} /\ Len(s) \in Nat
  BY RangeIs, LenProperties
<1> QED
  BY <1>1, <1>2, <1>3

\* The head is an element, and the others are those of the tail.
LEMMA RangeHeadTail ==
    ASSUME NEW S, NEW s \in Seq(S), s # <<>>
    PROVE  /\ Head(s) = s[1]
           /\ Range(s) = {Head(s)} \cup Range(Tail(s))
<1>1. /\ Tail(s) \in Seq(S)
      /\ Len(Tail(s)) = Len(s) - 1
      /\ \A i \in 1 .. Len(s) - 1 : Tail(s)[i] = s[i + 1]
  BY HeadTailProperties
<1>2. Len(s) \in Nat /\ Len(s) # 0
  BY EmptySeq, LenProperties
<1>3. Head(s) = s[1]
  OBVIOUS
<1>4. Range(Tail(s)) = {Tail(s)[i] : i \in 1 .. Len(s) - 1}
  BY <1>1, RangeIs
<1>5. Range(s) = {s[i] : i \in 1 .. Len(s)}
  BY RangeIs
<1>6. Range(Tail(s)) \subseteq Range(s)
  BY <1>1, <1>2, <1>4, <1>5
<1>7. \A i \in 1 .. Len(s) : i = 1 \/ s[i] \in Range(Tail(s))
  <2> SUFFICES ASSUME NEW i \in 1 .. Len(s), i # 1
               PROVE  s[i] \in Range(Tail(s))
    OBVIOUS
  <2>1. i - 1 \in 1 .. Len(s) - 1 /\ (i - 1) + 1 = i
    BY <1>2
  <2>2. Tail(s)[i - 1] = s[i]
    BY <1>1, <2>1
  <2> QED
    BY <1>4, <2>1, <2>2
<1>8. s[1] \in Range(s)
  BY <1>2, <1>5
<1> QED
  BY <1>3, <1>5, <1>6, <1>7, <1>8

\* A list joined to another has the elements of both.
LEMMA RangeConcat ==
    ASSUME NEW S, NEW s \in Seq(S), NEW t \in Seq(S)
    PROVE  Range(s \o t) = Range(s) \cup Range(t)
<1>1. /\ s \o t \in Seq(S)
      /\ Len(s \o t) = Len(s) + Len(t)
      /\ \A i \in 1 .. Len(s) + Len(t) :
            (s \o t)[i] = IF i <= Len(s) THEN s[i] ELSE t[i - Len(s)]
  BY ConcatProperties
<1>2. Len(s) \in Nat /\ Len(t) \in Nat
  BY LenProperties
<1>3. /\ Range(s \o t) = {(s \o t)[i] : i \in 1 .. Len(s) + Len(t)}
      /\ Range(s) = {s[i] : i \in 1 .. Len(s)}
      /\ Range(t) = {t[i] : i \in 1 .. Len(t)}
  BY <1>1, RangeIs
<1>4. Range(s \o t) \subseteq Range(s) \cup Range(t)
  BY <1>1, <1>2, <1>3
<1>5. \A i \in 1 .. Len(s) : s[i] \in Range(s \o t)
  BY <1>1, <1>2, <1>3
<1>6. \A i \in 1 .. Len(t) : t[i] \in Range(s \o t)
  <2> SUFFICES ASSUME NEW i \in 1 .. Len(t)
               PROVE  t[i] \in Range(s \o t)
    OBVIOUS
  <2>1. Len(s) + i \in 1 .. Len(s) + Len(t) /\ ~(Len(s) + i <= Len(s))
        /\ (Len(s) + i) - Len(s) = i
    BY <1>2
  <2>2. (s \o t)[Len(s) + i] = t[i]
    BY <1>1, <2>1
  <2> QED
    BY <1>3, <2>1, <2>2
<1> QED
  BY <1>3, <1>4, <1>5, <1>6

-----------------------------------------------------------------------------
(* The places of the lists of all controllers *)

\* A place is a controller and an index of its list.
LEMMA PlacesAre ==
    ASSUME NEW q
    PROVE  \A p : p \in Places(q) <=>
                      \E c \in Controller : \E i \in DOMAIN q[c] : p = <<c, i>>
<1> SUFFICES ASSUME NEW p
             PROVE  p \in Places(q) <=>
                        \E c \in Controller : \E i \in DOMAIN q[c] : p = <<c, i>>
  OBVIOUS
<1>1. p \in Places(q) <=> \E c \in Controller : p \in {c} \X DOMAIN q[c]
  BY Zenon DEF Places
<1>2. \A c \in Controller : p \in {c} \X DOMAIN q[c] <=> \E i \in DOMAIN q[c] : p = <<c, i>>
  OBVIOUS
<1> QED
  BY <1>1, <1>2

\* Empty lists have no place.
LEMMA PlacesEmpty ==
    ASSUME NEW q, \A c \in Controller : q[c] = <<>>
    PROVE  Places(q) = {}
<1>1. \A c \in Controller : DOMAIN q[c] = {}
  OBVIOUS
<1> QED
  BY <1>1, PlacesAre

\* The places of one list.
LEMMA RowSize ==
    ASSUME NEW c, NEW n \in Nat
    PROVE  IsFiniteSet({c} \X (1 .. n)) /\ Cardinality({c} \X (1 .. n)) = n
<1>1. IsFiniteSet({c}) /\ Cardinality({c}) = 1
  BY FS_Singleton
<1>2. IsFiniteSet(1 .. n) /\ Cardinality(1 .. n) = n
  BY FS_Interval
<1>3. IsFiniteSet({c} \X (1 .. n))
      /\ Cardinality({c} \X (1 .. n)) = Cardinality({c}) * Cardinality(1 .. n)
  BY <1>1, <1>2, FS_Product
<1> QED
  BY <1>1, <1>2, <1>3

\* When the list of one controller changes, there are as many places more or
\* less as that list has.
LEMMA PlacesChange ==
    ASSUME NEW q, NEW n, NEW c \in Controller, IsFiniteSet(Places(q)),
           NEW S, q[c] \in Seq(S), n[c] \in Seq(S),
           \A b \in Controller : b # c => n[b] = q[b]
    PROVE  /\ IsFiniteSet(Places(n))
           /\ Cardinality(Places(q)) \in Nat /\ Cardinality(Places(q)) >= Len(q[c])
           /\ Cardinality(Places(n)) = Cardinality(Places(q)) - Len(q[c]) + Len(n[c])
<1> DEFINE l == Len(q[c])
           m == Len(n[c])
           Row(k) == {c} \X (1 .. k)
           Others == Places(q) \ Row(l)
<1>a. /\ l \in Nat /\ DOMAIN q[c] = 1 .. l
      /\ m \in Nat /\ DOMAIN n[c] = 1 .. m
  BY LenProperties
<1> HIDE DEF l, m
<1>1. /\ IsFiniteSet(Row(l)) /\ Cardinality(Row(l)) = l
      /\ IsFiniteSet(Row(m)) /\ Cardinality(Row(m)) = m
  BY <1>a, RowSize
<1>2. Row(l) \subseteq Places(q)
  <2> SUFFICES ASSUME NEW i \in 1 .. l
               PROVE  <<c, i>> \in Places(q)
    OBVIOUS
  <2> QED
    BY <1>a, PlacesAre
<1>3. \A p \in Others : p \in Places(n) /\ p \notin Row(m)
  <2> SUFFICES ASSUME NEW p \in Places(q), p \notin Row(l)
               PROVE  p \in Places(n) /\ p \notin Row(m)
    OBVIOUS
  <2>1. PICK b \in Controller : \E i \in DOMAIN q[b] : p = <<b, i>>
    BY PlacesAre
  <2>2. PICK i \in DOMAIN q[b] : p = <<b, i>>
    BY <2>1
  <2>3. b # c
    BY <1>a, <2>2
  <2>4. i \in DOMAIN n[b]
    BY <2>2, <2>3
  <2> QED
    BY <2>2, <2>3, <2>4, PlacesAre
<1>4. \A p \in Row(m) : p \in Places(n)
  <2> SUFFICES ASSUME NEW i \in 1 .. m
               PROVE  <<c, i>> \in Places(n)
    OBVIOUS
  <2> QED
    BY <1>a, PlacesAre
<1>5. \A p \in Places(n) : p \in Others \/ p \in Row(m)
  <2> SUFFICES ASSUME NEW p \in Places(n), p \notin Row(m)
               PROVE  p \in Others
    OBVIOUS
  <2>1. PICK b \in Controller : \E i \in DOMAIN n[b] : p = <<b, i>>
    BY PlacesAre
  <2>2. PICK i \in DOMAIN n[b] : p = <<b, i>>
    BY <2>1
  <2>3. b # c
    BY <1>a, <2>2
  <2>4. i \in DOMAIN q[b]
    BY <2>2, <2>3
  <2>5. p \in Places(q) /\ p \notin Row(l)
    BY <2>2, <2>3, <2>4, PlacesAre
  <2> QED
    BY <2>5
<1> HIDE DEF Row
<1>6. Places(n) = Others \cup Row(m) /\ Others \cap Row(m) = {}
  BY <1>3, <1>4, <1>5
<1>7. Places(q) \cap Row(l) = Row(l)
  BY <1>2
<1>8. IsFiniteSet(Others) /\ Cardinality(Others) = Cardinality(Places(q)) - l
  <2>1. /\ IsFiniteSet(Places(q) \ Row(l))
        /\ Cardinality(Places(q) \ Row(l))
              = Cardinality(Places(q)) - Cardinality(Places(q) \cap Row(l))
    BY FS_Difference
  <2>2. Cardinality(Places(q) \cap Row(l)) = l
    BY <1>1, <1>7
  <2> QED
    BY <2>1, <2>2
<1> HIDE DEF Others
<1>9. /\ IsFiniteSet(Places(n))
      /\ Cardinality(Places(n))
            = Cardinality(Others) + Cardinality(Row(m)) - Cardinality(Others \cap Row(m))
  BY <1>1, <1>6, <1>8, FS_Union
<1>10. Cardinality(Others \cap Row(m)) = 0
  BY <1>6, FS_EmptySet
<1>11. /\ Cardinality(Places(q)) \in Nat
       /\ Cardinality(Others) \in Nat
  BY <1>8, FS_CardinalityType
<1>12. Cardinality(Places(n)) = Cardinality(Others) + m
  BY <1>a, <1>1, <1>9, <1>10, <1>11
<1> QED
  BY <1>a, <1>8, <1>9, <1>11, <1>12 DEF l, m

-----------------------------------------------------------------------------
(* Devices to start *)

\* The positions of the devices to start are among those of all devices.
LEMMA DueFinite ==
    ASSUME NEW c, NEW objects
    PROVE  /\ Due(c, objects) \subseteq 1 .. Len(Order)
           /\ Len(Order) \in Nat
           /\ IsFiniteSet(Due(c, objects))
           /\ Cardinality(Due(c, objects)) \in Nat
<1>1. Order \in Seq(Range(Order))
  BY OrderAssumption DEF OrderAssumption
<1>2. Len(Order) \in Nat /\ DOMAIN Order = 1 .. Len(Order)
  BY <1>1, LenProperties
<1>3. Due(c, objects) \subseteq 1 .. Len(Order)
  BY <1>2 DEF Due
<1>4. IsFiniteSet(1 .. Len(Order))
  BY <1>2, FS_Interval
<1>5. IsFiniteSet(Due(c, objects)) /\ Cardinality(Due(c, objects)) \in Nat
  BY <1>3, <1>4, FS_Subset, FS_CardinalityType
<1> QED
  BY <1>2, <1>3, <1>5

\* Of a finite set of positions, every number up to its size is the rank of
\* exactly one.
LEMMA Ranks ==
    ASSUME NEW due, due \subseteq Nat, IsFiniteSet(due)
    PROVE  LET Rank(i) == Cardinality({j \in due : j <= i})
           IN  /\ \A i \in due : Rank(i) \in 1 .. Cardinality(due)
               /\ \A i, j \in due : Rank(i) = Rank(j) => i = j
               /\ \A k \in 1 .. Cardinality(due) : \E i \in due : Rank(i) = k
<1> DEFINE Upto(i) == {j \in due : j <= i}
           Rank(i) == Cardinality(Upto(i))
           n       == Cardinality(due)
<1>1. n \in Nat
  BY FS_CardinalityType
<1>2. \A i \in due : /\ IsFiniteSet(Upto(i))
                     /\ Rank(i) \in Nat
                     /\ Rank(i) <= n
  BY FS_Subset, FS_CardinalityType
<1>3. \A i \in due : Rank(i) # 0
  <2> SUFFICES ASSUME NEW i \in due, Rank(i) = 0
               PROVE  FALSE
    OBVIOUS
  <2>1. Upto(i) = {}
    BY <1>2, FS_EmptySet
  <2>2. i \in Upto(i)
    OBVIOUS
  <2> QED
    BY <2>1, <2>2
<1>4. \A i \in due : Rank(i) \in 1 .. n
  <2> SUFFICES ASSUME NEW i \in due
               PROVE  Rank(i) \in 1 .. n
    OBVIOUS
  <2>1. Rank(i) \in Nat /\ Rank(i) <= n /\ Rank(i) # 0
    BY <1>2, <1>3
  <2> QED
    BY <1>1, <2>1
<1>5. \A i, j \in due : i < j => Rank(i) # Rank(j)
  <2> SUFFICES ASSUME NEW i \in due, NEW j \in due, i < j, Rank(i) = Rank(j)
               PROVE  FALSE
    OBVIOUS
  <2>a. i \in Nat /\ j \in Nat /\ \A k \in due : k \in Nat
    OBVIOUS
  <2>b. \A k \in due : k <= i => k <= j
    BY <2>a
  <2>1. Upto(i) \in SUBSET Upto(j)
    BY <2>b
  <2>2. j \in Upto(j) /\ j \notin Upto(i)
    OBVIOUS
  <2>3. Upto(j) = Upto(i)
    <3> HIDE DEF Upto
    <3> QED
      BY <1>2, <2>1, FS_Subset
  <2> QED
    BY <2>2, <2>3
<1>6. \A i, j \in due : Rank(i) = Rank(j) => i = j
  <2> HIDE DEF Rank
  <2> QED
    BY <1>5
<1>7. \A k \in 1 .. n : \E i \in due : Rank(i) = k
  <2> DEFINE R == [i \in due |-> Rank(i)]
  <2>1. R \in Injection(due, 1 .. n)
    <3> HIDE DEF Rank, n
    <3>1. R \in [due -> 1 .. n]
      BY <1>4
    <3>2. \A i, j \in DOMAIN R : R[i] = R[j] => i = j
      BY <1>6
    <3> QED
      BY <3>1, <3>2 DEF Injection, IsInjective
  <2>2. IsFiniteSet(1 .. n) /\ Cardinality(1 .. n) = n
    <3> HIDE DEF n
    <3> QED
      BY <1>1, FS_Interval
  <2>3. R \in Surjection(due, 1 .. n)
    <3> HIDE DEF R
    <3> QED
      BY <2>1, <2>2, FS_Injection
  <2>4. \A k \in 1 .. n : \E i \in due : R[i] = k
    BY <2>3 DEF Surjection
  <2> QED
    BY <2>4
<1> QED
  BY <1>4, <1>6, <1>7

\* ToStart lists exactly the devices that are due, each of them once.
LEMMA ToStartIs ==
    ASSUME NEW c, NEW objects
    PROVE  /\ ToStart(c, objects) \in Seq(Device)
           /\ Len(ToStart(c, objects)) = Cardinality(Due(c, objects))
           /\ \A k \in 1 .. Len(ToStart(c, objects)) : \E i \in Due(c, objects) :
                 ToStart(c, objects)[k] = Order[i]
           /\ \A i \in Due(c, objects) : \E k \in 1 .. Len(ToStart(c, objects)) :
                 ToStart(c, objects)[k] = Order[i]
           /\ \A k, l \in 1 .. Len(ToStart(c, objects)) :
                 ToStart(c, objects)[k] = ToStart(c, objects)[l] => k = l
<1> DEFINE due     == Due(c, objects)
           n       == Cardinality(due)
           Rank(i) == Cardinality({j \in due : j <= i})
           At(k)   == CHOOSE i \in due : Rank(i) = k
           s       == ToStart(c, objects)
<1>1. due \subseteq 1 .. Len(Order) /\ due \subseteq Nat /\ IsFiniteSet(due) /\ n \in Nat
  BY DueFinite
<1>2. s = [k \in 1 .. n |-> Order[At(k)]]
  BY DEF ToStart
<1>3. /\ \A i \in due : Rank(i) \in 1 .. n
      /\ \A i, j \in due : Rank(i) = Rank(j) => i = j
      /\ \A k \in 1 .. n : \E i \in due : Rank(i) = k
  <2> HIDE DEF due
  <2> QED
    BY <1>1, Ranks
<1>4. DOMAIN Order = 1 .. Len(Order) /\ \A i \in DOMAIN Order : Order[i] \in Device
  <2>1. Order \in Seq(Range(Order))
    BY OrderAssumption DEF OrderAssumption
  <2> QED
    BY <2>1, LenProperties DEF Device, Range
<1>5. \A i, j \in due : Order[i] = Order[j] => i = j
  BY <1>1, <1>4, OrderAssumption DEF OrderAssumption, IsInjective
<1>6. \A k \in 1 .. n : At(k) \in due /\ Rank(At(k)) = k
  <2> HIDE DEF Rank, due, n
  <2> QED
    BY <1>3
<1>7. \A i \in due : At(Rank(i)) = i
  <2> HIDE DEF Rank, due, n, At
  <2> QED
    BY <1>3, <1>6
<1>8. s \in [1 .. n -> Device]
  <2> HIDE DEF At, due, s
  <2>1. \A k \in 1 .. n : Order[At(k)] \in Device
    BY <1>1, <1>4, <1>6
  <2> QED
    BY <1>2, <2>1
<1>9. s \in Seq(Device) /\ Len(s) = n
  <2> HIDE DEF s, due, n
  <2>1. s \in Seq(Device)
    BY <1>1, <1>8, SeqDef
  <2> QED
    BY <1>1, <1>8, <2>1, LenProperties
<1>10. \A k \in 1 .. n : \E i \in due : s[k] = Order[i]
  <2> HIDE DEF At, due, s, n
  <2> QED
    BY <1>2, <1>6
<1>11. \A i \in due : \E k \in 1 .. n : s[k] = Order[i]
  <2> SUFFICES ASSUME NEW i \in due
               PROVE  \E k \in 1 .. n : s[k] = Order[i]
    OBVIOUS
  <2>1. Rank(i) \in 1 .. n /\ At(Rank(i)) = i
    BY <1>3, <1>7
  <2> HIDE DEF At, due, s, n, Rank
  <2>2. s[Rank(i)] = Order[i]
    BY <1>2, <2>1
  <2> QED
    BY <2>1, <2>2
<1>12. \A k, l \in 1 .. n : s[k] = s[l] => k = l
  <2> HIDE DEF At, due, s, n, Rank
  <2> SUFFICES ASSUME NEW k \in 1 .. n, NEW l \in 1 .. n, s[k] = s[l]
               PROVE  k = l
    OBVIOUS
  <2>1. Order[At(k)] = Order[At(l)]
    BY <1>2
  <2>2. At(k) = At(l)
    BY <1>5, <1>6, <2>1
  <2> QED
    BY <1>6, <2>2
<1> QED
  BY <1>9, <1>10, <1>11, <1>12

\* The devices a controller starts are those that are due.
LEMMA Starters ==
    ASSUME NEW c, NEW objects
    PROVE  \A d : d \in Range(ToStart(c, objects)) <=>
              /\ d \in Device /\ d \in DOMAIN objects
              /\ objects[d].controller = c
              /\ objects[d].class = "relay"
              /\ objects[d].state \notin {"normal", "starting"}
<1> DEFINE s == ToStart(c, objects)
           due == Due(c, objects)
<1>1. /\ s \in Seq(Device)
      /\ \A k \in 1 .. Len(s) : \E i \in due : s[k] = Order[i]
      /\ \A i \in due : \E k \in 1 .. Len(s) : s[k] = Order[i]
  BY ToStartIs
<1>2. Range(s) = {s[k] : k \in 1 .. Len(s)} /\ Range(s) \subseteq Device
  <2> HIDE DEF s
  <2> QED
    BY <1>1, RangeIs
<1>3. Range(s) = {Order[i] : i \in due}
  <2> HIDE DEF s, due
  <2> QED
    BY <1>1, <1>2
<1>4. Device = {Order[i] : i \in DOMAIN Order}
  BY DEF Device, Range
<1>5. \A i \in DOMAIN Order : i \in due <=>
         /\ Order[i] \in DOMAIN objects
         /\ objects[Order[i]].controller = c
         /\ objects[Order[i]].class = "relay"
         /\ objects[Order[i]].state \notin {"normal", "starting"}
  BY DEF Due
<1>6. due \subseteq DOMAIN Order
  BY DEF Due
<1> HIDE DEF s, due
<1> SUFFICES ASSUME NEW d
             PROVE  d \in Range(s) <=>
                       /\ d \in Device /\ d \in DOMAIN objects
                       /\ objects[d].controller = c
                       /\ objects[d].class = "relay"
                       /\ objects[d].state \notin {"normal", "starting"}
  BY DEF s
<1>7. ASSUME d \in Range(s)
      PROVE  /\ d \in Device /\ d \in DOMAIN objects
             /\ objects[d].controller = c
             /\ objects[d].class = "relay"
             /\ objects[d].state \notin {"normal", "starting"}
  <2>1. PICK i \in due : d = Order[i]
    BY <1>3, <1>7
  <2> QED
    BY <1>2, <1>5, <1>6, <1>7, <2>1
<1>8. ASSUME /\ d \in Device /\ d \in DOMAIN objects
             /\ objects[d].controller = c
             /\ objects[d].class = "relay"
             /\ objects[d].state \notin {"normal", "starting"}
      PROVE  d \in Range(s)
  <2>1. PICK i \in DOMAIN Order : d = Order[i]
    BY <1>4, <1>8
  <2>2. i \in due
    BY <1>5, <1>8, <2>1
  <2> QED
    BY <1>3, <2>1, <2>2
<1> QED
  BY <1>7, <1>8

\* The devices that are started: the first of those due, as many as the heap
\* has room for.
LEMMA StartedIs ==
    ASSUME NEW c, NEW objects, NEW n \in Nat
    PROVE  /\ Started(c, objects, n) \in Seq(Device)
           /\ Len(Started(c, objects, n)) <= n
           /\ DOMAIN Started(c, objects, n) \subseteq DOMAIN ToStart(c, objects)
           /\ Range(Started(c, objects, n)) \subseteq Range(ToStart(c, objects))
<1> DEFINE due == ToStart(c, objects)
           m   == IF Len(due) < n THEN Len(due) ELSE n
<1>1. due \in Seq(Device) /\ Len(due) \in Nat
  BY ToStartIs, LenProperties
<1>2. m \in Nat /\ m <= n /\ m <= Len(due)
  BY <1>1
<1>3. Started(c, objects, n) = SubSeq(due, 1, m)
  BY DEF Started
<1>4. \A i \in 1 .. m : due[i] \in Device
  <2> HIDE DEF due, m
  <2> QED
    BY <1>1, <1>2, ElementOfSeq
<1>5. /\ SubSeq(due, 1, m) \in Seq(Device)
      /\ Len(SubSeq(due, 1, m)) = m
      /\ \A i \in 1 .. m : SubSeq(due, 1, m)[i] = due[i]
  <2> HIDE DEF due, m
  <2>1. /\ SubSeq(due, 1, m) \in Seq(Device)
        /\ Len(SubSeq(due, 1, m)) = IF 1 <= m THEN m - 1 + 1 ELSE 0
        /\ \A i \in 1 .. m - 1 + 1 : SubSeq(due, 1, m)[i] = due[1 + i - 1]
    BY <1>2, <1>4, SubSeqProperties
  <2>2. m - 1 + 1 = m /\ \A i \in 1 .. m : 1 + i - 1 = i
    BY <1>2
  <2>3. (IF 1 <= m THEN m ELSE 0) = m
    BY <1>2
  <2> QED
    BY <2>1, <2>2, <2>3
<1>6. Range(SubSeq(due, 1, m)) = {SubSeq(due, 1, m)[i] : i \in 1 .. m}
  <2> HIDE DEF due, m
  <2> QED
    BY <1>5, RangeIs
<1>7. Range(due) = {due[i] : i \in 1 .. Len(due)}
  <2> HIDE DEF due
  <2> QED
    BY <1>1, RangeIs
<1>8. Range(SubSeq(due, 1, m)) \subseteq Range(due)
  <2> HIDE DEF due, m
  <2> QED
    BY <1>1, <1>2, <1>5, <1>6, <1>7
<1>9. DOMAIN SubSeq(due, 1, m) \subseteq DOMAIN due
  <2> HIDE DEF due, m
  <2>1. DOMAIN SubSeq(due, 1, m) = 1 .. m /\ DOMAIN due = 1 .. Len(due)
    BY <1>1, <1>5, LenProperties
  <2> QED
    BY <1>1, <1>2, <2>1
<1> HIDE DEF due, m
<1> QED
  BY <1>2, <1>3, <1>5, <1>8, <1>9 DEF due

\* The devices that are due have finitely many places in the lists of theirs.
LEMMA DuePlaces ==
    ASSUME NEW objects
    PROVE  LET begun == [c \in Controller |-> ToStart(c, objects)]
           IN  IsFiniteSet(Places(begun))
<1> DEFINE begun == [c \in Controller |-> ToStart(c, objects)]
           At(p) == begun[p[1]][p[2]]
           f     == [p \in Places(begun) |-> At(p)]
<1>1. Len(Order) \in Nat /\ DOMAIN Order = 1 .. Len(Order)
  <2>1. Order \in Seq(Range(Order))
    BY OrderAssumption DEF OrderAssumption
  <2> QED
    BY <2>1, LenProperties
<1>2. IsFiniteSet(Device)
  <2>1. Order \in Surjection(1 .. Len(Order), Device)
    <3>1. Order \in [1 .. Len(Order) -> Device]
      <4>1. Order \in Seq(Device)
        BY OrderAssumption DEF OrderAssumption, Device
      <4> QED
        BY <4>1, LenProperties
    <3>2. \A d \in Device : \E i \in 1 .. Len(Order) : Order[i] = d
      BY <1>1 DEF Device, Range
    <3> QED
      BY <3>1, <3>2 DEF Surjection
  <2>2. IsFiniteSet(1 .. Len(Order))
    <3> DEFINE n == Len(Order)
    <3>1. n \in Nat
      BY <1>1
    <3> HIDE DEF n
    <3>2. IsFiniteSet(1 .. n)
      BY <3>1, FS_Interval
    <3> QED
      BY <3>2 DEF n
  <2> QED
    BY <2>1, <2>2, FS_Surjection
<1>3. \A p \in Places(begun) :
         /\ p[1] \in Controller
         /\ p[2] \in 1 .. Len(ToStart(p[1], objects))
         /\ p = <<p[1], p[2]>>
         /\ At(p) = ToStart(p[1], objects)[p[2]]
  <2> SUFFICES ASSUME NEW p \in Places(begun)
               PROVE  /\ p[1] \in Controller
                      /\ p[2] \in 1 .. Len(ToStart(p[1], objects))
                      /\ p = <<p[1], p[2]>>
                      /\ At(p) = ToStart(p[1], objects)[p[2]]
    OBVIOUS
  <2>1. PICK c \in Controller : \E i \in DOMAIN begun[c] : p = <<c, i>>
    <3> HIDE DEF begun
    <3> QED
      BY PlacesAre
  <2>2. PICK i \in DOMAIN begun[c] : p = <<c, i>>
    BY <2>1
  <2>3. begun[c] = ToStart(c, objects)
    OBVIOUS
  <2>4. DOMAIN ToStart(c, objects) = 1 .. Len(ToStart(c, objects))
    BY ToStartIs, LenProperties
  <2> HIDE DEF begun
  <2> QED
    BY <2>2, <2>3, <2>4
<1>4. \A p \in Places(begun) : At(p) \in Device /\ objects[At(p)].controller = p[1]
  <2> SUFFICES ASSUME NEW p \in Places(begun)
               PROVE  At(p) \in Device /\ objects[At(p)].controller = p[1]
    OBVIOUS
  <2> DEFINE s == ToStart(p[1], objects)
  <2>1. s \in Seq(Device)
    BY ToStartIs
  <2>2. Range(s) = {s[k] : k \in 1 .. Len(s)}
    <3> HIDE DEF s
    <3> QED
      BY <2>1, RangeIs
  <2>3. At(p) \in Range(s)
    <3> HIDE DEF s, At, begun
    <3> USE DEF s
    <3> QED
      BY <1>3, <2>2
  <2> HIDE DEF At, begun
  <2> QED
    BY <2>3, Starters
<1>5. \A p, r \in Places(begun) : At(p) = At(r) => p = r
  <2> SUFFICES ASSUME NEW p \in Places(begun), NEW r \in Places(begun), At(p) = At(r)
               PROVE  p = r
    OBVIOUS
  <2> HIDE DEF At, begun
  <2>1. p[1] = r[1]
    BY <1>4
  <2>2. ToStart(p[1], objects)[p[2]] = ToStart(p[1], objects)[r[2]]
    BY <1>3, <2>1
  <2>3. p[2] = r[2]
    BY <1>3, <2>1, <2>2, ToStartIs
  <2> QED
    BY <1>3, <2>1, <2>3
<1>6. f \in Injection(Places(begun), Device)
  <2> HIDE DEF At, begun
  <2>1. f \in [Places(begun) -> Device]
    BY <1>4
  <2>2. \A p, r \in DOMAIN f : f[p] = f[r] => p = r
    BY <1>5
  <2> QED
    BY <2>1, <2>2 DEF Injection, IsInjective
<1>7. IsFiniteSet(Places(begun))
  <2> HIDE DEF f, begun
  <2> QED
    BY <1>2, <1>6, FS_Injection
<1> HIDE DEF begun
<1> QED
  BY <1>7 DEF begun

-----------------------------------------------------------------------------
(* The inductive invariant *)

\* The objects and requests there can be.
RequestType == [device : Device, epoch : 0 .. 1, command : Command, nodes : SUBSET Nat]

\* What is left to read of a message.
Unread == [form : {"devices", "devnodes", "single"}, command : Command, elements : Seq(Element)]

Typed ==
    /\ DOMAIN devices \subseteq Device
    /\ devices \in [DOMAIN devices -> Object]
    /\ queue \in [Controller -> Seq(RequestType)]
    /\ built \in Seq(RequestType)
    /\ restart \in [Controller -> BOOLEAN]
    /\ phase \in {"idle", "building", "submitting"}
    /\ output \in [Device -> SUBSET Nat]
    /\ epoch \in 0 .. 1

\* Requests are built only inside handleMessage(), from the ids and the
\* elements its message has left.
Reading ==
    /\ phase = "idle" => built = <<>>
    /\ phase # "idle" => message \in Unread
    /\ phase # "idle" /\ message.form = "devices" =>
          \A e \in Range(message.elements) : e.command = "undefined" /\ e.all

\* The objects are those of the last begin().
Current ==
    \A d \in DOMAIN devices : LET o == devices[d] IN
        /\ o.epoch = epoch
        /\ o.known \subseteq o.nodes /\ o.states \subseteq o.nodes
        /\ o.class = "light" => 0 \in o.nodes

Belongs(r) ==
    /\ r.device \in DOMAIN devices
    /\ devices[r.device].epoch = r.epoch
    /\ r.nodes \subseteq devices[r.device].nodes

\* A request is for an object of its configuration, and waits in its queue; a
\* light's request never waits.
Owners ==
    /\ \A r \in Requests : Belongs(r)
    /\ \A c \in Controller : \A r \in Range(queue[c]) :
          devices[r.device].controller = c /\ devices[r.device].class = "relay"

Heap ==
    /\ allocated \in 0 .. MaxRequests
    /\ IsFiniteSet(Places(queue))
    /\ Owned

Base == Typed /\ Reading /\ Current /\ Owners /\ Heap

\* The requests that wait for the controller of d.
Line(d) == queue[devices[d].controller]

Asked(d) == \E r \in Range(Line(d)) : r.device = d /\ r.command = "query"

Synced(d) == LET o == devices[d] IN o.known = o.nodes /\ o.states = output[d] \cap o.nodes

\* What is stored of a relay board at rest is what its relays are, unless a
\* query is still to be answered.
Knows == \A d \in DOMAIN devices :
    devices[d].class = "relay" /\ devices[d].state \in {"starting", "normal"} =>
        Asked(d) \/ (devices[d].state = "normal" /\ Synced(d))

Switches(r, p) == r.device = p[1] /\ p[2] \in r.nodes /\ r.command \in {"on", "off", "toggle"}

\* Some request in the list q switches p, and none behind it does otherwise.
Ends(q, p, to) == \E i \in DOMAIN q :
    /\ Switches(q[i], p)
    /\ \A j \in DOMAIN q : j >= i /\ Switches(q[j], p) => q[j].command = to

\* No request in the list q switches p.
Free(q, p) == \A r \in Range(q) : ~Switches(r, p)

\* The node p will be submitted, or will end as the toggle has it when the
\* queue is done, or is so already.
Built(p)    == \E r \in Range(built) : Switches(r, p)
Done(p, to) == Free(Line(p[1]), p) /\ (p[2] \in output[p[1]] <=> to = "on")

Settled(p, to) == Built(p) \/ Ends(Line(p[1]), p, to) \/ Done(p, to)

Settles(to) ==
    /\ toggled.to \in {to, "either"}
    /\ \A r \in Range(built) : r.command = to
    /\ \A p \in toggled.nodes : Settled(p, to)

Resolved ==
    /\ toggled \in [nodes : SUBSET ((DOMAIN devices) \X Nat), to : {"on", "off", "either"}]
    /\ phase = "building" => toggled.nodes = {}
    /\ toggled.nodes # {} => \E to \in {"on", "off"} : Settles(to)

IInv == Base /\ Knows /\ Resolved

-----------------------------------------------------------------------------
(* Objects and queries *)

\* The queries for the devices ds are one request for each of them, in order.
LEMMA QueriesAre ==
    ASSUME NEW ds \in Seq(Device), NEW objects,
           \A d \in Range(ds) : objects[d].epoch \in 0 .. 1 /\ objects[d].nodes \subseteq Nat
    PROVE  /\ Queries(ds, objects) \in Seq(RequestType)
           /\ Len(Queries(ds, objects)) = Len(ds)
           /\ DOMAIN Queries(ds, objects) = DOMAIN ds
           /\ Range(Queries(ds, objects)) = {Query(d, objects) : d \in Range(ds)}
<1> DEFINE q == Queries(ds, objects)
<1>1. Len(ds) \in Nat /\ DOMAIN ds = 1 .. Len(ds)
  BY LenProperties
<1>2. q = [i \in 1 .. Len(ds) |-> Query(ds[i], objects)]
  BY <1>1 DEF Queries
<1>3. Range(ds) = {ds[i] : i \in 1 .. Len(ds)} /\ Range(ds) \subseteq Device
  BY RangeIs
<1>4. \A d \in Range(ds) : Query(d, objects) \in RequestType
  BY <1>3 DEF Query, RequestType, Command
<1>5. q \in [1 .. Len(ds) -> RequestType]
  <2> HIDE DEF q
  <2> QED
    BY <1>2, <1>3, <1>4
<1>6. q \in Seq(RequestType) /\ Len(q) = Len(ds) /\ DOMAIN q = DOMAIN ds
  <2> HIDE DEF q
  <2>1. q \in Seq(RequestType)
    BY <1>1, <1>5, SeqDef
  <2> QED
    BY <1>1, <1>5, <2>1, LenProperties
<1>7. Range(q) = {q[i] : i \in 1 .. Len(ds)}
  <2> HIDE DEF q
  <2> QED
    BY <1>6, RangeIs
<1>8. Range(q) = {Query(d, objects) : d \in Range(ds)}
  <2> HIDE DEF q
  <2> QED
    BY <1>2, <1>3, <1>7
<1> QED
  BY <1>6, <1>8

\* A query is for its device as the device is.
LEMMA QueryIs ==
    ASSUME NEW d, NEW objects
    PROVE  /\ Query(d, objects).device = d
           /\ Query(d, objects).epoch = objects[d].epoch
           /\ Query(d, objects).command = "query"
           /\ Query(d, objects).nodes = objects[d].nodes
BY DEF Query

\* Starting changes the state of the devices that start, and nothing else.
LEMMA StartingIs ==
    ASSUME NEW S, NEW objects, objects \in [DOMAIN objects -> Object]
    PROVE  /\ DOMAIN Starting(S, objects) = DOMAIN objects
           /\ Starting(S, objects) \in [DOMAIN objects -> Object]
           /\ \A d \in DOMAIN objects : LET n == Starting(S, objects)[d] IN
                 /\ n.controller = objects[d].controller /\ n.class = objects[d].class
                 /\ n.nodes = objects[d].nodes /\ n.epoch = objects[d].epoch
                 /\ n.known = objects[d].known /\ n.states = objects[d].states
                 /\ n.state = IF d \in S THEN "starting" ELSE objects[d].state
<1> DEFINE n == Starting(S, objects)
<1>1. DOMAIN n = DOMAIN objects
  BY DEF Starting
<1>2. \A d \in DOMAIN objects :
         n[d] = IF d \in S THEN [objects[d] EXCEPT !.state = "starting"] ELSE objects[d]
  BY DEF Starting
<1>3. \A d \in DOMAIN objects : objects[d] \in Object
  OBVIOUS
<1>4. \A o \in Object : [o EXCEPT !.state = "starting"] \in Object
  BY DEF Object
<1>5. \A d \in DOMAIN objects : n[d] \in Object
  BY <1>2, <1>3, <1>4
<1>6. n \in [DOMAIN objects -> Object]
  <2>1. n = [d \in DOMAIN objects |-> n[d]]
    BY DEF Starting
  <2> HIDE DEF n
  <2> QED
    BY <1>5, <2>1
<1>7. \A d \in DOMAIN objects :
         /\ n[d].controller = objects[d].controller /\ n[d].class = objects[d].class
         /\ n[d].nodes = objects[d].nodes /\ n[d].epoch = objects[d].epoch
         /\ n[d].known = objects[d].known /\ n[d].states = objects[d].states
         /\ n[d].state = IF d \in S THEN "starting" ELSE objects[d].state
  <2> SUFFICES ASSUME NEW d \in DOMAIN objects
               PROVE  /\ n[d].controller = objects[d].controller
                      /\ n[d].class = objects[d].class
                      /\ n[d].nodes = objects[d].nodes /\ n[d].epoch = objects[d].epoch
                      /\ n[d].known = objects[d].known /\ n[d].states = objects[d].states
                      /\ n[d].state = IF d \in S THEN "starting" ELSE objects[d].state
    OBVIOUS
  <2>1. objects[d] \in Object
    BY <1>3
  <2> HIDE DEF n
  <2> QED
    BY <1>2, <2>1 DEF Object
<1> QED
  BY <1>1, <1>6, <1>7

\* The objects a configuration creates.
LEMMA CreatedIs ==
    ASSUME NEW f \in Configs, NEW n \in 0 .. 1
    PROVE  /\ DOMAIN Created(f, n) \subseteq Device
           /\ Created(f, n) \in [DOMAIN Created(f, n) -> Object]
           /\ \A d \in DOMAIN Created(f, n) : LET o == Created(f, n)[d] IN
                 /\ o.state = "stopped" /\ o.known = {} /\ o.states = {} /\ o.epoch = n
                 /\ o.class = "light" => 0 \in o.nodes
<1> DEFINE new == Created(f, n)
<1>1. DOMAIN f \subseteq Device /\ \A d \in DOMAIN f : f[d] \in Entry
  BY ConfigAssumption DEF ConfigAssumption
<1>2. DOMAIN new = {d \in DOMAIN f : Constructed(f[d]) /\ Initialised(f[d])}
  BY DEF Created
<1>3. \A d \in DOMAIN new : new[d] = NewObject(f[d], n)
  BY DEF Created
<1>4. \A e \in Entry : NodesOf(e) \subseteq Nat /\ (e.class = "light" => 0 \in NodesOf(e))
  <2> SUFFICES ASSUME NEW e \in Entry
               PROVE  NodesOf(e) \subseteq Nat /\ (e.class = "light" => 0 \in NodesOf(e))
    OBVIOUS
  <2>1. e.count \in Nat /\ MaxChannels \in Nat
    BY HeapAssumption DEF Entry, HeapAssumption
  <2> QED
    BY <2>1 DEF NodesOf
<1>5. \A e \in Entry : Constructed(e) => NewObject(e, n) \in Object
  <2> SUFFICES ASSUME NEW e \in Entry, Constructed(e)
               PROVE  NewObject(e, n) \in Object
    OBVIOUS
  <2>1. e.controller \in Controller /\ e.class \in {"relay", "light"}
    BY DEF Constructed, Entry
  <2>2. NodesOf(e) \in SUBSET Nat
    BY <1>4
  <2> QED
    BY <2>1, <2>2 DEF NewObject, Object
<1>6. \A d \in DOMAIN new : d \in DOMAIN f /\ f[d] \in Entry /\ Constructed(f[d])
  BY <1>1, <1>2
<1>7. new \in [DOMAIN new -> Object]
  <2>1. new = [d \in DOMAIN new |-> new[d]]
    BY DEF Created
  <2>2. \A d \in DOMAIN new : new[d] \in Object
    <3> HIDE DEF new
    <3> QED
      BY <1>3, <1>5, <1>6
  <2> HIDE DEF new
  <2> QED
    BY <2>1, <2>2
<1>8. \A d \in DOMAIN new :
         /\ new[d].state = "stopped" /\ new[d].known = {}
         /\ new[d].states = {} /\ new[d].epoch = n
         /\ new[d].class = "light" => 0 \in new[d].nodes
  <2> SUFFICES ASSUME NEW d \in DOMAIN new
               PROVE  /\ new[d].state = "stopped" /\ new[d].known = {}
                      /\ new[d].states = {} /\ new[d].epoch = n
                      /\ new[d].class = "light" => 0 \in new[d].nodes
    OBVIOUS
  <2>1. new[d] = NewObject(f[d], n) /\ f[d] \in Entry
    BY <1>3, <1>6
  <2>2. f[d].class = "light" => 0 \in NodesOf(f[d])
    BY <1>4, <2>1
  <2> HIDE DEF new
  <2> QED
    BY <2>1, <2>2 DEF NewObject
<1>9. DOMAIN new \subseteq Device
  BY <1>1, <1>2
<1> QED
  BY <1>7, <1>8, <1>9

\* What the start of controller c can give queries to is typed.
LEMMA Startable ==
    ASSUME NEW c, NEW objects, objects \in [DOMAIN objects -> Object]
    PROVE  \A d \in Range(ToStart(c, objects)) :
              objects[d].epoch \in 0 .. 1 /\ objects[d].nodes \subseteq Nat
<1> SUFFICES ASSUME NEW d \in Range(ToStart(c, objects))
             PROVE  objects[d].epoch \in 0 .. 1 /\ objects[d].nodes \subseteq Nat
  OBVIOUS
<1>1. d \in DOMAIN objects
  BY Starters
<1>2. objects[d] \in Object
  BY <1>1
<1> QED
  BY <1>2 DEF Object

\* Lists of the same lengths have the same places.
LEMMA PlacesSame ==
    ASSUME NEW p, NEW q, \A c \in Controller : DOMAIN p[c] = DOMAIN q[c]
    PROVE  Places(p) = Places(q)
BY DEF Places

-----------------------------------------------------------------------------
(* begin() *)

\* After begin() a query to each board of the new configuration that is starting
\* is all that the queues have; the heap had no room for those of the others.
LEMMA BeginIs ==
    ASSUME Base, NEW f \in Configs, Begin(f)
    PROVE  /\ epoch' \in 0 .. 1 /\ built = <<>> /\ built' = <<>>
           /\ phase' = "idle" /\ toggled' = NoToggle
           /\ DOMAIN devices' \subseteq Device
           /\ devices' \in [DOMAIN devices' -> Object]
           /\ \A d \in DOMAIN devices' :
                 /\ devices'[d].known = {} /\ devices'[d].states = {}
                 /\ devices'[d].epoch = epoch'
                 /\ devices'[d].class = "light" => 0 \in devices'[d].nodes
                 /\ devices'[d].state \in {"starting", "stopped"}
           /\ queue' \in [Controller -> Seq(RequestType)]
           /\ \A c \in Controller : \A r \in Range(queue'[c]) :
                 /\ r.device \in DOMAIN devices' /\ r.command = "query"
                 /\ devices'[r.device].controller = c /\ devices'[r.device].class = "relay"
                 /\ devices'[r.device].epoch = r.epoch /\ devices'[r.device].nodes = r.nodes
           /\ \A d \in DOMAIN devices' : devices'[d].state = "starting" =>
                 \E r \in Range(queue'[devices'[d].controller]) :
                    r.device = d /\ r.command = "query"
           /\ IsFiniteSet(Places(queue'))
           /\ allocated' = Cardinality(Places(queue')) /\ allocated' \in 0 .. MaxRequests
           /\ output' \in [Device -> SUBSET Nat]
           /\ restart' \in [Controller -> BOOLEAN]
<1> DEFINE n   == 1 - epoch
           new == Created(f, n)
<1>0. PICK room \in [Controller -> 0 .. MaxRequests] :
         LET begun == [c \in Controller |-> Started(c, new, room[c])] IN
         /\ allocated + Cardinality(Places(begun)) <= MaxRequests
         /\ epoch' = n
         /\ devices' = Starting(UNION {Range(begun[c]) : c \in Controller}, new)
         /\ queue' = [c \in Controller |-> queue[c] \o Queries(begun[c], new)]
         /\ allocated' = allocated + Cardinality(Places(begun))
         /\ restart' = [c \in Controller |-> Len(begun[c]) < Len(ToStart(c, new))]
         /\ output' = [d \in Device |->
               IF d \in DOMAIN new /\ new[d].class = "relay" THEN output[d] ELSE {}]
         /\ toggled' = NoToggle
  BY Zenon DEF Begin, BeginWith
<1> DEFINE start(c) == Started(c, new, room[c])
           begun    == [c \in Controller |-> start(c)]
           S        == UNION {Range(begun[c]) : c \in Controller}
<1>1. n \in 0 .. 1
  BY DEF Base, Typed
<1>2. /\ DOMAIN new \subseteq Device
      /\ new \in [DOMAIN new -> Object]
      /\ \A d \in DOMAIN new :
            /\ new[d].state = "stopped" /\ new[d].known = {} /\ new[d].states = {}
            /\ new[d].epoch = n
            /\ new[d].class = "light" => 0 \in new[d].nodes
  <2> HIDE DEF n
  <2> QED
    BY <1>1, CreatedIs
<1>3. /\ epoch' = n /\ devices' = Starting(S, new)
      /\ queue' = [c \in Controller |-> queue[c] \o Queries(begun[c], new)]
      /\ allocated' = allocated + Cardinality(Places(begun))
      /\ allocated' <= MaxRequests
      /\ restart' = [c \in Controller |-> Len(begun[c]) < Len(ToStart(c, new))]
      /\ output' = [d \in Device |->
            IF d \in DOMAIN new /\ new[d].class = "relay" THEN output[d] ELSE {}]
      /\ toggled' = NoToggle
  BY <1>0, Zenon
<1>4. /\ phase = "idle" /\ built = <<>> /\ built' = <<>> /\ phase' = "idle"
      /\ \A c \in Controller : queue[c] = <<>>
  BY DEF Begin, Idle, CanStop, messageVars, Base, Reading
<1>5. \A c \in Controller :
         /\ start(c) \in Seq(Device)
         /\ DOMAIN start(c) \subseteq DOMAIN ToStart(c, new)
         /\ \A d \in Range(start(c)) : /\ d \in DOMAIN new
                                       /\ new[d].controller = c /\ new[d].class = "relay"
         /\ Queries(start(c), new) \in Seq(RequestType)
         /\ DOMAIN Queries(start(c), new) = DOMAIN start(c)
         /\ Range(Queries(start(c), new)) = {Query(d, new) : d \in Range(start(c))}
  <2> HIDE DEF new
  <2> SUFFICES ASSUME NEW c \in Controller
               PROVE  /\ start(c) \in Seq(Device)
                      /\ DOMAIN start(c) \subseteq DOMAIN ToStart(c, new)
                      /\ \A d \in Range(start(c)) :
                            /\ d \in DOMAIN new
                            /\ new[d].controller = c /\ new[d].class = "relay"
                      /\ Queries(start(c), new) \in Seq(RequestType)
                      /\ DOMAIN Queries(start(c), new) = DOMAIN start(c)
                      /\ Range(Queries(start(c), new)) = {Query(d, new) : d \in Range(start(c))}
    OBVIOUS
  <2>1. room[c] \in Nat
    BY <1>0, HeapAssumption DEF HeapAssumption
  <2>2. /\ start(c) \in Seq(Device)
        /\ DOMAIN start(c) \subseteq DOMAIN ToStart(c, new)
        /\ Range(start(c)) \subseteq Range(ToStart(c, new))
    BY <2>1, StartedIs
  <2> HIDE DEF start
  <2>3. \A d \in Range(start(c)) : new[d].epoch \in 0 .. 1 /\ new[d].nodes \subseteq Nat
    BY <1>2, <2>2, Startable
  <2>4. \A d \in Range(start(c)) : /\ d \in DOMAIN new
                                   /\ new[d].controller = c /\ new[d].class = "relay"
    BY <2>2, Starters
  <2> QED
    BY <2>2, <2>3, <2>4, QueriesAre
<1>6. \A c \in Controller : begun[c] = start(c) /\ queue'[c] = Queries(start(c), new)
  <2> HIDE DEF new, start
  <2> SUFFICES ASSUME NEW c \in Controller
               PROVE  begun[c] = start(c) /\ queue'[c] = Queries(start(c), new)
    OBVIOUS
  <2>1. begun[c] = start(c)
    OBVIOUS
  <2> HIDE DEF begun
  <2>2. queue'[c] = <<>> \o Queries(start(c), new)
    BY <1>3, <1>4, <2>1
  <2> QED
    BY <1>5, <2>1, <2>2, ConcatEmptySeq
<1>7. queue' \in [Controller -> Seq(RequestType)]
  <2> HIDE DEF new, begun, start
  <2>1. \A c \in Controller : queue'[c] \in Seq(RequestType)
    BY <1>5, <1>6
  <2>2. queue' = [c \in Controller |-> queue'[c]]
    BY <1>3
  <2> QED
    BY <2>1, <2>2
<1>8. \A d : d \in S => new[d].controller \in Controller /\ d \in Range(start(new[d].controller))
  <2> SUFFICES ASSUME NEW d \in S
               PROVE  new[d].controller \in Controller /\ d \in Range(start(new[d].controller))
    OBVIOUS
  <2>1. PICK c \in Controller : d \in Range(begun[c])
    OBVIOUS
  <2> HIDE DEF new, begun, start
  <2> QED
    BY <1>5, <1>6, <2>1
<1>9. /\ DOMAIN devices' = DOMAIN new
      /\ devices' \in [DOMAIN devices' -> Object]
      /\ \A d \in DOMAIN new :
            /\ devices'[d].controller = new[d].controller
            /\ devices'[d].class = new[d].class
            /\ devices'[d].nodes = new[d].nodes /\ devices'[d].epoch = new[d].epoch
            /\ devices'[d].known = new[d].known /\ devices'[d].states = new[d].states
            /\ devices'[d].state = IF d \in S THEN "starting" ELSE new[d].state
  <2> HIDE DEF new, S
  <2> QED
    BY <1>2, <1>3, StartingIs
<1>10. \A c \in Controller : \A r \in Range(queue'[c]) :
          /\ r.device \in DOMAIN devices' /\ r.command = "query"
          /\ devices'[r.device].controller = c /\ devices'[r.device].class = "relay"
          /\ devices'[r.device].epoch = r.epoch /\ devices'[r.device].nodes = r.nodes
  <2> HIDE DEF new, begun, start, S
  <2> SUFFICES ASSUME NEW c \in Controller, NEW r \in Range(queue'[c])
               PROVE  /\ r.device \in DOMAIN devices' /\ r.command = "query"
                      /\ devices'[r.device].controller = c
                      /\ devices'[r.device].class = "relay"
                      /\ devices'[r.device].epoch = r.epoch
                      /\ devices'[r.device].nodes = r.nodes
    OBVIOUS
  <2>1. PICK d \in Range(start(c)) : r = Query(d, new)
    BY <1>5, <1>6
  <2>2. d \in DOMAIN new /\ new[d].controller = c /\ new[d].class = "relay"
    BY <1>5, <2>1
  <2>3. r.device = d /\ r.command = "query" /\ r.epoch = new[d].epoch /\ r.nodes = new[d].nodes
    BY <2>1, QueryIs
  <2> QED
    BY <1>9, <2>2, <2>3
<1>11. \A d \in DOMAIN devices' : devices'[d].state = "starting" =>
          \E r \in Range(queue'[devices'[d].controller]) : r.device = d /\ r.command = "query"
  <2> HIDE DEF new, begun, start, S
  <2> SUFFICES ASSUME NEW d \in DOMAIN devices', devices'[d].state = "starting"
               PROVE  \E r \in Range(queue'[devices'[d].controller]) :
                         r.device = d /\ r.command = "query"
    OBVIOUS
  <2>1. d \in S /\ devices'[d].controller = new[d].controller
    BY <1>2, <1>9
  <2>2. new[d].controller \in Controller /\ d \in Range(start(new[d].controller))
    BY <1>8, <2>1
  <2>3. Query(d, new) \in Range(queue'[new[d].controller])
    BY <1>5, <1>6, <2>2
  <2> QED
    BY <2>1, <2>3, QueryIs
<1>12. /\ IsFiniteSet(Places(queue')) /\ allocated' = Cardinality(Places(queue'))
       /\ allocated' \in 0 .. MaxRequests
  <2>1. \A c \in Controller : DOMAIN queue'[c] = DOMAIN begun[c]
    <3> HIDE DEF new, begun, start
    <3> QED
      BY <1>5, <1>6
  <2>2. Places(queue') = Places(begun)
    <3> HIDE DEF begun
    <3> QED
      BY <2>1, PlacesSame
  <2>3. IsFiniteSet(Places(begun)) /\ Cardinality(Places(begun)) \in Nat
    <3> DEFINE due == [c \in Controller |-> ToStart(c, new)]
    <3>1. IsFiniteSet(Places(due))
      <4> HIDE DEF new
      <4> QED
        BY DuePlaces
    <3>2. \A c \in Controller : due[c] = ToStart(c, new)
      OBVIOUS
    <3> HIDE DEF new, begun, start, due
    <3>3. \A c \in Controller : DOMAIN begun[c] \subseteq DOMAIN due[c]
      BY <1>5, <1>6, <3>2
    <3>4. Places(begun) \subseteq Places(due)
      BY <3>3 DEF Places
    <3> QED
      BY <3>1, <3>4, FS_Subset, FS_CardinalityType
  <2> HIDE DEF begun, new
  <2>4. allocated = 0
    <3>1. Places(queue) = {}
      BY <1>4, PlacesEmpty
    <3>2. Cardinality(Places(queue)) = 0
      BY <3>1, FS_EmptySet
    <3>3. allocated = Len(built) + Cardinality(Places(queue))
      BY DEF Base, Heap, Owned
    <3>4. Len(built) = 0
      BY <1>4
    <3> QED
      BY <3>2, <3>3, <3>4
  <2>5. MaxRequests \in Nat
    BY HeapAssumption DEF HeapAssumption
  <2> QED
    BY <1>3, <2>2, <2>3, <2>4, <2>5
<1>13. output' \in [Device -> SUBSET Nat]
  <2>1. output \in [Device -> SUBSET Nat]
    BY DEF Base, Typed
  <2> HIDE DEF new
  <2> QED
    BY <1>3, <2>1
<1>14. restart' \in [Controller -> BOOLEAN]
  BY <1>3
<1>15. \A d \in DOMAIN devices' :
          /\ devices'[d].known = {} /\ devices'[d].states = {} /\ devices'[d].epoch = epoch'
          /\ devices'[d].class = "light" => 0 \in devices'[d].nodes
          /\ devices'[d].state \in {"starting", "stopped"}
  <2> HIDE DEF new, S, n
  <2> QED
    BY <1>2, <1>3, <1>8, <1>9
<1>16. DOMAIN devices' \subseteq Device /\ epoch' \in 0 .. 1 /\ toggled' = NoToggle
  BY <1>1, <1>2, <1>3, <1>9
<1> HIDE DEF new, S, n, begun, start
<1> QED
  BY <1>4, <1>7, <1>9, <1>10, <1>11, <1>12, <1>13, <1>14, <1>15, <1>16

-----------------------------------------------------------------------------
(* The other steps keep the objects *)

\* A step between two calls of begin() or end(): the objects are the same, in
\* another state.
Kept ==
    /\ epoch' = epoch
    /\ DOMAIN devices' = DOMAIN devices
    /\ devices' \in [DOMAIN devices' -> Object]
    /\ \A d \in DOMAIN devices :
          /\ devices'[d].controller = devices[d].controller
          /\ devices'[d].class = devices[d].class
          /\ devices'[d].nodes = devices[d].nodes
          /\ devices'[d].epoch = devices[d].epoch
          /\ devices'[d].known \subseteq devices'[d].nodes
          /\ devices'[d].states \subseteq devices'[d].nodes

\* The requests there are, list by list.
LEMMA RequestsAre ==
    /\ \A r : r \in Requests <=>
                 r \in Range(built) \/ \E c \in Controller : r \in Range(queue[c])
    /\ \A r : r \in Requests' <=>
                 r \in Range(built') \/ \E c \in Controller : r \in Range(queue'[c])
<1>1. \A r : r \in Requests <=>
                 r \in Range(built) \/ \E c \in Controller : r \in Range(queue[c])
  BY Zenon DEF Requests
<1>2. \A r : r \in Requests' <=>
                 r \in Range(built') \/ \E c \in Controller : r \in Range(queue'[c])
  BY Zenon DEF Requests
<1> QED
  BY <1>1, <1>2

\* Nothing but a device's state and what it knows may change, ...
LEMMA KeptObjects ==
    ASSUME Base, Kept
    PROVE  Current' /\ DOMAIN devices' \subseteq Device /\ epoch' \in 0 .. 1
<1>1. \A d \in DOMAIN devices' :
         /\ devices'[d].epoch = epoch'
         /\ devices'[d].known \subseteq devices'[d].nodes
         /\ devices'[d].states \subseteq devices'[d].nodes
         /\ devices'[d].class = "light" => 0 \in devices'[d].nodes
  BY DEF Base, Current, Kept
<1>2. Current'
  BY <1>1 DEF Current
<1> QED
  BY <1>2 DEF Base, Typed, Kept

\* ... so a request that was its object's still is, and so are the new ones
\* that are put in the right list.
LEMMA KeptOwners ==
    ASSUME Base, Kept,
           \A r \in Range(built') : r \in Range(built) \/ Belongs(r),
           \A c \in Controller : \A r \in Range(queue'[c]) :
              \/ r \in Range(queue[c])
              \/ /\ Belongs(r)
                 /\ devices[r.device].controller = c /\ devices[r.device].class = "relay"
    PROVE  Owners'
<1>1. /\ \A r \in Range(built) : Belongs(r)
      /\ \A c \in Controller : \A r \in Range(queue[c]) :
            /\ Belongs(r)
            /\ devices[r.device].controller = c /\ devices[r.device].class = "relay"
  BY RequestsAre DEF Base, Owners
<1>2. \A r : Belongs(r) => Belongs(r)'
  <2> SUFFICES ASSUME NEW r, Belongs(r)
               PROVE  Belongs(r)'
    OBVIOUS
  <2>1. r.device \in DOMAIN devices /\ devices[r.device].epoch = r.epoch
        /\ r.nodes \subseteq devices[r.device].nodes
    BY DEF Belongs
  <2>2. r.device \in DOMAIN devices' /\ devices'[r.device].epoch = r.epoch
        /\ r.nodes \subseteq devices'[r.device].nodes
    BY <2>1 DEF Kept
  <2> QED
    BY <2>2 DEF Belongs
<1>3. \A r : Belongs(r) => /\ devices'[r.device].controller = devices[r.device].controller
                           /\ devices'[r.device].class = devices[r.device].class
  BY DEF Belongs, Kept
<1>4. \A r \in Requests' : Belongs(r)'
  BY <1>1, <1>2, RequestsAre
<1>5. \A c \in Controller : \A r \in Range(queue'[c]) :
         devices'[r.device].controller = c /\ devices'[r.device].class = "relay"
  BY <1>1, <1>3
<1> QED
  BY <1>4, <1>5 DEF Owners

\* A step that leaves the objects alone.
LEMMA SameObjects ==
    ASSUME Base, UNCHANGED <<devices, epoch>>
    PROVE  Kept
<1>1. \A d \in DOMAIN devices :
         devices[d].known \subseteq devices[d].nodes /\ devices[d].states \subseteq devices[d].nodes
  BY DEF Base, Current
<1>2. devices \in [DOMAIN devices -> Object]
  BY DEF Base, Typed
<1> QED
  BY <1>1, <1>2 DEF Kept

\* A step that changes what is known of one device, or its state.
LEMMA OneObject ==
    ASSUME Base, NEW d \in DOMAIN devices, NEW o \in Object,
           epoch' = epoch, devices' = [devices EXCEPT ![d] = o],
           o.controller = devices[d].controller, o.class = devices[d].class,
           o.nodes = devices[d].nodes, o.epoch = devices[d].epoch,
           o.known \subseteq o.nodes, o.states \subseteq o.nodes
    PROVE  Kept
<1>1. \A b \in DOMAIN devices :
         devices[b].known \subseteq devices[b].nodes /\ devices[b].states \subseteq devices[b].nodes
  BY DEF Base, Current
<1>2. devices \in [DOMAIN devices -> Object]
  BY DEF Base, Typed
<1>3. DOMAIN devices' = DOMAIN devices /\ devices' \in [DOMAIN devices' -> Object]
  BY <1>2
<1>4. \A b \in DOMAIN devices : devices'[b] = IF b = d THEN o ELSE devices[b]
  BY <1>2
<1> QED
  BY <1>1, <1>3, <1>4 DEF Kept

\* Fault() is such a step.
LEMMA FaultIs ==
    ASSUME Base, NEW d \in DOMAIN devices, Fault(d), epoch' = epoch
    PROVE  /\ Kept /\ restart' \in [Controller -> BOOLEAN]
           /\ \A b \in DOMAIN devices :
                 /\ devices'[b].known = devices[b].known /\ devices'[b].states = devices[b].states
                 /\ devices'[b].state = IF b = d THEN "fault" ELSE devices[b].state
<1> DEFINE o == [devices[d] EXCEPT !.state = "fault"]
<1>1. devices \in [DOMAIN devices -> Object] /\ devices[d] \in Object
  BY DEF Base, Typed
<1>2. /\ o \in Object
      /\ o.controller = devices[d].controller /\ o.class = devices[d].class
      /\ o.nodes = devices[d].nodes /\ o.epoch = devices[d].epoch
      /\ o.known = devices[d].known /\ o.states = devices[d].states /\ o.state = "fault"
  BY <1>1 DEF Object
<1>3. devices' = [devices EXCEPT ![d] = o]
  BY <1>1 DEF Fault
<1>4. o.known \subseteq o.nodes /\ o.states \subseteq o.nodes
  BY <1>2 DEF Base, Current
<1>5. Kept
  <2> HIDE DEF o
  <2> QED
    BY <1>2, <1>3, <1>4, OneObject
<1>6. \A b \in DOMAIN devices : devices'[b] = IF b = d THEN o ELSE devices[b]
  <2> HIDE DEF o
  <2> QED
    BY <1>1, <1>3
<1>7. restart' \in [Controller -> BOOLEAN]
  BY DEF Fault, Base, Typed
<1> HIDE DEF o
<1> QED
  BY <1>2, <1>5, <1>6, <1>7

-----------------------------------------------------------------------------
(* Reading a message *)

\* What setNode() selects are nodes of the device, if parseJson() accepted.
LEMMA SelectedAre ==
    ASSUME Base, phase = "building", NEW e \in Element, Accepts(e),
           message.form = "devices" => e.all
    PROVE  Selected(e) \subseteq devices[e.device].nodes
<1> DEFINE o == devices[e.device]
<1>1. e.device \in DOMAIN devices /\ o \in Object
  BY DEF Accepts, CanCreate, Base, Typed
<1>2. o.class \in {"relay", "light"} /\ (o.class = "light" => 0 \in o.nodes)
  BY <1>1 DEF Object, Base, Current
<1>3. e.all \in BOOLEAN /\ e.nodes \in Seq(Nat)
  BY DEF Element
<1>4. CASE e.all
  BY <1>4 DEF Selected
<1>5. CASE ~e.all
  <2>1. Range(e.nodes) \subseteq o.nodes
    BY <1>5 DEF Accepts
  <2>2. CASE o.class = "relay"
    BY <1>5, <2>1, <2>2 DEF Selected
  <2>3. CASE o.class = "light" /\ Len(e.nodes) > 0
    <3>1. Len(e.nodes) \in 1 .. Len(e.nodes)
      BY <1>3, <2>3, LenProperties
    <3>2. e.nodes[Len(e.nodes)] \in Range(e.nodes)
      BY <1>3, <3>1, RangeIs
    <3>3. Selected(e) = {e.nodes[Len(e.nodes)]}
      BY <1>5, <2>3 DEF Selected, Last
    <3> QED
      BY <2>1, <3>2, <3>3
  <2>4. CASE o.class = "light" /\ Len(e.nodes) = 0
    <3>1. Selected(e) = {0}
      BY <1>5, <2>4 DEF Selected
    <3> QED
      BY <1>2, <2>4, <3>1
  <2>5. Len(e.nodes) \in Nat
    BY <1>3, LenProperties
  <2> QED
    BY <1>2, <2>2, <2>3, <2>4, <2>5
<1> QED
  BY <1>3, <1>4, <1>5

\* The request for an accepted element.
LEMMA NewRequestIs ==
    ASSUME Base, phase = "building", NEW e \in Range(message.elements), Accepts(e)
    PROVE  NewRequest(e) \in RequestType /\ Belongs(NewRequest(e))
<1>1. message \in Unread
  BY DEF Base, Reading
<1>2. message.elements \in Seq(Element) /\ message.command \in Command
  BY <1>1 DEF Unread
<1>3. e \in Element
  BY <1>2, RangeIs
<1>4. message.form = "devices" => e.command = "undefined" /\ e.all
  BY DEF Base, Reading
<1>5. e.device \in DOMAIN devices /\ devices[e.device] \in Object /\ e.device \in Device
  BY DEF Accepts, CanCreate, Base, Typed
<1>6. Selected(e) \subseteq devices[e.device].nodes
  BY <1>3, <1>4, SelectedAre
<1>7. CommandFor(e) \in Command
  <2>1. e.command \in Command
    BY <1>3, <1>4 DEF Accepts, Element, Command
  <2> QED
    BY <1>2, <2>1 DEF CommandFor
<1>8. devices[e.device].epoch \in 0 .. 1 /\ devices[e.device].nodes \subseteq Nat
  BY <1>5 DEF Object
<1>9. NewRequest(e) \in RequestType
  BY <1>5, <1>6, <1>7, <1>8 DEF NewRequest, RequestType
<1>10. Belongs(NewRequest(e))
  BY <1>5, <1>6 DEF NewRequest, Belongs
<1> QED
  BY <1>9, <1>10

\* handleMessage() begins: nothing is built.
LEMMA BaseHandle ==
    ASSUME Base, NEW m \in Messages, Handle(m)
    PROVE  Base'
<1>1. UNCHANGED <<devices, restart, epoch, built, queue, allocated, output>>
      /\ phase' = "building" /\ message' = m /\ built = <<>>
  BY DEF Handle, Idle, objectVars, Base, Reading
<1>2. m \in Message
  BY MessageAssumption DEF MessageAssumption
<1>3. m \in Unread /\ (m.form = "devices" =>
                          \A e \in Range(m.elements) : e.command = "undefined" /\ e.all)
  BY <1>2 DEF Message, Unread
<1>4. Kept
  BY <1>1, SameObjects
<1>5. Typed'
  BY <1>1 DEF Base, Typed
<1>6. Reading'
  BY <1>1, <1>3 DEF Reading
<1>7. Owners'
  BY <1>1, <1>4, KeptOwners
<1>8. Heap'
  BY <1>1 DEF Base, Heap, Owned
<1> QED
  BY <1>4, <1>5, <1>6, <1>7, <1>8, KeptObjects DEF Base

\* A request is built, or the loop ends.
LEMMA BaseBuild ==
    ASSUME Base, Build
    PROVE  Base'
<1> DEFINE e == Head(message.elements)
<1>1. UNCHANGED <<devices, restart, epoch, queue, output>> /\ phase = "building"
      /\ message.elements # <<>>
  BY DEF Build, objectVars
<1>2. message \in Unread
  BY <1>1 DEF Base, Reading
<1>3. message.elements \in Seq(Element)
  BY <1>2 DEF Unread
<1>4. /\ e \in Range(message.elements)
      /\ Range(Tail(message.elements)) \subseteq Range(message.elements)
      /\ Tail(message.elements) \in Seq(Element)
  BY <1>1, <1>3, RangeHeadTail, HeadTailProperties
<1>5. Kept
  BY <1>1, SameObjects
<1>6. CASE ~Accepts(e)
  <2>1. phase' = "submitting" /\ UNCHANGED <<message, built, allocated>>
    BY <1>6 DEF Build
  <2>2. Typed'
    BY <1>1, <2>1 DEF Base, Typed
  <2>3. Reading'
    BY <1>1, <2>1 DEF Base, Reading
  <2>4. Owners'
    BY <1>1, <1>5, <2>1, KeptOwners
  <2>5. Heap'
    BY <1>1, <2>1 DEF Base, Heap, Owned
  <2> QED
    BY <1>5, <2>2, <2>3, <2>4, <2>5, KeptObjects DEF Base
<1>7. CASE Accepts(e)
  <2> DEFINE r == NewRequest(e)
             t == Tail(message.elements)
  <2>1. /\ built' = Append(built, r) /\ allocated' = allocated + 1
        /\ message' = [message EXCEPT !.elements = t] /\ phase' = phase
    BY <1>7 DEF Build
  <2>2. r \in RequestType /\ Belongs(r)
    BY <1>1, <1>4, <1>7, NewRequestIs
  <2>3. built \in Seq(RequestType)
    BY DEF Base, Typed
  <2>4. /\ built' \in Seq(RequestType) /\ Len(built') = Len(built) + 1
        /\ Range(built') = Range(built) \cup {r}
    <3> HIDE DEF r
    <3> QED
      BY <2>1, <2>2, <2>3, AppendProperties, RangeAppend
  <2> HIDE DEF r
  <2>5. Typed'
    BY <1>1, <2>1, <2>4 DEF Base, Typed
  <2>6. message' \in Unread /\ message'.form = message.form /\ message'.elements = t
    <3>1. t \in Seq(Element)
      BY <1>4
    <3> HIDE DEF t
    <3> QED
      BY <1>2, <2>1, <3>1 DEF Unread
  <2>7. Reading'
    <3>1. message'.form = "devices" =>
             \A x \in Range(message'.elements) : x.command = "undefined" /\ x.all
      BY <1>1, <1>4, <2>6 DEF Base, Reading
    <3> QED
      BY <1>1, <2>1, <2>6, <3>1 DEF Reading
  <2>8. Owners'
    BY <1>1, <1>5, <2>2, <2>4, KeptOwners
  <2>9. Heap'
    <3>1. allocated < MaxRequests /\ allocated \in 0 .. MaxRequests /\ MaxRequests \in Nat
      BY <1>7, HeapAssumption DEF Accepts, CanCreate, Base, Heap, HeapAssumption
    <3>2. allocated' \in 0 .. MaxRequests
      BY <2>1, <3>1
    <3>3. IsFiniteSet(Places(queue)) /\ Places(queue') = Places(queue)
      BY <1>1 DEF Base, Heap
    <3>4. Cardinality(Places(queue)) \in Nat /\ Len(built) \in Nat
      BY <2>3, <3>3, FS_CardinalityType, LenProperties
    <3>5. allocated = Len(built) + Cardinality(Places(queue))
      BY DEF Base, Heap, Owned
    <3>6. allocated' = Len(built') + Cardinality(Places(queue'))
      BY <2>1, <2>4, <3>3, <3>4, <3>5
    <3> QED
      BY <1>1, <3>2, <3>3, <3>6 DEF Heap, Owned
  <2> QED
    BY <1>5, <2>5, <2>7, <2>8, <2>9, KeptObjects DEF Base
<1> QED
  BY <1>6, <1>7

\* What a group toggle becomes.
Towards == IF \E r \in Range(built) : TellsOn(r) THEN "off" ELSE "on"

\* The same requests, all with that command.
LEMMA ExplicitIs ==
    ASSUME Base
    PROVE  /\ Explicit \in Seq(RequestType) /\ Len(Explicit) = Len(built)
           /\ \A x \in Range(Explicit) :
                 /\ x.command = Towards
                 /\ \E r \in Range(built) :
                       x.device = r.device /\ x.epoch = r.epoch /\ x.nodes = r.nodes
           /\ \A r \in Range(built) : \E x \in Range(Explicit) :
                 x.device = r.device /\ x.nodes = r.nodes
<1>1. /\ built \in Seq(RequestType) /\ DOMAIN built = 1 .. Len(built) /\ Len(built) \in Nat
      /\ \A i \in 1 .. Len(built) : built[i] \in RequestType
      /\ Range(built) = {built[i] : i \in 1 .. Len(built)}
  <2>1. built \in Seq(RequestType)
    BY DEF Base, Typed
  <2> QED
    BY <2>1, LenProperties, RangeIs, ElementOfSeq
<1>2. Towards \in {"on", "off"}
  BY DEF Towards
<1>3. Explicit = [i \in 1 .. Len(built) |-> [built[i] EXCEPT !.command = Towards]]
  BY <1>1, Zenon DEF Explicit, Towards
<1>4. \A r \in RequestType : LET x == [r EXCEPT !.command = Towards] IN
         /\ x \in RequestType /\ x.command = Towards
         /\ x.device = r.device /\ x.epoch = r.epoch /\ x.nodes = r.nodes
  BY <1>2 DEF RequestType, Command
<1>5. \A i \in 1 .. Len(built) :
         /\ Explicit[i] \in RequestType /\ Explicit[i].command = Towards
         /\ Explicit[i].device = built[i].device /\ Explicit[i].epoch = built[i].epoch
         /\ Explicit[i].nodes = built[i].nodes
  BY <1>1, <1>3, <1>4
<1>6. Explicit \in [1 .. Len(built) -> RequestType]
  BY <1>3, <1>5
<1>7. Explicit \in Seq(RequestType)
  BY <1>1, <1>6, SeqDef
<1>8. Len(Explicit) = Len(built)
  BY <1>1, <1>6, <1>7, LenProperties
<1>9. Range(Explicit) = {Explicit[i] : i \in 1 .. Len(built)}
  BY <1>7, <1>8, RangeIs
<1> QED
  BY <1>1, <1>5, <1>7, <1>8, <1>9

\* The requests of a group toggle get their command.
LEMMA BaseResolve ==
    ASSUME Base, Resolve
    PROVE  Base'
<1>1. /\ UNCHANGED <<devices, restart, epoch, message, queue, allocated, output>>
      /\ phase = "building" /\ phase' = "submitting"
      /\ built' = built \/ built' = Explicit
  BY DEF Resolve, objectVars
<1>2. /\ built' \in Seq(RequestType) /\ Len(built') = Len(built)
      /\ \A x \in Range(built') : \E r \in Range(built) :
            x.device = r.device /\ x.epoch = r.epoch /\ x.nodes = r.nodes
  BY <1>1, ExplicitIs DEF Base, Typed
<1>3. Kept
  BY <1>1, SameObjects
<1>4. \A x \in Range(built') : Belongs(x)
  <2>1. \A r \in Range(built) : Belongs(r)
    BY RequestsAre DEF Base, Owners
  <2> QED
    BY <1>2, <2>1 DEF Belongs
<1>5. Typed'
  BY <1>1, <1>2 DEF Base, Typed
<1>6. Reading'
  BY <1>1 DEF Base, Reading
<1>7. Owners'
  BY <1>1, <1>3, <1>4, KeptOwners
<1>8. Heap'
  BY <1>1, <1>2 DEF Base, Heap, Owned
<1> QED
  BY <1>3, <1>5, <1>6, <1>7, <1>8, KeptObjects DEF Base

\* The message has been handled.
LEMMA BaseReturn ==
    ASSUME Base, Return
    PROVE  Base'
<1>1. /\ UNCHANGED <<devices, restart, epoch, built, queue, allocated, output>>
      /\ phase' = "idle" /\ built = <<>>
  BY DEF Return, objectVars
<1>2. Kept
  BY <1>1, SameObjects
<1>3. Typed'
  BY <1>1 DEF Base, Typed
<1>4. Reading'
  BY <1>1 DEF Reading
<1>5. Owners'
  BY <1>1, <1>2, KeptOwners
<1>6. Heap'
  BY <1>1 DEF Base, Heap, Owned
<1> QED
  BY <1>2, <1>3, <1>4, <1>5, <1>6, KeptObjects DEF Base

\* stop(): only timers.
LEMMA BaseStop ==
    ASSUME Base, Stop
    PROVE  Base'
<1>1. /\ UNCHANGED <<devices, epoch, built, phase, message, queue, allocated, output>>
      /\ restart' = [c \in Controller |-> FALSE] /\ phase = "idle"
  BY DEF Stop, Idle, messageVars
<1>2. Kept
  BY <1>1, SameObjects
<1>3. restart' \in [Controller -> BOOLEAN]
  BY <1>1
<1>4. Typed'
  BY <1>1, <1>3 DEF Base, Typed
<1>5. Reading'
  BY <1>1 DEF Base, Reading
<1>6. Owners'
  BY <1>1, <1>2, KeptOwners
<1>7. Heap'
  BY <1>1 DEF Base, Heap, Owned
<1> QED
  BY <1>2, <1>4, <1>5, <1>6, <1>7, KeptObjects DEF Base

\* end(): no object is left, and no request for one.
LEMMA BaseEnd ==
    ASSUME Base, End
    PROVE  Base'
<1>1. /\ UNCHANGED <<epoch, built, phase, message, queue, allocated, output>>
      /\ restart' = [c \in Controller |-> FALSE] /\ phase = "idle"
      /\ devices' = [d \in {} |-> 0]
      /\ \A c \in Controller : queue[c] = <<>>
  BY DEF End, Idle, CanStop, messageVars
<1>2. built = <<>>
  BY <1>1 DEF Base, Reading
<1>3. DOMAIN devices' = {} /\ devices' \in [DOMAIN devices' -> Object]
  BY <1>1
<1>4. restart' \in [Controller -> BOOLEAN]
  BY <1>1
<1>5. Typed'
  BY <1>1, <1>3, <1>4 DEF Base, Typed
<1>6. Reading'
  BY <1>1 DEF Base, Reading
<1>7. Current'
  BY <1>3 DEF Current
<1>8. \A c \in Controller : Range(queue'[c]) = {}
  BY <1>1, RangeEmpty
<1>9. Range(built') = {}
  BY <1>1, <1>2, RangeEmpty
<1>10. Owners'
  BY <1>8, <1>9, RequestsAre DEF Owners
<1>11. Heap'
  BY <1>1 DEF Base, Heap, Owned
<1> QED
  BY <1>5, <1>6, <1>7, <1>10, <1>11 DEF Base

\* begin()
LEMMA BaseBegin ==
    ASSUME Base, NEW f \in Configs, Begin(f)
    PROVE  Base'
<1>1. /\ epoch' \in 0 .. 1 /\ built' = <<>> /\ phase' = "idle"
      /\ DOMAIN devices' \subseteq Device /\ devices' \in [DOMAIN devices' -> Object]
      /\ queue' \in [Controller -> Seq(RequestType)]
      /\ output' \in [Device -> SUBSET Nat] /\ restart' \in [Controller -> BOOLEAN]
  BY BeginIs
<1>2. \A d \in DOMAIN devices' :
         /\ devices'[d].known = {} /\ devices'[d].states = {}
         /\ devices'[d].epoch = epoch'
         /\ devices'[d].class = "light" => 0 \in devices'[d].nodes
  BY BeginIs
<1>3. \A c \in Controller : \A r \in Range(queue'[c]) :
         /\ r.device \in DOMAIN devices'
         /\ devices'[r.device].controller = c /\ devices'[r.device].class = "relay"
         /\ devices'[r.device].epoch = r.epoch /\ devices'[r.device].nodes = r.nodes
  BY BeginIs
<1>4. /\ IsFiniteSet(Places(queue'))
      /\ allocated' = Cardinality(Places(queue')) /\ allocated' \in 0 .. MaxRequests
  BY BeginIs
<1>5. Typed'
  <2>1. built' \in Seq(RequestType)
    BY <1>1
  <2> QED
    BY <1>1, <2>1 DEF Typed
<1>6. Reading'
  BY <1>1 DEF Reading
<1>7. Current'
  BY <1>2 DEF Current
<1>8. Owners'
  <2>1. Range(built') = {}
    BY <1>1, RangeEmpty
  <2>2. \A r \in Requests' : \E c \in Controller : r \in Range(queue'[c])
    BY <2>1, RequestsAre
  <2>3. \A r \in Requests' : Belongs(r)'
    BY <1>3, <2>2 DEF Belongs
  <2> QED
    BY <1>3, <2>3 DEF Owners
<1>9. Heap'
  <2>1. Len(built') = 0
    BY <1>1
  <2>2. Cardinality(Places(queue')) \in Nat
    BY <1>4, FS_CardinalityType
  <2>3. allocated' = Len(built') + Cardinality(Places(queue'))
    BY <1>4, <2>1, <2>2
  <2> QED
    BY <1>4, <2>3 DEF Heap, Owned
<1> QED
  BY <1>5, <1>6, <1>7, <1>8, <1>9 DEF Base

-----------------------------------------------------------------------------
(* Submission and execution *)

\* What a request does to its device's nodes.
LEMMA ApplyIs ==
    ASSUME NEW r, r.nodes \subseteq Nat, output[r.device] \subseteq Nat
    PROVE  /\ Apply(r) \subseteq Nat
           /\ r.command = "on"     => Apply(r) = output[r.device] \cup r.nodes
           /\ r.command = "off"    => Apply(r) = output[r.device] \ r.nodes
           /\ r.command = "toggle" => Apply(r) = SymDiff(output[r.device], r.nodes)
           /\ r.command \notin {"on", "off", "toggle"} => Apply(r) = output[r.device]
<1>1. SymDiff(output[r.device], r.nodes) \subseteq Nat
  BY DEF SymDiff
<1>2. CASE r.command = "on"
  BY <1>2 DEF Apply
<1>3. CASE r.command = "off"
  BY <1>3 DEF Apply
<1>4. CASE r.command = "toggle"
  BY <1>1, <1>4 DEF Apply
<1>5. CASE r.command \notin {"on", "off", "toggle"}
  BY <1>5 DEF Apply
<1> QED
  BY <1>2, <1>3, <1>4, <1>5

\* The first request built is somebody's.
LEMMA FirstBuilt ==
    ASSUME Base, built # <<>>
    PROVE  /\ Head(built) \in RequestType /\ Belongs(Head(built))
           /\ Head(built) \in Range(built)
           /\ Tail(built) \in Seq(RequestType) /\ Len(built) = Len(Tail(built)) + 1
           /\ Len(Tail(built)) \in Nat
           /\ Range(built) = {Head(built)} \cup Range(Tail(built))
           /\ Head(built).device \in Device /\ Head(built).nodes \subseteq Nat
           /\ output[Head(built).device] \subseteq Nat
<1>1. built \in Seq(RequestType)
  BY DEF Base, Typed
<1>2. /\ Head(built) \in RequestType /\ Tail(built) \in Seq(RequestType)
      /\ Len(Tail(built)) = Len(built) - 1 /\ Len(built) \in Nat /\ Len(Tail(built)) \in Nat
  BY <1>1, HeadTailProperties, LenProperties
<1>3. Range(built) = {Head(built)} \cup Range(Tail(built))
  BY <1>1, RangeHeadTail
<1>4. Belongs(Head(built))
  BY <1>3, RequestsAre DEF Base, Owners
<1>5. Head(built).device \in Device /\ Head(built).nodes \subseteq Nat
  BY <1>2 DEF RequestType
<1>6. output[Head(built).device] \subseteq Nat
  BY <1>5 DEF Base, Typed
<1> QED
  BY <1>2, <1>3, <1>4, <1>5, <1>6

\* A request is submitted.
LEMMA BaseSubmit ==
    ASSUME Base, SubmitNext
    PROVE  Base' /\ Kept
<1> DEFINE r == Head(built)
<1>1. /\ phase = "submitting" /\ built # <<>> /\ built' = Tail(built)
      /\ UNCHANGED <<epoch, phase, message>>
  BY DEF SubmitNext
<1>2. /\ r \in RequestType /\ Belongs(r) /\ r \in Range(built)
      /\ built' \in Seq(RequestType) /\ Len(built) = Len(built') + 1 /\ Len(built') \in Nat
      /\ Range(built') \subseteq Range(built)
      /\ r.device \in Device /\ r.nodes \subseteq Nat /\ output[r.device] \subseteq Nat
  BY <1>1, FirstBuilt
<1>3. r.device \in DOMAIN devices
  BY <1>2 DEF Belongs
<1>4. Reading'
  BY <1>1 DEF Base, Reading
<1>5. /\ IsFiniteSet(Places(queue)) /\ Cardinality(Places(queue)) \in Nat
      /\ allocated = Len(built) + Cardinality(Places(queue))
      /\ allocated \in 0 .. MaxRequests /\ MaxRequests \in Nat
  BY FS_CardinalityType, HeapAssumption DEF Base, Heap, Owned, HeapAssumption
<1>6. CASE devices[r.device].class = "light" /\ SubmitLight(r)
  <2>1. queue' = queue /\ allocated' = allocated - 1
    BY <1>6 DEF SubmitLight
  <2>2. Kept /\ restart' \in [Controller -> BOOLEAN] /\ output' \in [Device -> SUBSET Nat]
    <3>1. CASE r.command \in {"on", "off"}
      <4>1. UNCHANGED <<devices, restart>> /\ output' = [output EXCEPT ![r.device] = Apply(r)]
        BY <1>6, <3>1 DEF SubmitLight
      <4>2. Apply(r) \in SUBSET Nat
        BY <1>2, ApplyIs
      <4>3. Kept
        BY <1>1, <4>1, SameObjects
      <4>4. output' \in [Device -> SUBSET Nat] /\ restart' \in [Controller -> BOOLEAN]
        BY <4>1, <4>2 DEF Base, Typed
      <4> QED
        BY <4>3, <4>4
    <3>2. CASE r.command \notin {"on", "off"}
      <4>1. Fault(r.device) /\ output' = output
        BY <1>6, <3>2 DEF SubmitLight
      <4>2. Kept /\ restart' \in [Controller -> BOOLEAN]
        <5> HIDE DEF r
        <5> QED
          BY <1>1, <1>3, <4>1, FaultIs
      <4> QED
        BY <4>1, <4>2 DEF Base, Typed
    <3> QED
      BY <3>1, <3>2
  <2>3. Typed'
    BY <1>1, <1>2, <2>1, <2>2, KeptObjects DEF Base, Typed, Kept
  <2>4. Owners'
    BY <1>2, <2>1, <2>2, KeptOwners
  <2>5. Heap'
    <3>1. allocated' \in 0 .. MaxRequests
      BY <1>2, <1>5, <2>1
    <3>2. allocated' = Len(built') + Cardinality(Places(queue'))
      BY <1>2, <1>5, <2>1
    <3> QED
      BY <1>5, <2>1, <3>1, <3>2 DEF Heap, Owned
  <2> QED
    BY <1>4, <2>2, <2>3, <2>4, <2>5, KeptObjects DEF Base
<1>7. CASE devices[r.device].class = "relay" /\ SubmitRelay(r)
  <2> DEFINE c == devices[r.device].controller
  <2>1. /\ queue' = [queue EXCEPT ![c] = Append(@, r)]
        /\ UNCHANGED <<devices, restart, allocated, output>>
    BY <1>7 DEF SubmitRelay
  <2>2. c \in Controller
    BY <1>3 DEF Base, Typed, Object
  <2>3. queue \in [Controller -> Seq(RequestType)]
    BY DEF Base, Typed
  <2> HIDE DEF c, r
  <2>4. /\ queue' \in [Controller -> Seq(RequestType)]
        /\ \A b \in Controller : queue'[b] = IF b = c THEN Append(queue[c], r) ELSE queue[b]
    BY <1>2, <2>1, <2>2, <2>3, AppendProperties
  <2>5. Range(queue'[c]) = Range(queue[c]) \cup {r}
    <3>1. queue'[c] = Append(queue[c], r) /\ queue[c] \in Seq(RequestType)
      BY <2>2, <2>3, <2>4
    <3>2. Range(Append(queue[c], r)) = Range(queue[c]) \cup {r}
      BY <1>2, <3>1, RangeAppend
    <3> QED
      BY <3>1, <3>2
  <2>6. IsFiniteSet(Places(queue'))
        /\ Cardinality(Places(queue')) = Cardinality(Places(queue)) + 1
    <3>1. queue[c] \in Seq(RequestType) /\ Len(queue[c]) \in Nat
      BY <2>2, <2>3, LenProperties
    <3>2. queue'[c] \in Seq(RequestType) /\ Len(queue'[c]) = Len(queue[c]) + 1
      BY <1>2, <2>2, <2>4, <3>1, AppendProperties
    <3>3. \A b \in Controller : b # c => queue'[b] = queue[b]
      BY <2>4
    <3>4. /\ IsFiniteSet(Places(queue'))
          /\ Cardinality(Places(queue'))
                = Cardinality(Places(queue)) - Len(queue[c]) + Len(queue'[c])
      BY <1>5, <2>2, <3>1, <3>2, <3>3, PlacesChange
    <3> QED
      BY <1>5, <3>1, <3>2, <3>4
  <2>7. Kept
    BY <1>1, <2>1, SameObjects
  <2>8. Typed'
    BY <1>1, <1>2, <2>1, <2>4 DEF Base, Typed
  <2>9. Owners'
    <3>1. \A x \in Range(built') : x \in Range(built)
      BY <1>2
    <3>2. \A b \in Controller : \A x \in Range(queue'[b]) :
             \/ x \in Range(queue[b])
             \/ /\ Belongs(x)
                /\ devices[x.device].controller = b /\ devices[x.device].class = "relay"
      BY <1>2, <1>7, <2>4, <2>5 DEF c
    <3> QED
      BY <2>7, <3>1, <3>2, KeptOwners
  <2>10. Heap'
    <3>1. allocated' = Len(built') + Cardinality(Places(queue'))
      BY <1>2, <1>5, <2>1, <2>6
    <3> QED
      BY <1>5, <2>1, <2>6, <3>1 DEF Heap, Owned
  <2> QED
    BY <1>4, <2>7, <2>8, <2>9, <2>10, KeptObjects DEF Base
<1> QED
  BY <1>6, <1>7 DEF SubmitNext

\* startDevices(), called by the restart timer: the devices that get a query
\* are starting, and the queries wait behind what there was.
LEMMA RestartIs ==
    ASSUME Base, NEW c \in Controller, Restart(c)
    PROVE  \E ds \in Seq(Device) :
              /\ allocated + Len(ds) <= MaxRequests
              /\ \A d \in Range(ds) : /\ d \in DOMAIN devices
                                      /\ devices[d].controller = c /\ devices[d].class = "relay"
              /\ devices' = Starting(Range(ds), devices)
              /\ Queries(ds, devices) \in Seq(RequestType)
              /\ Len(Queries(ds, devices)) = Len(ds)
              /\ Range(Queries(ds, devices)) = {Query(d, devices) : d \in Range(ds)}
              /\ queue' = [queue EXCEPT ![c] = @ \o Queries(ds, devices)]
              /\ allocated' = allocated + Len(ds)
<1> DEFINE room == MaxRequests - allocated
           ds   == Started(c, devices, room)
<1>1. room \in Nat /\ allocated \in Nat /\ MaxRequests \in Nat
  BY HeapAssumption DEF HeapAssumption, Base, Heap
<1>2. /\ ds \in Seq(Device) /\ Len(ds) <= room
      /\ Range(ds) \subseteq Range(ToStart(c, devices))
  <2> HIDE DEF room
  <2> QED
    BY <1>1, StartedIs
<1>3. \A d \in Range(ds) : /\ d \in DOMAIN devices
                           /\ devices[d].controller = c /\ devices[d].class = "relay"
  <2> HIDE DEF ds
  <2> QED
    BY <1>2, Starters
<1>4. \A d \in Range(ds) : devices[d].epoch \in 0 .. 1 /\ devices[d].nodes \subseteq Nat
  <2> HIDE DEF ds
  <2>1. devices \in [DOMAIN devices -> Object]
    BY DEF Base, Typed
  <2> QED
    BY <1>2, <2>1, Startable
<1>5. /\ Queries(ds, devices) \in Seq(RequestType)
      /\ Len(Queries(ds, devices)) = Len(ds)
      /\ Range(Queries(ds, devices)) = {Query(d, devices) : d \in Range(ds)}
  <2> HIDE DEF ds
  <2> QED
    BY <1>2, <1>4, QueriesAre
<1>6. /\ devices' = Starting(Range(ds), devices)
      /\ queue' = [queue EXCEPT ![c] = @ \o Queries(ds, devices)]
      /\ allocated' = allocated + Len(ds)
  BY Zenon DEF Restart
<1>7. Len(ds) \in Nat
  <2> HIDE DEF ds
  <2> QED
    BY <1>2, LenProperties
<1>8. allocated + Len(ds) <= MaxRequests
  <2> HIDE DEF ds
  <2> QED
    BY <1>1, <1>2, <1>7
<1> HIDE DEF ds
<1> QED
  BY <1>2, <1>3, <1>5, <1>6, <1>8

\* The restart timer.
LEMMA BaseRestart ==
    ASSUME Base, NEW c \in Controller, Restart(c)
    PROVE  Base' /\ Kept
<1>1. PICK ds \in Seq(Device) :
         /\ allocated + Len(ds) <= MaxRequests
         /\ \A d \in Range(ds) : /\ d \in DOMAIN devices
                                 /\ devices[d].controller = c /\ devices[d].class = "relay"
         /\ devices' = Starting(Range(ds), devices)
         /\ Queries(ds, devices) \in Seq(RequestType)
         /\ Len(Queries(ds, devices)) = Len(ds)
         /\ Range(Queries(ds, devices)) = {Query(d, devices) : d \in Range(ds)}
         /\ queue' = [queue EXCEPT ![c] = @ \o Queries(ds, devices)]
         /\ allocated' = allocated + Len(ds)
  BY RestartIs
<1> DEFINE t == Queries(ds, devices)
<1>2. /\ UNCHANGED <<epoch, phase, message, built, output>>
      /\ restart' \in [Controller -> BOOLEAN]
  BY DEF Restart, messageVars, Base, Typed
<1>3. devices \in [DOMAIN devices -> Object] /\ queue \in [Controller -> Seq(RequestType)]
  BY DEF Base, Typed
<1>4. Kept
  <2>1. /\ DOMAIN devices' = DOMAIN devices
        /\ devices' \in [DOMAIN devices' -> Object]
        /\ \A d \in DOMAIN devices :
              /\ devices'[d].controller = devices[d].controller
              /\ devices'[d].class = devices[d].class
              /\ devices'[d].nodes = devices[d].nodes
              /\ devices'[d].epoch = devices[d].epoch
              /\ devices'[d].known = devices[d].known
              /\ devices'[d].states = devices[d].states
    BY <1>1, <1>3, StartingIs
  <2>2. \A d \in DOMAIN devices : /\ devices[d].known \subseteq devices[d].nodes
                                  /\ devices[d].states \subseteq devices[d].nodes
    BY DEF Base, Current
  <2> QED
    BY <1>2, <2>1, <2>2 DEF Kept
<1> HIDE DEF t
<1>5. t \in Seq(RequestType) /\ Len(t) = Len(ds) /\ Len(ds) \in Nat
      /\ Range(t) = {Query(d, devices) : d \in Range(ds)}
  BY <1>1, LenProperties DEF t
<1>6. /\ queue' = [queue EXCEPT ![c] = queue[c] \o t]
      /\ \A b \in Controller : queue'[b] = IF b = c THEN queue[c] \o t ELSE queue[b]
      /\ queue' \in [Controller -> Seq(RequestType)]
  <2>1. queue[c] \o t \in Seq(RequestType)
    BY <1>3, <1>5, ConcatProperties
  <2> QED
    BY <1>1, <1>3, <2>1 DEF t
<1>7. Typed'
  BY <1>2, <1>4, <1>6, KeptObjects DEF Base, Typed, Kept
<1>8. Reading'
  BY <1>2 DEF Base, Reading
<1>9. Owners'
  <2>1. Range(queue'[c]) = Range(queue[c]) \cup Range(t)
    <3>1. queue[c] \in Seq(RequestType) /\ queue'[c] = queue[c] \o t
      BY <1>3, <1>6
    <3> QED
      BY <1>5, <3>1, RangeConcat
  <2>2. \A r \in Range(t) : /\ Belongs(r)
                            /\ devices[r.device].controller = c
                            /\ devices[r.device].class = "relay"
    BY <1>1, <1>5, QueryIs DEF Belongs
  <2>3. \A b \in Controller : \A r \in Range(queue'[b]) :
           \/ r \in Range(queue[b])
           \/ Belongs(r) /\ devices[r.device].controller = b /\ devices[r.device].class = "relay"
    BY <1>6, <2>1, <2>2
  <2> QED
    BY <1>2, <1>4, <2>3, KeptOwners
<1>10. Heap'
  <2>1. queue[c] \in Seq(RequestType) /\ Len(queue[c]) \in Nat
    BY <1>3, LenProperties
  <2>2. queue'[c] \in Seq(RequestType) /\ Len(queue'[c]) = Len(queue[c]) + Len(ds)
    <3>1. queue[c] \o t \in Seq(RequestType)
          /\ Len(queue[c] \o t) = Len(queue[c]) + Len(t)
      BY <1>5, <2>1, ConcatProperties
    <3> QED
      BY <1>5, <1>6, <3>1
  <2>3. \A b \in Controller : b # c => queue'[b] = queue[b]
    BY <1>6
  <2>4. /\ IsFiniteSet(Places(queue)) /\ Cardinality(Places(queue)) \in Nat
        /\ allocated = Len(built) + Cardinality(Places(queue))
        /\ allocated \in 0 .. MaxRequests /\ MaxRequests \in Nat /\ Len(built) \in Nat
    BY FS_CardinalityType, HeapAssumption, LenProperties
       DEF Base, Typed, Heap, Owned, HeapAssumption
  <2>5. /\ IsFiniteSet(Places(queue'))
        /\ Cardinality(Places(queue'))
              = Cardinality(Places(queue)) - Len(queue[c]) + Len(queue'[c])
    BY <2>1, <2>2, <2>3, <2>4, PlacesChange
  <2>6. allocated' \in 0 .. MaxRequests
    BY <1>1, <1>5, <2>4
  <2>7. allocated' = Len(built') + Cardinality(Places(queue'))
    BY <1>1, <1>2, <1>5, <2>1, <2>2, <2>4, <2>5
  <2> QED
    BY <2>5, <2>6, <2>7 DEF Heap, Owned
<1> QED
  BY <1>4, <1>7, <1>8, <1>9, <1>10, KeptObjects DEF Base

\* The first request that waits for a controller is one of its boards'.
LEMMA FirstWaiting ==
    ASSUME Base, NEW c \in Controller, queue[c] # <<>>
    PROVE  LET r == Head(queue[c]) IN
           /\ r \in RequestType /\ Belongs(r) /\ r \in Range(queue[c])
           /\ r.device \in Device /\ r.device \in DOMAIN devices
           /\ devices[r.device] \in Object
           /\ r.nodes \subseteq Nat /\ output[r.device] \subseteq Nat
           /\ devices[r.device].controller = c /\ devices[r.device].class = "relay"
<1> DEFINE r == Head(queue[c])
<1>1. queue[c] \in Seq(RequestType)
  BY DEF Base, Typed
<1>2. r \in RequestType /\ r \in Range(queue[c])
  BY <1>1, HeadTailProperties, RangeHeadTail
<1>3. Belongs(r) /\ devices[r.device].controller = c /\ devices[r.device].class = "relay"
  BY <1>2, RequestsAre DEF Base, Owners
<1>4. r.device \in Device /\ r.nodes \subseteq Nat /\ output[r.device] \subseteq Nat
  BY <1>2 DEF RequestType, Base, Typed
<1>5. r.device \in DOMAIN devices /\ devices[r.device] \in Object
  BY <1>3 DEF Belongs, Base, Typed
<1> QED
  BY <1>2, <1>3, <1>4, <1>5

\* When it is done, it leaves its queue and the heap.
LEMMA Taken ==
    ASSUME Base, NEW c \in Controller, queue[c] # <<>>,
           queue' = [queue EXCEPT ![c] = Tail(@)],
           allocated' = allocated - 1, built' = built
    PROVE  /\ Heap'
           /\ queue' \in [Controller -> Seq(RequestType)]
           /\ \A b \in Controller : queue'[b] = IF b = c THEN Tail(queue[c]) ELSE queue[b]
           /\ \A b \in Controller : Range(queue'[b]) \subseteq Range(queue[b])
<1>1. queue \in [Controller -> Seq(RequestType)] /\ queue[c] \in Seq(RequestType)
      /\ Len(queue[c]) \in Nat
  BY LenProperties DEF Base, Typed
<1>2. /\ Tail(queue[c]) \in Seq(RequestType) /\ Len(Tail(queue[c])) = Len(queue[c]) - 1
      /\ Range(Tail(queue[c])) \subseteq Range(queue[c])
  BY <1>1, HeadTailProperties, RangeHeadTail
<1>3. \A b \in Controller : queue'[b] = IF b = c THEN Tail(queue[c]) ELSE queue[b]
  BY <1>1
<1>4. queue' \in [Controller -> Seq(RequestType)]
  BY <1>1, <1>2
<1>5. \A b \in Controller : Range(queue'[b]) \subseteq Range(queue[b])
  BY <1>2, <1>3
<1>6. queue'[c] \in Seq(RequestType) /\ Len(queue'[c]) = Len(queue[c]) - 1
      /\ \A b \in Controller : b # c => queue'[b] = queue[b]
  BY <1>2, <1>3
<1>7. /\ IsFiniteSet(Places(queue))
      /\ allocated = Len(built) + Cardinality(Places(queue)) /\ Len(built) \in Nat
      /\ allocated \in 0 .. MaxRequests /\ MaxRequests \in Nat
  BY HeapAssumption, LenProperties DEF Base, Typed, Heap, Owned, HeapAssumption
<1>8. /\ IsFiniteSet(Places(queue'))
      /\ Cardinality(Places(queue)) \in Nat /\ Cardinality(Places(queue)) >= Len(queue[c])
      /\ Cardinality(Places(queue')) = Cardinality(Places(queue)) - Len(queue[c]) + Len(queue'[c])
  BY <1>1, <1>6, <1>7, PlacesChange
<1>9. Len(queue[c]) # 0
  BY <1>1, EmptySeq
<1>10. allocated' \in 0 .. MaxRequests
  BY <1>1, <1>7, <1>8, <1>9
<1>11. allocated' = Len(built') + Cardinality(Places(queue'))
  BY <1>1, <1>6, <1>7, <1>8
<1>12. Heap'
  BY <1>8, <1>10, <1>11 DEF Heap, Owned
<1> QED
  BY <1>3, <1>4, <1>5, <1>12

\* What a board knows after its answer.
LEMMA LearntIs ==
    ASSUME NEW r, NEW o \in Object, r.nodes \subseteq o.nodes,
           o.known \subseteq o.nodes, o.states \subseteq o.nodes,
           r.command \in Command, r.command # "undefined"
    PROVE  LET l == Learnt(r, o)
               n == [l EXCEPT !.state = IF @ = "starting" THEN "normal" ELSE @] IN
           /\ n \in Object
           /\ n.controller = o.controller /\ n.class = o.class
           /\ n.nodes = o.nodes /\ n.epoch = o.epoch
           /\ n.known \subseteq o.nodes /\ n.states \subseteq o.nodes
           /\ n.state = IF o.state = "starting" THEN "normal" ELSE o.state
           /\ r.command = "query" =>
                 n.known = o.nodes /\ n.states = output[r.device] \cap o.nodes
           /\ r.command = "on" =>
                 n.known = o.known \cup r.nodes /\ n.states = o.states \cup r.nodes
           /\ r.command = "off" =>
                 n.known = o.known \cup r.nodes /\ n.states = o.states \ r.nodes
           /\ r.command = "toggle" =>
                 n.known = o.known \cup r.nodes /\ n.states = SymDiff(o.states, r.nodes)
<1> DEFINE l == Learnt(r, o)
           n == [l EXCEPT !.state = IF @ = "starting" THEN "normal" ELSE @]
           S == output[r.device] \cap o.nodes
           D == SymDiff(o.states, r.nodes)
<1>1. o.nodes \in SUBSET Nat /\ r.nodes \in SUBSET Nat /\ D \subseteq o.nodes
  BY DEF Object, SymDiff
<1>2. CASE r.command = "query"
  <2>1. l = [o EXCEPT !.known = o.nodes, !.states = S]
    BY <1>2 DEF Learnt
  <2>2. S \subseteq o.nodes
    OBVIOUS
  <2> HIDE DEF l, S
  <2> QED
    BY <1>1, <1>2, <2>1, <2>2 DEF Object, S, l
<1>3. CASE r.command = "on"
  <2>1. l = [o EXCEPT !.known = o.known \cup r.nodes, !.states = o.states \cup r.nodes]
    BY <1>3 DEF Learnt
  <2> HIDE DEF l
  <2> QED
    BY <1>1, <1>3, <2>1 DEF Object, l
<1>4. CASE r.command = "off"
  <2>1. l = [o EXCEPT !.known = o.known \cup r.nodes, !.states = o.states \ r.nodes]
    BY <1>4 DEF Learnt
  <2> HIDE DEF l
  <2> QED
    BY <1>1, <1>4, <2>1 DEF Object, l
<1>5. CASE r.command = "toggle"
  <2>1. l = [o EXCEPT !.known = o.known \cup r.nodes, !.states = D]
    BY <1>5 DEF Learnt
  <2> HIDE DEF l, D
  <2> QED
    BY <1>1, <1>5, <2>1 DEF Object, l, D
<1> QED
  BY <1>2, <1>3, <1>4, <1>5 DEF Command

\* A request succeeds: only its device has changed, and only its outputs.
LEMMA SucceedIs ==
    ASSUME Base, NEW c \in Controller, Succeed(c)
    PROVE  LET r == Head(queue[c])
               d == r.device IN
           /\ Idle /\ queue[c] # <<>> /\ r.command # "undefined"
           /\ queue' = [queue EXCEPT ![c] = Tail(@)] /\ allocated' = allocated - 1
           /\ UNCHANGED <<restart, epoch, phase, message, built, toggled>>
           /\ Kept /\ output' \in [Device -> SUBSET Nat]
           /\ \A b \in Device : output'[b] = IF b = d THEN Apply(r) ELSE output[b]
           /\ \A b \in DOMAIN devices : b # d => devices'[b] = devices[b]
           /\ devices'[d].state = IF devices[d].state = "starting" THEN "normal"
                                                                   ELSE devices[d].state
           /\ r.command = "query" =>
                 /\ devices'[d].known = devices[d].nodes
                 /\ devices'[d].states = output[d] \cap devices[d].nodes
           /\ r.command = "on" =>
                 /\ devices'[d].known = devices[d].known \cup r.nodes
                 /\ devices'[d].states = devices[d].states \cup r.nodes
           /\ r.command = "off" =>
                 /\ devices'[d].known = devices[d].known \cup r.nodes
                 /\ devices'[d].states = devices[d].states \ r.nodes
           /\ r.command = "toggle" =>
                 /\ devices'[d].known = devices[d].known \cup r.nodes
                 /\ devices'[d].states = SymDiff(devices[d].states, r.nodes)
<1> DEFINE r == Head(queue[c])
           d == r.device
           o == devices[d]
           l == Learnt(r, o)
           n == [l EXCEPT !.state = IF @ = "starting" THEN "normal" ELSE @]
<1>1. /\ Idle /\ queue[c] # <<>> /\ r.command # "undefined"
      /\ queue' = [queue EXCEPT ![c] = Tail(@)] /\ allocated' = allocated - 1
      /\ UNCHANGED <<restart, epoch, phase, message, built, toggled>>
      /\ output' = [output EXCEPT ![d] = Apply(r)]
      /\ devices' = [devices EXCEPT ![d] = n]
  BY Zenon DEF Succeed, messageVars
<1>2. /\ r \in RequestType /\ Belongs(r) /\ d \in Device /\ d \in DOMAIN devices
      /\ o \in Object /\ r.nodes \subseteq Nat /\ output[d] \subseteq Nat
  BY <1>1, FirstWaiting
<1>3. r.nodes \subseteq o.nodes /\ o.known \subseteq o.nodes /\ o.states \subseteq o.nodes
  BY <1>2 DEF Belongs, Base, Current
<1>4. r.command \in Command
  BY <1>2 DEF RequestType
<1>5. /\ n \in Object
      /\ n.controller = o.controller /\ n.class = o.class
      /\ n.nodes = o.nodes /\ n.epoch = o.epoch
      /\ n.known \subseteq o.nodes /\ n.states \subseteq o.nodes
      /\ n.state = IF o.state = "starting" THEN "normal" ELSE o.state
      /\ r.command = "query" =>
            n.known = o.nodes /\ n.states = output[d] \cap o.nodes
      /\ r.command = "on" =>
            n.known = o.known \cup r.nodes /\ n.states = o.states \cup r.nodes
      /\ r.command = "off" =>
            n.known = o.known \cup r.nodes /\ n.states = o.states \ r.nodes
      /\ r.command = "toggle" =>
            n.known = o.known \cup r.nodes /\ n.states = SymDiff(o.states, r.nodes)
  <2> HIDE DEF r, o
  <2> QED
    BY <1>1, <1>2, <1>3, <1>4, LearntIs
<1>6. Kept
  <2> HIDE DEF d, n
  <2> QED
    BY <1>1, <1>2, <1>5, OneObject
<1>7. devices \in [DOMAIN devices -> Object] /\ output \in [Device -> SUBSET Nat]
  BY DEF Base, Typed
<1>8. devices'[d] = n /\ \A b \in DOMAIN devices : b # d => devices'[b] = devices[b]
  <2> HIDE DEF d, n
  <2> QED
    BY <1>1, <1>2, <1>7
<1>9. /\ output' \in [Device -> SUBSET Nat]
      /\ \A b \in Device : output'[b] = IF b = d THEN Apply(r) ELSE output[b]
  <2>1. Apply(r) \in SUBSET Nat
    BY <1>2, ApplyIs
  <2> HIDE DEF d, r
  <2> QED
    BY <1>1, <1>2, <1>7, <2>1
<1> HIDE DEF n
<1> QED
  BY <1>1, <1>5, <1>6, <1>8, <1>9, Zenon

\* A step that takes the first request of a queue.
LEMMA BaseTaken ==
    ASSUME Base, NEW c \in Controller, queue[c] # <<>>, Kept,
           queue' = [queue EXCEPT ![c] = Tail(@)], allocated' = allocated - 1,
           UNCHANGED <<phase, message, built>>,
           restart' \in [Controller -> BOOLEAN], output' \in [Device -> SUBSET Nat]
    PROVE  Base'
<1>1. /\ Heap' /\ queue' \in [Controller -> Seq(RequestType)]
      /\ \A b \in Controller : Range(queue'[b]) \subseteq Range(queue[b])
  BY Taken
<1>2. Typed'
  BY <1>1, KeptObjects DEF Base, Typed, Kept
<1>3. Reading'
  BY DEF Base, Reading
<1>4. Owners'
  BY <1>1, KeptOwners
<1> QED
  BY <1>1, <1>2, <1>3, <1>4, KeptObjects DEF Base

\* The first request succeeds, ...
LEMMA BaseSucceed ==
    ASSUME Base, NEW c \in Controller, Succeed(c)
    PROVE  Base'
<1>1. /\ queue[c] # <<>> /\ Kept
      /\ queue' = [queue EXCEPT ![c] = Tail(@)] /\ allocated' = allocated - 1
      /\ UNCHANGED <<restart, phase, message, built>>
      /\ output' \in [Device -> SUBSET Nat]
  BY SucceedIs
<1>2. restart' \in [Controller -> BOOLEAN]
  BY <1>1 DEF Base, Typed
<1> QED
  BY <1>1, <1>2, BaseTaken

\* ... or fails.
LEMMA BaseFail ==
    ASSUME Base, NEW c \in Controller, Fail(c)
    PROVE  Base'
<1> DEFINE r == Head(queue[c])
<1>1. /\ queue[c] # <<>> /\ Fault(r.device)
      /\ queue' = [queue EXCEPT ![c] = Tail(@)] /\ allocated' = allocated - 1
      /\ UNCHANGED <<epoch, phase, message, built>>
  BY DEF Fail, messageVars
<1>2. PICK S \in SUBSET r.nodes :
         output' = [output EXCEPT ![r.device] = Apply([r EXCEPT !.nodes = S])]
  BY DEF Fail
<1>3. /\ r \in RequestType /\ r.device \in DOMAIN devices /\ r.device \in Device
      /\ r.nodes \subseteq Nat /\ output[r.device] \subseteq Nat
  BY <1>1, FirstWaiting
<1>4. Kept /\ restart' \in [Controller -> BOOLEAN]
  <2> HIDE DEF r
  <2> QED
    BY <1>1, <1>3, FaultIs
<1>5. output' \in [Device -> SUBSET Nat]
  <2> DEFINE x == [r EXCEPT !.nodes = S]
  <2>1. x.nodes \subseteq Nat /\ x.device = r.device
    BY <1>3 DEF RequestType
  <2>2. Apply(x) \in SUBSET Nat
    <3> HIDE DEF x
    <3> QED
      BY <1>3, <2>1, ApplyIs
  <2> HIDE DEF x
  <2>3. output' = [output EXCEPT ![r.device] = Apply(x)]
    BY <1>2 DEF x
  <2>4. output \in [Device -> SUBSET Nat]
    BY DEF Base, Typed
  <2> QED
    BY <2>2, <2>3, <2>4
<1> QED
  BY <1>1, <1>4, <1>5, BaseTaken

-----------------------------------------------------------------------------
(* Types, objects and the heap *)

\* At first there is nothing.
LEMMA BaseInit ==
    ASSUME Init
    PROVE  Base
<1>1. /\ DOMAIN devices = {} /\ devices \in [DOMAIN devices -> Object]
      /\ built = <<>> /\ phase = "idle" /\ allocated = 0 /\ epoch = 0
      /\ \A c \in Controller : queue[c] = <<>>
  BY DEF Init
<1>2. /\ queue \in [Controller -> Seq(RequestType)]
      /\ restart \in [Controller -> BOOLEAN]
      /\ output \in [Device -> SUBSET Nat]
  BY DEF Init
<1>3. Typed
  BY <1>1, <1>2 DEF Typed
<1>4. Reading
  BY <1>1 DEF Reading
<1>5. Current
  BY <1>1 DEF Current
<1>6. Owners
  BY <1>1, RangeEmpty, RequestsAre DEF Owners
<1>7. Heap
  <2>1. Places(queue) = {}
    BY <1>1, PlacesEmpty
  <2>2. IsFiniteSet(Places(queue)) /\ Cardinality(Places(queue)) = 0
    BY <2>1, FS_EmptySet
  <2>3. Len(built) = 0 /\ MaxRequests \in Nat
    BY <1>1, HeapAssumption DEF HeapAssumption
  <2>4. allocated \in 0 .. MaxRequests
    BY <1>1, <2>3
  <2> QED
    BY <1>1, <2>2, <2>3, <2>4 DEF Heap, Owned
<1> QED
  BY <1>3, <1>4, <1>5, <1>6, <1>7 DEF Base

\* Every step keeps types, objects and the heap in order.
LEMMA BaseNext ==
    ASSUME Base, [Next]_vars
    PROVE  Base'
<1>1. CASE UNCHANGED vars
  <2>1. UNCHANGED <<devices, queue, restart, phase, message, built, allocated, output, epoch>>
    BY <1>1 DEF vars, objectVars, messageVars
  <2>2. Typed' /\ Reading' /\ Current'
    BY <2>1 DEF Base, Typed, Reading, Current
  <2>3. Owners'
    BY <2>1, SameObjects, KeptOwners
  <2>4. Heap'
    BY <2>1 DEF Base, Heap, Owned
  <2> QED
    BY <2>2, <2>3, <2>4 DEF Base
<1>2. ASSUME NEW f \in Configs, Begin(f) PROVE Base'
  BY <1>2, BaseBegin
<1>3. CASE Stop
  BY <1>3, BaseStop
<1>4. CASE End
  BY <1>4, BaseEnd
<1>5. ASSUME NEW m \in Messages, Handle(m) PROVE Base'
  BY <1>5, BaseHandle
<1>6. CASE Build
  BY <1>6, BaseBuild
<1>7. CASE Resolve
  BY <1>7, BaseResolve
<1>8. CASE SubmitNext
  BY <1>8, BaseSubmit
<1>9. CASE Return
  BY <1>9, BaseReturn
<1>10. ASSUME NEW c \in Controller, Succeed(c) PROVE Base'
  BY <1>10, BaseSucceed
<1>11. ASSUME NEW c \in Controller, Fail(c) PROVE Base'
  BY <1>11, BaseFail
<1>12. ASSUME NEW c \in Controller, Restart(c) PROVE Base'
  BY <1>12, BaseRestart
<1> QED
  BY <1>1, <1>2, <1>3, <1>4, <1>5, <1>6, <1>7, <1>8, <1>9, <1>10, <1>11, <1>12 DEF Next

\* Both hold in every state.
LEMMA Basic == Spec => []Base
<1>1. Init => Base
  BY BaseInit
<1>2. Base /\ [Next]_vars => Base'
  BY BaseNext
<1> QED
  BY <1>1, <1>2, PTL DEF Spec

\* TypeOK: every variable has its type, in every state, and every request that
\* waits selects nodes of its device (DeviceManager::handleMessage builds no
\* other).
THEOREM TypeCorrect == Spec => []TypeOK
<1>1. Base => TypeOK
  <2> SUFFICES ASSUME Base
               PROVE  TypeOK
    OBVIOUS
  <2>1. \A d \in DOMAIN devices :
           /\ devices[d].controller \in Controller
           /\ devices[d].state \in {"stopped", "starting", "fault", "normal"}
           /\ devices[d].known \subseteq devices[d].nodes
           /\ devices[d].states \subseteq devices[d].nodes
    BY DEF Base, Typed, Current, Object
  <2>2. \A r \in Requests : r \in RequestType /\ Belongs(r)
    <3>1. built \in Seq(RequestType) /\ \A c \in Controller : queue[c] \in Seq(RequestType)
      BY DEF Base, Typed
    <3>2. /\ \A r \in Range(built) : r \in RequestType
          /\ \A c \in Controller : \A r \in Range(queue[c]) : r \in RequestType
      BY <3>1, RangeIs
    <3> QED
      BY <3>2, RequestsAre DEF Base, Owners
  <2>3. \A r \in Requests : r.command \in Command /\ r.nodes \subseteq devices[r.device].nodes
    BY <2>2 DEF RequestType, Belongs
  <2>4. DOMAIN queue = Controller /\ DOMAIN output = Device
    BY DEF Base, Typed
  <2> QED
    BY <2>1, <2>3, <2>4 DEF TypeOK, Base, Typed, Heap
<1> QED
  BY <1>1, Basic, PTL

\* Owned: every request object on the heap is in exactly one list, the one
\* handleMessage() builds or a controller's queue, whichever element of a
\* message was refused and however many requests the heap can hold.
THEOREM NoRequestLost == Spec => []Owned
<1>1. Base => Owned
  BY DEF Base, Heap
<1> QED
  BY <1>1, Basic, PTL

\* DevicesLive: whatever is configured, stopped or ended, no request that waits
\* is for an object of an earlier configuration, and none is in the queue of
\* another device's controller.
THEOREM NoStaleDevice == Spec => []DevicesLive
<1>1. Base => DevicesLive
  BY DEF Base, Owners, Belongs, DevicesLive
<1> QED
  BY <1>1, Basic, PTL

-----------------------------------------------------------------------------
(* What is known of the boards *)

\* A board keeps what it knows, or is asked, or has just answered.
LEMMA KnowsStep ==
    ASSUME Knows, Kept,
           \A d \in DOMAIN devices :
              devices[d].class = "relay" /\ devices'[d].state \in {"starting", "normal"} =>
              \/ /\ devices'[d].state = devices[d].state
                 /\ devices'[d].known = devices[d].known
                 /\ devices'[d].states = devices[d].states
                 /\ output'[d] = output[d]
                 /\ \A r \in Range(Line(d)) : r.device = d /\ r.command = "query" =>
                       r \in Range(queue'[devices[d].controller])
              \/ \E r \in Range(queue'[devices[d].controller]) :
                    r.device = d /\ r.command = "query"
              \/ /\ devices'[d].state = "normal"
                 /\ devices'[d].known = devices[d].nodes
                 /\ devices'[d].states = output'[d] \cap devices[d].nodes
    PROVE  Knows'
<1> SUFFICES ASSUME NEW d \in DOMAIN devices', devices'[d].class = "relay",
                    devices'[d].state \in {"starting", "normal"}
             PROVE  Asked(d)' \/ (devices'[d].state = "normal" /\ Synced(d)')
  BY DEF Knows
<1>1. /\ d \in DOMAIN devices /\ devices[d].class = "relay"
      /\ devices'[d].controller = devices[d].controller
      /\ devices'[d].nodes = devices[d].nodes
  BY DEF Kept
<1> DEFINE q == queue'[devices[d].controller]
<1>2. Asked(d)' <=> \E r \in Range(q) : r.device = d /\ r.command = "query"
  BY <1>1 DEF Asked, Line
<1>3. Synced(d)' <=> /\ devices'[d].known = devices[d].nodes
                     /\ devices'[d].states = output'[d] \cap devices[d].nodes
  BY <1>1 DEF Synced
<1>4. CASE /\ devices'[d].state = devices[d].state
           /\ devices'[d].known = devices[d].known
           /\ devices'[d].states = devices[d].states
           /\ output'[d] = output[d]
           /\ \A r \in Range(Line(d)) : r.device = d /\ r.command = "query" => r \in Range(q)
  <2>1. Asked(d) \/ (devices[d].state = "normal" /\ Synced(d))
    BY <1>1, <1>4 DEF Knows
  <2>2. Asked(d) => \E r \in Range(q) : r.device = d /\ r.command = "query"
    BY <1>4 DEF Asked
  <2>3. Synced(d) => Synced(d)'
    BY <1>3, <1>4 DEF Synced
  <2> QED
    BY <1>2, <1>4, <2>1, <2>2, <2>3
<1>5. CASE \E r \in Range(q) : r.device = d /\ r.command = "query"
  BY <1>2, <1>5
<1>6. CASE /\ devices'[d].state = "normal" /\ devices'[d].known = devices[d].nodes
           /\ devices'[d].states = output'[d] \cap devices[d].nodes
  BY <1>3, <1>6
<1> QED
  BY <1>1, <1>4, <1>5, <1>6

\* A step that leaves the boards alone, and all requests in their queues.
LEMMA KnowsSame ==
    ASSUME Base, Knows, UNCHANGED <<devices, epoch>>,
           \A c \in Controller : Range(queue[c]) \subseteq Range(queue'[c]),
           \A d \in DOMAIN devices : devices[d].class = "relay" => output'[d] = output[d]
    PROVE  Knows'
<1>1. Kept
  BY SameObjects
<1>2. \A d \in DOMAIN devices : devices[d].controller \in Controller
  BY DEF Base, Typed, Object
<1>3. \A d \in DOMAIN devices : \A r \in Range(Line(d)) : r \in Range(queue'[devices[d].controller])
  BY <1>2 DEF Line
<1> QED
  BY <1>1, <1>3, KnowsStep

\* begin() asks every board that it leaves starting, and none is normal yet.
LEMMA KnowsBegin ==
    ASSUME Base, NEW f \in Configs, Begin(f)
    PROVE  Knows'
<1>1. \A d \in DOMAIN devices' :
         /\ devices'[d].state \in {"starting", "stopped"}
         /\ devices'[d].state = "starting" =>
               \E r \in Range(queue'[devices'[d].controller]) : r.device = d /\ r.command = "query"
  BY BeginIs
<1>2. \A d \in DOMAIN devices' : devices'[d].state = "starting" => Asked(d)'
  BY <1>1 DEF Asked, Line
<1> QED
  BY <1>1, <1>2 DEF Knows

\* Requests that are submitted do not change what is known.
LEMMA KnowsSubmit ==
    ASSUME Base, Knows, SubmitNext
    PROVE  Knows'
<1> DEFINE r == Head(built)
<1>1. built # <<>> /\ epoch' = epoch
  BY DEF SubmitNext
<1>2. r.device \in DOMAIN devices /\ r.device \in Device /\ r \in RequestType
  BY <1>1, FirstBuilt DEF Belongs
<1>3. output \in [Device -> SUBSET Nat] /\ queue \in [Controller -> Seq(RequestType)]
      /\ DOMAIN devices \subseteq Device
  BY DEF Base, Typed
<1>4. CASE devices[r.device].class = "light" /\ SubmitLight(r)
  <2>1. queue' = queue
    BY <1>4 DEF SubmitLight
  <2>2. CASE r.command \in {"on", "off"}
    <3>1. devices' = devices /\ output' = [output EXCEPT ![r.device] = Apply(r)]
      BY <1>4, <2>2 DEF SubmitLight
    <3>2. \A d \in DOMAIN devices : devices[d].class = "relay" => output'[d] = output[d]
      <4> HIDE DEF r
      <4> QED
        BY <1>3, <1>4, <3>1
    <3> QED
      BY <1>1, <2>1, <3>1, <3>2, KnowsSame
  <2>3. CASE r.command \notin {"on", "off"}
    <3>1. Fault(r.device) /\ output' = output
      BY <1>4, <2>3 DEF SubmitLight
    <3>2. /\ Kept
          /\ \A b \in DOMAIN devices :
                /\ devices'[b].known = devices[b].known /\ devices'[b].states = devices[b].states
                /\ devices'[b].state = IF b = r.device THEN "fault" ELSE devices[b].state
      <4> HIDE DEF r
      <4> QED
        BY <1>1, <1>2, <3>1, FaultIs
    <3> HIDE DEF r
    <3>3. \A d \in DOMAIN devices :
             devices[d].class = "relay" /\ devices'[d].state \in {"starting", "normal"} =>
             /\ devices'[d].state = devices[d].state
             /\ devices'[d].known = devices[d].known
             /\ devices'[d].states = devices[d].states
             /\ output'[d] = output[d]
             /\ \A x \in Range(Line(d)) : x.device = d /\ x.command = "query" =>
                   x \in Range(queue'[devices[d].controller])
      BY <1>4, <2>1, <3>1, <3>2 DEF Line
    <3> QED
      BY <3>2, <3>3, KnowsStep
  <2> QED
    BY <2>2, <2>3
<1>5. CASE devices[r.device].class = "relay" /\ SubmitRelay(r)
  <2> DEFINE c == devices[r.device].controller
  <2>1. /\ queue' = [queue EXCEPT ![c] = Append(@, r)]
        /\ UNCHANGED <<devices, output>>
    BY <1>5 DEF SubmitRelay
  <2> HIDE DEF c, r
  <2>2. \A b \in Controller : queue'[b] = IF b = c THEN Append(queue[b], r) ELSE queue[b]
    BY <1>3, <2>1
  <2>3. \A b \in Controller : Range(queue[b]) \subseteq Range(queue'[b])
    <3> SUFFICES ASSUME NEW b \in Controller
                 PROVE  Range(queue[b]) \subseteq Range(queue'[b])
      OBVIOUS
    <3>1. queue[b] \in Seq(RequestType)
      BY <1>3
    <3>2. Range(Append(queue[b], r)) = Range(queue[b]) \cup {r}
      BY <1>2, <3>1, RangeAppend
    <3> QED
      BY <2>2, <3>2
  <2> QED
    BY <1>1, <2>1, <2>3, KnowsSame
<1> QED
  BY <1>4, <1>5 DEF SubmitNext

\* A board that starts is asked.
LEMMA KnowsRestart ==
    ASSUME Base, Knows, NEW c \in Controller, Restart(c)
    PROVE  Knows'
<1>1. PICK ds \in Seq(Device) :
         /\ \A d \in Range(ds) : /\ d \in DOMAIN devices
                                 /\ devices[d].controller = c /\ devices[d].class = "relay"
         /\ devices' = Starting(Range(ds), devices)
         /\ Queries(ds, devices) \in Seq(RequestType)
         /\ Range(Queries(ds, devices)) = {Query(d, devices) : d \in Range(ds)}
         /\ queue' = [queue EXCEPT ![c] = @ \o Queries(ds, devices)]
  BY RestartIs
<1> DEFINE t == Queries(ds, devices)
<1>2. Kept /\ output' = output
  BY BaseRestart DEF Restart
<1>3. /\ devices \in [DOMAIN devices -> Object] /\ queue \in [Controller -> Seq(RequestType)]
      /\ \A d \in DOMAIN devices : devices[d].controller \in Controller
  BY DEF Base, Typed, Object
<1>4. \A d \in DOMAIN devices :
         /\ devices'[d].known = devices[d].known /\ devices'[d].states = devices[d].states
         /\ devices'[d].state = IF d \in Range(ds) THEN "starting" ELSE devices[d].state
  BY <1>1, <1>3, StartingIs
<1>5. \A b \in Controller : queue'[b] = IF b = c THEN queue[b] \o t ELSE queue[b]
  BY <1>1, <1>3
<1>6. Range(queue'[c]) = Range(queue[c]) \cup Range(t)
  <2>1. queue[c] \in Seq(RequestType) /\ t \in Seq(RequestType)
    BY <1>1, <1>3
  <2> HIDE DEF t
  <2>2. Range(queue[c] \o t) = Range(queue[c]) \cup Range(t)
    BY <2>1, RangeConcat
  <2> QED
    BY <1>5, <2>2
<1>7. \A d \in Range(ds) : \E r \in Range(queue'[devices[d].controller]) :
         r.device = d /\ r.command = "query"
  <2> SUFFICES ASSUME NEW d \in Range(ds)
               PROVE  \E r \in Range(queue'[devices[d].controller]) :
                         r.device = d /\ r.command = "query"
    OBVIOUS
  <2>1. Query(d, devices) \in Range(queue'[c])
    BY <1>1, <1>6
  <2> QED
    BY <1>1, <2>1, QueryIs
<1>8. \A d \in DOMAIN devices : \A r \in Range(Line(d)) :
         r \in Range(queue'[devices[d].controller])
  BY <1>3, <1>5, <1>6 DEF Line
<1> QED
  BY <1>2, <1>4, <1>7, <1>8, KnowsStep

\* What is left in a queue when the first request is taken: all others.
LEMMA Others ==
    ASSUME Base, NEW c \in Controller, queue[c] # <<>>,
           queue' = [queue EXCEPT ![c] = Tail(@)]
    PROVE  \A b \in Controller : \A x \in Range(queue[b]) :
              x \in Range(queue'[b]) \/ (b = c /\ x = Head(queue[c]))
<1>1. queue \in [Controller -> Seq(RequestType)] /\ queue[c] \in Seq(RequestType)
  BY DEF Base, Typed
<1>2. Range(queue[c]) = {Head(queue[c])} \cup Range(Tail(queue[c]))
  BY <1>1, RangeHeadTail
<1>3. \A b \in Controller : queue'[b] = IF b = c THEN Tail(queue[c]) ELSE queue[b]
  BY <1>1
<1> QED
  BY <1>2, <1>3

\* An answer to a query tells all, other answers keep what is known true.
LEMMA KnowsSucceed ==
    ASSUME Base, Knows, NEW c \in Controller, Succeed(c)
    PROVE  Knows'
<1> DEFINE r == Head(queue[c])
           d == r.device
<1>1. /\ queue[c] # <<>> /\ r.command # "undefined"
      /\ queue' = [queue EXCEPT ![c] = Tail(@)]
      /\ Kept /\ output' \in [Device -> SUBSET Nat]
      /\ \A b \in Device : output'[b] = IF b = d THEN Apply(r) ELSE output[b]
      /\ \A b \in DOMAIN devices : b # d => devices'[b] = devices[b]
      /\ devices'[d].state = IF devices[d].state = "starting" THEN "normal" ELSE devices[d].state
  BY SucceedIs
<1>2. /\ r.command = "query" => /\ devices'[d].known = devices[d].nodes
                                /\ devices'[d].states = output[d] \cap devices[d].nodes
      /\ r.command = "on" => /\ devices'[d].known = devices[d].known \cup r.nodes
                             /\ devices'[d].states = devices[d].states \cup r.nodes
      /\ r.command = "off" => /\ devices'[d].known = devices[d].known \cup r.nodes
                              /\ devices'[d].states = devices[d].states \ r.nodes
      /\ r.command = "toggle" => /\ devices'[d].known = devices[d].known \cup r.nodes
                                 /\ devices'[d].states = SymDiff(devices[d].states, r.nodes)
  BY SucceedIs
<1>3. /\ r \in RequestType /\ Belongs(r) /\ d \in Device /\ d \in DOMAIN devices
      /\ r.nodes \subseteq Nat /\ output[d] \subseteq Nat
      /\ devices[d].controller = c /\ devices[d].class = "relay"
  BY <1>1, FirstWaiting
<1>4. r.nodes \subseteq devices[d].nodes /\ r.command \in {"query", "on", "off", "toggle"}
  BY <1>1, <1>3 DEF Belongs, RequestType, Command
<1>5. /\ r.command = "on"     => Apply(r) = output[d] \cup r.nodes
      /\ r.command = "off"    => Apply(r) = output[d] \ r.nodes
      /\ r.command = "toggle" => Apply(r) = SymDiff(output[d], r.nodes)
      /\ r.command = "query"  => Apply(r) = output[d]
  BY <1>3, ApplyIs
<1>6. \A b \in Controller : \A x \in Range(queue[b]) :
         x \in Range(queue'[b]) \/ (b = c /\ x = r)
  BY <1>1, Others
<1>7. /\ DOMAIN devices \subseteq Device
      /\ \A b \in DOMAIN devices : devices[b].controller \in Controller
      /\ output'[d] = Apply(r)
  BY <1>1, <1>3 DEF Base, Typed, Object
<1> HIDE DEF r, d
<1>8. \A b \in DOMAIN devices : b # d =>
         /\ devices'[b].state = devices[b].state /\ devices'[b].known = devices[b].known
         /\ devices'[b].states = devices[b].states /\ output'[b] = output[b]
         /\ \A x \in Range(Line(b)) : x.device = b /\ x.command = "query" =>
               x \in Range(queue'[devices[b].controller])
  <2> SUFFICES ASSUME NEW b \in DOMAIN devices, b # d
               PROVE  /\ devices'[b] = devices[b] /\ output'[b] = output[b]
                      /\ \A x \in Range(Line(b)) : x.device = b /\ x.command = "query" =>
                            x \in Range(queue'[devices[b].controller])
    OBVIOUS
  <2>1. devices'[b] = devices[b] /\ output'[b] = output[b]
    BY <1>1, <1>7
  <2>2. \A x \in Range(Line(b)) : x.device = b => x \in Range(queue'[devices[b].controller])
    BY <1>6, <1>7 DEF Line, d
  <2> QED
    BY <2>1, <2>2
<1>9. devices'[d].state \in {"starting", "normal"} =>
         \/ \E x \in Range(queue'[devices[d].controller]) : x.device = d /\ x.command = "query"
         \/ /\ devices'[d].state = "normal"
            /\ devices'[d].known = devices[d].nodes
            /\ devices'[d].states = output'[d] \cap devices[d].nodes
  <2> SUFFICES ASSUME devices'[d].state \in {"starting", "normal"},
                      ~ \E x \in Range(queue'[devices[d].controller]) :
                           x.device = d /\ x.command = "query"
               PROVE  /\ devices'[d].state = "normal"
                      /\ devices'[d].known = devices[d].nodes
                      /\ devices'[d].states = output'[d] \cap devices[d].nodes
    OBVIOUS
  <2>1. devices'[d].state = "normal" /\ devices[d].state \in {"starting", "normal"}
    BY <1>1
  <2>2. CASE r.command = "query"
    BY <1>2, <1>5, <1>7, <2>1, <2>2
  <2>3. CASE r.command # "query"
    <3>1. ~Asked(d)
      <4> SUFFICES ASSUME NEW x \in Range(queue[c]), x.device = d, x.command = "query"
                   PROVE  FALSE
        BY <1>3 DEF Asked, Line
      <4>1. x \in Range(queue'[c])
        BY <1>6, <2>3
      <4> QED
        BY <1>3, <4>1
    <3>2. devices[d].known = devices[d].nodes
          /\ devices[d].states = output[d] \cap devices[d].nodes
      BY <1>3, <2>1, <3>1 DEF Knows, Synced
    <3>3. devices'[d].known = devices[d].nodes
      BY <1>2, <1>4, <2>3, <3>2
    <3>4. CASE r.command = "on"
      BY <1>2, <1>4, <1>5, <1>7, <2>1, <3>2, <3>3, <3>4
    <3>5. CASE r.command = "off"
      BY <1>2, <1>4, <1>5, <1>7, <2>1, <3>2, <3>3, <3>5
    <3>6. CASE r.command = "toggle"
      <4>1. devices'[d].states = SymDiff(output[d] \cap devices[d].nodes, r.nodes)
        BY <1>2, <3>2, <3>6
      <4>2. output'[d] = SymDiff(output[d], r.nodes)
        BY <1>5, <1>7, <3>6
      <4>3. devices'[d].states = output'[d] \cap devices[d].nodes
        BY <1>4, <4>1, <4>2 DEF SymDiff
      <4> QED
        BY <2>1, <3>3, <4>3
    <3> QED
      BY <1>4, <2>3, <3>4, <3>5, <3>6
  <2> QED
    BY <2>2, <2>3
<1> QED
  BY <1>1, <1>8, <1>9, KnowsStep

\* A board that failed is not trusted.
LEMMA KnowsFail ==
    ASSUME Base, Knows, NEW c \in Controller, Fail(c)
    PROVE  Knows'
<1> DEFINE r == Head(queue[c])
           d == r.device
<1>1. /\ queue[c] # <<>> /\ Fault(d) /\ epoch' = epoch
      /\ queue' = [queue EXCEPT ![c] = Tail(@)]
  BY DEF Fail
<1>2. PICK S \in SUBSET r.nodes :
         output' = [output EXCEPT ![d] = Apply([r EXCEPT !.nodes = S])]
  BY DEF Fail
<1>3. d \in DOMAIN devices
  BY <1>1, FirstWaiting
<1>4. \A b \in Controller : \A x \in Range(queue[b]) :
         x \in Range(queue'[b]) \/ (b = c /\ x = r)
  BY <1>1, Others
<1>5. /\ DOMAIN devices \subseteq Device /\ output \in [Device -> SUBSET Nat]
      /\ \A b \in DOMAIN devices : devices[b].controller \in Controller
  BY DEF Base, Typed, Object
<1>6. \A b \in DOMAIN devices : b # d => output'[b] = output[b]
  <2> DEFINE v == Apply([r EXCEPT !.nodes = S])
  <2> HIDE DEF v, d
  <2>1. output' = [output EXCEPT ![d] = v]
    BY <1>2 DEF v
  <2> QED
    BY <1>5, <2>1
<1> HIDE DEF r, d
<1>7. /\ Kept
      /\ \A b \in DOMAIN devices :
            /\ devices'[b].known = devices[b].known /\ devices'[b].states = devices[b].states
            /\ devices'[b].state = IF b = d THEN "fault" ELSE devices[b].state
  BY <1>1, <1>3, FaultIs
<1>8. \A b \in DOMAIN devices : b # d =>
         \A x \in Range(Line(b)) : x.device = b => x \in Range(queue'[devices[b].controller])
  BY <1>4, <1>5 DEF Line, d
<1>9. \A b \in DOMAIN devices :
         devices[b].class = "relay" /\ devices'[b].state \in {"starting", "normal"} =>
         /\ devices'[b].state = devices[b].state
         /\ devices'[b].known = devices[b].known
         /\ devices'[b].states = devices[b].states
         /\ output'[b] = output[b]
         /\ \A x \in Range(Line(b)) : x.device = b /\ x.command = "query" =>
               x \in Range(queue'[devices[b].controller])
  BY <1>6, <1>7, <1>8
<1> QED
  BY <1>7, <1>9, KnowsStep

-----------------------------------------------------------------------------
(* The group toggle *)

\* One more request, to the same end.
LEMMA EndsAppend ==
    ASSUME NEW S, NEW q \in Seq(S), NEW r \in S, NEW p, NEW to, Ends(q, p, to),
           Switches(r, p) => r.command = to
    PROVE  Ends(Append(q, r), p, to)
<1> DEFINE a == Append(q, r)
<1>1. /\ a \in Seq(S) /\ Len(a) = Len(q) + 1 /\ Len(q) \in Nat
      /\ \A i \in 1 .. Len(q) : a[i] = q[i]
      /\ a[Len(q) + 1] = r
  BY AppendProperties, LenProperties
<1>2. DOMAIN q = 1 .. Len(q)
  BY LenProperties
<1> HIDE DEF a
<1>3. DOMAIN a = 1 .. Len(q) + 1
  BY <1>1, LenProperties
<1>4. PICK i \in DOMAIN q :
         /\ Switches(q[i], p)
         /\ \A j \in DOMAIN q : j >= i /\ Switches(q[j], p) => q[j].command = to
  BY DEF Ends
<1>5. i \in DOMAIN a /\ Switches(a[i], p)
  BY <1>1, <1>2, <1>3, <1>4
<1>6. ASSUME NEW j \in DOMAIN a, j >= i, Switches(a[j], p)
      PROVE  a[j].command = to
  <2>1. CASE j \in DOMAIN q
    BY <1>1, <1>2, <1>4, <1>6, <2>1
  <2>2. CASE j = Len(q) + 1
    BY <1>1, <1>6, <2>2
  <2> QED
    BY <1>1, <1>2, <1>3, <2>1, <2>2
<1> QED
  BY <1>5, <1>6 DEF Ends, a

\* A request at the end.
LEMMA EndsLast ==
    ASSUME NEW S, NEW q \in Seq(S), NEW r \in S, NEW p, Switches(r, p)
    PROVE  Ends(Append(q, r), p, r.command)
<1> DEFINE a == Append(q, r)
           n == Len(q) + 1
<1>1. a \in Seq(S) /\ Len(a) = n /\ n \in Nat /\ n >= 1 /\ a[n] = r
  BY AppendProperties, LenProperties
<1> HIDE DEF a, n
<1>2. DOMAIN a = 1 .. n
  BY <1>1, LenProperties
<1>3. n \in DOMAIN a /\ Switches(a[n], p)
  BY <1>1, <1>2
<1>4. \A j \in DOMAIN a : j >= n => a[j] = r
  BY <1>1, <1>2
<1>5. Ends(a, p, r.command)
  BY <1>3, <1>4 DEF Ends
<1> QED
  BY <1>5 DEF a

\* More requests that do not switch the node.
LEMMA EndsConcat ==
    ASSUME NEW S, NEW q \in Seq(S), NEW t \in Seq(S), NEW p, NEW to,
           Ends(q, p, to), Free(t, p)
    PROVE  Ends(q \o t, p, to)
<1> DEFINE a == q \o t
<1>1. /\ a \in Seq(S) /\ Len(a) = Len(q) + Len(t) /\ Len(q) \in Nat /\ Len(t) \in Nat
      /\ \A i \in 1 .. Len(q) + Len(t) : a[i] = IF i <= Len(q) THEN q[i] ELSE t[i - Len(q)]
  BY ConcatProperties, LenProperties
<1>2. DOMAIN q = 1 .. Len(q) /\ Range(t) = {t[i] : i \in 1 .. Len(t)}
  BY LenProperties, RangeIs
<1> HIDE DEF a
<1>3. DOMAIN a = 1 .. Len(q) + Len(t)
  BY <1>1, LenProperties
<1>4. PICK i \in DOMAIN q :
         /\ Switches(q[i], p)
         /\ \A j \in DOMAIN q : j >= i /\ Switches(q[j], p) => q[j].command = to
  BY DEF Ends
<1>5. i \in DOMAIN a /\ Switches(a[i], p)
  BY <1>1, <1>2, <1>3, <1>4
<1>6. ASSUME NEW j \in DOMAIN a, j >= i, Switches(a[j], p)
      PROVE  a[j].command = to
  <2>1. CASE j <= Len(q)
    <3>1. j \in DOMAIN q /\ a[j] = q[j]
      BY <1>1, <1>2, <1>3, <2>1
    <3> QED
      BY <1>4, <1>6, <3>1
  <2>2. CASE ~(j <= Len(q))
    <3>1. j - Len(q) \in 1 .. Len(t) /\ a[j] = t[j - Len(q)]
      BY <1>1, <1>3, <2>2
    <3>2. a[j] \in Range(t)
      BY <1>2, <3>1
    <3> QED
      BY <1>6, <3>2 DEF Free
  <2> QED
    BY <2>1, <2>2
<1> QED
  BY <1>5, <1>6 DEF Ends, a

\* The first request is taken: the others end the same, or it was the last that
\* switches the node.
LEMMA EndsTail ==
    ASSUME NEW S, NEW q \in Seq(S), q # <<>>, NEW p, NEW to, Ends(q, p, to)
    PROVE  \/ Ends(Tail(q), p, to)
           \/ Free(Tail(q), p) /\ Switches(Head(q), p) /\ Head(q).command = to
<1> DEFINE t == Tail(q)
<1>1. /\ t \in Seq(S) /\ Len(t) = Len(q) - 1 /\ Len(q) \in Nat
      /\ \A i \in 1 .. Len(t) : t[i] = q[i + 1]
  BY HeadTailProperties, LenProperties
<1>2. DOMAIN q = 1 .. Len(q) /\ Len(q) # 0 /\ Head(q) = q[1]
  BY LenProperties, EmptySeq, RangeHeadTail
<1> HIDE DEF t
<1>3. DOMAIN t = 1 .. Len(t) /\ Range(t) = {t[i] : i \in 1 .. Len(t)}
  BY <1>1, LenProperties, RangeIs
<1>4. PICK i \in DOMAIN q :
         /\ Switches(q[i], p)
         /\ \A j \in DOMAIN q : j >= i /\ Switches(q[j], p) => q[j].command = to
  BY DEF Ends
<1>5. \A j \in DOMAIN t : j + 1 \in DOMAIN q /\ t[j] = q[j + 1]
  BY <1>1, <1>2, <1>3
<1>6. ASSUME NEW k \in DOMAIN t, k + 1 >= i, Switches(t[k], p)
      PROVE  Ends(t, p, to)
  <2>1. ASSUME NEW j \in DOMAIN t, j >= k, Switches(t[j], p)
        PROVE  t[j].command = to
    <3>1. j + 1 \in DOMAIN q /\ t[j] = q[j + 1] /\ j + 1 >= i
      BY <1>2, <1>3, <1>5, <1>6, <2>1
    <3> QED
      BY <1>4, <2>1, <3>1
  <2> QED
    BY <1>6, <2>1 DEF Ends
<1>7. CASE i # 1
  <2>1. i - 1 \in DOMAIN t /\ (i - 1) + 1 = i
    BY <1>1, <1>2, <1>3, <1>7
  <2>2. t[i - 1] = q[i] /\ (i - 1) + 1 >= i
    BY <1>2, <1>5, <2>1
  <2>3. Ends(t, p, to)
    BY <1>4, <1>6, <2>1, <2>2
  <2> QED
    BY <2>3 DEF t
<1>8. CASE i = 1
  <2>1. Switches(Head(q), p) /\ Head(q).command = to
    BY <1>2, <1>4, <1>8
  <2>2. CASE Free(t, p)
    BY <2>1, <2>2 DEF t
  <2>3. CASE ~Free(t, p)
    <3>1. PICK k \in 1 .. Len(t) : Switches(t[k], p)
      BY <1>3, <2>3 DEF Free
    <3>2. k \in DOMAIN t /\ k + 1 >= i
      BY <1>3, <1>8
    <3>3. Ends(t, p, to)
      BY <1>6, <3>1, <3>2
    <3> QED
      BY <3>3 DEF t
  <2> QED
    BY <2>2, <2>3
<1> QED
  BY <1>7, <1>8

\* No toggle is watched.
LEMMA ResolvedNone ==
    ASSUME toggled' = NoToggle
    PROVE  Resolved'
<1>1. toggled'.nodes = {} /\ toggled' \in [nodes : {{}}, to : {"on", "off", "either"}]
  BY DEF NoToggle
<1>2. toggled' \in [nodes : SUBSET ((DOMAIN devices') \X Nat), to : {"on", "off", "either"}]
  BY <1>1
<1> QED
  BY <1>1, <1>2 DEF Resolved

\* The toggle is as it was, and every node of it is still settled.
LEMMA ResolvedStep ==
    ASSUME Resolved, DOMAIN devices' = DOMAIN devices, toggled' = toggled,
           phase' = "building" => phase = "building",
           toggled.nodes # {} =>
              /\ Range(built') \subseteq Range(built)
              /\ \A to \in {"on", "off"} : \A p \in toggled.nodes :
                    Settles(to) /\ Settled(p, to) => Settled(p, to)'
    PROVE  Resolved'
<1>1. CASE toggled.nodes = {}
  BY <1>1 DEF Resolved
<1>2. CASE toggled.nodes # {}
  <2>1. PICK to \in {"on", "off"} : Settles(to)
    BY <1>2 DEF Resolved
  <2>2. toggled.to \in {to, "either"} /\ \A r \in Range(built) : r.command = to
    BY <2>1 DEF Settles
  <2>3. \A p \in toggled.nodes : Settled(p, to)'
    BY <1>2, <2>1 DEF Settles
  <2>4. \A r \in Range(built') : r.command = to
    BY <1>2, <2>2
  <2>5. Settles(to)'
    BY <2>2, <2>3, <2>4 DEF Settles
  <2> QED
    BY <1>2, <2>5 DEF Resolved
<1> QED
  BY <1>1, <1>2

\* The nodes of a toggle are of devices there are.
LEMMA ToggledNodes ==
    ASSUME Base, Resolved, NEW p \in toggled.nodes
    PROVE  /\ p[1] \in DOMAIN devices /\ p[1] \in Device
           /\ devices[p[1]] \in Object /\ devices[p[1]].controller \in Controller
           /\ Line(p[1]) \in Seq(RequestType)
           /\ \A r \in Range(Line(p[1])) : devices[r.device].class = "relay"
                                          /\ devices[r.device].controller = devices[p[1]].controller
<1>1. toggled.nodes \subseteq (DOMAIN devices) \X Nat
  BY DEF Resolved
<1>2. p[1] \in DOMAIN devices
  BY <1>1
<1>3. p[1] \in Device /\ devices[p[1]] \in Object
  BY <1>2 DEF Base, Typed
<1>4. devices[p[1]].controller \in Controller
  BY <1>3 DEF Object
<1>5. Line(p[1]) \in Seq(RequestType)
  BY <1>4 DEF Base, Typed, Line
<1>6. \A r \in Range(Line(p[1])) : devices[r.device].class = "relay"
                                  /\ devices[r.device].controller = devices[p[1]].controller
  BY <1>4 DEF Base, Owners, Line
<1> QED
  BY <1>2, <1>3, <1>4, <1>5, <1>6

\* A step that changes no list and no node of the toggle.
LEMMA ResolvedSame ==
    ASSUME Base, Resolved, UNCHANGED <<devices, queue, built, output, toggled>>,
           phase' = "building" => phase = "building"
    PROVE  Resolved'
<1>1. \A to \in {"on", "off"} : \A p \in toggled.nodes : Settled(p, to) => Settled(p, to)'
  BY DEF Settled, Built, Done, Line
<1> QED
  BY <1>1, ResolvedStep

\* No message has been resolved while it is read.
LEMMA ResolvedBuild ==
    ASSUME Resolved, Build
    PROVE  Resolved'
<1>1. phase = "building" /\ UNCHANGED <<devices, toggled>>
  BY DEF Build, objectVars
<1>2. toggled.nodes = {}
  BY <1>1 DEF Resolved
<1> QED
  BY <1>1, <1>2, ResolvedStep

\* A group toggle is resolved: by what is known of the boards, which is how
\* they are when nothing else is on its way.
LEMMA ResolvedResolve ==
    ASSUME Base, Knows, Resolved, Resolve
    PROVE  Resolved'
<1>1. /\ phase = "building" /\ phase' = "submitting"
      /\ UNCHANGED <<devices, queue, output, message>>
  BY DEF Resolve, objectVars
<1>2. CASE ~Group
  <2>1. built' = built /\ toggled' = toggled
    BY <1>2 DEF Resolve
  <2> QED
    BY <1>1, <2>1, ResolvedSame
<1>3. CASE Group
  <2>a. PICK to \in {"on", "off"} : to = Towards
    BY DEF Towards
  <2> DEFINE works == \A r \in Range(built) : devices[r.device].class = "relay"
                                              => devices[r.device].state = "normal"
             on == \E r \in Range(built) : devices[r.device].class = "relay"
                                           /\ r.nodes \cap output[r.device] # {}
             ns == UNION {{<<r.device, n>> : n \in r.nodes} : r \in Range(built)}
  <2>1. built' = Explicit /\ toggled' = Wanted
    BY <1>3 DEF Resolve
  <2>2. Wanted = [nodes |-> ns, to |-> CASE ~works \/ ~CanStop -> "either"
                                         [] works /\ CanStop   -> IF on THEN "off" ELSE "on"]
    BY Zenon DEF Wanted
  <2>3. to = Towards
    BY <2>a
  <2>4. \A r \in Range(built) : r \in RequestType /\ Belongs(r)
    <3>1. built \in Seq(RequestType)
      BY DEF Base, Typed
    <3>2. \A r \in Range(built) : r \in RequestType
      BY <3>1, RangeIs
    <3> QED
      BY <3>2, RequestsAre DEF Base, Owners
  <2>5. works /\ CanStop => (on <=> \E r \in Range(built) : TellsOn(r))
    <3> SUFFICES ASSUME works, CanStop, NEW r \in Range(built)
                 PROVE  TellsOn(r) <=> /\ devices[r.device].class = "relay"
                                       /\ r.nodes \cap output[r.device] # {}
      OBVIOUS
    <3> DEFINE o == devices[r.device]
    <3>1. r.device \in DOMAIN devices /\ r.nodes \subseteq o.nodes
          /\ o.controller \in Controller
      BY <2>4 DEF Belongs, Base, Typed, Object
    <3>2. CASE o.class = "relay"
      <4>1. o.state = "normal"
        BY <3>2
      <4>2. queue[o.controller] = <<>>
        BY <3>1 DEF CanStop
      <4>3. ~Asked(r.device)
        BY <4>2, RangeEmpty DEF Asked, Line
      <4>4. o.known = o.nodes /\ o.states = output[r.device] \cap o.nodes
        BY <3>1, <3>2, <4>1, <4>3 DEF Knows, Synced
      <4>5. r.nodes \cap o.known \cap o.states = r.nodes \cap output[r.device]
        BY <3>1, <4>4
      <4> QED
        BY <3>2, <4>5 DEF TellsOn
    <3>3. CASE o.class # "relay"
      BY <3>3 DEF TellsOn
    <3> QED
      BY <3>2, <3>3
  <2>6. ns \subseteq (DOMAIN devices) \X Nat
    <3>1. \A r \in Range(built) : r.device \in DOMAIN devices /\ r.nodes \subseteq Nat
      BY <2>4 DEF RequestType, Belongs
    <3>2. \A r \in Range(built) : \A n \in r.nodes : <<r.device, n>> \in (DOMAIN devices) \X Nat
      BY <3>1
    <3> QED
      BY <3>2
  <2> HIDE DEF works, on, ns
  <2>7. /\ toggled'.nodes = ns
        /\ toggled'.to = CASE ~works \/ ~CanStop -> "either"
                           [] works /\ CanStop   -> IF on THEN "off" ELSE "on"
    BY <2>1, <2>2
  <2>8. toggled'.to \in {to, "either"} /\ toggled'.to \in {"on", "off", "either"}
    <3>1. CASE ~works \/ ~CanStop
      <4>1. toggled'.to = "either"
        BY <2>7, <3>1
      <4> QED
        BY <4>1
    <3>2. CASE works /\ CanStop
      <4>1. toggled'.to = IF on THEN "off" ELSE "on"
        BY <2>7, <3>2
      <4> QED
        BY <2>3, <2>5, <3>2, <4>1 DEF Towards
    <3> QED
      BY <3>1, <3>2
  <2>9. \A x \in Range(built') : x.command = to
    BY <2>1, <2>3, ExplicitIs
  <2>10. \A p \in ns : Built(p)'
    <3> SUFFICES ASSUME NEW p \in ns
                 PROVE  Built(p)'
      OBVIOUS
    <3>1. PICK r \in Range(built) : \E n \in r.nodes : p = <<r.device, n>>
      BY DEF ns
    <3>2. p[1] = r.device /\ p[2] \in r.nodes
      BY <3>1
    <3>3. PICK x \in Range(built') : x.device = r.device /\ x.nodes = r.nodes
      BY <2>1, ExplicitIs
    <3>4. x.command \in {"on", "off", "toggle"}
      BY <2>9
    <3>5. Switches(x, p)
      BY <3>2, <3>3, <3>4 DEF Switches
    <3> QED
      BY <3>5 DEF Built
  <2>11. \A p \in toggled'.nodes : Settled(p, to)'
    BY <2>7, <2>10 DEF Settled
  <2>12. Settles(to)'
    BY <2>8, <2>9, <2>11 DEF Settles
  <2>13. toggled' \in [nodes : SUBSET ((DOMAIN devices') \X Nat), to : {"on", "off", "either"}]
    <3>1. toggled' = [nodes |-> toggled'.nodes, to |-> toggled'.to]
      BY <2>1, <2>2
    <3> QED
      BY <1>1, <2>6, <2>7, <2>8, <3>1
  <2> QED
    BY <1>1, <2>12, <2>13 DEF Resolved
<1> QED
  BY <1>2, <1>3

\* One more request that does not switch the node leaves a list free of it.
LEMMA FreeAppend ==
    ASSUME NEW S, NEW q \in Seq(S), NEW r \in S, NEW p, Free(q, p), ~Switches(r, p)
    PROVE  Free(Append(q, r), p)
<1>1. Range(Append(q, r)) = Range(q) \cup {r}
  BY RangeAppend
<1> QED
  BY <1>1 DEF Free

\* What a request does to a node it switches, and to any other.
LEMMA ApplyNode ==
    ASSUME NEW r, r.nodes \subseteq Nat, output[r.device] \subseteq Nat,
           NEW p, p[1] = r.device
    PROVE  /\ Switches(r, p) /\ r.command = "on"  => p[2] \in Apply(r)
           /\ Switches(r, p) /\ r.command = "off" => p[2] \notin Apply(r)
           /\ ~Switches(r, p) => (p[2] \in Apply(r) <=> p[2] \in output[r.device])
<1>1. /\ r.command = "on"     => Apply(r) = output[r.device] \cup r.nodes
      /\ r.command = "off"    => Apply(r) = output[r.device] \ r.nodes
      /\ r.command = "toggle" => Apply(r) = SymDiff(output[r.device], r.nodes)
      /\ r.command \notin {"on", "off", "toggle"} => Apply(r) = output[r.device]
  BY ApplyIs
<1>2. Switches(r, p) <=> p[2] \in r.nodes /\ r.command \in {"on", "off", "toggle"}
  BY DEF Switches
<1>3. CASE r.command = "on"
  BY <1>1, <1>2, <1>3
<1>4. CASE r.command = "off"
  BY <1>1, <1>2, <1>4
<1>5. CASE r.command = "toggle"
  BY <1>1, <1>2, <1>5 DEF SymDiff
<1>6. CASE r.command \notin {"on", "off", "toggle"}
  BY <1>1, <1>2, <1>6
<1> QED
  BY <1>3, <1>4, <1>5, <1>6

\* A node that was to be submitted is, and switched or waits to be.
LEMMA ResolvedSubmit ==
    ASSUME Base, Resolved, SubmitNext
    PROVE  Resolved'
<1> DEFINE r == Head(built)
<1>1. /\ phase' = phase /\ toggled' = toggled /\ built # <<>> /\ built' = Tail(built)
  BY DEF SubmitNext
<1>2. /\ r \in RequestType /\ Belongs(r) /\ r \in Range(built)
      /\ Range(built) = {r} \cup Range(built')
      /\ r.device \in Device /\ r.nodes \subseteq Nat /\ output[r.device] \subseteq Nat
  BY <1>1, FirstBuilt
<1>3. Kept
  BY BaseSubmit
<1>5. /\ output \in [Device -> SUBSET Nat] /\ queue \in [Controller -> Seq(RequestType)]
      /\ DOMAIN devices' = DOMAIN devices
  BY <1>3 DEF Base, Typed, Kept
<1>6. \/ devices[r.device].class = "light" /\ SubmitLight(r)
      \/ devices[r.device].class = "relay" /\ SubmitRelay(r)
  BY DEF SubmitNext
<1> HIDE DEF r
<1>7. ASSUME NEW to \in {"on", "off"}, NEW p \in toggled.nodes, Settles(to), Settled(p, to)
      PROVE  Settled(p, to)'
  <2> DEFINE c == devices[r.device].controller
             b == devices[p[1]].controller
  <2>1. /\ p[1] \in DOMAIN devices /\ p[1] \in Device /\ b \in Controller
        /\ Line(p[1]) = queue[b] /\ queue[b] \in Seq(RequestType)
        /\ \A x \in Range(queue[b]) : devices[x.device].class = "relay"
    BY ToggledNodes DEF Line
  <2>2. r.command = to
    BY <1>2, <1>7 DEF Settles
  <2>3. Line(p[1])' = queue'[b]
    BY <1>3, <2>1 DEF Line, Kept
  <2>4. Built(p) => Switches(r, p) \/ Built(p)'
    BY <1>2 DEF Built
  <2> HIDE DEF c, b
  <2>5. CASE devices[r.device].class = "light" /\ SubmitLight(r)
    <3>1. queue' = queue /\ output' = [output EXCEPT ![r.device] = Apply(r)]
      BY <2>2, <2>5 DEF SubmitLight
    <3>2. CASE Switches(r, p)
      <4>1. r.device = p[1]
        BY <3>2 DEF Switches
      <4>2. Free(queue'[b], p)
        BY <2>1, <2>5, <3>1, <4>1 DEF Free, Switches
      <4>3. output'[p[1]] = Apply(r)
        BY <1>5, <2>1, <3>1, <4>1
      <4>4. p[2] \in Apply(r) <=> to = "on"
        BY <1>2, <2>2, <3>2, <4>1, ApplyNode
      <4>5. Done(p, to)'
        BY <2>3, <4>2, <4>3, <4>4 DEF Done
      <4> QED
        BY <4>5 DEF Settled
    <3>3. CASE ~Switches(r, p)
      <4>1. CASE Built(p)
        BY <2>4, <3>3, <4>1 DEF Settled
      <4>2. CASE Ends(Line(p[1]), p, to)
        <5>1. Ends(queue'[b], p, to)
          BY <2>1, <3>1, <4>2
        <5> QED
          BY <2>3, <5>1 DEF Settled
      <4>3. CASE Done(p, to)
        <5>1. p[2] \in output'[p[1]] <=> p[2] \in output[p[1]]
          <6>1. CASE p[1] = r.device
            <7>1. output'[p[1]] = Apply(r)
              BY <1>5, <2>1, <3>1, <6>1
            <7> QED
              BY <1>2, <3>3, <6>1, <7>1, ApplyNode
          <6>2. CASE p[1] # r.device
            BY <1>5, <2>1, <3>1, <6>2
          <6> QED
            BY <6>1, <6>2
        <5>2. Done(p, to)'
          BY <2>1, <2>3, <3>1, <4>3, <5>1 DEF Done
        <5> QED
          BY <5>2 DEF Settled
      <4> QED
        BY <1>7, <4>1, <4>2, <4>3 DEF Settled
    <3> QED
      BY <3>2, <3>3
  <2>6. CASE devices[r.device].class = "relay" /\ SubmitRelay(r)
    <3>1. queue' = [queue EXCEPT ![c] = Append(@, r)] /\ output' = output
      BY <2>6 DEF SubmitRelay, c
    <3>2. queue'[b] = IF b = c THEN Append(queue[b], r) ELSE queue[b]
      BY <1>5, <2>1, <3>1
    <3>3. CASE Switches(r, p)
      <4>1. b = c
        BY <3>3 DEF Switches, b, c
      <4>2. Ends(Append(queue[b], r), p, to)
        BY <1>2, <2>1, <2>2, <3>3, EndsLast
      <4>3. Ends(Line(p[1])', p, to)
        BY <2>3, <3>2, <4>1, <4>2
      <4> QED
        BY <4>3 DEF Settled
    <3>4. CASE ~Switches(r, p)
      <4>1. CASE Built(p)
        BY <2>4, <3>4, <4>1 DEF Settled
      <4>2. CASE Ends(Line(p[1]), p, to)
        <5>1. Ends(Append(queue[b], r), p, to)
          BY <1>2, <2>1, <3>4, <4>2, EndsAppend
        <5>2. Ends(Line(p[1])', p, to)
          BY <2>1, <2>3, <3>2, <4>2, <5>1
        <5> QED
          BY <5>2 DEF Settled
      <4>3. CASE Done(p, to)
        <5>1. Free(queue[b], p) /\ (p[2] \in output[p[1]] <=> to = "on")
          BY <2>1, <4>3 DEF Done
        <5>2. Free(Append(queue[b], r), p)
          BY <1>2, <2>1, <3>4, <5>1, FreeAppend
        <5>3. Free(Line(p[1])', p)
          BY <2>3, <3>2, <5>1, <5>2
        <5>4. Done(p, to)'
          BY <3>1, <5>1, <5>3 DEF Done
        <5> QED
          BY <5>4 DEF Settled
      <4> QED
        BY <1>7, <4>1, <4>2, <4>3 DEF Settled
    <3> QED
      BY <3>3, <3>4
  <2> QED
    BY <1>6, <2>5, <2>6
<1> QED
  BY <1>1, <1>2, <1>5, <1>7, ResolvedStep

\* Queries switch nothing.
LEMMA ResolvedRestart ==
    ASSUME Base, Resolved, NEW c \in Controller, Restart(c)
    PROVE  Resolved'
<1>1. PICK ds \in Seq(Device) :
         /\ Queries(ds, devices) \in Seq(RequestType)
         /\ Range(Queries(ds, devices)) = {Query(d, devices) : d \in Range(ds)}
         /\ queue' = [queue EXCEPT ![c] = @ \o Queries(ds, devices)]
  BY RestartIs
<1> DEFINE t == Queries(ds, devices)
<1>2. Kept /\ UNCHANGED <<output, built, phase, toggled>>
  BY BaseRestart DEF Restart, messageVars
<1>3. queue \in [Controller -> Seq(RequestType)] /\ DOMAIN devices' = DOMAIN devices
  BY <1>2 DEF Base, Typed, Kept
<1>4. t \in Seq(RequestType) /\ \A r \in Range(t) : r.command = "query"
  BY <1>1, QueryIs
<1> HIDE DEF t
<1>5. \A p : Free(t, p)
  BY <1>4 DEF Free, Switches
<1>6. \A b \in Controller : queue'[b] = IF b = c THEN queue[b] \o t ELSE queue[b]
  BY <1>1, <1>3 DEF t
<1>7. ASSUME NEW to \in {"on", "off"}, NEW p \in toggled.nodes, Settled(p, to)
      PROVE  Settled(p, to)'
  <2> DEFINE b == devices[p[1]].controller
  <2>1. /\ p[1] \in DOMAIN devices /\ b \in Controller
        /\ Line(p[1]) = queue[b] /\ queue[b] \in Seq(RequestType)
    BY ToggledNodes DEF Line
  <2>2. Line(p[1])' = queue'[b]
    BY <1>2, <2>1 DEF Line, Kept
  <2> HIDE DEF b
  <2>3. queue'[b] = queue[b] \/ queue'[b] = queue[b] \o t
    BY <1>6, <2>1
  <2>4. CASE Built(p)
    BY <1>2, <2>4 DEF Built, Settled
  <2>5. CASE Ends(Line(p[1]), p, to)
    <3>1. Ends(queue[b] \o t, p, to)
      BY <1>4, <1>5, <2>1, <2>5, EndsConcat
    <3>2. Ends(Line(p[1])', p, to)
      BY <2>1, <2>2, <2>3, <2>5, <3>1
    <3> QED
      BY <3>2 DEF Settled
  <2>6. CASE Done(p, to)
    <3>1. Free(queue[b], p) /\ (p[2] \in output[p[1]] <=> to = "on")
      BY <2>1, <2>6 DEF Done
    <3>2. Range(queue[b] \o t) = Range(queue[b]) \cup Range(t)
      BY <1>4, <2>1, RangeConcat
    <3>3. Free(queue[b] \o t, p)
      BY <1>5, <3>1, <3>2 DEF Free
    <3>4. Free(Line(p[1])', p)
      BY <2>2, <2>3, <3>1, <3>3
    <3>5. Done(p, to)'
      BY <1>2, <3>1, <3>4 DEF Done
    <3> QED
      BY <3>5 DEF Settled
  <2> QED
    BY <1>7, <2>4, <2>5, <2>6 DEF Settled
<1> QED
  BY <1>2, <1>3, <1>7, ResolvedStep

\* A request that succeeds switches its nodes; it was their last, or the last is
\* still to come.
LEMMA ResolvedSucceed ==
    ASSUME Base, Resolved, NEW c \in Controller, Succeed(c)
    PROVE  Resolved'
<1> DEFINE r == Head(queue[c])
<1>1. /\ queue[c] # <<>> /\ UNCHANGED <<phase, built, toggled>> /\ Kept
      /\ queue' = [queue EXCEPT ![c] = Tail(@)]
      /\ \A b \in Device : output'[b] = IF b = r.device THEN Apply(r) ELSE output[b]
  BY SucceedIs
<1>2. /\ r \in RequestType /\ r \in Range(queue[c]) /\ r.device \in Device
      /\ r.nodes \subseteq Nat /\ output[r.device] \subseteq Nat
      /\ devices[r.device].controller = c
  BY <1>1, FirstWaiting
<1>3. queue \in [Controller -> Seq(RequestType)] /\ DOMAIN devices' = DOMAIN devices
  BY <1>1 DEF Base, Typed, Kept
<1>4. \A b \in Controller : queue'[b] = IF b = c THEN Tail(queue[c]) ELSE queue[b]
  BY <1>1, <1>3
<1>5. Range(queue[c]) = {r} \cup Range(Tail(queue[c]))
  BY <1>1, <1>3, RangeHeadTail
<1>6. ASSUME NEW to \in {"on", "off"}, NEW p \in toggled.nodes, Settled(p, to)
      PROVE  Settled(p, to)'
  <2> DEFINE b == devices[p[1]].controller
  <2>1. /\ p[1] \in DOMAIN devices /\ p[1] \in Device /\ b \in Controller
        /\ Line(p[1]) = queue[b] /\ queue[b] \in Seq(RequestType)
    BY ToggledNodes DEF Line
  <2>2. Line(p[1])' = queue'[b]
    BY <1>1, <2>1 DEF Line, Kept
  <2>3. p[1] = r.device => b = c
    BY <1>2
  <2> HIDE DEF b
  <2>4. CASE Built(p)
    BY <1>1, <2>4 DEF Built, Settled
  <2>5. CASE Ends(Line(p[1]), p, to)
    <3>1. CASE b # c
      BY <1>4, <2>1, <2>2, <2>5, <3>1 DEF Settled
    <3>2. CASE b = c
      <4>1. Line(p[1])' = Tail(queue[c])
        BY <1>4, <2>1, <2>2, <3>2
      <4>2. Ends(queue[c], p, to)
        BY <2>1, <2>5, <3>2
      <4>3. \/ Ends(Tail(queue[c]), p, to)
            \/ Free(Tail(queue[c]), p) /\ Switches(r, p) /\ r.command = to
        BY <1>1, <2>1, <3>2, <4>2, EndsTail
      <4>4. CASE Ends(Tail(queue[c]), p, to)
        BY <4>1, <4>4 DEF Settled
      <4>5. CASE Free(Tail(queue[c]), p) /\ Switches(r, p) /\ r.command = to
        <5>1. p[1] = r.device
          BY <4>5 DEF Switches
        <5>2. output'[p[1]] = Apply(r)
          BY <1>1, <2>1, <5>1
        <5> HIDE DEF r
        <5>3. p[2] \in Apply(r) <=> to = "on"
          BY <1>2, <4>5, <5>1, ApplyNode
        <5>4. Done(p, to)'
          BY <4>1, <4>5, <5>2, <5>3 DEF Done
        <5> QED
          BY <5>4 DEF Settled
      <4> QED
        BY <4>3, <4>4, <4>5
    <3> QED
      BY <3>1, <3>2
  <2>6. CASE Done(p, to)
    <3>1. Free(queue[b], p) /\ (p[2] \in output[p[1]] <=> to = "on")
      BY <2>1, <2>6 DEF Done
    <3>2. Free(queue'[b], p)
      BY <1>4, <1>5, <2>1, <3>1 DEF Free
    <3>3. p[2] \in output'[p[1]] <=> p[2] \in output[p[1]]
      <4>1. CASE p[1] = r.device
        <5>1. output'[p[1]] = Apply(r)
          BY <1>1, <2>1, <4>1
        <5>2. ~Switches(r, p)
          BY <1>2, <2>3, <3>1, <4>1 DEF Free
        <5> HIDE DEF r
        <5> QED
          BY <1>2, <4>1, <5>1, <5>2, ApplyNode
      <4>2. CASE p[1] # r.device
        BY <1>1, <2>1, <4>2
      <4> QED
        BY <4>1, <4>2
    <3>4. Done(p, to)'
      BY <2>2, <3>1, <3>2, <3>3 DEF Done
    <3> QED
      BY <3>4 DEF Settled
  <2> QED
    BY <1>6, <2>4, <2>5, <2>6 DEF Settled
<1> QED
  BY <1>1, <1>3, <1>6, ResolvedStep

\* A failure, or a new configuration or message, and the toggle is not watched.
LEMMA ResolvedNext ==
    ASSUME Base, Knows, Resolved, [Next]_vars
    PROVE  Resolved'
<1>1. ASSUME NEW f \in Configs, Begin(f)
      PROVE  toggled' = NoToggle
  BY <1>1 DEF Begin, BeginWith
<1>2. ASSUME Stop
      PROVE  Resolved'
  <2>1. UNCHANGED <<devices, queue, built, output, toggled, phase>>
    BY <1>2 DEF Stop, messageVars
  <2> QED
    BY <2>1, ResolvedSame
<1>3. ASSUME End
      PROVE  toggled' = NoToggle
  BY <1>3 DEF End
<1>4. ASSUME NEW m \in Messages, Handle(m)
      PROVE  toggled' = NoToggle
  BY <1>4 DEF Handle
<1>5. ASSUME Return
      PROVE  Resolved'
  <2>1. UNCHANGED <<devices, queue, built, output, toggled>> /\ phase' = "idle"
    BY <1>5 DEF Return, objectVars
  <2> QED
    BY <2>1, ResolvedSame
<1>6. ASSUME NEW c \in Controller, Fail(c)
      PROVE  toggled' = NoToggle
  BY <1>6 DEF Fail
<1>7. ASSUME UNCHANGED vars
      PROVE  Resolved'
  <2>1. UNCHANGED <<devices, queue, built, output, toggled, phase>>
    BY <1>7 DEF vars, objectVars, messageVars
  <2> QED
    BY <2>1, ResolvedSame
<1> QED
  BY <1>1, <1>2, <1>3, <1>4, <1>5, <1>6, <1>7, ResolvedNone, ResolvedBuild,
     ResolvedResolve, ResolvedSubmit, ResolvedSucceed, ResolvedRestart DEF Next

\* What is known of the boards at rest stays true in every step.
LEMMA KnowsNext ==
    ASSUME Base, Knows, [Next]_vars
    PROVE  Knows'
<1>1. ASSUME UNCHANGED <<devices, epoch, queue, output>>
      PROVE  Knows'
  BY <1>1, KnowsSame
<1>2. ASSUME End
      PROVE  Knows'
  <2>1. DOMAIN devices' = {}
    BY <1>2 DEF End
  <2> QED
    BY <2>1 DEF Knows
<1>3. Stop => UNCHANGED <<devices, epoch, queue, output>>
  BY DEF Stop
<1>4. \A m \in Messages : Handle(m) => UNCHANGED <<devices, epoch, queue, output>>
  BY DEF Handle, objectVars
<1>5. Build => UNCHANGED <<devices, epoch, queue, output>>
  BY DEF Build, objectVars
<1>6. Resolve => UNCHANGED <<devices, epoch, queue, output>>
  BY DEF Resolve, objectVars
<1>7. Return => UNCHANGED <<devices, epoch, queue, output>>
  BY DEF Return, objectVars
<1>8. UNCHANGED vars => UNCHANGED <<devices, epoch, queue, output>>
  BY DEF vars, objectVars
<1> QED
  BY <1>1, <1>2, <1>3, <1>4, <1>5, <1>6, <1>7, <1>8, KnowsBegin, KnowsSubmit,
     KnowsRestart, KnowsSucceed, KnowsFail DEF Next

\* The whole invariant.
LEMMA Inductive == Spec => []IInv
<1>1. Init => IInv
  <2> SUFFICES ASSUME Init
               PROVE  IInv
    OBVIOUS
  <2>1. DOMAIN devices = {} /\ toggled = NoToggle
    BY DEF Init
  <2>2. Knows
    BY <2>1 DEF Knows
  <2>3. Resolved
    <3>1. toggled.nodes = {}
      BY <2>1 DEF NoToggle
    <3>2. toggled \in [nodes : SUBSET ((DOMAIN devices) \X Nat), to : {"on", "off", "either"}]
      BY <2>1 DEF NoToggle
    <3> QED
      BY <3>1, <3>2 DEF Resolved
  <2> QED
    BY <2>2, <2>3, BaseInit DEF IInv
<1>2. IInv /\ [Next]_vars => IInv'
  BY BaseNext, KnowsNext, ResolvedNext DEF IInv
<1> QED
  BY <1>1, <1>2, PTL DEF Spec

\* Toggled: when all requests of a group toggle have succeeded, the nodes of the
\* group are all on or all off, whatever group, mixed with whatever was waiting;
\* and when its boards were at rest, they are all off if any of their relays
\* really was on, and all on if none was.
THEOREM GroupToggle == Spec => []Toggled
<1>1. IInv => Toggled
  <2> SUFFICES ASSUME IInv, Quiet, toggled.nodes # {}
               PROVE  \E to \in {"on", "off"} :
                         /\ toggled.to \in {to, "either"}
                         /\ \A p \in toggled.nodes : (p[2] \in output[p[1]]) <=> (to = "on")
    BY DEF Toggled
  <2>1. PICK to \in {"on", "off"} : Settles(to)
    BY DEF IInv, Resolved
  <2>2. built = <<>> /\ Range(built) = {}
    BY RangeEmpty DEF Quiet, Idle, IInv, Base, Reading
  <2>3. ASSUME NEW p \in toggled.nodes
        PROVE  (p[2] \in output[p[1]]) <=> (to = "on")
    <3>1. Line(p[1]) = <<>>
      BY ToggledNodes DEF IInv, Quiet, Line
    <3>2. ~Built(p)
      BY <2>2 DEF Built
    <3>3. ~Ends(Line(p[1]), p, to)
      BY <3>1 DEF Ends
    <3>4. Done(p, to)
      BY <2>1, <3>2, <3>3 DEF Settles, Settled
    <3> QED
      BY <3>4 DEF Done
  <2> QED
    BY <2>1, <2>3 DEF Settles
<1> QED
  BY <1>1, Inductive, PTL
====
