------------------------------- MODULE WireProofs -------------------------------
(***************************************************************************)
(* Integers of any width survive the little-endian macros, fields are      *)
(* found where they were put, and every datagram that comes to an open     *)
(* port is read as what it was sent as, for all messages the other nodes   *)
(* can send, masks of any width and any payloads.                          *)
(***************************************************************************)
EXTENDS LpDispatch, LeastElement, SequenceTheorems

-----------------------------------------------------------------------------
(***************************************************************************)
(* The loops of the two macros.                                            *)
(***************************************************************************)

\* g goes from base to what F makes of it, n times.
Iterates(g, n, base, F) == g = [k \in 0..n |-> IF k = 0 THEN base ELSE F[k][g[k - 1]]]

\* A loop of n turns on natural numbers has a result after each.
LEMMA IterationExists ==
    ASSUME NEW n \in Nat, NEW base \in Nat, NEW F \in [Nat -> [Nat -> Nat]]
    PROVE  \E g \in [0..n -> Nat] : Iterates(g, n, base, F)
<1> DEFINE Good == { m \in 0..n : \E g \in [0..m -> Nat] : Iterates(g, m, base, F) }
<1>1. 0 \in Good
    <2> DEFINE g == [k \in 0..0 |-> base]
    <2>1. g \in [0..0 -> Nat]
        OBVIOUS
    <2>2. g = [k \in 0..0 |-> IF k = 0 THEN base ELSE F[k][g[k - 1]]]
        OBVIOUS
    <2>3. Iterates(g, 0, base, F)
        BY <2>2 DEF Iterates
    <2> HIDE DEF g
    <2>4. \E f \in [0..0 -> Nat] : Iterates(f, 0, base, F)
        BY <2>1, <2>3
    <2>5. QED
        BY <2>4
<1>2. ASSUME NEW m \in 1..n, m - 1 \in Good
      PROVE  m \in Good
    <2>1. PICK g \in [0..(m - 1) -> Nat] : Iterates(g, m - 1, base, F)
        BY <1>2
    <2> DEFINE h == [k \in 0..m |-> IF k = m THEN F[m][g[m - 1]] ELSE g[k]]
    <2>2. h \in [0..m -> Nat]
        <3>1. m \in Nat /\ g[m - 1] \in Nat
            BY <2>1
        <3>2. F[m][g[m - 1]] \in Nat
            BY <3>1
        <3>3. \A k \in 0..m : k # m => k \in 0..(m - 1)
            BY <3>1
        <3>4. \A k \in 0..m : k # m => g[k] \in Nat
            BY <2>1, <3>3
        <3>5. QED
            BY <3>2, <3>4
    <2>3. \A k \in 0..m : h[k] = IF k = 0 THEN base ELSE F[k][h[k - 1]]
        <3>1. \A k \in 0..(m - 1) : g[k] = IF k = 0 THEN base ELSE F[k][g[k - 1]]
            BY <2>1 DEF Iterates
        <3>2. \A k \in 0..m : k # m => k \in 0..(m - 1) /\ (k # 0 => k - 1 \in 0..m /\ k - 1 # m)
            OBVIOUS
        <3>3. m - 1 \in 0..m /\ m - 1 # m /\ m # 0
            OBVIOUS
        <3>4. QED
            BY <3>1, <3>2, <3>3
    <2>4. Iterates(h, m, base, F)
        <3> HIDE DEF h
        <3>1. h = [k \in 0..m |-> h[k]]
            BY <2>2
        <3>2. [k \in 0..m |-> h[k]] = [k \in 0..m |-> IF k = 0 THEN base ELSE F[k][h[k - 1]]]
            BY <2>3
        <3>3. QED
            BY <3>1, <3>2 DEF Iterates
    <2>5. \E f \in [0..m -> Nat] : Iterates(f, m, base, F)
        <3> HIDE DEF h
        <3>1. QED
            BY <2>2, <2>4
    <2>6. m \in 0..n
        OBVIOUS
    <2>7. QED
        BY <2>5, <2>6
<1>3. \A k \in 0..n : k \in Good
    <2> HIDE DEF Good
    <2>1. \A k \in 1..n : k - 1 \in Good => k \in Good
        BY <1>2
    <2>2. QED
        BY <1>1, <2>1, UpTo
<1>4. n \in Good
    <2>1. n \in 0..n
        OBVIOUS
    <2> HIDE DEF Good
    <2>2. QED
        BY <1>3, <2>1
<1>5. QED
    BY <1>4

\* The intermediate values of v >> 8 * i.
Shifts(down, v, i) ==
    /\ down \in [0..i -> Nat]
    /\ down[0] = v
    /\ \A k \in 1..i : down[k] = down[k - 1] \div 256
    /\ Shifted(v, i) = down[i]

LEMMA ShiftedLoop ==
    ASSUME NEW v \in Nat, NEW i \in Nat
    PROVE  \E down : Shifts(down, v, i)
<1> DEFINE F == [k \in Nat |-> [x \in Nat |-> x \div 256]]
           Turns(f) == f = [k \in 0..i |-> IF k = 0 THEN v ELSE f[k - 1] \div 256]
           down == CHOOSE f : Turns(f)
<1>1. F \in [Nat -> [Nat -> Nat]]
    OBVIOUS
<1>2. PICK g \in [0..i -> Nat] : Iterates(g, i, v, F)
    <2> HIDE DEF F
    <2>1. QED
        BY <1>1, IterationExists
<1>3. Turns(g)
    <2>1. \A k \in 1..i : F[k][g[k - 1]] = g[k - 1] \div 256
        BY <1>2
    <2>2. g = [k \in 0..i |-> IF k = 0 THEN v ELSE F[k][g[k - 1]]]
        BY <1>2 DEF Iterates
    <2> HIDE DEF F
    <2>3. \A k \in 0..i : g[k] = IF k = 0 THEN v ELSE F[k][g[k - 1]]
        BY <2>2
    <2>4. g = [k \in 0..i |-> g[k]]
        BY <1>2
    <2>5. \A k \in 0..i : g[k] = IF k = 0 THEN v ELSE g[k - 1] \div 256
        <3>1. \A k \in 0..i : k # 0 => k \in 1..i
            OBVIOUS
        <3>2. QED
            BY <2>1, <2>3, <3>1
    <2>6. [k \in 0..i |-> g[k]] = [k \in 0..i |-> IF k = 0 THEN v ELSE g[k - 1] \div 256]
        BY <2>5
    <2>7. QED
        BY <2>4, <2>6
<1>4. Turns(down)
    BY <1>3
<1>5. Shifted(v, i) = down[i]
    BY DEF Shifted
<1> HIDE DEF down
<1>6. down[0] = v /\ \A k \in 1..i : down[k] = down[k - 1] \div 256
    BY <1>4
<1> DEFINE Natural == { k \in 0..i : down[k] \in Nat }
<1>7. 0 \in Natural /\ \A k \in 1..i : k - 1 \in Natural => k \in Natural
    BY <1>6
<1>8. \A k \in 0..i : down[k] \in Nat
    <2>1. \A k \in 0..i : k \in Natural
        <3> HIDE DEF Natural
        <3>1. QED
            BY <1>7, UpTo
    <2>2. QED
        BY <2>1
<1>9. down \in [0..i -> Nat]
    BY <1>4, <1>8
<1>10. Shifts(down, v, i)
    BY <1>5, <1>6, <1>9 DEF Shifts
<1>11. QED
    BY <1>10

\* A shift by i more bits than another divides its result.
LEMMA ShiftedNext ==
    ASSUME NEW v \in Nat, NEW i \in Nat
    PROVE  /\ Shifted(v, 0) = v
           /\ Shifted(v, i) \in Nat
           /\ Shifted(v, i + 1) = Shifted(v, i) \div 256
<1>1. Shifted(v, 0) = v
    <2>1. \E down : Shifts(down, v, 0)
        BY ShiftedLoop
    <2>2. QED
        BY <2>1 DEF Shifts
<1>2. PICK down : Shifts(down, v, i)
    BY ShiftedLoop
<1>3. i + 1 \in Nat
    OBVIOUS
<1>4. PICK more : Shifts(more, v, i + 1)
    BY <1>3, ShiftedLoop
<1> DEFINE Same == { k \in 0..i : more[k] = down[k] }
<1>5. 0 \in Same /\ \A k \in 1..i : k - 1 \in Same => k \in Same
    BY <1>2, <1>4 DEF Shifts
<1>6. \A k \in 0..i : k \in Same
    <2> HIDE DEF Same
    <2>1. QED
        BY <1>5, UpTo
<1>7. more[i] = down[i]
    BY <1>6
<1>8. more[i + 1] = more[i] \div 256
    BY <1>4 DEF Shifts
<1>9. QED
    BY <1>1, <1>2, <1>4, <1>7, <1>8 DEF Shifts

\* A shift by one byte more divides by 256.
Descends(v, i) == Shifted(v, i) \in Nat /\ Shifted(v, i + 1) = Shifted(v, i) \div 256

LEMMA ShiftedDescends == \A v \in Nat, i \in Nat : Descends(v, i)
<1>1. TAKE v \in Nat, i \in Nat
<1>2. QED
    BY ShiftedNext DEF Descends

\* The intermediate values of a load.
Loads(high, b) ==
    /\ high \in [0..Len(b) -> Nat]
    /\ high[0] = 0
    /\ \A k \in 1..Len(b) : high[k] = b[Len(b) + 1 - k] + 256 * high[k - 1]
    /\ Load(b) = high[Len(b)]

LEMMA LoadLoop ==
    ASSUME NEW b \in Seq(Bytes)
    PROVE  \E high : Loads(high, b)
<1> DEFINE Turn(k, x) == IF k \in 1..Len(b) THEN b[Len(b) + 1 - k] + 256 * x ELSE 0
           F == [k \in Nat |-> [x \in Nat |-> Turn(k, x)]]
           Turns(f) == f = [k \in 0..Len(b) |->
                                IF k = 0 THEN 0 ELSE b[Len(b) + 1 - k] + 256 * f[k - 1]]
           high == CHOOSE f : Turns(f)
<1>1. Len(b) \in Nat /\ \A k \in 1..Len(b) : Len(b) + 1 - k \in 1..Len(b) /\ b[Len(b) + 1 - k] \in Nat
    <2>1. Len(b) \in Nat /\ \A k \in 1..Len(b) : b[k] \in Nat
        <3>1. Bytes \subseteq Nat
            BY DEF Bytes
        <3>2. Len(b) \in Nat /\ \A k \in 1..Len(b) : b[k] \in Bytes
            OBVIOUS
        <3>3. QED
            BY <3>1, <3>2
    <2>2. \A k \in 1..Len(b) : Len(b) + 1 - k \in 1..Len(b)
        BY <2>1
    <2>3. QED
        BY <2>1, <2>2
<1>2. F \in [Nat -> [Nat -> Nat]]
    BY <1>1
<1>3. PICK g \in [0..Len(b) -> Nat] : Iterates(g, Len(b), 0, F)
    <2> HIDE DEF F
    <2>1. QED
        BY <1>1, <1>2, IterationExists
<1>4. Turns(g)
    <2>1. \A k \in 1..Len(b) : F[k][g[k - 1]] = b[Len(b) + 1 - k] + 256 * g[k - 1]
        <3>1. \A k \in 1..Len(b) : k \in Nat /\ k - 1 \in 0..Len(b)
            BY <1>1
        <3>2. \A k \in 1..Len(b) : g[k - 1] \in Nat
            BY <1>3, <3>1
        <3>3. QED
            BY <3>1, <3>2
    <2>2. g = [k \in 0..Len(b) |-> IF k = 0 THEN 0 ELSE F[k][g[k - 1]]]
        BY <1>3 DEF Iterates
    <2> HIDE DEF F
    <2>3. \A k \in 0..Len(b) : g[k] = IF k = 0 THEN 0 ELSE F[k][g[k - 1]]
        BY <2>2
    <2>4. g = [k \in 0..Len(b) |-> g[k]]
        BY <1>3
    <2>5. \A k \in 0..Len(b) : k # 0 => k \in 1..Len(b)
        BY <1>1
    <2>6. \A k \in 0..Len(b) : g[k] = IF k = 0 THEN 0 ELSE b[Len(b) + 1 - k] + 256 * g[k - 1]
        BY <2>1, <2>3, <2>5
    <2>7. [k \in 0..Len(b) |-> g[k]]
              = [k \in 0..Len(b) |-> IF k = 0 THEN 0 ELSE b[Len(b) + 1 - k] + 256 * g[k - 1]]
        BY <2>6
    <2>8. QED
        BY <2>4, <2>7
<1>5. Turns(high)
    BY <1>4
<1>6. Load(b) = high[Len(b)]
    BY DEF Load
<1> HIDE DEF high
<1>7. high[0] = 0 /\ \A k \in 1..Len(b) : high[k] = b[Len(b) + 1 - k] + 256 * high[k - 1]
    <2>1. \A k \in 0..Len(b) : high[k] = IF k = 0 THEN 0 ELSE b[Len(b) + 1 - k] + 256 * high[k - 1]
        BY <1>5
    <2>2. 0 \in 0..Len(b) /\ \A k \in 1..Len(b) : k \in 0..Len(b) /\ k # 0
        BY <1>1
    <2> HIDE DEF Turns
    <2>3. QED
        BY <2>1, <2>2
<1> DEFINE Natural == { k \in 0..Len(b) : high[k] \in Nat }
<1>8. 0 \in Natural /\ \A k \in 1..Len(b) : k - 1 \in Natural => k \in Natural
    BY <1>1, <1>7
<1>9. \A k \in 0..Len(b) : high[k] \in Nat
    <2>1. \A k \in 0..Len(b) : k \in Natural
        <3> HIDE DEF Natural
        <3>1. QED
            BY <1>1, <1>8, UpTo
    <2>2. QED
        BY <2>1
<1>10. high \in [0..Len(b) -> Nat]
    BY <1>5, <1>9
<1>11. Loads(high, b)
    BY <1>6, <1>7, <1>10 DEF Loads
<1>12. QED
    BY <1>11

\* A stored integer is a sequence of bytes.
LEMMA StoreType ==
    ASSUME NEW v \in Nat, NEW n \in Nat
    PROVE  Store(v, n) \in Seq(Bytes) /\ Len(Store(v, n)) = n
<1>1. \A i \in 1..n : Shifted(v, i - 1) % 256 \in Bytes
    <2> SUFFICES ASSUME NEW i \in 1..n
                 PROVE  Shifted(v, i - 1) % 256 \in Bytes
        OBVIOUS
    <2>1. i - 1 \in Nat
        OBVIOUS
    <2>2. Shifted(v, i - 1) \in Nat
        BY <2>1, ShiftedNext
    <2>3. QED
        BY <2>2 DEF Bytes
<1>2. QED
    BY <1>1 DEF Store

\* An unsigned integer of any width comes out of a buffer as it was put in.
THEOREM LoadStore ==
    ASSUME NEW n \in Nat, NEW v \in Nat, Fits(v, n)
    PROVE  Load(Store(v, n)) = v
<1> DEFINE b == Store(v, n)
<1>1. b \in Seq(Bytes) /\ Len(b) = n
    BY StoreType
<1>2. \A i \in 1..n : b[i] = Shifted(v, i - 1) % 256
    BY DEF Store
<1> HIDE DEF b
<1>3. PICK high : Loads(high, b)
    BY <1>1, LoadLoop
<1>4. /\ high[0] = 0
      /\ \A k \in 1..n : high[k] = b[n + 1 - k] + 256 * high[k - 1]
      /\ Load(b) = high[n]
    BY <1>1, <1>3 DEF Loads
<1>10. ASSUME NEW i \in Nat
       PROVE  Shifted(v, i) \in Nat /\ Shifted(v, i + 1) = Shifted(v, i) \div 256
    <2>1. Descends(v, i)
        BY ShiftedDescends, Zenon
    <2>2. QED
        BY <2>1, Zenon DEF Descends
<1> DEFINE Right == { k \in 0..n : high[k] = Shifted(v, n - k) }
<1>5. 0 \in Right
    BY <1>4 DEF Fits
<1>6. ASSUME NEW k \in 1..n, k - 1 \in Right
      PROVE  k \in Right
    <2>1. PICK i \in Nat : i = n - k
        OBVIOUS
    <2>8. n - (k - 1) = i + 1 /\ n + 1 - k = i + 1 /\ i + 1 \in 1..n /\ (i + 1) - 1 = i
        BY <2>1
    <2>2. high[k - 1] = Shifted(v, i + 1)
        BY <1>6, <2>8
    <2>3. b[n + 1 - k] = Shifted(v, i) % 256
        BY <1>2, <2>8
    <2>4. high[k] = b[n + 1 - k] + 256 * high[k - 1]
        BY <1>4
    <2>5. Shifted(v, i) \in Nat /\ Shifted(v, i + 1) = Shifted(v, i) \div 256
        BY <1>10
    <2>6. high[k] = Shifted(v, i)
        BY <2>2, <2>3, <2>4, <2>5
    <2>7. QED
        BY <2>1, <2>6
<1>7. \A k \in 0..n : k \in Right
    <2> HIDE DEF Right
    <2>1. \A k \in 1..n : k - 1 \in Right => k \in Right
        BY <1>6
    <2>2. QED
        BY <1>5, <2>1, UpTo
<1>8. high[n] = Shifted(v, 0)
    <2>1. n \in 0..n /\ n - n = 0
        OBVIOUS
    <2>2. QED
        BY <1>7, <2>1
<1>9. QED
    BY <1>4, <1>8, ShiftedNext DEF b

-----------------------------------------------------------------------------
(***************************************************************************)
(* Fields of concatenated byte sequences.                                  *)
(***************************************************************************)

\* A field of a buffer that is long enough is made of the buffer's bytes.
LEMMA FieldBytes ==
    ASSUME NEW b \in Seq(Bytes), NEW p \in Nat, NEW n \in Nat, p + n <= Len(b)
    PROVE  /\ Field(b, p, n) \in Seq(Bytes)
           /\ Len(Field(b, p, n)) = n
           /\ \A i \in 1..n : Field(b, p, n)[i] = b[p + i]
<1>1. p + 1 \in Int /\ p + n \in Int /\ Len(b) \in Nat
    OBVIOUS
<1>2. \A i \in (p + 1)..(p + n) : i \in 1..Len(b)
    BY <1>1
<1>3. \A i \in (p + 1)..(p + n) : b[i] \in Bytes
    BY <1>2, ElementOfSeq
<1>4. /\ SubSeq(b, p + 1, p + n) \in Seq(Bytes)
      /\ Len(SubSeq(b, p + 1, p + n))
             = IF p + 1 <= p + n THEN (p + n) - (p + 1) + 1 ELSE 0
      /\ \A i \in 1..((p + n) - (p + 1) + 1) : SubSeq(b, p + 1, p + n)[i] = b[(p + 1) + i - 1]
    BY <1>1, <1>3, SubSeqProperties
<1>5. (p + n) - (p + 1) + 1 = n /\ \A i \in 1..n : (p + 1) + i - 1 = p + i
    OBVIOUS
<1>6. (IF p + 1 <= p + n THEN n ELSE 0) = n
    OBVIOUS
<1>7. QED
    BY <1>4, <1>5, <1>6 DEF Field

\* What follows does not change a field.
LEMMA FieldInFront ==
    ASSUME NEW b \in Seq(Bytes), NEW c \in Seq(Bytes),
           NEW p \in Nat, NEW n \in Nat, p + n <= Len(b)
    PROVE  Field(b \o c, p, n) = Field(b, p, n)
<1>1. /\ b \o c \in Seq(Bytes) /\ Len(b \o c) = Len(b) + Len(c)
      /\ \A i \in 1..(Len(b) + Len(c)) : (b \o c)[i] = IF i <= Len(b) THEN b[i] ELSE c[i - Len(b)]
    BY ConcatProperties
<1>2. Len(b) \in Nat /\ Len(c) \in Nat
    OBVIOUS
<1>3. p + n <= Len(b \o c)
    BY <1>1, <1>2
<1>4. \A i \in 1..n : (b \o c)[p + i] = b[p + i]
    BY <1>1, <1>2
<1>5. /\ Field(b \o c, p, n) \in Seq(Bytes) /\ Len(Field(b \o c, p, n)) = n
      /\ \A i \in 1..n : Field(b \o c, p, n)[i] = (b \o c)[p + i]
    BY <1>1, <1>3, FieldBytes
<1>6. /\ Field(b, p, n) \in Seq(Bytes) /\ Len(Field(b, p, n)) = n
      /\ \A i \in 1..n : Field(b, p, n)[i] = b[p + i]
    BY FieldBytes
<1>7. \A i \in 1..n : Field(b \o c, p, n)[i] = Field(b, p, n)[i]
    BY <1>4, <1>5, <1>6
<1>8. QED
    BY <1>5, <1>6, <1>7, SeqEqual

\* What is put at the end of a buffer is the field there.
LEMMA FieldAtEnd ==
    ASSUME NEW b \in Seq(Bytes), NEW c \in Seq(Bytes)
    PROVE  Field(b \o c, Len(b), Len(c)) = c
<1>1. /\ b \o c \in Seq(Bytes) /\ Len(b \o c) = Len(b) + Len(c)
      /\ \A i \in 1..(Len(b) + Len(c)) : (b \o c)[i] = IF i <= Len(b) THEN b[i] ELSE c[i - Len(b)]
    BY ConcatProperties
<1>2. Len(b) \in Nat /\ Len(c) \in Nat
    OBVIOUS
<1>3. \A i \in 1..Len(c) : (b \o c)[Len(b) + i] = c[i]
    BY <1>1, <1>2
<1>4. Len(b) + Len(c) <= Len(b \o c)
    BY <1>1, <1>2
<1>5. /\ Field(b \o c, Len(b), Len(c)) \in Seq(Bytes)
      /\ Len(Field(b \o c, Len(b), Len(c))) = Len(c)
      /\ \A i \in 1..Len(c) : Field(b \o c, Len(b), Len(c))[i] = (b \o c)[Len(b) + i]
    BY <1>1, <1>2, <1>4, FieldBytes
<1>6. QED
    BY <1>3, <1>5, SeqEqual

\* Appending to a buffer changes neither its fields nor its first byte.
LEMMA Appended ==
    ASSUME NEW b \in Seq(Bytes), NEW c \in Seq(Bytes)
    PROVE  /\ b \o c \in Seq(Bytes)
           /\ Len(b \o c) = Len(b) + Len(c)
           /\ Len(b) >= 1 => (b \o c)[1] = b[1]
           /\ \A p \in Nat, n \in Nat : p + n <= Len(b) => Field(b \o c, p, n) = Field(b, p, n)
<1>1. /\ b \o c \in Seq(Bytes) /\ Len(b \o c) = Len(b) + Len(c)
      /\ \A i \in 1..(Len(b) + Len(c)) : (b \o c)[i] = IF i <= Len(b) THEN b[i] ELSE c[i - Len(b)]
    BY ConcatProperties
<1>2. Len(b) \in Nat /\ Len(c) \in Nat
    OBVIOUS
<1>3. Len(b) >= 1 => (b \o c)[1] = b[1]
    BY <1>1, <1>2
<1>4. QED
    BY <1>1, <1>3, FieldInFront

\* An integer of n bytes appended to a buffer is loaded from where the buffer ended.
LEMMA StoreAppended ==
    ASSUME NEW b \in Seq(Bytes), NEW n \in Nat, NEW v, Fits(v, n)
    PROVE  /\ Store(v, n) \in Seq(Bytes) /\ Len(Store(v, n)) = n
           /\ Load(Field(b \o Store(v, n), Len(b), n)) = v
<1>1. v \in Nat
    BY DEF Fits
<1>2. Store(v, n) \in Seq(Bytes) /\ Len(Store(v, n)) = n
    BY <1>1, StoreType
<1>3. Field(b \o Store(v, n), Len(b), n) = Store(v, n)
    BY <1>2, FieldAtEnd
<1>4. QED
    BY <1>1, <1>2, <1>3, LoadStore

\* whole is the buffer b and after it an integer v of n bytes.
Continues(whole, b, n, v) ==
    /\ whole \in Seq(Bytes)
    /\ Len(whole) = Len(b) + n
    /\ whole[1] = b[1]
    /\ Load(Field(whole, Len(b), n)) = v
    /\ \A p \in Nat, k \in Nat : p + k <= Len(b) => Field(whole, p, k) = Field(b, p, k)

LEMMA Packed ==
    ASSUME NEW b \in Seq(Bytes), Len(b) >= 1, NEW n \in Nat, NEW v, Fits(v, n)
    PROVE  Continues(b \o Store(v, n), b, n, v)
<1> DEFINE c == Store(v, n)
<1>1. c \in Seq(Bytes) /\ Len(c) = n /\ Load(Field(b \o c, Len(b), n)) = v
    BY StoreAppended
<1> HIDE DEF c
<1>2. /\ b \o c \in Seq(Bytes) /\ Len(b \o c) = Len(b) + Len(c) /\ (b \o c)[1] = b[1]
      /\ \A p \in Nat, k \in Nat : p + k <= Len(b) => Field(b \o c, p, k) = Field(b, p, k)
    BY <1>1, Appended
<1>3. Continues(b \o c, b, n, v)
    BY <1>1, <1>2 DEF Continues
<1>4. QED
    BY <1>3 DEF c

LEMMA ContinuesFacts ==
    ASSUME NEW whole, NEW b, NEW n, NEW v, Continues(whole, b, n, v)
    PROVE  /\ whole \in Seq(Bytes) /\ Len(whole) = Len(b) + n /\ whole[1] = b[1]
           /\ Load(Field(whole, Len(b), n)) = v
BY Zenon DEF Continues

\* An integer that was there is still there.
LEMMA ContinuesKeeps ==
    ASSUME NEW whole, NEW b, NEW n, NEW v, Continues(whole, b, n, v),
           NEW p \in Nat, NEW k \in Nat, p + k <= Len(b)
    PROVE  Load(Field(whole, p, k)) = Load(Field(b, p, k))
BY Zenon DEF Continues

\* Any bytes make a natural number, and two make the number they are the digits of.
LEMMA LoadNat ==
    ASSUME NEW b \in Seq(Bytes)
    PROVE  /\ Load(b) \in Nat
           /\ Len(b) = 2 => Load(b) = b[1] + 256 * b[2]
<1>1. PICK high : Loads(high, b)
    BY LoadLoop
<1>2. Len(b) \in Nat
    OBVIOUS
<1>3. Load(b) \in Nat
    BY <1>1, <1>2 DEF Loads
<1>4. ASSUME Len(b) = 2
      PROVE  Load(b) = b[1] + 256 * b[2]
    <2>1. high[0] = 0 /\ high[1] = b[2] + 256 * high[0] /\ high[2] = b[1] + 256 * high[1]
        BY <1>1, <1>4 DEF Loads
    <2>2. b[1] \in Bytes /\ b[2] \in Bytes
        BY <1>4, ElementOfSeq
    <2>3. b[1] \in Nat /\ b[2] \in Nat
        <3>1. \A x \in Bytes : x \in Nat
            BY DEF Bytes
        <3>2. QED
            BY <2>2, <3>1
    <2>4. high[1] = b[2] /\ high[2] = b[1] + 256 * b[2]
        BY <2>1, <2>3
    <2>5. QED
        BY <1>1, <1>4, <2>4 DEF Loads
<1>5. QED
    BY <1>3, <1>4


-----------------------------------------------------------------------------
(***************************************************************************)
(* What the packed messages say.                                           *)
(***************************************************************************)

\* The headers are bytes, and their first bytes differ.
LEMMA Headers ==
    /\ lpsig_header \in Seq(Bytes) /\ Len(lpsig_header) = 2 /\ lpsig_header[1] = 84
    /\ lpreq_header \in Seq(Bytes) /\ Len(lpreq_header) = 2 /\ lpreq_header[1] = 242
    /\ lpsp_header \in Seq(Bytes) /\ Len(lpsp_header) = 2 /\ lpsp_header[1] = 31
BY DEF lpsig_header, lpreq_header, lpsp_header, Bytes

\* The size of a signal and what its fields say.
LEMMA SignalSays ==
    ASSUME NEW m, Fits(m.id, 2), Fits(m.num, 1)
    PROVE  /\ PackSignal(m) \in Seq(Bytes)
           /\ Len(PackSignal(m)) = 5 /\ PackSignal(m)[1] = 84
           /\ Load(Field(PackSignal(m), 2, 2)) = m.id
           /\ Load(Field(PackSignal(m), 4, 1)) = m.num
<1> DEFINE front == lpsig_header \o Store(m.id, 2)
           b == PackSignal(m)
<1>1. Continues(front, lpsig_header, 2, m.id)
    BY Headers, Packed
<1> HIDE DEF front, PackSignal
<1>2. front \in Seq(Bytes) /\ Len(front) = 4 /\ front[1] = 84 /\ Load(Field(front, 2, 2)) = m.id
    BY <1>1, Headers DEF Continues
<1>3. Len(front) >= 1 /\ 1 \in Nat
    BY <1>2
<1>4. Continues(front \o Store(m.num, 1), front, 1, m.num)
    BY <1>2, <1>3, Packed, Zenon
<1>5. Continues(b, front, 1, m.num)
    BY <1>4 DEF front, PackSignal
<1> HIDE DEF b
<1>6. 2 + 2 <= Len(front)
    BY <1>2
<1>7. QED
    <2>1. Load(Field(b, 4, 1)) = m.num /\ Load(Field(b, 2, 2)) = Load(Field(front, 2, 2))
        BY <1>2, <1>5, <1>6 DEF Continues
    <2>2. b \in Seq(Bytes) /\ Len(b) = 5 /\ b[1] = 84
        BY <1>2, <1>5 DEF Continues
    <2>3. QED
        BY <1>2, <2>1, <2>2, Zenon DEF b

LEMMA PayloadMaxType == Fits(PayloadMax, 2)
BY WireAssumption

LEMMA MaskRange == MaskBytes \in 1..8
BY WireAssumption

LEMMA MaskType == MaskBytes \in Nat
BY WireAssumption

\* The size of a request and what its fields say.
LEMMA RequestSays ==
    ASSUME NEW m, Fits(m.id, 2), Fits(m.mask, MaskBytes), Fits(m.period, 2)
    PROVE  /\ PackRequest(m) \in Seq(Bytes)
           /\ Len(PackRequest(m)) = 6 + MaskBytes /\ PackRequest(m)[1] = 242
           /\ Load(Field(PackRequest(m), 2, 2)) = m.id
           /\ Load(Field(PackRequest(m), 4, MaskBytes)) = m.mask
           /\ Load(Field(PackRequest(m), 4 + MaskBytes, 2)) = m.period
<1> DEFINE front == lpreq_header \o Store(m.id, 2)
           masked == front \o Store(m.mask, MaskBytes)
           b == PackRequest(m)
<1>1. MaskBytes \in Nat
    BY MaskType, Zenon
<1>2. Continues(front, lpreq_header, 2, m.id)
    BY Headers, Packed
<1> HIDE DEF front
<1>3. front \in Seq(Bytes) /\ Len(front) = 4 /\ front[1] = 242 /\ Load(Field(front, 2, 2)) = m.id
    BY <1>2, Headers DEF Continues
<1>4. Len(front) >= 1 /\ 2 + 2 <= Len(front)
    BY <1>3
<1>5. Continues(masked, front, MaskBytes, m.mask)
    <2>1. front \in Seq(Bytes) /\ Len(front) >= 1
        BY <1>3, <1>4
    <2>2. Continues(front \o Store(m.mask, MaskBytes), front, MaskBytes, m.mask)
        BY <1>1, <2>1, Packed, Zenon
    <2>3. QED
        BY <2>2
<1> HIDE DEF masked
<1>6. /\ masked \in Seq(Bytes) /\ Len(masked) = 4 + MaskBytes /\ masked[1] = 242
      /\ Load(Field(masked, 4, MaskBytes)) = m.mask
      /\ Field(masked, 2, 2) = Field(front, 2, 2)
    BY <1>1, <1>3, <1>4, <1>5 DEF Continues
<1>7. Len(masked) >= 1 /\ 2 + 2 <= Len(masked) /\ 4 + MaskBytes <= Len(masked)
    BY <1>1, <1>6
<1>8. masked \in Seq(Bytes) /\ Len(masked) >= 1 /\ 2 \in Nat /\ 4 \in Nat
    BY <1>6, <1>7
<1>9. Continues(masked \o Store(m.period, 2), masked, 2, m.period)
    BY <1>8, Packed, Zenon
<1>10. Continues(b, masked, 2, m.period)
    BY <1>9 DEF masked, front, PackRequest
<1> HIDE DEF b
<1>11. /\ b \in Seq(Bytes) /\ Len(b) = Len(masked) + 2 /\ b[1] = masked[1]
       /\ Load(Field(b, Len(masked), 2)) = m.period
    BY <1>10, Zenon DEF Continues
<1>12. \A p \in Nat, k \in Nat : p + k <= Len(masked) => Field(b, p, k) = Field(masked, p, k)
    BY <1>10, Zenon DEF Continues
<1>13. Field(b, 2, 2) = Field(masked, 2, 2) /\ Field(b, 4, MaskBytes) = Field(masked, 4, MaskBytes)
    BY <1>1, <1>7, <1>8, <1>12, Zenon
<1>14. (4 + MaskBytes) + 2 = 6 + MaskBytes
    BY <1>1
<1>15. QED
    BY <1>3, <1>6, <1>11, <1>13, <1>14, Zenon DEF b

\* The fixed part of a sub-packet, put together field by field.
LEMMA FrontSays ==
    ASSUME NEW id, NEW idx, NEW num, NEW len, NEW f1, NEW f2, NEW f3, NEW f4,
           Continues(f1, lpsp_header, 2, id), Continues(f2, f1, 1, idx),
           Continues(f3, f2, 1, num), Continues(f4, f3, 2, len)
    PROVE  /\ f4 \in Seq(Bytes) /\ Len(f4) = 8 /\ f4[1] = 31
           /\ Load(Field(f4, 2, 2)) = id /\ Load(Field(f4, 4, 1)) = idx
           /\ Load(Field(f4, 5, 1)) = num /\ Load(Field(f4, 6, 2)) = len
<1>1. /\ f1 \in Seq(Bytes) /\ Len(f1) = Len(lpsp_header) + 2 /\ f1[1] = lpsp_header[1]
      /\ Load(Field(f1, Len(lpsp_header), 2)) = id
    BY ContinuesFacts, Zenon
<1>2. /\ f2 \in Seq(Bytes) /\ Len(f2) = Len(f1) + 1 /\ f2[1] = f1[1]
      /\ Load(Field(f2, Len(f1), 1)) = idx
    BY ContinuesFacts, Zenon
<1>3. /\ f3 \in Seq(Bytes) /\ Len(f3) = Len(f2) + 1 /\ f3[1] = f2[1]
      /\ Load(Field(f3, Len(f2), 1)) = num
    BY ContinuesFacts, Zenon
<1>4. /\ f4 \in Seq(Bytes) /\ Len(f4) = Len(f3) + 2 /\ f4[1] = f3[1]
      /\ Load(Field(f4, Len(f3), 2)) = len
    BY ContinuesFacts, Zenon
<1>5. Len(f1) = 4 /\ Len(f2) = 5 /\ Len(f3) = 6 /\ Len(f4) = 8 /\ f4[1] = 31
    BY <1>1, <1>2, <1>3, <1>4, Headers
<1>6. /\ 2 + 2 <= Len(f1) /\ 2 + 2 <= Len(f2) /\ 2 + 2 <= Len(f3)
      /\ 4 + 1 <= Len(f2) /\ 4 + 1 <= Len(f3) /\ 5 + 1 <= Len(f3)
    BY <1>5
<1>7. 1 \in Nat /\ 2 \in Nat /\ 4 \in Nat /\ 5 \in Nat
    OBVIOUS
<1>8. /\ Load(Field(f4, 2, 2)) = Load(Field(f3, 2, 2))
      /\ Load(Field(f3, 2, 2)) = Load(Field(f2, 2, 2))
      /\ Load(Field(f2, 2, 2)) = Load(Field(f1, 2, 2))
    <2>1. Load(Field(f4, 2, 2)) = Load(Field(f3, 2, 2))
        BY <1>6, <1>7, ContinuesKeeps, Zenon
    <2>2. Load(Field(f3, 2, 2)) = Load(Field(f2, 2, 2))
        BY <1>6, <1>7, ContinuesKeeps, Zenon
    <2>3. Load(Field(f2, 2, 2)) = Load(Field(f1, 2, 2))
        BY <1>6, <1>7, ContinuesKeeps, Zenon
    <2>4. QED
        BY <2>1, <2>2, <2>3
<1>9. /\ Load(Field(f4, 4, 1)) = Load(Field(f3, 4, 1))
      /\ Load(Field(f3, 4, 1)) = Load(Field(f2, 4, 1))
      /\ Load(Field(f4, 5, 1)) = Load(Field(f3, 5, 1))
    <2>1. Load(Field(f4, 4, 1)) = Load(Field(f3, 4, 1))
        BY <1>6, <1>7, ContinuesKeeps, Zenon
    <2>2. Load(Field(f3, 4, 1)) = Load(Field(f2, 4, 1))
        BY <1>6, <1>7, ContinuesKeeps, Zenon
    <2>3. Load(Field(f4, 5, 1)) = Load(Field(f3, 5, 1))
        BY <1>6, <1>7, ContinuesKeeps, Zenon
    <2>4. QED
        BY <2>1, <2>2, <2>3
<1>10. Load(Field(f1, 2, 2)) = id
    BY <1>1, Headers, Zenon
<1>11. QED
    BY <1>2, <1>3, <1>4, <1>5, <1>8, <1>9, <1>10, Zenon

\* The length of a payload fits into its 16 bits.
LEMMA LengthFits ==
    ASSUME NEW n \in Nat, n <= PayloadMax
    PROVE  Fits(n, 2)
<1>1. ASSUME NEW v \in Nat
      PROVE  Shifted(v, 2) = (v \div 256) \div 256
    <2>1. Shifted(v, 0) = v /\ Shifted(v, 0 + 1) = Shifted(v, 0) \div 256
        BY ShiftedNext
    <2>2. Shifted(v, 1 + 1) = Shifted(v, 1) \div 256
        BY ShiftedNext
    <2>3. QED
        BY <2>1, <2>2
<1>2. PayloadMax \in Nat /\ (PayloadMax \div 256) \div 256 = 0
    BY PayloadMaxType, <1>1 DEF Fits
<1>3. (n \div 256) \div 256 = 0
    <2>1. PayloadMax \div 256 \in Nat /\ PayloadMax \div 256 < 256
        BY <1>2
    <2>2. n \div 256 \in Nat /\ n \div 256 <= PayloadMax \div 256
        BY <1>2
    <2>3. QED
        BY <2>1, <2>2
<1>4. QED
    BY <1>1, <1>3 DEF Fits

\* The size of a sub-packet and what its fields say, whatever lies behind it.
LEMMA SubPacketSays ==
    ASSUME NEW m \in SubPacketMessages, Sendable(m), NEW behind \in Seq(Bytes)
    PROVE  /\ PackSubPacket(m) \in Seq(Bytes)
           /\ Len(PackSubPacket(m)) = 8 + Len(m.payload)
           /\ PackSubPacket(m)[1] = 31
           /\ Load(Field(PackSubPacket(m), 2, 2)) = m.id
           /\ Load(Field(PackSubPacket(m), 4, 1)) = m.idx
           /\ Load(Field(PackSubPacket(m), 5, 1)) = m.num
           /\ PayloadLen(PackSubPacket(m)) = Len(m.payload)
           /\ PayloadLen(PackSubPacket(m) \o behind) = Len(m.payload)
           /\ \A i \in 1..Len(m.payload) : PackSubPacket(m)[8 + i] = m.payload[i]
<1> DEFINE f1 == lpsp_header \o Store(m.id, 2)
           f2 == f1 \o Store(m.idx, 1)
           f3 == f2 \o Store(m.num, 1)
           f4 == f3 \o Store(Len(m.payload), 2)
           b == f4 \o m.payload
<1>1. m.payload \in Seq(Bytes) /\ m.kind = "subpacket"
    BY DEF SubPacketMessages
<1>2. Fits(m.id, 2) /\ Fits(m.idx, 1) /\ Fits(m.num, 1) /\ Len(m.payload) <= PayloadMax
    BY <1>1 DEF Sendable, SignalMessages, RequestMessages
<1>3. Fits(Len(m.payload), 2)
    BY <1>1, <1>2, LengthFits
<1>4. b = PackSubPacket(m)
    BY DEF PackSubPacket
<1>5. Continues(f1, lpsp_header, 2, m.id)
    BY <1>2, Headers, Packed
<1>6. f1 \in Seq(Bytes) /\ Len(f1) = 4
    <2> HIDE DEF f1
    <2>1. f1 \in Seq(Bytes) /\ Len(f1) = Len(lpsp_header) + 2
        BY <1>5, ContinuesFacts, Zenon
    <2>2. QED
        BY <2>1, Headers
<1>7. Continues(f2, f1, 1, m.idx) /\ f2 \in Seq(Bytes) /\ Len(f2) = 5
    <2> HIDE DEF f1
    <2>1. Len(f1) >= 1 /\ 1 \in Nat
        BY <1>6
    <2>2. Continues(f2, f1, 1, m.idx)
        BY <1>2, <1>6, <2>1, Packed, Zenon
    <2> HIDE DEF f2
    <2>3. f2 \in Seq(Bytes) /\ Len(f2) = Len(f1) + 1
        BY <2>2, ContinuesFacts, Zenon
    <2>4. QED
        BY <1>6, <2>2, <2>3
<1>8. Continues(f3, f2, 1, m.num) /\ f3 \in Seq(Bytes) /\ Len(f3) = 6
    <2> HIDE DEF f2
    <2>1. Len(f2) >= 1 /\ 1 \in Nat
        BY <1>7
    <2>2. Continues(f3, f2, 1, m.num)
        BY <1>2, <1>7, <2>1, Packed, Zenon
    <2> HIDE DEF f3
    <2>3. f3 \in Seq(Bytes) /\ Len(f3) = Len(f2) + 1
        BY <2>2, ContinuesFacts, Zenon
    <2>4. QED
        BY <1>7, <2>2, <2>3
<1>9. Continues(f4, f3, 2, Len(m.payload))
    <2> HIDE DEF f3
    <2>1. Len(f3) >= 1 /\ 2 \in Nat
        BY <1>8
    <2>2. QED
        BY <1>3, <1>8, <2>1, Packed, Zenon
<1> HIDE DEF f1, f2, f3, f4
<1>10. /\ f4 \in Seq(Bytes) /\ Len(f4) = 8 /\ f4[1] = 31
       /\ Load(Field(f4, 2, 2)) = m.id /\ Load(Field(f4, 4, 1)) = m.idx
       /\ Load(Field(f4, 5, 1)) = m.num /\ Load(Field(f4, 6, 2)) = Len(m.payload)
    BY <1>5, <1>7, <1>8, <1>9, FrontSays
<1>11. /\ b \in Seq(Bytes) /\ Len(b) = Len(f4) + Len(m.payload)
       /\ Len(f4) >= 1 => b[1] = f4[1]
       /\ \A p \in Nat, n \in Nat : p + n <= Len(f4) => Field(b, p, n) = Field(f4, p, n)
    BY <1>1, <1>10, Appended, Zenon
<1>12. \A i \in 1..Len(m.payload) : b[8 + i] = m.payload[i]
    <2>1. Len(m.payload) \in Nat
        BY <1>1, LenProperties, Zenon
    <2>2. \A j \in 1..(Len(f4) + Len(m.payload)) :
              b[j] = IF j <= Len(f4) THEN f4[j] ELSE m.payload[j - Len(f4)]
        BY <1>1, <1>10, ConcatProperties, Zenon
    <2> HIDE DEF b
    <2>3. ASSUME NEW i \in 1..Len(m.payload)
          PROVE  b[8 + i] = m.payload[i]
        <3>1. 8 + i \in 1..(Len(f4) + Len(m.payload)) /\ ~(8 + i <= Len(f4)) /\ (8 + i) - Len(f4) = i
            BY <1>10, <2>1
        <3>2. QED
            BY <2>2, <3>1, Zenon
    <2>4. QED
        BY <2>3
<1> HIDE DEF b
<1>13. /\ 2 + 2 <= Len(f4) /\ 4 + 1 <= Len(f4) /\ 5 + 1 <= Len(f4) /\ 6 + 2 <= Len(f4)
       /\ 1 \in Nat /\ 2 \in Nat /\ 4 \in Nat /\ 5 \in Nat /\ 6 \in Nat
       /\ Len(f4) >= 1
    BY <1>10
<1>14. /\ Field(b, 2, 2) = Field(f4, 2, 2) /\ Field(b, 4, 1) = Field(f4, 4, 1)
       /\ Field(b, 5, 1) = Field(f4, 5, 1) /\ Field(b, 6, 2) = Field(f4, 6, 2)
    BY <1>11, <1>13, Zenon
<1>15. Field(b \o behind, 6, 2) = Field(b, 6, 2)
    <2>1. 6 + 2 <= Len(b)
        BY <1>1, <1>10, <1>11
    <2>2. QED
        BY <1>11, <1>13, <2>1, FieldInFront, Zenon
<1>16. PayloadLen(b) = Len(m.payload) /\ PayloadLen(b \o behind) = Len(m.payload)
    BY <1>10, <1>14, <1>15, Zenon DEF PayloadLen
<1>17. QED
    BY <1>4, <1>10, <1>11, <1>12, <1>13, <1>14, <1>16, Zenon

-----------------------------------------------------------------------------
(***************************************************************************)
(* What the handlers make of a datagram.                                   *)
(***************************************************************************)

\* Exactly the handler of the kind takes b, and reads in it what m says.
AsSent(m, b, behind) ==
    /\ TakesSignal(b) <=> m.kind = "signal"
    /\ TakesRequest(b) <=> m.kind = "request"
    /\ TakesSubPacket(b, behind) <=> m.kind = "subpacket"
    /\ m.kind = "signal" => Load(Field(b, 2, 2)) = m.id /\ Load(Field(b, 4, 1)) = m.num
    /\ m.kind = "request" =>
          /\ Load(Field(b, 2, 2)) = m.id
          /\ Load(Field(b, 4, MaskBytes)) = m.mask
          /\ Load(Field(b, 4 + MaskBytes, 2)) = m.period
    /\ m.kind = "subpacket" =>
          /\ Load(Field(b, 2, 2)) = m.id
          /\ Load(Field(b, 4, 1)) = m.idx
          /\ Load(Field(b, 5, 1)) = m.num
          /\ PayloadLen(b) = Len(m.payload)
          /\ \A i \in 1..Len(m.payload) : b[8 + i] = m.payload[i]

\* Which handlers take a datagram, by its first byte.
LEMMA FirstByte ==
    ASSUME NEW b, NEW behind
    PROVE  /\ TakesSignal(b) <=> b[1] = 84 /\ Len(b) % 256 = 5
           /\ TakesRequest(b) <=> b[1] = 242 /\ Len(b) % 256 = 6 + MaskBytes
           /\ TakesSubPacket(b, behind) <=> b[1] = 31 /\ Len(b) = 8 + PayloadLen(b \o behind)
<1>1. SignalSize = 5 /\ SubPacketFront = 8
    BY DEF SignalSize, SubPacketFront, LP_HEADER_SIZE
<1>2. RequestSize = 6 + MaskBytes
    BY MaskType DEF RequestSize, LP_HEADER_SIZE
<1>3. QED
    BY <1>1, <1>2, Headers
       DEF TakesSignal, TakesRequest, TakesSubPacket, HeaderIs, Narrowed

LEMMA SignalAsSent ==
    ASSUME NEW m \in SignalMessages, Sendable(m), NEW behind
    PROVE  /\ Pack(m) \in Seq(Bytes) /\ Len(Pack(m)) >= 2
           /\ AsSent(m, Pack(m), behind)
<1> DEFINE b == Pack(m)
<1>1. m.kind = "signal" /\ Fits(m.id, 2) /\ Fits(m.num, 1)
    BY DEF SignalMessages, RequestMessages, SubPacketMessages, Sendable
<1>2. b = PackSignal(m)
    BY <1>1 DEF Pack
<1> HIDE DEF b
<1>3. /\ b \in Seq(Bytes) /\ Len(b) = 5 /\ b[1] = 84
      /\ Load(Field(b, 2, 2)) = m.id
      /\ Load(Field(b, 4, 1)) = m.num
    BY <1>1, <1>2, SignalSays, Zenon
<1>4. /\ TakesSignal(b) <=> b[1] = 84 /\ Len(b) % 256 = 5
      /\ TakesRequest(b) <=> b[1] = 242 /\ Len(b) % 256 = 6 + MaskBytes
      /\ TakesSubPacket(b, behind) <=> b[1] = 31 /\ Len(b) = 8 + PayloadLen(b \o behind)
    BY FirstByte, Zenon
<1>5. Len(b) % 256 = 5 /\ b[1] # 242 /\ b[1] # 31 /\ Len(b) >= 2
    BY <1>3
<1>6. TakesSignal(b) /\ ~TakesRequest(b) /\ ~TakesSubPacket(b, behind)
    BY <1>3, <1>4, <1>5, Zenon
<1>7. AsSent(m, b, behind)
    BY <1>1, <1>3, <1>6 DEF AsSent
<1>8. QED
    BY <1>3, <1>5, <1>7 DEF b

LEMMA RequestAsSent ==
    ASSUME NEW m \in RequestMessages, Sendable(m), NEW behind
    PROVE  /\ Pack(m) \in Seq(Bytes) /\ Len(Pack(m)) >= 2
           /\ AsSent(m, Pack(m), behind)
<1> DEFINE b == Pack(m)
<1>1. m.kind = "request" /\ Fits(m.id, 2) /\ Fits(m.mask, MaskBytes) /\ Fits(m.period, 2)
    BY DEF SignalMessages, RequestMessages, SubPacketMessages, Sendable
<1>2. b = PackRequest(m)
    BY <1>1 DEF Pack
<1> HIDE DEF b
<1>3. /\ b \in Seq(Bytes) /\ Len(b) = 6 + MaskBytes /\ b[1] = 242
      /\ Load(Field(b, 2, 2)) = m.id
      /\ Load(Field(b, 4, MaskBytes)) = m.mask
      /\ Load(Field(b, 4 + MaskBytes, 2)) = m.period
    BY <1>1, <1>2, RequestSays, Zenon
<1>4. MaskBytes \in 1..8
    BY MaskRange
<1>5. /\ TakesSignal(b) <=> b[1] = 84 /\ Len(b) % 256 = 5
      /\ TakesRequest(b) <=> b[1] = 242 /\ Len(b) % 256 = 6 + MaskBytes
      /\ TakesSubPacket(b, behind) <=> b[1] = 31 /\ Len(b) = 8 + PayloadLen(b \o behind)
    BY FirstByte, Zenon
<1>6. Len(b) % 256 = 6 + MaskBytes /\ b[1] # 84 /\ b[1] # 31 /\ Len(b) >= 2
    BY <1>3, <1>4
<1>7. ~TakesSignal(b) /\ TakesRequest(b) /\ ~TakesSubPacket(b, behind)
    BY <1>3, <1>5, <1>6, Zenon
<1>8. AsSent(m, b, behind)
    BY <1>1, <1>3, <1>7 DEF AsSent
<1>9. QED
    BY <1>3, <1>6, <1>8 DEF b

LEMMA SubPacketAsSent ==
    ASSUME NEW m \in SubPacketMessages, Sendable(m), NEW behind \in Seq(Bytes)
    PROVE  /\ Pack(m) \in Seq(Bytes) /\ Len(Pack(m)) >= 2
           /\ AsSent(m, Pack(m), behind)
<1> DEFINE b == Pack(m)
<1>1. m.kind = "subpacket" /\ Len(m.payload) \in Nat
    BY DEF SubPacketMessages
<1>2. b = PackSubPacket(m)
    BY <1>1 DEF Pack
<1> HIDE DEF b
<1>3. /\ b \in Seq(Bytes) /\ Len(b) = 8 + Len(m.payload) /\ b[1] = 31
      /\ Load(Field(b, 2, 2)) = m.id /\ Load(Field(b, 4, 1)) = m.idx
      /\ Load(Field(b, 5, 1)) = m.num
      /\ PayloadLen(b) = Len(m.payload) /\ PayloadLen(b \o behind) = Len(m.payload)
      /\ \A i \in 1..Len(m.payload) : b[8 + i] = m.payload[i]
    BY <1>2, SubPacketSays, Zenon
<1>4. ~TakesSignal(b) /\ ~TakesRequest(b) /\ TakesSubPacket(b, behind)
    BY <1>3, FirstByte
<1>5. AsSent(m, b, behind)
    BY <1>1, <1>3, <1>4 DEF AsSent
<1>6. QED
    BY <1>1, <1>3, <1>5 DEF b

\* A datagram of n bytes has no size of a sub-packet whose length has the bytes x and y.
SizeOff(n, x, y) == n < 8 \/ n # 8 + x + 256 * y

\* The length p read in it has these bytes, if they are in it.
Says(n, p, x, y) == n >= 8 => p = x + 256 * y

LEMMA SizeTells ==
    \A n \in Nat, p \in Nat, x \in Nat, y \in Nat :
        SizeOff(n, x, y) /\ Says(n, p, x, y) => n # 8 + p
BY DEF SizeOff, Says

\* No handler takes a misfit.
LEMMA MisfitAsSent ==
    ASSUME NEW b \in Seq(Bytes), Len(b) >= 2, Misfit(b),
           NEW behind \in Seq(Bytes), Len(behind) >= 6
    PROVE  AsSent(NoMessage, b, behind)
<1> DEFINE whole == b \o behind
<1>1. /\ whole \in Seq(Bytes) /\ Len(whole) = Len(b) + Len(behind)
      /\ \A p \in Nat, n \in Nat : p + n <= Len(b) => Field(whole, p, n) = Field(b, p, n)
    BY Appended, Zenon
<1> HIDE DEF whole
<1>2. Len(b) \in Nat /\ Len(behind) \in Nat
    OBVIOUS
<1>3. 6 + 2 <= Len(whole) /\ 6 \in Nat /\ 2 \in Nat
    BY <1>1, <1>2
<1>4. Field(whole, 6, 2) \in Seq(Bytes)
    BY <1>1, <1>3, FieldBytes, Zenon
<1>5. PayloadLen(whole) \in Nat
    BY <1>4, LoadNat, Zenon DEF PayloadLen
<1>6. ASSUME Len(b) >= 8
      PROVE  PayloadLen(whole) = b[7] + 256 * b[8]
    <2>1. 6 + 2 <= Len(b)
        BY <1>6
    <2>2. /\ Field(b, 6, 2) \in Seq(Bytes) /\ Len(Field(b, 6, 2)) = 2
          /\ \A i \in 1..2 : Field(b, 6, 2)[i] = b[6 + i]
        BY <1>3, <2>1, FieldBytes, Zenon
    <2>3. Field(b, 6, 2)[1] = b[7] /\ Field(b, 6, 2)[2] = b[8]
        BY <2>2
    <2>4. Load(Field(b, 6, 2)) = b[7] + 256 * b[8]
        BY <2>2, <2>3, LoadNat, Zenon
    <2>5. Field(whole, 6, 2) = Field(b, 6, 2)
        BY <1>1, <1>3, <2>1, Zenon
    <2>6. QED
        BY <2>4, <2>5 DEF PayloadLen
<1>7. ~TakesSignal(b) /\ ~TakesRequest(b)
    <2>1. Len(b) < 256 => Len(b) % 256 = Len(b)
        BY <1>2
    <2>2. b[1] = 84 => Len(b) # 5 /\ Len(b) < 256
        BY Headers DEF Misfit, SignalSize, LP_HEADER_SIZE
    <2>3. b[1] = 242 => Len(b) # 6 + MaskBytes /\ Len(b) < 256
        BY Headers, MaskType DEF Misfit, RequestSize, LP_HEADER_SIZE
    <2>4. /\ TakesSignal(b) <=> b[1] = 84 /\ Len(b) % 256 = 5
          /\ TakesRequest(b) <=> b[1] = 242 /\ Len(b) % 256 = 6 + MaskBytes
        BY FirstByte, Zenon
    <2>5. QED
        BY <2>1, <2>2, <2>3, <2>4, Zenon
<1>8. ~TakesSubPacket(b, behind)
    <2>1. b[1] = 31 => Len(b) < 8 \/ Len(b) # 8 + b[7] + 256 * b[8]
        BY Headers DEF Misfit, SubPacketFront, LP_HEADER_SIZE
    <2>2. Says(Len(b), PayloadLen(whole), b[7], b[8])
        BY <1>6, Zenon DEF Says
    <2>3. b[1] = 31 => Len(b) # 8 + PayloadLen(whole)
        <3>1. CASE Len(b) < 8
            BY <1>2, <1>5, <3>1
        <3>2. CASE ~(Len(b) < 8)
            <4>1. b[7] \in Bytes /\ b[8] \in Bytes
                BY <1>2, <3>2, ElementOfSeq
            <4>2. b[7] \in Nat /\ b[8] \in Nat
                <5>1. \A x \in Bytes : x \in Nat
                    BY DEF Bytes
                <5>2. QED
                    BY <4>1, <5>1, Zenon
            <4>3. b[1] = 31 => SizeOff(Len(b), b[7], b[8])
                BY <2>1, Zenon DEF SizeOff
            <4>4. QED
                BY <1>2, <1>5, <2>2, <4>2, <4>3, SizeTells, Zenon
        <3>3. QED
            BY <3>1, <3>2, Zenon
    <2>4. TakesSubPacket(b, behind) <=> b[1] = 31 /\ Len(b) = 8 + PayloadLen(b \o behind)
        BY FirstByte, Zenon
    <2>5. TakesSubPacket(b, behind) <=> b[1] = 31 /\ Len(b) = 8 + PayloadLen(whole)
        BY <2>4, Zenon DEF whole
    <2>6. QED
        BY <2>3, <2>5, Zenon
<1>9. NoMessage.kind = "none"
    BY DEF NoMessage
<1>10. QED
    BY <1>7, <1>8, <1>9 DEF AsSent

-----------------------------------------------------------------------------
(***************************************************************************)
(* Datagrams in flight are messages as they were packed, or strays.        *)
(***************************************************************************)

CarriesWhatWasSent ==
    \A d \in air :
        \/ d.message \in Messages /\ d.bytes = Pack(d.message)
        \/ d.message = NoMessage /\ d.bytes \in Strays

LEMMA CarriesInit == Init => CarriesWhatWasSent
BY DEF Init, CarriesWhatWasSent

LEMMA CarriesNext == CarriesWhatWasSent /\ [Next]_vars => CarriesWhatWasSent'
<1> SUFFICES ASSUME CarriesWhatWasSent, [Next]_vars
             PROVE  CarriesWhatWasSent'
    OBVIOUS
<1>1. ASSUME air' \subseteq air
      PROVE  CarriesWhatWasSent'
    BY <1>1 DEF CarriesWhatWasSent
<1>2. ASSUME NEW node \in Nodes, NEW m \in Messages, Send(node, m)
      PROVE  CarriesWhatWasSent'
    BY <1>2 DEF CarriesWhatWasSent, Send
<1>3. ASSUME NEW node \in Nodes, NEW b \in Strays, Stray(node, b)
      PROVE  CarriesWhatWasSent'
    BY <1>3 DEF CarriesWhatWasSent, Stray
<1>4. CASE SetUp
    BY <1>1, <1>4 DEF SetUp
<1>5. ASSUME NEW d \in air, Unheard(d) \/ TooShort(d) \/ Receive(d)
      PROVE  CarriesWhatWasSent'
    BY <1>1, <1>5 DEF Unheard, TooShort, Receive
<1>6. CASE UNCHANGED vars
    BY <1>1, <1>6 DEF vars
<1>7. QED
    BY <1>2, <1>3, <1>4, <1>5, <1>6 DEF Next

\* A datagram that an open port receives.
MisfitStrays == \A b \in Strays : Len(b) >= LP_HEADER_SIZE => Misfit(b)

LEMMA MessageAsSent ==
    ASSUME NEW m \in Messages, NEW behind \in Seq(Bytes)
    PROVE  /\ m.kind \in {"signal", "request", "subpacket"}
           /\ Len(Pack(m)) >= 2
           /\ AsSent(m, Pack(m), behind)
<1>1. Sendable(m)
    BY DispatchAssumption
<1>2. m \in SignalMessages \/ m \in RequestMessages \/ m \in SubPacketMessages
    BY <1>1 DEF Sendable
<1>3. CASE m \in SignalMessages
    <2>1. m.kind = "signal"
        BY <1>3 DEF SignalMessages
    <2>2. QED
        BY <1>1, <1>3, <2>1, SignalAsSent, Zenon
<1>4. CASE m \in RequestMessages
    <2>1. m.kind = "request"
        BY <1>4 DEF RequestMessages
    <2>2. QED
        BY <1>1, <1>4, <2>1, RequestAsSent, Zenon
<1>5. CASE m \in SubPacketMessages
    <2>1. m.kind = "subpacket"
        BY <1>5 DEF SubPacketMessages
    <2>2. QED
        BY <1>1, <1>5, <2>1, SubPacketAsSent, Zenon
<1>6. QED
    BY <1>2, <1>3, <1>4, <1>5

LEMMA BehindType ==
    ASSUME NEW behind \in Behind
    PROVE  behind \in Seq(Bytes) /\ Len(behind) >= 6
<1>1. SubPacketFront - LP_HEADER_SIZE = 6
    BY DEF SubPacketFront, LP_HEADER_SIZE
<1>2. QED
    BY <1>1, DispatchAssumption

LEMMA AirAsSent ==
    ASSUME MisfitStrays, CarriesWhatWasSent,
           NEW d \in air, Len(d.bytes) >= 2, NEW behind \in Behind
    PROVE  /\ d.message.kind \in {"signal", "request", "subpacket", "none"}
           /\ AsSent(d.message, d.bytes, behind)
<1>1. behind \in Seq(Bytes) /\ Len(behind) >= 6
    BY BehindType
<1>2. CASE d.message \in Messages /\ d.bytes = Pack(d.message)
    BY <1>1, <1>2, MessageAsSent
<1>3. CASE d.message = NoMessage /\ d.bytes \in Strays
    <2>1. d.message.kind = "none"
        BY <1>3 DEF NoMessage
    <2>2. d.bytes \in Seq(Bytes)
        BY <1>3, DispatchAssumption
    <2>3. Misfit(d.bytes)
        BY <1>3 DEF MisfitStrays, LP_HEADER_SIZE
    <2>4. AsSent(NoMessage, d.bytes, behind)
        BY <1>1, <2>2, <2>3, MisfitAsSent, Zenon
    <2>5. QED
        BY <1>3, <2>1, <2>4
<1>4. QED
    BY <1>2, <1>3 DEF CarriesWhatWasSent

-----------------------------------------------------------------------------
(***************************************************************************)
(* Receiving one.                                                          *)
(***************************************************************************)

LEMMA PayloadOf ==
    ASSUME CarriesWhatWasSent, NEW d \in air, d.message.kind = "subpacket"
    PROVE  d.message.payload \in Seq(Bytes) /\ Len(d.message.payload) <= PayloadMax
<1>1. d.message \in Messages
    BY DEF CarriesWhatWasSent, NoMessage
<1>2. Sendable(d.message)
    BY <1>1, DispatchAssumption
<1>3. d.message \in SubPacketMessages /\ Len(d.message.payload) <= PayloadMax
    BY <1>2 DEF Sendable, SignalMessages, RequestMessages
<1>4. QED
    BY <1>3 DEF SubPacketMessages

LEMMA ReceiveReads ==
    ASSUME MisfitStrays, CarriesWhatWasSent, NEW d \in air, Receive(d)
    PROVE  ReadRight(d)
<1> DEFINE m == d.message
           b == d.bytes
<1>1. Len(b) >= 2
    BY DEF Receive, LP_HEADER_SIZE
<1>2. PICK behind \in Behind :
          /\ HandleSignal(d)
          /\ HandleRequest(d)
          /\ HandleSubPacket(d, behind)
          /\ posted' \in {Recognised(b, behind), <<>>}
    BY DEF Receive
<1>3. m.kind \in {"signal", "request", "subpacket", "none"} /\ AsSent(m, b, behind)
    BY <1>1, AirAsSent
<1> HIDE DEF m, b
<1>4. /\ TakesSignal(b) <=> m.kind = "signal"
      /\ TakesRequest(b) <=> m.kind = "request"
      /\ TakesSubPacket(b, behind) <=> m.kind = "subpacket"
    BY <1>3, Zenon DEF AsSent
<1>5. posted' \in {<<>>, <<m.kind>>} /\ (m.kind = "none" => posted' = <<>>)
    <2>1. m.kind = "signal" => Recognised(b, behind) = <<"signal">>
        BY <1>4 DEF Recognised, EventIf
    <2>2. m.kind = "request" => Recognised(b, behind) = <<"request">>
        BY <1>4 DEF Recognised, EventIf
    <2>3. m.kind = "subpacket" => Recognised(b, behind) = <<"subpacket">>
        BY <1>4 DEF Recognised, EventIf
    <2>4. m.kind = "none" => Recognised(b, behind) = <<>>
        BY <1>4 DEF Recognised, EventIf
    <2>5. QED
        BY <1>2, <1>3, <2>1, <2>2, <2>3, <2>4
<1>6. signaled' = IF m.kind = "signal"
                  THEN [id |-> m.id, num |-> m.num, src |-> d.src]
                  ELSE signaled
    <2>1. signaled' = IF TakesSignal(b) THEN SignaledData(b, d.src) ELSE signaled
        BY <1>2 DEF HandleSignal, b
    <2>2. m.kind = "signal" => SignaledData(b, d.src) = [id |-> m.id, num |-> m.num, src |-> d.src]
        BY <1>3 DEF AsSent, SignaledData
    <2>3. QED
        BY <1>4, <2>1, <2>2
<1>7. requested' = IF m.kind = "request"
                   THEN [id |-> m.id, mask |-> m.mask, period |-> m.period, src |-> d.src]
                   ELSE requested
    <2>1. requested' = IF TakesRequest(b) THEN RequestedData(b, d.src) ELSE requested
        BY <1>2 DEF HandleRequest, b
    <2>2. m.kind = "request" =>
              RequestedData(b, d.src)
                  = [id |-> m.id, mask |-> m.mask, period |-> m.period, src |-> d.src]
        BY <1>3 DEF AsSent, RequestedData
    <2>3. QED
        BY <1>4, <2>1, <2>2
<1>8. subPacket' = IF m.kind = "subpacket"
                   THEN [id |-> m.id, idx |-> m.idx, num |-> m.num, len |-> Len(m.payload),
                         src |-> d.src]
                   ELSE subPacket
    <2>1. subPacket' = IF TakesSubPacket(b, behind) THEN SubPacketData(b, d.src) ELSE subPacket
        BY <1>2 DEF HandleSubPacket, b
    <2>2. m.kind = "subpacket" =>
              SubPacketData(b, d.src)
                  = [id |-> m.id, idx |-> m.idx, num |-> m.num, len |-> Len(m.payload),
                     src |-> d.src]
        BY <1>3 DEF AsSent, SubPacketData
    <2>3. QED
        BY <1>4, <2>1, <2>2
<1>9. payload' = IF m.kind = "subpacket"
                 THEN [i \in 1..PayloadMax |-> IF i <= Len(m.payload) THEN m.payload[i]
                                               ELSE payload[i]]
                 ELSE payload
    <2>1. payload' = IF TakesSubPacket(b, behind) THEN Copied(b) ELSE payload
        BY <1>2 DEF HandleSubPacket, b
    <2>2. ASSUME m.kind = "subpacket"
          PROVE  Copied(b) = [i \in 1..PayloadMax |-> IF i <= Len(m.payload) THEN m.payload[i]
                                                      ELSE payload[i]]
        <3>1. /\ PayloadLen(b) = Len(m.payload)
              /\ \A i \in 1..Len(m.payload) : b[8 + i] = m.payload[i]
            BY <1>3, <2>2, Zenon DEF AsSent
        <3>2. SubPacketFront = 8
            BY DEF SubPacketFront, LP_HEADER_SIZE
        <3>3. m.payload \in Seq(Bytes)
            BY <1>3, <2>2, PayloadOf DEF m
        <3>4. \A i \in 1..PayloadMax : i <= Len(m.payload) => i \in 1..Len(m.payload)
            BY <3>3, PayloadMaxType DEF Fits
        <3>5. (1..PayloadMax) \cup (1..Len(m.payload)) = 1..PayloadMax
            <4>1. Len(m.payload) <= PayloadMax
                BY <1>3, <2>2, PayloadOf DEF m
            <4>2. QED
                BY <4>1, <3>3, PayloadMaxType DEF Fits
        <3>6. QED
            BY <3>1, <3>2, <3>4, <3>5 DEF Copied
    <2>3. QED
        BY <1>4, <2>1, <2>2
<1>10. QED
    BY <1>5, <1>6, <1>7, <1>8, <1>9, Zenon DEF ReadRight, m

\* One that is refused for its size was no message.
LEMMA TooShortReads ==
    ASSUME CarriesWhatWasSent, NEW d \in air, TooShort(d)
    PROVE  ReadRight(d)
<1>1. Len(d.bytes) < 2
    BY DEF TooShort, LP_HEADER_SIZE
<1>2. ASSUME d.message \in Messages, d.bytes = Pack(d.message)
      PROVE  FALSE
    <2>1. Sendable(d.message)
        BY <1>2, DispatchAssumption
    <2>2. d.bytes \in Seq(Bytes) /\ Len(d.bytes) >= 2
        BY <1>2, <2>1, EmptySeq, SignalAsSent, RequestAsSent, SubPacketAsSent DEF Sendable
    <2>3. Len(d.bytes) \in Nat
        BY <2>2
    <2>4. QED
        BY <1>1, <2>2, <2>3
<1>3. d.message.kind = "none"
    BY <1>2 DEF CarriesWhatWasSent, NoMessage
<1>4. posted' = <<>> /\ UNCHANGED <<signaled, requested, subPacket, payload>>
    BY DEF TooShort, eventData
<1>5. QED
    BY <1>3, <1>4 DEF ReadRight

\* Every step reads right.
ReadsStep == connection = "open" => \A d \in air \ air' : ReadRight(d)

LEMMA NextReads ==
    ASSUME MisfitStrays, CarriesWhatWasSent, [Next]_vars
    PROVE  ReadsStep
<1> SUFFICES ASSUME connection = "open", NEW d \in air, d \notin air'
             PROVE  ReadRight(d)
    BY DEF ReadsStep
<1>1. ~(air \subseteq air')
    OBVIOUS
<1>2. ~SetUp /\ ~UNCHANGED vars
    BY <1>1 DEF SetUp, vars
<1>3. \A node, m : ~Send(node, m) /\ ~Stray(node, m)
    BY <1>1 DEF Send, Stray
<1>4. PICK e \in air : Unheard(e) \/ TooShort(e) \/ Receive(e)
    BY <1>2, <1>3 DEF Next
<1>5. e = d
    BY <1>4 DEF Unheard, TooShort, Receive
<1>6. ~Unheard(d)
    BY DEF Unheard
<1>7. QED
    BY <1>4, <1>5, <1>6, TooShortReads, ReceiveReads

\* Whatever the other nodes send with lpsig_send, lpreq_send and lpsp_send, the three handlers,
\* each given every datagram, read it as what it was sent as; a datagram of another program,
\* when it is a misfit, leaves nothing.
THEOREM ReadsRight ==
    ASSUME MisfitStrays
    PROVE  Spec => ReadsWhatWasSent
<1>1. Init => CarriesWhatWasSent
    BY CarriesInit
<1>2. CarriesWhatWasSent /\ [Next]_vars => CarriesWhatWasSent'
    BY CarriesNext
<1>3. CarriesWhatWasSent /\ [Next]_vars => [ReadsStep]_vars
    BY NextReads
<1>4. ReadsWhatWasSent <=> [][ReadsStep]_vars
    BY DEF ReadsWhatWasSent, ReadsStep
<1>5. QED
    BY <1>1, <1>2, <1>3, <1>4, PTL DEF Spec

=============================================================================
