--------------------------- MODULE QueueFileProofs ---------------------------
(***************************************************************************)
(* Theorems about QueueFile, for any elements of any sizes, any lengths of *)
(* the file and its headers and any number of failures and crashes.        *)
(*                                                                         *)
(*  - The ring: which cells hold which element, and that peek: reads them  *)
(*    (RingHolds, HeaderHolds, MemoryHolds).                               *)
(*  - Safe: the queue holds q, and so does the file for the next process.  *)
(*  - Good: a list of calls is one of an operation that happens as a whole *)
(*    or not at all; it holds of the calls of add, pop and clear (AddGood, *)
(*    PopGood, ClearGood), which are followed call by call from their end. *)
(*  - IInv: what the variables say follows from Safe when no operation is  *)
(*    under way, and from Good when one is.                                *)
(***************************************************************************)
EXTENDS QueueFile, GrowthProofs, SequenceTheorems, TLAPS

-----------------------------------------------------------------------------
(* Positions of the ring *)

LEMMA Lengths ==
    /\ HeaderLength \in Nat /\ ElementHeaderLength \in Nat
    /\ 0 < ElementHeaderLength /\ ElementHeaderLength < HeaderLength
    /\ InitialLength \in Nat /\ HeaderLength < InitialLength
    /\ MaxLength \in Nat /\ InitialLength <= MaxLength
  BY ConstantsAssumption

\* The place x cells behind p.
Place(L, p, x) == WrapPosition(L, p + x)

LEMMA PlaceRange ==
    ASSUME NEW L \in Nat, NEW p \in HeaderLength..(L - 1), NEW x \in 0..(L - HeaderLength)
    PROVE  Place(L, p, x) \in HeaderLength..(L - 1)
  BY Lengths DEF WrapPosition, Place

LEMMA PlaceHere ==
    ASSUME NEW L \in Nat, NEW p \in HeaderLength..(L - 1)
    PROVE  WrapPosition(L, p) = p /\ Place(L, p, 0) = p
  BY Lengths DEF WrapPosition, Place

\* Wrapping on the way changes nothing.
LEMMA PlaceTwice ==
    ASSUME NEW L \in Nat, NEW p \in HeaderLength..(L - 1), NEW x \in Nat, NEW y \in Nat,
           x + y <= L - HeaderLength
    PROVE  Place(L, Place(L, p, x), y) = Place(L, p, x + y)
  BY Lengths DEF WrapPosition, Place

\* No two cells of the ring share a place.
LEMMA PlaceInjective ==
    ASSUME NEW L \in Nat, NEW p \in HeaderLength..(L - 1),
           NEW x \in 0..(L - HeaderLength - 1), NEW y \in 0..(L - HeaderLength - 1),
           Place(L, p, x) = Place(L, p, y)
    PROVE  x = y
  BY Lengths DEF WrapPosition, Place

-----------------------------------------------------------------------------
(* The recursive definitions *)

\* The cells that a list of elements takes are the sum that a loop makes.
LEMMA TakenIs ==
    ASSUME NEW n \in Nat, NEW lengths, NEW off \in [0..n -> Nat], off[0] = 0,
           \A i \in 1..n : off[i] = off[i - 1] + ElementHeaderLength + lengths[i]
    PROVE  Taken(lengths, n) = off[n]
<1>1. off = [i \in 0..n |->
              IF i = 0 THEN 0 ELSE off[i - 1] + ElementHeaderLength + lengths[i]]
  OBVIOUS
<1>2. PICK s : s = CHOOSE sum : sum = [i \in 0..n |->
              IF i = 0 THEN 0 ELSE sum[i - 1] + ElementHeaderLength + lengths[i]]
  OBVIOUS
<1>3. s = [i \in 0..n |->
              IF i = 0 THEN 0 ELSE s[i - 1] + ElementHeaderLength + lengths[i]]
  BY <1>1, <1>2
<1>4. PICK S : S = {i \in Nat : i <= n => s[i] = off[i]}
  OBVIOUS
<1>5. 0 \in S
  BY <1>3, <1>4
<1>6. ASSUME NEW i \in Nat, i \in S PROVE i + 1 \in S
  <2> SUFFICES ASSUME i + 1 <= n PROVE s[i + 1] = off[i + 1]
    BY <1>4
  <2>1. i + 1 \in 1..n /\ i + 1 \in 0..n /\ i + 1 # 0 /\ (i + 1) - 1 = i
    OBVIOUS
  <2>2. s[i] = off[i]
    BY <1>4, <1>6, <2>1
  <2>3. s[i + 1] = s[i] + ElementHeaderLength + lengths[i + 1]
    BY <1>3, <2>1
  <2> QED
    BY <2>1, <2>2, <2>3
<1>7. s[n] = off[n]
  <2>1. n \in S
    BY <1>5, <1>6, Induction
  <2> QED
    BY <1>4, <2>1
<1> QED
  BY <1>2, <1>7 DEF Taken

Spots == [at : Nat, length : Nat]

\* What is read is an element, whatever is in the file.
LEMMA ReadIsElement ==
    ASSUME NEW cells, NEW L, NEW p \in Nat
    PROVE  ReadElement(cells, L, p) \in Spots
<1>1. LengthAt(cells, L, p) \in Nat
  <2>1. PICK fits : fits = { n \in { SizeOf[e] : e \in Elements } :
             RingRead(cells, L, p, ElementHeaderLength) = LengthCells(n) }
    OBVIOUS
  <2>2. fits \subseteq Nat
    BY <2>1, ConstantsAssumption
  <2>3. PICK c : c = CHOOSE n \in fits : TRUE
    OBVIOUS
  <2>4. fits # {} => c \in fits
    BY <2>3
  <2>5. LengthAt(cells, L, p) = IF fits = {} THEN 0 ELSE c
    BY <2>1, <2>3 DEF LengthAt
  <2>6. CASE fits = {}
    BY <2>5, <2>6
  <2>7. CASE fits # {}
    <3>1. c \in Nat
      BY <2>2, <2>4, <2>7
    <3> QED
      BY <2>5, <2>7, <3>1
  <2> QED
    BY <2>6, <2>7
<1> QED
  BY <1>1 DEF ReadElement, Spots

LEMMA NextIsPosition ==
    ASSUME NEW L \in Nat, NEW e \in Spots
    PROVE  NextPosition(L, e) \in Nat
  BY Lengths DEF NextPosition, WrapPosition, Spots

\* The chain of lengths, step by step.
LEMMA BehindIs ==
    ASSUME NEW cells, NEW L \in Nat, NEW p \in Nat
    PROVE  /\ Behind(cells, L, p, 0) = p
           /\ \A k \in Nat :
                /\ Behind(cells, L, p, k) \in Nat
                /\ Behind(cells, L, p, k + 1) =
                     NextPosition(L, ReadElement(cells, L, Behind(cells, L, p, k)))
<1>1. PICK after : after = [q \in Nat |-> NextPosition(L, ReadElement(cells, L, q))]
  OBVIOUS
<1>2. after \in [Nat -> Nat]
  BY <1>1, ReadIsElement, NextIsPosition
<1>3. PICK g : g = [y \in Nat \X Nat |-> after[y[2]]]
  OBVIOUS
<1>4. g \in [(Nat \X Nat) -> Nat] /\ \A k, q \in Nat : g[<< k, q >>] = after[q]
  BY <1>2, <1>3
<1>5. PICK d \in [Nat -> Nat] :
        d[0] = p /\ \A k \in Nat \ {0} : d[k] = g[<< k, d[k - 1] >>]
  <2>1. PICK d : d \in Recursive(Nat, p, g)
    <3>1. p \in Nat /\ g \in [(Nat \X Nat) -> Nat]
      BY <1>4
    <3> QED
      BY <3>1, RecursiveFunction, Zenon
  <2> QED
    BY <2>1 DEF Recursive
<1>6. d = [k \in Nat |-> IF k = 0 THEN p ELSE after[d[k - 1]]]
  <2>1. ASSUME NEW k \in Nat \ {0} PROVE d[k] = after[d[k - 1]]
    <3>1. k - 1 \in Nat
      OBVIOUS
    <3> QED
      BY <1>4, <1>5, <3>1
  <2> QED
    BY <1>5, <2>1
<1>7. PICK position : position = CHOOSE f : f = [k \in Nat |-> IF k = 0 THEN p ELSE after[f[k - 1]]]
  OBVIOUS
<1>8. position = [k \in Nat |-> IF k = 0 THEN p ELSE after[position[k - 1]]]
  BY <1>6, <1>7
<1>9. \A k \in Nat : Behind(cells, L, p, k) = position[k]
  BY <1>1, <1>7 DEF Behind
<1>10. position[0] = p /\ \A k \in Nat : position[k + 1] = after[position[k]]
  <2>1. ASSUME NEW k \in Nat PROVE position[k + 1] = after[position[k]]
    <3>1. k + 1 \in Nat /\ k + 1 # 0 /\ (k + 1) - 1 = k
      OBVIOUS
    <3> QED
      BY <1>8, <3>1
  <2> QED
    BY <1>8, <2>1
<1>11. \A k \in Nat : position[k] \in Nat
  <2>1. PICK S : S = {k \in Nat : position[k] \in Nat}
    OBVIOUS
  <2>2. 0 \in S /\ \A k \in Nat : k \in S => k + 1 \in S
    BY <1>2, <1>10, <2>1
  <2> QED
    BY <2>1, <2>2, Induction
<1>12. ASSUME NEW k \in Nat
       PROVE  /\ Behind(cells, L, p, k) \in Nat
              /\ Behind(cells, L, p, k + 1) =
                   NextPosition(L, ReadElement(cells, L, Behind(cells, L, p, k)))
  <2>1. Behind(cells, L, p, k + 1) = position[k + 1] /\ k + 1 \in Nat
    BY <1>9
  <2> QED
    BY <1>1, <1>9, <1>10, <1>11, <2>1
<1> QED
  BY <1>9, <1>10, <1>12

-----------------------------------------------------------------------------
(* The elements in the ring *)

Datas == { DataOf(e) : e \in Elements }

LEMMA DataFacts ==
    ASSUME NEW d \in Datas
    PROVE  /\ d \in Seq(Cells)
           /\ Len(d) \in Nat /\ DOMAIN d = 1..Len(d)
           /\ Len(d) \in { SizeOf[e] : e \in Elements }
           /\ ElementHeaderLength + Len(d) >= HeaderLength
<1>1. PICK e \in Elements : d = DataOf(e)
  BY DEF Datas
<1>2. PICK n \in Nat : n = SizeOf[e] /\ n >= HeaderLength - ElementHeaderLength
  BY ConstantsAssumption
<1>3. d = [k \in 1..n |-> << e, k >>]
  BY <1>1, <1>2 DEF DataOf
<1>4. \A k \in 1..n : << e, k >> \in Cells
  BY DEF Cells
<1>5. d \in Seq(Cells) /\ Len(d) = n /\ DOMAIN d = 1..n
  BY <1>3, <1>4
<1> QED
  BY <1>2, <1>5, Lengths

\* The y-th cell of an element: its length comes first.
CellOf(d, y) ==
    IF y < ElementHeaderLength THEN << Len(d), y + 1 >> ELSE d[y - ElementHeaderLength + 1]

\* Where each of the elements ends, counted from the first cell of the first one.
Offsets(q) ==
    {off \in [0..Len(q) -> Nat] :
        /\ off[0] = 0
        /\ \A i \in 1..Len(q) : off[i] = off[i - 1] + ElementHeaderLength + Len(q[i])}

LEMMA OffsetsExist ==
    ASSUME NEW q \in Seq(Datas)
    PROVE  \E off : off \in Offsets(q)
<1>1. PICK n \in Nat : n = Len(q) /\ DOMAIN q = 1..n
  OBVIOUS
<1>2. \A i \in 1..n : Len(q[i]) \in Nat
  BY <1>1, DataFacts
<1>3. PICK g : g = [y \in (1..n) \X Nat |-> y[2] + ElementHeaderLength + Len(q[y[1]])]
  OBVIOUS
<1>4. /\ g \in [((1..n) \X Nat) -> Nat]
      /\ \A k \in 1..n, x \in Nat : g[<< k, x >>] = x + ElementHeaderLength + Len(q[k])
  <2>1. ASSUME NEW y \in (1..n) \X Nat
        PROVE  y[2] + ElementHeaderLength + Len(q[y[1]]) \in Nat
    <3>1. Len(q[y[1]]) \in Nat /\ y[2] \in Nat
      BY <1>2
    <3> QED
      BY <3>1, Lengths
  <2>2. g \in [((1..n) \X Nat) -> Nat]
    BY <1>3, <2>1
  <2>3. \A k \in 1..n, x \in Nat : g[<< k, x >>] = x + ElementHeaderLength + Len(q[k])
    BY <1>3
  <2> QED
    BY <2>2, <2>3
<1>5. PICK off : off \in UpTo(n, Nat, 0, g)
  <2>1. 0 \in Nat /\ n \in Nat /\ g \in [((1..n) \X Nat) -> Nat]
    BY <1>4
  <2> QED
    BY <2>1, RecursiveFunctionUpTo, Zenon
<1>6. off \in [0..n -> Nat] /\ off[0] = 0 /\ \A k \in 1..n : off[k] = g[<< k, off[k - 1] >>]
  BY <1>5 DEF UpTo
<1>7. ASSUME NEW k \in 1..n
      PROVE  off[k] = off[k - 1] + ElementHeaderLength + Len(q[k])
  <2>1. PICK x \in Nat : x = off[k - 1]
    <3>1. k - 1 \in 0..n
      OBVIOUS
    <3> QED
      BY <1>6, <3>1
  <2>2. g[<< k, x >>] = x + ElementHeaderLength + Len(q[k])
    BY <1>4
  <2> QED
    BY <1>6, <2>1, <2>2
<1>8. off \in Offsets(q)
  BY <1>1, <1>6, <1>7 DEF Offsets
<1> QED
  BY <1>8

\* What offsets are, for a sequence whose length has a name.
LEMMA OffsetsFacts ==
    ASSUME NEW q \in Seq(Datas), NEW off \in Offsets(q)
    PROVE  /\ Len(q) \in Nat /\ DOMAIN q = 1..Len(q)
           /\ off \in [0..Len(q) -> Nat] /\ off[0] = 0
           /\ \A i \in 1..Len(q) :
                /\ q[i] \in Datas
                /\ i - 1 \in 0..Len(q)
                /\ Len(q[i]) \in Nat
                /\ off[i] = off[i - 1] + ElementHeaderLength + Len(q[i])
           /\ \A i, j \in 0..Len(q) : i <= j => off[i] <= off[j]
<1>1. PICK n \in Nat : n = Len(q) /\ DOMAIN q = 1..n
  OBVIOUS
<1>2. off \in [0..n -> Nat] /\ off[0] = 0
  BY <1>1 DEF Offsets
<1>3. \A i \in 1..n : /\ q[i] \in Datas /\ i - 1 \in 0..n /\ Len(q[i]) \in Nat
                      /\ off[i] = off[i - 1] + ElementHeaderLength + Len(q[i])
  BY <1>1, DataFacts DEF Offsets
<1>4. ASSUME NEW i \in 0..n PROVE \A j \in 0..n : i <= j => off[i] <= off[j]
  <2>1. PICK S : S = {j \in Nat : i <= j /\ j <= n => off[i] <= off[j]}
    OBVIOUS
  <2>2. 0 \in S
    BY <1>2, <2>1
  <2>3. ASSUME NEW j \in Nat, j \in S PROVE j + 1 \in S
    <3> SUFFICES ASSUME i <= j + 1, j + 1 <= n PROVE off[i] <= off[j + 1]
      BY <2>1
    <3>1. CASE i = j + 1
      BY <1>2, <3>1
    <3>2. CASE i # j + 1
      <4>1. i <= j /\ j \in 0..n /\ j + 1 \in 1..n /\ (j + 1) - 1 = j
        BY <3>2
      <4>2. off[j + 1] = off[j] + ElementHeaderLength + Len(q[j + 1]) /\ Len(q[j + 1]) \in Nat
        BY <1>3, <4>1
      <4> QED
        BY <1>2, <2>1, <2>3, <4>1, <4>2, Lengths, SMTT(30)
    <3> QED
      BY <3>1, <3>2
  <2>4. Nat \subseteq S
    BY <2>2, <2>3, Induction
  <2> QED
    BY <2>1, <2>4
<1> QED
  BY <1>1, <1>2, <1>3, <1>4

\* The cells of a file of length L hold the elements of q from p on.
RingHolds(cells, L, p, q, off) ==
    /\ off \in Offsets(q)
    /\ p \in HeaderLength..(L - 1)
    /\ off[Len(q)] <= L - HeaderLength
    /\ \A i \in 1..Len(q) : \A y \in 0..(ElementHeaderLength + Len(q[i]) - 1) :
          /\ Place(L, p, off[i - 1] + y) \in DOMAIN cells
          /\ cells[Place(L, p, off[i - 1] + y)] = CellOf(q[i], y)

LEMMA LengthIsRead ==
    ASSUME NEW cells, NEW L, NEW p, NEW n \in { SizeOf[e] : e \in Elements },
           RingRead(cells, L, p, ElementHeaderLength) = LengthCells(n)
    PROVE  LengthAt(cells, L, p) = n
<1>1. PICK fits : fits = { m \in { SizeOf[e] : e \in Elements } :
           RingRead(cells, L, p, ElementHeaderLength) = LengthCells(m) }
  OBVIOUS
<1>2. \A m : LengthCells(m)[1] = << m, 1 >>
  BY Lengths DEF LengthCells
<1>3. fits = {n}
  BY <1>1, <1>2
<1>4. PICK c : c = CHOOSE m \in fits : TRUE
  OBVIOUS
<1>5. c = n
  BY <1>3, <1>4
<1>6. LengthAt(cells, L, p) = IF fits = {} THEN 0 ELSE c
  BY <1>1, <1>4 DEF LengthAt
<1> QED
  BY <1>3, <1>5, <1>6

\* At P there is the element d, and next is where it ends.
ReadsAs(cells, L, P, d, next) ==
    /\ P \in HeaderLength..(L - 1) /\ P \in Nat /\ P # 0
    /\ ReadElement(cells, L, P) = [at |-> P, length |-> Len(d)]
    /\ NextPosition(L, [at |-> P, length |-> Len(d)]) = next
    /\ RingRead(cells, L, P + ElementHeaderLength, Len(d)) = d

\* Read where it begins, an element is what it was when it was written.
LEMMA ReadHere ==
    ASSUME NEW cells, NEW L \in Nat, NEW p, NEW q \in Seq(Datas), NEW off,
           RingHolds(cells, L, p, q, off), NEW i \in 1..Len(q)
    PROVE  ReadsAs(cells, L, Place(L, p, off[i - 1]), q[i], Place(L, p, off[i]))
<1>0. PICK P : P = Place(L, p, off[i - 1])
  OBVIOUS
<1>1. PICK d \in Datas : d = q[i]
  BY OffsetsFacts DEF RingHolds
<1>2. PICK n \in Nat : n = Len(d) /\ DOMAIN d = 1..n /\ n \in { SizeOf[e] : e \in Elements }
  BY DataFacts
<1>3. PICK o \in Nat : o = off[i - 1] /\ off[i] = o + ElementHeaderLength + n
  BY <1>1, <1>2, OffsetsFacts DEF RingHolds
<1>4. o + ElementHeaderLength + n <= L - HeaderLength
  <2>1. off \in Offsets(q) /\ off[Len(q)] <= L - HeaderLength
    BY DEF RingHolds
  <2>2. Len(q) \in Nat /\ i \in 0..Len(q) /\ Len(q) \in 0..Len(q) /\ i <= Len(q)
    OBVIOUS
  <2>3. off[i] <= off[Len(q)] /\ off[i] \in Nat /\ off[Len(q)] \in Nat
    BY <2>1, <2>2, OffsetsFacts
  <2> QED
    BY <1>3, <2>1, <2>3, Lengths, SMTT(30)
<1>5. p \in HeaderLength..(L - 1) /\ p \in Nat /\ P = Place(L, p, o)
  BY <1>0, <1>3, Lengths DEF RingHolds
<1>6. P \in HeaderLength..(L - 1) /\ P \in Nat /\ P # 0
  <2>1. o \in 0..(L - HeaderLength)
    BY <1>4, Lengths
  <2>2. P \in HeaderLength..(L - 1)
    BY <1>5, <2>1, PlaceRange
  <2> QED
    BY <2>2, Lengths
<1>7. ASSUME NEW y \in Nat, y <= ElementHeaderLength + n
      PROVE  Place(L, P, y) = Place(L, p, o + y)
  <2>1. o + y <= L - HeaderLength
    BY <1>4, <1>7, Lengths
  <2> QED
    BY <1>5, <2>1, PlaceTwice
<1>8. \A y \in 0..(ElementHeaderLength + n - 1) : cells[Place(L, p, o + y)] = CellOf(d, y)
  BY <1>1, <1>2, <1>3 DEF RingHolds
<1>9. ReadElement(cells, L, P) = [at |-> P, length |-> n]
  <2>1. RingRead(cells, L, P, ElementHeaderLength) = LengthCells(n)
    <3>1. WrapPosition(L, P) = P
      BY <1>6, PlaceHere
    <3>2. ASSUME NEW k \in 1..ElementHeaderLength
          PROVE cells[WrapPosition(L, P + k - 1)] = << n, k >>
      <4>1. PICK y \in Nat : y = k - 1 /\ y \in 0..(ElementHeaderLength + n - 1)
                             /\ y < ElementHeaderLength /\ y <= ElementHeaderLength + n
        BY Lengths
      <4>2. WrapPosition(L, P + k - 1) = Place(L, P, y)
        <5>1. P + k - 1 = P + y
          BY <1>6, <4>1
        <5> QED
          BY <5>1 DEF Place
      <4>3. cells[Place(L, P, y)] = CellOf(d, y)
        BY <1>7, <1>8, <4>1
      <4>4. CellOf(d, y) = << n, y + 1 >>
        BY <1>2, <4>1 DEF CellOf
      <4>5. y + 1 = k
        BY <4>1
      <4> QED
        BY <4>2, <4>3, <4>4, <4>5
    <3> QED
      BY <3>1, <3>2 DEF RingRead, LengthCells
  <2>2. LengthAt(cells, L, P) = n
    BY <1>2, <2>1, LengthIsRead
  <2> QED
    BY <1>6, <2>2 DEF ReadElement
<1>10. NextPosition(L, [at |-> P, length |-> n]) = Place(L, p, off[i])
  <2>1. PICK y \in Nat : y = ElementHeaderLength + n
    BY Lengths
  <2>2. P + ElementHeaderLength + n = P + y
    BY <1>6, <2>1, Lengths
  <2>3. off[i] = o + y
    BY <1>3, <2>1, Lengths
  <2>4. NextPosition(L, [at |-> P, length |-> n]) = Place(L, P, y)
    BY <2>2 DEF NextPosition, Place
  <2> QED
    BY <1>7, <2>1, <2>3, <2>4
<1>11. RingRead(cells, L, P + ElementHeaderLength, n) = d
  <2>1. PICK Q : Q = WrapPosition(L, P + ElementHeaderLength)
    OBVIOUS
  <2>2. PICK x \in Nat : x = o + ElementHeaderLength
    BY Lengths
  <2>3. Q = Place(L, p, x)
    <3>1. Q = Place(L, P, ElementHeaderLength)
      BY <2>1 DEF Place
    <3> QED
      BY <1>7, <2>2, <3>1, Lengths
  <2>4. Q \in HeaderLength..(L - 1) /\ Q \in Nat
    <3>1. x \in 0..(L - HeaderLength)
      BY <1>4, <2>2, Lengths
    <3>2. Q \in HeaderLength..(L - 1)
      BY <1>5, <2>3, <3>1, PlaceRange
    <3> QED
      BY <3>2, Lengths
  <2>5. ASSUME NEW k \in 1..n PROVE cells[WrapPosition(L, Q + k - 1)] = d[k]
    <3>1. PICK z \in Nat : z = k - 1 /\ z < n
      OBVIOUS
    <3>2. Place(L, Q, z) = Place(L, p, x + z)
      <4>1. x + z <= L - HeaderLength
        BY <1>4, <2>2, <3>1, Lengths
      <4> QED
        BY <1>5, <2>3, <4>1, PlaceTwice
    <3>3. PICK y \in Nat : y = ElementHeaderLength + z /\ y \in 0..(ElementHeaderLength + n - 1)
      BY <3>1, Lengths
    <3>4. x + z = o + y
      BY <2>2, <3>3, Lengths
    <3>5. CellOf(d, y) = d[k]
      <4>1. ~(y < ElementHeaderLength) /\ y - ElementHeaderLength + 1 = k
        BY <3>1, <3>3, Lengths
      <4> QED
        BY <4>1 DEF CellOf
    <3>6. WrapPosition(L, Q + k - 1) = Place(L, Q, z)
      <4>1. Q + k - 1 = Q + z
        BY <2>4, <3>1
      <4> QED
        BY <4>1 DEF Place
    <3> QED
      BY <1>8, <3>2, <3>3, <3>4, <3>5, <3>6
  <2>6. d = [k \in 1..n |-> d[k]]
    <3>1. d \in Seq(Cells)
      BY DataFacts
    <3> QED
      BY <1>2, <3>1
  <2> QED
    BY <2>1, <2>5, <2>6 DEF RingRead
<1> QED
  BY <1>0, <1>1, <1>2, <1>6, <1>9, <1>10, <1>11 DEF ReadsAs

\* Following the lengths from the i-th element leads to the one so many places behind it.
LeadsOn(cells, L, p, q, off, i) ==
    \A j \in 0..(Len(q) - i) : Behind(cells, L, Place(L, p, off[i]), j) = Place(L, p, off[i + j])

LEMMA BehindHere ==
    ASSUME NEW cells, NEW L \in Nat, NEW p, NEW q \in Seq(Datas), NEW off,
           RingHolds(cells, L, p, q, off), NEW i \in 0..Len(q)
    PROVE  LeadsOn(cells, L, p, q, off, i)
<1>1. PICK n \in Nat : n = Len(q)
  OBVIOUS
<1>2. PICK b : b = Place(L, p, off[i])
  OBVIOUS
<1>3. off \in Offsets(q) /\ p \in HeaderLength..(L - 1) /\ off[n] <= L - HeaderLength
  BY <1>1 DEF RingHolds
<1>4. \A k \in 0..n : off[k] \in Nat /\ off[k] <= off[n]
  BY <1>1, <1>3, OffsetsFacts, SMTT(30)
<1>5. b \in Nat
  <2>1. off[i] \in 0..(L - HeaderLength)
    BY <1>1, <1>3, <1>4, Lengths
  <2>2. b \in HeaderLength..(L - 1)
    BY <1>2, <1>3, <2>1, PlaceRange
  <2> QED
    BY <2>2, Lengths
<1>6. PICK S : S = {j \in Nat : j <= n - i => Behind(cells, L, b, j) = Place(L, p, off[i + j])}
  OBVIOUS
<1>7. 0 \in S
  <2>1. i + 0 = i
    BY <1>1
  <2> QED
    BY <1>2, <1>5, <1>6, <2>1, BehindIs
<1>8. ASSUME NEW j \in Nat, j \in S PROVE j + 1 \in S
  <2> SUFFICES ASSUME j + 1 <= n - i
               PROVE  Behind(cells, L, b, j + 1) = Place(L, p, off[i + (j + 1)])
    BY <1>6
  <2>1. PICK k \in 1..n : k = i + (j + 1) /\ k - 1 = i + j /\ k - 1 \in 0..n
    BY <1>1
  <2>2. PICK P : P = Place(L, p, off[k - 1])
    OBVIOUS
  <2>3. Behind(cells, L, b, j) = P
    <3>1. j <= n - i
      BY <1>1
    <3> QED
      BY <1>6, <1>8, <2>1, <2>2, <3>1
  <2>4. Behind(cells, L, b, j + 1) = NextPosition(L, ReadElement(cells, L, P))
    BY <1>5, <2>3, BehindIs
  <2>5. NextPosition(L, ReadElement(cells, L, P)) = Place(L, p, off[k])
    <3>1. k \in 1..Len(q)
      BY <1>1
    <3>2. ReadsAs(cells, L, Place(L, p, off[k - 1]), q[k], Place(L, p, off[k]))
      BY <3>1, ReadHere, Zenon
    <3> QED
      BY <2>2, <3>2 DEF ReadsAs
  <2> QED
    BY <2>1, <2>4, <2>5
<1>9. Nat \subseteq S
  BY <1>7, <1>8, Induction
<1> QED
  BY <1>1, <1>2, <1>6, <1>9 DEF LeadsOn

\* What is read of a ring that holds the elements is the elements.
LEMMA PeekHere ==
    ASSUME NEW cells, NEW L \in Nat, NEW p, NEW q \in Seq(Datas), NEW off,
           RingHolds(cells, L, p, q, off)
    PROVE  Peek(cells, L, p, Len(q)) = q
<1>1. PICK n \in Nat : n = Len(q) /\ DOMAIN q = 1..n
  OBVIOUS
<1>2. PICK data : data = [b \in Nat |-> RingRead(cells, L, b + ElementHeaderLength,
                                                 ReadElement(cells, L, b).length)]
  OBVIOUS
<1>3. Peek(cells, L, p, n) = [i \in 1..n |-> data[Behind(cells, L, p, i - 1)]]
  BY <1>2 DEF Peek
<1>4. off \in Offsets(q) /\ p \in HeaderLength..(L - 1)
  BY DEF RingHolds
<1>5. Place(L, p, off[0]) = p
  BY <1>4, PlaceHere, OffsetsFacts
<1>6. ASSUME NEW i \in 1..n PROVE data[Behind(cells, L, p, i - 1)] = q[i]
  <2>1. i - 1 \in 0..(n - 0) /\ 0 \in 0..n /\ 0 + (i - 1) = i - 1
    BY <1>1
  <2>2. PICK j, P : j = i - 1 /\ P = Place(L, p, off[j])
    OBVIOUS
  <2>3. Behind(cells, L, p, j) = P
    <3>1. PICK z \in 0..Len(q) : z = 0 /\ j \in 0..(Len(q) - z)
      BY <1>1, <2>1, <2>2
    <3>2. LeadsOn(cells, L, p, q, off, z)
      BY BehindHere, Zenon
    <3> QED
      BY <1>5, <2>1, <2>2, <3>1, <3>2 DEF LeadsOn
  <2>4. /\ P \in Nat
        /\ ReadElement(cells, L, P).length = Len(q[i])
        /\ RingRead(cells, L, P + ElementHeaderLength, Len(q[i])) = q[i]
    <3>1. ReadsAs(cells, L, Place(L, p, off[i - 1]), q[i], Place(L, p, off[i]))
      BY <1>1, ReadHere, Zenon
    <3> QED
      BY <2>2, <3>1 DEF ReadsAs
  <2> QED
    BY <1>2, <2>2, <2>3, <2>4
<1>7. q = [i \in 1..n |-> q[i]]
  BY <1>1
<1> QED
  BY <1>1, <1>3, <1>6, <1>7

-----------------------------------------------------------------------------
(* What the header says, and what the memory *)

Headers ==
    {h \in [length : InitialLength..MaxLength, count : Nat, first : Nat, last : Nat] :
        h.first < h.length /\ h.last < h.length}

Memories ==
    [length : InitialLength..MaxLength, count : Nat, first : Spots, last : Spots]

HeaderOf(m) ==
    [length |-> m.length, count |-> m.count, first |-> m.first.at, last |-> m.last.at]

\* By this header, the file holds the elements of q.
HeaderHolds(h, cells, q) ==
    /\ h.count = Len(q)
    /\ q = << >> => h.first = 0 /\ h.last = 0
    /\ q # << >> => \E off : /\ RingHolds(cells, h.length, h.first, q, off)
                             /\ h.last = Place(h.length, h.first, off[Len(q) - 1])

\* So it does by the fields of the queue, which know two lengths besides.
MemoryHolds(m, cells, q) ==
    /\ HeaderHolds(HeaderOf(m), cells, q)
    /\ q = << >> => m.first.length = 0 /\ m.last.length = 0
    /\ q # << >> => m.first.length = Len(q[1]) /\ m.last.length = Len(q[Len(q)])

LEMMA NoElements ==
    ASSUME NEW cells, NEW L, NEW p
    PROVE  Peek(cells, L, p, 0) = << >>
<1>1. PICK data : data = [b \in Nat |-> RingRead(cells, L, b + ElementHeaderLength,
                                                 ReadElement(cells, L, b).length)]
  OBVIOUS
<1>2. Peek(cells, L, p, 0) = [i \in 1..0 |-> data[Behind(cells, L, p, i - 1)]]
  BY <1>1 DEF Peek
<1> QED
  BY <1>2

LEMMA HeaderIsRead ==
    ASSUME NEW h, h.length \in Nat, NEW cells, NEW q \in Seq(Datas), HeaderHolds(h, cells, q)
    PROVE  Peek(cells, h.length, h.first, h.count) = q
<1>1. CASE q = << >>
  BY <1>1, NoElements DEF HeaderHolds
<1>2. CASE q # << >>
  BY <1>2, PeekHere DEF HeaderHolds
<1> QED
  BY <1>1, <1>2

LEMMA MemoryIsRead ==
    ASSUME NEW m \in Memories, NEW cells, NEW q \in Seq(Datas), MemoryHolds(m, cells, q)
    PROVE  Peek(cells, m.length, m.first.at, m.count) = q
<1>1. m.length \in Nat
  BY Lengths DEF Memories
<1>2. PICK h : h = HeaderOf(m)
  OBVIOUS
<1>3. h.length = m.length /\ h.first = m.first.at /\ h.count = m.count
  BY <1>2 DEF HeaderOf
<1>4. HeaderHolds(h, cells, q)
  BY <1>2 DEF MemoryHolds
<1> QED
  BY <1>1, <1>3, <1>4, HeaderIsRead

\* What a queue that is not empty knows of its elements.
MemoryAt(m, cells, q, off) ==
    /\ m.count = Len(q)
    /\ RingHolds(cells, m.length, m.first.at, q, off)
    /\ m.first.length = Len(q[1])
    /\ m.last.at = Place(m.length, m.first.at, off[Len(q) - 1])
    /\ m.last.length = Len(q[Len(q)])

LEMMA MemoryIsAt ==
    ASSUME NEW m, NEW cells, NEW q, q # << >>
    PROVE  MemoryHolds(m, cells, q) <=> \E off : MemoryAt(m, cells, q, off)
<1>1. PICK h : h = HeaderOf(m)
  OBVIOUS
<1>2. /\ h.length = m.length /\ h.count = m.count
      /\ h.first = m.first.at /\ h.last = m.last.at
  BY <1>1 DEF HeaderOf
<1>3. MemoryHolds(m, cells, q) <=> /\ HeaderHolds(h, cells, q)
                                   /\ m.first.length = Len(q[1])
                                   /\ m.last.length = Len(q[Len(q)])
  BY <1>1 DEF MemoryHolds
<1>4. HeaderHolds(h, cells, q) <=>
        /\ m.count = Len(q)
        /\ \E off : /\ RingHolds(cells, m.length, m.first.at, q, off)
                    /\ m.last.at = Place(m.length, m.first.at, off[Len(q) - 1])
  BY <1>2 DEF HeaderHolds
<1>5. ASSUME MemoryHolds(m, cells, q) PROVE \E off : MemoryAt(m, cells, q, off)
  <2>1. PICK off : /\ RingHolds(cells, m.length, m.first.at, q, off)
                   /\ m.last.at = Place(m.length, m.first.at, off[Len(q) - 1])
    BY <1>3, <1>4, <1>5
  <2>2. MemoryAt(m, cells, q, off)
    BY <1>3, <1>4, <1>5, <2>1 DEF MemoryAt
  <2> QED
    BY <2>2
<1>6. ASSUME NEW off, MemoryAt(m, cells, q, off) PROVE MemoryHolds(m, cells, q)
  <2>1. /\ RingHolds(cells, m.length, m.first.at, q, off)
        /\ m.last.at = Place(m.length, m.first.at, off[Len(q) - 1])
        /\ m.count = Len(q) /\ m.first.length = Len(q[1]) /\ m.last.length = Len(q[Len(q)])
    BY <1>6 DEF MemoryAt
  <2> QED
    BY <1>3, <1>4, <2>1
<1> QED
  BY <1>5, <1>6

LEMMA RingEnds ==
    ASSUME NEW cells, NEW L \in Nat, NEW p, NEW q \in Seq(Datas), q # << >>, NEW off,
           RingHolds(cells, L, p, q, off), NEW n, n = Len(q)
    PROVE  /\ n \in Nat \ {0} /\ 1 \in 1..n /\ n \in 1..n /\ n - 1 \in 0..n
           /\ ReadsAs(cells, L, p, q[1], Place(L, p, off[1]))
           /\ ReadsAs(cells, L, Place(L, p, off[n - 1]), q[n], Place(L, p, off[n]))
<1>1. n \in Nat \ {0} /\ 1 \in 1..n /\ n \in 1..n /\ n - 1 \in 0..n
  OBVIOUS
<1>2. off \in Offsets(q) /\ p \in HeaderLength..(L - 1)
  BY DEF RingHolds
<1>3. Place(L, p, off[1 - 1]) = p
  BY <1>2, PlaceHere, OffsetsFacts
<1>4. \A i \in 1..Len(q) : ReadsAs(cells, L, Place(L, p, off[i - 1]), q[i], Place(L, p, off[i]))
  BY ReadHere, Zenon
<1>5. ReadsAs(cells, L, Place(L, p, off[1 - 1]), q[1], Place(L, p, off[1]))
  BY <1>1, <1>4
<1>6. ReadsAs(cells, L, Place(L, p, off[n - 1]), q[n], Place(L, p, off[n]))
  BY <1>1, <1>4
<1> QED
  BY <1>1, <1>3, <1>5, <1>6

\* The fields that the open reads are those of the queue that the header describes.
LEMMA OpenedHolds ==
    ASSUME NEW f, f.header \in Headers, NEW q \in Seq(Datas),
           HeaderHolds(f.header, f.cells, q)
    PROVE  /\ Opened(f) \in Memories
           /\ HeaderOf(Opened(f)) = f.header
           /\ MemoryHolds(Opened(f), f.cells, q)
<1>1. PICK h : h = f.header
  OBVIOUS
<1>2. PICK first, last : /\ first = ReadElement(f.cells, h.length, h.first)
                         /\ last = ReadElement(f.cells, h.length, h.last)
  OBVIOUS
<1>3. PICK m : m = [length |-> h.length, count |-> h.count, first |-> first, last |-> last]
  OBVIOUS
<1>4. Opened(f) = m
  BY <1>1, <1>2, <1>3 DEF Opened
<1>5. h \in [length : InitialLength..MaxLength, count : Nat, first : Nat, last : Nat]
  BY <1>1 DEF Headers
<1>6. first \in Spots /\ last \in Spots
  BY <1>2, <1>5, ReadIsElement
<1>7. m \in Memories
  BY <1>3, <1>5, <1>6 DEF Memories
<1>8. first.at = h.first /\ last.at = h.last
  BY <1>2 DEF ReadElement
<1>9. HeaderOf(m) = h
  BY <1>3, <1>5, <1>8 DEF HeaderOf
<1>10. MemoryHolds(m, f.cells, q)
  <2>1. CASE q = << >>
    <3>1. h.first = 0 /\ h.last = 0
      BY <1>1, <2>1 DEF HeaderHolds
    <3>2. first.length = 0 /\ last.length = 0
      BY <1>2, <3>1 DEF ReadElement
    <3> QED
      BY <1>1, <1>3, <1>9, <2>1, <3>2 DEF MemoryHolds
  <2>2. CASE q # << >>
    <3>1. PICK off : /\ RingHolds(f.cells, h.length, h.first, q, off)
                     /\ h.last = Place(h.length, h.first, off[Len(q) - 1])
      BY <1>1, <2>2 DEF HeaderHolds
    <3>2. h.length \in Nat
      BY <1>5, Lengths
    <3>3. PICK n : n = Len(q)
      OBVIOUS
    <3>4. /\ ReadsAs(f.cells, h.length, h.first, q[1], Place(h.length, h.first, off[1]))
          /\ ReadsAs(f.cells, h.length, h.last, q[n], Place(h.length, h.first, off[n]))
      BY <2>2, <3>1, <3>2, <3>3, RingEnds
    <3>5. first.length = Len(q[1]) /\ last.length = Len(q[n])
      BY <1>2, <3>4 DEF ReadsAs
    <3> QED
      BY <1>1, <1>3, <1>9, <2>2, <3>3, <3>5 DEF MemoryHolds
  <2> QED
    BY <2>1, <2>2
<1> QED
  BY <1>1, <1>4, <1>7, <1>9, <1>10

\* And there is only one such memory.
LEMMA MemoryIsOpened ==
    ASSUME NEW f, f.header \in Headers, NEW q \in Seq(Datas), NEW m \in Memories,
           f.header = HeaderOf(m), MemoryHolds(m, f.cells, q)
    PROVE  m = Opened(f)
<1>1. PICK k : k = Opened(f)
  OBVIOUS
<1>2. HeaderHolds(f.header, f.cells, q)
  BY DEF MemoryHolds
<1>3. k \in Memories /\ HeaderOf(k) = HeaderOf(m) /\ MemoryHolds(k, f.cells, q)
  BY <1>1, <1>2, OpenedHolds
<1>4. k.length = m.length /\ k.count = m.count /\ k.first.at = m.first.at /\ k.last.at = m.last.at
  BY <1>3 DEF HeaderOf
<1>5. k.first.length = m.first.length /\ k.last.length = m.last.length
  BY <1>3 DEF MemoryHolds
<1>6. k.first \in Spots /\ m.first \in Spots /\ k.last \in Spots /\ m.last \in Spots
  BY <1>3 DEF Memories
<1>7. k.first = m.first /\ k.last = m.last
  BY <1>4, <1>5, <1>6, SMTT(30) DEF Spots
<1> QED
  BY <1>1, <1>3, <1>4, <1>7 DEF Memories

\* What an element of k cells at P, that begins o cells and ends e cells behind p, shows.
SpaceOf(L, p, o, k, e, P, Q) ==
    /\ P \in Nat
    /\ P >= p => P - p + ElementHeaderLength + k + HeaderLength = HeaderLength + e
    /\ ~(P >= p) => P + ElementHeaderLength + k + L - p = HeaderLength + e
    /\ Q <= p <=> p + e >= L
    /\ P < p <=> p + o >= L

LEMMA SpaceArithmetic ==
    ASSUME NEW L \in Nat, NEW p \in HeaderLength..(L - 1), NEW o \in Nat, NEW k \in Nat,
           NEW e \in Nat, e = o + ElementHeaderLength + k, e <= L - HeaderLength,
           NEW P, P = Place(L, p, o), NEW Q, Q = Place(L, p, e)
    PROVE  SpaceOf(L, p, o, k, e, P, Q)
<1> SUFFICES /\ P \in Nat
             /\ P >= p => P - p + ElementHeaderLength + k + HeaderLength = HeaderLength + e
             /\ ~(P >= p) => P + ElementHeaderLength + k + L - p = HeaderLength + e
             /\ Q <= p <=> p + e >= L
             /\ P < p <=> p + o >= L
  BY DEF SpaceOf
<1>1. p \in Nat
  BY Lengths
<1>2. CASE p + o < L
  <2>1. P = p + o
    BY <1>2 DEF Place, WrapPosition
  <2>2. CASE p + e < L
    <3>1. Q = p + e
      BY <2>2 DEF Place, WrapPosition
    <3> QED
      BY <1>1, <1>2, <2>1, <2>2, <3>1, Lengths
  <2>3. CASE ~(p + e < L)
    <3>1. Q = HeaderLength + (p + e) - L
      BY <2>3 DEF Place, WrapPosition
    <3> QED
      BY <1>1, <1>2, <2>1, <2>3, <3>1, Lengths
  <2> QED
    BY <2>2, <2>3
<1>3. CASE ~(p + o < L)
  <2>1. P = HeaderLength + (p + o) - L
    BY <1>3 DEF Place, WrapPosition
  <2>2. Q = HeaderLength + (p + e) - L
    <3>1. ~(p + e < L)
      BY <1>1, <1>3, Lengths
    <3> QED
      BY <3>1 DEF Place, WrapPosition
  <2> QED
    BY <1>1, <1>3, <2>1, <2>2, Lengths
<1> QED
  BY <1>2, <1>3

\* The space of the ring, told from the fields.
SpaceIn(L, p, n, m, off) ==
    /\ L \in Nat /\ p \in Nat /\ off[n] \in Nat /\ off[n - 1] \in Nat
    /\ off[n] <= L - HeaderLength /\ off[n - 1] <= off[n]
    /\ UsedBytes(m) = HeaderLength + off[n]
    /\ EndOfLast(m) = Place(L, p, off[n])
    /\ Fragmented(m) <=> p + off[n] >= L
    /\ m.last.at < m.first.at <=> p + off[n - 1] >= L
    /\ m.last.at = Place(L, p, off[n - 1])

LEMMA SpaceFacts ==
    ASSUME NEW m \in Memories, NEW cells, NEW q \in Seq(Datas), q # << >>, NEW off,
           MemoryAt(m, cells, q, off), NEW L, L = m.length, NEW p, p = m.first.at,
           NEW n, n = Len(q)
    PROVE  SpaceIn(L, p, n, m, off)
<1>1. L \in Nat /\ m.first \in Spots /\ m.last \in Spots
  BY Lengths DEF Memories
<1>2. RingHolds(cells, L, p, q, off) /\ off \in Offsets(q) /\ p \in HeaderLength..(L - 1)
  BY DEF MemoryAt, RingHolds
<1>3. n \in Nat \ {0} /\ n \in 1..n /\ n - 1 \in 0..n
  BY <1>1, <1>2, RingEnds
<1>4. PICK o \in Nat, k \in Nat, e \in Nat :
        /\ o = off[n - 1] /\ k = Len(q[n]) /\ e = off[n]
        /\ e = o + ElementHeaderLength + k /\ e <= L - HeaderLength
  <2>1. off[n] <= L - HeaderLength
    BY DEF MemoryAt, RingHolds
  <2>2. /\ off \in [0..n -> Nat]
        /\ \A i \in 1..n : /\ Len(q[i]) \in Nat
                           /\ off[i] = off[i - 1] + ElementHeaderLength + Len(q[i])
    BY <1>2, OffsetsFacts
  <2>3. PICK i \in 1..n : i = n /\ i \in 0..n /\ i - 1 \in 0..n
    BY <1>3
  <2>4. /\ off[i] \in Nat /\ off[i - 1] \in Nat /\ Len(q[i]) \in Nat
        /\ off[i] = off[i - 1] + ElementHeaderLength + Len(q[i])
    BY <2>2, <2>3
  <2> QED
    BY <2>1, <2>3, <2>4
<1>5. PICK P, Q : P = Place(L, p, o) /\ P = m.last.at /\ Q = Place(L, p, e)
  BY <1>4 DEF MemoryAt
<1>6. /\ P \in Nat
      /\ P >= p => P - p + ElementHeaderLength + k + HeaderLength = HeaderLength + e
      /\ ~(P >= p) => P + ElementHeaderLength + k + L - p = HeaderLength + e
      /\ Q <= p <=> p + e >= L
      /\ P < p <=> p + o >= L
  <2>1. PICK L1 \in Nat, p1 \in HeaderLength..(L - 1) : L1 = L /\ p1 = p
    BY <1>1, <1>2
  <2>2. e <= L1 - HeaderLength /\ P = Place(L1, p1, o) /\ Q = Place(L1, p1, e)
    BY <1>4, <1>5, <2>1
  <2>3. SpaceOf(L1, p1, o, k, e, P, Q)
    BY <1>4, <2>1, <2>2, SpaceArithmetic, Zenon
  <2> QED
    BY <2>1, <2>3 DEF SpaceOf
<1>7. m.last.length = k /\ m.count = n /\ m.count > 0 /\ m.count # 0
  BY <1>3, <1>4 DEF MemoryAt
<1>8. p \in Nat
  BY <1>2, Lengths
<1>9. UsedBytes(m) = HeaderLength + e
  <2>1. CASE P >= p
    <3>1. UsedBytes(m) = P - p + ElementHeaderLength + k + HeaderLength
      BY <1>5, <1>7, <2>1 DEF UsedBytes
    <3> QED
      BY <1>6, <2>1, <3>1
  <2>2. CASE ~(P >= p)
    <3>1. UsedBytes(m) = P + ElementHeaderLength + k + L - p
      BY <1>5, <1>7, <2>2 DEF UsedBytes
    <3> QED
      BY <1>6, <2>2, <3>1
  <2> QED
    BY <2>1, <2>2
<1>10. EndOfLast(m) = Q
  <2>1. ReadsAs(cells, L, Place(L, p, off[n - 1]), q[n], Place(L, p, off[n]))
    BY <1>1, <1>2, RingEnds
  <2>2. NextPosition(L, [at |-> P, length |-> k]) = Q
    BY <1>4, <1>5, <2>1 DEF ReadsAs
  <2>3. m.last = [at |-> P, length |-> k]
    BY <1>1, <1>5, <1>7 DEF Spots
  <2> QED
    BY <2>2, <2>3 DEF EndOfLast
<1>11. Fragmented(m) <=> p + e >= L
  BY <1>6, <1>10 DEF Fragmented
<1>12. m.last.at < m.first.at <=> p + o >= L
  BY <1>5, <1>6
<1>13. o <= e
  BY <1>4, Lengths
<1> QED
  BY <1>1, <1>4, <1>5, <1>8, <1>9, <1>10, <1>11, <1>12, <1>13 DEF SpaceIn

LEMMA Space ==
    ASSUME NEW m \in Memories, NEW cells, NEW q \in Seq(Datas), q # << >>, NEW off,
           MemoryAt(m, cells, q, off), NEW L, L = m.length, NEW p, p = m.first.at,
           NEW n, n = Len(q)
    PROVE  /\ L \in Nat /\ p \in Nat /\ off[n] \in Nat /\ off[n - 1] \in Nat
           /\ off[n] <= L - HeaderLength /\ off[n - 1] <= off[n]
           /\ UsedBytes(m) = HeaderLength + off[n]
           /\ EndOfLast(m) = Place(L, p, off[n])
           /\ Fragmented(m) <=> p + off[n] >= L
           /\ m.last.at < m.first.at <=> p + off[n - 1] >= L
           /\ m.last.at = Place(L, p, off[n - 1])
<1>1. SpaceIn(L, p, n, m, off)
  BY SpaceFacts
<1> QED
  BY <1>1 DEF SpaceIn

-----------------------------------------------------------------------------
(* Lists of calls *)

IsList(s) == \E T : s \in Seq(T)

\* No call of the list is the erasure of the start of the ring.
Plain(s) == \A i \in DOMAIN s : s[i].call # "erase"

LEMMA TwoLists ==
    ASSUME NEW r, NEW s, IsList(r), IsList(s)
    PROVE  \E T : r \in Seq(T) /\ s \in Seq(T)
<1>1. PICK R, S : r \in Seq(R) /\ s \in Seq(S)
  BY DEF IsList
<1>2. r \in Seq(R \cup S) /\ s \in Seq(R \cup S)
  BY <1>1
<1> QED
  BY <1>2

LEMMA Cons ==
    ASSUME NEW c, NEW s, IsList(s)
    PROVE  /\ IsList(<< c >> \o s)
           /\ << c >> \o s # << >>
           /\ Head(<< c >> \o s) = c
           /\ Tail(<< c >> \o s) = s
           /\ 1 \in DOMAIN (<< c >> \o s) /\ (<< c >> \o s)[1] = c
           /\ \A i \in DOMAIN s :
                 i + 1 \in DOMAIN (<< c >> \o s) /\ (<< c >> \o s)[i + 1] = s[i]
           /\ \A i \in DOMAIN (<< c >> \o s) :
                 (<< c >> \o s)[i] = c \/ \E j \in DOMAIN s : (<< c >> \o s)[i] = s[j]
<1>1. IsList(<< c >>)
  <2>1. << c >> \in Seq({c})
    OBVIOUS
  <2> QED
    BY <2>1 DEF IsList
<1>2. PICK T : << c >> \in Seq(T) /\ s \in Seq(T)
  BY <1>1, TwoLists
<1>3. PICK n \in Nat : n = Len(s) /\ DOMAIN s = 1..n
  BY <1>2
<1>4. PICK l : l = << c >> \o s
  OBVIOUS
<1>5. /\ l \in Seq(T) /\ Len(l) = 1 + n /\ DOMAIN l = 1..(1 + n)
      /\ \A i \in 1..(1 + n) : l[i] = IF i <= 1 THEN << c >>[i] ELSE s[i - 1]
  <2>1. Len(<< c >>) = 1
    OBVIOUS
  <2> QED
    BY <1>2, <1>3, <1>4, <2>1, ConcatProperties
<1>6. l[1] = c /\ 1 \in DOMAIN l
  BY <1>5
<1>7. l # << >>
  BY <1>5
<1>8. ASSUME NEW i \in DOMAIN s PROVE i + 1 \in DOMAIN l /\ l[i + 1] = s[i]
  <2>1. i \in 1..n /\ i + 1 \in 1..(1 + n) /\ ~(i + 1 <= 1) /\ (i + 1) - 1 = i
    BY <1>3
  <2> QED
    BY <1>5, <2>1
<1>9. ASSUME NEW i \in DOMAIN l, i # 1 PROVE \E j \in DOMAIN s : l[i] = s[j]
  <2>1. i - 1 \in 1..n /\ ~(i <= 1)
    BY <1>5, <1>9
  <2> QED
    BY <1>3, <1>5, <2>1
<1>10. Head(l) = c
  BY <1>6, <1>7
<1>11. Tail(l) = s
  <2>1. /\ Tail(l) \in Seq(T) /\ Len(Tail(l)) = n
        /\ \A i \in 1..n : Tail(l)[i] = l[i + 1]
    BY <1>5, <1>7, HeadTailProperties
  <2>2. \A i \in 1..n : Tail(l)[i] = s[i]
    BY <1>3, <1>8, <2>1
  <2> QED
    BY <1>2, <1>3, <2>1, <2>2
<1>12. IsList(l)
  BY <1>5 DEF IsList
<1> QED
  BY <1>4, <1>6, <1>7, <1>8, <1>9, <1>10, <1>11, <1>12

LEMMA Concat ==
    ASSUME NEW r, NEW s, IsList(r), IsList(s)
    PROVE  /\ IsList(r \o s)
           /\ << >> \o s = s
           /\ r \o << >> = r
           /\ Plain(r) /\ Plain(s) => Plain(r \o s)
<1>1. PICK T : r \in Seq(T) /\ s \in Seq(T)
  BY TwoLists
<1>2. PICK l : l = r \o s
  OBVIOUS
<1>3. /\ l \in Seq(T) /\ Len(l) = Len(r) + Len(s)
      /\ \A i \in 1..(Len(r) + Len(s)) : l[i] = IF i <= Len(r) THEN r[i] ELSE s[i - Len(r)]
  BY <1>1, <1>2, ConcatProperties
<1>4. << >> \o s = s /\ r \o << >> = r
  BY <1>1, ConcatEmptySeq
<1>5. ASSUME Plain(r), Plain(s), NEW i \in DOMAIN l PROVE l[i].call # "erase"
  <2>1. i \in 1..(Len(r) + Len(s)) /\ Len(r) \in Nat /\ Len(s) \in Nat
    BY <1>1, <1>3
  <2>2. CASE i <= Len(r)
    <3>1. i \in DOMAIN r /\ l[i] = r[i]
      BY <1>1, <1>3, <2>1, <2>2
    <3> QED
      BY <1>5, <3>1 DEF Plain
  <2>3. CASE ~(i <= Len(r))
    <3>1. i - Len(r) \in DOMAIN s /\ l[i] = s[i - Len(r)]
      BY <1>1, <1>3, <2>1, <2>3
    <3> QED
      BY <1>5, <3>1 DEF Plain
  <2> QED
    BY <2>2, <2>3
<1>6. IsList(l)
  BY <1>3 DEF IsList
<1> QED
  BY <1>2, <1>4, <1>5, <1>6 DEF Plain

LEMMA Associative ==
    ASSUME NEW r, NEW s, NEW t, IsList(r), IsList(s), IsList(t)
    PROVE  (r \o s) \o t = r \o (s \o t)
<1>1. PICK T : r \in Seq(T) /\ s \in Seq(T)
  BY TwoLists
<1>2. PICK U : t \in Seq(U)
  BY DEF IsList
<1>3. r \in Seq(T \cup U) /\ s \in Seq(T \cup U) /\ t \in Seq(T \cup U)
  BY <1>1, <1>2
<1> QED
  BY <1>3, ConcatAssociative

LEMMA Lists ==
    /\ IsList(<< >>) /\ Plain(<< >>)
    /\ \A c : IsList(<< c >>) /\ (c.call # "erase" => Plain(<< c >>))
<1>1. ASSUME NEW c PROVE IsList(<< c >>) /\ (c.call # "erase" => Plain(<< c >>))
  <2>1. << c >> \in Seq({c}) /\ DOMAIN << c >> = {1} /\ << c >>[1] = c
    OBVIOUS
  <2> QED
    BY <2>1 DEF IsList, Plain
<1>2. << >> \in Seq({}) /\ DOMAIN << >> = {}
  OBVIOUS
<1> QED
  BY <1>1, <1>2 DEF IsList, Plain

-----------------------------------------------------------------------------
(* What a call does to the file *)

IsFile(f) ==
    /\ f = [exists |-> f.exists, commit |-> f.commit, header |-> f.header,
            size |-> f.size, cells |-> f.cells]
    /\ f.exists \in BOOLEAN /\ f.commit \in BOOLEAN
    /\ f.header \in Headers
    /\ f.size \in Nat
    /\ f.cells \in [HeaderLength..(f.size - 1) -> Cells]

\* Of the cells of f, at most those of A are others in g, and none is gone.
Touches(f, g, A) ==
    /\ IsFile(g)
    /\ g.exists = f.exists /\ g.commit = f.commit /\ g.header = f.header
    /\ \A a \in DOMAIN f.cells \ A : a \in DOMAIN g.cells /\ g.cells[a] = f.cells[a]

LEMMA TouchesTwice ==
    ASSUME NEW f, NEW g, NEW h, NEW A, NEW B, Touches(f, g, A), Touches(g, h, B)
    PROVE  Touches(f, h, A \cup B)
  BY DEF Touches

LEMMA TouchesMore ==
    ASSUME NEW f, NEW g, NEW A, NEW B, Touches(f, g, A), A \subseteq B
    PROVE  Touches(f, g, B)
  BY DEF Touches

LEMMA TouchesNothing ==
    ASSUME NEW f, IsFile(f)
    PROVE  Touches(f, f, {})
  BY DEF Touches

LEMMA ResizedFacts ==
    ASSUME NEW f, IsFile(f), NEW n \in Nat, NEW g, g = Resized(f, n)
    PROVE  /\ IsFile(g)
           /\ g.exists = f.exists /\ g.commit = f.commit /\ g.header = f.header
           /\ g.size = n
           /\ g.cells = [p \in HeaderLength..(n - 1) |-> IF p < f.size THEN f.cells[p] ELSE Zero]
<1>1. PICK cells : cells = [p \in HeaderLength..(n - 1) |->
                              IF p < f.size THEN f.cells[p] ELSE Zero]
  OBVIOUS
<1>2. f = [exists |-> f.exists, commit |-> f.commit, header |-> f.header,
           size |-> f.size, cells |-> f.cells]
  BY DEF IsFile
<1>3. g = [exists |-> f.exists, commit |-> f.commit, header |-> f.header,
           size |-> n, cells |-> cells]
  BY <1>1, <1>2 DEF Resized
<1>4. cells \in [HeaderLength..(n - 1) -> Cells]
  <2>1. ASSUME NEW p \in HeaderLength..(n - 1)
        PROVE  (IF p < f.size THEN f.cells[p] ELSE Zero) \in Cells
    <3>1. p < f.size => p \in HeaderLength..(f.size - 1)
      BY Lengths DEF IsFile
    <3>2. p < f.size => f.cells[p] \in Cells
      BY <3>1 DEF IsFile
    <3>3. Zero \in Cells
      BY DEF Cells
    <3> QED
      BY <3>2, <3>3
  <2> QED
    BY <1>1, <2>1
<1> QED
  BY <1>1, <1>3, <1>4 DEF IsFile

LEMMA WrittenFacts ==
    ASSUME NEW f, IsFile(f), NEW at \in Nat, at >= HeaderLength,
           NEW n \in Nat, NEW data \in [1..n -> Cells], Len(data) = n,
           NEW g, g = Written(f, at, data)
    PROVE  /\ Touches(f, g, at..(at + n - 1))
           /\ \A a \in at..(at + n - 1) : a \in DOMAIN g.cells /\ g.cells[a] = data[a - at + 1]
<1>1. PICK end \in Nat : end = at + n
  OBVIOUS
<1>2. PICK h : h = IF end > f.size THEN Resized(f, end) ELSE f
  OBVIOUS
<1>3. /\ IsFile(h)
      /\ h.exists = f.exists /\ h.commit = f.commit /\ h.header = f.header
      /\ h.size >= end
      /\ \A a \in DOMAIN f.cells : a \in DOMAIN h.cells /\ h.cells[a] = f.cells[a]
  <2>1. CASE end > f.size
    <3>1. h = Resized(f, end)
      BY <1>2, <2>1
    <3>2. /\ IsFile(h)
          /\ h.exists = f.exists /\ h.commit = f.commit /\ h.header = f.header
          /\ h.size = end
          /\ h.cells = [p \in HeaderLength..(end - 1) |-> IF p < f.size THEN f.cells[p] ELSE Zero]
      BY <3>1, ResizedFacts
    <3>3. ASSUME NEW a \in DOMAIN f.cells
          PROVE a \in DOMAIN h.cells /\ h.cells[a] = f.cells[a]
      <4>1. a \in HeaderLength..(f.size - 1) /\ f.size \in Nat
        BY DEF IsFile
      <4>2. a \in HeaderLength..(end - 1) /\ a < f.size
        BY <2>1, <4>1, Lengths
      <4> QED
        BY <3>2, <4>2
    <3> QED
      BY <3>2, <3>3
  <2>2. CASE ~(end > f.size)
    BY <1>2, <2>2 DEF IsFile
  <2> QED
    BY <2>1, <2>2
<1>4. PICK cells : cells = [p \in DOMAIN h.cells |->
                              IF p \in at..(end - 1) THEN data[p - at + 1] ELSE h.cells[p]]
  OBVIOUS
<1>5. g = [h EXCEPT !.cells = cells]
  BY <1>1, <1>2, <1>4 DEF Written
<1>6. h = [exists |-> h.exists, commit |-> h.commit, header |-> h.header,
           size |-> h.size, cells |-> h.cells]
  BY <1>3 DEF IsFile
<1>7. g = [exists |-> h.exists, commit |-> h.commit, header |-> h.header,
           size |-> h.size, cells |-> cells]
  BY <1>5, <1>6
<1>8. DOMAIN h.cells = HeaderLength..(h.size - 1) /\ h.size \in Nat
      /\ h.cells \in [HeaderLength..(h.size - 1) -> Cells]
  BY <1>3 DEF IsFile
<1>9. ASSUME NEW a \in at..(end - 1)
      PROVE  a \in DOMAIN cells /\ cells[a] = data[a - at + 1] /\ data[a - at + 1] \in Cells
  <2>1. a \in HeaderLength..(h.size - 1)
    BY <1>1, <1>3, <1>8, Lengths
  <2>2. a - at + 1 \in 1..n
    BY <1>1
  <2> QED
    BY <1>4, <1>8, <2>1, <2>2
<1>10. cells \in [HeaderLength..(h.size - 1) -> Cells]
  BY <1>4, <1>8, <1>9
<1>11. IsFile(g)
  BY <1>3, <1>7, <1>8, <1>10 DEF IsFile
<1>12. ASSUME NEW a \in DOMAIN f.cells \ (at..(end - 1))
       PROVE a \in DOMAIN cells /\ cells[a] = f.cells[a]
  BY <1>3, <1>4
<1>13. Touches(f, g, at..(end - 1))
  BY <1>3, <1>7, <1>11, <1>12 DEF Touches
<1> QED
  BY <1>1, <1>7, <1>9, <1>13

-----------------------------------------------------------------------------
(* The cells of the ring, and what is safe in it *)

\* The places from the a-th behind p to the one before the b-th.
Ring(L, p, a, b) == { Place(L, p, x) : x \in a..(b - 1) }

LEMMA RingsApart ==
    ASSUME NEW L \in Nat, NEW p \in HeaderLength..(L - 1),
           NEW a \in Nat, NEW b \in Nat, NEW c \in Nat, NEW d \in Nat,
           b <= c, b <= L - HeaderLength, d <= L - HeaderLength
    PROVE  Ring(L, p, a, b) \cap Ring(L, p, c, d) = {}
<1> SUFFICES ASSUME NEW x \in a..(b - 1), NEW y \in c..(d - 1), Place(L, p, x) = Place(L, p, y)
             PROVE  FALSE
  BY DEF Ring
<1>1. x \in 0..(L - HeaderLength - 1) /\ y \in 0..(L - HeaderLength - 1)
  BY Lengths
<1>2. x = y
  BY <1>1, PlaceInjective
<1> QED
  BY <1>2

\* A ring may be counted from any of its places.
LEMMA RingShifted ==
    ASSUME NEW L \in Nat, NEW p \in HeaderLength..(L - 1), NEW e \in Nat, NEW n \in Nat,
           NEW e2, e2 = e + n, e2 <= L - HeaderLength
    PROVE  Ring(L, Place(L, p, e), 0, n) = Ring(L, p, e, e2)
<1>1. ASSUME NEW x \in 0..(n - 1) PROVE Place(L, Place(L, p, e), x) \in Ring(L, p, e, e2)
  <2>1. e + x \in e..(e2 - 1) /\ x \in Nat /\ x + e <= L - HeaderLength
    BY Lengths
  <2>2. e + x <= L - HeaderLength
    BY <2>1, Lengths
  <2>3. Place(L, Place(L, p, e), x) = Place(L, p, e + x)
    BY <2>1, <2>2, PlaceTwice
  <2> QED
    BY <2>1, <2>3 DEF Ring
<1>2. ASSUME NEW z \in e..(e2 - 1) PROVE Place(L, p, z) \in Ring(L, Place(L, p, e), 0, n)
  <2>1. PICK x \in 0..(n - 1) : z = e + x
    <3>1. z - e \in 0..(n - 1) /\ z = e + (z - e)
      OBVIOUS
    <3> QED
      BY <3>1
  <2>2. e + x <= L - HeaderLength /\ x \in Nat
    BY <2>1, Lengths
  <2>3. Place(L, Place(L, p, e), x) = Place(L, p, z)
    BY <2>1, <2>2, PlaceTwice
  <2> QED
    BY <2>3 DEF Ring
<1> QED
  BY <1>1, <1>2 DEF Ring

\* The cells hold the first j elements of q.
Laid(cells, L, p, q, off, j) ==
    \A i \in 1..j : \A y \in 0..(ElementHeaderLength + Len(q[i]) - 1) :
        /\ Place(L, p, off[i - 1] + y) \in DOMAIN cells
        /\ cells[Place(L, p, off[i - 1] + y)] = CellOf(q[i], y)

LEMMA RingIsLaid ==
    ASSUME NEW cells, NEW L, NEW p, NEW q, NEW off
    PROVE  RingHolds(cells, L, p, q, off) <=>
             /\ off \in Offsets(q)
             /\ p \in HeaderLength..(L - 1)
             /\ off[Len(q)] <= L - HeaderLength
             /\ Laid(cells, L, p, q, off, Len(q))
  BY DEF RingHolds, Laid

\* What touches other cells only leaves the elements alone.
LEMMA LaidKept ==
    ASSUME NEW L \in Nat, NEW p \in HeaderLength..(L - 1),
           NEW q \in Seq(Datas), NEW off \in Offsets(q), NEW j \in 0..Len(q),
           NEW f, NEW g, NEW A, Touches(f, g, A), Ring(L, p, 0, off[j]) \cap A = {},
           Laid(f.cells, L, p, q, off, j)
    PROVE  Laid(g.cells, L, p, q, off, j)
<1> SUFFICES ASSUME NEW i \in 1..j, NEW y \in 0..(ElementHeaderLength + Len(q[i]) - 1)
             PROVE  /\ Place(L, p, off[i - 1] + y) \in DOMAIN g.cells
                    /\ g.cells[Place(L, p, off[i - 1] + y)] = CellOf(q[i], y)
  BY DEF Laid
<1>1. PICK n \in Nat : n = Len(q)
  OBVIOUS
<1>2. PICK o \in Nat, e \in Nat, k \in Nat, t \in Nat :
        o = off[i - 1] /\ e = off[i] /\ k = Len(q[i]) /\ t = off[j]
        /\ e = o + ElementHeaderLength + k /\ e <= t
  <2>1. i \in 1..n /\ i - 1 \in 0..n /\ i \in 0..n /\ j \in 0..n /\ i <= j
    BY <1>1
  <2>2. /\ off \in [0..n -> Nat]
        /\ off[i] = off[i - 1] + ElementHeaderLength + Len(q[i]) /\ Len(q[i]) \in Nat
        /\ off[i] <= off[j]
    BY <1>1, <2>1, OffsetsFacts
  <2> QED
    BY <2>1, <2>2
<1>3. PICK x \in Nat : x = o + y /\ x \in 0..(t - 1)
  <2>1. ElementHeaderLength + k \in Nat /\ y \in 0..(ElementHeaderLength + k - 1)
    BY <1>2, Lengths
  <2>2. y \in Nat /\ y < ElementHeaderLength + k
    BY <1>2, <2>1, Lengths
  <2>3. o \in Nat /\ k \in Nat /\ t \in Nat /\ o + ElementHeaderLength + k <= t
    BY <1>2
  <2>4. o + y \in 0..(t - 1)
    BY <2>2, <2>3, Lengths
  <2> QED
    BY <2>4
<1>4. Place(L, p, x) \in Ring(L, p, 0, t)
  BY <1>3 DEF Ring
<1>5. Place(L, p, x) \in DOMAIN f.cells /\ f.cells[Place(L, p, x)] = CellOf(q[i], y)
  BY <1>2, <1>3 DEF Laid
<1>6. Place(L, p, x) \in DOMAIN g.cells /\ g.cells[Place(L, p, x)] = f.cells[Place(L, p, x)]
  BY <1>2, <1>4, <1>5 DEF Touches
<1> QED
  BY <1>2, <1>3, <1>5, <1>6

Empty(h) == h.count = 0 /\ h.first = 0 /\ h.last = 0

\* The next process reads what this one does, or nothing.
Agree(f, m) ==
    f.commit \/ f.header = HeaderOf(m) \/ (Empty(f.header) /\ m.count = 0)

\* The queue holds q, and nothing is lost if the operation ends here.
Safe(f, m, q) ==
    /\ IsFile(f) /\ f.exists
    /\ m \in Memories /\ q \in Seq(Datas)
    /\ MemoryHolds(m, f.cells, q)
    /\ Agree(f, m)

LEMMA SafeReads ==
    ASSUME NEW f, NEW m, NEW q, Safe(f, m, q)
    PROVE  /\ Peek(f.cells, m.length, m.first.at, m.count) = q
           /\ Recovered(f) = (IF f.commit THEN << >> ELSE q)
           /\ ~f.commit => HeaderHolds(f.header, f.cells, q)
<1>1. m \in Memories /\ q \in Seq(Datas) /\ MemoryHolds(m, f.cells, q)
  BY DEF Safe
<1>2. Peek(f.cells, m.length, m.first.at, m.count) = q
  BY <1>1, MemoryIsRead
<1>3. CASE f.commit
  BY <1>2, <1>3 DEF Recovered
<1>4. CASE ~f.commit
  <2>1. PICK h : h = f.header
    OBVIOUS
  <2>2. h.length \in Nat
    BY <2>1, Lengths DEF Safe, IsFile, Headers
  <2>3. HeaderHolds(h, f.cells, q)
    <3>1. CASE h = HeaderOf(m)
      BY <1>1, <3>1 DEF MemoryHolds
    <3>2. CASE Empty(h) /\ m.count = 0
      <4>1. Len(q) = 0
        BY <1>1, <3>2 DEF MemoryHolds, HeaderHolds, HeaderOf
      <4>2. q = << >>
        BY <1>1, <4>1
      <4> QED
        BY <3>2, <4>1, <4>2 DEF HeaderHolds, Empty
    <3> QED
      BY <1>4, <2>1, <3>1, <3>2 DEF Safe, Agree
  <2>4. Peek(f.cells, h.length, h.first, h.count) = q
    BY <1>1, <2>2, <2>3, HeaderIsRead
  <2> QED
    BY <1>2, <1>4, <2>1, <2>3, <2>4 DEF Recovered, Safe
<1> QED
  BY <1>3, <1>4

\* The elements of a queue that is not empty lie in the ring from p to the e-th place.
\* The fields stay inside the file.
LEMMA SafePlaced ==
    ASSUME NEW f, NEW m, NEW q, Safe(f, m, q)
    PROVE  HeaderOf(m) \in Headers
<1>1. m \in Memories /\ q \in Seq(Datas) /\ MemoryHolds(m, f.cells, q)
  BY DEF Safe
<1>2. PICK h : h = HeaderOf(m)
  OBVIOUS
<1>3. /\ h = [length |-> m.length, count |-> m.count, first |-> m.first.at, last |-> m.last.at]
      /\ m.length \in InitialLength..MaxLength /\ m.count \in Nat
      /\ m.first.at \in Nat /\ m.last.at \in Nat /\ m.length \in Nat /\ 0 < m.length
  BY <1>1, <1>2, Lengths DEF HeaderOf, Memories, Spots
<1>4. m.first.at < m.length /\ m.last.at < m.length
  <2>1. CASE q = << >>
    <3>1. m.first.at = 0 /\ m.last.at = 0
      BY <1>1, <1>2, <1>3, <2>1 DEF MemoryHolds, HeaderHolds
    <3> QED
      BY <1>3, <3>1
  <2>2. CASE q # << >>
    <3>1. PICK off : MemoryAt(m, f.cells, q, off)
      BY <1>1, <2>2, MemoryIsAt
    <3>2. PICK L, p, n, o, P : /\ L = m.length /\ p = m.first.at /\ n = Len(q)
                               /\ o = off[n - 1] /\ P = m.last.at
      OBVIOUS
    <3>3. SpaceIn(L, p, n, m, off)
      BY <1>1, <2>2, <3>1, <3>2, SpaceFacts
    <3>4. /\ L \in Nat /\ off[n] \in Nat /\ o \in Nat /\ off[n] <= L - HeaderLength
          /\ o <= off[n] /\ P = Place(L, p, o)
      BY <3>2, <3>3 DEF SpaceIn
    <3>5. p \in HeaderLength..(L - 1)
      BY <3>1, <3>2 DEF MemoryAt, RingHolds
    <3>6. o \in 0..(L - HeaderLength)
      BY <3>4, Lengths
    <3>7. P \in HeaderLength..(L - 1)
      BY <3>4, <3>5, <3>6, PlaceRange
    <3> QED
      BY <1>3, <3>2, <3>5, <3>7, Lengths, SMTT(30)
  <2> QED
    BY <2>1, <2>2
<1> QED
  BY <1>2, <1>3, <1>4 DEF Headers

LEMMA SafeAt ==
    ASSUME NEW f, NEW m, NEW q, Safe(f, m, q), q # << >>
    PROVE  \E off : MemoryAt(m, f.cells, q, off)
  BY MemoryIsAt DEF Safe

LEMMA SafeKept ==
    ASSUME NEW f, NEW m, NEW q, Safe(f, m, q), NEW g, NEW A, Touches(f, g, A),
           \/ q = << >>
           \/ \E off : /\ MemoryAt(m, f.cells, q, off)
                       /\ Ring(m.length, m.first.at, 0, off[Len(q)]) \cap A = {}
    PROVE  Safe(g, m, q)
<1>1. m \in Memories /\ q \in Seq(Datas) /\ m.length \in Nat
  BY Lengths DEF Safe, Memories
<1>2. MemoryHolds(m, g.cells, q)
  <2>1. CASE q = << >>
    BY <2>1 DEF Safe, MemoryHolds, HeaderHolds
  <2>2. CASE q # << >>
    <3>1. PICK off : /\ MemoryAt(m, f.cells, q, off)
                     /\ Ring(m.length, m.first.at, 0, off[Len(q)]) \cap A = {}
      BY <2>2
    <3>2. RingHolds(f.cells, m.length, m.first.at, q, off)
      BY <3>1 DEF MemoryAt
    <3>3. /\ off \in Offsets(q) /\ m.first.at \in HeaderLength..(m.length - 1)
          /\ off[Len(q)] <= m.length - HeaderLength
          /\ Laid(f.cells, m.length, m.first.at, q, off, Len(q))
      BY <3>2, RingIsLaid
    <3>4. Len(q) \in 0..Len(q)
      BY <1>1
    <3>5. Laid(g.cells, m.length, m.first.at, q, off, Len(q))
      BY <1>1, <3>1, <3>3, <3>4, LaidKept
    <3>6. RingHolds(g.cells, m.length, m.first.at, q, off)
      BY <3>3, <3>5, RingIsLaid
    <3>7. MemoryAt(m, g.cells, q, off)
      BY <3>1, <3>6 DEF MemoryAt
    <3> QED
      BY <2>2, <3>7, MemoryIsAt
  <2> QED
    BY <2>1, <2>2
<1> QED
  BY <1>1, <1>2 DEF Safe, Touches, Agree

-----------------------------------------------------------------------------
(* Operations that can stop at any moment *)

\* Before and after each call the queue holds q or r, except at the bad moment; in the
\* end it holds r, and no commit file is left unless a call has failed.
Sound(f, m, calls, failed, q, r) ==
    /\ IsFile(f) /\ f.exists
    /\ m \in Memories /\ HeaderOf(m) \in Headers
    /\ IsList(calls)
    /\ calls # << >> => HeadErased(m, calls) \/ Safe(f, m, q) \/ Safe(f, m, r)
    /\ calls = << >> => /\ Safe(f, m, r)
                        /\ failed \/ (~f.commit /\ f.header = HeaderOf(m))

\* What follows the return of the first call, or the failure that is ignored.
Returned(f, m, calls, failed) ==
    << Called(f, Head(calls)), Effect(m, Head(calls)), Tail(calls), failed >>
Ignored(f, m, calls) ==
    << f, Effect(m, Head(calls)), Tail(calls), TRUE >>

\* R is a set of states that such an operation does not leave.
Closed(R, q, r) ==
    \A f, m, calls, failed : << f, m, calls, failed >> \in R =>
        /\ Sound(f, m, calls, failed, q, r)
        /\ calls # << >> => /\ Returned(f, m, calls, failed) \in R
                            /\ Head(calls).call = "uncommit" => Ignored(f, m, calls) \in R

\* The calls, from here on, are those of an operation that happens as a whole or not.
Good(f, m, calls, failed, q, r) ==
    \E R : << f, m, calls, failed >> \in R /\ Closed(R, q, r)

LEMMA GoodIsSound ==
    ASSUME NEW f, NEW m, NEW calls, NEW failed, NEW q, NEW r,
           Good(f, m, calls, failed, q, r)
    PROVE  Sound(f, m, calls, failed, q, r)
  BY DEF Good, Closed

LEMMA GoodReturns ==
    ASSUME NEW f, NEW m, NEW calls, NEW failed, NEW q, NEW r,
           Good(f, m, calls, failed, q, r), calls # << >>
    PROVE  Good(Called(f, Head(calls)), Effect(m, Head(calls)), Tail(calls), failed, q, r)
<1>1. PICK R : << f, m, calls, failed >> \in R /\ Closed(R, q, r)
  BY DEF Good
<1>2. Returned(f, m, calls, failed) \in R
  BY <1>1 DEF Closed
<1> QED
  BY <1>1, <1>2 DEF Good, Returned

LEMMA GoodIgnores ==
    ASSUME NEW f, NEW m, NEW calls, NEW failed, NEW q, NEW r,
           Good(f, m, calls, failed, q, r), calls # << >>, Head(calls).call = "uncommit"
    PROVE  Good(f, Effect(m, Head(calls)), Tail(calls), TRUE, q, r)
<1>1. PICK R : << f, m, calls, failed >> \in R /\ Closed(R, q, r)
  BY DEF Good
<1>2. Ignored(f, m, calls) \in R
  BY <1>1 DEF Closed
<1> QED
  BY <1>1, <1>2 DEF Good, Ignored

LEMMA GoodEnd ==
    ASSUME NEW f, NEW m, NEW failed, NEW q, NEW r, Safe(f, m, r),
           failed \/ (~f.commit /\ f.header = HeaderOf(m))
    PROVE  Good(f, m, << >>, failed, q, r)
<1>1. PICK R : R = {<< f, m, << >>, failed >>}
  OBVIOUS
<1>2. Sound(f, m, << >>, failed, q, r)
  BY Lists, SafePlaced DEF Sound, Safe
<1>3. ASSUME NEW f1, NEW m1, NEW calls1, NEW failed1, << f1, m1, calls1, failed1 >> \in R
      PROVE  f1 = f /\ m1 = m /\ calls1 = << >> /\ failed1 = failed
  BY <1>1, <1>3
<1>4. Closed(R, q, r)
  BY <1>2, <1>3 DEF Closed
<1> QED
  BY <1>1, <1>4 DEF Good

\* One call more at the front.
LEMMA GoodCall ==
    ASSUME NEW f, NEW m, NEW c, NEW rest, IsList(rest), NEW failed, NEW q, NEW r,
           Sound(f, m, << c >> \o rest, failed, q, r),
           Good(Called(f, c), Effect(m, c), rest, failed, q, r),
           c.call = "uncommit" => Good(f, Effect(m, c), rest, TRUE, q, r)
    PROVE  Good(f, m, << c >> \o rest, failed, q, r)
<1>1. PICK calls : calls = << c >> \o rest
  OBVIOUS
<1>2. calls # << >> /\ Head(calls) = c /\ Tail(calls) = rest
  BY <1>1, Cons
<1>3. PICK R : << Called(f, c), Effect(m, c), rest, failed >> \in R /\ Closed(R, q, r)
  BY DEF Good
<1>4. PICK I : /\ Closed(I, q, r)
               /\ c.call = "uncommit" => << f, Effect(m, c), rest, TRUE >> \in I
  <2>1. CASE c.call = "uncommit"
    BY <2>1 DEF Good
  <2>2. CASE c.call # "uncommit"
    BY <1>3, <2>2
  <2> QED
    BY <2>1, <2>2
<1>5. PICK U : U = R \cup I \cup {<< f, m, calls, failed >>}
  OBVIOUS
<1>6. ASSUME NEW f1, NEW m1, NEW calls1, NEW failed1, << f1, m1, calls1, failed1 >> \in U
      PROVE  /\ Sound(f1, m1, calls1, failed1, q, r)
             /\ calls1 # << >> =>
                  /\ Returned(f1, m1, calls1, failed1) \in U
                  /\ Head(calls1).call = "uncommit" => Ignored(f1, m1, calls1) \in U
  <2>1. CASE << f1, m1, calls1, failed1 >> \in R
    BY <1>3, <1>5, <2>1 DEF Closed
  <2>2. CASE << f1, m1, calls1, failed1 >> \in I
    BY <1>4, <1>5, <2>2 DEF Closed
  <2>3. CASE << f1, m1, calls1, failed1 >> = << f, m, calls, failed >>
    <3>1. f1 = f /\ m1 = m /\ calls1 = calls /\ failed1 = failed
      BY <2>3
    <3>2. Returned(f, m, calls, failed) \in U
      BY <1>2, <1>3, <1>5 DEF Returned
    <3>3. c.call = "uncommit" => Ignored(f, m, calls) \in U
      BY <1>2, <1>4, <1>5 DEF Ignored
    <3> QED
      BY <1>1, <1>2, <3>1, <3>2, <3>3
  <2> QED
    BY <1>5, <1>6, <2>1, <2>2, <2>3
<1>7. Closed(U, q, r)
  BY <1>6 DEF Closed
<1> QED
  BY <1>1, <1>5, <1>7 DEF Good

\* The bad moment lasts until the call that sets the new length.
LEMMA HeadErasedHere ==
    ASSUME NEW m, Fragmented(m), NEW c, c.call # "erase", Effect(m, c).length > m.length,
           NEW rest, IsList(rest), Plain(rest)
    PROVE  HeadErased(m, << c >> \o rest)
<1>1. PICK l : l = << c >> \o rest
  OBVIOUS
<1>2. /\ 1 \in DOMAIN l /\ l[1] = c
      /\ \A i \in DOMAIN l : l[i] = c \/ \E j \in DOMAIN rest : l[i] = rest[j]
  BY <1>1, Cons
<1>3. \A i \in DOMAIN l : l[i].call # "erase"
  BY <1>2 DEF Plain
<1> QED
  BY <1>1, <1>2, <1>3 DEF HeadErased

LEMMA HeadErasedBefore ==
    ASSUME NEW m, NEW c, c.call # "erase", NEW rest, IsList(rest), HeadErased(m, rest)
    PROVE  HeadErased(m, << c >> \o rest)
<1>1. PICK l : l = << c >> \o rest
  OBVIOUS
<1>2. /\ \A i \in DOMAIN rest : i + 1 \in DOMAIN l /\ l[i + 1] = rest[i]
      /\ \A i \in DOMAIN l : l[i] = c \/ \E j \in DOMAIN rest : l[i] = rest[j]
  BY <1>1, Cons, SMTT(30)
<1>3. \A i \in DOMAIN l : l[i].call # "erase"
  BY <1>2 DEF HeadErased
<1>4. PICK i \in DOMAIN rest : Effect(m, rest[i]).length > m.length
  BY DEF HeadErased
<1>5. \E k \in DOMAIN l : Effect(m, l[k]).length > m.length
  BY <1>2, <1>4
<1> QED
  BY <1>1, <1>3, <1>5 DEF HeadErased

LEMMA Pair ==
    ASSUME NEW c, NEW d
    PROVE  << c, d >> = << c >> \o << d >>
<1>1. << c >> \in Seq({c, d}) /\ << d >> \in Seq({c, d}) /\ Len(<< c >>) = 1 /\ Len(<< d >>) = 1
  OBVIOUS
<1>2. PICK l : l = << c >> \o << d >>
  OBVIOUS
<1>3. /\ l \in Seq({c, d}) /\ Len(l) = 1 + 1
      /\ \A i \in 1..(1 + 1) : l[i] = IF i <= 1 THEN << c >>[i] ELSE << d >>[i - 1]
  BY <1>1, <1>2, ConcatProperties
<1>4. l[1] = c /\ l[2] = d /\ Len(l) = 2 /\ DOMAIN l = 1..2
  BY <1>3
<1>5. << c, d >> \in Seq({c, d}) /\ Len(<< c, d >>) = 2
  OBVIOUS
<1>6. \A i \in 1..2 : l[i] = << c, d >>[i]
  BY <1>4
<1>7. l = << c, d >>
  BY <1>3, <1>4, <1>5, <1>6
<1> QED
  BY <1>2, <1>7

LEMMA Pieces ==
    ASSUME NEW S, NEW data \in Seq(S), NEW k \in 1..Len(data)
    PROVE  /\ SubSeq(data, 1, k) \in Seq(S) /\ Len(SubSeq(data, 1, k)) = k
           /\ \A i \in 1..k : SubSeq(data, 1, k)[i] = data[i]
           /\ SubSeq(data, k + 1, Len(data)) \in Seq(S)
           /\ Len(SubSeq(data, k + 1, Len(data))) = Len(data) - k
           /\ \A i \in 1..(Len(data) - k) : SubSeq(data, k + 1, Len(data))[i] = data[k + i]
<1>1. PICK n \in Nat : n = Len(data)
  OBVIOUS
<1>2. \A i \in 1..n : data[i] \in S
  BY <1>1
<1>3. /\ SubSeq(data, 1, k) \in Seq(S) /\ Len(SubSeq(data, 1, k)) = k
      /\ \A i \in 1..k : SubSeq(data, 1, k)[i] = data[i]
  <2>1. \A i \in 1..k : data[i] \in S
    BY <1>1, <1>2
  <2>2. 1 \in Int /\ k \in Int /\ 1 <= k /\ k - 1 + 1 = k
    OBVIOUS
  <2>3. /\ SubSeq(data, 1, k) \in Seq(S) /\ Len(SubSeq(data, 1, k)) = k
        /\ \A i \in 1..k : SubSeq(data, 1, k)[i] = data[1 + i - 1]
    BY <2>1, <2>2, SubSeqProperties
  <2> QED
    BY <2>3
<1>4. /\ SubSeq(data, k + 1, n) \in Seq(S) /\ Len(SubSeq(data, k + 1, n)) = n - k
      /\ \A i \in 1..(n - k) : SubSeq(data, k + 1, n)[i] = data[k + i]
  <2>1. PICK s \in Int : s = k + 1 /\ s >= 1
    OBVIOUS
  <2>2. \A i \in s..n : data[i] \in S
    BY <1>2, <2>1
  <2>3. n \in Int /\ n - s + 1 = n - k /\ (~(s <= n) => n - k = 0)
    BY <1>1, <2>1
  <2>4. /\ SubSeq(data, s, n) \in Seq(S)
        /\ Len(SubSeq(data, s, n)) = IF s <= n THEN n - s + 1 ELSE 0
        /\ \A i \in 1..(n - s + 1) : SubSeq(data, s, n)[i] = data[s + i - 1]
    BY <2>1, <2>2, <2>3, SubSeqProperties
  <2>5. \A i \in 1..(n - k) : s + i - 1 = k + i
    BY <2>1
  <2> QED
    BY <2>1, <2>3, <2>4, <2>5
<1> QED
  BY <1>1, <1>3, <1>4

\* What does not fit behind a place of the ring goes on after the header.
SplitAt(L, at, room, n, k) ==
    /\ \A x \in 0..(room - 1) :
          /\ Place(L, at, x) = at + x /\ x \in 0..(n - 1)
          /\ at + x \in at..(L - 1)
          /\ at + x \notin HeaderLength..(HeaderLength + k - 1)
          /\ (at + x) - at + 1 = x + 1 /\ x + 1 \in 1..room
    /\ \A x \in room..(n - 1) :
          /\ Place(L, at, x) = HeaderLength + (x - room) /\ x \in 0..(n - 1)
          /\ HeaderLength + (x - room) \in HeaderLength..(HeaderLength + k - 1)
          /\ (HeaderLength + (x - room)) - HeaderLength + 1 = (x - room) + 1
          /\ (x - room) + 1 \in 1..k /\ room + ((x - room) + 1) = x + 1
    /\ at..(L - 1) \subseteq Ring(L, at, 0, n)
    /\ HeaderLength..(HeaderLength + k - 1) \subseteq Ring(L, at, 0, n)

LEMMA PlaceSplit ==
    ASSUME NEW L \in Nat, NEW at \in HeaderLength..(L - 1), NEW room \in Nat, room = L - at,
           NEW n \in Nat, n <= L - HeaderLength, NEW k \in Nat, n = room + k
    PROVE  SplitAt(L, at, room, n, k)
<1>1. at \in Nat
  BY Lengths
<1>2. ASSUME NEW x \in 0..(room - 1)
      PROVE  /\ Place(L, at, x) = at + x /\ x \in 0..(n - 1)
             /\ at + x \in at..(L - 1)
             /\ at + x \notin HeaderLength..(HeaderLength + k - 1)
             /\ (at + x) - at + 1 = x + 1 /\ x + 1 \in 1..room
  <2>1. at + x < L
    BY <1>1
  <2>2. Place(L, at, x) = at + x
    BY <2>1 DEF Place, WrapPosition
  <2>3. at + x \notin HeaderLength..(HeaderLength + k - 1)
    BY <1>1, Lengths
  <2> QED
    BY <1>1, <2>1, <2>2, <2>3
<1>3. ASSUME NEW x \in room..(n - 1)
      PROVE  /\ Place(L, at, x) = HeaderLength + (x - room) /\ x \in 0..(n - 1)
             /\ HeaderLength + (x - room) \in HeaderLength..(HeaderLength + k - 1)
             /\ (HeaderLength + (x - room)) - HeaderLength + 1 = (x - room) + 1
             /\ (x - room) + 1 \in 1..k /\ room + ((x - room) + 1) = x + 1
  <2>1. ~(at + x < L) /\ HeaderLength + (at + x) - L = HeaderLength + (x - room)
    BY <1>1, Lengths
  <2>2. Place(L, at, x) = HeaderLength + (x - room)
    BY <2>1 DEF Place, WrapPosition
  <2> QED
    BY <2>2, Lengths
<1>4. ASSUME NEW a \in at..(L - 1) PROVE a \in Ring(L, at, 0, n)
  <2>1. PICK x \in 0..(room - 1) : a = at + x
    <3>1. a - at \in 0..(room - 1) /\ a = at + (a - at)
      BY <1>1
    <3> QED
      BY <3>1
  <2> QED
    BY <1>2, <2>1 DEF Ring
<1>5. ASSUME NEW a \in HeaderLength..(HeaderLength + k - 1) PROVE a \in Ring(L, at, 0, n)
  <2>1. PICK x \in room..(n - 1) : a = HeaderLength + (x - room)
    <3>1. PICK x \in Int : x = room + (a - HeaderLength)
      BY Lengths
    <3>2. x \in room..(n - 1) /\ a = HeaderLength + (x - room)
      BY <3>1, Lengths
    <3> QED
      BY <3>2
  <2> QED
    BY <1>3, <2>1 DEF Ring
<1> QED
  BY <1>2, <1>3, <1>4, <1>5 DEF SplitAt

LEMMA SoundSafe ==
    ASSUME NEW f, NEW m, NEW c, NEW rest, IsList(rest), NEW failed, NEW q, NEW r,
           Safe(f, m, q) \/ Safe(f, m, r)
    PROVE  Sound(f, m, << c >> \o rest, failed, q, r)
<1>1. IsList(<< c >> \o rest) /\ << c >> \o rest # << >>
  BY Cons
<1> QED
  BY <1>1, SafePlaced DEF Sound, Safe

LEMMA SoundErased ==
    ASSUME NEW f, NEW m, NEW c, NEW rest, IsList(rest), NEW failed, NEW q, NEW r,
           IsFile(f), f.exists, m \in Memories, HeaderOf(m) \in Headers,
           HeadErased(m, << c >> \o rest)
    PROVE  Sound(f, m, << c >> \o rest, failed, q, r)
<1>1. IsList(<< c >> \o rest) /\ << c >> \o rest # << >>
  BY Cons
<1> QED
  BY <1>1 DEF Sound

\* A call on cells at the position where they begin, which are all in the file.
CellsSet(f, g, at, n, data) ==
    /\ Touches(f, g, at..(at + n - 1))
    /\ \A a \in at..(at + n - 1) : a \in DOMAIN g.cells /\ g.cells[a] = data[a - at + 1]

LEMMA CellsCalled ==
    ASSUME NEW f, IsFile(f), NEW m, NEW at \in Nat, at >= HeaderLength,
           NEW n \in Nat, NEW data \in [1..n -> Cells], Len(data) = n,
           NEW c, c = SetCells(at, data) \/ c = Erase(at, data)
    PROVE  /\ Effect(m, c) = m
           /\ c.call # "uncommit"
           /\ CellsSet(f, Called(f, c), at, n, data)
<1>1. Effect(m, c) = m
  BY DEF Effect, SetCells, Erase
<1>2. c.call \in {"cells", "erase"} /\ c.at = at /\ c.data = data
  BY DEF SetCells, Erase
<1>3. Called(f, c) = Written(f, at, data)
  BY <1>2 DEF Called
<1>4. PICK g : g = Written(f, at, data)
  OBVIOUS
<1>5. /\ Touches(f, g, at..(at + n - 1))
      /\ \A a \in at..(at + n - 1) : a \in DOMAIN g.cells /\ g.cells[a] = data[a - at + 1]
  BY <1>4, WrittenFacts
<1> QED
  BY <1>1, <1>2, <1>3, <1>4, <1>5 DEF CellsSet

\* A piece of n cells.
IsData(data, n) == data \in Seq(Cells) /\ Len(data) = n /\ data \in [1..n -> Cells]

LEMMA DataIs ==
    ASSUME NEW data \in Seq(Cells)
    PROVE  Len(data) \in Nat /\ IsData(data, Len(data))
  BY DEF IsData

\* Data in the ring: written in one piece or in two, they are there in the end.
Wrote(g, L, at, n, data) ==
    \A x \in 0..(n - 1) : /\ Place(L, at, x) \in DOMAIN g.cells
                          /\ g.cells[Place(L, at, x)] = data[x + 1]

SafeThroughout(f, A, m, q, r) ==
    \A g : Touches(f, g, A) => Safe(g, m, q) \/ Safe(g, m, r)

GoodOnceWritten(f, L, at, n, data, m, rest, failed, q, r) ==
    \A g : Touches(f, g, Ring(L, at, 0, n)) /\ Wrote(g, L, at, n, data)
              => Good(g, m, rest, failed, q, r)

LEMMA RingWriteGood ==
    ASSUME NEW f, IsFile(f), NEW m \in Memories, NEW failed, NEW q, NEW r,
           NEW rest, IsList(rest),
           NEW L \in Nat, NEW p, NEW at \in HeaderLength..(L - 1), at = WrapPosition(L, p),
           NEW n \in Nat, n <= L - HeaderLength, NEW data, IsData(data, n),
           SafeThroughout(f, Ring(L, at, 0, n), m, q, r),
           GoodOnceWritten(f, L, at, n, data, m, rest, failed, q, r)
    PROVE  Good(f, m, RingWrite(L, p, data) \o rest, failed, q, r)
<1>1. at \in Nat /\ at >= HeaderLength
  BY Lengths
<1>2. PICK room \in Nat : room = L - at /\ at + room = L /\ room >= 1
  BY <1>1, Lengths
<1>3. ASSUME NEW g, Touches(f, g, {}) PROVE Safe(g, m, q) \/ Safe(g, m, r)
  <2>1. Touches(f, g, Ring(L, at, 0, n))
    BY <1>3, TouchesMore
  <2> QED
    BY <2>1 DEF SafeThroughout
<1>4. Safe(f, m, q) \/ Safe(f, m, r)
  BY <1>3, TouchesNothing
<1>5. CASE n <= room
  <2>1. PICK c : c = SetCells(at, data)
    OBVIOUS
  <2>2. RingWrite(L, p, data) = << c >>
    BY <1>2, <1>5, <2>1 DEF RingWrite, IsData
  <2>3. PICK g : g = Called(f, c)
    OBVIOUS
  <2>4. /\ Effect(m, c) = m /\ c.call # "uncommit"
        /\ Touches(f, g, at..(at + n - 1))
        /\ \A a \in at..(at + n - 1) : a \in DOMAIN g.cells /\ g.cells[a] = data[a - at + 1]
    <3>1. Effect(m, c) = m /\ c.call # "uncommit" /\ CellsSet(f, g, at, n, data)
      BY <1>1, <2>1, <2>3, CellsCalled DEF IsData
    <3> QED
      BY <3>1 DEF CellsSet
  <2>5. ASSUME NEW x \in 0..(n - 1)
        PROVE  /\ Place(L, at, x) = at + x /\ at + x \in at..(at + n - 1)
               /\ (at + x) - at + 1 = x + 1
    <3>1. at + x < L
      BY <1>1, <1>2, <1>5
    <3> QED
      BY <1>1, <3>1 DEF Place, WrapPosition
  <2>6. Wrote(g, L, at, n, data)
    BY <2>4, <2>5 DEF Wrote
  <2>7. at..(at + n - 1) \subseteq Ring(L, at, 0, n)
    <3>1. ASSUME NEW a \in at..(at + n - 1) PROVE a \in Ring(L, at, 0, n)
      <4>1. PICK x \in 0..(n - 1) : a = at + x
        <5>1. a - at \in 0..(n - 1) /\ a = at + (a - at)
          BY <1>1
        <5> QED
          BY <5>1
      <4> QED
        BY <2>5, <4>1 DEF Ring
    <3> QED
      BY <3>1
  <2>8. Touches(f, g, Ring(L, at, 0, n))
    BY <2>4, <2>7, TouchesMore
  <2>9. Good(g, m, rest, failed, q, r)
    BY <2>6, <2>8 DEF GoodOnceWritten
  <2>10. Sound(f, m, << c >> \o rest, failed, q, r)
    BY <1>4, SoundSafe
  <2> QED
    BY <2>2, <2>3, <2>4, <2>9, <2>10, GoodCall, ZenonT(40)
<1>6. CASE ~(n <= room)
  <2>1. PICK k \in Nat : k = n - room /\ n = room + k
    BY <1>2, <1>6
  <2>2. PICK d1, d2 : d1 = SubSeq(data, 1, room) /\ d2 = SubSeq(data, room + 1, Len(data))
    OBVIOUS
  <2>3. /\ d1 \in Seq(Cells) /\ Len(d1) = room
        /\ \A i \in 1..room : d1[i] = data[i]
        /\ d2 \in Seq(Cells) /\ Len(d2) = k
        /\ \A i \in 1..k : d2[i] = data[room + i]
    <3>1. room \in 1..n /\ n - room = k
      BY <1>2, <1>6, <2>1
    <3>2. data \in Seq(Cells) /\ room \in 1..Len(data) /\ Len(data) - room = k
      BY <3>1 DEF IsData
    <3> QED
      BY <2>2, <3>2, Pieces
  <2>4. /\ d1 \in [1..room -> Cells] /\ Len(d1) = room
        /\ d2 \in [1..k -> Cells] /\ Len(d2) = k
    BY <2>3
  <2>5. PICK c1, c2 : c1 = SetCells(at, d1) /\ c2 = SetCells(HeaderLength, d2)
    OBVIOUS
  <2>6. RingWrite(L, p, data) = << c1, c2 >>
    BY <1>2, <1>6, <2>2, <2>5 DEF RingWrite, IsData
  <2>7. RingWrite(L, p, data) \o rest = << c1 >> \o (<< c2 >> \o rest)
    BY <2>6, Pair, Lists, Associative
  <2>8. PICK g, h : g = Called(f, c1) /\ h = Called(g, c2)
    OBVIOUS
  <2>9. /\ Effect(m, c1) = m /\ c1.call # "uncommit"
        /\ Touches(f, g, at..(L - 1))
        /\ \A a \in at..(L - 1) : a \in DOMAIN g.cells /\ g.cells[a] = d1[a - at + 1]
    <3>1. Effect(m, c1) = m /\ c1.call # "uncommit" /\ CellsSet(f, g, at, room, d1)
      BY <1>1, <1>2, <2>4, <2>5, <2>8, CellsCalled
    <3>2. at + room - 1 = L - 1
      BY <1>1, <1>2
    <3> QED
      BY <3>1, <3>2 DEF CellsSet
  <2>10. /\ Effect(m, c2) = m /\ c2.call # "uncommit"
         /\ Touches(g, h, HeaderLength..(HeaderLength + k - 1))
         /\ \A a \in HeaderLength..(HeaderLength + k - 1) :
               a \in DOMAIN h.cells /\ h.cells[a] = d2[a - HeaderLength + 1]
    <3>1. IsFile(g)
      BY <2>9 DEF Touches
    <3>2. HeaderLength \in Nat /\ HeaderLength >= HeaderLength
      BY Lengths
    <3>3. /\ Effect(m, c2) = m /\ c2.call # "uncommit"
          /\ CellsSet(g, h, HeaderLength, k, d2)
      BY <2>1, <2>4, <2>5, <2>8, <3>1, <3>2, CellsCalled
    <3> QED
      BY <3>3 DEF CellsSet
  <2>11. SplitAt(L, at, room, n, k)
    BY <1>2, <2>1, PlaceSplit
  <2>12. /\ \A x \in 0..(room - 1) :
               /\ Place(L, at, x) = at + x /\ x \in 0..(n - 1)
               /\ at + x \in at..(L - 1)
               /\ at + x \notin HeaderLength..(HeaderLength + k - 1)
               /\ (at + x) - at + 1 = x + 1 /\ x + 1 \in 1..room
         /\ \A x \in room..(n - 1) :
               /\ Place(L, at, x) = HeaderLength + (x - room) /\ x \in 0..(n - 1)
               /\ HeaderLength + (x - room) \in HeaderLength..(HeaderLength + k - 1)
               /\ (HeaderLength + (x - room)) - HeaderLength + 1 = (x - room) + 1
               /\ (x - room) + 1 \in 1..k /\ room + ((x - room) + 1) = x + 1
    BY <2>11 DEF SplitAt
  <2>13. at..(L - 1) \subseteq Ring(L, at, 0, n)
    BY <2>11 DEF SplitAt
  <2>14. HeaderLength..(HeaderLength + k - 1) \subseteq Ring(L, at, 0, n)
    BY <2>11 DEF SplitAt
  <2>15. Touches(f, g, Ring(L, at, 0, n)) /\ Touches(f, h, Ring(L, at, 0, n))
    <3>1. Touches(f, g, Ring(L, at, 0, n))
      BY <2>9, <2>13, TouchesMore
    <3>2. Touches(f, h, Ring(L, at, 0, n) \cup (HeaderLength..(HeaderLength + k - 1)))
      BY <2>10, <3>1, TouchesTwice
    <3>3. Touches(f, h, Ring(L, at, 0, n))
      BY <2>14, <3>2, TouchesMore
    <3> QED
      BY <3>1, <3>3
  <2>16. Wrote(h, L, at, n, data)
    <3>1. ASSUME NEW x \in 0..(room - 1)
          PROVE  /\ Place(L, at, x) \in DOMAIN h.cells
                 /\ h.cells[Place(L, at, x)] = data[x + 1]
      <4>1. PICK y : y = at + x
        OBVIOUS
      <4>2. /\ Place(L, at, x) = y /\ y \in at..(L - 1) /\ y - at + 1 = x + 1
            /\ y \notin HeaderLength..(HeaderLength + k - 1) /\ x + 1 \in 1..room
        BY <2>12, <4>1
      <4>3. y \in DOMAIN g.cells /\ g.cells[y] = d1[x + 1]
        BY <2>9, <4>2
      <4>4. y \in DOMAIN h.cells /\ h.cells[y] = g.cells[y]
        BY <2>10, <4>2, <4>3 DEF Touches
      <4>5. d1[x + 1] = data[x + 1]
        BY <2>3, <4>2
      <4> QED
        BY <4>2, <4>3, <4>4, <4>5
    <3>2. ASSUME NEW x \in room..(n - 1)
          PROVE  /\ Place(L, at, x) \in DOMAIN h.cells
                 /\ h.cells[Place(L, at, x)] = data[x + 1]
      <4>1. PICK a, i : a = HeaderLength + (x - room) /\ i = (x - room) + 1
        OBVIOUS
      <4>2. a \in HeaderLength..(HeaderLength + k - 1) /\ a - HeaderLength + 1 = i
        BY <2>12, <4>1
      <4>5. a \in DOMAIN h.cells /\ h.cells[a] = d2[i]
        BY <2>10, <4>2
      <4>3. d2[i] = data[x + 1]
        BY <2>3, <2>12, <4>1
      <4> QED
        BY <2>12, <4>1, <4>3, <4>5
    <3>3. \A x \in 0..(n - 1) : x \in 0..(room - 1) \/ x \in room..(n - 1)
      BY <1>2
    <3> QED
      BY <3>1, <3>2, <3>3 DEF Wrote
  <2>17. Good(h, m, rest, failed, q, r)
    BY <2>15, <2>16 DEF GoodOnceWritten
  <2>18. Sound(g, m, << c2 >> \o rest, failed, q, r)
    <3>1. Safe(g, m, q) \/ Safe(g, m, r)
      BY <2>15 DEF SafeThroughout
    <3> QED
      BY <3>1, SoundSafe
  <2>19. Good(g, m, << c2 >> \o rest, failed, q, r)
    BY <2>8, <2>10, <2>17, <2>18, GoodCall
  <2>20. IsList(<< c2 >> \o rest)
    BY Cons
  <2>21. Sound(f, m, << c1 >> \o (<< c2 >> \o rest), failed, q, r)
    BY <1>4, <2>20, SoundSafe
  <2>22. Good(f, m, << c1 >> \o (<< c2 >> \o rest), failed, q, r)
    BY <2>8, <2>9, <2>19, <2>20, <2>21, GoodCall
  <2> QED
    BY <2>7, <2>22
<1> QED
  BY <1>5, <1>6

\* The file with another header, and with or without its commit file.
Committed(f, h, b) ==
    [exists |-> f.exists, commit |-> b, header |-> h, size |-> f.size, cells |-> f.cells]

LEMMA CommittedFacts ==
    ASSUME NEW f, IsFile(f), NEW h \in Headers, NEW b \in BOOLEAN
    PROVE  /\ IsFile(Committed(f, h, b))
           /\ Called(f, [call |-> "commit"]) = Committed(f, f.header, TRUE)
           /\ Called(Committed(f, f.header, b), SetHeader(h)) = Committed(f, h, b)
           /\ \A x : Called(Committed(f, h, b), Then("uncommit", x)) = Committed(f, h, FALSE)
           /\ Called(f, Synchronize) = f
           /\ \A x : Called(f, Then("sync", x)) = f
<1>1. f = [exists |-> f.exists, commit |-> f.commit, header |-> f.header,
           size |-> f.size, cells |-> f.cells]
  BY DEF IsFile
<1>2. IsFile(Committed(f, h, b))
  BY DEF IsFile, Committed
<1>3. Called(f, [call |-> "commit"]) = Committed(f, f.header, TRUE)
  <2>1. Called(f, [call |-> "commit"]) = [f EXCEPT !.commit = TRUE]
    BY DEF Called
  <2> QED
    BY <1>1, <2>1 DEF Committed
<1>4. Called(Committed(f, f.header, b), SetHeader(h)) = Committed(f, h, b)
  <2>1. PICK g : g = Committed(f, f.header, b)
    OBVIOUS
  <2>2. Called(g, SetHeader(h)) = [g EXCEPT !.header = h]
    BY DEF Called, SetHeader
  <2> QED
    BY <2>1, <2>2 DEF Committed
<1>5. ASSUME NEW x PROVE Called(Committed(f, h, b), Then("uncommit", x)) = Committed(f, h, FALSE)
  <2>1. PICK g : g = Committed(f, h, b)
    OBVIOUS
  <2>2. Called(g, Then("uncommit", x)) = [g EXCEPT !.commit = FALSE]
    BY DEF Called, Then
  <2> QED
    BY <2>1, <2>2 DEF Committed
<1>6. Called(f, Synchronize) = f
  BY DEF Called, Synchronize
<1>7. ASSUME NEW x PROVE Called(f, Then("sync", x)) = f
  BY DEF Called, Then
<1> QED
  BY <1>2, <1>3, <1>4, <1>5, <1>6, <1>7

LEMMA SafeCommitted ==
    ASSUME NEW f, NEW m, NEW q, Safe(f, m, q), NEW h \in Headers
    PROVE  Safe(Committed(f, h, TRUE), m, q)
<1>1. IsFile(f) /\ f.exists
  BY DEF Safe
<1>2. IsFile(Committed(f, h, TRUE))
  BY <1>1, CommittedFacts
<1> QED
  BY <1>1, <1>2 DEF Safe, Committed, Agree

LEMMA Effects ==
    ASSUME NEW m, NEW x, NEW h
    PROVE  /\ Effect(m, [call |-> "commit"]) = m /\ [call |-> "commit"].call = "commit"
           /\ Effect(m, SetHeader(h)) = m /\ SetHeader(h).call = "header"
           /\ Effect(m, Synchronize) = m /\ Synchronize.call = "sync"
           /\ Effect(m, Then("uncommit", x)) = x /\ Then("uncommit", x).call = "uncommit"
           /\ Effect(m, Then("sync", x)) = x /\ Then("sync", x).call = "sync"
  BY DEF Effect, SetHeader, Synchronize, Then

\* What writeHeader: may meet: q is safe, or the start of the ring is erased.
Writable(f, m, x, rest, q) ==
    \/ Safe(f, m, q)
    \/ Fragmented(m) /\ x.length > m.length /\ Plain(rest)

\* The last call of writeHeader:, from any file whose header is written.
LEMMA UncommitGood ==
    ASSUME NEW f, IsFile(f), f.exists, NEW m \in Memories, HeaderOf(m) \in Headers, NEW x, NEW h \in Headers,
           NEW rest, IsList(rest), NEW failed, NEW q, NEW r,
           Writable(f, m, x, rest, q),
           Good(Committed(f, h, FALSE), x, rest, failed, q, r),
           Good(Committed(f, h, TRUE), x, rest, TRUE, q, r)
    PROVE  Good(Committed(f, h, TRUE), m, << Then("uncommit", x) >> \o rest, failed, q, r)
<1>1. PICK c : c = Then("uncommit", x)
  OBVIOUS
<1>2. Effect(m, c) = x /\ c.call = "uncommit"
  BY <1>1, Effects
<1>3. PICK g : g = Committed(f, h, TRUE)
  OBVIOUS
<1>4. IsFile(g) /\ g.exists /\ Called(g, c) = Committed(f, h, FALSE)
  <2>1. IsFile(g)
    BY <1>3, CommittedFacts
  <2>2. Called(g, c) = Committed(f, h, FALSE)
    BY <1>1, <1>3, CommittedFacts
  <2>3. g.exists
    BY <1>3 DEF Committed
  <2> QED
    BY <2>1, <2>2, <2>3
<1>5. Sound(g, m, << c >> \o rest, failed, q, r)
  <2>1. CASE Safe(f, m, q)
    BY <1>3, <2>1, SafeCommitted, SoundSafe
  <2>2. CASE Fragmented(m) /\ x.length > m.length /\ Plain(rest)
    <3>1. HeadErased(m, << c >> \o rest)
      BY <1>2, <2>2, HeadErasedHere
    <3> QED
      BY <1>4, <3>1, SoundErased
  <2> QED
    BY <2>1, <2>2 DEF Writable
<1> QED
  BY <1>1, <1>2, <1>3, <1>4, <1>5, GoodCall

\* A call before it, which sets no field.
LEMMA CoveredCall ==
    ASSUME NEW g, IsFile(g), g.exists, NEW m \in Memories, HeaderOf(m) \in Headers, NEW s, IsList(s),
           NEW failed, NEW q, NEW r, Safe(g, m, q) \/ HeadErased(m, s),
           NEW c, c.call # "erase", c.call # "uncommit", Effect(m, c) = m,
           Good(Called(g, c), m, s, failed, q, r)
    PROVE  /\ Good(g, m, << c >> \o s, failed, q, r)
           /\ IsList(<< c >> \o s)
           /\ HeadErased(m, s) => HeadErased(m, << c >> \o s)
<1>1. HeadErased(m, s) => HeadErased(m, << c >> \o s)
  BY HeadErasedBefore
<1>2. Sound(g, m, << c >> \o s, failed, q, r)
  BY <1>1, SoundErased, SoundSafe
<1>3. Good(g, m, << c >> \o s, failed, q, r)
  BY <1>2, GoodCall
<1> QED
  BY <1>1, <1>3, Cons

\* writeHeader: as a whole: what is good afterwards was good before.
LEMMA WriteHeaderGood ==
    ASSUME NEW f, IsFile(f), f.exists, NEW m \in Memories, HeaderOf(m) \in Headers, NEW x,
           NEW length, NEW count, NEW first, NEW last, NEW h \in Headers,
           h = [length |-> length, count |-> count, first |-> first, last |-> last],
           NEW synchronize \in BOOLEAN,
           NEW rest, IsList(rest), NEW failed, NEW q, NEW r,
           Writable(f, m, x, rest, q),
           Good(Committed(f, h, FALSE), x, rest, failed, q, r),
           Good(Committed(f, h, TRUE), x, rest, TRUE, q, r)
    PROVE  /\ Good(f, m, WriteHeader(length, count, first, last, synchronize, x) \o rest,
                   failed, q, r)
           /\ IsList(WriteHeader(length, count, first, last, synchronize, x) \o rest)
<1>1. PICK c1, c2, c3, c4 : /\ c1 = [call |-> "commit"] /\ c2 = SetHeader(h)
                            /\ c3 = Synchronize /\ c4 = Then("uncommit", x)
  OBVIOUS
<1>2. /\ Effect(m, c1) = m /\ c1.call # "erase" /\ c1.call # "uncommit"
      /\ Effect(m, c2) = m /\ c2.call # "erase" /\ c2.call # "uncommit"
      /\ Effect(m, c3) = m /\ c3.call # "erase" /\ c3.call # "uncommit"
  BY <1>1, Effects
<1>3. PICK s4 : s4 = << c4 >> \o rest
  OBVIOUS
<1>4. PICK sync : sync = IF synchronize THEN << c3 >> ELSE << >>
  OBVIOUS
<1>5. PICK s3 : s3 = sync \o s4
  OBVIOUS
<1>6. IsList(s4) /\ IsList(sync) /\ IsList(s3)
  BY <1>3, <1>4, <1>5, Cons, Lists, Concat
<1>7. WriteHeader(length, count, first, last, synchronize, x) \o rest
        = << c1 >> \o (<< c2 >> \o s3)
  <2>1. WriteHeader(length, count, first, last, synchronize, x)
          = (<< c1, c2 >> \o sync) \o << c4 >>
    BY <1>1, <1>4 DEF WriteHeader
  <2>2. IsList(<< c1 >>) /\ IsList(<< c2 >>) /\ IsList(<< c4 >>) /\ << c1, c2 >> = << c1 >> \o << c2 >>
    BY Lists, Pair
  <2>3. IsList(<< c1, c2 >>)
    BY <2>2, Concat
  <2>4. IsList(<< c1, c2 >> \o sync)
    BY <1>6, <2>3, Concat
  <2>5. ((<< c1, c2 >> \o sync) \o << c4 >>) \o rest = (<< c1, c2 >> \o sync) \o s4
    BY <1>3, <2>2, <2>4, Associative, SMTT(30)
  <2>6. (<< c1, c2 >> \o sync) \o s4 = << c1, c2 >> \o s3
    <3>1. PICK pair : pair = << c1, c2 >>
      OBVIOUS
    <3>2. (pair \o sync) \o s4 = pair \o (sync \o s4)
      BY <1>6, <2>3, <3>1, Associative
    <3> QED
      BY <1>5, <3>1, <3>2
  <2>7. << c1, c2 >> \o s3 = << c1 >> \o (<< c2 >> \o s3)
    BY <1>6, <2>2, Associative
  <2> QED
    BY <2>1, <2>5, <2>6, <2>7
<1>8. PICK g, g0 : g = Committed(f, h, TRUE) /\ g0 = Committed(f, f.header, TRUE)
  OBVIOUS
<1>9. f.header \in Headers
  BY DEF IsFile
<1>10. Called(f, c1) = g0 /\ Called(g0, c2) = g
  BY <1>1, <1>8, CommittedFacts
<1>11. IsFile(g) /\ g.exists /\ IsFile(g0) /\ g0.exists /\ Called(g, c3) = g
  <2>1. IsFile(g) /\ IsFile(g0)
    BY <1>8, <1>9, CommittedFacts
  <2>2. g.exists /\ g0.exists
    BY <1>8 DEF Committed
  <2> QED
    BY <1>1, <2>1, <2>2, <1>9, CommittedFacts
<1>12. Good(g, m, s4, failed, q, r)
  BY <1>1, <1>3, <1>8, UncommitGood
<1>13. Safe(f, m, q) \/ HeadErased(m, s4)
  <2>1. Effect(m, c4) = x /\ c4.call # "erase"
    BY <1>1, Effects
  <2>2. CASE Fragmented(m) /\ x.length > m.length /\ Plain(rest)
    BY <1>3, <2>1, <2>2, HeadErasedHere
  <2> QED
    BY <2>2 DEF Writable
<1>14. Safe(f, m, q) => Safe(g, m, q) /\ Safe(g0, m, q)
  BY <1>8, <1>9, SafeCommitted
<1>15. Good(g, m, s3, failed, q, r) /\ (HeadErased(m, s4) => HeadErased(m, s3))
  <2>1. CASE synchronize
    <3>1. s3 = << c3 >> \o s4
      BY <1>4, <1>5, <2>1
    <3> QED
      BY <1>2, <1>6, <1>11, <1>12, <1>13, <1>14, <3>1, CoveredCall
  <2>2. CASE ~synchronize
    <3>1. s3 = s4
      BY <1>4, <1>5, <1>6, <2>2, Concat
    <3> QED
      BY <1>12, <3>1
  <2> QED
    BY <2>1, <2>2
<1>16. PICK s2 : s2 = << c2 >> \o s3
  OBVIOUS
<1>17. /\ Good(g0, m, s2, failed, q, r) /\ IsList(s2)
       /\ HeadErased(m, s3) => HeadErased(m, s2)
  BY <1>2, <1>6, <1>10, <1>11, <1>13, <1>14, <1>15, <1>16, CoveredCall
<1>18. Good(f, m, << c1 >> \o s2, failed, q, r) /\ IsList(<< c1 >> \o s2)
  BY <1>2, <1>10, <1>13, <1>15, <1>17, CoveredCall
<1> QED
  BY <1>7, <1>16, <1>18

\* Where it was long enough, a file of another length is the same.
LEMMA ResizedKeeps ==
    ASSUME NEW f, IsFile(f), NEW n \in Nat
    PROVE  /\ IsFile(Resized(f, n))
           /\ Resized(f, n).exists = f.exists /\ Resized(f, n).commit = f.commit
           /\ Resized(f, n).header = f.header
           /\ \A a \in DOMAIN f.cells :
                 a < n => /\ a \in DOMAIN Resized(f, n).cells
                          /\ Resized(f, n).cells[a] = f.cells[a]
<1>1. PICK g : g = Resized(f, n)
  OBVIOUS
<1>2. /\ IsFile(g)
      /\ g.exists = f.exists /\ g.commit = f.commit /\ g.header = f.header
      /\ g.size = n
      /\ g.cells = [p \in HeaderLength..(n - 1) |-> IF p < f.size THEN f.cells[p] ELSE Zero]
  BY <1>1, ResizedFacts
<1>3. ASSUME NEW a \in DOMAIN f.cells, a < n
      PROVE a \in DOMAIN g.cells /\ g.cells[a] = f.cells[a]
  <2>1. a \in HeaderLength..(f.size - 1) /\ f.size \in Nat
    BY DEF IsFile
  <2>2. a \in HeaderLength..(n - 1) /\ a < f.size
    BY <1>3, <2>1, Lengths
  <2> QED
    BY <1>2, <2>2
<1> QED
  BY <1>1, <1>2, <1>3

-----------------------------------------------------------------------------
(* Clearing the queue *)

NoneLeft(m) == [m EXCEPT !.count = 0, !.first = NoElement, !.last = NoElement]

FirstHeader == [length |-> InitialLength, count |-> 0, first |-> 0, last |-> 0]

LEMMA NoneLeftFacts ==
    ASSUME NEW m \in Memories
    PROVE  /\ NoneLeft(m) \in Memories
           /\ NoneLeft(m).length = m.length
           /\ [NoneLeft(m) EXCEPT !.length = InitialLength] \in Memories
           /\ HeaderOf([NoneLeft(m) EXCEPT !.length = InitialLength]) = FirstHeader
           /\ FirstHeader \in Headers
           /\ m.length \in Nat /\ InitialLength <= m.length
           /\ \A cells : MemoryHolds(NoneLeft(m), cells, << >>)
           /\ \A cells : MemoryHolds([NoneLeft(m) EXCEPT !.length = InitialLength], cells, << >>)
           /\ NoneLeft(m).count = 0
<1>1. PICK e, x : e = NoneLeft(m) /\ x = [e EXCEPT !.length = InitialLength]
  OBVIOUS
<1>2. NoElement \in Spots /\ NoElement.at = 0 /\ NoElement.length = 0
  BY DEF NoElement, Spots
<1>3. /\ e = [length |-> m.length, count |-> 0, first |-> NoElement, last |-> NoElement]
      /\ m.length \in InitialLength..MaxLength
  BY <1>1 DEF NoneLeft, Memories
<1>4. x = [length |-> InitialLength, count |-> 0, first |-> NoElement, last |-> NoElement]
  BY <1>1, <1>3
<1>5. InitialLength \in InitialLength..MaxLength
  BY Lengths
<1>6. e \in Memories /\ x \in Memories
  BY <1>2, <1>3, <1>4, <1>5 DEF Memories
<1>7. HeaderOf(x) = FirstHeader
  BY <1>2, <1>4 DEF HeaderOf, FirstHeader
<1>8. FirstHeader \in Headers
  BY <1>5, Lengths DEF FirstHeader, Headers
<1>9. Len(<< >>) = 0
  OBVIOUS
<1>10. ASSUME NEW cells PROVE MemoryHolds(e, cells, << >>) /\ MemoryHolds(x, cells, << >>)
  BY <1>2, <1>3, <1>4, <1>9 DEF MemoryHolds, HeaderHolds, HeaderOf
<1>11. m.length \in Nat /\ InitialLength <= m.length
  BY <1>3, Lengths
<1> QED
  BY <1>1, <1>3, <1>6, <1>7, <1>8, <1>10, <1>11

LEMMA ZerosIs ==
    ASSUME NEW n \in Nat
    PROVE  IsData(Zeros(n), n)
<1>1. Zero \in Cells
  BY DEF Cells
<1> QED
  BY <1>1 DEF IsData, Zeros

LEMMA PairIsList ==
    ASSUME NEW a, NEW b
    PROVE  IsList(<< a, b >>)
<1>1. << a, b >> \in Seq({a, b})
  OBVIOUS
<1> QED
  BY <1>1 DEF IsList

\* The header of an empty queue is written, nothing else matters.
Cleared(g, failed) ==
    /\ IsFile(g) /\ g.exists /\ g.header = FirstHeader
    /\ failed \/ ~g.commit

LEMMA ClearedSafe ==
    ASSUME NEW g, NEW failed, Cleared(g, failed), NEW m \in Memories
    PROVE  /\ Safe(g, NoneLeft(m), << >>)
           /\ Safe(g, [NoneLeft(m) EXCEPT !.length = InitialLength], << >>)
<1>1. << >> \in Seq(Datas)
  OBVIOUS
<1>2. PICK e, x : e = NoneLeft(m) /\ x = [e EXCEPT !.length = InitialLength]
  OBVIOUS
<1>3. /\ e \in Memories /\ x \in Memories /\ e.count = 0
      /\ HeaderOf(x) = FirstHeader
      /\ MemoryHolds(e, g.cells, << >>) /\ MemoryHolds(x, g.cells, << >>)
  BY <1>2, NoneLeftFacts
<1>4. Empty(g.header)
  BY DEF Cleared, Empty, FirstHeader
<1>5. Agree(g, e) /\ Agree(g, x)
  BY <1>3, <1>4 DEF Agree, Cleared
<1> QED
  BY <1>1, <1>2, <1>3, <1>5 DEF Safe, Cleared

LEMMA ClearGood ==
    ASSUME NEW f, NEW m, NEW q, Safe(f, m, q), NEW failed \in BOOLEAN
    PROVE  Good(f, m, Clear(m), failed, q, << >>)
<1>1. m \in Memories /\ IsFile(f) /\ f.exists /\ HeaderOf(m) \in Headers
  BY SafePlaced DEF Safe
<1>2. PICK e, x : e = NoneLeft(m) /\ x = [e EXCEPT !.length = InitialLength]
  OBVIOUS
<1>3. /\ e \in Memories /\ x \in Memories
      /\ m.length \in Nat /\ InitialLength <= m.length
      /\ HeaderOf(x) = FirstHeader /\ FirstHeader \in Headers
  BY <1>1, <1>2, NoneLeftFacts
<1>4. PICK c : c = Then("sync", x)
  OBVIOUS
<1>5. PICK cut : cut = IF m.length > InitialLength THEN << SetLength(InitialLength) >> ELSE << >>
  OBVIOUS
<1>6. PICK zeros, n : n = InitialLength - HeaderLength /\ zeros = Zeros(n)
  OBVIOUS
<1>7. /\ n \in Nat /\ n <= m.length - HeaderLength /\ IsData(zeros, n)
      /\ HeaderLength \in HeaderLength..(m.length - 1)
      /\ WrapPosition(m.length, HeaderLength) = HeaderLength
  <2>1. n \in Nat /\ n <= m.length - HeaderLength /\ HeaderLength \in HeaderLength..(m.length - 1)
    BY <1>3, <1>6, Lengths
  <2> QED
    BY <1>3, <1>6, <2>1, ZerosIs, PlaceHere
<1>8. PICK write : write = RingWrite(m.length, HeaderLength, zeros)
  OBVIOUS
<1>9. PICK header : header = WriteHeader(InitialLength, 0, 0, 0, FALSE, e)
  OBVIOUS
<1>10. IsList(<< c >>) /\ IsList(cut) /\ IsList(write) /\ IsList(header)
  <2>1. IsList(write)
    BY <1>8, PairIsList, Lists DEF RingWrite
  <2>2. IsList(header)
    <3>1. PICK a, b, d : header = (<< a, b >> \o << >>) \o << d >>
      BY <1>9 DEF WriteHeader
    <3>2. IsList(<< a, b >>) /\ IsList(<< >>) /\ IsList(<< d >>)
      BY PairIsList, Lists
    <3>3. IsList(<< a, b >> \o << >>)
      BY <3>2, Concat
    <3> QED
      BY <3>1, <3>2, <3>3, Concat
  <2> QED
    BY <1>5, <2>1, <2>2, Lists
<1>11. IsList(cut \o << c >>) /\ IsList(write \o (cut \o << c >>))
  BY <1>10, Concat
<1>12. Clear(m) = header \o (write \o (cut \o << c >>))
  <2>1. Clear(m) = ((header \o write) \o cut) \o << c >>
    BY <1>2, <1>4, <1>5, <1>6, <1>8, <1>9 DEF Clear, NoneLeft
  <2>2. IsList(header \o write)
    BY <1>10, Concat
  <2>3. ((header \o write) \o cut) \o << c >> = (header \o write) \o (cut \o << c >>)
    BY <1>10, <2>2, Associative, SMTT(30)
  <2>5. PICK end : end = cut \o << c >>
    OBVIOUS
  <2>6. (header \o write) \o end = header \o (write \o end)
    <3>1. IsList(end) /\ IsList(header) /\ IsList(write)
      BY <1>10, <1>11, <2>5
    <3> QED
      BY <3>1, Associative
  <2> QED
    BY <2>1, <2>3, <2>5, <2>6
<1>13. ASSUME NEW g, NEW b \in BOOLEAN, Cleared(g, b)
       PROVE  Good(g, e, << c >>, b, q, << >>)
  <2>1. Safe(g, e, << >>) /\ Safe(g, x, << >>)
    BY <1>1, <1>2, <1>13, ClearedSafe
  <2>2. Called(g, c) = g /\ Effect(e, c) = x /\ c.call = "sync"
    <3>1. IsFile(g)
      BY <1>13 DEF Cleared
    <3> QED
      BY <1>3, <1>4, <3>1, CommittedFacts, Effects, ZenonT(40)
  <2>3. b \/ (~g.commit /\ g.header = HeaderOf(x))
    BY <1>3, <1>13 DEF Cleared
  <2>4. Good(g, x, << >>, b, q, << >>)
    BY <2>1, <2>3, GoodEnd
  <2>5. << c >> \o << >> = << c >> /\ IsList(<< >>)
    BY Lists, Concat
  <2>6. Sound(g, e, << c >> \o << >>, b, q, << >>)
    BY <2>1, <2>5, SoundSafe
  <2>7. Good(g, e, << c >> \o << >>, b, q, << >>)
    BY <2>2, <2>4, <2>5, <2>6, GoodCall
  <2> QED
    BY <2>5, <2>7
<1>14. ASSUME NEW g, NEW b \in BOOLEAN, Cleared(g, b)
       PROVE  Good(g, e, cut \o << c >>, b, q, << >>)
  <2>1. CASE m.length > InitialLength
    <3>1. PICK s : s = SetLength(InitialLength)
      OBVIOUS
    <3>2. Called(g, s) = Resized(g, InitialLength) /\ Effect(e, s) = e /\ s.call # "uncommit"
      BY <3>1 DEF SetLength, Called, Effect
    <3>3. PICK k : k = Called(g, s)
      OBVIOUS
    <3>4. Cleared(k, b)
      <4>1. IsFile(g) /\ InitialLength \in Nat
        BY <1>14, Lengths DEF Cleared
      <4>2. IsFile(k) /\ k.exists = g.exists /\ k.commit = g.commit /\ k.header = g.header
        <5>1. k = Resized(g, InitialLength)
          BY <3>2, <3>3
        <5> QED
          BY <4>1, <5>1, ResizedKeeps
      <4> QED
        BY <1>14, <4>2 DEF Cleared
    <3>5. Good(k, e, << c >>, b, q, << >>)
      BY <1>13, <3>4
    <3>6. Safe(g, e, << >>)
      BY <1>1, <1>2, <1>14, ClearedSafe
    <3>7. Sound(g, e, << s >> \o << c >>, b, q, << >>)
      BY <1>10, <3>6, SoundSafe
    <3>8. Good(g, e, << s >> \o << c >>, b, q, << >>)
      BY <1>10, <3>2, <3>3, <3>5, <3>7, GoodCall
    <3> QED
      BY <1>5, <2>1, <3>1, <3>8
  <2>2. CASE ~(m.length > InitialLength)
    <3>1. cut \o << c >> = << c >>
      BY <1>5, <1>10, <2>2, Concat
    <3> QED
      BY <1>13, <1>14, <3>1
  <2> QED
    BY <2>1, <2>2
<1>15. ASSUME NEW g, NEW b \in BOOLEAN, Cleared(g, b)
       PROVE  Good(g, e, write \o (cut \o << c >>), b, q, << >>)
  <2>1. PICK A : A = Ring(m.length, HeaderLength, 0, n)
    OBVIOUS
  <2>2. ASSUME NEW k, Touches(g, k, A) PROVE Cleared(k, b)
    BY <1>15, <2>2 DEF Touches, Cleared
  <2>3. SafeThroughout(g, A, e, q, << >>)
    BY <1>1, <1>2, <2>2, ClearedSafe DEF SafeThroughout
  <2>4. GoodOnceWritten(g, m.length, HeaderLength, n, zeros, e, cut \o << c >>, b, q, << >>)
    BY <1>14, <2>1, <2>2 DEF GoodOnceWritten
  <2>5. IsFile(g)
    BY <1>15 DEF Cleared
  <2> QED
    BY <1>3, <1>7, <1>8, <1>11, <2>1, <2>3, <2>4, <2>5, RingWriteGood
<1>16. PICK rest : rest = write \o (cut \o << c >>)
  OBVIOUS
<1>17. /\ Cleared(Committed(f, FirstHeader, FALSE), failed)
       /\ Cleared(Committed(f, FirstHeader, TRUE), TRUE)
  <2>1. /\ IsFile(Committed(f, FirstHeader, FALSE))
        /\ IsFile(Committed(f, FirstHeader, TRUE))
    BY <1>1, <1>3, CommittedFacts
  <2> QED
    BY <1>1, <2>1 DEF Cleared, Committed
<1>18. /\ Good(Committed(f, FirstHeader, FALSE), e, rest, failed, q, << >>)
       /\ Good(Committed(f, FirstHeader, TRUE), e, rest, TRUE, q, << >>)
  BY <1>15, <1>16, <1>17
<1>19. Writable(f, m, e, rest, q)
  BY DEF Writable
<1>20. Good(f, m, header \o rest, failed, q, << >>)
  BY <1>1, <1>3, <1>9, <1>11, <1>16, <1>18, <1>19, WriteHeaderGood DEF FirstHeader
<1> QED
  BY <1>12, <1>16, <1>20

-----------------------------------------------------------------------------
(* Removing the first elements *)

\* The offsets of what is left when the first k elements are gone.
LeftOffsets(off, n, k) == [i \in 0..(n - k) |-> off[k + i] - off[k]]

IsLeft(q, off, n, k, r, left) ==
    /\ r \in Seq(Datas) /\ Len(r) = n - k
    /\ \A i \in 1..(n - k) : r[i] = q[k + i]
    /\ left \in Offsets(r)
    /\ \A i \in 0..(n - k) : left[i] = off[k + i] - off[k] /\ off[k] + left[i] = off[k + i]

Further(x, y, c) == x = y + ElementHeaderLength + c

LEMMA Difference ==
    ASSUME NEW a \in Nat, NEW b \in Nat, NEW c \in Nat, NEW d \in Nat,
           Further(a, b, c)
    PROVE  Further(a - d, b - d, c)
  BY Lengths DEF Further

LEMMA LeftFacts ==
    ASSUME NEW q \in Seq(Datas), NEW off \in Offsets(q), NEW n, n = Len(q), NEW k \in 0..n,
           NEW r, r = SubSeq(q, k + 1, n), NEW left, left = LeftOffsets(off, n, k)
    PROVE  IsLeft(q, off, n, k, r, left)
<1>1. /\ n \in Nat /\ DOMAIN q = 1..n
      /\ off \in [0..n -> Nat] /\ off[0] = 0
      /\ \A i \in 1..n : /\ q[i] \in Datas /\ i - 1 \in 0..n /\ Len(q[i]) \in Nat
                         /\ off[i] = off[i - 1] + ElementHeaderLength + Len(q[i])
      /\ \A i, j \in 0..n : i <= j => off[i] <= off[j]
  BY OffsetsFacts
<1>2. /\ r \in Seq(Datas) /\ Len(r) = n - k
      /\ \A i \in 1..(n - k) : r[i] = q[k + i]
  <2>1. CASE k = 0
    <3>1. k + 1 = 1 /\ n - k = n /\ \A i \in 1..n : k + i = i
      BY <1>1, <2>1
    <3>2. r = q
      BY <1>1, <3>1, SubSeqFull
    <3> QED
      BY <3>1, <3>2
  <2>2. CASE k # 0
    <3>1. k \in 1..Len(q)
      BY <1>1, <2>2
    <3> QED
      BY <3>1, Pieces
  <2> QED
    BY <2>1, <2>2
<1>3. ASSUME NEW i \in 0..(n - k)
      PROVE  /\ left[i] \in Nat /\ left[i] = off[k + i] - off[k] /\ off[k] + left[i] = off[k + i]
             /\ k + i \in 0..n
  <2>1. k + i \in 0..n /\ k \in 0..n /\ k <= k + i
    BY <1>1
  <2>2. off[k + i] \in Nat /\ off[k] \in Nat /\ off[k] <= off[k + i]
    BY <1>1, <2>1
  <2>3. left[i] = off[k + i] - off[k]
    BY DEF LeftOffsets
  <2> QED
    BY <2>1, <2>2, <2>3
<1>4. left \in [0..(n - k) -> Nat]
  <2>1. left = [i \in 0..(n - k) |-> left[i]]
    BY DEF LeftOffsets
  <2> QED
    BY <1>3, <2>1
<1>5. left[0] = 0
  <2>1. 0 \in 0..(n - k) /\ k + 0 = k /\ off[k] \in Nat
    BY <1>1, SMTT(30)
  <2> QED
    BY <1>3, <2>1
<1>6. ASSUME NEW i \in 1..(n - k)
      PROVE  left[i] = left[i - 1] + ElementHeaderLength + Len(r[i])
  <2>1. /\ i \in 0..(n - k) /\ i - 1 \in 0..(n - k) /\ k + i \in 1..n
        /\ (k + i) - 1 = k + (i - 1)
    BY <1>1
  <2>2. PICK a \in Nat, b \in Nat, c \in Nat, d \in Nat :
          /\ a = off[k + i] /\ b = off[k + (i - 1)] /\ c = Len(q[k + i]) /\ d = off[k]
          /\ a = b + ElementHeaderLength + c
    <3>1. k + (i - 1) \in 0..n /\ k + i \in 0..n /\ k \in 0..n
      BY <1>3, <2>1
    <3>2. off[k + i] \in Nat /\ off[k + (i - 1)] \in Nat /\ off[k] \in Nat
      BY <1>1, <3>1
    <3>3. off[k + i] = off[k + (i - 1)] + ElementHeaderLength + Len(q[k + i])
          /\ Len(q[k + i]) \in Nat
      BY <1>1, <2>1
    <3> QED
      BY <3>2, <3>3
  <2>3. left[i] = a - d /\ left[i - 1] = b - d /\ Len(r[i]) = c
    BY <1>2, <1>3, <2>1, <2>2
  <2>4. left[i] = left[i - 1] + ElementHeaderLength + c
    <3>1. Further(a, b, c)
      BY <2>2 DEF Further
    <3>2. Further(a - d, b - d, c)
      BY <2>2, <3>1, Difference, Zenon
    <3> QED
      BY <2>3, <3>2 DEF Further
  <2> QED
    BY <2>3, <2>4
<1>7. left \in Offsets(r)
  BY <1>2, <1>4, <1>5, <1>6 DEF Offsets
<1> QED
  BY <1>2, <1>3, <1>7 DEF IsLeft

\* The ring of what is left begins where the first of it did.
LEMMA RingLeft ==
    ASSUME NEW cells, NEW L \in Nat, NEW p, NEW q \in Seq(Datas), NEW off,
           RingHolds(cells, L, p, q, off), NEW n, n = Len(q), NEW k \in 0..(n - 1),
           NEW r, r = SubSeq(q, k + 1, n), NEW left, left = LeftOffsets(off, n, k)
    PROVE  RingHolds(cells, L, Place(L, p, off[k]), r, left)
<1>1. off \in Offsets(q) /\ p \in HeaderLength..(L - 1) /\ off[n] <= L - HeaderLength
  BY DEF RingHolds
<1>2. /\ n \in Nat /\ off \in [0..n -> Nat] /\ k \in 0..n /\ n - k \in 0..(n - k)
      /\ k + (n - k) = n
      /\ \A i \in 1..n : Len(q[i]) \in Nat /\ off[i] = off[i - 1] + ElementHeaderLength + Len(q[i])
      /\ \A i, j \in 0..n : i <= j => off[i] <= off[j]
  BY <1>1, OffsetsFacts
<1>3. /\ r \in Seq(Datas) /\ Len(r) = n - k
      /\ \A i \in 1..(n - k) : r[i] = q[k + i]
      /\ left \in Offsets(r)
      /\ \A i \in 0..(n - k) : left[i] = off[k + i] - off[k] /\ off[k] + left[i] = off[k + i]
  <2>1. IsLeft(q, off, n, k, r, left)
    BY <1>1, <1>2, LeftFacts
  <2> QED
    BY <2>1 DEF IsLeft
<1>4. PICK d \in Nat : d = off[k]
  BY <1>2
<1>5. PICK t \in Nat : t = off[n] /\ t <= L - HeaderLength /\ d <= t
  <2>1. n \in 0..n /\ k <= n
    BY <1>2
  <2> QED
    BY <1>1, <1>2, <1>4, <2>1
<1>6. PICK P : P = Place(L, p, d)
  OBVIOUS
<1>7. P \in HeaderLength..(L - 1)
  <2>1. d \in 0..(L - HeaderLength)
    BY <1>5, Lengths
  <2> QED
    BY <1>1, <1>6, <2>1, PlaceRange
<1>8. left[Len(r)] <= L - HeaderLength
  <2>1. PICK z : z = left[n - k] /\ z = t - d
    BY <1>2, <1>3, <1>4, <1>5
  <2>2. z <= L - HeaderLength
    <3>1. t \in Nat /\ d \in Nat /\ t <= L - HeaderLength
      BY <1>4, <1>5
    <3> QED
      BY <2>1, <3>1, Lengths
  <2> QED
    BY <1>3, <2>1, <2>2
<1>9. ASSUME NEW i \in 1..Len(r), NEW y \in 0..(ElementHeaderLength + Len(r[i]) - 1)
      PROVE  /\ Place(L, P, left[i - 1] + y) \in DOMAIN cells
             /\ cells[Place(L, P, left[i - 1] + y)] = CellOf(r[i], y)
  <2>1. i \in 1..(n - k) /\ k + i \in 1..n /\ (k + i) - 1 = k + (i - 1)
        /\ i - 1 \in 0..(n - k) /\ k + (i - 1) \in 0..n /\ k + i \in 0..n
    BY <1>2, <1>3
  <2>2. r[i] = q[k + i]
    BY <1>3, <2>1
  <2>3. PICK o \in Nat, l \in Nat, c \in Nat :
          /\ o = off[k + (i - 1)] /\ l = left[i - 1] /\ c = Len(q[k + i])
          /\ d + l = o /\ o + ElementHeaderLength + c <= t
    <3>1. d + left[i - 1] = off[k + (i - 1)]
      BY <1>3, <1>4, <2>1
    <3>2. left[i - 1] \in Nat
      BY <1>3, <2>1 DEF Offsets
    <3>3. off[k + i] <= off[n]
      BY <1>2, <2>1
    <3>4. off[k + i] = off[k + (i - 1)] + ElementHeaderLength + Len(q[k + i])
          /\ Len(q[k + i]) \in Nat /\ off[k + (i - 1)] \in Nat
      BY <1>2, <2>1
    <3> QED
      BY <1>5, <3>1, <3>2, <3>3, <3>4
  <2>4. y \in 0..(ElementHeaderLength + Len(q[k + i]) - 1)
    BY <2>2
  <2>5. y \in Nat /\ y < ElementHeaderLength + c
    <3>1. y \in 0..(ElementHeaderLength + c - 1)
      BY <2>3, <2>4
    <3> QED
      BY <2>3, <3>1, Lengths
  <2>6. (l + y) + d <= L - HeaderLength /\ l + y \in Nat /\ d + (l + y) = o + y
    <3>1. o \in Nat /\ c \in Nat /\ l \in Nat /\ d + l = o /\ o + ElementHeaderLength + c <= t
      BY <2>3
    <3> QED
      BY <1>5, <2>5, <3>1, Lengths
  <2>7. Place(L, P, l + y) = Place(L, p, d + (l + y))
    BY <1>1, <1>6, <2>6, PlaceTwice
  <2>8. Place(L, P, l + y) = Place(L, p, off[(k + i) - 1] + y)
    BY <2>1, <2>3, <2>6, <2>7
  <2>9. /\ Place(L, p, off[(k + i) - 1] + y) \in DOMAIN cells
        /\ cells[Place(L, p, off[(k + i) - 1] + y)] = CellOf(q[k + i], y)
    <3>1. k + i \in 1..Len(q)
      BY <2>1
    <3> QED
      BY <2>4, <3>1 DEF RingHolds
  <2> QED
    BY <2>2, <2>3, <2>8, <2>9
<1>10. RingHolds(cells, L, P, r, left)
  BY <1>3, <1>7, <1>8, <1>9 DEF RingHolds
<1> QED
  BY <1>4, <1>6, <1>10

\* The element that a pop leads to.
LEMMA NthIs ==
    ASSUME NEW m \in Memories, NEW cells, NEW q \in Seq(Datas), q # << >>, NEW off,
           MemoryAt(m, cells, q, off), NEW k \in 0..(Len(q) - 1)
    PROVE  Nth(m, cells, k) = [at |-> Place(m.length, m.first.at, off[k]), length |-> Len(q[k + 1])]
<1>1. PICK L, p : L = m.length /\ p = m.first.at /\ L \in Nat
  BY Lengths DEF Memories
<1>2. RingHolds(cells, L, p, q, off) /\ m.first.length = Len(q[1])
  BY <1>1 DEF MemoryAt
<1>3. off \in Offsets(q) /\ p \in HeaderLength..(L - 1)
  BY <1>2 DEF RingHolds
<1>4. \A i \in 1..Len(q) : ReadsAs(cells, L, Place(L, p, off[i - 1]), q[i], Place(L, p, off[i]))
  BY <1>1, <1>2, ReadHere, Zenon
<1>5. m.first = [at |-> p, length |-> Len(q[1])]
  BY <1>1, <1>2 DEF Memories, Spots
<1>6. CASE k = 0
  <2>1. Nth(m, cells, k) = m.first /\ q[k + 1] = q[1]
    BY <1>6 DEF Nth
  <2>2. Place(L, p, off[k]) = p
    BY <1>3, <1>6, OffsetsFacts, PlaceHere, SMTT(30)
  <2> QED
    BY <1>1, <1>5, <2>1, <2>2
<1>7. CASE k # 0
  <2>1. Nth(m, cells, k) = ReadElement(cells, L, Behind(cells, L, NextPosition(L, m.first), k - 1))
    BY <1>1, <1>7 DEF Nth
  <2>2. NextPosition(L, m.first) = Place(L, p, off[1])
    <3>1. 1 \in 1..Len(q) /\ 1 - 1 = 0
      BY <1>7
    <3>2. ReadsAs(cells, L, Place(L, p, off[0]), q[1], Place(L, p, off[1]))
      BY <1>4, <3>1
    <3>3. Place(L, p, off[0]) = p
      BY <1>1, <1>3, OffsetsFacts, PlaceHere
    <3> QED
      BY <1>5, <3>2, <3>3 DEF ReadsAs
  <2>3. Behind(cells, L, Place(L, p, off[1]), k - 1) = Place(L, p, off[k])
    <3>1. PICK z \in 0..Len(q) : z = 1 /\ k - 1 \in 0..(Len(q) - z) /\ z + (k - 1) = k
      BY <1>7
    <3>2. LeadsOn(cells, L, p, q, off, z)
      BY <1>1, <1>2, BehindHere, Zenon
    <3> QED
      BY <3>1, <3>2 DEF LeadsOn
  <2>4. ReadsAs(cells, L, Place(L, p, off[k]), q[k + 1], Place(L, p, off[k + 1]))
    <3>1. k + 1 \in 1..Len(q) /\ (k + 1) - 1 = k
      OBVIOUS
    <3> QED
      BY <1>4, <3>1
  <2> QED
    BY <1>1, <2>1, <2>2, <2>3, <2>4 DEF ReadsAs
<1> QED
  BY <1>6, <1>7

\* Such are the sums of the lengths that a loop adds up.
Sums(lengths, n, off) ==
    /\ off \in [0..n -> Nat] /\ off[0] = 0
    /\ \A i \in 1..n : off[i] = off[i - 1] + ElementHeaderLength + lengths[i]

LEMMA TakenSums ==
    ASSUME NEW n \in Nat, NEW lengths, NEW off, Sums(lengths, n, off)
    PROVE  Taken(lengths, n) = off[n]
  BY TakenIs DEF Sums

\* The fields and the elements once the first k elements are popped.
Popped(m, cells, k) == [m EXCEPT !.count = m.count - k, !.first = Nth(m, cells, k)]

IsPopped(m, cells, q, off, k, x, r, left) ==
    /\ x \in Memories /\ HeaderOf(x) \in Headers
    /\ HeaderOf(x) = [length |-> m.length, count |-> m.count - k,
                      first |-> Nth(m, cells, k).at, last |-> m.last.at]
    /\ x.length = m.length
    /\ r \in Seq(Datas) /\ r # << >>
    /\ MemoryAt(x, cells, r, left)
    /\ Ring(x.length, x.first.at, 0, left[Len(r)]) \cap Ring(m.length, m.first.at, 0, off[k]) = {}
    /\ off[k] \in Nat /\ off[k] <= m.length - HeaderLength
    /\ m.first.at \in HeaderLength..(m.length - 1)
    /\ Taken([i \in 1..k |-> Nth(m, cells, i - 1).length], k) = off[k]

LEMMA PoppedFacts ==
    ASSUME NEW m \in Memories, NEW cells, NEW q \in Seq(Datas), q # << >>, NEW off,
           MemoryAt(m, cells, q, off), NEW n, n = Len(q), NEW k \in 1..(n - 1)
    PROVE  IsPopped(m, cells, q, off, k, Popped(m, cells, k), SubSeq(q, k + 1, n),
                    LeftOffsets(off, n, k))
<1>1. PICK L, p, x, r, left : /\ L = m.length /\ p = m.first.at /\ x = Popped(m, cells, k)
                              /\ r = SubSeq(q, k + 1, n) /\ left = LeftOffsets(off, n, k)
  OBVIOUS
<1>2. /\ L \in Nat /\ p \in Nat /\ L \in InitialLength..MaxLength
      /\ RingHolds(cells, L, p, q, off) /\ off \in Offsets(q)
      /\ p \in HeaderLength..(L - 1) /\ off[n] <= L - HeaderLength
      /\ m.count = n
  BY <1>1, Lengths, SMTT(30) DEF MemoryAt, RingHolds, Memories
<1>3. /\ n \in Nat /\ k \in 0..(n - 1) /\ k \in 0..n /\ n - k >= 1 /\ n - k \in Nat
      /\ off \in [0..n -> Nat] /\ off[0] = 0
      /\ \A i \in 1..n : /\ Len(q[i]) \in Nat
                         /\ off[i] = off[i - 1] + ElementHeaderLength + Len(q[i])
      /\ \A i, j \in 0..n : i <= j => off[i] <= off[j]
  BY <1>2, OffsetsFacts, SMTT(30)
<1>4. /\ r \in Seq(Datas) /\ Len(r) = n - k
      /\ \A i \in 1..(n - k) : r[i] = q[k + i]
      /\ left \in Offsets(r)
      /\ \A i \in 0..(n - k) : left[i] = off[k + i] - off[k] /\ off[k] + left[i] = off[k + i]
  <2>1. IsLeft(q, off, n, k, r, left)
    BY <1>1, <1>2, <1>3, LeftFacts
  <2> QED
    BY <2>1 DEF IsLeft
<1>5. PICK d \in Nat, t \in Nat : d = off[k] /\ t = off[n] /\ d <= t /\ t <= L - HeaderLength
  <2>1. k <= n /\ n \in 0..n
    BY <1>3
  <2>2. off[k] \in Nat /\ off[n] \in Nat /\ off[k] <= off[n]
    BY <1>3, <2>1
  <2> QED
    BY <1>2, <2>2
<1>6. PICK P : P = Place(L, p, d)
  OBVIOUS
<1>7. P \in HeaderLength..(L - 1) /\ P \in Nat
  <2>1. d \in 0..(L - HeaderLength)
    BY <1>2, <1>5, Lengths
  <2>2. P \in HeaderLength..(L - 1)
    BY <1>2, <1>6, <2>1, PlaceRange
  <2> QED
    BY <2>2, Lengths
<1>8. \A j \in 0..(n - 1) : Nth(m, cells, j) = [at |-> Place(L, p, off[j]), length |-> Len(q[j + 1])]
  BY <1>1, NthIs
<1>9. /\ Nth(m, cells, k) = [at |-> P, length |-> Len(q[k + 1])]
      /\ Len(q[k + 1]) \in Nat
  <2>1. k + 1 \in 1..n
    BY <1>3
  <2> QED
    BY <1>3, <1>5, <1>6, <1>8, <2>1
<1>10. Taken([i \in 1..k |-> Nth(m, cells, i - 1).length], k) = d
  <2>1. PICK lengths : lengths = [i \in 1..k |-> Nth(m, cells, i - 1).length]
    OBVIOUS
  <2>2. PICK o : o = [i \in 0..k |-> off[i]]
    OBVIOUS
  <2>3. /\ k \in Nat /\ o \in [0..k -> Nat] /\ o[0] = 0 /\ o[k] = d
        /\ \A i \in 1..k : o[i] = off[i] /\ o[i - 1] = off[i - 1] /\ i \in 1..n
    <3>1. k \in Nat /\ k \in 0..k /\ 0 \in 0..k
      BY <1>3
    <3>2. \A i \in 0..k : i \in 0..n /\ o[i] = off[i] /\ off[i] \in Nat
      <4>1. 0..k \subseteq 0..n
        BY <1>3
      <4>2. \A i \in 0..k : o[i] = off[i]
        BY <2>2
      <4>3. \A i \in 0..n : off[i] \in Nat
        BY <1>3
      <4> QED
        BY <4>1, <4>2, <4>3
    <3>3. \A i \in 1..k : i \in 0..k /\ i - 1 \in 0..k /\ i \in 1..n
      BY <1>3
    <3>4. o \in [0..k -> Nat]
      BY <2>2, <3>2
    <3> QED
      BY <1>3, <1>5, <3>1, <3>2, <3>3, <3>4
  <2>4. ASSUME NEW i \in 1..k PROVE o[i] = o[i - 1] + ElementHeaderLength + lengths[i]
    <3>1. lengths[i] = Len(q[i])
      <4>1. i - 1 \in 0..(n - 1) /\ (i - 1) + 1 = i
        BY <1>3
      <4>2. Nth(m, cells, i - 1).length = Len(q[i])
        BY <1>8, <4>1
      <4> QED
        BY <2>1, <4>2
    <3> QED
      BY <1>3, <2>3, <3>1
  <2>5. Taken(lengths, k) = o[k]
    <3>1. Sums(lengths, k, o)
      BY <2>3, <2>4 DEF Sums
    <3> QED
      BY <2>3, <3>1, TakenSums
  <2> QED
    BY <2>1, <2>3, <2>5
<1>11. /\ m.first \in Spots /\ m.last \in Spots
       /\ m = [length |-> L, count |-> n, first |-> m.first, last |-> m.last]
  BY <1>1, <1>2 DEF Memories
<1>12. PICK first \in Spots : first = Nth(m, cells, k) /\ first.at = P /\ first.length = Len(q[k + 1])
  BY <1>7, <1>9 DEF Spots
<1>13. x = [length |-> L, count |-> n - k, first |-> first, last |-> m.last]
  <2>1. x = [m EXCEPT !.count = n - k, !.first = first]
    BY <1>1, <1>2, <1>12 DEF Popped
  <2> QED
    BY <1>1, <2>1 DEF Memories
<1>14. x \in Memories
  BY <1>2, <1>3, <1>11, <1>12, <1>13 DEF Memories
<1>15. /\ m.last.at = Place(L, p, off[n - 1]) /\ m.last.length = Len(q[n])
  BY <1>1 DEF MemoryAt
<1>16. PICK z \in Nat : /\ z = left[n - k - 1] /\ d + z = off[n - 1] /\ d + z <= t
                        /\ off[n - 1] \in 0..(L - HeaderLength)
  <2>1. n - k - 1 \in 0..(n - k) /\ k + (n - k - 1) = n - 1 /\ n - 1 \in 0..n /\ n \in 0..n /\ n - 1 <= n
    BY <1>3
  <2>2. off[n - 1] <= t /\ off[n - 1] \in Nat
    BY <1>3, <1>5, <2>1
  <2>3. off[k] + left[n - k - 1] = off[n - 1]
    BY <1>4, <2>1
  <2>4. left[n - k - 1] \in Nat
    BY <1>4, <2>1 DEF Offsets
  <2>5. off[n - 1] \in 0..(L - HeaderLength)
    BY <1>2, <1>5, <2>2, Lengths
  <2> QED
    BY <1>5, <2>2, <2>3, <2>4, <2>5
<1>17. m.last.at = Place(L, P, left[Len(r) - 1]) /\ m.last.at \in HeaderLength..(L - 1)
  <2>1. z + d <= L - HeaderLength /\ d + z <= L - HeaderLength
    BY <1>2, <1>5, <1>16, Lengths
  <2>2. Place(L, P, z) = Place(L, p, d + z)
    BY <1>2, <1>6, <2>1, PlaceTwice
  <2>3. Place(L, p, off[n - 1]) \in HeaderLength..(L - 1)
    BY <1>2, <1>16, PlaceRange
  <2> QED
    BY <1>4, <1>15, <1>16, <2>2, <2>3
<1>18. MemoryAt(x, cells, r, left)
  <2>1. RingHolds(cells, L, P, r, left)
    BY <1>1, <1>2, <1>3, <1>5, <1>6, RingLeft
  <2>2. r[1] = q[k + 1] /\ r[Len(r)] = q[n]
    <3>1. 1 \in 1..(n - k) /\ n - k \in 1..(n - k) /\ k + (n - k) = n
      BY <1>3
    <3> QED
      BY <1>4, <3>1
  <2>3. /\ x.count = Len(r) /\ x.length = L /\ x.first.at = P
        /\ x.first.length = Len(r[1])
        /\ x.last.at = Place(L, P, left[Len(r) - 1])
        /\ x.last.length = Len(r[Len(r)])
    BY <1>4, <1>12, <1>13, <1>15, <1>17, <2>2
  <2> QED
    BY <2>1, <2>3 DEF MemoryAt
<1>19. Ring(L, P, 0, left[Len(r)]) \cap Ring(L, p, 0, d) = {}
  <2>1. PICK y \in Nat : y = left[Len(r)] /\ t = d + y
    <3>1. n - k \in 0..(n - k) /\ k + (n - k) = n
      BY <1>3
    <3>2. left[n - k] \in Nat
      BY <1>4, <3>1 DEF Offsets
    <3> QED
      BY <1>4, <1>5, <3>1, <3>2
  <2>2. Ring(L, P, 0, y) = Ring(L, p, d, t)
    BY <1>2, <1>5, <1>6, <2>1, RingShifted
  <2>3. Ring(L, p, 0, d) \cap Ring(L, p, d, t) = {}
    <3>1. d <= d /\ d <= L - HeaderLength /\ 0 \in Nat
      BY <1>2, <1>5, Lengths
    <3> QED
      BY <1>2, <1>5, <3>1, RingsApart
  <2> QED
    BY <2>1, <2>2, <2>3
<1>20. HeaderOf(x) = [length |-> L, count |-> n - k, first |-> P, last |-> m.last.at]
  BY <1>12, <1>13 DEF HeaderOf
<1>21. HeaderOf(x) \in Headers
  <2>1. P < L /\ m.last.at < L /\ m.last.at \in Nat /\ n - k \in Nat
    BY <1>2, <1>3, <1>7, <1>17, Lengths, SMTT(30)
  <2> QED
    BY <1>2, <1>7, <1>20, <2>1 DEF Headers
<1>22. x.length = L /\ x.first.at = P
  BY <1>12, <1>13
<1>23. r # << >>
  BY <1>3, <1>4
<1>24. d <= L - HeaderLength
  BY <1>2, <1>5, Lengths
<1>25. IsPopped(m, cells, q, off, k, x, r, left)
  BY <1>1, <1>2, <1>4, <1>5, <1>10, <1>12, <1>14, <1>18, <1>19, <1>20, <1>21, <1>22, <1>23, <1>24
     DEF IsPopped
<1> QED
  BY <1>1, <1>25

LEMMA PopGood ==
    ASSUME NEW f, NEW m, NEW q, Safe(f, m, q), q # << >>, NEW failed \in BOOLEAN,
           NEW k \in Nat, k # 0
    PROVE  Good(f, m, Pop(m, f.cells, k), failed, q, SubSeq(q, k + 1, Len(q)))
<1>1. PICK n \in Nat : n = Len(q)
  BY DEF Safe
<1>2. PICK off : MemoryAt(m, f.cells, q, off)
  BY SafeAt
<1>3. m.count = n /\ m \in Memories /\ IsFile(f) /\ f.exists /\ q \in Seq(Datas)
  BY <1>1, <1>2 DEF MemoryAt, Safe
<1>4. CASE k >= n
  <2>1. SubSeq(q, k + 1, n) = << >>
    <3>1. k + 1 \in Int /\ n \in Int /\ k + 1 > n
      BY <1>1, <1>4
    <3> QED
      BY <1>3, <3>1, SubSeqEmpty
  <2>2. Pop(m, f.cells, k) = Clear(m)
    BY <1>3, <1>4 DEF Pop
  <2> QED
    BY <1>1, <2>1, <2>2, ClearGood
<1>5. CASE ~(k >= n)
  <2>1. PICK x, r, left : /\ x = Popped(m, f.cells, k) /\ r = SubSeq(q, k + 1, n)
                          /\ left = LeftOffsets(off, n, k)
    OBVIOUS
  <2>2. IsPopped(m, f.cells, q, off, k, x, r, left)
    <3>1. k \in 1..(n - 1)
      BY <1>1, <1>5
    <3> QED
      BY <1>1, <1>2, <1>3, <2>1, <3>1, PoppedFacts
  <2>3. PICK L, p, d, h, first : /\ L = m.length /\ p = m.first.at /\ d = off[k] /\ h = HeaderOf(x)
                                 /\ first = Nth(m, f.cells, k)
    OBVIOUS
  <2>4. /\ x \in Memories /\ h \in Headers
        /\ h = [length |-> L, count |-> n - k, first |-> first.at, last |-> m.last.at]
        /\ x.length = L
        /\ r \in Seq(Datas) /\ r # << >>
        /\ MemoryAt(x, f.cells, r, left)
        /\ Ring(x.length, x.first.at, 0, left[Len(r)]) \cap Ring(L, p, 0, d) = {}
        /\ d \in Nat /\ d <= L - HeaderLength
        /\ p \in HeaderLength..(L - 1)
        /\ Taken([i \in 1..k |-> Nth(m, f.cells, i - 1).length], k) = d
    BY <1>3, <2>2, <2>3 DEF IsPopped
  <2>5. PICK header, write : /\ header = WriteHeader(L, n - k, first.at, m.last.at, FALSE, x)
                             /\ write = RingWrite(L, p, Zeros(d))
    OBVIOUS
  <2>6. Pop(m, f.cells, k) = header \o write
    BY <1>3, <1>5, <2>1, <2>3, <2>4, <2>5 DEF Pop, Popped
  <2>7. L \in Nat /\ IsData(Zeros(d), d) /\ WrapPosition(L, p) = p
    <3>1. L \in Nat
      BY <1>3, <2>3, Lengths DEF Memories
    <3> QED
      BY <2>4, <3>1, ZerosIs, PlaceHere
  <2>8. IsList(write) /\ write \o << >> = write /\ IsList(<< >>)
    <3>1. IsList(write) /\ IsList(<< >>)
      BY <2>5, PairIsList, Lists DEF RingWrite
    <3> QED
      BY <3>1, Concat
  <2>9. ASSUME NEW b \in BOOLEAN, NEW g, Touches(Committed(f, h, b), g, Ring(L, p, 0, d))
        PROVE  /\ Safe(g, x, r) /\ g.header = HeaderOf(x) /\ g.commit = b
    <3>1. PICK g0 : g0 = Committed(f, h, b)
      OBVIOUS
    <3>2. IsFile(g0)
      BY <1>3, <2>4, <3>1, CommittedFacts
    <3>3. /\ g0.cells = f.cells /\ g0.header = h /\ g0.commit = b /\ g0.exists
      BY <1>3, <3>1 DEF Committed
    <3>4. MemoryHolds(x, g0.cells, r)
      BY <2>4, <3>3, MemoryIsAt
    <3>5. Safe(g0, x, r)
      BY <2>3, <2>4, <3>2, <3>3, <3>4 DEF Safe, Agree
    <3>6. Safe(g, x, r)
      BY <2>4, <2>9, <3>1, <3>3, <3>5, SafeKept
    <3> QED
      BY <2>3, <2>9, <3>1, <3>3, <3>6 DEF Touches
  <2>10. ASSUME NEW b \in BOOLEAN, NEW fails \in BOOLEAN, fails \/ ~b
         PROVE  Good(Committed(f, h, b), x, write, fails, q, r)
    <3>1. PICK g0 : g0 = Committed(f, h, b)
      OBVIOUS
    <3>2. IsFile(g0)
      BY <1>3, <2>4, <3>1, CommittedFacts
    <3>3. SafeThroughout(g0, Ring(L, p, 0, d), x, q, r)
      BY <2>9, <3>1 DEF SafeThroughout
    <3>4. GoodOnceWritten(g0, L, p, d, Zeros(d), x, << >>, fails, q, r)
      <4>1. ASSUME NEW g, Touches(g0, g, Ring(L, p, 0, d)) PROVE Good(g, x, << >>, fails, q, r)
        <5>1. Safe(g, x, r) /\ g.header = HeaderOf(x) /\ g.commit = b
          BY <2>9, <3>1, <4>1
        <5> QED
          BY <2>10, <5>1, GoodEnd
      <4> QED
        BY <4>1 DEF GoodOnceWritten
    <3>5. Good(g0, x, write \o << >>, fails, q, r)
      BY <2>4, <2>5, <2>7, <2>8, <3>2, <3>3, <3>4, RingWriteGood
    <3> QED
      BY <2>8, <3>1, <3>5
  <2>11. /\ Good(Committed(f, h, FALSE), x, write, failed, q, r)
         /\ Good(Committed(f, h, TRUE), x, write, TRUE, q, r)
    BY <2>10
  <2>12. Writable(f, m, x, write, q)
    BY DEF Writable
  <2>13. Good(f, m, header \o write, failed, q, r)
    BY <1>3, <2>4, <2>5, <2>8, <2>11, <2>12, SafePlaced, WriteHeaderGood
  <2> QED
    BY <1>1, <2>1, <2>6, <2>13
<1> QED
  BY <1>1, <1>4, <1>5

-----------------------------------------------------------------------------
(* Elements behind the last *)

\* The offsets of the elements of q with those of es behind them.
JoinOffsets(off, more, n, k) ==
    [i \in 0..(n + k) |-> IF i <= n THEN off[i] ELSE off[n] + more[i - n]]

IsJoin(q, es, off, more, n, k, Q, all) ==
    /\ Q \in Seq(Datas) /\ Len(Q) = n + k
    /\ \A i \in 1..n : Q[i] = q[i]
    /\ \A i \in 1..k : Q[n + i] = es[i]
    /\ all \in Offsets(Q)
    /\ \A i \in 0..n : all[i] = off[i]
    /\ \A i \in 0..k : all[n + i] = off[n] + more[i]

LEMMA FurtherFrom ==
    ASSUME NEW a \in Nat, NEW b \in Nat, NEW c \in Nat, NEW d \in Nat, Further(a, b, c)
    PROVE  Further(d + a, d + b, c)
  BY Lengths DEF Further

LEMMA JoinFacts ==
    ASSUME NEW q \in Seq(Datas), NEW es \in Seq(Datas), NEW off \in Offsets(q),
           NEW more \in Offsets(es), NEW n, n = Len(q), NEW k, k = Len(es),
           NEW Q, Q = q \o es, NEW all, all = JoinOffsets(off, more, n, k)
    PROVE  IsJoin(q, es, off, more, n, k, Q, all)
<1>1. /\ n \in Nat /\ off \in [0..n -> Nat] /\ off[0] = 0
      /\ \A i \in 1..n : /\ i - 1 \in 0..n /\ Len(q[i]) \in Nat
                         /\ off[i] = off[i - 1] + ElementHeaderLength + Len(q[i])
  BY OffsetsFacts
<1>2. /\ k \in Nat /\ more \in [0..k -> Nat] /\ more[0] = 0
      /\ \A i \in 1..k : /\ i - 1 \in 0..k /\ Len(es[i]) \in Nat
                         /\ more[i] = more[i - 1] + ElementHeaderLength + Len(es[i])
  BY OffsetsFacts
<1>3. /\ Q \in Seq(Datas) /\ Len(Q) = n + k
      /\ \A i \in 1..(n + k) : Q[i] = IF i <= n THEN q[i] ELSE es[i - n]
  BY ConcatProperties
<1>4. \A i \in 1..n : Q[i] = q[i]
  BY <1>1, <1>2, <1>3
<1>5. ASSUME NEW i \in 1..k PROVE Q[n + i] = es[i]
  <2>1. n + i \in 1..(n + k) /\ ~(n + i <= n) /\ (n + i) - n = i
    BY <1>1, <1>2
  <2> QED
    BY <1>3, <2>1
<1>6. \A i \in 0..(n + k) : all[i] = IF i <= n THEN off[i] ELSE off[n] + more[i - n]
  BY DEF JoinOffsets
<1>7. PICK d \in Nat : d = off[n]
  <2>1. n \in 0..n
    BY <1>1
  <2> QED
    BY <1>1, <2>1
<1>8. \A i \in 0..n : all[i] = off[i]
  BY <1>1, <1>2, <1>6
<1>9. ASSUME NEW i \in 0..k PROVE all[n + i] = d + more[i]
  <2>1. CASE i = 0
    <3>1. n + i = n /\ n \in 0..n /\ more[i] = 0
      BY <1>1, <1>2, <2>1
    <3> QED
      BY <1>7, <1>8, <3>1
  <2>2. CASE i # 0
    <3>1. n + i \in 0..(n + k) /\ ~(n + i <= n) /\ (n + i) - n = i
      BY <1>1, <1>2, <2>2
    <3> QED
      BY <1>6, <1>7, <3>1
  <2> QED
    BY <2>1, <2>2
<1>10. ASSUME NEW i \in 0..(n + k) PROVE i \in 0..n \/ \E j \in 0..k : i = n + j
  <2>1. CASE i <= n
    BY <1>1, <1>2, <2>1
  <2>2. CASE ~(i <= n)
    <3>1. i - n \in 0..k /\ i = n + (i - n)
      BY <1>1, <1>2, <2>2
    <3> QED
      BY <3>1
  <2> QED
    BY <2>1, <2>2
<1>11. ASSUME NEW i \in 0..(n + k) PROVE all[i] \in Nat
  <2>1. CASE i \in 0..n
    BY <1>1, <1>8, <2>1
  <2>2. ASSUME NEW j \in 0..k, i = n + j PROVE all[i] \in Nat
    <3>1. more[j] \in Nat /\ all[i] = d + more[j]
      BY <1>2, <1>9, <2>2
    <3> QED
      BY <1>7, <3>1
  <2> QED
    BY <1>10, <2>1, <2>2
<1>12. all \in [0..(n + k) -> Nat]
  <2>1. all = [i \in 0..(n + k) |-> all[i]]
    BY DEF JoinOffsets
  <2> QED
    BY <1>11, <2>1
<1>13. all[0] = 0
  BY <1>1, <1>8
<1>14. ASSUME NEW i \in 1..(n + k)
       PROVE  Further(all[i], all[i - 1], Len(Q[i]))
  <2>1. CASE i \in 1..n
    <3>1. i \in 0..n /\ i - 1 \in 0..n
      BY <1>1, <2>1
    <3> QED
      BY <1>1, <1>4, <1>8, <2>1, <3>1 DEF Further
  <2>2. CASE i \notin 1..n
    <3>1. PICK j \in 1..k : i = n + j
      <4>1. i - n \in 1..k /\ i = n + (i - n)
        BY <1>1, <1>2, <2>2
      <4> QED
        BY <4>1
    <3>2. j \in 0..k /\ j - 1 \in 0..k /\ i - 1 = n + (j - 1)
      BY <1>1, <1>2, <3>1
    <3>3. all[i] = d + more[j] /\ all[i - 1] = d + more[j - 1] /\ Q[i] = es[j]
      BY <1>5, <1>9, <3>1, <3>2
    <3>4. Further(more[j], more[j - 1], Len(es[j]))
      BY <1>2, <3>1 DEF Further
    <3>5. more[j] \in Nat /\ more[j - 1] \in Nat /\ Len(es[j]) \in Nat
      BY <1>2, <3>1, <3>2
    <3>6. Further(d + more[j], d + more[j - 1], Len(es[j]))
      BY <1>7, <3>4, <3>5, FurtherFrom, Zenon
    <3> QED
      BY <3>3, <3>6
  <2> QED
    BY <2>1, <2>2
<1>15. all \in Offsets(Q)
  BY <1>3, <1>12, <1>13, <1>14 DEF Offsets, Further
<1> QED
  BY <1>3, <1>4, <1>5, <1>7, <1>8, <1>9, <1>15 DEF IsJoin

\* The lengths leave no choice.
LEMMA OffsetsUnique ==
    ASSUME NEW q \in Seq(Datas), NEW off \in Offsets(q), NEW other \in Offsets(q)
    PROVE  off = other
<1>1. PICK n \in Nat : n = Len(q)
  OBVIOUS
<1>2. /\ off \in [0..n -> Nat] /\ off[0] = 0
      /\ \A i \in 1..n : off[i] = off[i - 1] + ElementHeaderLength + Len(q[i])
      /\ other \in [0..n -> Nat] /\ other[0] = 0
      /\ \A i \in 1..n : other[i] = other[i - 1] + ElementHeaderLength + Len(q[i])
  BY <1>1 DEF Offsets
<1>3. PICK S : S = {i \in Nat : i <= n => off[i] = other[i]}
  OBVIOUS
<1>4. 0 \in S
  BY <1>2, <1>3
<1>5. ASSUME NEW i \in Nat, i \in S PROVE i + 1 \in S
  <2> SUFFICES ASSUME i + 1 <= n PROVE off[i + 1] = other[i + 1]
    BY <1>3
  <2>1. i + 1 \in 1..n /\ (i + 1) - 1 = i /\ i <= n
    BY <1>1
  <2>2. off[i] = other[i]
    BY <1>3, <1>5, <2>1
  <2> QED
    BY <1>2, <2>1, <2>2
<1>6. Nat \subseteq S
  BY <1>4, <1>5, Induction
<1>7. \A i \in 0..n : off[i] = other[i]
  BY <1>1, <1>3, <1>6
<1> QED
  BY <1>2, <1>7

\* What is written elsewhere leaves the queue as it is.
LEMMA SafeElsewhere ==
    ASSUME NEW f, NEW m, NEW q, Safe(f, m, q), NEW off \in Offsets(q),
           NEW L, L = m.length, NEW p, q # << >> => m.first.at = p,
           NEW A, Ring(L, p, 0, off[Len(q)]) \cap A = {},
           NEW g, Touches(f, g, A)
    PROVE  Safe(g, m, q)
<1>1. CASE q = << >>
  BY <1>1, SafeKept
<1>2. CASE q # << >>
  <2>1. PICK other : MemoryAt(m, f.cells, q, other)
    BY <1>2, SafeAt
  <2>2. q \in Seq(Datas) /\ other \in Offsets(q)
    BY <2>1 DEF MemoryAt, RingHolds, Safe
  <2>3. other = off
    BY <2>2, OffsetsUnique
  <2> QED
    BY <1>2, <2>1, <2>3, SafeKept
<1> QED
  BY <1>1, <1>2

\* A list of lists of calls put together from the end.
\* The calls of a loop over the last k of n operations, of which w are the calls.
JoinedTo(c, n, a, w) ==
    /\ c = [k \in 0..n |-> IF k = 0 THEN a ELSE w[n - k + 1] \o c[k - 1]]
    /\ \A k \in 0..n : IsList(c[k])

AllLists(w, n) == \A i \in 1..n : IsList(w[i])

LEMMA JoinedCalls ==
    ASSUME NEW n \in Nat, NEW a, IsList(a), NEW w, AllLists(w, n)
    PROVE  \E c : JoinedTo(c, n, a, w)
<1>0. \A i \in 1..n : IsList(w[i])
  BY DEF AllLists
<1>1. PICK T0 : a \in Seq(T0)
  BY DEF IsList
<1>2. PICK T : T = T0 \cup UNION {{w[i][j] : j \in DOMAIN w[i]} : i \in 1..n}
  OBVIOUS
<1>3. a \in Seq(T)
  BY <1>1, <1>2
<1>4. ASSUME NEW i \in 1..n PROVE w[i] \in Seq(T)
  <2>1. PICK S : w[i] \in Seq(S)
    BY <1>0 DEF IsList
  <2>2. \A j \in DOMAIN w[i] : w[i][j] \in T
    BY <1>2
  <2>3. PICK s \in Seq(S) : s = w[i]
    BY <2>1
  <2>4. PICK k \in Nat : k = Len(s) /\ DOMAIN s = 1..k /\ s \in [1..k -> S]
    OBVIOUS
  <2>5. s \in [1..k -> T]
    BY <2>2, <2>3, <2>4
  <2> QED
    BY <2>3, <2>5
<1>5. PICK g : g = [y \in (1..n) \X Seq(T) |-> w[n - y[1] + 1] \o y[2]]
  OBVIOUS
<1>6. g \in [((1..n) \X Seq(T)) -> Seq(T)]
  <2>1. ASSUME NEW y \in (1..n) \X Seq(T) PROVE w[n - y[1] + 1] \o y[2] \in Seq(T)
    <3>1. n - y[1] + 1 \in 1..n /\ y[2] \in Seq(T)
      OBVIOUS
    <3>2. w[n - y[1] + 1] \in Seq(T)
      BY <1>4, <3>1
    <3> QED
      BY <3>1, <3>2
  <2> QED
    BY <1>5, <2>1
<1>7. PICK c : c \in UpTo(n, Seq(T), a, g)
  BY <1>3, <1>6, RecursiveFunctionUpTo, Zenon
<1>8. /\ c \in [0..n -> Seq(T)] /\ c[0] = a
      /\ \A k \in 1..n : c[k] = g[<< k, c[k - 1] >>]
  BY <1>7 DEF UpTo
<1>9. ASSUME NEW k \in 1..n PROVE c[k] = w[n - k + 1] \o c[k - 1]
  <2>1. k - 1 \in 0..n
    OBVIOUS
  <2>2. PICK s \in Seq(T) : s = c[k - 1]
    BY <1>8, <2>1
  <2>3. g[<< k, s >>] = w[n - k + 1] \o s
    BY <1>5
  <2> QED
    BY <1>8, <2>2, <2>3
<1>10. c = [k \in 0..n |-> IF k = 0 THEN a ELSE w[n - k + 1] \o c[k - 1]]
  <2>1. \A k \in 0..n : k # 0 => k \in 1..n
    OBVIOUS
  <2>2. \A k \in 0..n : c[k] = IF k = 0 THEN a ELSE w[n - k + 1] \o c[k - 1]
    BY <1>8, <1>9, <2>1
  <2> QED
    BY <1>8, <2>2
<1>11. \A k \in 0..n : IsList(c[k])
  BY <1>8 DEF IsList
<1> QED
  BY <1>10, <1>11 DEF JoinedTo

\* Where the loop of addElements: puts the elements.
PlacesOf(pos, m, es, n) ==
    pos = [i \in 0..n |-> IF i = 0 THEN (IF m.count = 0 THEN HeaderLength ELSE EndOfLast(m))
                          ELSE WrapPosition(m.length,
                                 pos[i - 1] + ElementHeaderLength + Len(es[i]))]

PlacedBy(pos, m, es, n) ==
    Placed(m, es) = [i \in 1..n |-> [at |-> pos[i - 1], length |-> Len(es[i])]]

LEMMA PlacedByPlaces ==
    ASSUME NEW m, NEW es, NEW n \in Nat, n = Len(es), NEW pos, PlacesOf(pos, m, es, n)
    PROVE  PlacedBy(pos, m, es, n)
<1>0. pos = [i \in 0..n |-> IF i = 0 THEN (IF m.count = 0 THEN HeaderLength ELSE EndOfLast(m))
                           ELSE WrapPosition(m.length,
                                  pos[i - 1] + ElementHeaderLength + Len(es[i]))]
  BY DEF PlacesOf
<1>1. PICK start : start = IF m.count = 0 THEN HeaderLength ELSE EndOfLast(m)
  OBVIOUS
<1>2. PICK s : s = CHOOSE position : position =
        [i \in 0..n |-> IF i = 0 THEN start
                        ELSE WrapPosition(m.length,
                               position[i - 1] + ElementHeaderLength + Len(es[i]))]
  OBVIOUS
<1>3. s = [i \in 0..n |-> IF i = 0 THEN start
                          ELSE WrapPosition(m.length, s[i - 1] + ElementHeaderLength + Len(es[i]))]
  BY <1>0, <1>1, <1>2
<1>4. PICK S : S = {i \in Nat : i <= n => s[i] = pos[i]}
  OBVIOUS
<1>5. 0 \in S
  BY <1>0, <1>1, <1>3, <1>4
<1>6. ASSUME NEW i \in Nat, i \in S PROVE i + 1 \in S
  <2> SUFFICES ASSUME i + 1 <= n PROVE s[i + 1] = pos[i + 1]
    BY <1>4
  <2>1. i + 1 \in 0..n /\ i + 1 # 0 /\ (i + 1) - 1 = i /\ i <= n
    OBVIOUS
  <2>2. s[i] = pos[i]
    BY <1>4, <1>6, <2>1
  <2>3. s[i + 1] = WrapPosition(m.length, s[i] + ElementHeaderLength + Len(es[i + 1]))
    BY <1>3, <2>1
  <2>4. pos[i + 1] = WrapPosition(m.length, pos[i] + ElementHeaderLength + Len(es[i + 1]))
    BY <1>0, <2>1
  <2> QED
    BY <2>2, <2>3, <2>4
<1>7. Nat \subseteq S
  BY <1>5, <1>6, Induction
<1>8. ASSUME NEW i \in 1..n PROVE s[i - 1] = pos[i - 1]
  <2>1. i - 1 \in Nat /\ i - 1 <= n
    OBVIOUS
  <2>2. i - 1 \in S
    BY <1>7, <2>1
  <2> QED
    BY <1>4, <2>1, <2>2
<1>9. Placed(m, es) = [i \in 1..n |-> [at |-> s[i - 1], length |-> Len(es[i])]]
  BY <1>1, <1>2 DEF Placed
<1> QED
  BY <1>8, <1>9 DEF PlacedBy

-----------------------------------------------------------------------------
(* Writing one element *)

LEMMA BufferIs ==
    ASSUME NEW d \in Datas
    PROVE  /\ IsData(Buffer(Len(d)), HeaderLength)
           /\ \A y \in 0..(ElementHeaderLength - 1) : Buffer(Len(d))[y + 1] = CellOf(d, y)
<1>1. PICK n \in Nat : n = Len(d) /\ n \in { SizeOf[e] : e \in Elements }
  BY DataFacts
<1>0. PICK k \in Nat : k = HeaderLength - ElementHeaderLength
  BY Lengths
<1>2. PICK s, t : s = LengthCells(n) /\ t = [i \in 1..k |-> << Stale, i >>]
  OBVIOUS
<1>3. /\ s \in Seq(Cells) /\ Len(s) = ElementHeaderLength
      /\ \A i \in 1..ElementHeaderLength : s[i] = << n, i >>
  <2>1. s = [i \in 1..ElementHeaderLength |-> << n, i >>]
    BY <1>2 DEF LengthCells
  <2>2. \A i \in 1..ElementHeaderLength : << n, i >> \in Cells
    BY <1>1, Lengths DEF Cells
  <2> QED
    BY <2>1, <2>2, Lengths
<1>4. t \in Seq(Cells) /\ Len(t) = k
  <2>1. \A i \in 1..k : << Stale, i >> \in Cells
    BY DEF Cells
  <2> QED
    BY <1>2, <2>1
<1>5. PICK b : b = s \o t
  OBVIOUS
<1>6. /\ b \in Seq(Cells) /\ Len(b) = ElementHeaderLength + k
      /\ \A i \in 1..(ElementHeaderLength + k) :
            b[i] = IF i <= ElementHeaderLength THEN s[i] ELSE t[i - ElementHeaderLength]
  BY <1>3, <1>4, <1>5, ConcatProperties
<1>7. Buffer(n) = b
  BY <1>0, <1>2, <1>5 DEF Buffer
<1>8. IsData(b, HeaderLength)
  <2>1. ElementHeaderLength + k = HeaderLength
    BY <1>0, Lengths
  <2> QED
    BY <1>6, <2>1, DataIs
<1>9. ASSUME NEW y \in 0..(ElementHeaderLength - 1) PROVE b[y + 1] = CellOf(d, y)
  <2>1. /\ y + 1 \in 1..ElementHeaderLength /\ y + 1 \in 1..(ElementHeaderLength + k)
        /\ y + 1 <= ElementHeaderLength /\ y < ElementHeaderLength
    BY <1>0, Lengths
  <2> QED
    BY <1>1, <1>3, <1>6, <2>1 DEF CellOf
<1> QED
  BY <1>1, <1>7, <1>8, <1>9

\* The places of an element of k cells that begins o cells behind p and ends e cells behind.
ElementPlaces(L, p, o, k, e, P, D) ==
    /\ P \in HeaderLength..(L - 1) /\ P = WrapPosition(L, P)
    /\ D \in HeaderLength..(L - 1) /\ D = WrapPosition(L, P + ElementHeaderLength)
    /\ HeaderLength <= L - HeaderLength /\ k <= L - HeaderLength
    /\ Ring(L, P, 0, HeaderLength) \subseteq Ring(L, p, o, e)
    /\ Ring(L, D, 0, k) \subseteq Ring(L, p, o, e)
    /\ \A y \in 0..(ElementHeaderLength - 1) :
          /\ Place(L, P, y) = Place(L, p, o + y)
          /\ Place(L, p, o + y) \notin Ring(L, D, 0, k)
          /\ y \in 0..(HeaderLength - 1)
    /\ \A y \in ElementHeaderLength..(ElementHeaderLength + k - 1) :
          /\ Place(L, D, y - ElementHeaderLength) = Place(L, p, o + y)
          /\ y - ElementHeaderLength \in 0..(k - 1)

LEMMA ElementPlacesFacts ==
    ASSUME NEW L \in Nat, NEW p \in HeaderLength..(L - 1), NEW o \in Nat, NEW k \in Nat,
           NEW e \in Nat, e = o + ElementHeaderLength + k, e <= L - HeaderLength,
           ElementHeaderLength + k >= HeaderLength,
           NEW P, P = Place(L, p, o), NEW D, D = Place(L, P, ElementHeaderLength)
    PROVE  ElementPlaces(L, p, o, k, e, P, D)
<1>1. P \in HeaderLength..(L - 1)
  <2>1. o \in 0..(L - HeaderLength)
    BY Lengths
  <2> QED
    BY <2>1, PlaceRange
<1>2. P = WrapPosition(L, P)
  BY <1>1, PlaceHere
<1>3. PICK o2 \in Nat : o2 = o + ElementHeaderLength /\ e = o2 + k /\ o <= o2 /\ o2 <= L - HeaderLength
  BY Lengths
<1>4. D = Place(L, p, o2)
  <2>1. o + ElementHeaderLength <= L - HeaderLength
    BY <1>3
  <2> QED
    BY <1>3, <2>1, PlaceTwice, Lengths
<1>5. D \in HeaderLength..(L - 1) /\ D = WrapPosition(L, P + ElementHeaderLength)
  <2>1. o2 \in 0..(L - HeaderLength)
    BY <1>3, Lengths
  <2>2. D \in HeaderLength..(L - 1)
    BY <1>4, <2>1, PlaceRange
  <2> QED
    BY <2>2 DEF Place
<1>6. HeaderLength <= L - HeaderLength /\ k <= L - HeaderLength
  BY Lengths
<1>7. ASSUME NEW y \in Nat, y < ElementHeaderLength + k PROVE Place(L, P, y) = Place(L, p, o + y)
  <2>1. o + y <= L - HeaderLength
    BY <1>7, Lengths
  <2> QED
    BY <2>1, PlaceTwice
<1>8. ASSUME NEW y \in Nat, y < k PROVE Place(L, D, y) = Place(L, p, o2 + y)
  <2>1. o2 + y <= L - HeaderLength
    BY <1>3, <1>8, Lengths
  <2> QED
    BY <1>3, <1>4, <2>1, PlaceTwice
<1>9. ASSUME NEW x \in 0..(HeaderLength - 1) PROVE Place(L, P, x) \in Ring(L, p, o, e)
  <2>1. x \in Nat /\ x < ElementHeaderLength + k /\ o + x \in o..(e - 1)
    BY Lengths
  <2> QED
    BY <1>7, <2>1 DEF Ring
<1>10. Ring(L, P, 0, HeaderLength) \subseteq Ring(L, p, o, e)
  BY <1>9 DEF Ring
<1>11. ASSUME NEW x \in 0..(k - 1) PROVE Place(L, D, x) \in Ring(L, p, o, e)
  <2>1. x \in Nat /\ x < k /\ o2 + x \in o..(e - 1)
    BY <1>3
  <2> QED
    BY <1>8, <2>1 DEF Ring
<1>12. Ring(L, D, 0, k) \subseteq Ring(L, p, o, e)
  BY <1>11 DEF Ring
<1>13. ASSUME NEW y \in 0..(ElementHeaderLength - 1)
       PROVE  /\ Place(L, P, y) = Place(L, p, o + y)
              /\ Place(L, p, o + y) \notin Ring(L, D, 0, k)
              /\ y \in 0..(HeaderLength - 1)
  <2>1. Place(L, P, y) = Place(L, p, o + y)
    <3>1. y \in Nat /\ y < ElementHeaderLength + k
      BY Lengths
    <3> QED
      BY <1>7, <3>1
  <2>2. ASSUME NEW x \in 0..(k - 1) PROVE Place(L, p, o + y) # Place(L, D, x)
    <3>1. Place(L, D, x) = Place(L, p, o2 + x)
      BY <1>8
    <3>2. PICK a \in 0..(L - HeaderLength - 1), b \in 0..(L - HeaderLength - 1) :
            a = o + y /\ b = o2 + x /\ a # b
      <4>1. /\ o + y \in 0..(L - HeaderLength - 1) /\ o2 + x \in 0..(L - HeaderLength - 1)
            /\ o + y # o2 + x
        BY <1>3, Lengths
      <4> QED
        BY <4>1
    <3>3. Place(L, p, a) # Place(L, p, b)
      BY <3>2, PlaceInjective
    <3> QED
      BY <3>1, <3>2, <3>3
  <2>3. Place(L, p, o + y) \notin Ring(L, D, 0, k)
    BY <2>2 DEF Ring
  <2> QED
    BY <2>1, <2>3, Lengths
<1>14. ASSUME NEW y \in ElementHeaderLength..(ElementHeaderLength + k - 1)
       PROVE  /\ Place(L, D, y - ElementHeaderLength) = Place(L, p, o + y)
              /\ y - ElementHeaderLength \in 0..(k - 1)
  <2>1. PICK x \in Nat : x = y - ElementHeaderLength /\ x < k /\ o2 + x = o + y
    BY <1>3, Lengths
  <2> QED
    BY <1>8, <2>1
<1> QED
  BY <1>1, <1>2, <1>5, <1>6, <1>10, <1>12, <1>13, <1>14 DEF ElementPlaces

\* The elements of q are in the ring, those of Q are to be; they have the offsets of all.
Adds(m, q, off, L, p, Q, all) ==
    /\ m \in Memories /\ L = m.length /\ L \in Nat
    /\ q \in Seq(Datas) /\ off \in Offsets(q) /\ off[Len(q)] = all[Len(q)]
    /\ q # << >> => m.first.at = p
    /\ p \in HeaderLength..(L - 1)
    /\ Q \in Seq(Datas) /\ all \in Offsets(Q) /\ all[Len(Q)] <= L - HeaderLength
    /\ Len(q) <= Len(Q)

\* The first j elements of Q are written.
AddStage(f, m, q, L, p, Q, all, j) ==
    Safe(f, m, q) /\ Laid(f.cells, L, p, Q, all, j)

GoodAtStage(m, q, L, p, Q, all, j, rest, failed) ==
    \A g : AddStage(g, m, q, L, p, Q, all, j) => Good(g, m, rest, failed, q, Q)

\* The call at the front of a list, of two written to the ring one after the other.
LEMMA StageKept ==
    ASSUME NEW m, NEW q, NEW off, NEW L, NEW p, NEW Q, NEW all, Adds(m, q, off, L, p, Q, all),
           NEW j \in Len(q)..(Len(Q) - 1), NEW f, AddStage(f, m, q, L, p, Q, all, j),
           NEW A, A \subseteq Ring(L, p, all[j], all[j + 1]), NEW g, Touches(f, g, A)
    PROVE  AddStage(g, m, q, L, p, Q, all, j)
<1>1. /\ m \in Memories /\ L = m.length /\ L \in Nat
      /\ q \in Seq(Datas) /\ off \in Offsets(q) /\ off[Len(q)] = all[Len(q)]
      /\ q # << >> => m.first.at = p
      /\ p \in HeaderLength..(L - 1)
      /\ Q \in Seq(Datas) /\ all \in Offsets(Q) /\ all[Len(Q)] <= L - HeaderLength
      /\ Len(q) <= Len(Q)
  BY DEF Adds
<1>2. PICK n \in Nat, N \in Nat : n = Len(q) /\ N = Len(Q)
  BY <1>1
<1>3. all \in [0..N -> Nat] /\ \A i, k \in 0..N : i <= k => all[i] <= all[k]
  BY <1>1, <1>2, OffsetsFacts
<1>4. /\ n \in 0..N /\ j \in 0..N /\ j + 1 \in 0..N /\ N \in 0..N
      /\ n <= j /\ j <= j + 1 /\ j + 1 <= N
  BY <1>1, <1>2
<1>5. PICK a \in Nat, b \in Nat, c \in Nat :
        a = all[n] /\ b = all[j] /\ c = all[j + 1] /\ a <= b /\ b <= c /\ c <= L - HeaderLength
  <2>1. /\ all[n] \in Nat /\ all[j] \in Nat /\ all[j + 1] \in Nat /\ all[N] \in Nat
        /\ all[n] <= all[j] /\ all[j] <= all[j + 1] /\ all[j + 1] <= all[N]
    BY <1>3, <1>4
  <2>2. all[j + 1] <= L - HeaderLength
    BY <1>1, <1>2, <2>1, Lengths, SMTT(30)
  <2> QED
    BY <2>1, <2>2
<1>6. Ring(L, p, 0, a) \cap Ring(L, p, b, c) = {} /\ Ring(L, p, 0, b) \cap Ring(L, p, b, c) = {}
  <2>1. L \in Nat /\ p \in HeaderLength..(L - 1)
    BY <1>1
  <2>2. a <= b /\ b <= b /\ a <= L - HeaderLength /\ b <= L - HeaderLength /\ 0 \in Nat
    BY <1>5, <2>1, Lengths, SMTT(30)
  <2>3. Ring(L, p, 0, a) \cap Ring(L, p, b, c) = {}
    BY <1>5, <2>1, <2>2, RingsApart
  <2>4. Ring(L, p, 0, b) \cap Ring(L, p, b, c) = {}
    BY <1>5, <2>1, <2>2, RingsApart
  <2> QED
    BY <2>3, <2>4
<1>7. Ring(L, p, 0, a) \cap A = {} /\ Ring(L, p, 0, b) \cap A = {}
  BY <1>5, <1>6
<1>8. Safe(g, m, q)
  <2>1. Ring(L, p, 0, off[Len(q)]) \cap A = {}
    BY <1>1, <1>2, <1>5, <1>7
  <2>2. Safe(f, m, q)
    BY DEF AddStage
  <2> QED
    BY <1>1, <2>1, <2>2, SafeElsewhere
<1>9. Laid(g.cells, L, p, Q, all, j)
  <2>1. Laid(f.cells, L, p, Q, all, j)
    BY DEF AddStage
  <2>2. j \in 0..Len(Q)
    BY <1>2, <1>4
  <2> QED
    BY <1>1, <1>5, <1>7, <2>1, <2>2, LaidKept
<1> QED
  BY <1>8, <1>9 DEF AddStage

\* With the first cells and the data of the next element, one element more is written.
LEMMA StageNext ==
    ASSUME NEW m, NEW q, NEW L, NEW p, NEW Q, NEW all, NEW j \in Nat,
           NEW g, AddStage(g, m, q, L, p, Q, all, j), NEW o, o = all[j],
           NEW d, d = Q[j + 1], NEW k \in Nat, k = Len(d),
           \A y \in 0..(ElementHeaderLength - 1) :
              Place(L, p, o + y) \in DOMAIN g.cells /\ g.cells[Place(L, p, o + y)] = CellOf(d, y),
           \A y \in ElementHeaderLength..(ElementHeaderLength + k - 1) :
              Place(L, p, o + y) \in DOMAIN g.cells /\ g.cells[Place(L, p, o + y)] = CellOf(d, y)
    PROVE  AddStage(g, m, q, L, p, Q, all, j + 1)
<1>1. ASSUME NEW y \in 0..(ElementHeaderLength + k - 1)
      PROVE  Place(L, p, o + y) \in DOMAIN g.cells /\ g.cells[Place(L, p, o + y)] = CellOf(d, y)
  <2>1. y \in 0..(ElementHeaderLength - 1) \/ y \in ElementHeaderLength..(ElementHeaderLength + k - 1)
    BY Lengths
  <2> QED
    BY <2>1
<1>2. ASSUME NEW i \in 1..(j + 1), NEW y \in 0..(ElementHeaderLength + Len(Q[i]) - 1)
      PROVE  /\ Place(L, p, all[i - 1] + y) \in DOMAIN g.cells
             /\ g.cells[Place(L, p, all[i - 1] + y)] = CellOf(Q[i], y)
  <2>1. CASE i \in 1..j
    BY <2>1 DEF AddStage, Laid
  <2>2. CASE i \notin 1..j
    <3>1. i = j + 1 /\ i - 1 = j
      BY <2>2
    <3> QED
      BY <1>1, <3>1
  <2> QED
    BY <2>1, <2>2
<1> QED
  BY <1>2 DEF AddStage, Laid

WriteParts(L, e, data, rest, first, second) ==
    /\ IsList(first) /\ IsList(second) /\ IsList(second \o rest)
    /\ WriteElement(L, e, data) = first \o second
    /\ WriteElement(L, e, data) \o rest = first \o (second \o rest)

LEMMA WriteElementIs ==
    ASSUME NEW L, NEW e, NEW data, NEW rest, IsList(rest)
    PROVE  WriteParts(L, e, data, rest, RingWrite(L, e.at, Buffer(e.length)),
                      RingWrite(L, e.at + ElementHeaderLength, data))
<1>0. PICK first, second : /\ first = RingWrite(L, e.at, Buffer(e.length))
                           /\ second = RingWrite(L, e.at + ElementHeaderLength, data)
  OBVIOUS
<1>1. IsList(first) /\ IsList(second)
  BY <1>0, PairIsList, Lists DEF RingWrite
<1>2. WriteElement(L, e, data) = first \o second
  BY <1>0 DEF WriteElement
<1>3. (first \o second) \o rest = first \o (second \o rest)
  BY <1>1, Associative
<1>4. IsList(second \o rest)
  BY <1>1, Concat
<1> QED
  BY <1>0, <1>1, <1>2, <1>3, <1>4 DEF WriteParts

LEMMA ElementGood ==
    ASSUME NEW m, NEW q, NEW off, NEW L, NEW p, NEW Q, NEW all, Adds(m, q, off, L, p, Q, all),
           NEW j \in Len(q)..(Len(Q) - 1), NEW f, AddStage(f, m, q, L, p, Q, all, j),
           NEW rest, IsList(rest), NEW failed,
           GoodAtStage(m, q, L, p, Q, all, j + 1, rest, failed),
           NEW e, e = [at |-> Place(L, p, all[j]), length |-> Len(Q[j + 1])]
    PROVE  Good(f, m, WriteElement(L, e, Q[j + 1]) \o rest, failed, q, Q)
<1>1. /\ m \in Memories /\ L = m.length /\ L \in Nat
      /\ p \in HeaderLength..(L - 1)
      /\ q \in Seq(Datas)
      /\ Q \in Seq(Datas) /\ all \in Offsets(Q) /\ all[Len(Q)] <= L - HeaderLength
  BY DEF Adds
<1>2. PICK N \in Nat : N = Len(Q) /\ j \in Nat /\ j + 1 \in 1..N /\ j \in 0..N /\ (j + 1) - 1 = j
                       /\ j + 1 \in 0..N /\ N \in 0..N /\ j + 1 <= N
  BY <1>1
<1>3. PICK d \in Datas : d = Q[j + 1]
  BY <1>1, <1>2
<1>4. PICK k \in Nat : k = Len(d) /\ ElementHeaderLength + k >= HeaderLength /\ IsData(d, k)
  <2>1. d \in Seq(Cells)
    BY DataFacts
  <2> QED
    BY <2>1, DataFacts, DataIs
<1>5. PICK o \in Nat, t \in Nat : /\ o = all[j] /\ t = all[j + 1]
                                  /\ t = o + ElementHeaderLength + k /\ t <= L - HeaderLength
  <2>1. /\ all \in [0..N -> Nat]
        /\ all[j + 1] = all[j] + ElementHeaderLength + Len(Q[j + 1])
        /\ all[j + 1] <= all[N]
    <3>1. /\ all \in [0..N -> Nat]
          /\ \A i \in 1..N : all[i] = all[i - 1] + ElementHeaderLength + Len(Q[i])
          /\ \A i, i2 \in 0..N : i <= i2 => all[i] <= all[i2]
      BY <1>1, <1>2, OffsetsFacts
    <3> QED
      BY <1>2, <3>1
  <2>2. all[j] \in Nat /\ all[j + 1] \in Nat /\ all[N] \in Nat
    BY <1>2, <2>1
  <2>3. all[N] <= L - HeaderLength
    BY <1>1, <1>2
  <2>4. all[j + 1] <= L - HeaderLength
    BY <1>1, <2>1, <2>2, <2>3, Lengths, SMTT(30)
  <2> QED
    BY <1>3, <1>4, <2>1, <2>2, <2>4
<1>6. PICK P, D : P = Place(L, p, o) /\ D = Place(L, P, ElementHeaderLength)
  OBVIOUS
<1>7. ElementPlaces(L, p, o, k, t, P, D)
  BY <1>1, <1>4, <1>5, <1>6, ElementPlacesFacts
<1>8. /\ P \in HeaderLength..(L - 1) /\ P = WrapPosition(L, P)
      /\ D \in HeaderLength..(L - 1) /\ D = WrapPosition(L, P + ElementHeaderLength)
      /\ HeaderLength <= L - HeaderLength /\ k <= L - HeaderLength
      /\ Ring(L, P, 0, HeaderLength) \subseteq Ring(L, p, o, t)
      /\ Ring(L, D, 0, k) \subseteq Ring(L, p, o, t)
  BY <1>7 DEF ElementPlaces
<1>9. \A y \in 0..(ElementHeaderLength - 1) :
          /\ Place(L, P, y) = Place(L, p, o + y)
          /\ Place(L, p, o + y) \notin Ring(L, D, 0, k)
          /\ y \in 0..(HeaderLength - 1)
  BY <1>7 DEF ElementPlaces
<1>10. \A y \in ElementHeaderLength..(ElementHeaderLength + k - 1) :
          /\ Place(L, D, y - ElementHeaderLength) = Place(L, p, o + y)
          /\ y - ElementHeaderLength \in 0..(k - 1)
  BY <1>7 DEF ElementPlaces
<1>11. ASSUME NEW g0, AddStage(g0, m, q, L, p, Q, all, j), NEW A, A \subseteq Ring(L, p, o, t),
              NEW g, Touches(g0, g, A)
       PROVE  AddStage(g, m, q, L, p, Q, all, j)
  BY <1>5, <1>11, StageKept
<1>12. ASSUME NEW g0, AddStage(g0, m, q, L, p, Q, all, j), NEW A, A \subseteq Ring(L, p, o, t)
       PROVE  SafeThroughout(g0, A, m, q, Q) /\ IsFile(g0)
  <2>1. ASSUME NEW g, Touches(g0, g, A) PROVE Safe(g, m, q)
    BY <1>11, <1>12, <2>1 DEF AddStage
  <2> QED
    BY <1>12, <2>1 DEF SafeThroughout, AddStage, Safe
<1>13. PICK write, data : /\ write = RingWrite(L, P, Buffer(k))
                          /\ data = RingWrite(L, P + ElementHeaderLength, d)
  OBVIOUS
<1>14. /\ IsList(write) /\ IsList(data) /\ IsList(data \o rest)
       /\ WriteElement(L, e, Q[j + 1]) \o rest = write \o (data \o rest)
  <2>1. e.at = P /\ e.length = k
    BY <1>3, <1>4, <1>5, <1>6
  <2>2. /\ write = RingWrite(L, e.at, Buffer(e.length))
        /\ data = RingWrite(L, e.at + ElementHeaderLength, d)
    BY <1>13, <2>1
  <2>3. /\ IsList(write) /\ IsList(data) /\ IsList(data \o rest)
        /\ WriteElement(L, e, d) \o rest = write \o (data \o rest)
    <3>1. WriteParts(L, e, d, rest, write, data)
      BY <2>2, WriteElementIs
    <3> QED
      BY <3>1 DEF WriteParts
  <2> QED
    BY <1>3, <2>3
<1>16. ASSUME NEW g, AddStage(g, m, q, L, p, Q, all, j),
              \A y \in 0..(ElementHeaderLength - 1) :
                 Place(L, p, o + y) \in DOMAIN g.cells /\ g.cells[Place(L, p, o + y)] = CellOf(d, y)
       PROVE  Good(g, m, data \o rest, failed, q, Q)
  <2>1. SafeThroughout(g, Ring(L, D, 0, k), m, q, Q) /\ IsFile(g)
    BY <1>8, <1>12, <1>16
  <2>2. ASSUME NEW h, Touches(g, h, Ring(L, D, 0, k)), Wrote(h, L, D, k, d)
        PROVE  Good(h, m, rest, failed, q, Q)
    <3>1. AddStage(h, m, q, L, p, Q, all, j)
      BY <1>8, <1>11, <1>16, <2>2
    <3>2. ASSUME NEW y \in 0..(ElementHeaderLength - 1)
          PROVE  /\ Place(L, p, o + y) \in DOMAIN h.cells
                 /\ h.cells[Place(L, p, o + y)] = CellOf(d, y)
      BY <1>9, <1>16, <2>2 DEF Touches
    <3>3. ASSUME NEW y \in ElementHeaderLength..(ElementHeaderLength + k - 1)
          PROVE  /\ Place(L, p, o + y) \in DOMAIN h.cells
                 /\ h.cells[Place(L, p, o + y)] = CellOf(d, y)
      <4>1. PICK x \in 0..(k - 1) : x = y - ElementHeaderLength
        BY <1>10
      <4>2. Place(L, D, x) = Place(L, p, o + y)
        BY <1>10, <4>1
      <4>3. Place(L, D, x) \in DOMAIN h.cells /\ h.cells[Place(L, D, x)] = d[x + 1]
        BY <2>2 DEF Wrote
      <4>4. CellOf(d, y) = d[x + 1]
        <5>1. ~(y < ElementHeaderLength)
          BY <1>4, Lengths
        <5> QED
          BY <4>1, <5>1 DEF CellOf
      <4> QED
        BY <4>2, <4>3, <4>4
    <3>4. AddStage(h, m, q, L, p, Q, all, j + 1)
      BY <1>2, <1>3, <1>4, <1>5, <3>1, <3>2, <3>3, StageNext, SMTT(30)
    <3> QED
      BY <3>4 DEF GoodAtStage
  <2>3. GoodOnceWritten(g, L, D, k, d, m, rest, failed, q, Q)
    BY <2>2 DEF GoodOnceWritten
  <2> QED
    BY <1>1, <1>4, <1>8, <1>13, <2>1, <2>3, RingWriteGood
<1>17. IsData(Buffer(k), HeaderLength)
       /\ \A y \in 0..(ElementHeaderLength - 1) : Buffer(k)[y + 1] = CellOf(d, y)
  BY <1>4, BufferIs
<1>18. SafeThroughout(f, Ring(L, P, 0, HeaderLength), m, q, Q) /\ IsFile(f)
  BY <1>8, <1>12
<1>19. ASSUME NEW g, Touches(f, g, Ring(L, P, 0, HeaderLength)),
              Wrote(g, L, P, HeaderLength, Buffer(k))
       PROVE  Good(g, m, data \o rest, failed, q, Q)
  <2>1. AddStage(g, m, q, L, p, Q, all, j)
    BY <1>8, <1>11, <1>19
  <2>2. ASSUME NEW y \in 0..(ElementHeaderLength - 1)
        PROVE  /\ Place(L, p, o + y) \in DOMAIN g.cells
               /\ g.cells[Place(L, p, o + y)] = CellOf(d, y)
    <3>1. y \in 0..(HeaderLength - 1) /\ Place(L, P, y) = Place(L, p, o + y)
      BY <1>9
    <3>2. Place(L, P, y) \in DOMAIN g.cells /\ g.cells[Place(L, P, y)] = Buffer(k)[y + 1]
      BY <1>19, <3>1 DEF Wrote
    <3> QED
      BY <1>17, <3>1, <3>2
  <2> QED
    BY <1>16, <2>1, <2>2
<1>20. GoodOnceWritten(f, L, P, HeaderLength, Buffer(k), m, data \o rest, failed, q, Q)
  BY <1>19 DEF GoodOnceWritten
<1>21. HeaderLength \in Nat
  BY Lengths
<1>22. Good(f, m, write \o (data \o rest), failed, q, Q)
  BY <1>1, <1>8, <1>13, <1>14, <1>17, <1>18, <1>20, <1>21, RingWriteGood
<1> QED
  BY <1>14, <1>22

-----------------------------------------------------------------------------
(* Adding elements for which there is room *)

\* The queue holds q, the elements of es fit behind it.
Room(f, m, q, es, off, more) ==
    /\ Safe(f, m, q)
    /\ es \in Seq(Datas) /\ es # << >>
    /\ off \in Offsets(q) /\ more \in Offsets(es)
    /\ UsedBytes(m) + more[Len(es)] <= m.length

LEMMA Fits ==
    ASSUME NEW L \in Nat, NEW d \in Nat, NEW e \in Nat, HeaderLength + d + e <= L
    PROVE  d + e <= L - HeaderLength
  BY Lengths

LEMMA FurtherIs ==
    ASSUME NEW e \in Nat, NEW o \in Nat, NEW l \in Nat, Further(e, o, l)
    PROVE  \E y \in Nat : y = ElementHeaderLength + l /\ e = o + y
<1>1. ElementHeaderLength + l \in Nat /\ e = o + (ElementHeaderLength + l)
  BY Lengths DEF Further
<1> QED
  BY <1>1

IsSpace(m, q, off) ==
    /\ UsedBytes(m) = HeaderLength + off[Len(q)]
    /\ EndOfLast(m) = Place(m.length, m.first.at, off[Len(q)])

LEMMA SpaceIs ==
    ASSUME NEW m \in Memories, NEW cells, NEW q \in Seq(Datas), q # << >>, NEW off,
           MemoryAt(m, cells, q, off)
    PROVE  IsSpace(m, q, off)
  BY Space DEF IsSpace

LEMMA NoLength ==
    ASSUME NEW S, NEW s \in Seq(S), Len(s) = 0
    PROVE  s = << >>
  OBVIOUS

\* Where the ring begins, also when nothing is in it.
RingOf(m) == IF m.count = 0 THEN HeaderLength ELSE m.first.at

RoomIs(f, m, q, es, off, more, L, p, n, k, Q, all) ==
    /\ IsJoin(q, es, off, more, n, k, Q, all)
    /\ Adds(m, q, off, L, p, Q, all)
    /\ AddStage(f, m, q, L, p, Q, all, n)
    /\ n \in Nat /\ k \in Nat \ {0} /\ m.count = n
    /\ (IF m.count = 0 THEN HeaderLength ELSE EndOfLast(m)) = Place(L, p, all[n])

LEMMA RoomFacts ==
    ASSUME NEW f, NEW m, NEW q, NEW es, NEW off, NEW more, Room(f, m, q, es, off, more),
           NEW L, L = m.length, NEW p, p = RingOf(m), NEW n, n = Len(q), NEW k, k = Len(es),
           NEW Q, Q = q \o es, NEW all, all = JoinOffsets(off, more, n, k)
    PROVE  RoomIs(f, m, q, es, off, more, L, p, n, k, Q, all)
<1>1. /\ Safe(f, m, q) /\ m \in Memories /\ MemoryHolds(m, f.cells, q)
      /\ q \in Seq(Datas) /\ es \in Seq(Datas) /\ es # << >>
      /\ off \in Offsets(q) /\ more \in Offsets(es)
      /\ UsedBytes(m) + more[k] <= L
  BY DEF Room, Safe
<1>2. L \in Nat /\ HeaderLength < L
  BY <1>1, Lengths DEF Memories
<1>3. n \in Nat /\ k \in Nat \ {0}
  BY <1>1
<1>4. IsJoin(q, es, off, more, n, k, Q, all)
  BY <1>1, JoinFacts
<1>5. /\ Q \in Seq(Datas) /\ Len(Q) = n + k
      /\ \A i \in 1..n : Q[i] = q[i]
      /\ all \in Offsets(Q)
      /\ \A i \in 0..n : all[i] = off[i]
      /\ \A i \in 0..k : all[n + i] = off[n] + more[i]
  BY <1>4 DEF IsJoin
<1>6. PICK d \in Nat, e \in Nat : d = off[n] /\ e = more[k] /\ all[n] = d /\ all[n + k] = d + e
  <2>1. n \in 0..n /\ k \in 0..k
    BY <1>3
  <2>2. off[n] \in Nat /\ more[k] \in Nat
    BY <1>1, <2>1 DEF Offsets
  <2> QED
    BY <1>5, <2>1, <2>2
<1>7. m.count = n
  <2>1. HeaderHolds(HeaderOf(m), f.cells, q)
    BY <1>1 DEF MemoryHolds
  <2> QED
    BY <2>1 DEF HeaderHolds, HeaderOf
<1>8. /\ q # << >> => m.first.at = p
      /\ p \in HeaderLength..(L - 1)
      /\ UsedBytes(m) = HeaderLength + d
      /\ (IF m.count = 0 THEN HeaderLength ELSE EndOfLast(m)) = Place(L, p, d)
      /\ Laid(f.cells, L, p, q, off, n)
  <2>1. CASE n = 0
    <3>1. q = << >> /\ p = HeaderLength /\ UsedBytes(m) = HeaderLength
      <4>1. q = << >>
        BY <1>1, <2>1, NoLength
      <4>2. m.count = 0
        BY <1>7, <2>1
      <4> QED
        BY <4>1, <4>2 DEF RingOf, UsedBytes
    <3>2. d = 0
      BY <1>1, <1>6, <2>1 DEF Offsets
    <3>3. p \in HeaderLength..(L - 1)
      BY <1>2, <3>1, Lengths
    <3>4. Place(L, p, d) = p
      BY <1>2, <3>2, <3>3, PlaceHere
    <3>5. Laid(f.cells, L, p, q, off, n)
      BY <2>1 DEF Laid
    <3>6. UsedBytes(m) = HeaderLength + d
      BY <3>1, <3>2, Lengths
    <3> QED
      BY <1>7, <2>1, <3>1, <3>3, <3>4, <3>5, <3>6
  <2>2. CASE n # 0
    <3>1. q # << >> /\ p = m.first.at
      BY <1>1, <1>7, <2>2 DEF RingOf
    <3>2. PICK other : MemoryAt(m, f.cells, q, other)
      BY <1>1, <3>1, SafeAt
    <3>3. RingHolds(f.cells, L, p, q, other)
      BY <3>1, <3>2 DEF MemoryAt
    <3>4. other = off
      <4>1. other \in Offsets(q)
        BY <3>3 DEF RingHolds
      <4> QED
        BY <1>1, <4>1, OffsetsUnique
    <3>5. p \in HeaderLength..(L - 1) /\ Laid(f.cells, L, p, q, off, n)
      BY <3>3, <3>4, RingIsLaid
    <3>6. MemoryAt(m, f.cells, q, off)
      BY <3>2, <3>4
    <3>7. UsedBytes(m) = HeaderLength + off[n] /\ EndOfLast(m) = Place(L, p, off[n])
      <4>1. IsSpace(m, q, off)
        BY <1>1, <3>1, <3>6, SpaceIs
      <4> QED
        BY <3>1, <4>1 DEF IsSpace
    <3> QED
      BY <1>6, <1>7, <2>2, <3>1, <3>5, <3>7
  <2> QED
    BY <2>1, <2>2
<1>9. all[Len(Q)] <= L - HeaderLength
  <2>1. HeaderLength + d + e <= L
    BY <1>1, <1>6, <1>8
  <2>2. d + e <= L - HeaderLength
    BY <1>2, <1>6, <2>1, Fits
  <2> QED
    BY <1>5, <1>6, <2>2
<1>10. Len(q) <= Len(Q)
  BY <1>3, <1>5
<1>11. Adds(m, q, off, L, p, Q, all)
  BY <1>1, <1>2, <1>5, <1>6, <1>8, <1>9, <1>10 DEF Adds
<1>12. Laid(f.cells, L, p, Q, all, n)
  <2>1. ASSUME NEW i \in 1..n, NEW y \in 0..(ElementHeaderLength + Len(Q[i]) - 1)
        PROVE  /\ Place(L, p, all[i - 1] + y) \in DOMAIN f.cells
               /\ f.cells[Place(L, p, all[i - 1] + y)] = CellOf(Q[i], y)
    <3>1. i - 1 \in 0..n
      BY <1>3
    <3>2. all[i - 1] = off[i - 1] /\ Q[i] = q[i]
      BY <1>5, <3>1
    <3> QED
      BY <1>8, <3>2 DEF Laid
  <2> QED
    BY <2>1 DEF Laid
<1>13. AddStage(f, m, q, L, p, Q, all, n)
  BY <1>1, <1>12 DEF AddStage
<1> QED
  BY <1>3, <1>4, <1>6, <1>7, <1>8, <1>11, <1>13 DEF RoomIs

\* Each element is put where the one before it ends.
LEMMA PlacedFacts ==
    ASSUME NEW f, NEW m, NEW q, NEW es, NEW off, NEW more, NEW L, NEW p, NEW n, NEW k, NEW Q,
           NEW all, k = Len(es), RoomIs(f, m, q, es, off, more, L, p, n, k, Q, all)
    PROVE  Placed(m, es) = [i \in 1..k |-> [at |-> Place(L, p, all[n + (i - 1)]),
                                            length |-> Len(es[i])]]
<1>1. /\ Adds(m, q, off, L, p, Q, all)
      /\ IsJoin(q, es, off, more, n, k, Q, all)
      /\ n \in Nat /\ k \in Nat
      /\ (IF m.count = 0 THEN HeaderLength ELSE EndOfLast(m)) = Place(L, p, all[n])
  BY DEF RoomIs
<1>2. /\ L = m.length /\ L \in Nat /\ p \in HeaderLength..(L - 1)
      /\ Q \in Seq(Datas) /\ all \in Offsets(Q) /\ all[Len(Q)] <= L - HeaderLength
  BY <1>1 DEF Adds
<1>3. Len(Q) = n + k /\ \A i \in 1..k : Q[n + i] = es[i]
  BY <1>1 DEF IsJoin
<1>4. /\ all \in [0..(n + k) -> Nat]
      /\ \A i \in 1..(n + k) : /\ Len(Q[i]) \in Nat
                               /\ all[i] = all[i - 1] + ElementHeaderLength + Len(Q[i])
      /\ \A i, j \in 0..(n + k) : i <= j => all[i] <= all[j]
  BY <1>2, <1>3, OffsetsFacts
<1>5. PICK pos : pos = [i \in 0..k |-> Place(L, p, all[n + i])]
  OBVIOUS
<1>6. pos[0] = Place(L, p, all[n])
  <2>1. n + 0 = n /\ 0 \in 0..k
    BY <1>1
  <2> QED
    BY <1>5, <2>1
<1>7. ASSUME NEW i \in 1..k
      PROVE  pos[i] = WrapPosition(L, pos[i - 1] + ElementHeaderLength + Len(es[i]))
  <2>1. /\ i \in 0..k /\ i - 1 \in 0..k /\ n + i \in 1..(n + k) /\ (n + i) - 1 = n + (i - 1)
        /\ n + (i - 1) \in 0..(n + k) /\ n + i \in 0..(n + k) /\ n + k \in 0..(n + k)
        /\ n + i <= n + k
    BY <1>1
  <2>2. PICK o \in Nat, l \in Nat, e \in Nat, t \in Nat :
          /\ o = all[n + (i - 1)] /\ l = Len(es[i]) /\ e = all[n + i] /\ t = all[n + k]
          /\ e = o + ElementHeaderLength + l /\ e <= t /\ t <= L - HeaderLength
    <3>1. all[n + (i - 1)] \in Nat /\ all[n + i] \in Nat /\ all[n + k] \in Nat
      BY <1>4, <2>1
    <3>2. all[n + i] = all[n + (i - 1)] + ElementHeaderLength + Len(Q[n + i]) /\ Len(Q[n + i]) \in Nat
      BY <1>4, <2>1
    <3>3. all[n + i] <= all[n + k]
      BY <1>4, <2>1
    <3> QED
      BY <1>2, <1>3, <3>1, <3>2, <3>3
  <2>3. PICK y \in Nat : y = ElementHeaderLength + l /\ e = o + y /\ o + y <= L - HeaderLength
    <3>1. PICK y \in Nat : y = ElementHeaderLength + l /\ e = o + y
      <4>1. Further(e, o, l)
        BY <2>2 DEF Further
      <4> QED
        BY <2>2, <4>1, FurtherIs
    <3>2. e <= L - HeaderLength
      <4>1. e \in Nat /\ t \in Nat /\ e <= t /\ t <= L - HeaderLength /\ L \in Nat
        BY <1>2, <2>2
      <4> QED
        BY <4>1, Lengths
    <3> QED
      BY <3>1, <3>2
  <2>4. pos[i - 1] = Place(L, p, o) /\ pos[i] = Place(L, p, e)
    BY <1>5, <2>1, <2>2
  <2>5. Place(L, Place(L, p, o), y) = Place(L, p, e)
    BY <1>2, <2>3, PlaceTwice, SMTT(30)
  <2>6. PICK P \in Nat : P = Place(L, p, o)
    <3>1. o \in 0..(L - HeaderLength)
      BY <1>2, <2>3, Lengths
    <3>2. Place(L, p, o) \in HeaderLength..(L - 1)
      BY <1>2, <3>1, PlaceRange
    <3> QED
      BY <3>2, Lengths
  <2>7. P + ElementHeaderLength + l = P + y
    BY <2>3, Lengths
  <2>8. WrapPosition(L, P + ElementHeaderLength + l) = Place(L, P, y)
    BY <2>7 DEF Place
  <2> QED
    BY <2>2, <2>4, <2>5, <2>6, <2>8
<1>8. pos = [i \in 0..k |-> IF i = 0 THEN (IF m.count = 0 THEN HeaderLength ELSE EndOfLast(m))
                            ELSE WrapPosition(m.length,
                                   pos[i - 1] + ElementHeaderLength + Len(es[i]))]
  <2>1. ASSUME NEW i \in 0..k
        PROVE  pos[i] = IF i = 0 THEN (IF m.count = 0 THEN HeaderLength ELSE EndOfLast(m))
                        ELSE WrapPosition(m.length,
                               pos[i - 1] + ElementHeaderLength + Len(es[i]))
    <3>1. CASE i = 0
      BY <1>1, <1>6, <3>1
    <3>2. CASE i # 0
      <4>1. i \in 1..k
        BY <1>1, <3>2
      <4> QED
        BY <1>2, <1>7, <3>2, <4>1
    <3> QED
      BY <3>1, <3>2
  <2> QED
    BY <1>5, <2>1
<1>9. Placed(m, es) = [i \in 1..k |-> [at |-> pos[i - 1], length |-> Len(es[i])]]
  <2>1. PlacesOf(pos, m, es, k)
    BY <1>8 DEF PlacesOf
  <2>2. PlacedBy(pos, m, es, k)
    BY <1>1, <2>1, PlacedByPlaces
  <2> QED
    BY <2>2 DEF PlacedBy
<1>10. \A i \in 1..k : pos[i - 1] = Place(L, p, all[n + (i - 1)])
  <2>1. \A i \in 1..k : i - 1 \in 0..k
    BY <1>1
  <2> QED
    BY <1>5, <2>1
<1> QED
  BY <1>9, <1>10

IsAdded(x, L, p, Q, all) ==
    /\ x \in Memories /\ HeaderOf(x) \in Headers /\ x.length = L
    /\ \A cells : Laid(cells, L, p, Q, all, Len(Q)) => MemoryAt(x, cells, Q, all)

PlacesAre(m, es, L, p, all, n, k) ==
    Placed(m, es) = [i \in 1..k |-> [at |-> Place(L, p, all[n + (i - 1)]), length |-> Len(es[i])]]

LEMMA PlacesAreThere ==
    ASSUME NEW f, NEW m, NEW q, NEW es, NEW off, NEW more, NEW L, NEW p, NEW n, NEW k, NEW Q,
           NEW all, k = Len(es), RoomIs(f, m, q, es, off, more, L, p, n, k, Q, all)
    PROVE  PlacesAre(m, es, L, p, all, n, k)
  BY PlacedFacts DEF PlacesAre

LEMMA AddedFacts ==
    ASSUME NEW f, NEW m, NEW q, NEW es, NEW off, NEW more, Room(f, m, q, es, off, more),
           NEW L, NEW p, NEW n, NEW k, NEW Q, NEW all, p = RingOf(m), k = Len(es), n = Len(q),
           RoomIs(f, m, q, es, off, more, L, p, n, k, Q, all)
    PROVE  IsAdded(Added(m, es), L, p, Q, all)
<1>1. /\ Adds(m, q, off, L, p, Q, all)
      /\ IsJoin(q, es, off, more, n, k, Q, all)
      /\ n \in Nat /\ k \in Nat \ {0} /\ m.count = n
  BY DEF RoomIs
<1>2. /\ L = m.length /\ L \in Nat /\ p \in HeaderLength..(L - 1) /\ m \in Memories
      /\ Q \in Seq(Datas) /\ all \in Offsets(Q) /\ all[Len(Q)] <= L - HeaderLength
  BY <1>1 DEF Adds
<1>3. /\ Len(Q) = n + k
      /\ \A i \in 1..n : Q[i] = q[i]
      /\ \A i \in 1..k : Q[n + i] = es[i]
  BY <1>1 DEF IsJoin
<1>4. /\ all \in [0..(n + k) -> Nat] /\ all[0] = 0
      /\ \A i \in 1..(n + k) : Len(Q[i]) \in Nat
      /\ \A i, j \in 0..(n + k) : i <= j => all[i] <= all[j]
  BY <1>2, <1>3, OffsetsFacts
<1>5. \A i \in 1..k : Placed(m, es)[i] = [at |-> Place(L, p, all[n + (i - 1)]), length |-> Len(es[i])]
  <2>1. PlacesAre(m, es, L, p, all, n, k)
    BY PlacesAreThere
  <2> QED
    BY <2>1 DEF PlacesAre
<1>6. ASSUME NEW i \in 0..(n + k)
      PROVE  /\ Place(L, p, all[i]) \in HeaderLength..(L - 1)
             /\ Place(L, p, all[i]) \in Nat /\ Place(L, p, all[i]) < L
  <2>1. n + k \in 0..(n + k) /\ i <= n + k
    BY <1>1
  <2>2. PICK a \in Nat, b \in Nat : a = all[i] /\ b = all[n + k] /\ a <= b
    BY <1>4, <2>1
  <2>3. a \in 0..(L - HeaderLength)
    <3>1. b <= L - HeaderLength /\ L \in Nat
      BY <1>2, <1>3, <2>2
    <3> QED
      BY <2>2, <3>1, Lengths
  <2>4. Place(L, p, a) \in HeaderLength..(L - 1)
    BY <1>2, <2>3, PlaceRange
  <2> QED
    BY <1>2, <2>2, <2>4, Lengths, SMTT(30)
<1>7. PICK P, l \in Nat :
        /\ P = Place(L, p, all[Len(Q) - 1]) /\ l = Len(Q[Len(Q)])
        /\ Placed(m, es)[k] = [at |-> P, length |-> l]
        /\ P \in Nat /\ P < L
  <2>1. /\ k \in 1..k /\ n + (k - 1) = (n + k) - 1 /\ n + (k - 1) \in 0..(n + k)
        /\ n + k \in 1..(n + k)
    BY <1>1
  <2>2. Len(Q[n + k]) \in Nat /\ Q[n + k] = es[k]
    BY <1>3, <1>4, <2>1
  <2>3. Placed(m, es)[k] = [at |-> Place(L, p, all[n + (k - 1)]), length |-> Len(es[k])]
    BY <1>5, <2>1
  <2>4. Place(L, p, all[n + (k - 1)]) \in Nat /\ Place(L, p, all[n + (k - 1)]) < L
    BY <1>6, <2>1
  <2> QED
    BY <1>3, <2>1, <2>2, <2>3, <2>4
<1>8. PICK first \in Spots : /\ first = (IF m.count = 0 THEN Placed(m, es)[1] ELSE m.first)
                             /\ first.at = p /\ first.length = Len(Q[1])
  <2>1. CASE n = 0
    <3>1. 1 \in 1..k /\ n + (1 - 1) = 0 /\ n + 1 = 1 /\ 1 \in 1..(n + k)
      BY <1>1, <2>1
    <3>2. Placed(m, es)[1] = [at |-> Place(L, p, all[0]), length |-> Len(es[1])]
      BY <1>5, <3>1
    <3>3. Place(L, p, all[0]) = p /\ p \in Nat
      BY <1>2, <1>4, PlaceHere, Lengths
    <3>4. es[1] = Q[1] /\ Len(Q[1]) \in Nat
      BY <1>3, <1>4, <3>1
    <3>5. PICK first : first = [at |-> p, length |-> Len(Q[1])]
      OBVIOUS
    <3>6. first \in Spots /\ first.at = p /\ first.length = Len(Q[1])
      BY <3>3, <3>4, <3>5 DEF Spots
    <3>7. first = (IF m.count = 0 THEN Placed(m, es)[1] ELSE m.first)
      BY <1>1, <2>1, <3>2, <3>3, <3>4, <3>5
    <3> QED
      BY <3>6, <3>7
  <2>2. CASE n # 0
    <3>1. q # << >>
      BY <2>2
    <3>2. PICK other : MemoryAt(m, f.cells, q, other)
      BY <3>1, SafeAt DEF Room
    <3>3. m.first.length = Len(q[1])
      BY <3>2 DEF MemoryAt
    <3>4. 1 \in 1..n
      BY <1>1, <2>2
    <3>5. Q[1] = q[1]
      BY <1>3, <3>4
    <3>6. m.first.at = p
      BY <1>1, <2>2 DEF RingOf
    <3>7. m.first \in Spots
      BY <1>2 DEF Memories
    <3>8. m.first = (IF m.count = 0 THEN Placed(m, es)[1] ELSE m.first)
      BY <1>1, <2>2
    <3> QED
      BY <3>3, <3>5, <3>6, <3>7, <3>8
  <2> QED
    BY <2>1, <2>2
<1>9. PICK last \in Spots : last = [at |-> P, length |-> l] /\ last.at = P /\ last.length = l
  <2>1. PICK last : last = [at |-> P, length |-> l]
    OBVIOUS
  <2>2. last \in Spots /\ last.at = P /\ last.length = l
    BY <1>7, <2>1 DEF Spots
  <2> QED
    BY <2>1, <2>2
<1>10. PICK x : x = Added(m, es)
  OBVIOUS
<1>11. x = [length |-> L, count |-> n + k, first |-> first, last |-> last]
  <2>1. x = [m EXCEPT !.count = n + k, !.first = first, !.last = last]
    BY <1>1, <1>7, <1>8, <1>9, <1>10 DEF Added
  <2> QED
    BY <1>2, <2>1 DEF Memories
<1>12. L \in InitialLength..MaxLength /\ n + k \in Nat
  BY <1>1, <1>2 DEF Memories
<1>13. x \in Memories
  BY <1>8, <1>9, <1>11, <1>12 DEF Memories
<1>14. HeaderOf(x) = [length |-> L, count |-> n + k, first |-> p, last |-> P]
  BY <1>8, <1>9, <1>11 DEF HeaderOf
<1>15. HeaderOf(x) \in Headers
  <2>1. p \in Nat /\ p < L
    BY <1>2, Lengths
  <2> QED
    BY <1>7, <1>12, <1>14, <2>1 DEF Headers
<1>16. ASSUME NEW cells, Laid(cells, L, p, Q, all, Len(Q))
       PROVE  MemoryAt(x, cells, Q, all)
  <2>1. RingHolds(cells, L, p, Q, all)
    BY <1>2, <1>16, RingIsLaid
  <2>2. /\ x.count = Len(Q) /\ x.length = L /\ x.first.at = p /\ x.first.length = Len(Q[1])
        /\ x.last.at = Place(L, p, all[Len(Q) - 1]) /\ x.last.length = Len(Q[Len(Q)])
    BY <1>3, <1>7, <1>8, <1>9, <1>11
  <2> QED
    BY <2>1, <2>2 DEF MemoryAt
<1>17. x.length = L
  BY <1>11
<1> QED
  BY <1>10, <1>13, <1>15, <1>16, <1>17 DEF IsAdded

LEMMA PlainWrites ==
    /\ \A L, p, data : IsList(RingWrite(L, p, data)) /\ Plain(RingWrite(L, p, data))
    /\ \A length, count, first, last, sync, x :
          /\ IsList(WriteHeader(length, count, first, last, sync, x))
          /\ Plain(WriteHeader(length, count, first, last, sync, x))
<1>1. ASSUME NEW a, NEW b, a.call # "erase", b.call # "erase"
      PROVE  IsList(<< a, b >>) /\ Plain(<< a, b >>)
  <2>1. << a, b >> = << a >> \o << b >>
    BY Pair
  <2>2. IsList(<< a >>) /\ Plain(<< a >>) /\ IsList(<< b >>) /\ Plain(<< b >>)
    BY <1>1, Lists
  <2> QED
    BY <2>1, <2>2, Concat
<1>2. \A at, data : SetCells(at, data).call # "erase"
  BY DEF SetCells
<1>3. ASSUME NEW L, NEW p, NEW data
      PROVE  IsList(RingWrite(L, p, data)) /\ Plain(RingWrite(L, p, data))
  <2>1. \A at, d : IsList(<< SetCells(at, d) >>) /\ Plain(<< SetCells(at, d) >>)
    BY <1>2, Lists
  <2>2. \A at, d, at2, d2 : /\ IsList(<< SetCells(at, d), SetCells(at2, d2) >>)
                            /\ Plain(<< SetCells(at, d), SetCells(at2, d2) >>)
    BY <1>1, <1>2
  <2>3. PICK at, d, d1, d2 :
          \/ RingWrite(L, p, data) = << SetCells(at, d) >>
          \/ RingWrite(L, p, data) = << SetCells(at, d1), SetCells(HeaderLength, d2) >>
    BY Zenon DEF RingWrite
  <2>4. CASE RingWrite(L, p, data) = << SetCells(at, d) >>
    BY <2>1, <2>4
  <2>5. CASE RingWrite(L, p, data) = << SetCells(at, d1), SetCells(HeaderLength, d2) >>
    BY <2>2, <2>5
  <2> QED
    BY <2>3, <2>4, <2>5
<1>4. ASSUME NEW length, NEW count, NEW first, NEW last, NEW sync, NEW x
      PROVE  /\ IsList(WriteHeader(length, count, first, last, sync, x))
             /\ Plain(WriteHeader(length, count, first, last, sync, x))
  <2>1. PICK h : h = [length |-> length, count |-> count, first |-> first, last |-> last]
    OBVIOUS
  <2>2. PICK a, b, c, s : /\ a = << [call |-> "commit"], SetHeader(h) >>
                          /\ s = << Synchronize >> /\ c = << Then("uncommit", x) >>
                          /\ b = IF sync THEN s ELSE << >>
    OBVIOUS
  <2>3. IsList(a) /\ Plain(a)
    BY <1>1, <2>2, Effects
  <2>4. IsList(s) /\ Plain(s) /\ IsList(c) /\ Plain(c)
    BY <2>2, Effects, Lists
  <2>5. IsList(b) /\ Plain(b)
    BY <2>2, <2>4, Lists
  <2>6. IsList(a \o b) /\ Plain(a \o b)
    BY <2>3, <2>5, Concat
  <2>7. IsList((a \o b) \o c) /\ Plain((a \o b) \o c)
    BY <2>4, <2>6, Concat
  <2>8. WriteHeader(length, count, first, last, sync, x) = (a \o b) \o c
    BY <2>1, <2>2 DEF WriteHeader
  <2> QED
    BY <2>7, <2>8
<1> QED
  BY <1>3, <1>4

\* The calls that write the last k elements of es and then the header, for each k.
CallsFrom(c, m, es) ==
    /\ \A k \in 0..Len(es) : IsList(c[k]) /\ Plain(c[k])
    /\ c[0] = WriteHeader(m.length, Added(m, es).count, Added(m, es).first.at,
                          Added(m, es).last.at, TRUE, Added(m, es))
    /\ \A k \in 1..Len(es) :
          c[k] = WriteElement(m.length, Placed(m, es)[Len(es) - k + 1], es[Len(es) - k + 1])
                   \o c[k - 1]

LEMMA WriteElementsIs ==
    ASSUME NEW m, NEW es \in Seq(Datas)
    PROVE  \E c : WriteElements(m, es) = c[Len(es)] /\ CallsFrom(c, m, es)
<1>1. PICK n \in Nat : n = Len(es)
  OBVIOUS
<1>2. PICK x, place : x = Added(m, es) /\ place = Placed(m, es)
  OBVIOUS
<1>3. PICK a : a = WriteHeader(m.length, x.count, x.first.at, x.last.at, TRUE, x)
  OBVIOUS
<1>4. PICK w : w = [i \in 1..n |-> WriteElement(m.length, place[i], es[i])]
  OBVIOUS
<1>5. ASSUME NEW i \in 1..n PROVE IsList(w[i]) /\ Plain(w[i])
  <2>1. PICK s, t : /\ s = RingWrite(m.length, place[i].at, Buffer(place[i].length))
                    /\ t = RingWrite(m.length, place[i].at + ElementHeaderLength, es[i])
    OBVIOUS
  <2>2. w[i] = s \o t
    BY <1>4, <2>1 DEF WriteElement
  <2>3. IsList(s) /\ Plain(s) /\ IsList(t) /\ Plain(t)
    BY <2>1, PlainWrites
  <2> QED
    BY <2>2, <2>3, Concat
<1>6. IsList(a) /\ Plain(a)
  BY <1>3, PlainWrites
<1>7. PICK d : JoinedTo(d, n, a, w)
  <2>1. AllLists(w, n)
    BY <1>5 DEF AllLists
  <2> QED
    BY <1>6, <2>1, JoinedCalls
<1>8. PICK c : c = CHOOSE calls : calls =
        [k \in 0..n |-> IF k = 0 THEN a
                        ELSE WriteElement(m.length, place[n - k + 1], es[n - k + 1]) \o calls[k - 1]]
  OBVIOUS
<1>9. \A k \in 1..n : w[n - k + 1] = WriteElement(m.length, place[n - k + 1], es[n - k + 1])
  <2>1. \A k \in 1..n : n - k + 1 \in 1..n
    OBVIOUS
  <2> QED
    BY <1>4, <2>1
<1>10. \A k \in 0..n : k # 0 => k \in 1..n
  OBVIOUS
<1>11. d = [k \in 0..n |-> IF k = 0 THEN a
              ELSE WriteElement(m.length, place[n - k + 1], es[n - k + 1]) \o d[k - 1]]
  <2>1. d = [k \in 0..n |-> IF k = 0 THEN a ELSE w[n - k + 1] \o d[k - 1]]
    BY <1>7 DEF JoinedTo
  <2> QED
    BY <1>9, <1>10, <2>1
<1>12. c = [k \in 0..n |-> IF k = 0 THEN a
              ELSE WriteElement(m.length, place[n - k + 1], es[n - k + 1]) \o c[k - 1]]
  BY <1>8, <1>11
<1>13. c[0] = a
  BY <1>12
<1>14. \A k \in 1..n :
          c[k] = WriteElement(m.length, place[n - k + 1], es[n - k + 1]) \o c[k - 1]
  <2> SUFFICES ASSUME NEW k \in 1..n
               PROVE  c[k] = WriteElement(m.length, place[n - k + 1], es[n - k + 1]) \o c[k - 1]
    OBVIOUS
  <2>1. k \in 0..n /\ k # 0
    OBVIOUS
  <2> QED
    BY <1>12, <2>1
<1>15. \A k \in 1..n : c[k] = w[n - k + 1] \o c[k - 1]
  BY <1>9, <1>14
<1>16. PICK S : S = {k \in Nat : k <= n => IsList(c[k]) /\ Plain(c[k])}
  OBVIOUS
<1>17. 0 \in S
  BY <1>6, <1>13, <1>16
<1>18. ASSUME NEW k \in Nat, k \in S PROVE k + 1 \in S
  <2> SUFFICES ASSUME k + 1 <= n PROVE IsList(c[k + 1]) /\ Plain(c[k + 1])
    BY <1>16
  <2>1. k + 1 \in 1..n /\ (k + 1) - 1 = k /\ k <= n /\ n - (k + 1) + 1 \in 1..n
    OBVIOUS
  <2>2. PICK u : u = w[n - (k + 1) + 1]
    OBVIOUS
  <2>3. c[k + 1] = u \o c[k]
    BY <1>15, <2>1, <2>2
  <2>4. IsList(u) /\ Plain(u)
    BY <1>5, <2>1, <2>2
  <2>5. IsList(c[k]) /\ Plain(c[k])
    BY <1>16, <1>18, <2>1
  <2> QED
    BY <2>3, <2>4, <2>5, Concat
<1>19. Nat \subseteq S
  BY <1>17, <1>18, Induction
<1>20. \A k \in 0..n : IsList(c[k]) /\ Plain(c[k])
  BY <1>16, <1>19
<1>21. CallsFrom(c, m, es)
  BY <1>1, <1>2, <1>3, <1>13, <1>14, <1>20 DEF CallsFrom
<1>22. WriteElements(m, es) = c[n]
  BY <1>1, <1>2, <1>3, <1>8 DEF WriteElements
<1> QED
  BY <1>1, <1>21, <1>22

\* The header is the last that is written.
LEMMA LastWriteGood ==
    ASSUME NEW m, NEW q, NEW L, NEW p, NEW Q \in Seq(Datas), Q # << >>, NEW all,
           NEW x, IsAdded(x, L, p, Q, all), NEW failed,
           NEW g, AddStage(g, m, q, L, p, Q, all, Len(Q))
    PROVE  Good(g, m, WriteHeader(L, x.count, x.first.at, x.last.at, TRUE, x), failed, q, Q)
<1>1. /\ Safe(g, m, q) /\ IsFile(g) /\ g.exists /\ m \in Memories
      /\ Laid(g.cells, L, p, Q, all, Len(Q))
  BY DEF AddStage, Safe
<1>2. PICK h : h = HeaderOf(x)
  OBVIOUS
<1>3. /\ x \in Memories /\ h \in Headers
      /\ h = [length |-> L, count |-> x.count, first |-> x.first.at, last |-> x.last.at]
  BY <1>2 DEF IsAdded, HeaderOf
<1>4. MemoryAt(x, g.cells, Q, all)
  BY <1>1 DEF IsAdded
<1>5. MemoryHolds(x, g.cells, Q)
  BY <1>4, MemoryIsAt
<1>6. ASSUME NEW b \in BOOLEAN PROVE Safe(Committed(g, h, b), x, Q)
  <2>1. IsFile(Committed(g, h, b))
    BY <1>1, <1>3, CommittedFacts
  <2>2. /\ Committed(g, h, b).exists = g.exists /\ Committed(g, h, b).header = h
        /\ Committed(g, h, b).cells = g.cells
    BY DEF Committed
  <2> QED
    BY <1>1, <1>2, <1>3, <1>5, <2>1, <2>2 DEF Safe, Agree
<1>7. Good(Committed(g, h, FALSE), x, << >>, failed, q, Q)
  <2>1. ~Committed(g, h, FALSE).commit /\ Committed(g, h, FALSE).header = HeaderOf(x)
    BY <1>2 DEF Committed
  <2> QED
    BY <1>6, <2>1, GoodEnd
<1>8. Good(Committed(g, h, TRUE), x, << >>, TRUE, q, Q)
  BY <1>6, GoodEnd
<1>9. PICK s : s = WriteHeader(L, x.count, x.first.at, x.last.at, TRUE, x)
  OBVIOUS
<1>10. IsList(s)
  BY <1>9, PlainWrites
<1>11. Writable(g, m, x, << >>, q)
  BY <1>1 DEF Writable
<1>12. IsList(<< >>)
  BY DEF IsList
<1>13. Good(g, m, s \o << >>, failed, q, Q)
  <2>1. HeaderOf(m) \in Headers
    BY <1>1, SafePlaced
  <2> QED
    BY <1>1, <1>3, <1>7, <1>8, <1>9, <1>11, <1>12, <2>1, WriteHeaderGood
<1>14. s \o << >> = s
  BY <1>10 DEF IsList
<1> QED
  BY <1>9, <1>13, <1>14

\* Elements for which there is room are added completely or not at all.
LEMMA AddedGood ==
    ASSUME NEW f, NEW m, NEW q, NEW es, NEW off, NEW more, Room(f, m, q, es, off, more),
           NEW c, CallsFrom(c, m, es), NEW failed
    PROVE  Good(f, m, c[Len(es)], failed, q, q \o es)
<1>1. PICK L, p, n, k, Q, all :
        /\ L = m.length /\ p = RingOf(m) /\ n = Len(q) /\ k = Len(es)
        /\ Q = q \o es /\ all = JoinOffsets(off, more, n, k)
  OBVIOUS
<1>2. RoomIs(f, m, q, es, off, more, L, p, n, k, Q, all)
  BY <1>1, RoomFacts
<1>3. /\ IsJoin(q, es, off, more, n, k, Q, all)
      /\ Adds(m, q, off, L, p, Q, all)
      /\ AddStage(f, m, q, L, p, Q, all, n)
      /\ n \in Nat /\ k \in Nat \ {0} /\ m.count = n
  BY <1>2 DEF RoomIs
<1>4. Q \in Seq(Datas) /\ Len(Q) = n + k /\ \A i \in 1..k : Q[n + i] = es[i]
  BY <1>3 DEF IsJoin
<1>5. Q # << >>
  BY <1>3, <1>4
<1>6. PICK x : x = Added(m, es)
  OBVIOUS
<1>7. IsAdded(x, L, p, Q, all)
  BY <1>1, <1>2, <1>6, AddedFacts
<1>8. PICK place : place = Placed(m, es)
  OBVIOUS
<1>9. \A i \in 1..k : place[i] = [at |-> Place(L, p, all[n + (i - 1)]), length |-> Len(es[i])]
  <2>1. PlacesAre(m, es, L, p, all, n, k)
    BY <1>1, <1>2, PlacesAreThere
  <2> QED
    BY <1>8, <2>1 DEF PlacesAre
<1>10. /\ \A i \in 0..k : IsList(c[i])
       /\ c[0] = WriteHeader(L, x.count, x.first.at, x.last.at, TRUE, x)
       /\ \A i \in 1..k : c[i] = WriteElement(L, place[k - i + 1], es[k - i + 1]) \o c[i - 1]
  BY <1>1, <1>6, <1>8 DEF CallsFrom
<1>11. PICK S : S = {i \in Nat : i <= k =>
                       GoodAtStage(m, q, L, p, Q, all, n + (k - i), c[i], failed)}
  OBVIOUS
<1>12. 0 \in S
  <2>1. GoodAtStage(m, q, L, p, Q, all, Len(Q), c[0], failed)
    <3>1. ASSUME NEW g, AddStage(g, m, q, L, p, Q, all, Len(Q))
          PROVE  Good(g, m, WriteHeader(L, x.count, x.first.at, x.last.at, TRUE, x), failed, q, Q)
      BY <1>4, <1>5, <1>7, <3>1, LastWriteGood, Zenon
    <3> QED
      BY <1>10, <3>1 DEF GoodAtStage
  <2>2. n + (k - 0) = Len(Q)
    BY <1>3, <1>4
  <2> QED
    BY <1>11, <2>1, <2>2
<1>13. ASSUME NEW i \in Nat, i \in S PROVE i + 1 \in S
  <2> SUFFICES ASSUME i + 1 <= k
               PROVE  GoodAtStage(m, q, L, p, Q, all, n + (k - (i + 1)), c[i + 1], failed)
    BY <1>11
  <2>1. PICK j, y : j = n + (k - (i + 1)) /\ y = k - i
    OBVIOUS
  <2>2. /\ j \in Len(q)..(Len(Q) - 1) /\ j + 1 = n + (k - i) /\ i <= k
        /\ i \in 0..k /\ i + 1 \in 1..k /\ (i + 1) - 1 = i /\ k - (i + 1) + 1 = y
        /\ y \in 1..k /\ n + y = j + 1 /\ n + (y - 1) = j
    BY <1>1, <1>3, <1>4, <2>1
  <2>3. GoodAtStage(m, q, L, p, Q, all, j + 1, c[i], failed)
    BY <1>11, <1>13, <2>2
  <2>4. Q[j + 1] = es[y]
    BY <1>4, <2>2
  <2>5. c[i + 1] = WriteElement(L, place[y], Q[j + 1]) \o c[i]
    BY <1>10, <2>2, <2>4
  <2>6. place[y] = [at |-> Place(L, p, all[j]), length |-> Len(Q[j + 1])]
    BY <1>9, <2>2, <2>4
  <2>7. IsList(c[i])
    BY <1>10, <2>2
  <2>8. ASSUME NEW g, AddStage(g, m, q, L, p, Q, all, j)
        PROVE  Good(g, m, c[i + 1], failed, q, Q)
    <3>1. PICK e : e = place[y]
      OBVIOUS
    <3>2. Good(g, m, WriteElement(L, e, Q[j + 1]) \o c[i], failed, q, Q)
      BY <1>3, <2>2, <2>3, <2>6, <2>7, <2>8, <3>1, ElementGood
    <3> QED
      BY <2>5, <3>1, <3>2
  <2> QED
    BY <2>1, <2>8 DEF GoodAtStage
<1>14. k \in S
  BY <1>3, <1>12, <1>13, Induction
<1>15. GoodAtStage(m, q, L, p, Q, all, n + (k - k), c[k], failed)
  BY <1>3, <1>11, <1>14
<1>16. n + (k - k) = n
  BY <1>3
<1> QED
  BY <1>1, <1>3, <1>15, <1>16 DEF GoodAtStage

-----------------------------------------------------------------------------
(* A file that grows *)

Grows(m, L, requested) ==
    /\ L \in Nat /\ 2 * m.length <= L /\ L <= MaxLength
    /\ UsedBytes(m) + requested <= L

LEMMA Products ==
    ASSUME NEW L \in Nat, NEW d \in Nat, d >= 2
    PROVE  d * L \in Nat /\ 2 * L <= d * L /\ (d - 1) * L = d * L - L
<1>1. PICK c \in Nat : d = c + 2
  <2>1. d - 2 \in Nat /\ d = (d - 2) + 2
    OBVIOUS
  <2> QED
    BY <2>1
<1>2. c * L \in Nat /\ d * L = c * L + 2 * L /\ (d - 1) * L = c * L + L
  <2>1. c * L \in Nat
    OBVIOUS
  <2>2. (c + 2) * L = c * L + 2 * L /\ ((c + 2) - 1) * L = c * L + L
    OBVIOUS
  <2> QED
    BY <1>1, <2>1, <2>2
<1> QED
  BY <1>2

\* The doubling ends, and what it ends with has room.
LEMMA DoubledFacts ==
    ASSUME NEW m \in Memories, NEW u \in Nat, u = UsedBytes(m), u <= m.length,
           NEW requested \in Nat, ~(RemainingBytes(m) >= requested),
           NEW N, N = Doubled(m, requested), N <= MaxLength
    PROVE  Grows(m, N, requested)
<1>1. PICK L \in Nat : L = m.length /\ L >= 1
  BY Lengths DEF Memories
<1>2. PICK free \in Nat : free = RemainingBytes(m) /\ free = L - u
  BY <1>1 DEF RemainingBytes
<1>3. requested \in Nat \ {0} /\ requested \in 1..requested
  BY <1>2
<1>4. PICK S : S = {k \in 1..requested : free + (Doubling[k] - 1) * L >= requested}
  OBVIOUS
<1>5. requested \in S
  <2>1. PICK d \in Nat : d = Doubling[requested] /\ d >= requested + 1
    BY <1>3, DoublingDef, DoublingGrows
  <2>2. PICK b \in Nat : b = d - 1 /\ b >= requested
    BY <2>1
  <2>3. b * L >= b /\ b * L \in Nat
    BY <1>1
  <2>4. (Doubling[requested] - 1) * L = b * L
    BY <2>1, <2>2
  <2>5. free + b * L >= requested
    BY <2>2, <2>3
  <2> QED
    BY <1>3, <1>4, <2>4, <2>5
<1>6. S \subseteq Nat
  BY <1>4
<1>7. PICK a \in S : \A j \in S : a <= j
  BY <1>5, <1>6, Least
<1>8. a \in 1..requested /\ \A j \in 1..(a - 1) : j \notin S
  BY <1>4, <1>7
<1>9. PICK k : k = CHOOSE i \in 1..requested :
                     /\ RemainingBytes(m) + (Doubling[i] - 1) * m.length >= requested
                     /\ \A j \in 1..(i - 1) :
                          ~(RemainingBytes(m) + (Doubling[j] - 1) * m.length >= requested)
  OBVIOUS
<1>10. /\ RemainingBytes(m) + (Doubling[a] - 1) * m.length >= requested
       /\ \A j \in 1..(a - 1) :
            ~(RemainingBytes(m) + (Doubling[j] - 1) * m.length >= requested)
  <2>1. \A j \in 1..(a - 1) : j \in 1..requested
    BY <1>8
  <2> QED
    BY <1>1, <1>2, <1>4, <1>8, <2>1
<1>11. /\ k \in 1..requested
       /\ RemainingBytes(m) + (Doubling[k] - 1) * m.length >= requested
  BY <1>8, <1>9, <1>10
<1>12. N = Doubling[k] * m.length
  BY <1>9 DEF Doubled
<1>13. PICK d \in Nat : d = Doubling[k] /\ d >= 2
  <2>1. k \in Nat /\ k >= 1
    BY <1>11
  <2> QED
    BY <2>1, DoublingDef, DoublingGrows
<1>14. /\ d * L \in Nat /\ 2 * L <= d * L /\ (d - 1) * L = d * L - L
  BY <1>13, Products
<1>15. N = d * L
  BY <1>1, <1>12, <1>13
<1>16. free + (d - 1) * L >= requested
  BY <1>1, <1>2, <1>11, <1>13
<1>17. u + requested <= N
  BY <1>2, <1>14, <1>15, <1>16
<1> QED
  BY <1>1, <1>14, <1>15, <1>17 DEF Grows

\* What lies outside of the ring does not matter.
LEMMA SafeAbove ==
    ASSUME NEW f, NEW m, NEW q, Safe(f, m, q), NEW L, L = m.length,
           NEW A, A \cap (HeaderLength..(L - 1)) = {}, NEW g, Touches(f, g, A)
    PROVE  Safe(g, m, q)
<1>1. CASE q = << >>
  BY <1>1, SafeKept
<1>2. CASE q # << >>
  <2>1. PICK off : MemoryAt(m, f.cells, q, off)
    BY <1>2, SafeAt
  <2>2. PICK p : p = m.first.at
    OBVIOUS
  <2>3. /\ m \in Memories /\ q \in Seq(Datas) /\ p \in HeaderLength..(L - 1)
        /\ off[Len(q)] <= L - HeaderLength
    BY <2>1, <2>2 DEF Safe, MemoryAt, RingHolds
  <2>4. PICK e \in Nat : e = off[Len(q)] /\ e <= L - HeaderLength
    BY <1>2, <2>1, <2>3, Space
  <2>5. L \in Nat
    BY <2>3, Lengths DEF Memories
  <2>6. Ring(L, p, 0, e) \subseteq HeaderLength..(L - 1)
    <3>1. ASSUME NEW x \in 0..(e - 1) PROVE Place(L, p, x) \in HeaderLength..(L - 1)
      <4>1. x \in 0..(L - HeaderLength)
        BY <2>4, <2>5, Lengths
      <4> QED
        BY <2>3, <2>5, <4>1, PlaceRange
    <3> QED
      BY <3>1 DEF Ring
  <2>7. Ring(m.length, m.first.at, 0, off[Len(q)]) \cap A = {}
    BY <2>2, <2>4, <2>6
  <2> QED
    BY <2>1, <2>7, SafeKept
<1> QED
  BY <1>1, <1>2

LEMMA SafeResized ==
    ASSUME NEW f, NEW m, NEW q, Safe(f, m, q), NEW N \in Nat, m.length <= N,
           NEW g, g = Resized(f, N)
    PROVE  Safe(g, m, q)
<1>1. IsFile(f) /\ m \in Memories
  BY DEF Safe
<1>2. PICK L \in Nat : L = m.length
  BY <1>1, Lengths DEF Memories
<1>3. PICK A : A = {a \in DOMAIN f.cells : ~(a < N)}
  OBVIOUS
<1>4. Touches(f, g, A)
  BY <1>1, <1>3, ResizedKeeps DEF Touches
<1>5. A \cap (HeaderLength..(L - 1)) = {}
  BY <1>2, <1>3, Lengths
<1> QED
  BY <1>2, <1>4, <1>5, SafeAbove

\* The cells of the ring, one behind the other.
Moves(old, new, L, p, e) ==
    \A x \in 0..(e - 1) : p + x \in DOMAIN new /\ new[p + x] = old[Place(L, p, x)]

PlaceStraight(N, p, x) == Place(N, p, x) = p + x

LEMMA StraightBelow ==
    ASSUME NEW N \in Nat, NEW p \in Nat, NEW x \in Nat, p + x < N
    PROVE  PlaceStraight(N, p, x)
  BY DEF Place, WrapPosition, PlaceStraight

\* A ring laid out straight is one in a longer file.
LEMMA MovedHolds ==
    ASSUME NEW old, NEW new, NEW L \in Nat, NEW p, NEW q \in Seq(Datas), q # << >>, NEW off,
           RingHolds(old, L, p, q, off), NEW N \in Nat, 2 * L <= N,
           NEW t, t = off[Len(q)], Moves(old, new, L, p, t)
    PROVE  RingHolds(new, N, p, q, off)
<1>1. /\ off \in Offsets(q) /\ p \in HeaderLength..(L - 1) /\ t <= L - HeaderLength
      /\ Laid(old, L, p, q, off, Len(q))
  BY RingIsLaid
<1>2. PICK n \in Nat : n = Len(q)
  OBVIOUS
<1>3. t \in Nat /\ p \in Nat /\ p \in HeaderLength..(N - 1) /\ t <= N - HeaderLength
      /\ \A x \in 0..(t - 1) : p + x < N
  <2>1. t \in Nat
    <3>1. n \in 0..n
      BY <1>2
    <3> QED
      BY <1>1, <1>2, <3>1, OffsetsFacts
  <2> QED
    BY <1>1, <2>1, Lengths
<1>4. ASSUME NEW i \in 1..n, NEW y \in 0..(ElementHeaderLength + Len(q[i]) - 1)
      PROVE  /\ Place(N, p, off[i - 1] + y) \in DOMAIN new
             /\ new[Place(N, p, off[i - 1] + y)] = CellOf(q[i], y)
  <2>1. PICK o \in Nat, e \in Nat, k \in Nat :
          /\ o = off[i - 1] /\ e = off[i] /\ k = Len(q[i])
          /\ e = o + ElementHeaderLength + k /\ e <= t
    <3>1. i \in 1..n /\ i - 1 \in 0..n /\ i \in 0..n /\ n \in 0..n /\ i <= n
      BY <1>2
    <3>2. /\ off \in [0..n -> Nat]
          /\ off[i] = off[i - 1] + ElementHeaderLength + Len(q[i]) /\ Len(q[i]) \in Nat
          /\ off[i] <= off[n]
      BY <1>1, <1>2, <3>1, OffsetsFacts
    <3> QED
      BY <1>2, <3>1, <3>2
  <2>2. PICK x \in Nat : x = o + y /\ x \in 0..(t - 1)
    <3>1. y \in Nat /\ y < ElementHeaderLength + k
      BY <2>1, Lengths
    <3>2. o \in Nat /\ k \in Nat /\ o + ElementHeaderLength + k <= t
      BY <2>1
    <3>3. o + y \in 0..(t - 1)
      BY <1>3, <3>1, <3>2, Lengths
    <3> QED
      BY <3>3
  <2>3. old[Place(L, p, x)] = CellOf(q[i], y)
    BY <1>1, <1>2, <2>1, <2>2 DEF Laid
  <2>4. p + x \in DOMAIN new /\ new[p + x] = old[Place(L, p, x)]
    BY <2>2 DEF Moves
  <2>5. PlaceStraight(N, p, x)
    BY <1>3, <2>2, StraightBelow
  <2>6. Place(N, p, x) = p + x
    BY <2>5 DEF PlaceStraight
  <2> QED
    BY <2>1, <2>2, <2>3, <2>4, <2>6
<1> QED
  BY <1>1, <1>2, <1>3, <1>4 DEF RingHolds

IsGrown(m, x, N) ==
    /\ x \in Memories /\ HeaderOf(x) \in Headers
    /\ x.length = N /\ x.count = m.count /\ x.first = m.first
    /\ N \in Nat /\ m.length < N /\ 2 * m.length <= N

LastSpot(L, p, o, P, x) == x = IF p + o >= L THEN L + P - HeaderLength ELSE P
NextSpot(p, o, x) == x = p + o

LEMMA GrownLast ==
    ASSUME NEW L \in Nat, NEW p \in HeaderLength..(L - 1), NEW o \in Nat, o <= L - HeaderLength,
           NEW P, P = Place(L, p, o), NEW x, LastSpot(L, p, o, P, x)
    PROVE  NextSpot(p, o, x)
  BY Lengths DEF Place, WrapPosition, LastSpot, NextSpot

LEMMA GrownFits ==
    ASSUME NEW L \in Nat, NEW p \in HeaderLength..(L - 1), NEW o \in Nat, o <= L - HeaderLength,
           NEW N \in Nat, 2 * L <= N
    PROVE  p + o \in Nat /\ p + o < N /\ p < N
  BY Lengths

LastIs(m, off, n) ==
    /\ m.length \in Nat /\ m.first.at \in Nat /\ off[n] \in Nat /\ off[n - 1] \in Nat
    /\ off[n] <= m.length - HeaderLength /\ off[n - 1] <= off[n]
    /\ m.last.at < m.first.at <=> m.first.at + off[n - 1] >= m.length
    /\ m.last.at = Place(m.length, m.first.at, off[n - 1])

LEMMA LastFacts ==
    ASSUME NEW m \in Memories, NEW cells, NEW q \in Seq(Datas), q # << >>, NEW off,
           MemoryAt(m, cells, q, off), NEW n, n = Len(q)
    PROVE  LastIs(m, off, n)
<1>1. PICK L, p : L = m.length /\ p = m.first.at
  OBVIOUS
<1> QED
  <2>1. PICK i : i = n
    OBVIOUS
  <2>2. SpaceIn(L, p, i, m, off)
    BY <1>1, <2>1, SpaceFacts
  <2> QED
    BY <1>1, <2>1, <2>2 DEF LastIs, SpaceIn

LEMMA GrownFacts ==
    ASSUME NEW m \in Memories, NEW old, NEW q \in Seq(Datas), q # << >>, NEW off,
           MemoryAt(m, old, q, off), NEW requested, NEW N, N = Doubled(m, requested),
           Grows(m, N, requested), NEW x, x = Grown(m, requested)
    PROVE  /\ IsGrown(m, x, N)
           /\ \A new : RingHolds(new, N, m.first.at, q, off) => MemoryAt(x, new, q, off)
<1>1. PICK L \in Nat, p \in Nat, n, o \in Nat :
        /\ L = m.length /\ p = m.first.at /\ n = Len(q) /\ o = off[n - 1]
        /\ o <= L - HeaderLength
        /\ m.last.at < m.first.at <=> p + o >= L
        /\ m.last.at = Place(L, p, o)
  <2>1. PICK L, p, n : L = m.length /\ p = m.first.at /\ n = Len(q)
    OBVIOUS
  <2>2. /\ L \in Nat /\ p \in Nat /\ off[n] \in Nat /\ off[n - 1] \in Nat
        /\ off[n] <= L - HeaderLength /\ off[n - 1] <= off[n]
        /\ m.last.at < m.first.at <=> p + off[n - 1] >= L
        /\ m.last.at = Place(L, p, off[n - 1])
    <3>1. LastIs(m, off, n)
      BY <2>1, LastFacts
    <3> QED
      BY <2>1, <3>1 DEF LastIs
  <2>3. off[n - 1] <= L - HeaderLength
    BY <2>2, Lengths
  <2>4. PICK o : o = off[n - 1]
    OBVIOUS
  <2> QED
    BY <2>1, <2>2, <2>3, <2>4, SMTT(30)
<1>2. p \in HeaderLength..(L - 1)
  BY <1>1 DEF MemoryAt, RingHolds
<1>3. N \in Nat /\ 2 * L <= N /\ N <= MaxLength
  BY <1>1 DEF Grows
<1>4. PICK P : P = m.last.at
  OBVIOUS
<1>5. PICK z : z = IF m.last.at < m.first.at THEN m.length + m.last.at - HeaderLength ELSE m.last.at
  OBVIOUS
<1>6. z = p + o
  <2>1. LastSpot(L, p, o, P, z)
    BY <1>1, <1>4, <1>5 DEF LastSpot
  <2>2. L \in Nat /\ o \in Nat /\ o <= L - HeaderLength /\ P = Place(L, p, o)
    BY <1>1, <1>4
  <2>3. NextSpot(p, o, z)
    BY <1>2, <2>1, <2>2, GrownLast
  <2> QED
    BY <2>3 DEF NextSpot
<1>7. z \in Nat /\ z < N
  <2>1. p + o \in Nat /\ p + o < N
    BY <1>1, <1>2, <1>3, GrownFits
  <2> QED
    BY <1>6, <2>1
<1>8. x = [m EXCEPT !.length = N, !.last.at = z]
  BY <1>5 DEF Grown
<1>9. /\ m.length \in InitialLength..MaxLength /\ m.count \in Nat
      /\ m.first \in Spots /\ m.last \in Spots
  BY DEF Memories
<1>10. PICK last : last = [m.last EXCEPT !.at = z]
  OBVIOUS
<1>11. last \in Spots /\ last.at = z /\ last.length = m.last.length
  BY <1>7, <1>9, <1>10 DEF Spots
<1>12. x = [m EXCEPT !.length = N, !.last = last]
  BY <1>8, <1>10 DEF Memories
<1>13. N \in InitialLength..MaxLength
  BY <1>1, <1>3, <1>9, Lengths
<1>14. /\ x \in Memories /\ x.length = N /\ x.count = m.count /\ x.first = m.first
       /\ x.last = last
  BY <1>11, <1>12, <1>13 DEF Memories
<1>15. HeaderOf(x) \in Headers
  <2>1. PICK h : h = HeaderOf(x)
    OBVIOUS
  <2>2. h = [length |-> N, count |-> m.count, first |-> p, last |-> z]
    BY <1>1, <1>11, <1>14, <2>1 DEF HeaderOf
  <2>3. p < N
    BY <1>1, <1>2, <1>3, GrownFits
  <2> QED
    BY <1>1, <1>7, <1>9, <1>13, <2>1, <2>2, <2>3 DEF Headers
<1>16. m.length < N
  BY <1>1, <1>2, <1>3, Lengths, SMTT(30)
<1>17. IsGrown(m, x, N)
  BY <1>1, <1>3, <1>14, <1>15, <1>16 DEF IsGrown
<1>18. ASSUME NEW new, RingHolds(new, N, m.first.at, q, off) PROVE MemoryAt(x, new, q, off)
  <2>1. PlaceStraight(N, p, o)
    BY <1>1, <1>3, <1>6, <1>7, StraightBelow
  <2>2. x.last.at = Place(N, p, o)
    BY <1>6, <1>11, <1>14, <2>1 DEF PlaceStraight
  <2> QED
    BY <1>1, <1>11, <1>14, <1>18, <2>2 DEF MemoryAt
<1> QED
  BY <1>17, <1>18

LEMMA GrownEmpty ==
    ASSUME NEW m \in Memories, NEW old, MemoryHolds(m, old, << >>),
           NEW requested, NEW N, N = Doubled(m, requested),
           Grows(m, N, requested), NEW x, x = Grown(m, requested)
    PROVE  /\ IsGrown(m, x, N)
           /\ \A new : MemoryHolds(x, new, << >>)
<1>1. /\ m.count = 0 /\ m.first.at = 0 /\ m.last.at = 0
      /\ m.first.length = 0 /\ m.last.length = 0
  BY DEF MemoryHolds, HeaderHolds, HeaderOf
<1>2. PICK L \in Nat : L = m.length /\ HeaderLength < L /\ L \in InitialLength..MaxLength
  BY Lengths DEF Memories
<1>3. N \in Nat /\ 2 * L <= N /\ N <= MaxLength
  BY <1>2 DEF Grows
<1>4. m.first \in Spots /\ m.last \in Spots
  BY DEF Memories
<1>5. x = [m EXCEPT !.length = N, !.last.at = 0]
  BY <1>1 DEF Grown
<1>6. x = [m EXCEPT !.length = N]
  <2>1. [m.last EXCEPT !.at = 0] = m.last
    BY <1>1, <1>4 DEF Spots
  <2>2. x = [m EXCEPT !.length = N, !.last = [m.last EXCEPT !.at = 0]]
    BY <1>5 DEF Memories
  <2>3. x = [m EXCEPT !.length = N, !.last = m.last]
    BY <2>1, <2>2
  <2> QED
    BY <2>3 DEF Memories
<1>7. N \in InitialLength..MaxLength /\ L < N
  BY <1>2, <1>3, Lengths
<1>8. /\ x \in Memories /\ x.length = N /\ x.count = m.count /\ x.first = m.first
      /\ x.last = m.last
  BY <1>6, <1>7 DEF Memories
<1>9. HeaderOf(x) = [length |-> N, count |-> 0, first |-> 0, last |-> 0]
  BY <1>1, <1>8 DEF HeaderOf
<1>10. HeaderOf(x) \in Headers
  <2>1. 0 < N
    BY <1>2, <1>7, Lengths
  <2> QED
    BY <1>7, <1>9, <2>1 DEF Headers
<1>11. IsGrown(m, x, N)
  BY <1>2, <1>3, <1>7, <1>8, <1>10 DEF IsGrown
<1>12. \A new : MemoryHolds(x, new, << >>)
  BY <1>1, <1>8, <1>9 DEF MemoryHolds, HeaderHolds
<1> QED
  BY <1>11, <1>12

LEMMA Within ==
    ASSUME NEW o \in Nat, NEW k \in Nat, NEW x \in Nat, o <= x, x < o + ElementHeaderLength + k
    PROVE  \E y : y = x - o /\ y \in 0..(ElementHeaderLength + k - 1) /\ o + y = x
  BY Lengths

LEMMA BehindTheEnd ==
    ASSUME NEW L \in Nat, NEW p \in Nat, NEW e \in Nat, NEW c \in Nat, c = p + e - L,
           NEW x \in 0..(e - 1), ~(p + x < L), NEW a, a = p + x, NEW i, i = a - L + 1
    PROVE  a \in L..(L + c - 1) /\ i \in 1..c
  OBVIOUS

\* All the cells between the first and the last element are those of elements.
LEMMA InRing ==
    ASSUME NEW cells, NEW L \in Nat, NEW p, NEW q \in Seq(Datas), NEW off,
           RingHolds(cells, L, p, q, off), NEW x \in Nat, x < off[Len(q)]
    PROVE  Place(L, p, x) \in DOMAIN cells
<1>1. off \in Offsets(q) /\ Laid(cells, L, p, q, off, Len(q))
  BY RingIsLaid
<1>2. PICK n \in Nat : n = Len(q)
  OBVIOUS
<1>3. /\ off \in [0..n -> Nat] /\ off[0] = 0
      /\ \A i \in 1..n : /\ Len(q[i]) \in Nat
                         /\ off[i] = off[i - 1] + ElementHeaderLength + Len(q[i])
  BY <1>1, <1>2, OffsetsFacts
<1>4. PICK S : S = {i \in 0..n : x < off[i]}
  OBVIOUS
<1>5. n \in S /\ S \subseteq Nat
  BY <1>2, <1>4
<1>6. PICK i \in S : \A j \in S : i <= j
  BY <1>5, Least
<1>7. i \in 1..n /\ i - 1 \in 0..n /\ i - 1 \notin S
  <2>1. i \in 0..n /\ x < off[i]
    BY <1>4, <1>6
  <2>2. i # 0
    BY <1>3, <2>1
  <2>3. i \in 1..n /\ i - 1 \in 0..n /\ ~(i <= i - 1)
    BY <2>1, <2>2
  <2> QED
    BY <1>6, <2>3
<1>8. PICK o \in Nat, k \in Nat :
        o = off[i - 1] /\ k = Len(q[i]) /\ o <= x /\ x < o + ElementHeaderLength + k
  <2>1. off[i - 1] \in Nat /\ Len(q[i]) \in Nat
    BY <1>3, <1>7
  <2>2. x < off[i] /\ ~(x < off[i - 1])
    BY <1>4, <1>6, <1>7
  <2>3. off[i] = off[i - 1] + ElementHeaderLength + Len(q[i])
    BY <1>3, <1>7
  <2> QED
    BY <2>1, <2>2, <2>3
<1>9. PICK y : y = x - o /\ y \in 0..(ElementHeaderLength + k - 1) /\ o + y = x
  BY <1>8, Within, SMTT(30)
<1>10. Place(L, p, off[i - 1] + y) \in DOMAIN cells
  BY <1>1, <1>2, <1>7, <1>8, <1>9 DEF Laid
<1> QED
  BY <1>8, <1>9, <1>10

WrapsAt(L, p, e, c, E) == c = E - HeaderLength => c \in Nat /\ c = p + e - L /\ HeaderLength + c <= p

LEMMA Wraps ==
    ASSUME NEW L \in Nat, NEW p \in HeaderLength..(L - 1), NEW e \in Nat, e <= L - HeaderLength,
           p + e >= L, NEW E, E = Place(L, p, e), NEW c
    PROVE  WrapsAt(L, p, e, c, E)
  BY Lengths DEF Place, WrapPosition, WrapsAt

\* What is read at the start of a fragmented ring is the end of what it holds.
HeadIs(cells, c, head) ==
    /\ head \in [1..c -> Cells] /\ Len(head) = c
    /\ \A k \in 1..c : head[k] = cells[HeaderLength + (k - 1)]

LEMMA HeadRead ==
    ASSUME NEW f, IsFile(f), NEW L \in Nat, NEW p, NEW q \in Seq(Datas), NEW off,
           RingHolds(f.cells, L, p, q, off), NEW e \in Nat, e = off[Len(q)],
           NEW c \in Nat, c = p + e - L, HeaderLength + c <= p,
           NEW head, head = RingRead(f.cells, L, HeaderLength, c)
    PROVE  HeadIs(f.cells, c, head)
<1>1. p \in HeaderLength..(L - 1) /\ p \in Nat /\ HeaderLength \in HeaderLength..(L - 1)
  BY Lengths DEF RingHolds
<1>2. WrapPosition(L, HeaderLength) = HeaderLength
  BY <1>1, PlaceHere
<1>3. head = [k \in 1..c |-> f.cells[WrapPosition(L, HeaderLength + k - 1)]]
  BY <1>2 DEF RingRead
<1>4. ASSUME NEW k \in 1..c
      PROVE  /\ WrapPosition(L, HeaderLength + k - 1) = HeaderLength + (k - 1)
             /\ HeaderLength + (k - 1) \in DOMAIN f.cells
  <2>1. WrapPosition(L, HeaderLength + k - 1) = HeaderLength + (k - 1)
    BY <1>1, Lengths DEF WrapPosition
  <2>2. PICK x \in Nat : x = L - p + (k - 1) /\ x < e
    <3>1. L - p + (k - 1) \in Nat /\ L - p + (k - 1) < e
      BY <1>1, Lengths
    <3> QED
      BY <3>1
  <2>3. Place(L, p, x) \in DOMAIN f.cells
    BY <2>2, InRing
  <2>4. Place(L, p, x) = HeaderLength + (k - 1)
    BY <1>1, <2>2, Lengths DEF Place, WrapPosition
  <2> QED
    BY <2>1, <2>3, <2>4
<1>5. \A k \in 1..c : head[k] = f.cells[HeaderLength + (k - 1)] /\ head[k] \in Cells
  <2> SUFFICES ASSUME NEW k \in 1..c
               PROVE  head[k] = f.cells[HeaderLength + (k - 1)] /\ head[k] \in Cells
    OBVIOUS
  <2>1. PICK a : a = HeaderLength + (k - 1)
    OBVIOUS
  <2>2. head[k] = f.cells[a] /\ a \in DOMAIN f.cells
    BY <1>3, <1>4, <2>1
  <2>3. \A z \in DOMAIN f.cells : f.cells[z] \in Cells
    BY DEF IsFile
  <2> QED
    BY <2>1, <2>2, <2>3
<1>6. head \in [1..c -> Cells]
  BY <1>3, <1>5
<1>7. Len(head) = c
  BY <1>6
<1> QED
  BY <1>5, <1>6, <1>7 DEF HeadIs

\* The head is written behind what was the end of the file.
LEMMA HeadMoves ==
    ASSUME NEW f, IsFile(f), NEW L \in Nat, NEW p, NEW q \in Seq(Datas), NEW off,
           RingHolds(f.cells, L, p, q, off), NEW e \in Nat, e = off[Len(q)],
           NEW N \in Nat, L <= N, NEW g, g = Resized(f, N),
           NEW c \in Nat, c = p + e - L, NEW head, HeadIs(f.cells, c, head),
           NEW k, CellsSet(g, k, L, c, head)
    PROVE  Moves(f.cells, k.cells, L, p, e)
<1>1. p \in HeaderLength..(L - 1) /\ p \in Nat
  BY Lengths DEF RingHolds
<1> SUFFICES ASSUME NEW x \in 0..(e - 1)
             PROVE  p + x \in DOMAIN k.cells /\ k.cells[p + x] = f.cells[Place(L, p, x)]
  BY DEF Moves
<1>2. Place(L, p, x) \in DOMAIN f.cells
  <2>1. x \in Nat /\ x < off[Len(q)]
    OBVIOUS
  <2> QED
    BY <2>1, InRing
<1>3. CASE p + x < L
  <2>1. PICK a : a = p + x
    OBVIOUS
  <2>2. Place(L, p, x) = a
    BY <1>1, <1>3, <2>1 DEF Place, WrapPosition
  <2>3. a < N /\ a \notin L..(L + c - 1)
    BY <1>1, <1>3, <2>1
  <2>4. a \in DOMAIN g.cells /\ g.cells[a] = f.cells[a]
    BY <1>2, <2>2, <2>3, ResizedKeeps, ZenonT(40)
  <2>5. a \in DOMAIN k.cells /\ k.cells[a] = g.cells[a]
    BY <2>3, <2>4 DEF CellsSet, Touches
  <2> QED
    BY <2>1, <2>2, <2>4, <2>5
<1>4. CASE ~(p + x < L)
  <2>1. PICK a, i : a = p + x /\ i = a - L + 1
    OBVIOUS
  <2>2. a \in L..(L + c - 1) /\ i \in 1..c
    BY <1>1, <1>4, <2>1, BehindTheEnd
  <2>3. a \in DOMAIN k.cells /\ k.cells[a] = head[a - L + 1]
    BY <2>2 DEF CellsSet
  <2>4. head[i] = f.cells[HeaderLength + (i - 1)]
    BY <2>2 DEF HeadIs
  <2>5. Place(L, p, x) = HeaderLength + (i - 1)
    BY <1>1, <1>4, <2>1, Lengths DEF Place, WrapPosition
  <2> QED
    BY <2>1, <2>3, <2>4, <2>5
<1> QED
  BY <1>3, <1>4

LEMMA NothingMoves ==
    ASSUME NEW f, IsFile(f), NEW L \in Nat, NEW p, NEW q \in Seq(Datas), NEW off,
           RingHolds(f.cells, L, p, q, off), NEW e \in Nat, e = off[Len(q)],
           ~(p + e >= L), NEW N \in Nat, L <= N, NEW g, g = Resized(f, N)
    PROVE  Moves(f.cells, g.cells, L, p, e)
<1>1. p \in HeaderLength..(L - 1) /\ p \in Nat
  BY Lengths DEF RingHolds
<1> SUFFICES ASSUME NEW x \in 0..(e - 1)
             PROVE  p + x \in DOMAIN g.cells /\ g.cells[p + x] = f.cells[Place(L, p, x)]
  BY DEF Moves
<1>2. Place(L, p, x) \in DOMAIN f.cells
  <2>1. x \in Nat /\ x < off[Len(q)]
    OBVIOUS
  <2> QED
    BY <2>1, InRing
<1>3. PICK a : a = p + x
  OBVIOUS
<1>4. Place(L, p, x) = a /\ a < N
  BY <1>1, <1>3 DEF Place, WrapPosition
<1>5. a \in DOMAIN g.cells /\ g.cells[a] = f.cells[a]
  BY <1>2, <1>4, ResizedKeeps
<1> QED
  BY <1>3, <1>4, <1>5

LEMMA MovesKept ==
    ASSUME NEW old, NEW k, NEW L, NEW p \in Nat, NEW e \in Nat, Moves(old, k.cells, L, p, e),
           NEW A, \A a \in A : a < p, NEW g, Touches(k, g, A)
    PROVE  Moves(old, g.cells, L, p, e)
<1> SUFFICES ASSUME NEW x \in 0..(e - 1)
             PROVE  p + x \in DOMAIN g.cells /\ g.cells[p + x] = old[Place(L, p, x)]
  BY DEF Moves
<1>1. PICK a : a = p + x
  OBVIOUS
<1>2. a \in DOMAIN k.cells /\ k.cells[a] = old[Place(L, p, x)]
  BY <1>1 DEF Moves
<1>3. ~(a < p)
  BY <1>1
<1>4. a \in DOMAIN g.cells /\ g.cells[a] = k.cells[a]
  BY <1>2, <1>3 DEF Touches
<1> QED
  BY <1>1, <1>2, <1>4

\* The file holds q for the fields that the queue will have.
Moved(g, x, q) ==
    /\ IsFile(g) /\ g.exists
    /\ x \in Memories /\ HeaderOf(x) \in Headers /\ q \in Seq(Datas)
    /\ MemoryHolds(x, g.cells, q)

LEMMA MovedSafe ==
    ASSUME NEW g, NEW x, NEW q, Moved(g, x, q), NEW h, h = HeaderOf(x), NEW b \in BOOLEAN
    PROVE  Safe(Committed(g, h, b), x, q)
<1>1. IsFile(Committed(g, h, b))
  BY CommittedFacts DEF Moved
<1>2. /\ Committed(g, h, b).exists = g.exists /\ Committed(g, h, b).header = h
      /\ Committed(g, h, b).cells = g.cells
  BY DEF Committed
<1> QED
  BY <1>1, <1>2 DEF Safe, Agree, Moved

GoodGrown(x, q, r, rest, failed) ==
    \A g : Safe(g, x, q) => Good(g, x, rest, failed, q, r) /\ Good(g, x, rest, TRUE, q, r)

LEMMA MovedGood ==
    ASSUME NEW g, NEW m \in Memories, HeaderOf(m) \in Headers, NEW x, NEW q, Moved(g, x, q), NEW h, h = HeaderOf(x),
           NEW rest, IsList(rest), Writable(g, m, x, rest, q), NEW r, NEW failed,
           GoodGrown(x, q, r, rest, failed),
           NEW w, w = WriteHeader(h.length, h.count, h.first, h.last, TRUE, x)
    PROVE  Good(g, m, w \o rest, failed, q, r) /\ IsList(w \o rest)
<1>1. /\ Safe(Committed(g, h, FALSE), x, q)
      /\ Safe(Committed(g, h, TRUE), x, q)
  BY MovedSafe
<1>2. /\ Good(Committed(g, h, FALSE), x, rest, failed, q, r)
      /\ Good(Committed(g, h, TRUE), x, rest, TRUE, q, r)
  BY <1>1 DEF GoodGrown
<1>3. IsFile(g) /\ g.exists /\ h \in Headers
  BY DEF Moved
<1>4. h = [length |-> h.length, count |-> h.count, first |-> h.first, last |-> h.last]
  BY <1>3 DEF Headers
<1> QED
  BY <1>2, <1>3, <1>4, WriteHeaderGood

\* The file is longer and the ring is not fragmented.
LEMMA LongerGood ==
    ASSUME NEW f, NEW m, NEW q, Safe(f, m, q), NEW x, NEW N, IsGrown(m, x, N), ~Fragmented(m),
           NEW g, g = Resized(f, N), Moved(g, x, q), NEW h, h = HeaderOf(x),
           NEW rest, IsList(rest), NEW r, NEW failed,
           GoodGrown(x, q, r, rest, failed),
           NEW w, w = WriteHeader(h.length, h.count, h.first, h.last, TRUE, x)
    PROVE  Good(f, m, << SetLength(N) >> \o (w \o rest), failed, q, r)
<1>1. m \in Memories /\ N \in Nat /\ m.length <= N
  BY Lengths DEF Safe, IsGrown, Memories
<1>2. Safe(g, m, q)
  BY <1>1, SafeResized
<1>3. Good(g, m, w \o rest, failed, q, r) /\ IsList(w \o rest)
  <2>1. Writable(g, m, x, rest, q)
    BY <1>2 DEF Writable
  <2>2. HeaderOf(m) \in Headers
    BY SafePlaced
  <2> QED
    BY <1>1, <2>1, <2>2, MovedGood
<1>4. PICK s : s = SetLength(N)
  OBVIOUS
<1>5. Called(f, s) = g /\ Effect(m, s) = m /\ s.call # "uncommit"
  BY <1>4 DEF SetLength, Called, Effect
<1>6. PICK t : t = w \o rest
  OBVIOUS
<1>7. Sound(f, m, << s >> \o t, failed, q, r)
  BY <1>3, <1>6, SoundSafe
<1>8. Good(f, m, << s >> \o t, failed, q, r)
  BY <1>3, <1>5, <1>6, <1>7, GoodCall
<1> QED
  BY <1>4, <1>6, <1>8

\* What the calls between the new length and the new header leave.
MovedAfter(g, m, x, q, c, head) ==
    \A k, l : /\ CellsSet(g, k, m.length, c, head)
              /\ Touches(k, l, HeaderLength..(HeaderLength + c - 1))
              => Moved(l, x, q)

FragmentedCalls(calls, m, N, head, c, w, rest) ==
    calls = << SetLength(N) >> \o (<< SetCells(m.length, head) >>
              \o (<< Erase(HeaderLength, Zeros(c)) >> \o (w \o rest)))

\* The file is longer, the head is written behind the end, and then erased.
LEMMA FragmentedGood ==
    ASSUME NEW f, NEW m, NEW q, Safe(f, m, q), NEW x, NEW N, IsGrown(m, x, N), Fragmented(m),
           NEW g, g = Resized(f, N), NEW h, h = HeaderOf(x), NEW c \in Nat,
           NEW head, head \in [1..c -> Cells], Len(head) = c, MovedAfter(g, m, x, q, c, head),
           NEW rest, IsList(rest), Plain(rest), NEW r, NEW failed,
           GoodGrown(x, q, r, rest, failed),
           NEW w, w = WriteHeader(h.length, h.count, h.first, h.last, TRUE, x),
           NEW calls, FragmentedCalls(calls, m, N, head, c, w, rest)
    PROVE  Good(f, m, calls, failed, q, r)
<1>1. /\ m \in Memories /\ N \in Nat /\ m.length \in Nat /\ m.length <= N
      /\ m.length >= HeaderLength /\ HeaderLength \in Nat /\ m.length < x.length
  BY Lengths DEF Safe, IsGrown, Memories
<1>2. Safe(g, m, q) /\ IsFile(g)
  <2>1. Safe(g, m, q)
    BY <1>1, SafeResized
  <2> QED
    BY <2>1 DEF Safe
<1>3. PICK s, move, erase, t :
        /\ s = SetLength(N) /\ move = SetCells(m.length, head)
        /\ erase = Erase(HeaderLength, Zeros(c)) /\ t = w \o rest
  OBVIOUS
<1>4. Called(f, s) = g /\ Effect(m, s) = m /\ s.call # "uncommit"
  BY <1>3 DEF SetLength, Called, Effect
<1>5. PICK k : k = Called(g, move)
  OBVIOUS
<1>6. Effect(m, move) = m /\ move.call # "uncommit" /\ CellsSet(g, k, m.length, c, head)
  BY <1>1, <1>2, <1>3, <1>5, CellsCalled
<1>7. Safe(k, m, q) /\ IsFile(k)
  <2>1. PICK A : A = m.length..(m.length + c - 1)
    OBVIOUS
  <2>2. Touches(g, k, A)
    BY <1>6, <2>1 DEF CellsSet
  <2>3. A \cap (HeaderLength..(m.length - 1)) = {}
    BY <1>1, <2>1
  <2>4. Safe(k, m, q)
    BY <1>2, <2>2, <2>3, SafeAbove
  <2> QED
    BY <2>4 DEF Safe
<1>8. PICK l : l = Called(k, erase)
  OBVIOUS
<1>9. Effect(m, erase) = m /\ erase.call # "uncommit" /\ Moved(l, x, q)
  <2>1. PICK zeros : zeros = Zeros(c)
    OBVIOUS
  <2>2. zeros \in [1..c -> Cells] /\ Len(zeros) = c
    BY <2>1, ZerosIs DEF IsData
  <2>3. HeaderLength \in Nat /\ HeaderLength >= HeaderLength
    BY <1>1
  <2>4. /\ Effect(m, erase) = m /\ erase.call # "uncommit"
        /\ CellsSet(k, l, HeaderLength, c, zeros)
    BY <1>3, <1>7, <1>8, <2>1, <2>2, <2>3, CellsCalled
  <2>5. Touches(k, l, HeaderLength..(HeaderLength + c - 1))
    BY <2>4 DEF CellsSet
  <2> QED
    BY <1>6, <2>4, <2>5 DEF MovedAfter
<1>10. Writable(l, m, x, rest, q)
  BY <1>1 DEF Writable
<1>11. Good(l, m, t, failed, q, r) /\ IsList(t)
  <2>1. HeaderOf(m) \in Headers
    BY SafePlaced
  <2> QED
    BY <1>1, <1>3, <1>9, <1>10, <2>1, MovedGood
<1>12. Good(k, m, << erase >> \o t, failed, q, r) /\ IsList(<< erase >> \o t)
  <2>1. Sound(k, m, << erase >> \o t, failed, q, r)
    BY <1>7, <1>11, SoundSafe
  <2>2. IsList(<< erase >> \o t)
    BY <1>11, Cons
  <2> QED
    BY <1>8, <1>9, <1>11, <2>1, <2>2, GoodCall
<1>13. PICK u : u = << erase >> \o t
  OBVIOUS
<1>14. Good(g, m, << move >> \o u, failed, q, r) /\ IsList(<< move >> \o u)
  <2>1. Sound(g, m, << move >> \o u, failed, q, r)
    BY <1>2, <1>12, <1>13, SoundSafe
  <2>2. IsList(<< move >> \o u)
    BY <1>12, <1>13, Cons
  <2> QED
    BY <1>5, <1>6, <1>12, <1>13, <2>1, <2>2, GoodCall
<1>15. PICK v : v = << move >> \o u
  OBVIOUS
<1>16. Sound(f, m, << s >> \o v, failed, q, r)
  BY <1>14, <1>15, SoundSafe
<1>17. Good(f, m, << s >> \o v, failed, q, r)
  BY <1>4, <1>14, <1>15, <1>16, GoodCall
<1>18. calls = << s >> \o v
  BY <1>3, <1>13, <1>15 DEF FragmentedCalls
<1> QED
  BY <1>17, <1>18

Joins(a, b, c, d) == ((a \o b) \o c) \o d = a \o (b \o (c \o d))

LEMMA Four ==
    ASSUME NEW a, NEW b, NEW c, NEW d, IsList(a), IsList(b), IsList(c), IsList(d)
    PROVE  Joins(a, b, c, d)
<1>1. PICK ab, cd : ab = a \o b /\ cd = c \o d
  OBVIOUS
<1>2. IsList(ab) /\ IsList(cd)
  BY <1>1, Concat
<1>3. (ab \o c) \o d = ab \o cd
  <2>1. (ab \o c) \o d = ab \o (c \o d)
    BY <1>2, Associative, SMTT(30)
  <2> QED
    BY <1>1, <2>1
<1>4. (a \o b) \o cd = a \o (b \o cd)
  BY <1>2, Associative, SMTT(30)
<1> QED
  BY <1>1, <1>3, <1>4 DEF Joins

GrowingCalls(calls, m, cells, N, w, rest) ==
    LET c == EndOfLast(m) - HeaderLength
    IN  /\ ~Fragmented(m) => calls = << SetLength(N) >> \o (w \o rest)
        /\ Fragmented(m) =>
             calls = << SetLength(N) >>
                       \o (<< SetCells(m.length, RingRead(cells, m.length, HeaderLength, c)) >>
                            \o (<< Erase(HeaderLength, Zeros(c)) >> \o (w \o rest)))

LEMMA ExpandCalls ==
    ASSUME NEW m, NEW cells, NEW requested, ~(RemainingBytes(m) >= requested),
           NEW x, x = Grown(m, requested), NEW N, IsGrown(m, x, N), NEW h, h = HeaderOf(x),
           NEW w, w = WriteHeader(h.length, h.count, h.first, h.last, TRUE, x),
           NEW rest, IsList(rest)
    PROVE  GrowingCalls(ExpandIfNecessary(m, cells, requested) \o rest, m, cells, N, w, rest)
<1>1. PICK c, head : /\ c = EndOfLast(m) - HeaderLength
                     /\ head = RingRead(cells, m.length, HeaderLength, c)
  OBVIOUS
<1>2. PICK s, a, b : /\ s = SetLength(N) /\ a = SetCells(m.length, head)
                     /\ b = Erase(HeaderLength, Zeros(c))
  OBVIOUS
<1>3. /\ x.length = N /\ h.length = x.length /\ h.count = m.count /\ h.first = m.first.at
      /\ h.last = x.last.at
  BY DEF IsGrown, HeaderOf
<1>4. w = WriteHeader(x.length, m.count, m.first.at, x.last.at, TRUE, x)
  BY <1>3
<1>5. PICK middle : middle = IF Fragmented(m) THEN << a, b >> ELSE << >>
  OBVIOUS
<1>6. ExpandIfNecessary(m, cells, requested) = (<< s >> \o middle) \o w
  BY <1>1, <1>2, <1>3, <1>4, <1>5 DEF ExpandIfNecessary
<1>7. IsList(<< s >>) /\ IsList(middle) /\ IsList(w)
  BY <1>5, Lists, PairIsList, PlainWrites
<1>8. PICK first, t : first = << s >> /\ t = w \o rest
  OBVIOUS
<1>9. ExpandIfNecessary(m, cells, requested) \o rest = << s >> \o (middle \o t)
  <2>1. Joins(first, middle, w, rest)
    BY <1>7, <1>8, Four
  <2> QED
    BY <1>6, <1>8, <2>1 DEF Joins
<1>10. IsList(t)
  BY <1>7, <1>8, Concat
<1>11. CASE ~Fragmented(m)
  <2>1. middle \o t = t
    BY <1>5, <1>10, <1>11, Concat, Lists
  <2> QED
    BY <1>2, <1>8, <1>9, <1>11, <2>1 DEF GrowingCalls
<1>12. CASE Fragmented(m)
  <2>1. middle = << a >> \o << b >>
    BY <1>5, <1>12, Pair
  <2>2. IsList(<< a >>) /\ IsList(<< b >>)
    BY Lists
  <2>3. PICK one, two : one = << a >> /\ two = << b >>
    OBVIOUS
  <2>4. (one \o two) \o t = one \o (two \o t)
    BY <1>10, <2>2, <2>3, Associative
  <2>5. middle \o t = << a >> \o (<< b >> \o t)
    BY <2>1, <2>3, <2>4
  <2> QED
    BY <1>1, <1>2, <1>8, <1>9, <1>12, <2>5 DEF GrowingCalls
<1> QED
  BY <1>11, <1>12

\* Where the file has moved the ring to, it holds what it held.
LEMMA GrownHolds ==
    ASSUME NEW f, NEW m, NEW q, Safe(f, m, q), q # << >>, NEW off, MemoryAt(m, f.cells, q, off),
           NEW requested, NEW N, N = Doubled(m, requested), Grows(m, N, requested),
           NEW x, x = Grown(m, requested), NEW L, L = m.length, NEW p, p = m.first.at,
           NEW g, IsFile(g), g.exists, Moves(f.cells, g.cells, L, p, off[Len(q)])
    PROVE  Moved(g, x, q)
<1>1. m \in Memories /\ q \in Seq(Datas) /\ L \in Nat
  BY Lengths DEF Safe, Memories
<1>2. RingHolds(f.cells, L, p, q, off)
  BY DEF MemoryAt
<1>3. IsGrown(m, x, N) /\ \A new : RingHolds(new, N, p, q, off) => MemoryAt(x, new, q, off)
  BY <1>1, GrownFacts
<1>4. N \in Nat /\ 2 * L <= N
  BY <1>3 DEF IsGrown
<1>5. RingHolds(g.cells, N, p, q, off)
  BY <1>1, <1>2, <1>4, MovedHolds
<1>6. MemoryHolds(x, g.cells, q)
  BY <1>3, <1>5, MemoryIsAt
<1> QED
  BY <1>1, <1>3, <1>6 DEF Moved, IsGrown

UsedIs(m, q, off) ==
    /\ off[Len(q)] \in Nat
    /\ UsedBytes(m) = HeaderLength + off[Len(q)]
    /\ UsedBytes(m) \in Nat /\ UsedBytes(m) <= m.length

LEMMA SafeUsed ==
    ASSUME NEW f, NEW m, NEW q, Safe(f, m, q), NEW off \in Offsets(q)
    PROVE  UsedIs(m, q, off)
<1>1. m \in Memories /\ q \in Seq(Datas) /\ MemoryHolds(m, f.cells, q)
  BY DEF Safe
<1>2. m.length \in Nat /\ HeaderLength <= m.length /\ HeaderLength \in Nat
  BY <1>1, Lengths DEF Memories
<1>3. CASE q = << >>
  <2>1. Len(q) = 0 /\ m.count = 0
    BY <1>1, <1>3 DEF MemoryHolds, HeaderHolds, HeaderOf
  <2>2. off[0] = 0
    BY DEF Offsets
  <2>3. UsedBytes(m) = HeaderLength
    BY <2>1 DEF UsedBytes
  <2> QED
    BY <1>2, <2>1, <2>2, <2>3 DEF UsedIs
<1>4. CASE q # << >>
  <2>1. PICK other : MemoryAt(m, f.cells, q, other)
    BY <1>4, SafeAt
  <2>2. other \in Offsets(q)
    BY <2>1 DEF MemoryAt, RingHolds
  <2>3. other = off
    BY <1>1, <2>2, OffsetsUnique
  <2>4. PICK L, p, n : L = m.length /\ p = m.first.at /\ n = Len(q)
    OBVIOUS
  <2>5. SpaceIn(L, p, n, m, off)
    BY <1>1, <1>4, <2>1, <2>3, <2>4, SpaceFacts
  <2>6. off[n] \in Nat /\ off[n] <= L - HeaderLength /\ UsedBytes(m) = HeaderLength + off[n]
    BY <2>5 DEF SpaceIn
  <2> QED
    BY <1>2, <2>4, <2>6 DEF UsedIs
<1> QED
  BY <1>3, <1>4

\* What an empty queue does with a longer file.
LEMMA GrownEmptyGood ==
    ASSUME NEW f, NEW m, Safe(f, m, << >>), NEW requested,
           NEW N, N = Doubled(m, requested), Grows(m, N, requested),
           NEW x, x = Grown(m, requested), NEW h, h = HeaderOf(x),
           NEW rest, IsList(rest), NEW r, NEW failed, GoodGrown(x, << >>, r, rest, failed),
           NEW w, w = WriteHeader(h.length, h.count, h.first, h.last, TRUE, x),
           NEW calls, GrowingCalls(calls, m, f.cells, N, w, rest)
    PROVE  Good(f, m, calls, failed, << >>, r)
<1>1. m \in Memories /\ MemoryHolds(m, f.cells, << >>) /\ IsFile(f) /\ f.exists
      /\ << >> \in Seq(Datas)
  BY DEF Safe
<1>2. IsGrown(m, x, N) /\ \A new : MemoryHolds(x, new, << >>)
  BY <1>1, GrownEmpty
<1>3. ~Fragmented(m)
  <2>1. m.first.at = 0 /\ m.last.at = 0 /\ m.last.length = 0
    BY <1>1 DEF MemoryHolds, HeaderHolds, HeaderOf
  <2>2. m.length \in Nat /\ ElementHeaderLength < m.length
    BY <1>1, Lengths DEF Memories
  <2>3. EndOfLast(m) = ElementHeaderLength
    BY <2>1, <2>2, Lengths DEF EndOfLast, NextPosition, WrapPosition
  <2> QED
    BY <2>1, <2>3, Lengths DEF Fragmented
<1>4. PICK g : g = Resized(f, N)
  OBVIOUS
<1>5. Moved(g, x, << >>)
  <2>1. N \in Nat
    BY <1>2 DEF IsGrown
  <2>2. IsFile(g) /\ g.exists
    BY <1>1, <1>4, <2>1, ResizedKeeps
  <2> QED
    BY <1>1, <1>2, <2>2 DEF Moved, IsGrown
<1>6. calls = << SetLength(N) >> \o (w \o rest)
  BY <1>3 DEF GrowingCalls
<1> QED
  BY <1>2, <1>3, <1>4, <1>5, <1>6, LongerGood

\* And a queue that holds something.
LEMMA GrownRingGood ==
    ASSUME NEW f, NEW m, NEW q, Safe(f, m, q), q # << >>, NEW requested,
           NEW N, N = Doubled(m, requested), Grows(m, N, requested),
           NEW x, x = Grown(m, requested), NEW h, h = HeaderOf(x),
           NEW rest, IsList(rest), Plain(rest), NEW r, NEW failed,
           GoodGrown(x, q, r, rest, failed),
           NEW w, w = WriteHeader(h.length, h.count, h.first, h.last, TRUE, x),
           NEW calls, GrowingCalls(calls, m, f.cells, N, w, rest)
    PROVE  Good(f, m, calls, failed, q, r)
<1>1. m \in Memories /\ q \in Seq(Datas) /\ IsFile(f) /\ f.exists
  BY DEF Safe
<1>2. PICK off : MemoryAt(m, f.cells, q, off)
  BY SafeAt
<1>3. PICK L, p, n, e : L = m.length /\ p = m.first.at /\ n = Len(q) /\ e = off[n]
  OBVIOUS
<1>4. SpaceIn(L, p, n, m, off)
  BY <1>1, <1>2, <1>3, SpaceFacts
<1>5. /\ L \in Nat /\ p \in Nat /\ e \in Nat /\ e <= L - HeaderLength
      /\ EndOfLast(m) = Place(L, p, e)
      /\ Fragmented(m) <=> p + e >= L
  BY <1>3, <1>4 DEF SpaceIn
<1>6. RingHolds(f.cells, L, p, q, off) /\ p \in HeaderLength..(L - 1)
  BY <1>2, <1>3 DEF MemoryAt, RingHolds
<1>7. IsGrown(m, x, N)
  BY <1>1, <1>2, GrownFacts
<1>8. N \in Nat /\ L <= N
  BY <1>3, <1>5, <1>7 DEF IsGrown
<1>9. PICK g : g = Resized(f, N)
  OBVIOUS
<1>10. IsFile(g) /\ g.exists
  BY <1>1, <1>8, <1>9, ResizedKeeps
<1>11. ASSUME NEW l, IsFile(l), l.exists, Moves(f.cells, l.cells, L, p, e)
       PROVE  Moved(l, x, q)
  BY <1>2, <1>3, <1>11, GrownHolds
<1>12. CASE ~Fragmented(m)
  <2>1. ~(p + e >= L)
    BY <1>5, <1>12
  <2>2. Moves(f.cells, g.cells, L, p, e)
    BY <1>1, <1>3, <1>5, <1>6, <1>8, <1>9, <2>1, NothingMoves
  <2>3. Moved(g, x, q)
    BY <1>10, <1>11, <2>2
  <2>4. calls = << SetLength(N) >> \o (w \o rest)
    BY <1>12 DEF GrowingCalls
  <2> QED
    BY <1>7, <1>9, <1>12, <2>3, <2>4, LongerGood
<1>13. CASE Fragmented(m)
  <2>1. PICK c, E : E = EndOfLast(m) /\ c = E - HeaderLength
    OBVIOUS
  <2>2. c \in Nat /\ c = p + e - L /\ HeaderLength + c <= p
    <3>1. WrapsAt(L, p, e, c, E)
      BY <1>5, <1>6, <1>13, <2>1, Wraps
    <3> QED
      BY <2>1, <3>1 DEF WrapsAt
  <2>3. PICK head : head = RingRead(f.cells, L, HeaderLength, c)
    OBVIOUS
  <2>4. HeadIs(f.cells, c, head)
    BY <1>1, <1>3, <1>5, <1>6, <2>2, <2>3, HeadRead
  <2>5. ASSUME NEW k, NEW l, CellsSet(g, k, L, c, head),
               Touches(k, l, HeaderLength..(HeaderLength + c - 1))
        PROVE  Moved(l, x, q)
    <3>1. Moves(f.cells, k.cells, L, p, e)
      BY <1>1, <1>3, <1>5, <1>6, <1>8, <1>9, <2>2, <2>4, <2>5, HeadMoves
    <3>2. PICK A : A = HeaderLength..(HeaderLength + c - 1)
      OBVIOUS
    <3>3. \A a \in A : a < p
      BY <1>5, <2>2, <3>2, Lengths
    <3>4. Moves(f.cells, l.cells, L, p, e)
      BY <1>5, <2>5, <3>1, <3>2, <3>3, MovesKept
    <3>5. IsFile(l) /\ l.exists
      BY <1>10, <2>5 DEF CellsSet, Touches
    <3> QED
      BY <1>11, <3>4, <3>5
  <2>6. MovedAfter(g, m, x, q, c, head)
    BY <1>3, <2>5 DEF MovedAfter
  <2>7. head \in [1..c -> Cells] /\ Len(head) = c
    BY <2>4 DEF HeadIs
  <2>8. FragmentedCalls(calls, m, N, head, c, w, rest)
    BY <1>3, <1>13, <2>1, <2>3 DEF GrowingCalls, FragmentedCalls
  <2> QED
    BY <1>7, <1>9, <1>13, <2>2, <2>6, <2>7, <2>8, FragmentedGood
<1> QED
  BY <1>12, <1>13

\* The doubled length has room for the request.
LEMMA GrownIs ==
    ASSUME NEW f, NEW m, NEW q, Safe(f, m, q), NEW requested \in Nat,
           ~(RemainingBytes(m) >= requested), NEW N, N = Doubled(m, requested), N <= MaxLength,
           NEW x, x = Grown(m, requested)
    PROVE  Grows(m, N, requested) /\ IsGrown(m, x, N)
<1>1. m \in Memories /\ q \in Seq(Datas)
  BY DEF Safe
<1>2. PICK off \in Offsets(q) : TRUE
  BY <1>1, OffsetsExist
<1>3. UsedIs(m, q, off)
  BY <1>2, SafeUsed
<1>4. PICK u \in Nat : u = UsedBytes(m) /\ u <= m.length
  BY <1>3 DEF UsedIs
<1>5. Grows(m, N, requested)
  BY <1>1, <1>4, DoubledFacts
<1>6. IsGrown(m, x, N)
  <2>1. CASE q = << >>
    <3>1. MemoryHolds(m, f.cells, << >>)
      BY <2>1 DEF Safe
    <3> QED
      BY <1>1, <1>5, <3>1, GrownEmpty
  <2>2. CASE q # << >>
    BY <1>1, <1>5, <2>2, SafeAt, GrownFacts
  <2> QED
    BY <2>1, <2>2
<1> QED
  BY <1>5, <1>6

\* A file that grows stays safe, and so is what follows in the longer file.
LEMMA GrownGood ==
    ASSUME NEW f, NEW m, NEW q, Safe(f, m, q), NEW requested \in Nat,
           ~(RemainingBytes(m) >= requested), NEW N, N = Doubled(m, requested), N <= MaxLength,
           NEW x, x = Grown(m, requested),
           NEW rest, IsList(rest), Plain(rest), NEW r, NEW failed,
           GoodGrown(x, q, r, rest, failed)
    PROVE  Good(f, m, ExpandIfNecessary(m, f.cells, requested) \o rest, failed, q, r)
<1>1. Grows(m, N, requested) /\ IsGrown(m, x, N)
  BY GrownIs
<1>2. PICK h : h = HeaderOf(x)
  OBVIOUS
<1>3. PICK w : w = WriteHeader(h.length, h.count, h.first, h.last, TRUE, x)
  OBVIOUS
<1>4. PICK calls : calls = ExpandIfNecessary(m, f.cells, requested) \o rest
  OBVIOUS
<1>5. GrowingCalls(calls, m, f.cells, N, w, rest)
  BY <1>1, <1>2, <1>3, <1>4, ExpandCalls
<1>6. Good(f, m, calls, failed, q, r)
  <2>1. CASE q = << >>
    BY <1>1, <1>2, <1>3, <1>5, <2>1, GrownEmptyGood
  <2>2. CASE q # << >>
    BY <1>1, <1>2, <1>3, <1>5, <2>2, GrownRingGood
  <2> QED
    BY <2>1, <2>2
<1> QED
  BY <1>4, <1>6

-----------------------------------------------------------------------------
(* Adding *)

LEMMA RequestedIs ==
    ASSUME NEW es \in Seq(Datas), NEW more \in Offsets(es)
    PROVE  Requested(es) = more[Len(es)] /\ more[Len(es)] \in Nat
<1>1. PICK k \in Nat : k = Len(es)
  OBVIOUS
<1>2. PICK lengths : lengths = [i \in 1..k |-> Len(es[i])]
  OBVIOUS
<1>3. /\ more \in [0..k -> Nat] /\ more[0] = 0
      /\ \A i \in 1..k : more[i] = more[i - 1] + ElementHeaderLength + Len(es[i])
  BY <1>1 DEF Offsets
<1>4. Sums(lengths, k, more)
  BY <1>2, <1>3 DEF Sums
<1>5. Taken(lengths, k) = more[k]
  BY <1>4, TakenSums
<1>6. k \in 0..k
  OBVIOUS
<1> QED
  BY <1>1, <1>2, <1>3, <1>5, <1>6 DEF Requested

\* In a file that is long enough.
LEMMA AddThereGood ==
    ASSUME NEW f, NEW m, NEW q, Safe(f, m, q), NEW es \in Seq(Datas), es # << >>, NEW failed,
           RemainingBytes(m) >= Requested(es)
    PROVE  Good(f, m, AddElements(m, f.cells, es), failed, q, q \o es)
<1>1. m \in Memories /\ q \in Seq(Datas)
  BY DEF Safe
<1>2. PICK off, more : off \in Offsets(q) /\ more \in Offsets(es)
  BY <1>1, OffsetsExist
<1>3. PICK k, need : /\ k = Len(es) /\ need = Requested(es) /\ need = more[k] /\ need \in Nat
  BY <1>2, RequestedIs
<1>4. PICK c : WriteElements(m, es) = c[k] /\ CallsFrom(c, m, es)
  BY <1>3, WriteElementsIs
<1>5. IsList(c[k])
  <2>1. k \in Nat /\ k \in 0..Len(es)
    BY <1>3
  <2> QED
    BY <1>4, <2>1 DEF CallsFrom
<1>6. ExpandIfNecessary(m, f.cells, need) = << >>
  BY <1>3 DEF ExpandIfNecessary
<1>7. AddElements(m, f.cells, es) = << >> \o c[k]
  BY <1>3, <1>4, <1>6 DEF AddElements
<1>8. AddElements(m, f.cells, es) = c[k]
  BY <1>5, <1>7, Concat, Lists
<1>9. Room(f, m, q, es, off, more)
  <2>1. UsedIs(m, q, off)
    BY <1>2, SafeUsed
  <2>2. PICK L \in Nat, u \in Nat : L = m.length /\ u = UsedBytes(m)
    BY <1>1, <2>1, Lengths DEF UsedIs, Memories
  <2>3. L - u >= need
    BY <1>3, <2>2 DEF RemainingBytes
  <2>4. u + need <= L
    BY <1>3, <2>2, <2>3
  <2> QED
    BY <1>2, <1>3, <2>2, <2>4 DEF Room
<1> QED
  BY <1>3, <1>4, <1>8, <1>9, AddedGood

\* In a file that grows first.
LEMMA AddLongerGood ==
    ASSUME NEW f, NEW m, NEW q, Safe(f, m, q), NEW es \in Seq(Datas), es # << >>, NEW failed,
           ~(RemainingBytes(m) >= Requested(es)), Doubled(m, Requested(es)) <= MaxLength
    PROVE  Good(f, m, AddElements(m, f.cells, es), failed, q, q \o es)
<1>1. m \in Memories /\ q \in Seq(Datas)
  BY DEF Safe
<1>2. PICK off, more : off \in Offsets(q) /\ more \in Offsets(es)
  BY <1>1, OffsetsExist
<1>3. PICK k, need : /\ k = Len(es) /\ need = Requested(es) /\ need = more[k] /\ need \in Nat
  BY <1>2, RequestedIs
<1>4. PICK x, N : x = Grown(m, need) /\ N = Doubled(m, need)
  OBVIOUS
<1>5. ~(RemainingBytes(m) >= need) /\ N <= MaxLength
  BY <1>3, <1>4
<1>6. Grows(m, N, need) /\ IsGrown(m, x, N)
  BY <1>3, <1>4, <1>5, GrownIs
<1>7. PICK c : WriteElements(x, es) = c[k] /\ CallsFrom(c, x, es)
  BY <1>3, WriteElementsIs
<1>8. IsList(c[k]) /\ Plain(c[k])
  <2>1. k \in Nat /\ k \in 0..Len(es)
    BY <1>3
  <2> QED
    BY <1>7, <2>1 DEF CallsFrom
<1>9. PICK rest, Q : rest = c[k] /\ Q = q \o es
  OBVIOUS
<1>10. AddElements(m, f.cells, es) = ExpandIfNecessary(m, f.cells, need) \o rest
  BY <1>3, <1>4, <1>5, <1>7, <1>9 DEF AddElements
<1>11. ASSUME NEW g, Safe(g, x, q) PROVE Room(g, x, q, es, off, more)
  <2>1. UsedIs(m, q, off) /\ UsedIs(x, q, off)
    BY <1>2, <1>11, SafeUsed
  <2>2. UsedBytes(x) = UsedBytes(m)
    BY <2>1 DEF UsedIs
  <2>3. UsedBytes(x) + more[k] <= x.length
    BY <1>3, <1>6, <2>2 DEF Grows, IsGrown
  <2> QED
    BY <1>2, <1>3, <1>11, <2>3 DEF Room
<1>12. ASSUME NEW g, Safe(g, x, q), NEW b PROVE Good(g, x, rest, b, q, Q)
  <2>1. Room(g, x, q, es, off, more)
    BY <1>11, <1>12
  <2>2. Good(g, x, c[Len(es)], b, q, q \o es)
    BY <1>7, <2>1, AddedGood
  <2> QED
    BY <1>3, <1>9, <2>2
<1>13. GoodGrown(x, q, Q, rest, failed)
  BY <1>12 DEF GoodGrown
<1>14. Good(f, m, ExpandIfNecessary(m, f.cells, need) \o rest, failed, q, Q)
  BY <1>3, <1>4, <1>5, <1>8, <1>9, <1>13, GrownGood
<1> QED
  BY <1>9, <1>10, <1>14

\* Adding happens completely or not at all.
LEMMA AddGood ==
    ASSUME NEW f, NEW m, NEW q, Safe(f, m, q), NEW es \in Seq(Datas), es # << >>, NEW failed,
           RemainingBytes(m) < Requested(es) => Doubled(m, Requested(es)) <= MaxLength
    PROVE  Good(f, m, AddElements(m, f.cells, es), failed, q, q \o es)
<1>1. CASE RemainingBytes(m) >= Requested(es)
  BY <1>1, AddThereGood
<1>2. CASE ~(RemainingBytes(m) >= Requested(es))
  <2>1. m \in Memories /\ q \in Seq(Datas)
    BY DEF Safe
  <2>2. PICK off, more : off \in Offsets(q) /\ more \in Offsets(es)
    BY <2>1, OffsetsExist
  <2>3. Requested(es) \in Nat /\ UsedIs(m, q, off)
    BY <2>2, RequestedIs, SafeUsed
  <2>4. RemainingBytes(m) \in Int
    BY <2>1, <2>3, Lengths DEF UsedIs, Memories, RemainingBytes
  <2>5. RemainingBytes(m) < Requested(es)
    BY <1>2, <2>3, <2>4
  <2> QED
    BY <1>2, <2>5, AddLongerGood
<1> QED
  BY <1>1, <1>2

-----------------------------------------------------------------------------
(* The invariant *)

\* What a process that has ended, or has not begun, leaves in the file.
Found(f) ==
    /\ IsFile(f)
    /\ ~(f.commit /\ ~f.exists)
    /\ f.exists /\ ~f.commit => \E q \in Seq(Datas) : HeaderHolds(f.header, f.cells, q)

\* The calls of queueFileWithPath: that are left.
Opens(f, calls) ==
    \/ calls = << [call |-> "remove"], [call |-> "uncommit"], [call |-> "create"] >>
         /\ IsFile(f) /\ f.exists /\ f.commit
    \/ calls = << [call |-> "uncommit"], [call |-> "create"] >>
         /\ IsFile(f) /\ ~f.exists /\ f.commit
    \/ calls = << [call |-> "create"] >>
         /\ IsFile(f) /\ ~f.exists /\ ~f.commit
    \/ calls = << >>
         /\ Found(f) /\ f.exists /\ ~f.commit

\* No operation is under way: the queue holds what the fields and the file say.
IdleOK(f, m, failed) ==
    \E q : Safe(f, m, q) /\ (failed \/ (~f.commit /\ f.header = HeaderOf(m)))

\* An operation can stop before each of its calls.
BusyOK(f, m, calls, failed, q, operation) ==
    calls # << >> /\ Good(f, m, calls, failed, q, Promise!After(operation, q))

Sane ==
    /\ process # "open" => memory = NoMemory /\ doing = Idle /\ held = << >>
    /\ process \in {"closed", "dead"} => todo = << >> /\ Found(file)
    /\ process = "opening" => Opens(file, todo)
    /\ process = "open" /\ doing = Idle => todo = << >> /\ IdleOK(file, memory, failures > 0)
    /\ process = "open" /\ doing # Idle =>
         BusyOK(file, memory, todo, failures > 0, held, doing)

\* Once hurt, the file may hold anything.
IInv ==
    /\ process \in {"closed", "opening", "open", "dead"}
    /\ crashes \in 0..MaxCrashes /\ failures \in 0..MaxFailures /\ hurt \in BOOLEAN
    /\ ~hurt => Sane

LEMMA EmptyFile ==
    ASSUME NEW f, f = [NoFile EXCEPT !.exists = TRUE] \/ f = NoFile
    PROVE  IsFile(f) /\ Found(f) /\ ~f.commit
<1>1. PICK b \in BOOLEAN : f = [exists |-> b, commit |-> FALSE, header |-> NoHeader,
                                size |-> InitialLength, cells |-> NewCells]
  BY DEF NoFile
<1>2. NoHeader \in Headers
  BY Lengths DEF NoHeader, Headers
<1>3. NewCells \in [HeaderLength..(InitialLength - 1) -> Cells]
  BY DEF NewCells, Cells
<1>4. /\ f.exists = b /\ f.commit = FALSE /\ f.header = NoHeader
      /\ f.size = InitialLength /\ f.cells = NewCells
  BY <1>1
<1>5. InitialLength \in Nat
  BY Lengths
<1>6. IsFile(f)
  BY <1>1, <1>2, <1>3, <1>4, <1>5 DEF IsFile
<1>7. << >> \in Seq(Datas) /\ Len(<< >>) = 0
  OBVIOUS
<1>8. HeaderHolds(f.header, f.cells, << >>)
  BY <1>4, <1>7 DEF HeaderHolds, NoHeader
<1> QED
  BY <1>4, <1>6, <1>7, <1>8 DEF Found

LEMMA InitIInv == Init => IInv
<1> SUFFICES ASSUME Init PROVE IInv
  OBVIOUS
<1>1. Found(file)
  BY EmptyFile DEF Init
<1>2. MaxCrashes \in Nat /\ MaxFailures \in Nat
  BY ConstantsAssumption
<1>3. Sane
  <2>1. /\ process = "closed" /\ memory = NoMemory /\ doing = Idle /\ todo = << >> /\ held = << >>
    BY DEF Init
  <2> QED
    BY <1>1, <2>1 DEF Sane
<1>4. process = "closed" /\ crashes = 0 /\ failures = 0 /\ hurt = FALSE
  BY DEF Init
<1>5. crashes \in 0..MaxCrashes /\ failures \in 0..MaxFailures
  BY <1>2, <1>4
<1>6. hurt \in BOOLEAN /\ ~hurt
  BY <1>4
<1> QED
  BY <1>3, <1>4, <1>5, <1>6 DEF IInv

\* Whatever the queue holds, the file is one that the next process finds.
LEMMA SafeFound ==
    ASSUME NEW f, NEW m, NEW q, Safe(f, m, q)
    PROVE  Found(f)
<1>1. IsFile(f) /\ f.exists /\ q \in Seq(Datas)
  BY DEF Safe
<1> QED
  BY <1>1, SafeReads DEF Found

LEMMA OpenIInv ==
    ASSUME IInv, Open
    PROVE  IInv'
<1> SUFFICES ASSUME ~hurt PROVE Sane'
  BY DEF IInv, Open
<1>1. Sane
  BY DEF IInv
<1>2. Found(file) /\ memory = NoMemory /\ doing = Idle /\ held = << >>
  BY <1>1 DEF Sane, Open
<1>3. IsFile(file) /\ file.exists \in BOOLEAN /\ file.commit \in BOOLEAN
  BY <1>2 DEF Found, IsFile
<1>4. CASE file.commit
  <2>1. todo' = << [call |-> "remove"], [call |-> "uncommit"], [call |-> "create"] >>
    BY <1>4 DEF Open
  <2>2. Opens(file, todo')
    BY <1>2, <1>3, <1>4, <2>1 DEF Opens, Found
  <2> QED
    BY <1>2, <2>2 DEF Sane, Open
<1>5. CASE ~file.commit /\ ~file.exists
  <2>1. todo' = << [call |-> "create"] >>
    BY <1>5 DEF Open
  <2>2. Opens(file, todo')
    BY <1>2, <1>3, <1>5, <2>1 DEF Opens
  <2> QED
    BY <1>2, <2>2 DEF Sane, Open
<1>6. CASE ~file.commit /\ file.exists
  <2>1. todo' = << >>
    BY <1>6 DEF Open
  <2>2. Opens(file, todo')
    BY <1>2, <1>6, <2>1 DEF Opens
  <2> QED
    BY <1>2, <2>2 DEF Sane, Open
<1> QED
  BY <1>3, <1>4, <1>5, <1>6

LEMMA OpenFailsIInv ==
    ASSUME IInv, OpenFails
    PROVE  IInv'
<1>1. hurt
  BY DEF IInv, Sane, Found, OpenFails, Unremovable
<1> QED
  BY <1>1 DEF IInv, OpenFails

LEMMA OpenDoneIInv ==
    ASSUME IInv, OpenDone
    PROVE  IInv'
<1> SUFFICES ASSUME ~hurt PROVE Sane'
  BY DEF IInv, OpenDone
<1>1. Opens(file, todo) /\ todo = << >> /\ doing = Idle
  BY DEF IInv, Sane, OpenDone
<1>2. Found(file) /\ file.exists /\ ~file.commit
  BY <1>1 DEF Opens
<1>3. PICK q \in Seq(Datas) : HeaderHolds(file.header, file.cells, q)
  BY <1>2 DEF Found
<1>4. IsFile(file) /\ file.header \in Headers
  BY <1>2 DEF Found, IsFile
<1>5. PICK m : m = Opened(file)
  OBVIOUS
<1>6. m \in Memories /\ HeaderOf(m) = file.header /\ MemoryHolds(m, file.cells, q)
  BY <1>3, <1>4, <1>5, OpenedHolds
<1>7. Safe(file, m, q)
  BY <1>2, <1>4, <1>6 DEF Safe, Agree
<1>8. IdleOK(file, m, failures > 0)
  BY <1>2, <1>6, <1>7 DEF IdleOK
<1> QED
  BY <1>1, <1>5, <1>8 DEF Sane, OpenDone

LEMMA IdleContents ==
    ASSUME IInv, ~hurt, Ready
    PROVE  /\ Safe(file, memory, Contents) /\ todo = << >>
           /\ failures > 0 \/ (~file.commit /\ file.header = HeaderOf(memory))
<1>1. process = "open" /\ doing = Idle
  BY DEF Ready
<1>2. todo = << >> /\ IdleOK(file, memory, failures > 0)
  BY <1>1 DEF IInv, Sane
<1>3. PICK q : /\ Safe(file, memory, q)
               /\ failures > 0 \/ (~file.commit /\ file.header = HeaderOf(memory))
  BY <1>2 DEF IdleOK
<1>4. Contents = Peek(file.cells, memory.length, memory.first.at, memory.count)
  BY <1>1 DEF Contents
<1>5. Contents = q
  BY <1>3, <1>4, SafeReads
<1> QED
  BY <1>2, <1>3, <1>5

\* What one call adds.
LEMMA Given ==
    ASSUME NEW n \in 1..MaxAdd, NEW es \in [1..n -> Elements],
           NEW elements, elements = [i \in DOMAIN es |-> DataOf(es[i])]
    PROVE  elements \in Seq(Datas) /\ Len(elements) = n /\ elements # << >>
<1>1. elements = [i \in 1..n |-> DataOf(es[i])] /\ n \in Nat
  OBVIOUS
<1>2. \A i \in 1..n : DataOf(es[i]) \in Datas
  BY DEF Datas
<1>3. elements \in [1..n -> Datas]
  BY <1>1, <1>2
<1>4. elements \in Seq(Datas) /\ Len(elements) = n
  BY <1>1, <1>3
<1> QED
  BY <1>4

Longer(a, b) == Len(a) > Len(b)

LEMMA AddsSome ==
    ASSUME NEW q \in Seq(Datas), NEW e \in Seq(Datas), e # << >>
    PROVE  Longer(q \o e, q)
  BY DEF Longer

LEMMA PopsSome ==
    ASSUME NEW q \in Seq(Datas), q # << >>, NEW k \in Nat, k # 0
    PROVE  Longer(q, SubSeq(q, k + 1, Len(q)))
<1>1. Len(q) \in Nat /\ Len(q) > 0
  OBVIOUS
<1> QED
  BY <1>1 DEF Longer

LEMMA NotLonger ==
    ASSUME NEW q
    PROVE  ~Longer(q, q)
  BY DEF Longer

\* An operation that changes the queue makes at least one call.
LEMMA SomeCalls ==
    ASSUME NEW f, NEW m, NEW q, Safe(f, m, q), NEW r, NEW calls, NEW failed,
           Good(f, m, calls, failed, q, r), Longer(r, q) \/ Longer(q, r)
    PROVE  calls # << >>
<1> SUFFICES ASSUME calls = << >> PROVE FALSE
  OBVIOUS
<1>1. Safe(f, m, r)
  BY GoodIsSound DEF Sound
<1>2. q = r
  BY <1>1, SafeReads
<1> QED
  BY <1>2, NotLonger

LEMMA AddIInv ==
    ASSUME IInv, NEW n \in 1..MaxAdd, NEW es \in [1..n -> Elements], Add(es)
    PROVE  IInv'
<1> SUFFICES ASSUME ~hurt PROVE Sane'
  BY DEF IInv, Add, Start
<1>1. Ready
  BY DEF Add
<1>2. PICK q : q = Contents
  OBVIOUS
<1>3. Safe(file, memory, q)
  BY <1>1, <1>2, IdleContents
<1>4. PICK elements : elements = [i \in DOMAIN es |-> DataOf(es[i])]
  OBVIOUS
<1>5. elements \in Seq(Datas) /\ elements # << >>
  BY <1>4, Given
<1>6. PICK o : o = [op |-> "add", elements |-> elements, amount |-> 0]
  OBVIOUS
<1>7. /\ doing' = o /\ todo' = AddElements(memory, file.cells, elements) /\ held' = q
      /\ UNCHANGED <<process, file, memory, crashes, failures, hurt>>
      /\ RemainingBytes(memory) < Requested(elements)
           => Doubled(memory, Requested(elements)) <= MaxLength
  BY <1>2, <1>4, <1>6 DEF Add, Start
<1>8. PICK r : r = q \o elements
  OBVIOUS
<1>9. Good(file, memory, todo', failures > 0, q, r)
  BY <1>3, <1>5, <1>7, <1>8, AddGood
<1>10. Promise!After(o, q) = r
  BY <1>6, <1>8 DEF Promise!After
<1>11. todo' # << >>
  <2>1. q \in Seq(Datas)
    BY <1>3 DEF Safe
  <2>2. Longer(r, q)
    BY <1>5, <1>8, <2>1, AddsSome
  <2> QED
    BY <1>3, <1>9, <2>2, SomeCalls
<1>12. BusyOK(file, memory, todo', failures > 0, q, o)
  BY <1>9, <1>10, <1>11 DEF BusyOK
<1>13. process = "open" /\ o # Idle
  BY <1>1, <1>6 DEF Ready, Idle
<1> QED
  BY <1>7, <1>12, <1>13 DEF Sane

LEMMA PopIInv ==
    ASSUME IInv, NEW n \in 1..MaxPop, PopSome(n)
    PROVE  IInv'
<1> SUFFICES ASSUME ~hurt PROVE Sane'
  BY DEF IInv, PopSome, Start
<1>1. Ready /\ memory.count > 0
  BY DEF PopSome
<1>2. PICK q : q = Contents
  OBVIOUS
<1>3. Safe(file, memory, q)
  BY <1>1, <1>2, IdleContents
<1>4. q \in Seq(Datas) /\ q # << >>
  <2>1. q \in Seq(Datas) /\ memory.count = Len(q)
    BY <1>3 DEF Safe, MemoryHolds, HeaderHolds, HeaderOf
  <2> QED
    BY <1>1, <2>1
<1>5. n \in Nat /\ n # 0
  OBVIOUS
<1>6. PICK o : o = [op |-> "pop", elements |-> << >>, amount |-> n]
  OBVIOUS
<1>7. /\ doing' = o /\ todo' = Pop(memory, file.cells, n) /\ held' = q
      /\ UNCHANGED <<process, file, memory, crashes, failures, hurt>>
  BY <1>2, <1>6 DEF PopSome, Start
<1>8. PICK r : r = SubSeq(q, n + 1, Len(q))
  OBVIOUS
<1>9. Good(file, memory, todo', failures > 0, q, r)
  <2>1. /\ Good(file, memory, todo', TRUE, q, r)
        /\ Good(file, memory, todo', FALSE, q, r)
    BY <1>3, <1>4, <1>5, <1>7, <1>8, PopGood
  <2>2. CASE failures > 0
    BY <2>1, <2>2
  <2>3. CASE ~(failures > 0)
    <3>1. failures \in Int
      BY DEF IInv
    <3>2. (failures > 0) = FALSE
      BY <2>3, <3>1
    <3> QED
      BY <2>1, <3>2
  <2> QED
    BY <2>2, <2>3
<1>10. Promise!After(o, q) = r
  BY <1>6, <1>8 DEF Promise!After
<1>11. todo' # << >>
  <2>1. Longer(q, r)
    BY <1>4, <1>5, <1>8, PopsSome
  <2> QED
    BY <1>3, <1>9, <2>1, SomeCalls
<1>12. BusyOK(file, memory, todo', failures > 0, q, o)
  BY <1>9, <1>10, <1>11 DEF BusyOK
<1>13. process = "open" /\ o # Idle
  BY <1>1, <1>6 DEF Ready, Idle
<1> QED
  BY <1>7, <1>12, <1>13 DEF Sane

LEMMA SetsNothing ==
    ASSUME NEW m, NEW c, c = [call |-> "remove"] \/ c = [call |-> "uncommit"]
                           \/ c = [call |-> "create"]
    PROVE  Effect(m, c) = m
  BY DEF Effect

LEMMA OpeningCalls ==
    ASSUME NEW f, IsFile(f)
    PROVE  /\ IsFile(Called(f, [call |-> "remove"]))
           /\ ~Called(f, [call |-> "remove"]).exists
           /\ Called(f, [call |-> "remove"]).commit = f.commit
           /\ IsFile(Called(f, [call |-> "uncommit"]))
           /\ ~Called(f, [call |-> "uncommit"]).commit
           /\ Called(f, [call |-> "uncommit"]).exists = f.exists
           /\ Called(f, [call |-> "create"]) = [NoFile EXCEPT !.exists = TRUE, !.commit = f.commit]
<1>1. f = [exists |-> f.exists, commit |-> f.commit, header |-> f.header,
           size |-> f.size, cells |-> f.cells]
  BY DEF IsFile
<1>2. PICK g, h : g = Called(f, [call |-> "remove"]) /\ h = Called(f, [call |-> "uncommit"])
  OBVIOUS
<1>3. g = [f EXCEPT !.exists = FALSE] /\ h = [f EXCEPT !.commit = FALSE]
  BY <1>2 DEF Called
<1>4. g = [exists |-> FALSE, commit |-> f.commit, header |-> f.header,
           size |-> f.size, cells |-> f.cells]
  BY <1>1, <1>3
<1>5. h = [exists |-> f.exists, commit |-> FALSE, header |-> f.header,
           size |-> f.size, cells |-> f.cells]
  BY <1>1, <1>3
<1>6. IsFile(g) /\ ~g.exists /\ g.commit = f.commit
  BY <1>4 DEF IsFile
<1>7. IsFile(h) /\ ~h.commit /\ h.exists = f.exists
  BY <1>5 DEF IsFile
<1>8. Called(f, [call |-> "create"]) = [NoFile EXCEPT !.exists = TRUE, !.commit = f.commit]
  BY DEF Called
<1> QED
  BY <1>2, <1>6, <1>7, <1>8

LEMMA OpensNext ==
    ASSUME NEW f, NEW calls, Opens(f, calls), calls # << >>, NEW m
    PROVE  Opens(Called(f, Head(calls)), Tail(calls)) /\ Effect(m, Head(calls)) = m
<1>1. PICK r, u, c : r = [call |-> "remove"] /\ u = [call |-> "uncommit"] /\ c = [call |-> "create"]
  OBVIOUS
<1>2. CASE calls = << r, u, c >> /\ IsFile(f) /\ f.exists /\ f.commit
  <2>1. Head(calls) = r /\ Tail(calls) = << u, c >>
    BY <1>2
  <2>2. IsFile(Called(f, r)) /\ ~Called(f, r).exists /\ Called(f, r).commit
    BY <1>1, <1>2, OpeningCalls
  <2> QED
    BY <1>1, <2>1, <2>2, SetsNothing DEF Opens
<1>3. CASE calls = << u, c >> /\ IsFile(f) /\ ~f.exists /\ f.commit
  <2>1. Head(calls) = u /\ Tail(calls) = << c >>
    BY <1>3
  <2>2. IsFile(Called(f, u)) /\ ~Called(f, u).exists /\ ~Called(f, u).commit
    BY <1>1, <1>3, OpeningCalls
  <2> QED
    BY <1>1, <2>1, <2>2, SetsNothing DEF Opens
<1>4. CASE calls = << c >> /\ IsFile(f) /\ ~f.exists /\ ~f.commit
  <2>1. Head(calls) = c /\ Tail(calls) = << >>
    BY <1>4
  <2>2. PICK g : g = Called(f, c)
    OBVIOUS
  <2>3. g = [NoFile EXCEPT !.exists = TRUE]
    <3>1. g = [NoFile EXCEPT !.exists = TRUE, !.commit = f.commit]
      BY <1>1, <1>4, <2>2, OpeningCalls
    <3>2. f.commit = FALSE
      BY <1>4 DEF IsFile
    <3>3. PICK h : h = NoFile
      OBVIOUS
    <3>4. PICK t, w, a, b, d : /\ t = TRUE /\ w = FALSE /\ a = NoHeader
                               /\ b = InitialLength /\ d = NewCells
      OBVIOUS
    <3>5. h = [exists |-> w, commit |-> w, header |-> a, size |-> b, cells |-> d]
      BY <3>3, <3>4 DEF NoFile
    <3>6. g = [h EXCEPT !.exists = t, !.commit = w]
      BY <3>1, <3>2, <3>3, <3>4
    <3>7. g = [exists |-> t, commit |-> w, header |-> a, size |-> b, cells |-> d]
      BY <3>5, <3>6
    <3>8. [h EXCEPT !.exists = t]
            = [exists |-> t, commit |-> w, header |-> a, size |-> b, cells |-> d]
      BY <3>5
    <3>9. g = [h EXCEPT !.exists = t]
      BY <3>7, <3>8
    <3> QED
      BY <3>3, <3>4, <3>9
  <2>4. Found(g) /\ ~g.commit /\ g.exists
    BY <2>3, EmptyFile DEF NoFile
  <2> QED
    BY <1>1, <2>1, <2>2, <2>4, SetsNothing DEF Opens
<1> QED
  BY <1>1, <1>2, <1>3, <1>4 DEF Opens

\* In the end of an operation, and after a failure, the queue is idle.
LEMMA IdleIs ==
    ASSUME NEW f, NEW m, NEW q, Safe(f, m, q), NEW failed,
           failed \/ (~f.commit /\ f.header = HeaderOf(m))
    PROVE  IdleOK(f, m, failed)
  BY DEF IdleOK

\* What the rest of an operation leaves.
LEMMA RestIs ==
    ASSUME NEW f, NEW m, NEW calls, NEW failed, NEW q, NEW o,
           Good(f, m, calls, failed, q, Promise!After(o, q))
    PROVE  /\ calls # << >> => BusyOK(f, m, calls, failed, q, o)
           /\ calls = << >> => IdleOK(f, m, failed)
<1>1. Sound(f, m, calls, failed, q, Promise!After(o, q))
  BY GoodIsSound
<1>2. calls = << >> => IdleOK(f, m, failed)
  BY <1>1, IdleIs DEF Sound
<1> QED
  BY <1>2 DEF BusyOK

LEMMA StepIInv ==
    ASSUME IInv, Step
    PROVE  IInv'
<1> SUFFICES ASSUME ~hurt PROVE Sane'
  BY DEF IInv, Step
<1>1. Sane /\ todo # << >> /\ process \in {"closed", "opening", "open", "dead"}
  BY DEF IInv, Step
<1>2. PICK c : c = Head(todo)
  OBVIOUS
<1>3. /\ file' = Called(file, c) /\ memory' = Effect(memory, c) /\ todo' = Tail(todo)
      /\ doing' = IF todo' = << >> THEN Idle ELSE doing
      /\ held' = IF todo' = << >> THEN << >> ELSE held
      /\ UNCHANGED <<process, crashes, failures, hurt>>
  BY <1>2 DEF Step
<1>4. CASE process = "opening"
  <2>1. Opens(file, todo) /\ memory = NoMemory /\ doing = Idle /\ held = << >>
    BY <1>1, <1>4 DEF Sane
  <2>2. Opens(file', todo') /\ memory' = memory
    BY <1>1, <1>2, <1>3, <2>1, OpensNext
  <2>3. doing' = Idle /\ held' = << >>
    BY <1>3, <2>1
  <2> QED
    BY <1>3, <1>4, <2>1, <2>2, <2>3 DEF Sane
<1>5. CASE process = "open"
  <2>1. doing # Idle
    BY <1>1, <1>5 DEF Sane
  <2>2. PICK r : r = Promise!After(doing, held)
    OBVIOUS
  <2>3. Good(file, memory, todo, failures > 0, held, r)
    BY <1>1, <1>5, <2>1, <2>2 DEF Sane, BusyOK
  <2>4. Good(file', memory', todo', failures > 0, held, r)
    BY <1>1, <1>2, <1>3, <2>3, GoodReturns
  <2>5. /\ todo' # << >> => BusyOK(file', memory', todo', failures > 0, held, doing)
        /\ todo' = << >> => IdleOK(file', memory', failures > 0)
    BY <2>2, <2>4, RestIs
  <2>6. CASE todo' # << >>
    BY <1>3, <1>5, <2>1, <2>5, <2>6 DEF Sane
  <2>7. CASE todo' = << >>
    BY <1>3, <1>5, <2>5, <2>7 DEF Sane
  <2> QED
    BY <2>6, <2>7
<1>6. process = "opening" \/ process = "open"
  BY <1>1 DEF Sane
<1> QED
  BY <1>4, <1>5, <1>6

LEMMA OpeningFound ==
    ASSUME NEW f, NEW calls, Opens(f, calls), ~(f.commit /\ ~f.exists)
    PROVE  Found(f)
<1>1. CASE IsFile(f) /\ f.exists /\ f.commit
  BY <1>1 DEF Found
<1>2. CASE IsFile(f) /\ ~f.exists /\ ~f.commit
  BY <1>2 DEF Found
<1> QED
  BY <1>1, <1>2 DEF Opens

\* What an operation that stops leaves.
LEMMA StopIs ==
    ASSUME NEW f, NEW m, NEW calls, NEW failed, NEW q, NEW r, calls # << >>,
           Good(f, m, calls, failed, q, r)
    PROVE  /\ IsFile(f) /\ f.exists
           /\ HeadErased(m, calls) \/ (IdleOK(f, m, TRUE) /\ Found(f))
<1>1. Sound(f, m, calls, failed, q, r)
  BY GoodIsSound
<1>2. HeadErased(m, calls) \/ Safe(f, m, q) \/ Safe(f, m, r)
  BY <1>1 DEF Sound
<1>3. ASSUME NEW x, Safe(f, m, x) PROVE IdleOK(f, m, TRUE) /\ Found(f)
  BY <1>3, SafeFound DEF IdleOK
<1> QED
  BY <1>1, <1>2, <1>3 DEF Sound

LEMMA FailIInv ==
    ASSUME IInv, Fail
    PROVE  IInv'
<1>1. /\ process \in {"closed", "opening", "open", "dead"}
      /\ crashes \in 0..MaxCrashes /\ failures \in Nat /\ hurt \in BOOLEAN
  BY DEF IInv
<1>2. MaxFailures \in Nat /\ failures < MaxFailures /\ failures' = failures + 1
  BY ConstantsAssumption DEF Fail
<1>3. failures' \in 0..MaxFailures /\ (failures' > 0) = TRUE
  BY <1>1, <1>2
<1>4. /\ process' = IF process = "opening" THEN "dead" ELSE process
      /\ todo # << >> /\ file' = file /\ crashes' = crashes
  BY DEF Fail
<1>5. process' \in {"closed", "opening", "open", "dead"}
  BY <1>1, <1>4
<1>6. PICK ignored : ignored = (Head(todo).call = "uncommit" /\ process = "open")
  OBVIOUS
<1>7. hurt' = (hurt \/ Unremovable \/ (HeadErased(memory, todo) /\ ~ignored))
  BY <1>6 DEF Fail
<1>8. hurt' \in BOOLEAN
  BY <1>7
<1>9. ASSUME ~hurt' PROVE Sane'
  <2>1. ~hurt /\ ~Unremovable /\ ~(HeadErased(memory, todo) /\ ~ignored)
    BY <1>7, <1>9
  <2>2. Sane
    BY <2>1 DEF IInv
  <2>3. CASE process = "opening"
    <3>1. memory = NoMemory /\ doing = Idle /\ held = << >> /\ Opens(file, todo)
      BY <2>2, <2>3 DEF Sane
    <3>2. Found(file)
      BY <2>1, <3>1, OpeningFound DEF Unremovable
    <3>3. todo' = << >> /\ memory' = memory /\ doing' = Idle /\ held' = << >>
      BY <2>3 DEF Fail
    <3>4. process' = "dead"
      BY <1>4, <2>3
    <3> QED
      BY <1>4, <3>1, <3>2, <3>3, <3>4 DEF Sane
  <2>4. CASE process = "open"
    <3>1. doing # Idle
      BY <1>4, <2>2, <2>4 DEF Sane
    <3>2. PICK r : r = Promise!After(doing, held)
      OBVIOUS
    <3>3. Good(file, memory, todo, failures > 0, held, r)
      BY <2>2, <2>4, <3>1, <3>2 DEF Sane, BusyOK
    <3>4. process' = "open"
      BY <1>4, <2>4
    <3>5. CASE Head(todo).call = "uncommit"
      <4>1. memory' = Effect(memory, Head(todo)) /\ todo' = Tail(todo)
        BY <2>4, <3>5 DEF Fail
      <4>2. /\ doing' = IF todo' = << >> THEN Idle ELSE doing
            /\ held' = IF todo' = << >> THEN << >> ELSE held
        BY DEF Fail
      <4>3. Good(file, memory', todo', TRUE, held, r)
        BY <1>4, <3>3, <3>5, <4>1, GoodIgnores
      <4>4. /\ todo' # << >> => BusyOK(file, memory', todo', TRUE, held, doing)
            /\ todo' = << >> => IdleOK(file, memory', TRUE)
        BY <3>2, <4>3, RestIs
      <4>5. CASE todo' # << >>
        BY <1>3, <1>4, <3>1, <3>4, <4>2, <4>4, <4>5 DEF Sane
      <4>6. CASE todo' = << >>
        BY <1>3, <1>4, <3>4, <4>2, <4>4, <4>6 DEF Sane
      <4> QED
        BY <4>5, <4>6
    <3>6. CASE ~(Head(todo).call = "uncommit")
      <4>1. memory' = memory /\ todo' = << >> /\ doing' = Idle /\ held' = << >>
        BY <3>6 DEF Fail
      <4>2. ~HeadErased(memory, todo)
        BY <1>6, <2>1, <3>6
      <4>3. IdleOK(file, memory, TRUE)
        BY <1>4, <3>3, <4>2, StopIs
      <4> QED
        BY <1>3, <1>4, <3>4, <4>1, <4>3 DEF Sane
    <3> QED
      BY <3>5, <3>6
  <2>5. process = "opening" \/ process = "open"
    BY <1>1, <1>4, <2>2 DEF Sane
  <2> QED
    BY <2>3, <2>4, <2>5
<1> QED
  BY <1>1, <1>3, <1>4, <1>5, <1>8, <1>9 DEF IInv

LEMMA CrashIInv ==
    ASSUME IInv, Crash
    PROVE  IInv'
<1>1. /\ process \in {"opening", "open", "dead"}
      /\ crashes \in Nat /\ crashes <= MaxCrashes
      /\ failures \in 0..MaxFailures /\ hurt \in BOOLEAN /\ MaxCrashes \in Nat
  BY ConstantsAssumption DEF IInv, Crash
<1>2. crashes' \in 0..MaxCrashes
  <2>1. CASE process = "dead"
    BY <1>1, <2>1 DEF Crash
  <2>2. CASE process # "dead"
    <3>1. crashes' = crashes + 1 /\ crashes < MaxCrashes
      BY <2>2 DEF Crash
    <3> QED
      BY <1>1, <3>1
  <2> QED
    BY <2>1, <2>2
<1>3. /\ process' = "closed" /\ memory' = NoMemory /\ doing' = Idle
      /\ todo' = << >> /\ held' = << >> /\ file' = file /\ failures' = failures
  BY DEF Crash
<1>4. hurt' = (hurt \/ Unremovable \/ (HeadErased(memory, todo) /\ ~file.commit))
  BY DEF Crash
<1>5. hurt' \in BOOLEAN
  BY <1>4
<1>6. ASSUME ~hurt' PROVE Sane'
  <2>1. ~hurt /\ ~Unremovable /\ ~(HeadErased(memory, todo) /\ ~file.commit)
    BY <1>4, <1>6
  <2>2. Sane
    BY <2>1 DEF IInv
  <2>3. Found(file)
    <3>1. CASE process = "opening"
      BY <2>1, <2>2, <3>1, OpeningFound DEF Sane, Unremovable
    <3>2. CASE process = "dead"
      BY <2>2, <3>2 DEF Sane
    <3>3. CASE process = "open" /\ doing = Idle
      BY <2>2, <3>3, SafeFound DEF Sane, IdleOK
    <3>4. CASE process = "open" /\ doing # Idle
      <4>1. PICK r : r = Promise!After(doing, held)
        OBVIOUS
      <4>2. Good(file, memory, todo, failures > 0, held, r) /\ todo # << >>
        BY <2>2, <3>4, <4>1 DEF Sane, BusyOK
      <4>3. IsFile(file) /\ file.exists /\ (HeadErased(memory, todo) \/ Found(file))
        BY <4>2, StopIs
      <4>4. CASE HeadErased(memory, todo)
        <5>1. file.commit
          BY <2>1, <4>4
        <5> QED
          BY <4>3, <5>1 DEF Found
      <4> QED
        BY <4>3, <4>4
    <3> QED
      BY <1>1, <3>1, <3>2, <3>3, <3>4
  <2> QED
    BY <1>3, <2>3 DEF Sane
<1> QED
  BY <1>1, <1>2, <1>3, <1>5, <1>6 DEF IInv

LEMMA StutterIInv ==
    ASSUME IInv, UNCHANGED vars
    PROVE  IInv'
<1>1. /\ process' = process /\ file' = file /\ memory' = memory /\ doing' = doing
      /\ todo' = todo /\ held' = held /\ crashes' = crashes /\ failures' = failures
      /\ hurt' = hurt
  BY DEF vars
<1>2. Sane' = Sane
  BY <1>1 DEF Sane
<1> QED
  BY <1>1, <1>2 DEF IInv

LEMMA NextIInv ==
    ASSUME IInv, [Next]_vars
    PROVE  IInv'
<1>1. CASE Open
  BY <1>1, OpenIInv
<1>2. CASE OpenFails
  BY <1>2, OpenFailsIInv
<1>3. CASE OpenDone
  BY <1>3, OpenDoneIInv
<1>4. ASSUME NEW n \in 1..MaxAdd, NEW es \in [1..n -> Elements], Add(es) PROVE IInv'
  BY <1>4, AddIInv
<1>5. ASSUME NEW n \in 1..MaxPop, PopSome(n) PROVE IInv'
  BY <1>5, PopIInv
<1>6. CASE Step
  BY <1>6, StepIInv
<1>7. CASE Fail
  BY <1>7, FailIInv
<1>8. CASE Crash
  BY <1>8, CrashIInv
<1>9. CASE UNCHANGED vars
  BY <1>9, StutterIInv
<1> QED
  BY <1>1, <1>2, <1>3, <1>4, <1>5, <1>6, <1>7, <1>8, <1>9 DEF Next

LEMMA Invariant == Spec => []IInv
<1>1. Init => IInv
  BY InitIInv
<1>2. IInv /\ [Next]_vars => IInv'
  BY NextIInv
<1> QED
  BY <1>1, <1>2, PTL DEF Spec

-----------------------------------------------------------------------------
(* What the invariant says of the properties *)

LEMMA FileIs ==
    ASSUME IInv, ~hurt
    PROVE  IsFile(file) /\ (memory = NoMemory \/ HeaderOf(memory) \in Headers)
<1>1. Sane /\ process \in {"closed", "opening", "open", "dead"}
  BY DEF IInv
<1>2. CASE process # "open"
  <2>1. memory = NoMemory /\ (Found(file) \/ Opens(file, todo))
    BY <1>1, <1>2 DEF Sane
  <2> QED
    BY <2>1 DEF Found, Opens
<1>3. CASE process = "open" /\ doing = Idle
  <2>1. PICK q : Safe(file, memory, q)
    BY <1>1, <1>3 DEF Sane, IdleOK
  <2> QED
    BY <2>1, SafePlaced DEF Safe
<1>4. CASE process = "open" /\ doing # Idle
  <2>1. PICK r : r = Promise!After(doing, held)
    OBVIOUS
  <2>2. Good(file, memory, todo, failures > 0, held, r)
    BY <1>1, <1>4, <2>1 DEF Sane, BusyOK
  <2> QED
    BY <2>2, GoodIsSound DEF Sound
<1> QED
  BY <1>2, <1>3, <1>4

LEMMA IInvTypeOK ==
    ASSUME IInv, ~hurt
    PROVE  TypeOK
<1>1. IsFile(file) /\ (memory = NoMemory \/ HeaderOf(memory) \in Headers)
  BY FileIs
<1>2. /\ InitialLength \in Nat /\ MaxLength \in Nat
      /\ MaxCrashes \in Nat /\ MaxFailures \in Nat
  BY ConstantsAssumption
<1>3. PICK h : h = file.header
  OBVIOUS
<1>4. /\ h \in [length : InitialLength..MaxLength, count : Nat, first : Nat, last : Nat]
      /\ h.first < h.length /\ h.last < h.length
  BY <1>1, <1>3 DEF IsFile, Headers
<1>5. /\ h.length \in InitialLength..MaxLength /\ h.length \in Nat /\ h.count \in Nat
      /\ h.first \in 0..(h.length - 1) /\ h.last \in 0..(h.length - 1)
  BY <1>2, <1>4
<1>6. FileType(file)
  BY <1>1, <1>3, <1>5 DEF IsFile, FileType
<1>7. {memory.first.at, memory.last.at} \subseteq 0..memory.length
  <2>1. CASE memory = NoMemory
    <3>1. memory.first.at = 0 /\ memory.last.at = 0 /\ memory.length = 0
      BY <2>1 DEF NoMemory, NoElement
    <3> QED
      BY <3>1
  <2>2. CASE HeaderOf(memory) \in Headers
    <3>1. PICK k : k = HeaderOf(memory)
      OBVIOUS
    <3>2. /\ k.length = memory.length /\ k.first = memory.first.at
          /\ k.last = memory.last.at
      BY <3>1 DEF HeaderOf
    <3>3. /\ k.length \in InitialLength..MaxLength /\ k.first \in Nat /\ k.last \in Nat
          /\ k.first < k.length /\ k.last < k.length
      BY <2>2, <3>1 DEF Headers
    <3>4. k.first \in 0..k.length /\ k.last \in 0..k.length
      BY <1>2, <3>3
    <3> QED
      BY <3>2, <3>4
  <2> QED
    BY <1>1, <2>1, <2>2
<1>8. /\ process \in {"closed", "opening", "open", "dead"}
      /\ crashes \in 0..MaxCrashes /\ failures \in 0..MaxFailures /\ hurt \in BOOLEAN
  BY DEF IInv
<1>9. {file.header.first, file.header.last} \subseteq 0..(file.header.length - 1)
  BY <1>3, <1>5
<1> QED
  BY <1>3, <1>5, <1>6, <1>7, <1>8, <1>9 DEF TypeOK

\* Types: until something goes wrong at one of the two bad moments, the header never
\* points outside the file, nor the fields outside the length they assume.
THEOREM TypeCorrect == Spec => [](hurt \/ TypeOK)
<1>1. IInv => hurt \/ TypeOK
  BY IInvTypeOK
<1> QED
  BY <1>1, Invariant, PTL

LEMMA IInvMatches ==
    ASSUME IInv, ~hurt
    PROVE  MemoryMatchesFile
<1> SUFFICES ASSUME Ready, failures = 0 PROVE ~file.commit /\ memory = Opened(file)
  BY DEF MemoryMatchesFile
<1>1. PICK q : q = Contents
  OBVIOUS
<1>2. /\ Safe(file, memory, q)
      /\ failures > 0 \/ (~file.commit /\ file.header = HeaderOf(memory))
  BY <1>1, IdleContents
<1>3. ~(failures > 0)
  OBVIOUS
<1>4. ~file.commit /\ file.header = HeaderOf(memory)
  BY <1>2, <1>3
<1>5. q \in Seq(Datas) /\ memory \in Memories /\ MemoryHolds(memory, file.cells, q)
  BY <1>2 DEF Safe
<1>6. file.header \in Headers
  BY <1>2 DEF Safe, IsFile
<1> QED
  BY <1>4, <1>5, <1>6, MemoryIsOpened

\* When no operation is under way and no call has failed, the fields of the queue are
\* those that the next process would read from the file, and no commit file is left.
THEOREM MatchesFile == Spec => [](hurt \/ MemoryMatchesFile)
<1>1. IInv => hurt \/ MemoryMatchesFile
  BY IInvMatches
<1> QED
  BY <1>1, Invariant, PTL

-----------------------------------------------------------------------------
(* The queue is a FIFO *)

LEMMA IdleIsIdle == Promise!Idle = Idle
  BY DEF Promise!Idle, Idle

\* A file without header and without elements shows nothing.
LEMMA FoundEmpty ==
    ASSUME NEW f, Found(f), f.exists, ~f.commit, f.header.count = 0
    PROVE  Recovered(f) = << >>
<1>1. PICK q \in Seq(Datas) : HeaderHolds(f.header, f.cells, q)
  BY DEF Found
<1>2. q = << >>
  <2>1. Len(q) = 0
    BY <1>1 DEF HeaderHolds
  <2> QED
    BY <2>1
<1>3. f.header.length \in Nat
  BY Lengths DEF Found, IsFile, Headers
<1>4. Peek(f.cells, f.header.length, f.header.first, f.header.count) = q
  BY <1>1, <1>3, HeaderIsRead
<1> QED
  BY <1>2, <1>4 DEF Recovered

LEMMA CreateEmpty ==
    ASSUME NEW f
    PROVE  Called(f, [call |-> "create"]).header.count = 0
<1>1. PICK g : g = Called(f, [call |-> "create"])
  OBVIOUS
<1>2. g = [NoFile EXCEPT !.exists = TRUE, !.commit = f.commit]
  BY <1>1 DEF Called
<1>3. g.header = NoHeader
  BY <1>2 DEF NoFile
<1> QED
  BY <1>1, <1>3 DEF NoHeader

\* The calls of the open change nothing that a process can see.
LEMMA OpensStutter ==
    ASSUME NEW f, NEW calls, Opens(f, calls), calls # << >>
    PROVE  Recovered(Called(f, Head(calls))) = Recovered(f)
<1>1. PICK g, m : g = Called(f, Head(calls)) /\ m = NoMemory
  OBVIOUS
<1>2. Opens(g, Tail(calls))
  BY <1>1, OpensNext
<1>3. ~f.exists \/ f.commit
  BY DEF Opens
<1>4. Recovered(f) = << >>
  BY <1>3 DEF Recovered
<1>5. CASE ~g.exists \/ g.commit
  BY <1>1, <1>4, <1>5 DEF Recovered
<1>6. CASE g.exists /\ ~g.commit
  <2>1. Tail(calls) = << >> /\ Found(g)
    BY <1>2, <1>6 DEF Opens
  <2>2. Head(calls) = [call |-> "create"]
    <3>1. PICK r, u, c : /\ r = [call |-> "remove"] /\ u = [call |-> "uncommit"]
                         /\ c = [call |-> "create"]
      OBVIOUS
    <3>2. calls = << r, u, c >> \/ calls = << u, c >> \/ calls = << c >>
      BY <3>1 DEF Opens
    <3>3. Tail(<< r, u, c >>) # << >> /\ Tail(<< u, c >>) # << >> /\ Head(<< c >>) = c
      OBVIOUS
    <3> QED
      BY <2>1, <3>1, <3>2, <3>3
  <2>3. g.header.count = 0
    BY <1>1, <2>2, CreateEmpty
  <2>4. Recovered(g) = << >>
    BY <1>6, <2>1, <2>3, FoundEmpty
  <2> QED
    BY <1>1, <1>4, <2>4
<1> QED
  BY <1>5, <1>6

\* A step that neither touches the file nor what the process shows.
LEMMA SameShown ==
    ASSUME process # "open", doing = Idle, process' # "open", doing' = Idle,
           Recovered(file') = Recovered(file)
    PROVE  Contents' = Contents /\ doing' = doing
<1>1. Contents = Recovered(file)
  BY DEF Contents
<1>2. Contents' = Recovered(file')
  BY DEF Contents
<1> QED
  BY <1>1, <1>2

LEMMA OpenFifo ==
    ASSUME IInv, ~hurt, Open \/ OpenFails
    PROVE  Contents' = Contents /\ doing' = doing
<1>1. /\ process = "closed" /\ process' # "open" /\ doing' = doing
      /\ file' = file
  BY DEF Open, OpenFails
<1>2. doing = Idle
  BY <1>1 DEF IInv, Sane
<1> QED
  BY <1>1, <1>2, SameShown

LEMMA OpenDoneFifo ==
    ASSUME IInv, ~hurt, OpenDone
    PROVE  Contents' = Contents /\ doing' = doing
<1>1. /\ process = "opening" /\ todo = << >> /\ process' = "open"
      /\ file' = file /\ doing' = doing /\ hurt' = hurt
  BY DEF OpenDone
<1>2. doing = Idle /\ Opens(file, todo)
  BY <1>1 DEF IInv, Sane
<1>3. ~file.commit
  BY <1>1, <1>2 DEF Opens
<1>4. Contents = Recovered(file)
  BY <1>1, <1>2 DEF Contents
<1>5. IInv'
  BY OpenDoneIInv
<1>6. Sane' /\ doing' = Idle
  BY <1>1, <1>2, <1>5 DEF IInv
<1>7. IdleOK(file', memory', failures' > 0)
  BY <1>1, <1>6 DEF Sane
<1>8. PICK q : Safe(file', memory', q)
  BY <1>7 DEF IdleOK
<1>9. PICK f, m : f = file' /\ m = memory'
  OBVIOUS
<1>10. Peek(f.cells, m.length, m.first.at, m.count) = q /\ Recovered(f) = q
  BY <1>1, <1>3, <1>8, <1>9, SafeReads
<1>11. Contents' = q
  BY <1>1, <1>6, <1>9, <1>10 DEF Contents
<1> QED
  BY <1>1, <1>4, <1>9, <1>10, <1>11

LEMMA AddFifo ==
    ASSUME NEW n \in 1..MaxAdd, NEW es \in [1..n -> Elements], Add(es)
    PROVE  Promise!Begin
<1>1. doing = Idle
  BY DEF Add, Ready
<1>2. PICK elements : elements = [i \in DOMAIN es |-> DataOf(es[i])]
  OBVIOUS
<1>3. elements \in Seq(Datas) /\ Len(elements) = n
  BY <1>2, Given
<1>4. PICK o : o = [op |-> "add", elements |-> elements, amount |-> 0]
  OBVIOUS
<1>5. doing' = o /\ held' = Contents
  BY <1>2, <1>4 DEF Add, Start
<1>6. o # Idle /\ o.elements = elements
  BY <1>4 DEF Idle
<1>7. Contents' = held'
  BY <1>5, <1>6 DEF Contents
<1>8. Promise!IsOperation(o)
  BY <1>3, <1>4, <1>6 DEF Promise!IsOperation, Datas
<1> QED
  BY <1>1, <1>5, <1>7, <1>8, IdleIsIdle DEF Promise!Begin

LEMMA PopFifo ==
    ASSUME NEW n \in 1..MaxPop, PopSome(n)
    PROVE  Promise!Begin
<1>1. doing = Idle
  BY DEF PopSome, Ready
<1>2. PICK o : o = [op |-> "pop", elements |-> << >>, amount |-> n]
  OBVIOUS
<1>3. doing' = o /\ held' = Contents
  BY <1>2 DEF PopSome, Start
<1>4. o # Idle /\ o.amount = n
  BY <1>2 DEF Idle
<1>5. Contents' = held'
  BY <1>3, <1>4 DEF Contents
<1>6. Promise!IsOperation(o)
  BY <1>2, <1>4 DEF Promise!IsOperation
<1> QED
  BY <1>1, <1>3, <1>5, <1>6, IdleIsIdle DEF Promise!Begin

\* A call has returned, or its failure was ignored: the operation goes on or is done.
LEMMA GoesOn ==
    ASSUME process = "open", process' = "open", doing # Idle, NEW failed,
           Good(file', memory', todo', failed, held, Promise!After(doing, held)),
           doing' = IF todo' = << >> THEN Idle ELSE doing,
           held' = IF todo' = << >> THEN << >> ELSE held
    PROVE  Promise!Finish \/ (Contents' = Contents /\ doing' = doing)
<1>1. Contents = held
  BY DEF Contents
<1>2. CASE todo' # << >>
  <2>1. doing' = doing /\ held' = held
    BY <1>2
  <2>2. Contents' = held'
    BY <2>1 DEF Contents
  <2> QED
    BY <1>1, <2>1, <2>2
<1>3. CASE todo' = << >>
  <2>1. PICK f, m, r : f = file' /\ m = memory' /\ r = Promise!After(doing, held)
    OBVIOUS
  <2>2. Good(f, m, << >>, failed, held, r)
    BY <1>3, <2>1
  <2>3. Safe(f, m, r)
    BY <2>2, GoodIsSound DEF Sound
  <2>4. Peek(f.cells, m.length, m.first.at, m.count) = r
    BY <2>3, SafeReads
  <2>5. doing' = Idle
    BY <1>3
  <2>6. Contents' = r
    BY <2>1, <2>4, <2>5 DEF Contents
  <2> QED
    BY <1>1, <2>1, <2>5, <2>6, IdleIsIdle DEF Promise!Finish
<1> QED
  BY <1>2, <1>3

LEMMA StepFifo ==
    ASSUME IInv, ~hurt, Step
    PROVE  Promise!Finish \/ (Contents' = Contents /\ doing' = doing)
<1>1. Sane /\ todo # << >> /\ process \in {"closed", "opening", "open", "dead"}
  BY DEF IInv, Step
<1>2. PICK c : c = Head(todo)
  OBVIOUS
<1>3. /\ file' = Called(file, c) /\ memory' = Effect(memory, c) /\ todo' = Tail(todo)
      /\ doing' = IF todo' = << >> THEN Idle ELSE doing
      /\ held' = IF todo' = << >> THEN << >> ELSE held
      /\ process' = process
  BY <1>2 DEF Step
<1>4. CASE process = "opening"
  <2>1. Opens(file, todo) /\ doing = Idle
    BY <1>1, <1>4 DEF Sane
  <2>2. Recovered(file') = Recovered(file)
    BY <1>1, <1>2, <1>3, <2>1, OpensStutter
  <2>3. doing' = Idle
    BY <1>3, <2>1
  <2> QED
    BY <1>3, <1>4, <2>1, <2>2, <2>3, SameShown
<1>5. CASE process = "open"
  <2>1. doing # Idle
    BY <1>1, <1>5 DEF Sane
  <2>2. PICK r : r = Promise!After(doing, held)
    OBVIOUS
  <2>3. Good(file, memory, todo, failures > 0, held, r)
    BY <1>1, <1>5, <2>1, <2>2 DEF Sane, BusyOK
  <2>4. Good(file', memory', todo', failures > 0, held, r)
    BY <1>1, <1>2, <1>3, <2>3, GoodReturns
  <2> QED
    BY <1>3, <1>5, <2>1, <2>2, <2>4, GoesOn
<1>6. process = "opening" \/ process = "open"
  BY <1>1 DEF Sane
<1> QED
  BY <1>4, <1>5, <1>6

LEMMA FailFifo ==
    ASSUME IInv, ~hurt, Fail, ~hurt'
    PROVE  Promise!Finish \/ Promise!GiveUp \/ (Contents' = Contents /\ doing' = doing)
<1>1. Sane /\ todo # << >> /\ process \in {"closed", "opening", "open", "dead"}
  BY DEF IInv, Fail
<1>2. /\ doing' = IF todo' = << >> THEN Idle ELSE doing
      /\ held' = IF todo' = << >> THEN << >> ELSE held
      /\ file' = file
      /\ process' = IF process = "opening" THEN "dead" ELSE process
  BY DEF Fail
<1>3. CASE process = "opening"
  <2>1. doing = Idle
    BY <1>1, <1>3 DEF Sane
  <2>2. doing' = Idle /\ process' # "open"
    BY <1>2, <1>3, <2>1
  <2> QED
    BY <1>2, <1>3, <2>1, <2>2, SameShown
<1>4. CASE process = "open"
  <2>1. doing # Idle /\ process' = "open"
    BY <1>1, <1>2, <1>4 DEF Sane
  <2>2. PICK r : r = Promise!After(doing, held)
    OBVIOUS
  <2>3. Good(file, memory, todo, failures > 0, held, r)
    BY <1>1, <1>4, <2>1, <2>2 DEF Sane, BusyOK
  <2>4. CASE Head(todo).call = "uncommit"
    <3>1. memory' = Effect(memory, Head(todo)) /\ todo' = Tail(todo)
      BY <1>4, <2>4 DEF Fail
    <3>2. Good(file', memory', todo', TRUE, held, r)
      BY <1>1, <1>2, <2>3, <2>4, <3>1, GoodIgnores
    <3> QED
      BY <1>2, <1>4, <2>1, <2>2, <3>2, GoesOn
  <2>5. CASE ~(Head(todo).call = "uncommit")
    <3>1. memory' = memory /\ todo' = << >> /\ doing' = Idle
      BY <2>5 DEF Fail
    <3>2. ~HeadErased(memory, todo)
      BY <2>5 DEF Fail
    <3>3. Safe(file, memory, held) \/ Safe(file, memory, r)
      BY <1>1, <2>3, <3>2, GoodIsSound DEF Sound
    <3>4. PICK f, m : f = file' /\ m = memory'
      OBVIOUS
    <3>5. PICK q : q \in {held, r} /\ Safe(f, m, q)
      BY <1>2, <3>1, <3>3, <3>4
    <3>6. Peek(f.cells, m.length, m.first.at, m.count) = q
      BY <3>5, SafeReads
    <3>7. Contents' = q
      BY <2>1, <3>1, <3>4, <3>6 DEF Contents
    <3>8. Contents = held
      BY <2>1 DEF Contents
    <3> QED
      BY <2>1, <2>2, <3>1, <3>5, <3>7, <3>8, IdleIsIdle DEF Promise!GiveUp
  <2> QED
    BY <2>4, <2>5
<1>5. process = "opening" \/ process = "open"
  BY <1>1 DEF Sane
<1> QED
  BY <1>3, <1>4, <1>5

LEMMA CrashFifo ==
    ASSUME IInv, ~hurt, Crash, ~hurt'
    PROVE  Promise!End
<1>1. Sane /\ process \in {"opening", "open", "dead"}
  BY DEF IInv, Crash
<1>2. process' = "closed" /\ doing' = Idle /\ file' = file
  BY DEF Crash
<1>3. PICK f : f = file
  OBVIOUS
<1>4. Contents' = Recovered(f)
  BY <1>2, <1>3 DEF Contents
<1>5. CASE process # "open"
  <2>1. doing = Idle
    BY <1>1, <1>5 DEF Sane
  <2>2. Contents = Recovered(f)
    BY <1>3, <1>5, <2>1 DEF Contents
  <2> QED
    BY <1>2, <1>4, <2>2, IdleIsIdle DEF Promise!End
<1>6. CASE process = "open" /\ doing = Idle
  <2>1. Ready
    BY <1>6 DEF Ready
  <2>2. PICK q : q = Contents
    OBVIOUS
  <2>3. Safe(f, memory, q)
    BY <1>3, <2>1, <2>2, IdleContents
  <2>4. Recovered(f) = q \/ Recovered(f) = << >>
    BY <2>3, SafeReads
  <2> QED
    BY <1>2, <1>4, <2>2, <2>4, IdleIsIdle DEF Promise!End
<1>7. CASE process = "open" /\ doing # Idle
  <2>1. PICK r : r = Promise!After(doing, held)
    OBVIOUS
  <2>2. Good(f, memory, todo, failures > 0, held, r) /\ todo # << >>
    BY <1>1, <1>3, <1>7, <2>1 DEF Sane, BusyOK
  <2>3. HeadErased(memory, todo) => f.commit
    BY <1>3 DEF Crash
  <2>4. f.commit \/ Safe(f, memory, held) \/ Safe(f, memory, r)
    BY <2>2, <2>3, GoodIsSound DEF Sound
  <2>5. Recovered(f) \in {<< >>, held, r}
    <3>1. CASE f.commit
      BY <3>1 DEF Recovered
    <3>2. ASSUME NEW q, Safe(f, memory, q) PROVE Recovered(f) \in {<< >>, q}
      BY <3>2, SafeReads
    <3> QED
      BY <2>4, <3>1, <3>2
  <2>6. Contents = held
    BY <1>7 DEF Contents
  <2> QED
    BY <1>2, <1>4, <2>1, <2>5, <2>6, IdleIsIdle DEF Promise!End
<1> QED
  BY <1>1, <1>5, <1>6, <1>7

LEMMA NextFifo ==
    ASSUME IInv, Next
    PROVE  hurt' \/ Promise!Next \/ UNCHANGED << Contents, doing >>
<1> SUFFICES ASSUME ~hurt' PROVE Promise!Next \/ UNCHANGED << Contents, doing >>
  OBVIOUS
<1>1. ~hurt
  <2>1. hurt \in BOOLEAN
    BY DEF IInv
  <2>2. hurt' = hurt \/ (hurt => hurt')
    BY DEF Next, Open, OpenFails, OpenDone, Add, PopSome, Start, Step, Fail, Crash
  <2> QED
    BY <2>1, <2>2
<1>2. CASE Open \/ OpenFails
  BY <1>1, <1>2, OpenFifo
<1>3. CASE OpenDone
  BY <1>1, <1>3, OpenDoneFifo
<1>4. ASSUME NEW n \in 1..MaxAdd, NEW es \in [1..n -> Elements], Add(es)
      PROVE  Promise!Next
  BY <1>4, AddFifo DEF Promise!Next
<1>5. ASSUME NEW n \in 1..MaxPop, PopSome(n) PROVE Promise!Next
  BY <1>5, PopFifo DEF Promise!Next
<1>6. CASE Step
  BY <1>1, <1>6, StepFifo DEF Promise!Next
<1>7. CASE Fail
  BY <1>1, <1>7, FailFifo DEF Promise!Next
<1>8. CASE Crash
  BY <1>1, <1>8, CrashFifo DEF Promise!Next
<1> QED
  BY <1>2, <1>3, <1>4, <1>5, <1>6, <1>7, <1>8 DEF Next

LEMMA StutterFifo ==
    ASSUME UNCHANGED vars
    PROVE  UNCHANGED << Contents, doing >>
<1>1. process' = process /\ file' = file /\ memory' = memory /\ doing' = doing /\ held' = held
  BY DEF vars
<1> QED
  BY <1>1 DEF Contents

LEMMA InitFifo == Init => Promise!Init
<1> SUFFICES ASSUME Init PROVE Promise!Init
  OBVIOUS
<1>1. process = "closed" /\ doing = Idle /\ file = NoFile
  BY DEF Init
<1>2. Contents = Recovered(file)
  BY <1>1 DEF Contents
<1>3. ~file.exists
  BY <1>1 DEF NoFile
<1>4. Recovered(file) = << >>
  BY <1>3 DEF Recovered
<1> QED
  BY <1>1, <1>2, <1>4, IdleIsIdle DEF Promise!Init

\* The queue file implements the FIFO whose operations happen completely or not at all,
\* whatever call fails and whenever the process ends, until something goes wrong at one
\* of the two bad moments; an unfinished commit costs the whole queue.
THEOREM QueueIsFifo == Spec => IsFifo
<1>1. Init => Promise!Init
  BY InitFifo
<1>2. IInv /\ [Next]_vars
        => [hurt' \/ Promise!Next]_<<Contents, doing>>
  BY NextFifo, StutterFifo
<1> QED
  BY <1>1, <1>2, Invariant, PTL DEF Spec, IsFifo

-----------------------------------------------------------------------------
(* Nothing is torn *)

HeldWhole == hurt \/ held \in Seq(Datas)

LEMMA FoundWhole ==
    ASSUME NEW f, Found(f)
    PROVE  Recovered(f) \in Seq(Datas)
<1>1. CASE ~f.exists \/ f.commit
  <2>1. Recovered(f) = << >>
    BY <1>1 DEF Recovered
  <2>2. << >> \in Seq(Datas)
    OBVIOUS
  <2> QED
    BY <2>1, <2>2
<1>2. CASE f.exists /\ ~f.commit
  <2>1. PICK q \in Seq(Datas) : HeaderHolds(f.header, f.cells, q)
    BY <1>2 DEF Found
  <2>2. f.header.length \in Nat
    BY Lengths DEF Found, IsFile, Headers
  <2>3. Peek(f.cells, f.header.length, f.header.first, f.header.count) = q
    BY <2>1, <2>2, HeaderIsRead
  <2> QED
    BY <1>2, <2>1, <2>3 DEF Recovered
<1> QED
  BY <1>1, <1>2

LEMMA ContentsWhole ==
    ASSUME IInv, HeldWhole, ~hurt
    PROVE  Contents \in Seq(Datas)
<1>1. Sane /\ process \in {"closed", "opening", "open", "dead"} /\ held \in Seq(Datas)
  BY DEF IInv, HeldWhole
<1>2. CASE doing # Idle
  BY <1>1, <1>2 DEF Contents
<1>3. CASE process = "open" /\ doing = Idle
  BY <1>3, IdleContents DEF Ready, Safe
<1>4. CASE process # "open"
  <2>1. doing = Idle /\ (Found(file) \/ Opens(file, todo))
    BY <1>1, <1>4 DEF Sane
  <2>2. Contents = Recovered(file)
    BY <1>4, <2>1 DEF Contents
  <2>3. CASE Found(file)
    BY <2>2, <2>3, FoundWhole
  <2>4. CASE Opens(file, todo) /\ ~Found(file)
    <3>1. ~file.exists \/ file.commit
      BY <2>4 DEF Opens
    <3>2. Contents = << >>
      BY <2>2, <3>1 DEF Recovered
    <3> QED
      BY <3>2
  <2> QED
    BY <2>1, <2>3, <2>4
<1> QED
  BY <1>2, <1>3, <1>4

LEMMA NextWhole ==
    ASSUME IInv, HeldWhole, [Next]_vars
    PROVE  HeldWhole'
<1> SUFFICES ASSUME ~hurt' PROVE held' \in Seq(Datas)
  BY DEF HeldWhole
<1>1. hurt \in BOOLEAN /\ << >> \in Seq(Datas)
  BY DEF IInv
<1>2. ~hurt
  <2>1. hurt' = hurt \/ (hurt => hurt')
    BY DEF Next, Open, OpenFails, OpenDone, Add, PopSome, Start, Step, Fail, Crash, vars
  <2> QED
    BY <1>1, <2>1
<1>3. held \in Seq(Datas) /\ Contents \in Seq(Datas)
  BY <1>2, ContentsWhole DEF HeldWhole
<1>4. held' \in {held, << >>, Contents}
  BY DEF Next, Open, OpenFails, OpenDone, Add, PopSome, Start, Step, Fail, Crash, vars
<1> QED
  BY <1>1, <1>3, <1>4

\* What a process reads, or would read, is a sequence of whole elements that were added:
\* none lies over another or over the header, until something goes wrong at one of the
\* two bad moments.
THEOREM WholeElements == Spec => [](hurt \/ NothingTorn)
<1>1. Init => HeldWhole
  <2>1. << >> \in Seq(Datas)
    OBVIOUS
  <2> QED
    BY <2>1 DEF Init, HeldWhole
<1>2. IInv /\ HeldWhole /\ [Next]_vars => HeldWhole'
  BY NextWhole
<1>3. IInv /\ HeldWhole => hurt \/ NothingTorn
  <2> SUFFICES ASSUME IInv, HeldWhole, ~hurt, NEW i \in DOMAIN Contents
               PROVE  \E e \in Elements : Contents[i] = DataOf(e)
    BY DEF NothingTorn
  <2>1. PICK q : q = Contents
    OBVIOUS
  <2>2. q \in Seq(Datas) /\ i \in DOMAIN q
    BY <2>1, ContentsWhole
  <2>3. q[i] \in Datas
    BY <2>2
  <2> QED
    BY <2>1, <2>3 DEF Datas
<1> QED
  BY <1>1, <1>2, <1>3, Invariant, PTL DEF Spec
=============================================================================
