------------------------- MODULE CircularVectorProofs -------------------------
(***************************************************************************)
(* The ring is correct for every size: it is a bounded first-in first-out  *)
(* queue.  Remainders are removed first (IndexBelow, IndexAbove), then the *)
(* size and the elements of the ring are written without them (UsedIs,     *)
(* AtIs), and each step of the ring is shown to be a step of the queue.    *)
(***************************************************************************)
EXTENDS CircularVector, WellFoundedInduction, TLAPS

USE RingAssumption

LEMMA IndexBelow ==
  ASSUME NEW c \in Nat \ {0}, NEW x \in Nat, x < c
  PROVE  x % c = x
  BY SMT

LEMMA IndexAbove ==
  ASSUME NEW c \in Nat \ {0}, NEW x \in Nat, c <= x, x < c + c
  PROVE  x % c = x - c
  BY SMT

\* The remainder is the only one.
LEMMA RemainderIs ==
  ASSUME NEW c \in Nat \ {0}, NEW q \in Nat, NEW r \in 0 .. c - 1
  PROVE  (q * c + r) % c = r
<1> DEFINE x == q * c + r
<1>1. x \in Nat
  OBVIOUS
<1>2. PICK p \in Int : x = p * c + (x % c) /\ (x % c) \in 0 .. c - 1
  <2>1. x = (x \div c) * c + (x % c) /\ (x % c) \in 0 .. c - 1 /\ x \div c \in Int
    BY <1>1
  <2> QED BY <2>1
<1>3. (p - q) * c = r - (x % c)
  BY <1>2
<1>4. ASSUME NEW d \in Int, d * c < c, - c < d * c PROVE d = 0
  <2>1. ASSUME d >= 1 PROVE d * c >= c
    BY <2>1
  <2>2. ASSUME d <= -1 PROVE d * c <= - c
    BY <2>2
  <2> QED BY <1>4, <2>1, <2>2
<1>5. p - q = 0
  BY <1>2, <1>3, <1>4
<1> QED BY <1>3, <1>5, <1>2

\* Taking the remainder before the next step changes nothing.
LEMMA RemainderStep ==
  ASSUME NEW c \in Nat \ {0}, NEW x \in Nat
  PROVE  ((x % c) + 1) % c = (x + 1) % c
<1>1. PICK q \in Nat, r \in 0 .. c - 1 : x = q * c + r /\ (x % c) = r
  <2>1. x = (x \div c) * c + (x % c) /\ (x % c) \in 0 .. c - 1 /\ x \div c \in Nat
    OBVIOUS
  <2> QED BY <2>1
<1>2. CASE r + 1 < c
  <2>1. (x + 1) = q * c + (r + 1) /\ r + 1 \in 0 .. c - 1
    BY <1>1, <1>2
  <2> QED BY <1>1, <2>1, RemainderIs, IndexBelow
<1>3. CASE r + 1 = c
  <2>1. (x + 1) = (q + 1) * c + 0 /\ q + 1 \in Nat /\ 0 \in 0 .. c - 1
    BY <1>1, <1>3
  <2>2. (x + 1) % c = 0
    BY <2>1, RemainderIs
  <2>3. ((x % c) + 1) % c = 0
    BY <1>1, <1>3
  <2> QED BY <2>2, <2>3
<1> QED BY <1>1, <1>2, <1>3

\* The index after e, without the remainder.
LEMMA Successor ==
  ASSUME NEW e \in 0 .. Size
  PROVE  (e + 1) % capacity = IF e = Size THEN 0 ELSE e + 1
<1>1. CASE e = Size
  BY <1>1, IndexAbove DEF capacity
<1>2. CASE e < Size
  BY <1>2, IndexBelow DEF capacity
<1> QED BY <1>1, <1>2

\* The slot that is i places behind slot e, without the remainder.
LEMMA Behind ==
  ASSUME NEW e \in 0 .. Size, NEW i \in 0 .. Size
  PROVE  /\ (e + i) % capacity = IF e + i <= Size THEN e + i ELSE e + i - capacity
         /\ (e + i) % capacity \in 0 .. Size
<1>1. CASE e + i <= Size
  BY <1>1, IndexBelow DEF capacity
<1>2. CASE e + i > Size
  <2>1. PICK x \in Nat : x = e + i /\ Size + 1 <= x /\ x < (Size + 1) + (Size + 1)
    BY <1>2
  <2>2. x % (Size + 1) = x - (Size + 1)
    BY <2>1, IndexAbove
  <2> QED BY <1>2, <2>1, <2>2 DEF capacity
<1> QED BY <1>1, <1>2

\* The number of slots from s to e, without the remainder.
LEMMA Distance ==
  ASSUME NEW s \in 0 .. Size, NEW e \in 0 .. Size
  PROVE  (capacity + e - s) % capacity = IF s <= e THEN e - s ELSE capacity + e - s
<1>1. CASE s <= e
  <2>1. PICK x \in Nat : /\ x = capacity + e - s
                         /\ Size + 1 <= x /\ x < (Size + 1) + (Size + 1)
    BY <1>1 DEF capacity
  <2>2. x % (Size + 1) = x - (Size + 1)
    BY <2>1, IndexAbove
  <2> QED BY <1>1, <2>1, <2>2 DEF capacity
<1>2. CASE e < s
  <2>1. PICK x \in Nat : x = capacity + e - s /\ x < Size + 1
    BY <1>2 DEF capacity
  <2>2. x % (Size + 1) = x
    BY <2>1, IndexBelow
  <2> QED BY <1>2, <2>1, <2>2 DEF capacity
<1> QED BY <1>1, <1>2

LEMMA UsedIs ==
  ASSUME TypeOK
  PROVE  /\ Used = IF start <= end THEN end - start ELSE capacity + end - start
         /\ Used \in 0 .. Size
  BY Distance DEF TypeOK, Used, capacity
-----------------------------------------------------------------------------
LEMMA TypePush ==
  ASSUME TypeOK, NEW t \in Value, Push(t)
  PROVE  TypeOK'
  BY Successor DEF TypeOK, Push, Slots, capacity

LEMMA TypePop ==
  ASSUME TypeOK, Pop
  PROVE  TypeOK'
  BY Successor DEF TypeOK, Pop, Slots, capacity

\* What a push does to the size and to the elements.
LEMMA PushEffect ==
  ASSUME TypeOK, ~Full, NEW t \in Value, Push(t)
  PROVE  /\ Used < Size
         /\ Used' = Used + 1
         /\ \A i \in 0 .. Used : At(i)' = IF i = Used THEN t ELSE At(i)
<1>1. TypeOK'
  BY TypePush
<1>2. /\ start' = start
      /\ end' = IF end = Size THEN 0 ELSE end + 1
      /\ v' = [v EXCEPT ![end] = t]
  BY Successor DEF Push, TypeOK
<1>3. ~(start = IF end = Size THEN 0 ELSE end + 1)
  BY Successor DEF Full, TypeOK
<1>4. Used < Size /\ Used' = Used + 1
  <2>1. Used' = IF start' <= end' THEN end' - start' ELSE capacity + end' - start'
    BY <1>1, Distance DEF TypeOK, Used, capacity
  <2> QED BY <2>1, <1>2, <1>3, UsedIs DEF TypeOK, capacity
<1>5. ASSUME NEW i \in 0 .. Used
      PROVE  At(i)' = IF i = Used THEN t ELSE At(i)
  <2>1. i \in 0 .. Size
    BY UsedIs
  <2>2. At(i)' = v'[(start + i) % capacity]
    BY <1>2 DEF At, capacity
  <2>3. (start + i) % capacity = end <=> i = Used
    <3>1. (start + i) % capacity =
            IF start + i <= Size THEN start + i ELSE start + i - capacity
      BY <2>1, Behind DEF TypeOK
    <3> QED BY <2>1, <3>1, UsedIs DEF TypeOK, capacity
  <2>4. (start + i) % capacity \in Slots /\ end \in Slots
    BY <2>1, Behind DEF TypeOK, Slots, capacity
  <2> QED BY <1>2, <2>2, <2>3, <2>4 DEF At, TypeOK
<1> QED BY <1>4, <1>5

\* What a pop does to the size and to the elements.
LEMMA PopEffect ==
  ASSUME TypeOK, ~Empty, Pop
  PROVE  /\ Used > 0
         /\ Used' = Used - 1
         /\ \A i \in 0 .. Used - 2 : At(i)' = At(i + 1)
<1>1. TypeOK'
  BY TypePop
<1>2. /\ end' = end
      /\ start' = IF start = Size THEN 0 ELSE start + 1
      /\ v' = [v EXCEPT ![start] = Blank]
  BY Successor DEF Pop, TypeOK
<1>3. Used > 0 /\ Used' = Used - 1
  <2>1. Used' = IF start' <= end' THEN end' - start' ELSE capacity + end' - start'
    BY <1>1, Distance DEF TypeOK, Used, capacity
  <2> QED BY <2>1, <1>2, UsedIs DEF TypeOK, Empty, capacity
<1>4. ASSUME NEW i \in 0 .. Used - 2
      PROVE  At(i)' = At(i + 1)
  <2>1. i \in 0 .. Size
    BY UsedIs
  <2>2. PICK k \in 1 .. Size : k = i + 1
    BY UsedIs
  <2>3. (start + k) % capacity = IF start + k <= Size THEN start + k ELSE start + k - capacity
    BY Behind DEF TypeOK
  <2>4. (start' + i) % capacity = (start + k) % capacity
    <3>1. start' \in 0 .. Size
      BY <1>1 DEF TypeOK
    <3>2. (start' + i) % capacity =
            IF start' + i <= Size THEN start' + i ELSE start' + i - capacity
      BY <2>1, <3>1, Behind
    <3> QED BY <1>2, <2>1, <2>2, <2>3, <3>2 DEF TypeOK, capacity
  <2>5. At(i)' = v'[(start + k) % capacity]
    BY <2>4 DEF At, capacity
  <2>6. (start + k) % capacity # start /\ (start + k) % capacity \in Slots
    BY <2>3 DEF TypeOK, Slots, capacity
  <2> QED BY <1>2, <2>2, <2>5, <2>6 DEF At, TypeOK
<1> QED BY <1>3, <1>4
-----------------------------------------------------------------------------
(* The inductive invariant.                                                *)
IInv == TypeOK /\ NoBlankInside

LEMMA InvInit == Init => IInv
<1> SUFFICES ASSUME Init PROVE IInv
  OBVIOUS
<1>1. TypeOK
  BY DEF Init, TypeOK, Slots
<1>2. Used = 0
  BY <1>1, UsedIs DEF Init
<1> QED BY <1>1, <1>2 DEF IInv, NoBlankInside

LEMMA InvNext == IInv /\ [Next]_vars => IInv'
<1> SUFFICES ASSUME IInv, [Next]_vars PROVE IInv'
  OBVIOUS
<1> USE DEF IInv
<1>1. ASSUME ~Full, NEW t \in Value, Push(t) PROVE IInv'
  <2>1. TypeOK'
    BY <1>1, TypePush
  <2>2. NoBlankInside'
    <3> SUFFICES ASSUME NEW i \in 0 .. Used' - 1 PROVE At(i)' \in Value
      BY DEF NoBlankInside
    <3>1. /\ Used \in 0 .. Size
          /\ Used' = Used + 1
          /\ At(i)' = IF i = Used THEN t ELSE At(i)
      BY <1>1, UsedIs, PushEffect
    <3> QED BY <3>1 DEF NoBlankInside
  <2> QED BY <2>1, <2>2
<1>2. ASSUME ~Empty, Pop PROVE IInv'
  <2>1. TypeOK'
    BY <1>2, TypePop
  <2>2. NoBlankInside'
    <3> SUFFICES ASSUME NEW i \in 0 .. Used' - 1 PROVE At(i)' \in Value
      BY DEF NoBlankInside
    <3>1. Used \in 0 .. Size /\ Used' = Used - 1 /\ At(i)' = At(i + 1)
      BY <1>2, UsedIs, PopEffect
    <3> QED BY <3>1 DEF NoBlankInside
  <2> QED BY <2>1, <2>2
<1>3. CASE UNCHANGED vars
  BY <1>3 DEF vars, TypeOK, NoBlankInside, At, Used, Slots, capacity
<1> QED BY <1>1, <1>2, <1>3 DEF Next, PushIfNotFull, PopIfNotEmpty

\* The indices never leave the ring and every slot between head and tail holds
\* an element, whatever the size of the ring: what TLC checks for one size.
THEOREM RingInvariant == Spec => [](TypeOK /\ NoBlankInside)
<1>1. IInv => TypeOK /\ NoBlankInside
  BY DEF IInv
<1> QED BY <1>1, InvInit, InvNext, PTL DEF Spec
-----------------------------------------------------------------------------
\* What the mapping of the ring to a sequence yields.
ContentsOK == /\ Contents \in Seq(Value)
              /\ Len(Contents) = Used
              /\ \A i \in 1 .. Used : Contents[i] = At(i - 1)

LEMMA ContentsIs == IInv => ContentsOK
<1> SUFFICES ASSUME IInv PROVE ContentsOK
  OBVIOUS
<1>1. Used \in Nat
  BY UsedIs DEF IInv
<1>2. \A i \in 1 .. Used : At(i - 1) \in Value
  BY <1>1 DEF IInv, NoBlankInside
<1> QED BY <1>1, <1>2 DEF Contents, ContentsOK

-----------------------------------------------------------------------------
(* The walk of recoverFromError: what its recursion says, and by the least  *)
(* step at which it would not, that it is n places behind the head.         *)
StepsOn(f) == f = [n \in Nat |-> IF n = 0 THEN start ELSE (f[n - 1] + 1) % capacity]

LEMMA WalkStepsOn ==
  ASSUME TypeOK
  PROVE  StepsOn(Walk)
<1> DEFINE g == [n \in Nat |-> (start + n) % capacity]
<1>1. capacity \in Nat \ {0} /\ start \in 0 .. Size /\ capacity = Size + 1
  BY DEF TypeOK, capacity
<1>2. start % capacity = start
  BY <1>1, IndexBelow
<1>3. ASSUME NEW n \in Nat, n # 0
      PROVE  (start + n) % capacity = (((start + (n - 1)) % capacity) + 1) % capacity
  <2>1. PICK x \in Nat : x = start + (n - 1) /\ x + 1 = start + n
    BY <1>1, <1>3
  <2> QED BY <1>1, <2>1, RemainderStep
<1>4. StepsOn(g)
  <2>1. ASSUME NEW n \in Nat
        PROVE  (start + n) % capacity = IF n = 0 THEN start ELSE (g[n - 1] + 1) % capacity
    <3>1. n # 0 => g[n - 1] = (start + (n - 1)) % capacity
      BY <1>1
    <3>2. n = 0 => start + n = start
      BY <1>1
    <3> HIDE DEF g
    <3> QED BY <1>2, <1>3, <3>1, <3>2, Zenon
  <2> QED BY <2>1 DEF StepsOn
<1> QED BY <1>4, Zenon DEF StepsOn, Walk

LEMMA WalkIs ==
  ASSUME TypeOK, NEW n \in Nat
  PROVE  Walk[n] = (start + n) % capacity
<1> DEFINE wrong == {i \in Nat : Walk[i] # (start + i) % capacity}
<1> SUFFICES ASSUME wrong # {} PROVE FALSE
  OBVIOUS
<1>1. \A i \in Nat : Walk[i] = IF i = 0 THEN start ELSE (Walk[i - 1] + 1) % capacity
  BY WalkStepsOn DEF StepsOn
<1>2. PICK i \in wrong : \A j \in wrong : ~(<<j, i>> \in OpToRel(<, Nat))
  <2>1. wrong \subseteq Nat
    OBVIOUS
  <2> HIDE DEF wrong
  <2> QED BY <2>1, NatLessThanWellFounded, WFMin, Zenon
<1>3. capacity \in Nat \ {0} /\ start \in 0 .. Size /\ capacity = Size + 1
  BY DEF TypeOK, capacity
<1>4. i # 0
  BY <1>1, <1>3, IndexBelow
<1>5. i - 1 \in Nat /\ i - 1 < i
  BY <1>4
<1>6. i - 1 \notin wrong
  <2> HIDE DEF wrong
  <2>1. i \in Nat
    BY DEF wrong
  <2> QED BY <1>2, <1>5, <2>1, Zenon DEF OpToRel
<1>7. Walk[i - 1] = (start + (i - 1)) % capacity
  BY <1>5, <1>6
<1>8. PICK x \in Nat : x = start + (i - 1) /\ x + 1 = start + i
  BY <1>3, <1>5
<1>9. Walk[i] = (start + i) % capacity
  <2>1. Walk[i] = (Walk[i - 1] + 1) % capacity
    BY <1>1, <1>4
  <2> QED BY <1>3, <1>7, <1>8, <2>1, RemainderStep
<1> QED BY <1>9

\* The walk that sends the window again visits the elements in order and stops.
THEOREM WalkIsComplete == Spec => []WalkVisitsContents
<1>1. ASSUME IInv PROVE WalkVisitsContents
  <2>1. /\ start \in 0 .. Size /\ end \in 0 .. Size /\ Used \in 0 .. Size
        /\ Used = IF start <= end THEN end - start ELSE capacity + end - start
    BY <1>1, UsedIs DEF IInv, TypeOK
  <2>2. \A n \in 0 .. Size :
            /\ Walk[n] = (start + n) % capacity
            /\ Walk[n] = IF start + n <= Size THEN start + n ELSE start + n - capacity
    BY <1>1, <2>1, WalkIs, Behind DEF IInv
  <2>3. Walk[Used] = end
    BY <2>1, <2>2 DEF capacity
  <2>4. ASSUME NEW n \in 0 .. Used - 1
        PROVE  Walk[n] # end /\ v[Walk[n]] = Contents[n + 1]
    <3>1. n \in 0 .. Size /\ n + 1 \in 1 .. Used /\ n + 1 - 1 = n
      BY <2>1
    <3>2. Walk[n] # end
      <4>1. Walk[n] = IF start + n <= Size THEN start + n ELSE start + n - capacity
        BY <2>2, <3>1
      <4>2. n < Used
        BY <2>1
      <4> QED BY <2>1, <3>1, <4>1, <4>2 DEF capacity
    <3>3. Contents[n + 1] = At(n)
      BY <3>1 DEF Contents
    <3> QED BY <2>2, <3>1, <3>2, <3>3 DEF At
  <2> QED BY <2>3, <2>4 DEF WalkVisitsContents
<1>2. IInv => WalkVisitsContents
  BY <1>1
<1> QED BY <1>2, InvInit, InvNext, PTL DEF Spec
-----------------------------------------------------------------------------
LEMMA RefineInit == Init => Fifo!Init
<1> SUFFICES ASSUME Init PROVE Contents = <<>>
  BY DEF Fifo!Init
<1>1. IInv
  BY InvInit
<1>2. Used = 0
  BY <1>1, UsedIs DEF Init, IInv
<1> QED BY <1>2 DEF Contents

LEMMA RefineNext == IInv /\ IInv' /\ [Next]_vars => [Fifo!Next]_Contents
<1> SUFFICES ASSUME IInv, IInv', [Next]_vars PROVE [Fifo!Next]_Contents
  OBVIOUS
<1> ContentsOK /\ ContentsOK'
  BY ContentsIs, PTL
<1> USE DEF ContentsOK
<1>1. ASSUME ~Full, NEW t \in Value, Push(t) PROVE Fifo!Push(t)
  <2>1. /\ Used \in 0 .. Size
        /\ Used < Size
        /\ Used' = Used + 1
        /\ \A i \in 0 .. Used : At(i)' = IF i = Used THEN t ELSE At(i)
    BY <1>1, UsedIs, PushEffect DEF IInv
  <2>2. Contents \in Seq(Value) /\ Len(Contents) = Used
    BY ContentsIs
  <2>3. Contents' = Append(Contents, t)
    <3>1. ASSUME NEW i \in 1 .. Used + 1
          PROVE  Contents'[i] = Append(Contents, t)[i]
      <4>1. Contents'[i] = At(i - 1)'
        BY <2>1
      <4>2. At(i - 1)' = IF i - 1 = Used THEN t ELSE At(i - 1)
        BY <2>1
      <4>3. i # Used + 1 => Contents[i] = At(i - 1)
        BY <2>1
      <4> QED BY <2>1, <2>2, <4>1, <4>2, <4>3
    <3>2. Contents' \in Seq(Value) /\ Len(Contents') = Used + 1
      BY <2>1
    <3> QED BY <2>1, <2>2, <3>1, <3>2
  <2> QED BY <2>1, <2>2, <2>3 DEF Fifo!Push
<1>2. ASSUME ~Empty, Pop PROVE Fifo!Pop
  <2>1. /\ Used \in 0 .. Size
        /\ Used > 0
        /\ Used' = Used - 1
        /\ \A i \in 0 .. Used - 2 : At(i)' = At(i + 1)
    BY <1>2, UsedIs, PopEffect DEF IInv
  <2>2. Contents # <<>> /\ Contents \in Seq(Value) /\ Len(Contents) = Used
    BY <2>1
  <2>3. Contents' = Tail(Contents)
    <3>1. \A i \in 1 .. Used - 1 : Contents'[i] = Tail(Contents)[i]
      <4> SUFFICES ASSUME NEW i \in 1 .. Used - 1
                   PROVE  Contents'[i] = Tail(Contents)[i]
        OBVIOUS
      <4>1. Contents'[i] = At(i - 1)' /\ At(i - 1)' = At(i)
        BY <2>1
      <4>2. Tail(Contents)[i] = Contents[i + 1]
        BY <2>1, <2>2
      <4>3. Contents[i + 1] = At(i)
        BY <2>1
      <4> QED BY <4>1, <4>2, <4>3
    <3>2. Tail(Contents) \in Seq(Value) /\ Len(Tail(Contents)) = Used - 1
      BY <2>1, <2>2
    <3>3. Contents' \in Seq(Value) /\ Len(Contents') = Used - 1
      BY <2>1
    <3> QED BY <2>1, <3>1, <3>2, <3>3
  <2> QED BY <2>2, <2>3 DEF Fifo!Pop
<1>3. CASE UNCHANGED vars
  BY <1>3 DEF vars, Contents, At, Used, capacity
<1> QED BY <1>1, <1>2, <1>3 DEF Next, PushIfNotFull, PopIfNotEmpty, Fifo!Next

\* The ring of Circular_vector.h is a bounded first-in first-out queue of Size
\* elements, for every Size and every set of elements.
THEOREM RingImplementsFifo == Spec => ImplementsFifo
<1>1. Spec => []IInv
  BY InvInit, InvNext, PTL DEF Spec
<1> QED BY <1>1, RefineInit, RefineNext, PTL DEF Spec, ImplementsFifo, Fifo!Spec
=============================================================================
