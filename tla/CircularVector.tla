---------------------------- MODULE CircularVector ----------------------------
(***************************************************************************)
(* Circular_vector<T> (myLibraries/Circular_vector.h:30-182): an array, a  *)
(* head index and a tail index, one slot always left free so that a full   *)
(* ring can be told from an empty one.                                     *)
(*                                                                         *)
(* push, front and pop check nothing in the code.  Next therefore contains *)
(* the calls as the client makes them: a push only after full() answered   *)
(* no (client/ProtocolManager.cpp:254) or after a pop (334, 351), a pop    *)
(* only of the element that front() returned.                              *)
(***************************************************************************)
EXTENDS Integers, Sequences

CONSTANTS Value,   \* the elements
          Blank,   \* a default-constructed element, or one moved out of its slot
          Size     \* the constructor's argument

ASSUME RingAssumption == Size \in Nat /\ Blank \notin Value

VARIABLES v,       \* _v: the slots
          start,   \* _start: the index of the oldest element
          end      \* _end: the index of the next free slot

vars == <<v, start, end>>

capacity == Size + 1
Slots == 0 .. capacity     \* _v.resize(_capacity + 1): one slot is never used

Empty == start = end
\* Mutant: the comparison does not wrap around.
FullUnwrapped == end + 1 = start

Full == (end + 1) % capacity = start
\* Mutant: one too few when the tail is before the head.
UsedShort == IF end >= start THEN end - start ELSE capacity + end - start - 1

Used == (capacity + end - start) % capacity    \* size()

Init == /\ v = [i \in Slots |-> Blank]
        /\ start = 0
        /\ end = 0

\* Mutant: the tail moves before the element is stored.
PushAhead(t) == /\ v' = [v EXCEPT ![(end + 1) % capacity] = t]
                /\ end' = (end + 1) % capacity
                /\ UNCHANGED start

Push(t) == /\ v' = [v EXCEPT ![end] = t]
           /\ end' = (end + 1) % capacity
           /\ UNCHANGED start

Pop == /\ v' = [v EXCEPT ![start] = Blank]
       /\ start' = (start + 1) % capacity
       /\ UNCHANGED end

PushIfNotFull == ~Full /\ \E t \in Value : Push(t)
PopIfNotEmpty == ~Empty /\ Pop

Next == PushIfNotFull \/ PopIfNotEmpty

Spec == Init /\ [][Next]_vars
-----------------------------------------------------------------------------
(* The element that is i places behind the head, and all the elements.      *)
At(i) == v[(start + i) % capacity]
Contents == [i \in 1 .. Used |-> At(i - 1)]

\* The slots visited by for(i = start; i != end; i = (i+1) % capacity) of
\* recoverFromError (client/ProtocolManager.cpp:216), n steps from the head.
Walk[n \in Nat] == IF n = 0 THEN start ELSE (Walk[n - 1] + 1) % capacity

Fifo == INSTANCE BoundedFifo WITH fifo <- Contents

\* The indices stay inside the ring and the slots hold elements or blanks.
TypeOK == /\ v \in [Slots -> Value \cup {Blank}]
          /\ start \in 0 .. Size
          /\ end \in 0 .. Size

\* Every slot between the head and the tail holds an element, never a blank:
\* front(), and the walk of recoverFromError over the indices from start() to
\* end() (client/ProtocolManager.cpp:216), read only what was pushed.
NoBlankInside == \A i \in 0 .. Used - 1 : At(i) \in Value

\* The loop of recoverFromError stops after exactly size() iterations and meets
\* the elements in the order of the queue.
WalkVisitsContents ==
    /\ Walk[Used] = end
    /\ \A n \in 0 .. Used - 1 : Walk[n] # end /\ v[Walk[n]] = Contents[n + 1]

\* The ring implements the bounded first-in first-out queue: pushes and pops
\* come out in order and a ring of Size places never loses an element by
\* overwriting it (the tail never catches up with the head).
ImplementsFifo == Fifo!Spec
=============================================================================
