----------------------------- MODULE BoundedFifo -----------------------------
(***************************************************************************)
(* What the rings of myLibraries/Circular_vector.h promise to their users: *)
(* a first-in first-out queue that never holds more than Size elements.    *)
(* The client's window of unanswered messages is one (client/main.cpp:324).*)
(***************************************************************************)
EXTENDS Naturals, Sequences

CONSTANTS Value,   \* what the queue stores
          Size     \* how many elements it can hold (the constructor's argument)

VARIABLE fifo      \* the stored elements, the oldest one first

TypeOK == fifo \in Seq(Value) /\ Len(fifo) <= Size

Init == fifo = <<>>

Push(t) == /\ Len(fifo) < Size
           /\ fifo' = Append(fifo, t)

Pop == /\ fifo # <<>>
       /\ fifo' = Tail(fifo)

Next == Pop \/ \E t \in Value : Push(t)

Spec == Init /\ [][Next]_fifo
=============================================================================
