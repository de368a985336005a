-------------------------------- MODULE Stream --------------------------------
(***************************************************************************)
(* One direction of a connection (myLibraries/Socket.cpp).  sendString     *)
(* writes the length of a message and then its text; recvString reads the  *)
(* length and then as much text.  A message is cut into parts: number 0 is *)
(* the length, 1 .. size the text.  The buffers of the two systems hold    *)
(* Room parts on their way; a writer waits while they are full.            *)
(*                                                                         *)
(* Over TCP recvString reads until the whole text is there.  Over TLS it   *)
(* calls wolfSSL_read once, which returns at most one record: a text that  *)
(* was written as more than one record is refused.                         *)
(***************************************************************************)
EXTENDS Naturals, Sequences

CONSTANTS Message,   \* the messages: records with a field "size"
          Room,      \* the parts that the buffers hold
          Record     \* the parts of a TLS record; over TCP no text is longer

VARIABLES outgoing,  \* the parts that sendString has not written yet
          buffer,    \* the parts on their way
          incoming   \* the parts that recvString has read

Part == [of : Message, nr : Nat]
Parts(m) == [i \in 1 .. m.size + 1 |-> [of |-> m, nr |-> i - 1]]

Init == outgoing = <<>> /\ buffer = <<>> /\ incoming = <<>>

\* sendString was called and has not returned; recvString likewise.
Writing == outgoing # <<>>
Blocked == Writing /\ Len(buffer) = Room
Reading == incoming # <<>>

Send(m) == ~Writing /\ outgoing' = Parts(m) /\ UNCHANGED <<buffer, incoming>>

\* Mutant: the writer does not wait.
WriteRegardless == /\ Writing
                   /\ buffer' = Append(buffer, Head(outgoing))
                   /\ outgoing' = Tail(outgoing)
                   /\ UNCHANGED incoming

Write == /\ Writing /\ Len(buffer) < Room
         /\ buffer' = Append(buffer, Head(outgoing))
         /\ outgoing' = Tail(outgoing)
         /\ UNCHANGED incoming

Arriving == Head(incoming).of

\* Mutant: recvString takes the first part for the whole text.
CompleteShort == Len(incoming) = 2

Complete == Reading /\ Len(incoming) = Arriving.size + 1
Refused == Reading /\ Arriving.size > Record /\ Len(incoming) = Record + 1

Read == /\ ~Complete /\ ~Refused /\ buffer # <<>>
        /\ incoming' = Append(incoming, Head(buffer))
        /\ buffer' = Tail(buffer)
        /\ UNCHANGED outgoing

Deliver(m) == /\ Complete /\ m = Arriving
              /\ incoming' = <<>>
              /\ UNCHANGED <<outgoing, buffer>>

\* The connection is gone: what was not written will not be, and the end of
\* what was on its way may be lost.
Cut == /\ outgoing' = <<>>
       /\ \E n \in 0 .. Len(buffer) : buffer' = SubSeq(buffer, 1, n)
       /\ UNCHANGED incoming
-----------------------------------------------------------------------------
TypeOK == /\ outgoing \in Seq(Part)
          /\ buffer \in Seq(Part) /\ Len(buffer) <= Room
          /\ incoming \in Seq(Part)

UnderWay == incoming \o buffer \o outgoing

\* What the next recvString takes for a length is one, and each part is followed by
\* the next of the same message, or by a length: no message is read as two.
Framed == /\ UnderWay # <<>> => Head(UnderWay).nr = 0
          /\ \A i \in 1 .. Len(UnderWay) - 1 :
                LET a == UnderWay[i]  b == UnderWay[i + 1]
                IN  IF a.nr < a.of.size THEN b = [of |-> a.of, nr |-> a.nr + 1] ELSE b.nr = 0
=============================================================================
