----------------------------- MODULE UploadProofs -----------------------------
(***************************************************************************)
(* The transfer of a file: texts are never confused with lengths, the      *)
(* buffers hold whatever the server has to say, and the copy is never a    *)
(* mixture, for all sizes of window, chunks, records and buffers.  The     *)
(* invariant has three parts: each direction is a chain of messages        *)
(* (Flow), what the STORs announce was in the file (Announcements), and    *)
(* each reply, and each message that will get one, has a place of its own  *)
(* in the window (Owed).                                                   *)
(***************************************************************************)
EXTENDS Upload, SequenceTheorems, TLAPS

-----------------------------------------------------------------------------
(* One direction: i was read, b is on its way, o has to be written.         *)
PartOf(M) == [of : M, nr : Nat]
PartsOf(m) == [k \in 1 .. m.size + 1 |-> [of |-> m, nr |-> k - 1]]

Follows(x, y) == IF x.nr < x.of.size THEN y = [of |-> x.of, nr |-> x.nr + 1] ELSE y.nr = 0
Chain(s) == /\ s # <<>> => Head(s).nr = 0
            /\ \A k \in 1 .. Len(s) - 1 : Follows(s[k], s[k + 1])
Whole(s) == s # <<>> => s[Len(s)].nr = s[Len(s)].of.size
Begun(i) == i # <<>> => /\ Len(i) <= Head(i).of.size + 1
                        /\ \A k \in 1 .. Len(i) : i[k] = [of |-> Head(i).of, nr |-> k - 1]

Under(i, b, o) == i \o b \o o
Flow(M, i, b, o) == /\ i \in Seq(PartOf(M)) /\ b \in Seq(PartOf(M)) /\ o \in Seq(PartOf(M))
                    /\ Chain(i \o b \o o)
                    /\ Begun(i)

\* The order in which sequences are joined; under a name, for the provers to find.
Associate(a, b, c) == (a \o b) \o c = a \o (b \o c)
LEMMA JoinsAssociate ==
  ASSUME NEW S, NEW a \in Seq(S), NEW b \in Seq(S), NEW c \in Seq(S)
  PROVE  Associate(a, b, c)
  BY ConcatAssociative DEF Associate

LEMMA PartsAre ==
  ASSUME NEW M, NEW m \in M, m.size \in Nat
  PROVE  /\ PartsOf(m) \in Seq(PartOf(M))
         /\ Len(PartsOf(m)) = m.size + 1
         /\ \A k \in 1 .. m.size + 1 : PartsOf(m)[k] = [of |-> m, nr |-> k - 1]
         /\ Chain(PartsOf(m)) /\ Whole(PartsOf(m))
<1> DEFINE s == PartsOf(m)
<1>1. s \in [1 .. m.size + 1 -> PartOf(M)] /\ m.size + 1 \in Nat
  BY DEF PartsOf, PartOf
<1>2. s \in Seq(PartOf(M)) /\ Len(s) = m.size + 1
  BY <1>1, SeqDef, LenProperties
<1>3. \A k \in 1 .. m.size + 1 : s[k].of = m /\ s[k].nr = k - 1 /\ s[k] = [of |-> m, nr |-> k - 1]
  BY DEF PartsOf
<1> HIDE DEF s
<1>4. Chain(s)
  <2>1. Head(s).nr = 0
    <3>1. Head(s) = s[1]
      BY <1>2
    <3>2. 1 \in 1 .. m.size + 1
      OBVIOUS
    <3>3. s[1].nr = 1 - 1
      BY ONLY <3>2, <1>3
    <3> QED BY ONLY <3>1, <3>3
  <2>2. ASSUME NEW k \in 1 .. Len(s) - 1 PROVE Follows(s[k], s[k + 1])
    <3>1. k \in 1 .. m.size + 1 /\ k + 1 \in 1 .. m.size + 1 /\ (k + 1) - 1 = (k - 1) + 1
      BY <1>1, <1>2
    <3>2. s[k].nr = k - 1 /\ s[k].of = m
      BY <1>3, <3>1
    <3>3. k - 1 < m.size
      BY <1>1, <3>1
    <3>4. s[k].nr < s[k].of.size
      BY ONLY <3>2, <3>3
    <3>5. s[k].nr + 1 = (k + 1) - 1
      BY ONLY <3>1, <3>2
    <3>6. s[k + 1] = [of |-> s[k].of, nr |-> s[k].nr + 1]
      BY ONLY <1>3, <3>1, <3>2, <3>5
    <3> QED BY <3>4, <3>6 DEF Follows
  <2> QED BY <2>1, <2>2 DEF Chain
<1>5. Whole(s)
  <2>1. m.size + 1 \in 1 .. m.size + 1 /\ (m.size + 1) - 1 = m.size
    BY <1>1
  <2> QED BY <1>2, <1>3, <2>1 DEF Whole
<1> QED BY <1>2, <1>3, <1>4, <1>5 DEF s

LEMMA PartElement ==
  ASSUME NEW M, NEW s \in Seq(PartOf(M)), NEW k \in 1 .. Len(s)
  PROVE  s[k] \in PartOf(M) /\ s[k].of \in M /\ s[k].nr \in Nat
<1>1. s[k] \in PartOf(M)
  BY ElementOfSeq
<1> QED BY <1>1 DEF PartOf

\* A message after whole ones.
LEMMA ChainsJoin ==
  ASSUME NEW M, NEW s \in Seq(PartOf(M)), NEW t \in Seq(PartOf(M)), Chain(s), Whole(s), Chain(t)
  PROVE  Chain(s \o t) /\ (Whole(t) => Whole(s \o t))
<1>1. /\ s \o t \in Seq(PartOf(M)) /\ Len(s \o t) = Len(s) + Len(t)
      /\ Len(s) \in Nat /\ Len(t) \in Nat
      /\ \A k \in 1 .. Len(s) + Len(t) : (s \o t)[k] = IF k <= Len(s) THEN s[k] ELSE t[k - Len(s)]
  BY ConcatProperties, LenProperties
<1>2. s # <<>> => Len(s) # 0 /\ Head(s) = s[1]
  BY EmptySeq
<1>3. t # <<>> => Len(t) # 0 /\ Head(t) = t[1]
  BY EmptySeq
<1>4. s \o t # <<>> => Head(s \o t) = (s \o t)[1] /\ Len(s \o t) # 0
  BY <1>1, EmptySeq
<1>5. s \o t # <<>> => Head(s \o t).nr = 0
  BY <1>1, <1>2, <1>3, <1>4, EmptySeq DEF Chain
<1>6. ASSUME NEW k \in 1 .. Len(s \o t) - 1
      PROVE  Follows((s \o t)[k], (s \o t)[k + 1])
  <2>1. CASE k < Len(s)
    BY <1>1, <2>1 DEF Chain
  <2>2. CASE k = Len(s)
    <3>1. s # <<>> /\ t # <<>> /\ (s \o t)[k] = s[Len(s)] /\ (s \o t)[k + 1] = t[1]
      BY <1>1, <2>2, EmptySeq
    <3>2. s[Len(s)].nr = s[Len(s)].of.size /\ s[Len(s)].nr \in Nat /\ t[1].nr = 0
      <4>1. Len(s) \in 1 .. Len(s)
        BY <3>1, <1>1, <1>2
      <4> QED BY <4>1, <3>1, <1>3, PartElement DEF Chain, Whole
    <3> QED BY <3>1, <3>2 DEF Follows
  <2>3. CASE k > Len(s)
    <3>1. k - Len(s) \in 1 .. Len(t) - 1 /\ (s \o t)[k] = t[k - Len(s)]
          /\ (s \o t)[k + 1] = t[(k - Len(s)) + 1]
      BY <1>1, <2>3
    <3> QED BY <3>1 DEF Chain
  <2> QED BY <1>1, <2>1, <2>2, <2>3
<1>7. ASSUME Whole(t) PROVE Whole(s \o t)
  BY <1>1, <1>3, <1>7, EmptySeq DEF Whole
<1> QED BY <1>5, <1>6, <1>7 DEF Chain

\* What remains of a chain behind a whole message, and what came before a cut.
LEMMA ChainsPart ==
  ASSUME NEW M, NEW s \in Seq(PartOf(M)), NEW t \in Seq(PartOf(M)), Chain(s \o t)
  PROVE  /\ Chain(s)
         /\ Whole(s) => Chain(t)
         /\ Whole(s) /\ Whole(s \o t) => Whole(t)
<1>1. /\ s \o t \in Seq(PartOf(M)) /\ Len(s \o t) = Len(s) + Len(t)
      /\ Len(s) \in Nat /\ Len(t) \in Nat
      /\ \A k \in 1 .. Len(s) : (s \o t)[k] = s[k]
      /\ \A k \in 1 .. Len(t) : (s \o t)[k + Len(s)] = t[k]
  BY ConcatProperties, LenProperties
<1>2. s # <<>> => Len(s) # 0 /\ Head(s) = s[1]
  BY EmptySeq
<1>3. t # <<>> => Len(t) # 0 /\ Head(t) = t[1]
  BY EmptySeq
<1>4. s \o t # <<>> => Head(s \o t) = (s \o t)[1] /\ Len(s \o t) # 0
  BY <1>1, EmptySeq
<1>5. Chain(s)
  <2>1. s # <<>> => Head(s).nr = 0
    BY <1>1, <1>2, <1>4, EmptySeq DEF Chain
  <2>2. ASSUME NEW k \in 1 .. Len(s) - 1 PROVE Follows(s[k], s[k + 1])
    <3>1. k \in 1 .. Len(s \o t) - 1 /\ (s \o t)[k] = s[k] /\ (s \o t)[k + 1] = s[k + 1]
      BY <1>1
    <3> QED BY <3>1 DEF Chain
  <2> QED BY <2>1, <2>2 DEF Chain
<1>6. ASSUME Whole(s) PROVE Chain(t)
  <2>1. ASSUME t # <<>> PROVE Head(t).nr = 0
    <3>1. CASE s = <<>>
      BY <1>1, <1>3, <1>4, <2>1, <3>1, EmptySeq DEF Chain
    <3>2. CASE s # <<>>
      <4>1. Len(s) \in 1 .. Len(s \o t) - 1
        BY <1>1, <1>2, <1>3, <2>1, <3>2
      <4>2. (s \o t)[Len(s)] = s[Len(s)] /\ (s \o t)[Len(s) + 1] = t[1]
        BY <1>1, <1>2, <1>3, <2>1, <3>2
      <4>3. Follows(s[Len(s)], t[1])
        BY <4>1, <4>2 DEF Chain
      <4>4. s[Len(s)].nr = s[Len(s)].of.size /\ s[Len(s)].nr \in Nat
        <5>1. Len(s) \in 1 .. Len(s)
          BY <3>2, <1>1, <1>2
        <5> QED BY <5>1, <3>2, <1>6, PartElement DEF Whole
      <4> QED BY <4>3, <4>4, <1>3, <2>1 DEF Follows
    <3> QED BY <3>1, <3>2
  <2>2. ASSUME NEW k \in 1 .. Len(t) - 1 PROVE Follows(t[k], t[k + 1])
    <3>1. /\ k + Len(s) \in 1 .. Len(s \o t) - 1 /\ (s \o t)[k + Len(s)] = t[k]
          /\ (s \o t)[(k + Len(s)) + 1] = t[k + 1]
      <4>1. (s \o t)[(k + 1) + Len(s)] = t[k + 1]
        BY <1>1
      <4> QED BY <4>1, <1>1
    <3> QED BY <3>1 DEF Chain
  <2> QED BY <2>1, <2>2 DEF Chain
<1>7. ASSUME Whole(s \o t) PROVE Whole(t)
  <2>1. ASSUME t # <<>> PROVE t[Len(t)] = (s \o t)[Len(s \o t)] /\ s \o t # <<>>
    BY <1>1, <1>3, <2>1, EmptySeq
  <2> QED BY <2>1, <1>7 DEF Whole
<1> QED BY <1>5, <1>6, <1>7

\* sendString: a message is added to what is under way.
LEMMA FlowSend ==
  ASSUME NEW M, NEW i, NEW b, NEW o, Flow(M, i, b, o), o = <<>>, Whole(Under(i, b, o)),
         NEW m \in M, m.size \in Nat
  PROVE  /\ Flow(M, i, b, PartsOf(m)) /\ Whole(Under(i, b, PartsOf(m)))
         /\ Under(i, b, PartsOf(m)) = Under(i, b, o) \o PartsOf(m)
<1>1. /\ i \in Seq(PartOf(M)) /\ b \in Seq(PartOf(M)) /\ i \o b \in Seq(PartOf(M))
      /\ i \o b \o o = i \o b
  BY ConcatProperties, ConcatEmptySeq DEF Flow
<1>2. Chain(i \o b) /\ Whole(i \o b)
  BY <1>1 DEF Flow, Under
<1>3. Chain((i \o b) \o PartsOf(m)) /\ Whole((i \o b) \o PartsOf(m))
  BY <1>1, <1>2, PartsAre, ChainsJoin
<1> QED BY <1>1, <1>3, PartsAre DEF Flow, Under

\* A part moves on: what is under way remains the same.
LEMMA PartsMove ==
  ASSUME NEW S, NEW b \in Seq(S), NEW o \in Seq(S), o # <<>>
  PROVE  /\ Append(b, Head(o)) \in Seq(S) /\ Tail(o) \in Seq(S)
         /\ Append(b, Head(o)) \o Tail(o) = b \o o
<1> DEFINE h == Head(o)
           u == Tail(o)
<1>1. h \in S /\ u \in Seq(S) /\ Len(u) = Len(o) - 1 /\ \A k \in 1 .. Len(u) : u[k] = o[k + 1]
  BY HeadTailProperties
<1>2. Len(o) \in Nat /\ Len(o) # 0 /\ h = o[1]
  BY LenProperties, EmptySeq
<1> HIDE DEF h, u
<1>3. <<h>> \in Seq(S) /\ Len(<<h>>) = 1 /\ <<h>>[1] = h
  BY <1>1
<1>4. /\ <<h>> \o u \in Seq(S) /\ Len(<<h>> \o u) = Len(o)
      /\ \A k \in 1 .. Len(o) : (<<h>> \o u)[k] = o[k]
  <2>1. /\ <<h>> \o u \in Seq(S) /\ Len(<<h>> \o u) = 1 + Len(u)
        /\ \A k \in 1 .. 1 + Len(u) : (<<h>> \o u)[k] = IF k <= 1 THEN <<h>>[k] ELSE u[k - 1]
    BY <1>1, <1>3, ConcatProperties
  <2>2. 1 + Len(u) = Len(o)
    BY <1>1, <1>2
  <2>3. ASSUME NEW k \in 1 .. Len(o) PROVE (<<h>> \o u)[k] = o[k]
    <3>1. CASE k = 1
      BY <2>1, <2>2, <3>1, <1>2, <1>3
    <3>2. CASE k # 1
      <4>1. k - 1 \in 1 .. Len(u) /\ (k - 1) + 1 = k /\ ~ (k <= 1)
        BY <1>1, <1>2, <3>2
      <4> QED BY <4>1, <2>1, <2>2, <1>1
    <3> QED BY <3>1, <3>2
  <2> QED BY <2>1, <2>2, <2>3
<1>5. <<h>> \o u = o
  BY <1>4, SeqEqual
<1>6. Append(b, h) = b \o <<h>> /\ Append(b, h) \in Seq(S)
  BY <1>1, AppendIsConcat, AppendProperties
<1>7. (b \o <<h>>) \o u = b \o (<<h>> \o u)
  <2>1. Associate(b, <<h>>, u)
    BY ONLY <1>1, <1>3, b \in Seq(S), JoinsAssociate
  <2> QED BY ONLY <2>1 DEF Associate
<1> QED BY <1>1, <1>5, <1>6, <1>7 DEF h, u

LEMMA FlowWrite ==
  ASSUME NEW M, NEW i, NEW b, NEW o, Flow(M, i, b, o), o # <<>>
  PROVE  /\ Flow(M, i, Append(b, Head(o)), Tail(o))
         /\ Under(i, Append(b, Head(o)), Tail(o)) = Under(i, b, o)
<1> DEFINE c == Append(b, Head(o))
           u == Tail(o)
<1>1. i \in Seq(PartOf(M)) /\ b \in Seq(PartOf(M)) /\ o \in Seq(PartOf(M))
  BY DEF Flow
<1>2. c \in Seq(PartOf(M)) /\ u \in Seq(PartOf(M)) /\ c \o u = b \o o
  BY <1>1, PartsMove
<1> HIDE DEF c, u
<1>3. i \o c \o u = i \o b \o o
  <2>1. (i \o c) \o u = i \o (c \o u)
    <3>1. c \in Seq(PartOf(M)) /\ u \in Seq(PartOf(M))
      BY <1>2
    <3>2. Associate(i, c, u)
      BY ONLY <1>1, <3>1, JoinsAssociate
    <3> QED BY ONLY <3>2 DEF Associate
  <2>2. (i \o b) \o o = i \o (b \o o)
    <3>1. Associate(i, b, o)
      BY ONLY <1>1, JoinsAssociate
    <3> QED BY ONLY <3>1 DEF Associate
  <2> QED BY ONLY <2>1, <2>2, <1>2
<1>4. Flow(M, i, c, u)
  BY <1>1, <1>2, <1>3 DEF Flow
<1> QED BY <1>3, <1>4 DEF c, u, Under

LEMMA FlowRead ==
  ASSUME NEW M, NEW i, NEW b, NEW o, Flow(M, i, b, o), b # <<>>,
         ~ (i # <<>> /\ Len(i) = Head(i).of.size + 1),
         \A m \in M : m.size \in Nat
  PROVE  /\ Flow(M, Append(i, Head(b)), Tail(b), o)
         /\ Under(Append(i, Head(b)), Tail(b), o) = Under(i, b, o)
<1> DEFINE j == Append(i, Head(b))
           c == Tail(b)
<1>1. i \in Seq(PartOf(M)) /\ b \in Seq(PartOf(M)) /\ o \in Seq(PartOf(M))
  BY DEF Flow
<1>2. /\ j \in Seq(PartOf(M)) /\ c \in Seq(PartOf(M)) /\ j \o c = i \o b
      /\ Len(i) \in Nat /\ Len(j) = Len(i) + 1 /\ j[Len(j)] = Head(b)
      /\ \A k \in 1 .. Len(i) : j[k] = i[k]
  BY <1>1, PartsMove, HeadTailProperties, AppendProperties, LenProperties
<1> HIDE DEF j, c
<1>3. j \o c \o o = i \o b \o o
  BY <1>2
<1>4. Chain(j)
  <2>1. (j \o c) \o o = j \o (c \o o) /\ c \o o \in Seq(PartOf(M))
    <3>1. j \in Seq(PartOf(M)) /\ c \in Seq(PartOf(M))
      BY <1>2
    <3>2. c \o o \in Seq(PartOf(M))
      BY ONLY <1>1, <3>1, ConcatProperties
    <3>3. Associate(j, c, o)
      BY ONLY <1>1, <3>1, JoinsAssociate
    <3> QED BY ONLY <3>2, <3>3 DEF Associate
  <2>2. Chain(j \o (c \o o))
    BY <1>3, <2>1 DEF Flow
  <2> QED BY <2>1, <2>2, <1>2, ChainsPart
<1>5. Begun(j)
  <2>1. j # <<>> /\ Head(j) = j[1]
    BY <1>2
  <2>2. CASE i = <<>>
    <3>1. Len(j) = 1
      BY <1>2, <2>2
    <3>2. j[1] \in PartOf(M) /\ j[1].nr = 0
      BY <1>2, <1>4, <2>1, <3>1, PartElement DEF Chain
    <3>3. j[1] = [of |-> j[1].of, nr |-> 1 - 1] /\ j[1].of.size \in Nat
      BY <1>2, <3>1, <3>2, PartElement DEF PartOf
    <3> QED BY <2>1, <3>1, <3>3 DEF Begun
  <2>3. CASE i # <<>>
    <3>1. Len(i) \in 1 .. Len(i) /\ Head(i) = i[1] /\ 1 \in 1 .. Len(i)
      BY <1>1, <1>2, <2>3
    <3>2. Head(j) = Head(i)
      BY <1>2, <2>1, <3>1
    <3>3. \A k \in 1 .. Len(i) : j[k] = [of |-> Head(j).of, nr |-> k - 1]
      BY <1>2, <3>2 DEF Flow, Begun
    <3>4. Head(j).of.size \in Nat
      BY <1>1, <3>1, <3>2, PartElement
    <3>5. j[Len(i)].of = Head(j).of /\ j[Len(i)].nr = Len(i) - 1
      <4>1. j[Len(i)] = [of |-> Head(j).of, nr |-> Len(i) - 1]
        BY ONLY <3>1, <3>3
      <4> QED BY ONLY <4>1
    <3>6. Follows(j[Len(i)], j[Len(i) + 1])
      BY <1>2, <1>4, <3>1 DEF Chain
    <3>7. Len(i) - 1 < Head(j).of.size /\ Len(j) <= Head(j).of.size + 1
      <4>1. Len(i) <= Head(j).of.size + 1 /\ Len(i) # Head(j).of.size + 1
        BY <2>3, <3>2 DEF Flow, Begun
      <4> QED BY ONLY <1>2, <3>4, <4>1
    <3>8. j[Len(i) + 1] = [of |-> Head(j).of, nr |-> (Len(i) + 1) - 1]
      <4>1. j[Len(i)].nr < j[Len(i)].of.size /\ j[Len(i)].nr + 1 = (Len(i) + 1) - 1
        <5>1. Len(i) - 1 < Head(j).of.size /\ (Len(i) - 1) + 1 = (Len(i) + 1) - 1
          BY ONLY <3>7, <1>2
        <5> QED BY ONLY <3>5, <5>1, Zenon
      <4> QED BY <3>5, <3>6, <4>1 DEF Follows
    <3>9. \A k \in 1 .. Len(j) : k \in 1 .. Len(i) \/ k = Len(i) + 1
      BY <1>2
    <3> QED BY <3>3, <3>7, <3>8, <3>9 DEF Begun
  <2> QED BY <2>2, <2>3
<1>6. Flow(M, j, c, o)
  BY <1>1, <1>2, <1>3, <1>5 DEF Flow
<1> QED BY <1>3, <1>6 DEF j, c, Under

\* recvString returns: what is behind the message moves up by its length.
Sized(M) == \A m \in M : m.size \in Nat
IsRead(i) == i # <<>> /\ Len(i) = Head(i).of.size + 1
MovesUp(i, b, o) ==
    /\ Whole(Under(i, b, o)) => Whole(Under(<<>>, b, o))
    /\ Len(Under(i, b, o)) = Len(Under(<<>>, b, o)) + Len(i)
    /\ \A k \in 1 .. Len(Under(<<>>, b, o)) : Under(<<>>, b, o)[k] = Under(i, b, o)[k + Len(i)]
    /\ Len(i) \in 1 .. Len(Under(i, b, o))
    /\ Under(i, b, o)[Len(i)] = [of |-> Head(i).of, nr |-> Head(i).of.size]

LEMMA FlowDeliver ==
  ASSUME NEW M, NEW i, NEW b, NEW o, Flow(M, i, b, o), Sized(M), IsRead(i)
  PROVE  Flow(M, <<>>, b, o) /\ MovesUp(i, b, o)
<1> DEFINE t == b \o o
<1>0. /\ \A m \in M : m.size \in Nat
      /\ i # <<>> /\ Len(i) = Head(i).of.size + 1
  BY DEF Sized, IsRead
<1>1. i \in Seq(PartOf(M)) /\ b \in Seq(PartOf(M)) /\ o \in Seq(PartOf(M))
  BY DEF Flow
<1>2. t \in Seq(PartOf(M)) /\ <<>> \o b \o o = t
  BY <1>1, ConcatProperties, ConcatEmptySeq
<1>3. i \o b \o o = i \o t
  <2>1. Associate(i, b, o)
    BY ONLY <1>1, JoinsAssociate
  <2> QED BY <2>1 DEF Associate
<1> HIDE DEF t
<1>4. /\ Len(i) \in Nat /\ Len(t) \in Nat /\ Len(i) # 0 /\ Len(i \o t) = Len(i) + Len(t)
      /\ \A k \in 1 .. Len(i) + Len(t) : (i \o t)[k] = IF k <= Len(i) THEN i[k] ELSE t[k - Len(i)]
  <2>1. Len(i) \in Nat /\ Len(t) \in Nat
    BY ONLY <1>1, <1>2, LenProperties
  <2>2. Len(i) # 0
    BY ONLY <1>0, <1>1, EmptySeq
  <2>3. /\ Len(i \o t) = Len(i) + Len(t)
        /\ \A k \in 1 .. Len(i) + Len(t) : (i \o t)[k] = IF k <= Len(i) THEN i[k] ELSE t[k - Len(i)]
    BY ONLY <1>1, <1>2, ConcatProperties
  <2> QED BY ONLY <2>1, <2>2, <2>3
<1>5. Len(i) \in 1 .. Len(i)
  BY <1>4
<1>6. i[Len(i)] = [of |-> Head(i).of, nr |-> Len(i) - 1]
  BY ONLY <1>0, <1>5, Flow(M, i, b, o) DEF Flow, Begun
<1>7. Head(i).of \in M /\ Head(i).of.size \in Nat
  <2>1. 1 \in 1 .. Len(i) /\ Head(i) = i[1]
    BY <1>1, <1>4
  <2> QED BY <1>0, <1>1, <2>1, PartElement
<1>8. i[Len(i)] = [of |-> Head(i).of, nr |-> Head(i).of.size]
  <2>1. Len(i) - 1 = Head(i).of.size
    BY <1>0, <1>7
  <2> QED BY ONLY <1>6, <2>1
<1>9. Whole(i)
  BY ONLY <1>8 DEF Whole
<1>10. Chain(t) /\ (Whole(i \o t) => Whole(t))
  <2>1. Chain(i \o t)
    BY <1>3 DEF Flow
  <2> QED BY ONLY <1>1, <1>2, <1>9, <2>1, ChainsPart
<1>11. Flow(M, <<>>, b, o)
  <2>1. <<>> \in Seq(PartOf(M)) /\ Begun(<<>>)
    BY DEF Begun
  <2> QED BY <1>1, <1>2, <1>10, <2>1 DEF Flow
<1>12. \A k \in 1 .. Len(t) : t[k] = (i \o t)[k + Len(i)]
  <2>1. ASSUME NEW k \in 1 .. Len(t) PROVE t[k] = (i \o t)[k + Len(i)]
    <3>1. k + Len(i) \in 1 .. Len(i) + Len(t) /\ ~ (k + Len(i) <= Len(i)) /\ (k + Len(i)) - Len(i) = k
      BY <1>4
    <3> QED BY <3>1, <1>4
  <2> QED BY <2>1
<1>13. Len(i) \in 1 .. Len(i \o t) /\ (i \o t)[Len(i)] = i[Len(i)]
  BY <1>4
<1>14. Under(i, b, o) = i \o t /\ Under(<<>>, b, o) = t
  BY <1>2, <1>3 DEF Under
<1>15. Len(i \o t) = Len(t) + Len(i)
  BY ONLY <1>4
<1> QED BY ONLY <1>8, <1>10, <1>11, <1>12, <1>13, <1>14, <1>15 DEF MovesUp

\* A cut leaves a beginning of what was under way.
LEMMA FlowCut ==
  ASSUME NEW M, NEW i, NEW b, NEW o, Flow(M, i, b, o), NEW n \in 0 .. Len(b)
  PROVE  /\ Flow(M, i, SubSeq(b, 1, n), <<>>)
         /\ Len(Under(i, SubSeq(b, 1, n), <<>>)) <= Len(Under(i, b, o))
         /\ \A k \in 1 .. Len(Under(i, SubSeq(b, 1, n), <<>>)) :
               Under(i, SubSeq(b, 1, n), <<>>)[k] = Under(i, b, o)[k]
<1> DEFINE c == SubSeq(b, 1, n)
           d == SubSeq(b, n + 1, Len(b))
<1>1. /\ i \in Seq(PartOf(M)) /\ b \in Seq(PartOf(M)) /\ o \in Seq(PartOf(M))
      /\ Len(b) \in Nat /\ n \in Nat /\ n <= Len(b)
  BY LenProperties DEF Flow
<1>2. c \in Seq(PartOf(M))
  <2>1. \A k \in 1 .. n : b[k] \in PartOf(M)
    BY <1>1, ElementOfSeq
  <2> QED BY <1>1, <2>1, SubSeqProperties
<1>3. d \in Seq(PartOf(M))
  <2>1. \A k \in n + 1 .. Len(b) : b[k] \in PartOf(M)
    BY <1>1, ElementOfSeq
  <2> QED BY <1>1, <2>1, SubSeqProperties
<1>4. c \o d = b
  <2>1. 1 \in 1 .. Len(b) + 1 /\ n \in 1 - 1 .. Len(b) /\ Len(b) \in n .. Len(b)
    BY <1>1
  <2>2. c \o d = SubSeq(b, 1, Len(b))
    BY ONLY <1>1, <2>1, ConcatAdjacentSubSeq
  <2> QED BY ONLY <1>1, <2>2, SubSeqFull
<1> HIDE DEF c, d
<1>5. /\ i \o c \in Seq(PartOf(M)) /\ (i \o c) \o <<>> = i \o c /\ d \o o \in Seq(PartOf(M))
      /\ i \o b \o o = (i \o c) \o (d \o o)
  <2>1. i \o c \in Seq(PartOf(M)) /\ d \o o \in Seq(PartOf(M))
    BY ONLY <1>1, <1>2, <1>3, ConcatProperties
  <2>2. (i \o c) \o d = i \o (c \o d)
    <3>1. Associate(i, c, d)
      BY ONLY <1>1, <1>2, <1>3, JoinsAssociate
    <3> QED BY ONLY <3>1 DEF Associate
  <2>3. ((i \o c) \o d) \o o = (i \o c) \o (d \o o)
    <3>1. Associate(i \o c, d, o)
      BY ONLY <1>1, <1>3, <2>1, JoinsAssociate
    <3> QED BY ONLY <3>1 DEF Associate
  <2>4. (i \o c) \o <<>> = i \o c
    BY ONLY <2>1, ConcatEmptySeq
  <2>5. i \o (c \o d) = i \o b
    BY ONLY <1>4
  <2> QED BY ONLY <2>1, <2>2, <2>3, <2>4, <2>5
<1>6. Chain(i \o c)
  <2>1. Chain((i \o c) \o (d \o o))
    BY <1>5 DEF Flow
  <2> QED BY ONLY <2>1, <1>5, ChainsPart
<1>7. Flow(M, i, c, <<>>)
  BY <1>1, <1>2, <1>5, <1>6 DEF Flow
<1>8. /\ Len(i \o c) <= Len((i \o c) \o (d \o o))
      /\ \A k \in 1 .. Len(i \o c) : (i \o c)[k] = ((i \o c) \o (d \o o))[k]
  BY <1>5, ConcatProperties, LenProperties
<1>9. Under(i, b, o) = (i \o c) \o (d \o o) /\ Under(i, c, <<>>) = i \o c
  BY <1>5 DEF Under
<1>10. /\ Len(Under(i, c, <<>>)) <= Len(Under(i, b, o))
       /\ \A k \in 1 .. Len(Under(i, c, <<>>)) : Under(i, c, <<>>)[k] = Under(i, b, o)[k]
  BY ONLY <1>8, <1>9
<1> QED BY <1>7, <1>10 DEF c
-----------------------------------------------------------------------------
(* The places in the window.                                                *)

\* The last part of a message that the server will answer.
Asks(p) == p.of.type # "DATA" /\ p.nr = p.of.size

\* There are no more than k replies on their way (d parts of them), r more if the
\* server is storing a file, and the requests under way (s) are for later places
\* of the window (of length w), each for its own.
OwedBy(k, n, s, d, w, r) ==
    /\ d <= 2 * k /\ k + r <= w
    /\ \A j \in 1 .. Len(s) : Asks(s[j]) => k + r < n[j] /\ n[j] <= w
    /\ \A i, j \in 1 .. Len(s) : i < j /\ Asks(s[i]) /\ Asks(s[j]) => n[i] < n[j]

Counts(k, n, s, d, w, r) == /\ k \in Nat /\ n \in [Nat -> Nat] /\ Len(s) \in Nat
                            /\ d \in Nat /\ w \in Nat /\ r \in {0, 1}

LEMMA CountTypes ==
  ASSUME NEW s, NEW k, NEW n, NEW d, NEW w, NEW r, Counts(k, n, s, d, w, r)
  PROVE  /\ k \in Nat /\ d \in Nat /\ w \in Nat /\ r \in Nat /\ Len(s) \in Nat
         /\ n \in [Nat -> Nat] /\ \A j \in Nat : n[j] \in Nat
         /\ \A j \in 1 .. Len(s) : j \in Nat /\ n[j] \in Nat
<1>1. n \in [Nat -> Nat]
  BY DEF Counts
<1>2. \A j \in Nat : n[j] \in Nat
  BY ONLY <1>1
<1>3. \A j \in 1 .. Len(s) : j \in Nat
  BY DEF Counts
<1> QED BY <1>1, <1>2, <1>3 DEF Counts

\* What is under way with one more message.
LEMMA PartsAppended ==
  ASSUME NEW M, NEW m \in M, m.size \in Nat, NEW s \in Seq(PartOf(M))
  PROVE  LET t == s \o PartsOf(m)
             end == Len(s) + m.size + 1
         IN  /\ Len(s) \in Nat /\ Len(t) = end /\ end \in Nat
             /\ \A j \in 1 .. Len(s) : t[j] = s[j]
             /\ \A j \in Len(s) + 1 .. end : t[j] = [of |-> m, nr |-> (j - Len(s)) - 1]
<1> DEFINE t == s \o PartsOf(m)
           end == Len(s) + m.size + 1
<1>1. /\ Len(s) \in Nat /\ Len(t) = Len(s) + Len(PartsOf(m))
      /\ \A j \in 1 .. Len(s) + Len(PartsOf(m)) :
            t[j] = IF j <= Len(s) THEN s[j] ELSE PartsOf(m)[j - Len(s)]
  BY PartsAre, ConcatProperties, LenProperties
<1>2. Len(PartsOf(m)) = m.size + 1 /\ \A j \in 1 .. m.size + 1 : PartsOf(m)[j] = [of |-> m, nr |-> j - 1]
  BY PartsAre
<1>3. Len(t) = end /\ end \in Nat /\ \A j \in 1 .. Len(s) : t[j] = s[j]
  BY <1>1, <1>2
<1>4. ASSUME NEW j \in Len(s) + 1 .. end PROVE t[j] = [of |-> m, nr |-> (j - Len(s)) - 1]
  <2>1. j - Len(s) \in 1 .. m.size + 1 /\ j \in 1 .. Len(s) + Len(PartsOf(m)) /\ ~ (j <= Len(s))
    BY <1>1, <1>2
  <2> QED BY <2>1, <1>1, <1>2
<1> QED BY <1>1, <1>3, <1>4

LEMMA OwedSend ==
  ASSUME NEW M, NEW m \in M, m.size \in Nat, NEW s \in Seq(PartOf(M)),
         NEW k, NEW n, NEW d, NEW w, NEW r, Counts(k, n, s, d, w, r), OwedBy(k, n, s, d, w, r)
  PROVE  /\ m.type = "DATA" => OwedBy(k, n, s \o PartsOf(m), d, w, r)
         /\ m.type # "DATA" => \E nn \in [Nat -> Nat] : OwedBy(k, nn, s \o PartsOf(m), d, w + 1, r)
<1> DEFINE t == s \o PartsOf(m)
           end == Len(s) + m.size + 1
           nn == [n EXCEPT ![end] = w + 1]
<1>t. /\ k \in Nat /\ d \in Nat /\ w \in Nat /\ r \in Nat /\ Len(s) \in Nat
      /\ n \in [Nat -> Nat] /\ \A j \in Nat : n[j] \in Nat
      /\ \A j \in 1 .. Len(s) : j \in Nat /\ n[j] \in Nat
  BY ONLY CountTypes, Counts(k, n, s, d, w, r)
<1>1. /\ Len(s) \in Nat /\ Len(t) = end /\ end \in Nat
      /\ \A j \in 1 .. Len(s) : t[j] = s[j]
      /\ \A j \in Len(s) + 1 .. end : t[j] = [of |-> m, nr |-> (j - Len(s)) - 1]
  BY PartsAppended
<1>0. end = Len(s) + m.size + 1 /\ m.size \in Nat
  OBVIOUS
<1> HIDE DEF t, end
<1>2. ASSUME NEW j \in 1 .. end, Asks(t[j])
      PROVE  (j \in 1 .. Len(s) /\ Asks(s[j])) \/ (j = end /\ m.type # "DATA")
  <2>1. CASE j <= Len(s)
    <3>1. j \in 1 .. Len(s)
      BY <1>1, <2>1
    <3>2. t[j] = s[j]
      BY ONLY <3>1, <1>1
    <3>3. Asks(s[j])
      BY ONLY <3>2, <1>2 DEF Asks
    <3> QED BY ONLY <3>1, <3>3
  <2>2. CASE ~ (j <= Len(s))
    <3>0. j \in Len(s) + 1 .. end
      BY <1>1, <2>2
    <3>a. t[j] = [of |-> m, nr |-> (j - Len(s)) - 1]
      BY ONLY <3>0, <1>1
    <3>1. t[j].of = m /\ t[j].nr = (j - Len(s)) - 1
      BY ONLY <3>a
    <3>2. m.type # "DATA" /\ (j - Len(s)) - 1 = m.size
      BY <1>2, <3>1 DEF Asks
    <3> QED BY <3>2, <1>0, <1>1
  <2> QED BY <2>1, <2>2
<1>3. ASSUME m.type = "DATA" PROVE OwedBy(k, n, t, d, w, r)
  BY <1>1, <1>2, <1>3 DEF OwedBy
<1>4. ASSUME m.type # "DATA" PROVE nn \in [Nat -> Nat] /\ OwedBy(k, nn, t, d, w + 1, r)
  <2>1. /\ n \in [Nat -> Nat] /\ w + 1 \in Nat /\ k + r \in Nat /\ k + r < w + 1
        /\ \A j \in 1 .. Len(s) : j \in Nat /\ j # end /\ n[j] \in Nat
    <3>1. w + 1 \in Nat /\ k + r \in Nat /\ (k + r <= w => k + r < w + 1)
      BY ONLY <1>t
    <3>2. ASSUME NEW j \in 1 .. Len(s) PROVE j # end
      <4>1. Len(s) \in Nat /\ m.size \in Nat
        BY <1>t
      <4> QED BY ONLY <1>0, <4>1, j \in 1 .. Len(s)
    <3> QED BY ONLY <3>1, <3>2, <1>t, OwedBy(k, n, s, d, w, r) DEF OwedBy
  <2>2. nn \in [Nat -> Nat] /\ nn[end] = w + 1 /\ \A j \in 1 .. Len(s) : nn[j] = n[j]
    BY ONLY <1>1, <2>1 DEF nn
  <2> HIDE DEF nn
  <2>3. ASSUME NEW j \in 1 .. Len(s), Asks(s[j])
        PROVE  k + r < nn[j] /\ nn[j] <= w + 1 /\ nn[j] < w + 1
    <3>1. k + r < n[j] /\ n[j] <= w
      BY <2>3 DEF OwedBy
    <3>a. n[j] \in Nat /\ w \in Nat
      BY <1>t
    <3>2. n[j] < w + 1 /\ n[j] <= w + 1
      BY ONLY <3>1, <3>a
    <3> QED BY <3>1, <3>2, <2>2
  <2>4. ASSUME NEW j \in 1 .. end, Asks(t[j])
        PROVE  k + r < nn[j] /\ nn[j] <= w + 1
    <3>1. CASE j = end
      <4>1. w + 1 <= w + 1
        BY ONLY <1>t
      <4> QED BY ONLY <3>1, <4>1, <2>1, <2>2
    <3>2. CASE j \in 1 .. Len(s) /\ Asks(s[j])
      BY ONLY <3>2, <2>3
    <3> QED BY ONLY <1>2, <2>4, <3>1, <3>2
  <2>5. ASSUME NEW i \in 1 .. end, NEW j \in 1 .. end, i < j, Asks(t[i]), Asks(t[j])
        PROVE  nn[i] < nn[j]
    <3>1. i \in 1 .. Len(s) /\ Asks(s[i])
      <4>1. i # end
        BY <1>1, <2>5
      <4> QED BY ONLY <1>2, <2>5, <4>1
    <3>2. CASE j \in 1 .. Len(s) /\ Asks(s[j])
      BY <2>2, <2>5, <3>1, <3>2 DEF OwedBy
    <3>3. CASE j = end
      BY ONLY <2>2, <2>3, <3>1, <3>3
    <3> QED BY <1>2, <2>5, <3>2, <3>3
  <2>6. d <= 2 * k /\ k + r <= w + 1
    BY <1>t DEF OwedBy
  <2> QED BY ONLY <1>1, <2>2, <2>4, <2>5, <2>6 DEF OwedBy
<1> QED BY ONLY <1>3, <1>4 DEF t

LEMMA OwedAnswer ==
  ASSUME NEW s, NEW k, NEW n, NEW d, NEW w, NEW r,
         Counts(k, n, s, d, w, r), OwedBy(k, n, s, d, w, r), d >= 2
  PROVE  /\ w >= 1
         /\ \E kk \in Nat, nn \in [Nat -> Nat] : OwedBy(kk, nn, s, d - 2, w - 1, r)
<1> DEFINE nn == [j \in Nat |-> IF n[j] > 0 THEN n[j] - 1 ELSE 0]
<1>t. /\ k \in Nat /\ d \in Nat /\ w \in Nat /\ r \in Nat /\ Len(s) \in Nat
      /\ n \in [Nat -> Nat] /\ \A j \in Nat : n[j] \in Nat
      /\ \A j \in 1 .. Len(s) : j \in Nat /\ n[j] \in Nat
  BY ONLY CountTypes, Counts(k, n, s, d, w, r)
<1>1. k >= 1 /\ k - 1 \in Nat /\ w >= 1
  BY DEF OwedBy, Counts
<1>2. /\ nn \in [Nat -> Nat]
      /\ \A j \in 1 .. Len(s) : n[j] \in Nat /\ (n[j] > 0 => nn[j] = n[j] - 1)
  <2>1. \A j \in Nat : n[j] \in Nat
    BY <1>t
  <2>2. nn \in [Nat -> Nat] /\ \A j \in Nat : n[j] > 0 => nn[j] = n[j] - 1
    BY ONLY <2>1 DEF nn
  <2> QED BY <2>2, <1>t
<1> HIDE DEF nn
<1>3. d - 2 <= 2 * (k - 1) /\ (k - 1) + r <= w - 1
  BY <1>1, <1>t DEF OwedBy
<1>4. ASSUME NEW j \in 1 .. Len(s), Asks(s[j])
      PROVE  n[j] > 0 /\ (k - 1) + r < nn[j] /\ nn[j] <= w - 1
  <2>1. k + r < n[j] /\ n[j] <= w
    BY <1>4 DEF OwedBy
  <2>a. n[j] \in Nat /\ k \in Nat /\ r \in Nat /\ w \in Nat
    BY <1>t
  <2>2. n[j] > 0
    BY ONLY <2>1, <2>a
  <2>3. (k - 1) + r < n[j] - 1 /\ n[j] - 1 <= w - 1
    BY ONLY <2>1, <2>a
  <2> QED BY <1>2, <2>2, <2>3
<1>5. ASSUME NEW i \in 1 .. Len(s), NEW j \in 1 .. Len(s), i < j, Asks(s[i]), Asks(s[j])
      PROVE  nn[i] < nn[j]
  <2>1. n[i] < n[j]
    BY <1>5 DEF OwedBy
  <2>2. nn[i] = n[i] - 1 /\ nn[j] = n[j] - 1
    BY <1>2, <1>4, <1>5
  <2> QED BY <2>1, <2>2, <1>t
<1> QED BY ONLY <1>1, <1>2, <1>3, <1>4, <1>5 DEF OwedBy

\* A message of length l reached the server.
LEMMA OwedDeliver ==
  ASSUME NEW s, NEW k, NEW n, NEW d, NEW w, NEW r,
         Counts(k, n, s, d, w, r), OwedBy(k, n, s, d, w, r),
         NEW t, Len(t) \in Nat, NEW l \in 1 .. Len(s), Len(s) = Len(t) + l,
         \A j \in 1 .. Len(t) : t[j] = s[j + l]
  PROVE  \E nn \in [Nat -> Nat] :
            /\ OwedBy(k, nn, t, d, w, r)
            /\ Asks(s[l]) /\ r = 0 => OwedBy(k, nn, t, d, w, 1)
<1> DEFINE nn == [j \in Nat |-> n[j + l]]
<1>t. /\ k \in Nat /\ d \in Nat /\ w \in Nat /\ r \in Nat /\ Len(s) \in Nat
      /\ n \in [Nat -> Nat] /\ \A j \in Nat : n[j] \in Nat
      /\ \A j \in 1 .. Len(s) : j \in Nat /\ n[j] \in Nat
  BY ONLY CountTypes, Counts(k, n, s, d, w, r)
<1>0. l \in Nat /\ \A j \in Nat : j + l \in Nat /\ n[j + l] \in Nat
  <2>1. l \in Nat
    BY ONLY l \in 1 .. Len(s), <1>t
  <2>2. \A j \in Nat : j + l \in Nat
    BY ONLY <2>1
  <2> QED BY ONLY <2>1, <2>2, <1>t
<1>1. nn \in [Nat -> Nat] /\ \A j \in 1 .. Len(t) : nn[j] = n[j + l] /\ j + l \in 1 .. Len(s)
  <2>1. nn \in [Nat -> Nat] /\ \A j \in Nat : nn[j] = n[j + l]
    BY ONLY <1>0 DEF nn
  <2>2. \A j \in 1 .. Len(t) : j \in Nat /\ j + l \in 1 .. Len(s)
    BY <1>0
  <2> QED BY ONLY <2>1, <2>2
<1>2. \A j \in 1 .. Len(t) : Asks(t[j]) => k + r < nn[j] /\ nn[j] <= w
  BY <1>1 DEF OwedBy
<1>3. \A i, j \in 1 .. Len(t) : i < j /\ Asks(t[i]) /\ Asks(t[j]) => nn[i] < nn[j]
  <2>1. \A i, j \in 1 .. Len(t) : i < j => i + l < j + l
    BY DEF Counts
  <2> QED BY <1>1, <2>1 DEF OwedBy
<1>4. OwedBy(k, nn, t, d, w, r)
  BY <1>2, <1>3 DEF OwedBy
<1>5. ASSUME Asks(s[l]), r = 0 PROVE OwedBy(k, nn, t, d, w, 1)
  <2>1. k < n[l] /\ n[l] <= w /\ n[l] \in Nat
    BY <1>5 DEF OwedBy, Counts
  <2>2. \A j \in 1 .. Len(t) : Asks(t[j]) => n[l] < nn[j]
    <3>1. \A j \in 1 .. Len(t) : l < j + l
      BY DEF Counts
    <3> QED BY <1>1, <1>5, <3>1 DEF OwedBy
  <2>3. \A j \in 1 .. Len(t) : nn[j] \in Nat
    BY <1>1
  <2>4. k + 1 <= w /\ \A j \in 1 .. Len(t) : Asks(t[j]) => k + 1 < nn[j]
    <3>1. k + 1 <= w /\ k + 1 <= n[l]
      BY ONLY <2>1, <1>t
    <3>2. ASSUME NEW j \in 1 .. Len(t), Asks(t[j]) PROVE k + 1 < nn[j]
      <4>1. n[l] < nn[j] /\ nn[j] \in Nat /\ n[l] \in Nat /\ k \in Nat
        <5>1. nn[j] \in Nat /\ n[l] < nn[j]
          BY <3>2, <2>2, <2>3
        <5> QED BY ONLY <5>1, <2>1, <1>t
      <4>2. \A x, y, z \in Nat : x + 1 <= y /\ y < z => x + 1 < z
        OBVIOUS
      <4> QED BY ONLY <3>1, <4>1, <4>2
    <3> QED BY ONLY <3>1, <3>2
  <2>5. \A j \in 1 .. Len(t) : Asks(t[j]) => nn[j] <= w
    BY ONLY <1>2
  <2>6. d <= 2 * k
    BY DEF OwedBy
  <2> QED BY ONLY <1>3, <2>4, <2>5, <2>6 DEF OwedBy
<1> QED BY ONLY <1>1, <1>4, <1>5

\* The server answers what it was storing, or looking at.
LEMMA OwedReply ==
  ASSUME NEW s, NEW k, NEW n, NEW d, NEW w,
         Counts(k, n, s, d, w, 1), OwedBy(k, n, s, d, w, 1)
  PROVE  k + 1 \in Nat /\ OwedBy(k + 1, n, s, d + 2, w, 0)
  BY DEF OwedBy, Counts

LEMMA OwedLess ==
  ASSUME NEW s, NEW k, NEW n, NEW d, NEW w, NEW r,
         Counts(k, n, s, d, w, r), OwedBy(k, n, s, d, w, r),
         NEW t, NEW dd, NEW rr \in {0, 1}, rr <= r, dd \in Nat, dd <= d,
         Len(t) \in Nat, Len(t) <= Len(s), \A j \in 1 .. Len(t) : t[j] = s[j]
  PROVE  OwedBy(k, n, t, dd, w, rr)
<1>t. /\ k \in Nat /\ d \in Nat /\ w \in Nat /\ r \in Nat /\ Len(s) \in Nat
      /\ n \in [Nat -> Nat] /\ \A j \in Nat : n[j] \in Nat
      /\ \A j \in 1 .. Len(s) : j \in Nat /\ n[j] \in Nat
  BY ONLY CountTypes, Counts(k, n, s, d, w, r)
<1>1. \A j \in 1 .. Len(t) : j \in 1 .. Len(s) /\ n[j] \in Nat
  BY <1>t
<1>2. dd <= 2 * k /\ k + rr <= w
  <2>1. d <= 2 * k /\ k + r <= w
    BY DEF OwedBy
  <2>2. 2 * k \in Nat /\ rr \in Nat
    BY ONLY <1>t, rr \in {0, 1}
  <2> QED BY ONLY <1>t, <2>1, <2>2, dd <= d, rr <= r, dd \in Nat
<1>3. ASSUME NEW j \in 1 .. Len(t), Asks(t[j]) PROVE k + rr < n[j] /\ n[j] <= w
  <2>1. k + r < n[j] /\ n[j] <= w
    BY <1>1, <1>3 DEF OwedBy
  <2>2. n[j] \in Nat
    BY <1>1
  <2> QED BY ONLY <2>1, <2>2, <1>t, rr \in {0, 1}, rr <= r
<1>4. ASSUME NEW i \in 1 .. Len(t), NEW j \in 1 .. Len(t), i < j, Asks(t[i]), Asks(t[j])
      PROVE  n[i] < n[j]
  BY <1>1, <1>4 DEF OwedBy
<1> QED BY ONLY <1>2, <1>3, <1>4 DEF OwedBy
-----------------------------------------------------------------------------
(* The two directions.                                                      *)
Requests == Up!UnderWay
Replies == Down!UnderWay
UpFlow == Flow(Request, upIn, up, upOut) /\ Len(up) <= UpRoom
DownFlow == Flow(Reply, downIn, down, downOut) /\ Len(down) <= DownRoom

LEMMA Sizes == /\ \A m \in Request : m.size \in Nat
               /\ \A m \in Reply : m.size = 1 /\ m.size \in Nat
               /\ UpRoom \in Nat /\ DownRoom \in Nat
  BY UploadAssumption DEF Request, Reply

LEMMA UpSends ==
  ASSUME UpFlow, Whole(Requests), NEW m \in Request, Up!Send(m)
  PROVE  /\ UpFlow' /\ Whole(Requests)'
         /\ Requests \in Seq(PartOf(Request)) /\ Requests' = Requests \o PartsOf(m)
<1>1. Flow(Request, upIn, up, upOut) /\ upOut = <<>> /\ m.size \in Nat /\ Whole(Under(upIn, up, upOut))
  BY Sizes DEF UpFlow, Requests, Up!UnderWay, Under, Up!Send, Up!Writing
<1>2. upIn' = upIn /\ up' = up /\ upOut' = PartsOf(m)
  BY DEF Up!Send, Up!Parts, PartsOf
<1>3. /\ Flow(Request, upIn, up, PartsOf(m)) /\ Whole(Under(upIn, up, PartsOf(m)))
      /\ Under(upIn, up, PartsOf(m)) = Under(upIn, up, upOut) \o PartsOf(m)
  <2>1. /\ Flow(Request, upIn, up, upOut) /\ upOut = <<>> /\ Whole(Under(upIn, up, upOut))
        /\ m \in Request /\ m.size \in Nat
    BY ONLY <1>1, m \in Request
  <2> QED BY ONLY <2>1, FlowSend
<1>4. Requests \in Seq(PartOf(Request))
  BY <1>1, ConcatProperties DEF Requests, Up!UnderWay, Under, Flow
<1> QED BY <1>2, <1>3, <1>4 DEF UpFlow, Requests, Up!UnderWay, Under

LEMMA UpMoves ==
  ASSUME UpFlow, Up!Write \/ Up!Read
  PROVE  UpFlow' /\ Requests' = Requests
<1>1. Flow(Request, upIn, up, upOut) /\ up \in Seq(PartOf(Request)) /\ Len(up) \in Nat /\ Len(up) <= UpRoom
  BY LenProperties DEF UpFlow, Flow
<1>2. CASE Up!Write
  <2>1. /\ upIn' = upIn /\ up' = Append(up, Head(upOut)) /\ upOut' = Tail(upOut)
        /\ upOut # <<>> /\ Len(up) < UpRoom
    BY <1>2 DEF Up!Write, Up!Writing
  <2>2. /\ Flow(Request, upIn, Append(up, Head(upOut)), Tail(upOut))
        /\ Under(upIn, Append(up, Head(upOut)), Tail(upOut)) = Under(upIn, up, upOut)
    <3>1. Flow(Request, upIn, up, upOut) /\ upOut # <<>>
      BY ONLY <1>1, <2>1
    <3> QED BY ONLY <3>1, FlowWrite
  <2>3. Len(Append(up, Head(upOut))) = Len(up) + 1
    BY <1>1
  <2>4. Len(up') <= UpRoom
    BY <1>1, <2>1, <2>3, Sizes
  <2> QED BY <2>1, <2>2, <2>4 DEF UpFlow, Requests, Up!UnderWay, Under
<1>3. CASE Up!Read
  <2>1. /\ upIn' = Append(upIn, Head(up)) /\ up' = Tail(up) /\ upOut' = upOut /\ up # <<>>
        /\ ~ (upIn # <<>> /\ Len(upIn) = Head(upIn).of.size + 1)
    BY <1>3 DEF Up!Read, Up!Complete, Up!Reading, Up!Arriving
  <2>2. /\ Flow(Request, Append(upIn, Head(up)), Tail(up), upOut)
        /\ Under(Append(upIn, Head(up)), Tail(up), upOut) = Under(upIn, up, upOut)
    BY ONLY <1>1, <2>1, FlowRead, Sizes
  <2>3. Len(Tail(up)) = Len(up) - 1
    BY <1>1, <2>1, HeadTailProperties
  <2>4. Len(up') <= UpRoom
    BY <1>1, <2>1, <2>3, Sizes
  <2> QED BY <2>1, <2>2, <2>4 DEF UpFlow, Requests, Up!UnderWay, Under
<1> QED BY <1>2, <1>3

LEMMA UpDelivers ==
  ASSUME UpFlow, NEW m, Up!Deliver(m)
  PROVE  /\ m \in Request /\ m.size + 1 \in 1 .. Len(Requests)
         /\ UpFlow' /\ (Whole(Requests) => Whole(Requests)')
         /\ Len(Requests) \in Nat /\ Len(Requests') \in Nat
         /\ Len(Requests) = Len(Requests') + (m.size + 1)
         /\ \A k \in 1 .. Len(Requests') : Requests'[k] = Requests[k + (m.size + 1)]
         /\ Requests[m.size + 1] = [of |-> m, nr |-> m.size]
<1>1. Flow(Request, upIn, up, upOut) /\ upIn \in Seq(PartOf(Request))
  BY DEF UpFlow, Flow
<1>2. /\ upIn # <<>> /\ Len(upIn) = Head(upIn).of.size + 1 /\ m = Head(upIn).of
      /\ upIn' = <<>> /\ up' = up /\ upOut' = upOut
  BY DEF Up!Deliver, Up!Complete, Up!Reading, Up!Arriving
<1>3. m \in Request /\ m.size \in Nat
  <2>1. 1 \in 1 .. Len(upIn) /\ Head(upIn) = upIn[1]
    BY <1>1, <1>2, EmptySeq, LenProperties
  <2> QED BY <1>1, <1>2, <2>1, PartElement, Sizes
<1>4. /\ Flow(Request, <<>>, up, upOut)
      /\ Whole(Under(upIn, up, upOut)) => Whole(Under(<<>>, up, upOut))
      /\ Len(Under(upIn, up, upOut)) = Len(Under(<<>>, up, upOut)) + Len(upIn)
      /\ \A k \in 1 .. Len(Under(<<>>, up, upOut)) :
            Under(<<>>, up, upOut)[k] = Under(upIn, up, upOut)[k + Len(upIn)]
      /\ Len(upIn) \in 1 .. Len(Under(upIn, up, upOut))
      /\ Under(upIn, up, upOut)[Len(upIn)] = [of |-> Head(upIn).of, nr |-> Head(upIn).of.size]
  <2>1. Flow(Request, upIn, up, upOut) /\ IsRead(upIn) /\ Sized(Request)
    BY ONLY <1>1, <1>2, Sizes DEF IsRead, Sized
  <2>2. Flow(Request, <<>>, up, upOut) /\ MovesUp(upIn, up, upOut)
    BY ONLY <2>1, FlowDeliver
  <2> QED BY ONLY <2>2 DEF MovesUp
<1>5. Requests = Under(upIn, up, upOut) /\ Requests' = Under(<<>>, up, upOut) /\ Len(upIn) = m.size + 1
  BY <1>2 DEF Requests, Up!UnderWay, Under
<1>6. UpFlow'
  BY <1>2, <1>4 DEF UpFlow
<1>7. Len(Requests) \in Nat /\ Len(Requests') \in Nat
  <2>1. up \in Seq(PartOf(Request)) /\ upOut \in Seq(PartOf(Request)) /\ <<>> \in Seq(PartOf(Request))
    BY DEF UpFlow, Flow
  <2>2. Requests \in Seq(PartOf(Request)) /\ Requests' \in Seq(PartOf(Request))
    BY ONLY <1>1, <1>5, <2>1, ConcatProperties DEF Under
  <2> QED BY ONLY <2>2, LenProperties
<1>8. Whole(Requests) => Whole(Requests)'
  BY ONLY <1>4, <1>5
<1>9. /\ m.size + 1 \in 1 .. Len(Requests)
      /\ Len(Requests) = Len(Requests') + (m.size + 1)
      /\ Requests[m.size + 1] = [of |-> m, nr |-> m.size]
  BY ONLY <1>2, <1>4, <1>5
<1>10. \A k \in 1 .. Len(Requests') : Requests'[k] = Requests[k + (m.size + 1)]
  BY ONLY <1>4, <1>5
<1> QED BY ONLY <1>3, <1>6, <1>7, <1>8, <1>9, <1>10

LEMMA UpCuts ==
  ASSUME UpFlow, Up!Cut
  PROVE  /\ UpFlow' /\ Len(Requests) \in Nat /\ Len(Requests') \in Nat
         /\ Len(Requests') <= Len(Requests)
         /\ \A k \in 1 .. Len(Requests') : Requests'[k] = Requests[k]
<1>1. PICK n \in 0 .. Len(up) : up' = SubSeq(up, 1, n)
  BY DEF Up!Cut
<1>2. Flow(Request, upIn, up, upOut) /\ upOut' = <<>> /\ upIn' = upIn
  BY DEF Up!Cut, UpFlow
<1>3. /\ Flow(Request, upIn, SubSeq(up, 1, n), <<>>)
      /\ Len(Under(upIn, SubSeq(up, 1, n), <<>>)) <= Len(Under(upIn, up, upOut))
      /\ \A k \in 1 .. Len(Under(upIn, SubSeq(up, 1, n), <<>>)) :
            Under(upIn, SubSeq(up, 1, n), <<>>)[k] = Under(upIn, up, upOut)[k]
  BY <1>2, FlowCut
<1>4. Requests = Under(upIn, up, upOut) /\ Requests' = Under(upIn, SubSeq(up, 1, n), <<>>)
  BY <1>1, <1>2 DEF Requests, Up!UnderWay, Under
<1>5. Flow(Request, upIn', up', upOut')
  BY <1>1, <1>2, <1>3
<1>6. Len(up') <= UpRoom
  <2>1. Len(up) \in Nat /\ n \in Nat /\ n <= Len(up) /\ \A k \in 1 .. n : up[k] \in PartOf(Request)
    BY <1>2, LenProperties, ElementOfSeq DEF Flow
  <2>2. Len(SubSeq(up, 1, n)) = IF 1 <= n THEN n - 1 + 1 ELSE 0
    BY ONLY <2>1, SubSeqProperties
  <2> QED BY <1>1, <2>1, <2>2, Sizes DEF UpFlow
<1>7. Len(Requests) \in Nat /\ Len(Requests') \in Nat
  <2>1. Requests \in Seq(PartOf(Request)) /\ Requests' \in Seq(PartOf(Request))
    BY <1>2, <1>5, ConcatProperties DEF Flow, Requests, Up!UnderWay
  <2> QED BY ONLY <2>1, LenProperties
<1> QED BY <1>3, <1>4, <1>5, <1>6, <1>7 DEF UpFlow

LEMMA DownSends ==
  ASSUME DownFlow, Whole(Replies), NEW m \in Reply, Down!Send(m)
  PROVE  /\ DownFlow' /\ Whole(Replies)'
         /\ Replies \in Seq(PartOf(Reply)) /\ Replies' = Replies \o PartsOf(m)
<1>1. Flow(Reply, downIn, down, downOut) /\ downOut = <<>> /\ m.size \in Nat /\ Whole(Under(downIn, down, downOut))
  BY Sizes DEF DownFlow, Replies, Down!UnderWay, Under, Down!Send, Down!Writing
<1>2. downIn' = downIn /\ down' = down /\ downOut' = PartsOf(m)
  BY DEF Down!Send, Down!Parts, PartsOf
<1>3. /\ Flow(Reply, downIn, down, PartsOf(m)) /\ Whole(Under(downIn, down, PartsOf(m)))
      /\ Under(downIn, down, PartsOf(m)) = Under(downIn, down, downOut) \o PartsOf(m)
  <2>1. /\ Flow(Reply, downIn, down, downOut) /\ downOut = <<>> /\ Whole(Under(downIn, down, downOut))
        /\ m \in Reply /\ m.size \in Nat
    BY ONLY <1>1, m \in Reply
  <2> QED BY ONLY <2>1, FlowSend
<1>4. Replies \in Seq(PartOf(Reply))
  BY <1>1, ConcatProperties DEF Replies, Down!UnderWay, Under, Flow
<1> QED BY <1>2, <1>3, <1>4 DEF DownFlow, Replies, Down!UnderWay, Under

LEMMA DownMoves ==
  ASSUME DownFlow, Down!Write \/ Down!Read
  PROVE  DownFlow' /\ Replies' = Replies
<1>1. Flow(Reply, downIn, down, downOut) /\ down \in Seq(PartOf(Reply)) /\ Len(down) \in Nat /\ Len(down) <= DownRoom
  BY LenProperties DEF DownFlow, Flow
<1>2. CASE Down!Write
  <2>1. /\ downIn' = downIn /\ down' = Append(down, Head(downOut)) /\ downOut' = Tail(downOut)
        /\ downOut # <<>> /\ Len(down) < DownRoom
    BY <1>2 DEF Down!Write, Down!Writing
  <2>2. /\ Flow(Reply, downIn, Append(down, Head(downOut)), Tail(downOut))
        /\ Under(downIn, Append(down, Head(downOut)), Tail(downOut)) = Under(downIn, down, downOut)
    <3>1. Flow(Reply, downIn, down, downOut) /\ downOut # <<>>
      BY ONLY <1>1, <2>1
    <3> QED BY ONLY <3>1, FlowWrite
  <2>3. Len(Append(down, Head(downOut))) = Len(down) + 1
    BY <1>1
  <2>4. Len(down') <= DownRoom
    BY <1>1, <2>1, <2>3, Sizes
  <2> QED BY <2>1, <2>2, <2>4 DEF DownFlow, Replies, Down!UnderWay, Under
<1>3. CASE Down!Read
  <2>1. /\ downIn' = Append(downIn, Head(down)) /\ down' = Tail(down) /\ downOut' = downOut /\ down # <<>>
        /\ ~ (downIn # <<>> /\ Len(downIn) = Head(downIn).of.size + 1)
    BY <1>3 DEF Down!Read, Down!Complete, Down!Reading, Down!Arriving
  <2>2. /\ Flow(Reply, Append(downIn, Head(down)), Tail(down), downOut)
        /\ Under(Append(downIn, Head(down)), Tail(down), downOut) = Under(downIn, down, downOut)
    BY ONLY <1>1, <2>1, FlowRead, Sizes
  <2>3. Len(Tail(down)) = Len(down) - 1
    BY <1>1, <2>1, HeadTailProperties
  <2>4. Len(down') <= DownRoom
    BY <1>1, <2>1, <2>3, Sizes
  <2> QED BY <2>1, <2>2, <2>4 DEF DownFlow, Replies, Down!UnderWay, Under
<1> QED BY <1>2, <1>3

LEMMA DownDelivers ==
  ASSUME DownFlow, NEW m, Down!Deliver(m)
  PROVE  /\ m \in Reply /\ m.size + 1 \in 1 .. Len(Replies)
         /\ DownFlow' /\ (Whole(Replies) => Whole(Replies)')
         /\ Len(Replies) \in Nat /\ Len(Replies') \in Nat
         /\ Len(Replies) = Len(Replies') + (m.size + 1)
         /\ \A k \in 1 .. Len(Replies') : Replies'[k] = Replies[k + (m.size + 1)]
         /\ Replies[m.size + 1] = [of |-> m, nr |-> m.size]
<1>1. Flow(Reply, downIn, down, downOut) /\ downIn \in Seq(PartOf(Reply))
  BY DEF DownFlow, Flow
<1>2. /\ downIn # <<>> /\ Len(downIn) = Head(downIn).of.size + 1 /\ m = Head(downIn).of
      /\ downIn' = <<>> /\ down' = down /\ downOut' = downOut
  BY DEF Down!Deliver, Down!Complete, Down!Reading, Down!Arriving
<1>3. m \in Reply /\ m.size \in Nat
  <2>1. 1 \in 1 .. Len(downIn) /\ Head(downIn) = downIn[1]
    BY <1>1, <1>2, EmptySeq, LenProperties
  <2> QED BY <1>1, <1>2, <2>1, PartElement, Sizes
<1>4. /\ Flow(Reply, <<>>, down, downOut)
      /\ Whole(Under(downIn, down, downOut)) => Whole(Under(<<>>, down, downOut))
      /\ Len(Under(downIn, down, downOut)) = Len(Under(<<>>, down, downOut)) + Len(downIn)
      /\ \A k \in 1 .. Len(Under(<<>>, down, downOut)) :
            Under(<<>>, down, downOut)[k] = Under(downIn, down, downOut)[k + Len(downIn)]
      /\ Len(downIn) \in 1 .. Len(Under(downIn, down, downOut))
      /\ Under(downIn, down, downOut)[Len(downIn)] = [of |-> Head(downIn).of, nr |-> Head(downIn).of.size]
  <2>1. Flow(Reply, downIn, down, downOut) /\ IsRead(downIn) /\ Sized(Reply)
    BY ONLY <1>1, <1>2, Sizes DEF IsRead, Sized
  <2>2. Flow(Reply, <<>>, down, downOut) /\ MovesUp(downIn, down, downOut)
    BY ONLY <2>1, FlowDeliver
  <2> QED BY ONLY <2>2 DEF MovesUp
<1>5. Replies = Under(downIn, down, downOut) /\ Replies' = Under(<<>>, down, downOut) /\ Len(downIn) = m.size + 1
  BY <1>2 DEF Replies, Down!UnderWay, Under
<1>6. DownFlow'
  BY <1>2, <1>4 DEF DownFlow
<1>7. Len(Replies) \in Nat /\ Len(Replies') \in Nat
  <2>1. down \in Seq(PartOf(Reply)) /\ downOut \in Seq(PartOf(Reply)) /\ <<>> \in Seq(PartOf(Reply))
    BY DEF DownFlow, Flow
  <2>2. Replies \in Seq(PartOf(Reply)) /\ Replies' \in Seq(PartOf(Reply))
    BY ONLY <1>1, <1>5, <2>1, ConcatProperties DEF Under
  <2> QED BY ONLY <2>2, LenProperties
<1>8. Whole(Replies) => Whole(Replies)'
  BY ONLY <1>4, <1>5
<1>9. /\ m.size + 1 \in 1 .. Len(Replies)
      /\ Len(Replies) = Len(Replies') + (m.size + 1)
      /\ Replies[m.size + 1] = [of |-> m, nr |-> m.size]
  BY ONLY <1>2, <1>4, <1>5
<1>10. \A k \in 1 .. Len(Replies') : Replies'[k] = Replies[k + (m.size + 1)]
  BY ONLY <1>4, <1>5
<1> QED BY ONLY <1>3, <1>6, <1>7, <1>8, <1>9, <1>10

LEMMA DownCuts ==
  ASSUME DownFlow, Down!Cut
  PROVE  /\ DownFlow' /\ Len(Replies) \in Nat /\ Len(Replies') \in Nat
         /\ Len(Replies') <= Len(Replies)
         /\ \A k \in 1 .. Len(Replies') : Replies'[k] = Replies[k]
<1>1. PICK n \in 0 .. Len(down) : down' = SubSeq(down, 1, n)
  BY DEF Down!Cut
<1>2. Flow(Reply, downIn, down, downOut) /\ downOut' = <<>> /\ downIn' = downIn
  BY DEF Down!Cut, DownFlow
<1>3. /\ Flow(Reply, downIn, SubSeq(down, 1, n), <<>>)
      /\ Len(Under(downIn, SubSeq(down, 1, n), <<>>)) <= Len(Under(downIn, down, downOut))
      /\ \A k \in 1 .. Len(Under(downIn, SubSeq(down, 1, n), <<>>)) :
            Under(downIn, SubSeq(down, 1, n), <<>>)[k] = Under(downIn, down, downOut)[k]
  BY <1>2, FlowCut
<1>4. Replies = Under(downIn, down, downOut) /\ Replies' = Under(downIn, SubSeq(down, 1, n), <<>>)
  BY <1>1, <1>2 DEF Replies, Down!UnderWay, Under
<1>5. Flow(Reply, downIn', down', downOut')
  BY <1>1, <1>2, <1>3
<1>6. Len(down') <= DownRoom
  <2>1. Len(down) \in Nat /\ n \in Nat /\ n <= Len(down) /\ \A k \in 1 .. n : down[k] \in PartOf(Reply)
    BY <1>2, LenProperties, ElementOfSeq DEF Flow
  <2>2. Len(SubSeq(down, 1, n)) = IF 1 <= n THEN n - 1 + 1 ELSE 0
    BY ONLY <2>1, SubSeqProperties
  <2> QED BY <1>1, <2>1, <2>2, Sizes DEF DownFlow
<1>7. Len(Replies) \in Nat /\ Len(Replies') \in Nat
  <2>1. Replies \in Seq(PartOf(Reply)) /\ Replies' \in Seq(PartOf(Reply))
    BY <1>2, <1>5, ConcatProperties DEF Flow, Replies, Down!UnderWay
  <2> QED BY ONLY <2>1, LenProperties
<1> QED BY <1>3, <1>4, <1>5, <1>6, <1>7 DEF DownFlow
-----------------------------------------------------------------------------
(* The invariant.                                                           *)
Scalars == /\ file \in Version /\ written \subseteq Version
           /\ seen \in Version \cup {None}
           /\ window \in Seq(Request) /\ Len(window) <= Window
           /\ at \in {"loop", "stor", "data", "off"}
           /\ open \in Seq(Block) /\ pos \in Nat /\ chunk \in ChunkSizes
           /\ sv \in {"loop", "recv", "off"}
           /\ expected \in Seq(Block)
           /\ temp \in Seq(Block) \cup {None} /\ copy \in Seq(Block) \cup {None}
           /\ link \in {"open", "lost", "closed"}
           /\ sv = "recv" => temp \in Seq(Block)

\* Where messages are still sent, those before are there in full; who closes a
\* connection has left it.
Ends == /\ link = "open" => Whole(Requests) /\ Whole(Replies)
        /\ link = "closed" => sv = "off"

\* What a PROB or a STOR announces was in the file.
AnnouncedIn(s, W) == \A k \in 1 .. Len(s) : s[k].of.type # "DATA" => s[k].of.content \in W
Announcements == /\ file \in written /\ copy \in written \cup {None}
                 /\ AnnouncedIn(Requests, written)
                 /\ sv = "recv" => expected \in written

Storing == IF sv = "recv" THEN 1 ELSE 0
Owed == \E k \in Nat, n \in [Nat -> Nat] :
           OwedBy(k, n, Requests, Len(Replies), Len(window), Storing)

IInv == /\ Scalars /\ UpFlow /\ DownFlow /\ Ends /\ Announcements /\ Owed /\ NoTempLeft

LEMMA Lengths ==
  ASSUME UpFlow, DownFlow, Scalars
  PROVE  /\ Requests \in Seq(PartOf(Request)) /\ Len(Requests) \in Nat
         /\ Replies \in Seq(PartOf(Reply)) /\ Len(Replies) \in Nat
         /\ Len(window) \in Nat /\ Storing \in {0, 1}
         /\ \A k \in Nat, n \in [Nat -> Nat] :
               Counts(k, n, Requests, Len(Replies), Len(window), Storing)
<1>1. Requests \in Seq(PartOf(Request)) /\ Replies \in Seq(PartOf(Reply))
  BY ConcatProperties DEF UpFlow, DownFlow, Flow, Requests, Replies, Up!UnderWay, Down!UnderWay
<1>2. Len(Requests) \in Nat /\ Len(Replies) \in Nat /\ Len(window) \in Nat
  BY <1>1, LenProperties DEF Scalars
<1>3. Storing \in {0, 1}
  BY DEF Storing
<1> QED BY <1>1, <1>2, <1>3 DEF Counts

LEMMA Kinds ==
  /\ \A v \in Version : v \in Seq(Block) /\ Prob(v) \in Request /\ Stor(v) \in Request
  /\ \A v : /\ Prob(v).type = "PROB" /\ Prob(v).content = v /\ Prob(v).size = 1
            /\ Stor(v).type = "STOR" /\ Stor(v).content = v /\ Stor(v).size = 1
  /\ \A piece \in Seq(Block), last \in BOOLEAN :
        Data(piece, last) \in Request /\ Data(piece, last).type = "DATA"
  /\ \A type \in {"SEND", "OK", "ERR"} : Answer(type) \in Reply /\ Answer(type).size = 1
<1>1. \A v \in Version : v \in Seq(Block)
  BY UploadAssumption
<1>2. \A v \in Version : Prob(v) \in Request /\ Stor(v) \in Request
  BY <1>1 DEF Prob, Stor, Request
<1>3. \A v : /\ Prob(v).type = "PROB" /\ Prob(v).content = v /\ Prob(v).size = 1
             /\ Stor(v).type = "STOR" /\ Stor(v).content = v /\ Stor(v).size = 1
  BY DEF Prob, Stor
<1>4. ASSUME NEW piece \in Seq(Block), NEW last \in BOOLEAN
      PROVE  Data(piece, last) \in Request /\ Data(piece, last).type = "DATA"
  <2>1. (IF piece = <<>> THEN 1 ELSE Len(piece)) \in Nat \ {0}
    BY EmptySeq, LenProperties
  <2> QED BY <2>1 DEF Data, Request
<1>5. \A type \in {"SEND", "OK", "ERR"} : Answer(type) \in Reply /\ Answer(type).size = 1
  BY DEF Answer, Reply
<1> QED BY <1>1, <1>2, <1>3, <1>4, <1>5

LEMMA AnnouncedSend ==
  ASSUME NEW W, NEW M, NEW s \in Seq(PartOf(M)), AnnouncedIn(s, W), NEW m \in M, m.size \in Nat,
         m.type # "DATA" => m.content \in W
  PROVE  AnnouncedIn(s \o PartsOf(m), W)
<1> DEFINE t == s \o PartsOf(m)
           end == Len(s) + m.size + 1
<1>1. /\ Len(s) \in Nat /\ Len(t) = end /\ end \in Nat
      /\ \A j \in 1 .. Len(s) : t[j] = s[j]
      /\ \A j \in Len(s) + 1 .. end : t[j] = [of |-> m, nr |-> (j - Len(s)) - 1]
  BY PartsAppended
<1> HIDE DEF t, end
<1>2. ASSUME NEW k \in 1 .. end, t[k].of.type # "DATA"
      PROVE  t[k].of.content \in W
  <2>1. k \in 1 .. Len(s) \/ k \in Len(s) + 1 .. end
    BY <1>1
  <2>2. CASE k \in 1 .. Len(s)
    BY <1>1, <1>2, <2>2 DEF AnnouncedIn
  <2>3. CASE k \in Len(s) + 1 .. end
    <3>1. t[k] = [of |-> m, nr |-> (k - Len(s)) - 1]
      BY ONLY <1>1, <2>3
    <3>2. t[k].of = m
      BY ONLY <3>1
    <3> QED BY <1>2, <3>2
  <2> QED BY <2>1, <2>2, <2>3
<1>3. AnnouncedIn(t, W)
  BY ONLY <1>1, <1>2 DEF AnnouncedIn
<1> QED BY <1>3 DEF t

\* A part of what was there.
LEMMA AnnouncedLess ==
  ASSUME NEW W, NEW s, Len(s) \in Nat, AnnouncedIn(s, W), NEW t, NEW l \in Nat, Len(t) \in Nat,
         Len(t) + l <= Len(s), \A k \in 1 .. Len(t) : t[k] = s[k + l]
  PROVE  AnnouncedIn(t, W)
<1>1. \A k \in 1 .. Len(t) : k + l \in 1 .. Len(s)
  OBVIOUS
<1> QED BY <1>1 DEF AnnouncedIn
-----------------------------------------------------------------------------
(* The client.                                                              *)

\* A request is sent, for which the window has a new place (or it is a DATA).
LEMMA RequestSent ==
  ASSUME IInv, NEW m \in Request, Up!Send(m), link = "open", UNCHANGED <<link, sv, downVars>>,
         Len(window') \in Nat, written' = written,
         m.type # "DATA" => m.content \in written,
         IF m.type = "DATA" THEN window' = window ELSE Len(window') = Len(window) + 1
  PROVE  UpFlow' /\ DownFlow' /\ Ends' /\ AnnouncedIn(Requests', written) /\ Owed'
<1>1. /\ UpFlow' /\ Whole(Requests)'
      /\ Requests \in Seq(PartOf(Request)) /\ Requests' = Requests \o PartsOf(m)
  BY UpSends DEF IInv, Ends
<1>2. Replies' = Replies /\ Storing' = Storing
  BY DEF Replies, Down!UnderWay, downVars, Storing
<1>3. DownFlow' /\ Ends'
  BY <1>1, <1>2 DEF IInv, DownFlow, downVars, Ends
<1>4. m.size \in Nat
  BY Sizes
<1>5. AnnouncedIn(Requests', written)
  <2>1. AnnouncedIn(Requests, written)
    BY DEF IInv, Announcements
  <2> QED BY <1>1, <1>4, <2>1, AnnouncedSend
<1>6. Owed'
  <2>1. PICK k \in Nat, n \in [Nat -> Nat] :
           OwedBy(k, n, Requests, Len(Replies), Len(window), Storing)
    BY DEF IInv, Owed
  <2>2. Counts(k, n, Requests, Len(Replies), Len(window), Storing)
    BY Lengths DEF IInv
  <2>3. /\ m.type = "DATA" => OwedBy(k, n, Requests', Len(Replies), Len(window), Storing)
        /\ m.type # "DATA" => \E nn \in [Nat -> Nat] :
              OwedBy(k, nn, Requests', Len(Replies), Len(window) + 1, Storing)
    BY <1>1, <1>4, <2>1, <2>2, OwedSend
  <2> QED BY <1>2, <2>3 DEF Owed
<1> QED BY <1>1, <1>3, <1>5, <1>6

LEMMA ProbeKeeps ==
  ASSUME IInv, Probe
  PROVE  IInv'
<1>1. Prob(file) \in Request /\ Prob(file).type = "PROB" /\ Prob(file).content = file
  BY Kinds DEF IInv, Scalars
<1>2. /\ window \in Seq(Request) /\ window' = Append(window, Prob(file)) /\ Len(window) < Window
      /\ Len(window) \in Nat /\ Window \in Nat
  BY UploadAssumption, LenProperties DEF IInv, Scalars, Probe, HasPlace
<1>3. window' \in Seq(Request) /\ Len(window') = Len(window) + 1
  BY <1>1, <1>2, AppendProperties
<1>4. Scalars'
  <2>1. Len(window') <= Window
    BY <1>2, <1>3
  <2> QED BY <1>3, <2>1 DEF IInv, Scalars, Probe, serverVars
<1>5. UpFlow' /\ DownFlow' /\ Ends' /\ AnnouncedIn(Requests', written) /\ Owed'
  <2>1. Up!Send(Prob(file)) /\ link = "open" /\ UNCHANGED <<link, sv, downVars, written>>
    BY DEF Probe, Free, serverVars
  <2>2. file \in written
    BY DEF IInv, Announcements
  <2>3. Len(window') \in Nat
    BY <1>2, <1>3
  <2> QED BY <1>1, <1>3, <2>1, <2>2, <2>3, RequestSent
<1>6. Announcements' /\ NoTempLeft'
  BY <1>5 DEF IInv, Announcements, NoTempLeft, Probe, serverVars
<1> QED BY <1>4, <1>5, <1>6 DEF IInv

\* A reply was read: it had its place in the window.
LEMMA ReplyTaken ==
  ASSUME IInv, NEW m, Down!Deliver(m)
  PROVE  /\ m \in Reply /\ DownFlow' /\ (Whole(Replies) => Whole(Replies)')
         /\ window # <<>> /\ Tail(window) \in Seq(Request) /\ Len(Tail(window)) = Len(window) - 1
         /\ \E k \in Nat, n \in [Nat -> Nat] :
               OwedBy(k, n, Requests, Len(Replies'), Len(window) - 1, Storing)
<1>1. /\ m \in Reply /\ DownFlow' /\ (Whole(Replies) => Whole(Replies)')
      /\ Len(Replies) \in Nat /\ Len(Replies') \in Nat /\ Len(Replies) = Len(Replies') + (m.size + 1)
  BY DownDelivers DEF IInv
<1>2. Len(Replies') = Len(Replies) - 2 /\ Len(Replies) >= 2
  BY <1>1, Sizes
<1>3. PICK k \in Nat, n \in [Nat -> Nat] :
         OwedBy(k, n, Requests, Len(Replies), Len(window), Storing)
  BY DEF IInv, Owed
<1>4. Counts(k, n, Requests, Len(Replies), Len(window), Storing)
  BY Lengths DEF IInv
<1>5. /\ Len(window) >= 1
      /\ \E kk \in Nat, nn \in [Nat -> Nat] :
            OwedBy(kk, nn, Requests, Len(Replies) - 2, Len(window) - 1, Storing)
  BY <1>2, <1>3, <1>4, OwedAnswer
<1>6. window # <<>> /\ Tail(window) \in Seq(Request) /\ Len(Tail(window)) = Len(window) - 1
  <2>1. window \in Seq(Request) /\ window # <<>>
    BY <1>5, EmptySeq DEF IInv, Scalars
  <2> QED BY <2>1, HeadTailProperties
<1> QED BY <1>1, <1>2, <1>5, <1>6

LEMMA AnsweredKeeps ==
  ASSUME IInv, Answered
  PROVE  IInv'
<1>1. PICK m : Down!Deliver(m)
  BY DEF Answered
<1>2. /\ DownFlow' /\ (Whole(Replies) => Whole(Replies)')
      /\ Tail(window) \in Seq(Request) /\ Len(Tail(window)) = Len(window) - 1
      /\ \E k \in Nat, n \in [Nat -> Nat] :
            OwedBy(k, n, Requests, Len(Replies'), Len(window) - 1, Storing)
  BY <1>1, ReplyTaken
<1>3. window' = Tail(window) /\ UNCHANGED <<file, written, seen, at, open, pos, chunk, serverVars, link, upVars>>
  BY DEF Answered
<1>4. Scalars'
  <2>1. Len(window) \in Nat /\ Len(window) <= Window /\ Window \in Nat
    BY UploadAssumption, Lengths DEF IInv, Scalars
  <2>2. Len(window') <= Window
    BY <1>2, <1>3, <2>1
  <2> QED BY <1>2, <1>3, <2>2 DEF IInv, Scalars, serverVars
<1>5. UpFlow' /\ Requests' = Requests /\ Storing' = Storing
  BY <1>3 DEF IInv, UpFlow, Requests, Up!UnderWay, upVars, Storing, serverVars
<1>6. Ends' /\ Announcements' /\ NoTempLeft'
  BY <1>2, <1>3, <1>5 DEF IInv, Ends, Announcements, NoTempLeft, serverVars
<1>7. Owed'
  BY <1>2, <1>3, <1>5 DEF Owed
<1> QED BY <1>2, <1>4, <1>5, <1>6, <1>7 DEF IInv

LEMMA AskedKeeps ==
  ASSUME IInv, Asked
  PROVE  IInv'
<1>1. /\ Down!Deliver(Answer("SEND")) /\ Up!Send(Stor(file)) /\ link = "open" /\ at' = "stor"
      /\ window' = Append(Tail(window), Stor(file))
      /\ UNCHANGED <<file, written, seen, open, pos, chunk, serverVars, link>>
  BY DEF Asked
<1>2. /\ Stor(file) \in Request /\ Stor(file).type = "STOR" /\ Stor(file).content = file
      /\ Stor(file).size \in Nat /\ file \in written
  BY Kinds, Sizes DEF IInv, Scalars, Announcements
<1>3. /\ DownFlow' /\ (Whole(Replies) => Whole(Replies)') /\ window # <<>>
      /\ Tail(window) \in Seq(Request) /\ Len(Tail(window)) = Len(window) - 1
  BY <1>1, ReplyTaken
<1>4. PICK k \in Nat, n \in [Nat -> Nat] :
         OwedBy(k, n, Requests, Len(Replies'), Len(window) - 1, Storing)
  BY <1>1, ReplyTaken
<1>5. Len(window) \in Nat /\ Len(window) # 0 /\ Len(window) <= Window /\ Window \in Nat
  BY <1>3, UploadAssumption, EmptySeq DEF IInv, Scalars
<1>6. window' \in Seq(Request) /\ Len(window') = Len(window)
  BY <1>1, <1>2, <1>3, <1>5, AppendProperties
<1>7. Scalars'
  BY <1>1, <1>5, <1>6 DEF IInv, Scalars, serverVars
<1>8. /\ UpFlow' /\ Whole(Requests)'
      /\ Requests \in Seq(PartOf(Request)) /\ Requests' = Requests \o PartsOf(Stor(file))
  BY <1>1, <1>2, UpSends DEF IInv, Ends
<1>9. Ends'
  BY <1>1, <1>3, <1>8 DEF IInv, Ends
<1>10. Announcements' /\ NoTempLeft'
  <2>1. AnnouncedIn(Requests', written)
    BY <1>2, <1>8, AnnouncedSend DEF IInv, Announcements
  <2> QED BY <1>1, <2>1 DEF IInv, Announcements, NoTempLeft, serverVars
<1>11. Owed'
  <2>1. Len(Replies') \in Nat /\ Storing' = Storing
    <3>1. Replies' \in Seq(PartOf(Reply))
      BY <1>3, ConcatProperties DEF DownFlow, Flow, Replies, Down!UnderWay
    <3> QED BY <1>1, <3>1, LenProperties DEF Storing, serverVars
  <2>2. Counts(k, n, Requests, Len(Replies'), Len(window) - 1, Storing)
    <3>1. Len(Requests) \in Nat /\ Storing \in {0, 1}
      BY Lengths DEF IInv
    <3>2. Len(window) - 1 \in Nat
      BY <1>5
    <3> QED BY <2>1, <3>1, <3>2 DEF Counts
  <2>3. \E nn \in [Nat -> Nat] :
           OwedBy(k, nn, Requests', Len(Replies'), (Len(window) - 1) + 1, Storing)
    <3>1. Stor(file).type # "DATA"
      BY <1>2
    <3> QED BY <1>2, <1>4, <1>8, <2>2, <3>1, OwedSend
  <2>4. (Len(window) - 1) + 1 = Len(window')
    BY <1>5, <1>6
  <2> QED BY <2>1, <2>3, <2>4 DEF Owed
<1> QED BY <1>3, <1>7, <1>8, <1>9, <1>10, <1>11 DEF IInv

\* Neither what is under way nor the window changes.
LEMMA OwedStays ==
  ASSUME Owed, Requests' = Requests, Replies' = Replies, window' = window, Storing' = Storing
  PROVE  Owed'
  BY DEF Owed

LEMMA StreamsStay ==
  ASSUME IInv, UNCHANGED <<upVars, downVars, link, sv>>
  PROVE  /\ UpFlow' /\ DownFlow' /\ Ends' /\ Requests' = Requests /\ Replies' = Replies
         /\ Storing' = Storing
<1>1. Requests' = Requests /\ Replies' = Replies /\ Storing' = Storing
  BY DEF upVars, downVars, Requests, Replies, Up!UnderWay, Down!UnderWay, Storing
<1>2. UpFlow' /\ DownFlow'
  BY DEF IInv, upVars, downVars, UpFlow, DownFlow
<1> QED BY <1>1, <1>2 DEF IInv, Ends

LEMMA SendChunkKeeps ==
  ASSUME IInv, SendChunk
  PROVE  IInv'
<1> DEFINE last == Len(Chunk) < chunk
<1>1. Chunk \in Seq(Block)
  <2>1. open \in Seq(Block) /\ Len(open) \in Nat /\ pos \in Nat /\ chunk \in Nat
    BY UploadAssumption, LenProperties DEF IInv, Scalars
  <2> DEFINE upto == IF pos + chunk < Len(open) THEN pos + chunk ELSE Len(open)
  <2>2. upto \in Nat /\ upto <= Len(open) /\ pos + 1 \in Nat /\ pos + 1 >= 1
    BY <2>1
  <2> HIDE DEF upto
  <2>3. \A i \in pos + 1 .. upto : open[i] \in Block
    BY <2>1, <2>2, ElementOfSeq
  <2>4. SubSeq(open, pos + 1, upto) \in Seq(Block)
    BY <2>2, <2>3, SubSeqProperties
  <2> QED BY <2>4 DEF Chunk, upto
<1>2. Data(Chunk, last) \in Request /\ Data(Chunk, last).type = "DATA"
  <2>1. last \in BOOLEAN
    OBVIOUS
  <2> HIDE DEF last
  <2> QED BY <1>1, <2>1, Kinds
<1>3. /\ Up!Send(Data(Chunk, last)) /\ link = "open"
      /\ at' = IF last THEN "loop" ELSE "data"
      /\ open' = IF last THEN <<>> ELSE open
      /\ pos' = IF last THEN 0 ELSE pos + chunk
      /\ UNCHANGED <<file, written, seen, window, chunk, serverVars, link, downVars>>
  BY DEF SendChunk, Free
<1> HIDE DEF last
<1>4. Scalars'
  <2>1. pos' \in Nat /\ open' \in Seq(Block)
    BY <1>3, UploadAssumption, EmptySeq DEF IInv, Scalars
  <2> QED BY <1>3, <2>1 DEF IInv, Scalars, serverVars
<1>5. UpFlow' /\ DownFlow' /\ Ends' /\ AnnouncedIn(Requests', written) /\ Owed'
  <2>1. Len(window') \in Nat
    BY <1>4, LenProperties DEF Scalars
  <2> QED BY <1>2, <1>3, <2>1, RequestSent DEF serverVars
<1>6. Announcements' /\ NoTempLeft'
  BY <1>3, <1>5 DEF IInv, Announcements, NoTempLeft, serverVars
<1> QED BY <1>4, <1>5, <1>6 DEF IInv

LEMMA OpenFileKeeps ==
  ASSUME IInv, OpenFile
  PROVE  IInv'
<1>1. /\ at' = "data" /\ open' = file /\ pos' = 0
      /\ UNCHANGED <<file, written, seen, window, chunk, serverVars, link, upVars, downVars>>
  BY DEF OpenFile
<1>2. file \in Seq(Block)
  BY UploadAssumption DEF IInv, Scalars
<1>3. Scalars'
  BY <1>1, <1>2 DEF IInv, Scalars, serverVars
<1>4. /\ UpFlow' /\ DownFlow' /\ Ends' /\ Requests' = Requests /\ Replies' = Replies
      /\ Storing' = Storing
  BY <1>1, StreamsStay DEF serverVars
<1>5. Announcements' /\ NoTempLeft' /\ Owed'
  BY <1>1, <1>4, OwedStays DEF IInv, Announcements, NoTempLeft, serverVars
<1> QED BY <1>3, <1>4, <1>5 DEF IInv

\* sendString and recvString go on, on either side.
LEMMA MovesKeep ==
  ASSUME IInv, ClientWrites \/ ClientReads \/ ServerWrites \/ ServerReads
  PROVE  IInv'
<1>1. /\ UNCHANGED <<file, written, clientVars, serverVars, link>>
      /\ \/ (Up!Write \/ Up!Read) /\ UNCHANGED downVars
         \/ (Down!Write \/ Down!Read) /\ UNCHANGED upVars
  BY DEF ClientWrites, ClientReads, ServerWrites, ServerReads
<1>2. UpFlow' /\ DownFlow' /\ Requests' = Requests /\ Replies' = Replies
  <2>1. CASE (Up!Write \/ Up!Read) /\ UNCHANGED downVars
    BY <2>1, UpMoves DEF IInv, DownFlow, Replies, Down!UnderWay, downVars
  <2>2. CASE (Down!Write \/ Down!Read) /\ UNCHANGED upVars
    BY <2>2, DownMoves DEF IInv, UpFlow, Requests, Up!UnderWay, upVars
  <2> QED BY <1>1, <2>1, <2>2
<1>3. Scalars' /\ Storing' = Storing
  BY <1>1 DEF IInv, Scalars, Storing, clientVars, serverVars
<1>4. Ends' /\ Announcements' /\ NoTempLeft'
  BY <1>1, <1>2 DEF IInv, Ends, Announcements, NoTempLeft, clientVars, serverVars
<1>5. Owed'
  BY <1>1, <1>2, <1>3, OwedStays DEF IInv, clientVars
<1> QED BY <1>2, <1>3, <1>4, <1>5 DEF IInv

LEMMA ClientStopsKeeps ==
  ASSUME IInv, ClientStops
  PROVE  IInv'
<1>1. /\ at' = "off" /\ open' = <<>> /\ pos' = 0
      /\ UNCHANGED <<file, written, seen, window, chunk, serverVars, link, upVars, downVars>>
  BY DEF ClientStops
<1>2. Scalars'
  BY <1>1, EmptySeq DEF IInv, Scalars, serverVars
<1>3. /\ UpFlow' /\ DownFlow' /\ Ends' /\ Requests' = Requests /\ Replies' = Replies
      /\ Storing' = Storing
  BY <1>1, StreamsStay DEF serverVars
<1>4. Announcements' /\ NoTempLeft' /\ Owed'
  BY <1>1, <1>3, OwedStays DEF IInv, Announcements, NoTempLeft, serverVars
<1> QED BY <1>2, <1>3, <1>4 DEF IInv

\* The contents the file had before remain among those it had.
LEMMA EditKeeps ==
  ASSUME IInv, Edit
  PROVE  IInv'
<1>1. PICK v \in Version : /\ file' = v /\ written' = written \cup {v}
                           /\ open' \in IF at = "data" THEN {open, v} ELSE {open}
  BY DEF Edit
<1>2. UNCHANGED <<seen, window, at, pos, chunk, serverVars, link, upVars, downVars>>
  BY DEF Edit
<1>3. Scalars'
  <2>1. open' \in Seq(Block)
    BY <1>1, UploadAssumption DEF IInv, Scalars
  <2> QED BY <1>1, <1>2, <2>1 DEF IInv, Scalars, serverVars
<1>4. /\ UpFlow' /\ DownFlow' /\ Ends' /\ Requests' = Requests /\ Replies' = Replies
      /\ Storing' = Storing
  BY <1>2, StreamsStay DEF serverVars
<1>5. Announcements'
  BY <1>1, <1>2, <1>4 DEF IInv, Announcements, AnnouncedIn, serverVars
<1>6. NoTempLeft' /\ Owed'
  BY <1>2, <1>4, OwedStays DEF IInv, NoTempLeft, serverVars
<1> QED BY <1>3, <1>4, <1>5, <1>6 DEF IInv
-----------------------------------------------------------------------------
(* The server.                                                              *)

\* A request was taken: its place is the server's now, if it asks for a reply.
LEMMA RequestTaken ==
  ASSUME IInv, NEW m, Up!Deliver(m)
  PROVE  /\ m \in Request /\ UpFlow' /\ (Whole(Requests) => Whole(Requests)')
         /\ AnnouncedIn(Requests', written)
         /\ m.type # "DATA" => m.content \in written
         /\ \E k \in Nat, n \in [Nat -> Nat] :
               /\ OwedBy(k, n, Requests', Len(Replies), Len(window), Storing)
               /\ m.type # "DATA" /\ Storing = 0 =>
                     OwedBy(k, n, Requests', Len(Replies), Len(window), 1)
<1>1. /\ m \in Request /\ m.size + 1 \in 1 .. Len(Requests)
      /\ UpFlow' /\ (Whole(Requests) => Whole(Requests)')
      /\ Len(Requests) \in Nat /\ Len(Requests') \in Nat
      /\ Len(Requests) = Len(Requests') + (m.size + 1)
      /\ \A k \in 1 .. Len(Requests') : Requests'[k] = Requests[k + (m.size + 1)]
      /\ Requests[m.size + 1] = [of |-> m, nr |-> m.size]
  BY UpDelivers DEF IInv
<1>2. m.size \in Nat /\ m.size + 1 \in Nat
  BY <1>1, Sizes
<1>3. AnnouncedIn(Requests, written)
  BY DEF IInv, Announcements
<1>4. AnnouncedIn(Requests', written)
  <2>1. Len(Requests') + (m.size + 1) <= Len(Requests)
    BY <1>1, <1>2
  <2> QED BY ONLY <1>1, <1>2, <1>3, <2>1, AnnouncedLess
<1>5. m.type # "DATA" => m.content \in written
  <2>1. Requests[m.size + 1].of = m
    BY ONLY <1>1
  <2> QED BY <1>1, <1>3, <2>1 DEF AnnouncedIn
<1>6. PICK k \in Nat, n \in [Nat -> Nat] :
         OwedBy(k, n, Requests, Len(Replies), Len(window), Storing)
  BY DEF IInv, Owed
<1>7. Counts(k, n, Requests, Len(Replies), Len(window), Storing)
  BY Lengths DEF IInv
<1>8. \E nn \in [Nat -> Nat] :
         /\ OwedBy(k, nn, Requests', Len(Replies), Len(window), Storing)
         /\ Asks(Requests[m.size + 1]) /\ Storing = 0 =>
               OwedBy(k, nn, Requests', Len(Replies), Len(window), 1)
  BY ONLY <1>1, <1>6, <1>7, OwedDeliver
<1>9. m.type # "DATA" => Asks(Requests[m.size + 1])
  BY ONLY <1>1 DEF Asks
<1> QED BY <1>1, <1>4, <1>5, <1>8, <1>9

\* The server says something, which is two parts more at most.
LEMMA Responds ==
  ASSUME IInv, sv # "off", NEW type \in {"SEND", "OK", "ERR"}, Respond(Answer(type)), link' = link
  PROVE  /\ DownFlow' /\ (link = "open" => Whole(Replies)')
         /\ Len(Replies) \in Nat /\ Len(Replies') \in Nat /\ Len(Replies') <= Len(Replies) + 2
<1>1. Len(Replies) \in Nat /\ Replies \in Seq(PartOf(Reply))
  BY Lengths DEF IInv
<1>2. CASE link = "lost"
  <2>1. UNCHANGED downVars
    BY <1>2 DEF Respond
  <2>2. Replies' = Replies /\ DownFlow'
    BY <2>1 DEF IInv, downVars, Replies, Down!UnderWay, DownFlow
  <2> QED BY <1>1, <1>2, <2>2
<1>3. CASE link # "lost"
  <2>1. link = "open" /\ Down!Send(Answer(type)) /\ Whole(Replies)
    BY <1>3 DEF IInv, Ends, Scalars, Respond
  <2>2. Answer(type) \in Reply /\ Answer(type).size = 1
    BY Kinds
  <2>3. DownFlow' /\ Whole(Replies)' /\ Replies' = Replies \o PartsOf(Answer(type))
    BY <2>1, <2>2, DownSends DEF IInv
  <2>4. Len(Replies') = Len(Replies) + Answer(type).size + 1
    BY <1>1, <2>2, <2>3, PartsAppended
  <2> QED BY <1>1, <2>2, <2>3, <2>4
<1> QED BY <1>2, <1>3

\* What was being looked at or stored is answered.
LEMMA OwedAnswered ==
  ASSUME NEW s, Len(s) \in Nat, NEW k \in Nat, NEW n \in [Nat -> Nat], NEW d \in Nat, NEW w \in Nat,
         OwedBy(k, n, s, d, w, 1), NEW dd \in Nat, dd <= d + 2
  PROVE  \E kk \in Nat : OwedBy(kk, n, s, dd, w, 0)
<1>1. Counts(k, n, s, d, w, 1)
  BY DEF Counts
<1>2. k + 1 \in Nat /\ OwedBy(k + 1, n, s, d + 2, w, 0)
  BY <1>1, OwedReply
<1>3. Counts(k + 1, n, s, d + 2, w, 0)
  <2>1. d + 2 \in Nat
    OBVIOUS
  <2> QED BY <1>2, <2>1 DEF Counts
<1>4. 0 \in {0, 1} /\ 0 <= 0 /\ Len(s) <= Len(s) /\ \A j \in 1 .. Len(s) : s[j] = s[j]
  OBVIOUS
<1>5. OwedBy(k + 1, n, s, dd, w, 0)
  BY <1>2, <1>3, <1>4, OwedLess
<1> QED BY <1>2, <1>5

LEMMA ProbedKeeps ==
  ASSUME IInv, Probed
  PROVE  IInv'
<1>1. PICK v \in Version : /\ Up!Deliver(Prob(v))
                           /\ Respond(Answer(IF copy = v THEN "OK" ELSE "SEND"))
  BY DEF Probed
<1>2. sv = "loop" /\ UNCHANGED <<file, written, clientVars, serverVars, link>>
  BY DEF Probed
<1>3. /\ UpFlow' /\ (Whole(Requests) => Whole(Requests)') /\ AnnouncedIn(Requests', written)
      /\ \E k \in Nat, n \in [Nat -> Nat] : OwedBy(k, n, Requests', Len(Replies), Len(window), 1)
  <2>1. Prob(v).type # "DATA" /\ Storing = 0
    BY <1>2, Kinds DEF Storing
  <2> QED BY <1>1, <2>1, RequestTaken
<1>4. /\ DownFlow' /\ (link = "open" => Whole(Replies)')
      /\ Len(Replies) \in Nat /\ Len(Replies') \in Nat /\ Len(Replies') <= Len(Replies) + 2
  <2>1. (IF copy = v THEN "OK" ELSE "SEND") \in {"SEND", "OK", "ERR"} /\ sv # "off" /\ link' = link
    BY <1>2
  <2> QED BY <1>1, <2>1, Responds
<1>5. Scalars' /\ Storing' = 0 /\ window' = window
  BY <1>2 DEF IInv, Scalars, Storing, clientVars, serverVars
<1>6. Ends' /\ Announcements' /\ NoTempLeft'
  BY <1>2, <1>3, <1>4 DEF IInv, Ends, Announcements, NoTempLeft, clientVars, serverVars
<1>7. Owed'
  <2>1. PICK k \in Nat, n \in [Nat -> Nat] : OwedBy(k, n, Requests', Len(Replies), Len(window), 1)
    BY <1>3
  <2>2. Len(Requests') \in Nat /\ Len(window) \in Nat
    BY <1>3, <1>4, <1>5, Lengths DEF IInv
  <2>3. \E kk \in Nat : OwedBy(kk, n, Requests', Len(Replies'), Len(window), 0)
    BY ONLY <1>4, <2>1, <2>2, OwedAnswered
  <2> QED BY <1>5, <2>3 DEF Owed
<1> QED BY <1>3, <1>4, <1>5, <1>6, <1>7 DEF IInv

LEMMA AnnouncedKeeps ==
  ASSUME IInv, Announced
  PROVE  IInv'
<1>1. PICK v \in Version : Up!Deliver(Stor(v)) /\ expected' = v
  BY DEF Announced
<1>2. /\ sv = "loop" /\ sv' = "recv" /\ temp' = <<>>
      /\ UNCHANGED <<file, written, clientVars, copy, link, downVars>>
  BY DEF Announced
<1>3. Stor(v).type # "DATA" /\ Stor(v).content = v /\ v \in Seq(Block) /\ Storing = 0 /\ Storing' = 1
  BY <1>2, Kinds DEF Storing
<1>4. /\ UpFlow' /\ (Whole(Requests) => Whole(Requests)') /\ AnnouncedIn(Requests', written)
      /\ v \in written
      /\ \E k \in Nat, n \in [Nat -> Nat] : OwedBy(k, n, Requests', Len(Replies), Len(window), 1)
  BY <1>1, <1>3, RequestTaken
<1>5. DownFlow' /\ Replies' = Replies
  BY <1>2 DEF IInv, DownFlow, downVars, Replies, Down!UnderWay
<1>6. Scalars'
  BY <1>1, <1>2, <1>3, EmptySeq DEF IInv, Scalars, clientVars
<1>7. Ends' /\ Announcements' /\ NoTempLeft'
  BY <1>1, <1>2, <1>4, <1>5 DEF IInv, Ends, Announcements, NoTempLeft, clientVars
<1>8. Owed'
  BY <1>2, <1>3, <1>4, <1>5 DEF Owed, clientVars
<1> QED BY <1>4, <1>5, <1>6, <1>7, <1>8 DEF IInv

\* The last DATA was taken, and an answer given.
LEMMA TransferEnds ==
  ASSUME IInv, sv = "recv", NEW m, Up!Deliver(m), NEW type \in {"SEND", "OK", "ERR"},
         Respond(Answer(type)), sv' = "loop", temp' = None, expected' = <<>>,
         copy' \in {copy, expected}, UNCHANGED <<file, written, clientVars, link>>
  PROVE  IInv'
<1>1. Storing = 1 /\ Storing' = 0 /\ window' = window
  BY DEF Storing, clientVars
<1>2. /\ UpFlow' /\ (Whole(Requests) => Whole(Requests)') /\ AnnouncedIn(Requests', written)
      /\ \E k \in Nat, n \in [Nat -> Nat] : OwedBy(k, n, Requests', Len(Replies), Len(window), 1)
  BY <1>1, RequestTaken
<1>3. /\ DownFlow' /\ (link = "open" => Whole(Replies)')
      /\ Len(Replies) \in Nat /\ Len(Replies') \in Nat /\ Len(Replies') <= Len(Replies) + 2
  BY Responds
<1>4. Scalars'
  BY EmptySeq DEF IInv, Scalars, clientVars
<1>5. Ends' /\ Announcements' /\ NoTempLeft'
  BY <1>2, <1>3 DEF IInv, Ends, Announcements, NoTempLeft, clientVars
<1>6. Owed'
  <2>1. PICK k \in Nat, n \in [Nat -> Nat] : OwedBy(k, n, Requests', Len(Replies), Len(window), 1)
    BY <1>2
  <2>2. Len(Requests') \in Nat /\ Len(window) \in Nat
    BY <1>1, <1>2, <1>3, <1>4, Lengths DEF IInv
  <2>3. \E kk \in Nat : OwedBy(kk, n, Requests', Len(Replies'), Len(window), 0)
    BY ONLY <1>3, <2>1, <2>2, OwedAnswered
  <2> QED BY <1>1, <2>3 DEF Owed
<1> QED BY <1>2, <1>3, <1>4, <1>5, <1>6 DEF IInv

LEMMA StoreFileKeeps ==
  ASSUME IInv, StoreFile
  PROVE  IInv'
<1> DEFINE m == Up!Arriving
<1>1. UNCHANGED <<file, written, clientVars, link>>
  BY DEF StoreFile
<1>2. CASE Received(m)
  <2>1. /\ sv = "recv" /\ m.type = "DATA" /\ Up!Deliver(m) /\ temp' = temp \o m.content
        /\ UNCHANGED <<sv, expected, copy, downVars>>
    BY <1>2 DEF Received
  <2>2. /\ m \in Request /\ UpFlow' /\ (Whole(Requests) => Whole(Requests)')
        /\ AnnouncedIn(Requests', written)
        /\ \E k \in Nat, n \in [Nat -> Nat] : OwedBy(k, n, Requests', Len(Replies), Len(window), Storing)
    BY <2>1, RequestTaken
  <2>3. DownFlow' /\ Replies' = Replies /\ Storing' = Storing
    BY <2>1 DEF IInv, DownFlow, downVars, Replies, Down!UnderWay, Storing
  <2>4. temp' \in Seq(Block)
    <3>1. temp \in Seq(Block) /\ m.content \in Seq(Block)
      BY <2>1, <2>2 DEF IInv, Scalars, Request
    <3> QED BY <2>1, <3>1, ConcatProperties
  <2>5. Scalars'
    BY <1>1, <2>1, <2>4 DEF IInv, Scalars, clientVars
  <2>6. Ends' /\ Announcements' /\ NoTempLeft'
    BY <1>1, <2>1, <2>2, <2>3 DEF IInv, Ends, Announcements, NoTempLeft, clientVars
  <2>7. Owed'
    BY <1>1, <2>2, <2>3 DEF Owed, clientVars
  <2> QED BY <2>2, <2>3, <2>5, <2>6, <2>7 DEF IInv
<1>3. CASE Stored(m)
  <2>1. /\ sv = "recv" /\ Up!Deliver(m) /\ Respond(Answer("OK"))
        /\ sv' = "loop" /\ temp' = None /\ expected' = <<>> /\ copy' = expected
    BY <1>3 DEF Stored, AsExpected
  <2> HIDE DEF m
  <2> QED BY <1>1, <2>1, TransferEnds
<1>4. CASE NotStored(m)
  <2>1. /\ sv = "recv" /\ Up!Deliver(m) /\ Respond(Answer("ERR"))
        /\ sv' = "loop" /\ temp' = None /\ expected' = <<>> /\ copy' = copy
    BY <1>4 DEF NotStored
  <2> HIDE DEF m
  <2> QED BY <1>1, <2>1, TransferEnds
<1> QED BY <1>2, <1>3, <1>4 DEF StoreFile

LEMMA ServerStopsKeeps ==
  ASSUME IInv, ServerStops
  PROVE  IInv'
<1>1. /\ sv' = "off" /\ temp' = None /\ expected' = <<>> /\ link' \in {"lost", "closed"}
      /\ upOut' = <<>> /\ up' = <<>> /\ upIn' = <<>> /\ Down!Cut
      /\ UNCHANGED <<file, written, clientVars, copy>>
  BY DEF ServerStops, DropTemp
<1>2. /\ DownFlow' /\ Len(Replies) \in Nat /\ Len(Replies') \in Nat
      /\ Len(Replies') <= Len(Replies)
  BY <1>1, DownCuts DEF IInv
<1>3. Requests' = <<>> /\ Len(Requests') = 0 /\ UpFlow'
  <2>1. <<>> \o <<>> \o <<>> = <<>> /\ <<>> \in Seq(PartOf(Request)) /\ Len(<<>>) = 0
    BY EmptySeq, ConcatEmptySeq
  <2>2. Chain(<<>>) /\ Begun(<<>>)
    BY DEF Chain, Begun
  <2> QED BY <1>1, <2>1, <2>2, Sizes DEF UpFlow, Flow, Requests, Up!UnderWay
<1>4. Scalars' /\ Storing' = 0 /\ window' = window
  BY <1>1, EmptySeq DEF IInv, Scalars, clientVars, Storing
<1>5. Ends' /\ Announcements' /\ NoTempLeft'
  BY <1>1, <1>3 DEF IInv, Ends, Announcements, AnnouncedIn, NoTempLeft, clientVars
<1>6. Owed'
  <2>1. PICK k \in Nat, n \in [Nat -> Nat] :
           OwedBy(k, n, Requests, Len(Replies), Len(window), Storing)
    BY DEF IInv, Owed
  <2>2. Counts(k, n, Requests, Len(Replies), Len(window), Storing)
    BY Lengths DEF IInv
  <2>3. /\ 0 \in {0, 1} /\ 0 <= Storing /\ Len(Requests') \in Nat /\ Len(Requests') <= Len(Requests)
        /\ \A j \in 1 .. Len(Requests') : Requests'[j] = Requests[j]
    BY <1>3, <2>2 DEF Counts
  <2>4. OwedBy(k, n, Requests', Len(Replies'), Len(window), 0)
    BY ONLY <1>2, <2>1, <2>2, <2>3, OwedLess
  <2> QED BY <1>4, <2>4 DEF Owed
<1> QED BY <1>2, <1>3, <1>4, <1>5, <1>6 DEF IInv

LEMMA LoseKeeps ==
  ASSUME IInv, Lose
  PROVE  IInv'
<1>1. link' = "lost" /\ Up!Cut /\ Down!Cut /\ UNCHANGED <<file, written, clientVars, serverVars>>
  BY DEF Lose
<1>2. /\ DownFlow' /\ Len(Replies) \in Nat /\ Len(Replies') \in Nat
      /\ Len(Replies') <= Len(Replies)
  BY <1>1, DownCuts DEF IInv
<1>3. /\ UpFlow' /\ Len(Requests) \in Nat /\ Len(Requests') \in Nat
      /\ Len(Requests') <= Len(Requests)
      /\ \A k \in 1 .. Len(Requests') : Requests'[k] = Requests[k]
  BY <1>1, UpCuts DEF IInv
<1>4. Scalars' /\ Storing' = Storing /\ window' = window
  BY <1>1 DEF IInv, Scalars, clientVars, serverVars, Storing
<1>5. AnnouncedIn(Requests', written)
  <2>1. \A k \in 1 .. Len(Requests') : k \in 1 .. Len(Requests)
    BY <1>3
  <2> QED BY <1>3, <2>1 DEF IInv, Announcements, AnnouncedIn
<1>6. Ends' /\ Announcements' /\ NoTempLeft'
  BY <1>1, <1>5 DEF IInv, Ends, Announcements, NoTempLeft, clientVars, serverVars
<1>7. Owed'
  <2>1. PICK k \in Nat, n \in [Nat -> Nat] :
           OwedBy(k, n, Requests, Len(Replies), Len(window), Storing)
    BY DEF IInv, Owed
  <2>2. Counts(k, n, Requests, Len(Replies), Len(window), Storing)
    BY Lengths DEF IInv
  <2>3. Storing \in {0, 1} /\ Storing <= Storing
    BY DEF Storing
  <2>4. OwedBy(k, n, Requests', Len(Replies'), Len(window), Storing)
    BY ONLY <1>2, <1>3, <2>1, <2>2, <2>3, OwedLess
  <2> QED BY <1>4, <2>4 DEF Owed
<1> QED BY <1>2, <1>3, <1>4, <1>6, <1>7 DEF IInv
-----------------------------------------------------------------------------
(* The theorems.                                                            *)
LEMMA Starts == Init => IInv
<1> SUFFICES ASSUME Init PROVE IInv
  OBVIOUS
<1>1. /\ upIn = <<>> /\ up = <<>> /\ upOut = <<>> /\ downIn = <<>> /\ down = <<>> /\ downOut = <<>>
  BY DEF Init, Up!Init, Down!Init
<1>2. <<>> \o <<>> \o <<>> = <<>> /\ Len(<<>>) = 0 /\ \A S : <<>> \in Seq(S)
  BY EmptySeq, ConcatEmptySeq
<1>3. Requests = <<>> /\ Replies = <<>>
  BY <1>1, <1>2 DEF Requests, Replies, Up!UnderWay, Down!UnderWay
<1>4. UpFlow /\ DownFlow
  <2>1. Chain(<<>>) /\ Begun(<<>>)
    BY DEF Chain, Begun
  <2> QED BY <1>1, <1>2, <2>1, Sizes DEF UpFlow, DownFlow, Flow
<1>5. Scalars
  <2>1. Window \in Nat
    BY UploadAssumption
  <2> QED BY <1>2, <2>1 DEF Init, Scalars
<1>6. Ends /\ Announcements /\ NoTempLeft
  BY <1>3 DEF Init, Ends, Whole, Announcements, AnnouncedIn, NoTempLeft
<1>7. Owed
  <2>1. Len(Requests) = 0 /\ Len(Replies) = 0 /\ Len(window) = 0 /\ Storing = 0
    BY <1>2, <1>3 DEF Init, Storing
  <2>2. 0 \in Nat /\ [j \in Nat |-> 0] \in [Nat -> Nat]
    OBVIOUS
  <2>3. OwedBy(0, [j \in Nat |-> 0], Requests, Len(Replies), Len(window), Storing)
    BY <2>1 DEF OwedBy
  <2> QED BY <2>2, <2>3 DEF Owed
<1> QED BY <1>4, <1>5, <1>6, <1>7 DEF IInv

LEMMA NextKeeps ==
  ASSUME IInv, [Next]_vars
  PROVE  IInv'
<1>1. CASE Edit
  BY <1>1, EditKeeps
<1>2. CASE Client
  BY <1>2, ProbeKeeps, AnsweredKeeps, AskedKeeps, OpenFileKeeps, SendChunkKeeps, MovesKeep,
     ClientStopsKeeps DEF Client
<1>3. CASE Server
  BY <1>3, ProbedKeeps, AnnouncedKeeps, StoreFileKeeps, MovesKeep, ServerStopsKeeps DEF Server
<1>4. CASE Lose
  BY <1>4, LoseKeeps
<1>5. CASE UNCHANGED vars
  <2>1. UNCHANGED <<file, written, seen, window, at, open, pos, chunk, sv, expected, temp, copy,
                    link, upVars, downVars>>
    BY <1>5 DEF vars, clientVars, serverVars
  <2>2. /\ UpFlow' /\ DownFlow' /\ Ends' /\ Requests' = Requests /\ Replies' = Replies
        /\ Storing' = Storing
    BY <2>1, StreamsStay
  <2> QED BY <2>1, <2>2, OwedStays DEF IInv, Scalars, Announcements, NoTempLeft
<1> QED BY <1>1, <1>2, <1>3, <1>4, <1>5 DEF Next

LEMMA Invariant == Spec => []IInv
<1>1. IInv /\ [Next]_vars => IInv'
  BY NextKeeps
<1> QED BY Starts, <1>1, PTL DEF Spec

\* The types of the transfer: window and buffers stay within their sizes, and the
\* window always has the event a reply is for.
THEOREM UploadTypeOK == Spec => []TypeOK
<1>1. IInv => TypeOK
  <2> SUFFICES ASSUME IInv PROVE TypeOK
    OBVIOUS
  <2>1. Up!TypeOK /\ Down!TypeOK
    BY DEF IInv, UpFlow, DownFlow, Flow, PartOf, Up!TypeOK, Down!TypeOK, Up!Part, Down!Part
  <2> QED BY <2>1 DEF IInv, Scalars, TypeOK
<1> QED BY <1>1, Invariant, PTL

\* sendString and recvString agree on where messages begin (Socket.cpp), whatever
\* the sizes of chunks, records and buffers.
THEOREM TransferFramed == Spec => []StreamsFramed
<1>1. IInv => StreamsFramed
  BY DEF IInv, UpFlow, DownFlow, Flow, Chain, Follows, StreamsFramed, Up!Framed, Down!Framed,
         Up!UnderWay, Down!UnderWay
<1> QED BY <1>1, Invariant, PTL

\* A client that sends and reads no replies meanwhile does not wait for a server that
\* waits for it: the replies to a full window find room in the buffers.
THEOREM RepliesFindRoom == Spec => []NoCrossedWrites
<1>1. IInv => NoCrossedWrites
  <2> SUFFICES ASSUME IInv, Down!Blocked PROVE FALSE
    BY DEF NoCrossedWrites
  <2>1. downOut # <<>> /\ Len(down) = DownRoom
    BY DEF Down!Blocked, Down!Writing
  <2>2. /\ downIn \in Seq(PartOf(Reply)) /\ down \in Seq(PartOf(Reply))
        /\ downOut \in Seq(PartOf(Reply))
    BY DEF IInv, DownFlow, Flow
  <2>3. Len(downIn) \in Nat /\ Len(downOut) \in Nat /\ Len(downOut) # 0
    BY <2>1, <2>2, EmptySeq, LenProperties
  <2>4. Len(Replies) = Len(downIn) + Len(down) + Len(downOut)
    <3>1. downIn \o down \in Seq(PartOf(Reply)) /\ Len(downIn \o down) = Len(downIn) + Len(down)
      BY ONLY <2>2, ConcatProperties
    <3>2. Len((downIn \o down) \o downOut) = Len(downIn \o down) + Len(downOut)
      BY ONLY <2>2, <3>1, ConcatProperties
    <3> QED BY <3>1, <3>2 DEF Replies, Down!UnderWay
  <2>5. PICK k \in Nat, n \in [Nat -> Nat] :
           OwedBy(k, n, Requests, Len(Replies), Len(window), Storing)
    BY DEF IInv, Owed
  <2>6. Len(Replies) <= 2 * k /\ k + Storing <= Len(window) /\ Len(window) <= Window
    BY <2>5 DEF OwedBy, IInv, Scalars
  <2>7. Len(window) \in Nat /\ Window \in Nat /\ Storing \in {0, 1}
    BY UploadAssumption, Lengths DEF IInv
  <2>8. DownRoom \in Nat /\ DownRoom >= 2 * Window
    BY UploadAssumption
  <2>9. Len(Replies) > DownRoom
    BY <2>1, <2>3, <2>4, <2>8
  <2>10. k <= Window
    <3>1. k \in Nat /\ k + Storing <= Len(window) /\ Len(window) <= Window
      BY <2>5, <2>6
    <3>2. CASE Storing = 0
      BY ONLY <2>7, <3>1, <3>2
    <3>3. CASE Storing = 1
      BY ONLY <2>7, <3>1, <3>3
    <3> QED BY ONLY <2>7, <3>2, <3>3
  <2>11. Len(Replies) <= 2 * Window
    <3>1. Len(Replies) \in Nat
      BY <2>1, <2>3, <2>4, <2>8
    <3>2. \A l, j, w \in Nat : l <= 2 * j /\ j <= w => l <= 2 * w
      OBVIOUS
    <3> QED BY ONLY <2>5, <2>6, <2>7, <2>10, <3>1, <3>2
  <2> QED BY <2>9, <2>11, <2>8, <2>7, <2>3, <2>4, <2>1
<1> QED BY <1>1, Invariant, PTL

\* What _storeFile keeps is a version the file had, however the user's writes and the
\* client's reading interleave.
THEOREM NoMixture == Spec => []CopyIsAVersion
<1>1. IInv => CopyIsAVersion
  BY DEF IInv, Announcements, CopyIsAVersion
<1> QED BY <1>1, Invariant, PTL

\* The temporary file of _storeFile goes with the transfer, by each of its ends.
THEOREM TempGoes == Spec => []NoTempLeft
<1>1. IInv => NoTempLeft
  BY DEF IInv
<1> QED BY <1>1, Invariant, PTL
=============================================================================
