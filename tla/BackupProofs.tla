----------------------------- MODULE BackupProofs -----------------------------
(***************************************************************************)
(* What the client counts as saved is in the backup, and when everything   *)
(* is answered the backup, the server's table and the client's database    *)
(* are what the folder is, through lost connections, crashes and kills.    *)
(*                                                                         *)
(* The events of the window, of receive and of the queue are one line, of  *)
(* which the first have their reply already.  Saved says what the last     *)
(* event of a path, and the reply to it, tell of the disk; WindowTells     *)
(* what the window tells of what the server has; LineTells what the line   *)
(* tells of the client's database; Dated and DirsDated which last write    *)
(* time is due for a path.                                                 *)
(***************************************************************************)
EXTENDS ProtocolProofs

-----------------------------------------------------------------------------
(* What the client counts as saved is saved.  The events of the window, the *)
(* one between pop and push and those of the queue, in a line.              *)
Line(w, c, q) ==
    [i \in 1 .. Len(w) + Len(c) + Len(q) |->
        IF i <= Len(w) THEN w[i]
        ELSE IF i <= Len(w) + Len(c) THEN c[i - Len(w)] ELSE q[i - Len(w) - Len(c)]]
Coming == Line(window, cur, queue)

\* M continues L: each event of M is fresh or was in L, and then what came after it
\* still does, unless its path is one of the lost.
Follows(L, M, fresh, lost) ==
    \A i \in DOMAIN M :
        \/ M[i] \in fresh
        \/ \E k \in DOMAIN L :
              /\ L[k] = M[i]
              /\ \A j \in DOMAIN L : j > k => \/ L[j].path \in lost
                                              \/ \E n \in DOMAIN M : n > i /\ M[n] = L[j]

LEMMA LineIs ==
  ASSUME NEW w \in Seq(Events), NEW c \in Seq(Events), NEW q \in Seq(Events)
  PROVE  /\ Len(w) \in Nat /\ Len(c) \in Nat /\ Len(q) \in Nat
         /\ DOMAIN Line(w, c, q) = 1 .. Len(w) + Len(c) + Len(q)
         /\ \A i \in DOMAIN Line(w, c, q) : Line(w, c, q)[i] \in Events
         /\ \A i \in 1 .. Len(w) : Line(w, c, q)[i] = w[i]
<1>1. /\ Len(w) \in Nat /\ Len(c) \in Nat /\ Len(q) \in Nat
      /\ DOMAIN Line(w, c, q) = 1 .. Len(w) + Len(c) + Len(q)
  BY DEF Line
<1>2. ASSUME NEW i \in 1 .. Len(w) + Len(c) + Len(q) PROVE Line(w, c, q)[i] \in Events
  <2>1. CASE i <= Len(w)
    BY <1>1, <2>1, ElementOfSeq DEF Line
  <2>2. CASE i > Len(w) /\ i <= Len(w) + Len(c)
    <3>1. i - Len(w) \in 1 .. Len(c)
      BY <1>1, <2>2
    <3> QED BY <1>1, <2>2, <3>1, ElementOfSeq DEF Line
  <2>3. CASE i > Len(w) + Len(c)
    <3>1. i - Len(w) - Len(c) \in 1 .. Len(q)
      BY <1>1, <2>3
    <3>2. Line(w, c, q)[i] = q[i - Len(w) - Len(c)]
      BY <1>1, <2>3 DEF Line
    <3> QED BY <3>1, <3>2, ElementOfSeq
  <2> QED BY <1>1, <2>1, <2>2, <2>3
<1>3. \A i \in 1 .. Len(w) : Line(w, c, q)[i] = w[i]
  BY <1>1 DEF Line
<1> QED BY <1>1, <1>2, <1>3

LEMMA LineAppend ==
  ASSUME NEW w \in Seq(Events), NEW c \in Seq(Events), NEW q \in Seq(Events), NEW e \in Events
  PROVE  LET L == Line(w, c, q)
             M == Line(w, c, Append(q, e))
             n == Len(w) + Len(c) + Len(q)
         IN  DOMAIN M = 1 .. n + 1 /\ M[n + 1] = e /\ \A i \in 1 .. n : M[i] = L[i]
<1>1. Len(w) \in Nat /\ Len(c) \in Nat /\ Len(q) \in Nat /\ Len(Append(q, e)) = Len(q) + 1
  OBVIOUS
<1>2. Append(q, e)[Len(q) + 1] = e /\ \A i \in 1 .. Len(q) : Append(q, e)[i] = q[i]
  OBVIOUS
<1> DEFINE q2 == Append(q, e)
           n == Len(w) + Len(c) + Len(q)
<1> HIDE DEF q2
<1>3. DOMAIN Line(w, c, q2) = 1 .. n + 1
  BY <1>1 DEF Line, q2
<1>4. Line(w, c, q2)[n + 1] = e
  <2>1. n + 1 - Len(w) - Len(c) = Len(q) + 1 /\ n + 1 \in 1 .. Len(w) + Len(c) + Len(q2)
    BY <1>1 DEF q2
  <2>2. Line(w, c, q2)[n + 1] = q2[n + 1 - Len(w) - Len(c)]
    BY <1>1, <2>1 DEF Line
  <2> QED BY <1>2, <2>1, <2>2 DEF q2
<1>5. ASSUME NEW i \in 1 .. n PROVE Line(w, c, q2)[i] = Line(w, c, q)[i]
  <2>1. i \in 1 .. Len(w) + Len(c) + Len(q2)
    BY <1>1 DEF q2
  <2>2. CASE i <= Len(w) + Len(c)
    BY <1>1, <2>1, <2>2 DEF Line
  <2>3. CASE i > Len(w) + Len(c)
    <3>1. i - Len(w) - Len(c) \in 1 .. Len(q)
      BY <1>1, <2>3
    <3>2. Line(w, c, q2)[i] = q2[i - Len(w) - Len(c)] /\ Line(w, c, q)[i] = q[i - Len(w) - Len(c)]
      BY <1>1, <2>1, <2>3 DEF Line
    <3> QED BY <1>2, <3>1, <3>2 DEF q2
  <2> QED BY <1>1, <2>2, <2>3
<1> QED BY <1>3, <1>4, <1>5 DEF q2

\* An event goes from the queue to the window, or from receive to the window.
LEMMA LineSend ==
  ASSUME NEW w \in Seq(Events), NEW q \in Seq(Events), q # <<>>
  PROVE  Line(Append(w, Head(q)), <<>>, Tail(q)) = Line(w, <<>>, q)
<1>1. /\ Len(w) \in Nat /\ Len(q) \in Nat /\ Len(q) >= 1 /\ Len(Tail(q)) = Len(q) - 1
      /\ Len(Append(w, Head(q))) = Len(w) + 1 /\ Append(w, Head(q))[Len(w) + 1] = Head(q)
      /\ \A i \in 1 .. Len(w) : Append(w, Head(q))[i] = w[i]
      /\ \A i \in 1 .. Len(q) - 1 : Tail(q)[i] = q[i + 1]
      /\ Head(q) = q[1]
  OBVIOUS
<1> DEFINE w2 == Append(w, Head(q))
           q2 == Tail(q)
           n == Len(w) + Len(q)
<1>2. Len(w2) + Len(<<>>) + Len(q2) = n /\ Len(w) + Len(<<>>) + Len(q) = n /\ Len(<<>>) = 0
  BY <1>1
<1> HIDE DEF w2, q2
<1>3. ASSUME NEW i \in 1 .. n PROVE Line(w2, <<>>, q2)[i] = Line(w, <<>>, q)[i]
  <2>1. Line(w2, <<>>, q2)[i] = IF i <= Len(w) + 1 THEN w2[i] ELSE q2[i - (Len(w) + 1)]
    BY <1>1, <1>2 DEF Line, w2
  <2>2. Line(w, <<>>, q)[i] = IF i <= Len(w) THEN w[i] ELSE q[i - Len(w)]
    BY <1>1, <1>2 DEF Line
  <2>3. CASE i <= Len(w)
    BY <1>1, <2>1, <2>2, <2>3 DEF w2
  <2>4. CASE i = Len(w) + 1
    BY <1>1, <2>1, <2>2, <2>4 DEF w2
  <2>5. CASE i > Len(w) + 1
    <3>1. i - (Len(w) + 1) \in 1 .. Len(q) - 1 /\ i - (Len(w) + 1) + 1 = i - Len(w)
      BY <1>1, <2>5
    <3>2. q2[i - (Len(w) + 1)] = q[i - Len(w)]
      BY <1>1, <3>1 DEF q2
    <3> QED BY <1>1, <2>1, <2>2, <2>5, <3>2
  <2> QED BY <1>1, <2>3, <2>4, <2>5
<1>4. Line(w2, <<>>, q2) = [i \in 1 .. n |-> Line(w2, <<>>, q2)[i]]
  BY <1>2 DEF Line
<1>5. Line(w, <<>>, q) = [i \in 1 .. n |-> Line(w, <<>>, q)[i]]
  BY <1>2 DEF Line
<1>6. Line(w2, <<>>, q2) = Line(w, <<>>, q)
  BY <1>3, <1>4, <1>5
<1> QED BY <1>6 DEF w2, q2

LEMMA LineStore ==
  ASSUME NEW w \in Seq(Events), NEW c \in Seq(Events), NEW q \in Seq(Events), Len(c) = 1
  PROVE  Line(Append(w, c[1]), <<>>, q) = Line(w, c, q)
<1>1. /\ Len(w) \in Nat /\ Len(q) \in Nat
      /\ Len(Append(w, c[1])) = Len(w) + 1 /\ Append(w, c[1])[Len(w) + 1] = c[1]
      /\ \A i \in 1 .. Len(w) : Append(w, c[1])[i] = w[i]
  BY ElementOfSeq
<1> DEFINE w2 == Append(w, c[1])
           n == Len(w) + 1 + Len(q)
<1>2. Len(w2) + Len(<<>>) + Len(q) = n /\ Len(w) + Len(c) + Len(q) = n /\ Len(<<>>) = 0
  BY <1>1
<1> HIDE DEF w2
<1>3. ASSUME NEW i \in 1 .. n PROVE Line(w2, <<>>, q)[i] = Line(w, c, q)[i]
  <2>1. Line(w2, <<>>, q)[i] = IF i <= Len(w) + 1 THEN w2[i] ELSE q[i - (Len(w) + 1)]
    BY <1>1, <1>2 DEF Line, w2
  <2>2. Line(w, c, q)[i] = IF i <= Len(w) THEN w[i]
                           ELSE IF i <= Len(w) + 1 THEN c[i - Len(w)] ELSE q[i - Len(w) - 1]
    BY <1>1, <1>2 DEF Line
  <2>3. CASE i <= Len(w)
    BY <1>1, <2>1, <2>2, <2>3 DEF w2
  <2>4. CASE i = Len(w) + 1
    <3>1. i - Len(w) = 1
      BY <1>1, <2>4
    <3> QED BY <1>1, <2>1, <2>2, <2>4, <3>1 DEF w2
  <2>5. CASE i > Len(w) + 1
    <3>1. i - (Len(w) + 1) = i - Len(w) - 1
      BY <1>1, <2>5
    <3> QED BY <1>1, <2>1, <2>2, <2>5, <3>1
  <2> QED BY <1>1, <2>3, <2>4, <2>5
<1>4. Line(w2, <<>>, q) = [i \in 1 .. n |-> Line(w2, <<>>, q)[i]]
  BY <1>2 DEF Line
<1>5. Line(w, c, q) = [i \in 1 .. n |-> Line(w, c, q)[i]]
  BY <1>2 DEF Line
<1>6. Line(w2, <<>>, q) = Line(w, c, q)
  BY <1>3, <1>4, <1>5
<1> QED BY <1>6 DEF w2

\* The oldest event goes; in the second case another comes behind the window.
LEMMA LineTail ==
  ASSUME NEW w \in Seq(Events), NEW c \in Seq(Events), NEW q \in Seq(Events), w # <<>>
  PROVE  LET L == Line(w, c, q)
             M == Line(Tail(w), c, q)
             n == Len(w) + Len(c) + Len(q)
         IN  n >= 1 /\ DOMAIN M = 1 .. n - 1 /\ \A i \in 1 .. n - 1 : M[i] = L[i + 1]
<1>1. /\ Len(w) \in Nat /\ Len(c) \in Nat /\ Len(q) \in Nat /\ Len(w) >= 1
      /\ Len(Tail(w)) = Len(w) - 1 /\ \A i \in 1 .. Len(w) - 1 : Tail(w)[i] = w[i + 1]
  OBVIOUS
<1> DEFINE t == Tail(w)
           n == Len(w) + Len(c) + Len(q)
<1>2. Len(t) + Len(c) + Len(q) = n - 1
  BY <1>1
<1> HIDE DEF t
<1>3. DOMAIN Line(t, c, q) = 1 .. n - 1
  BY <1>2 DEF Line
<1>4. ASSUME NEW i \in 1 .. n - 1 PROVE Line(t, c, q)[i] = Line(w, c, q)[i + 1]
  <2>1. Line(t, c, q)[i] = IF i <= Len(w) - 1 THEN t[i]
                           ELSE IF i <= Len(w) - 1 + Len(c) THEN c[i - (Len(w) - 1)]
                           ELSE q[i - (Len(w) - 1) - Len(c)]
    BY <1>1, <1>2 DEF Line, t
  <2>2. Line(w, c, q)[i + 1] = IF i + 1 <= Len(w) THEN w[i + 1]
                               ELSE IF i + 1 <= Len(w) + Len(c) THEN c[i + 1 - Len(w)]
                               ELSE q[i + 1 - Len(w) - Len(c)]
    BY <1>1 DEF Line
  <2>3. i + 1 - Len(w) = i - (Len(w) - 1)
    BY <1>1
  <2>4. CASE i <= Len(w) - 1
    BY <1>1, <2>1, <2>2, <2>4 DEF t
  <2>5. CASE i > Len(w) - 1
    BY <1>1, <2>1, <2>2, <2>3, <2>5
  <2> QED BY <1>1, <2>4, <2>5
<1> QED BY <1>1, <1>3, <1>4 DEF t

LEMMA LineInsert ==
  ASSUME NEW w \in Seq(Events), NEW q \in Seq(Events), NEW e \in Events, w # <<>>
  PROVE  LET L == Line(w, <<>>, q)
             M == Line(Tail(w), <<e>>, q)
             n == Len(w) + Len(q)
         IN  /\ DOMAIN L = 1 .. n /\ DOMAIN M = 1 .. n /\ Len(w) \in 1 .. n
             /\ \A i \in 1 .. Len(w) - 1 : M[i] = L[i + 1]
             /\ M[Len(w)] = e
             /\ \A i \in Len(w) + 1 .. n : M[i] = L[i]
<1>1. /\ Len(w) \in Nat /\ Len(q) \in Nat /\ Len(w) >= 1
      /\ Len(Tail(w)) = Len(w) - 1 /\ \A i \in 1 .. Len(w) - 1 : Tail(w)[i] = w[i + 1]
      /\ Len(<<e>>) = 1 /\ <<e>>[1] = e /\ Len(<<>>) = 0
  OBVIOUS
<1> DEFINE t == Tail(w)
           u == <<e>>
           n == Len(w) + Len(q)
<1>2. Len(t) + Len(u) + Len(q) = n /\ Len(w) + Len(<<>>) + Len(q) = n
  BY <1>1
<1>3. u[1] = e /\ Len(t) = Len(w) - 1 /\ Len(u) = 1
  BY <1>1
<1> HIDE DEF t, u
<1>4. ASSUME NEW i \in 1 .. n
      PROVE  /\ Line(t, u, q)[i] = IF i <= Len(w) - 1 THEN t[i]
                                   ELSE IF i <= Len(w) THEN u[i - (Len(w) - 1)]
                                   ELSE q[i - (Len(w) - 1) - 1]
             /\ Line(w, <<>>, q)[i] = IF i <= Len(w) THEN w[i] ELSE q[i - Len(w)]
  <2>1. Len(t) + Len(u) = Len(w)
    BY <1>1, <1>3
  <2>2. Line(t, u, q)[i] = IF i <= Len(t) THEN t[i]
                           ELSE IF i <= Len(t) + Len(u) THEN u[i - Len(t)]
                           ELSE q[i - Len(t) - Len(u)]
    BY <1>2 DEF Line
  <2>3. Line(w, <<>>, q)[i] = IF i <= Len(w) THEN w[i] ELSE q[i - Len(w)]
    BY <1>1, <1>2 DEF Line
  <2> QED BY <1>3, <2>1, <2>2, <2>3
<1>5. DOMAIN Line(w, <<>>, q) = 1 .. n /\ DOMAIN Line(t, u, q) = 1 .. n /\ Len(w) \in 1 .. n
  BY <1>1, <1>2 DEF Line
<1>6. \A i \in 1 .. Len(w) - 1 : Line(t, u, q)[i] = Line(w, <<>>, q)[i + 1]
  <2> SUFFICES ASSUME NEW i \in 1 .. Len(w) - 1 PROVE Line(t, u, q)[i] = Line(w, <<>>, q)[i + 1]
    OBVIOUS
  <2>1. i \in 1 .. n /\ i + 1 \in 1 .. n /\ i + 1 <= Len(w)
    BY <1>1
  <2> QED BY <1>1, <1>4, <2>1 DEF t
<1>7. Line(t, u, q)[Len(w)] = e
  <2>1. Len(w) - (Len(w) - 1) = 1 /\ ~(Len(w) <= Len(w) - 1)
    BY <1>1
  <2> QED BY <1>3, <1>4, <1>5, <2>1
<1>8. \A i \in Len(w) + 1 .. n : Line(t, u, q)[i] = Line(w, <<>>, q)[i]
  <2> SUFFICES ASSUME NEW i \in Len(w) + 1 .. n PROVE Line(t, u, q)[i] = Line(w, <<>>, q)[i]
    OBVIOUS
  <2>1. i \in 1 .. n /\ ~(i <= Len(w)) /\ ~(i <= Len(w) - 1) /\ i - (Len(w) - 1) - 1 = i - Len(w)
    BY <1>1
  <2> QED BY <1>4, <2>1
<1> QED BY <1>5, <1>6, <1>7, <1>8 DEF t, u

\* The event between pop and push is forgotten.
LEMMA LineDrop ==
  ASSUME NEW w \in Seq(Events), NEW c \in Seq(Events), NEW q \in Seq(Events), Len(c) = 1
  PROVE  LET L == Line(w, c, q)
             M == Line(w, <<>>, q)
             n == Len(w) + Len(q)
         IN  /\ DOMAIN L = 1 .. n + 1 /\ DOMAIN M = 1 .. n /\ n \in Nat /\ Len(w) \in 0 .. n
             /\ \A i \in 1 .. Len(w) : M[i] = L[i]
             /\ L[Len(w) + 1] = c[1]
             /\ \A i \in Len(w) + 1 .. n : M[i] = L[i + 1]
<1>1. Len(w) \in Nat /\ Len(q) \in Nat /\ Len(<<>>) = 0
  OBVIOUS
<1> DEFINE n == Len(w) + Len(q)
<1>2. DOMAIN Line(w, c, q) = 1 .. n + 1 /\ DOMAIN Line(w, <<>>, q) = 1 .. n
  BY <1>1 DEF Line
<1>3. \A i \in 1 .. n : Line(w, <<>>, q)[i] = IF i <= Len(w) THEN w[i] ELSE q[i - Len(w)]
  BY <1>1 DEF Line
<1>4. \A i \in 1 .. n + 1 : Line(w, c, q)[i] = IF i <= Len(w) THEN w[i]
                                              ELSE IF i <= Len(w) + 1 THEN c[i - Len(w)]
                                              ELSE q[i - Len(w) - 1]
  BY <1>1 DEF Line
<1>5. \A i \in 1 .. Len(w) : Line(w, <<>>, q)[i] = Line(w, c, q)[i]
  BY <1>1, <1>3, <1>4
<1>6. Line(w, c, q)[Len(w) + 1] = c[1]
  <2>1. Len(w) + 1 - Len(w) = 1 /\ Len(w) + 1 \in 1 .. n + 1
    BY <1>1
  <2> QED BY <1>1, <1>4, <2>1
<1>7. ASSUME NEW i \in Len(w) + 1 .. n PROVE Line(w, <<>>, q)[i] = Line(w, c, q)[i + 1]
  <2>1. i \in 1 .. n /\ i + 1 \in 1 .. n + 1 /\ i + 1 - Len(w) - 1 = i - Len(w) /\ i > Len(w)
    BY <1>1
  <2> QED BY <1>1, <1>3, <1>4, <2>1
<1> QED BY <1>1, <1>2, <1>5, <1>6, <1>7

\* What has no reply after r replies has none after r2 in M, or is lost.
Waits(L, r, M, r2, lost) ==
    \A i \in DOMAIN L : i > r => \/ L[i].path \in lost
                                 \/ \E k \in DOMAIN M : k > r2 /\ M[k] = L[i]

LEMMA SameLine ==
  ASSUME NEW L, NEW r \in Nat, NEW r2 \in Nat, r2 <= r, NEW n \in Nat, DOMAIN L = 1 .. n
  PROVE  Follows(L, L, {}, {}) /\ Waits(L, r, L, r2, {})
  BY DEF Follows, Waits

LEMMA LineGrows ==
  ASSUME NEW L, NEW M, NEW n \in Nat, NEW e, NEW r \in Nat, NEW r2 \in Nat, r2 <= r,
         DOMAIN L = 1 .. n, DOMAIN M = 1 .. n + 1, M[n + 1] = e, \A i \in 1 .. n : M[i] = L[i]
  PROVE  Follows(L, M, {e}, {}) /\ Waits(L, r, M, r2, {})
<1>1. \A i \in DOMAIN L : i \in DOMAIN M /\ M[i] = L[i]
  OBVIOUS
<1>2. \A i \in DOMAIN M : i \in DOMAIN L \/ M[i] = e
  OBVIOUS
<1>3. Follows(L, M, {e}, {})
  BY <1>1, <1>2 DEF Follows
<1>4. Waits(L, r, M, r2, {})
  BY <1>1 DEF Waits
<1> QED BY <1>3, <1>4

LEMMA LineShrinks ==
  ASSUME NEW L, NEW M, NEW n \in Nat, NEW r \in Nat, r >= 1,
         DOMAIN L = 1 .. n, DOMAIN M = 1 .. n - 1, \A i \in 1 .. n - 1 : M[i] = L[i + 1]
  PROVE  Follows(L, M, {}, {}) /\ Waits(L, r, M, r - 1, {})
<1>1. ASSUME NEW j \in DOMAIN L, j > 1 PROVE j - 1 \in DOMAIN M /\ M[j - 1] = L[j]
  <2>1. j - 1 \in 1 .. n - 1 /\ j - 1 + 1 = j
    BY <1>1
  <2> QED BY <2>1
<1>2. Follows(L, M, {}, {})
  <2> SUFFICES ASSUME NEW i \in DOMAIN M
               PROVE  \E k \in DOMAIN L :
                         /\ L[k] = M[i]
                         /\ \A j \in DOMAIN L : j > k => \E m \in DOMAIN M : m > i /\ M[m] = L[j]
    BY DEF Follows
  <2>1. i + 1 \in DOMAIN L /\ L[i + 1] = M[i]
    OBVIOUS
  <2>2. ASSUME NEW j \in DOMAIN L, j > i + 1 PROVE j - 1 \in DOMAIN M /\ j - 1 > i /\ M[j - 1] = L[j]
    BY <1>1, <2>2
  <2> QED BY <2>1, <2>2
<1>3. Waits(L, r, M, r - 1, {})
  <2> SUFFICES ASSUME NEW i \in DOMAIN L, i > r PROVE \E k \in DOMAIN M : k > r - 1 /\ M[k] = L[i]
    BY DEF Waits
  <2>1. i - 1 > r - 1 /\ i > 1
    OBVIOUS
  <2> QED BY <1>1, <2>1
<1> QED BY <1>2, <1>3

LEMMA LineTurns ==
  ASSUME NEW L, NEW M, NEW n \in Nat, NEW k \in 1 .. n, NEW e, NEW r \in Nat, r >= 1,
         DOMAIN L = 1 .. n, DOMAIN M = 1 .. n, \A i \in 1 .. k - 1 : M[i] = L[i + 1],
         M[k] = e, \A i \in k + 1 .. n : M[i] = L[i]
  PROVE  Follows(L, M, {e}, {}) /\ Waits(L, r, M, r - 1, {})
<1>1. ASSUME NEW j \in DOMAIN L, j > 1, j <= k PROVE j - 1 \in DOMAIN M /\ M[j - 1] = L[j]
  <2>1. j - 1 \in 1 .. k - 1 /\ j - 1 + 1 = j
    BY <1>1
  <2> QED BY <2>1
<1>2. ASSUME NEW j \in DOMAIN L, j > k PROVE j \in DOMAIN M /\ M[j] = L[j]
  BY <1>2
<1>3. Follows(L, M, {e}, {})
  <2> SUFFICES ASSUME NEW i \in DOMAIN M, M[i] # e
               PROVE  \E x \in DOMAIN L :
                         /\ L[x] = M[i]
                         /\ \A j \in DOMAIN L : j > x => \E m \in DOMAIN M : m > i /\ M[m] = L[j]
    BY DEF Follows
  <2>1. CASE i < k
    <3>1. i + 1 \in DOMAIN L /\ L[i + 1] = M[i]
      BY <2>1
    <3>2. ASSUME NEW j \in DOMAIN L, j > i + 1 PROVE \E m \in DOMAIN M : m > i /\ M[m] = L[j]
      <4>1. CASE j <= k
        <5>1. j - 1 > i /\ j > 1
          BY <2>1, <3>2
        <5> QED BY <1>1, <4>1, <5>1
      <4>2. CASE j > k
        <5>1. j > i
          BY <2>1, <4>2
        <5> QED BY <1>2, <4>2, <5>1
      <4> QED BY <4>1, <4>2
    <3> QED BY <3>1, <3>2
  <2>2. CASE i > k
    <3>1. i \in DOMAIN L /\ L[i] = M[i]
      BY <2>2
    <3>2. ASSUME NEW j \in DOMAIN L, j > i PROVE j \in DOMAIN M /\ j > i /\ M[j] = L[j]
      BY <1>2, <2>2, <3>2
    <3> QED BY <3>1, <3>2
  <2> QED BY <2>1, <2>2
<1>4. Waits(L, r, M, r - 1, {})
  <2> SUFFICES ASSUME NEW i \in DOMAIN L, i > r PROVE \E x \in DOMAIN M : x > r - 1 /\ M[x] = L[i]
    BY DEF Waits
  <2>1. i - 1 > r - 1 /\ i > 1 /\ i > r - 1
    OBVIOUS
  <2>2. CASE i <= k
    BY <1>1, <2>1, <2>2
  <2>3. CASE i > k
    BY <1>2, <2>1, <2>3
  <2> QED BY <2>2, <2>3
<1> QED BY <1>3, <1>4

LEMMA LineLoses ==
  ASSUME NEW L, NEW M, NEW n \in Nat, NEW k \in 0 .. n, NEW lost, NEW r \in Nat,
         DOMAIN L = 1 .. n + 1, DOMAIN M = 1 .. n, \A i \in 1 .. k : M[i] = L[i],
         L[k + 1].path \in lost, \A i \in k + 1 .. n : M[i] = L[i + 1]
  PROVE  Follows(L, M, {}, lost) /\ Waits(L, r, M, 0, lost)
<1>1. ASSUME NEW j \in DOMAIN L, j > k + 1 PROVE j - 1 \in DOMAIN M /\ M[j - 1] = L[j]
  <2>1. j - 1 \in k + 1 .. n /\ j - 1 + 1 = j
    BY <1>1
  <2> QED BY <2>1
<1>2. ASSUME NEW j \in DOMAIN L, j <= k PROVE j \in DOMAIN M /\ M[j] = L[j]
  BY <1>2
<1>3. \A j \in DOMAIN L : j <= k \/ j > k + 1 \/ L[j].path \in lost
  <2> SUFFICES ASSUME NEW j \in DOMAIN L, ~(j <= k), ~(j > k + 1) PROVE L[j].path \in lost
    OBVIOUS
  <2>1. j = k + 1
    OBVIOUS
  <2> QED BY <2>1
<1>4. Follows(L, M, {}, lost)
  <2> SUFFICES ASSUME NEW i \in DOMAIN M
               PROVE  \E x \in DOMAIN L :
                         /\ L[x] = M[i]
                         /\ \A j \in DOMAIN L : j > x => \/ L[j].path \in lost
                                                         \/ \E m \in DOMAIN M : m > i /\ M[m] = L[j]
    BY DEF Follows
  <2>1. CASE i <= k
    <3>1. i \in DOMAIN L /\ L[i] = M[i]
      BY <2>1
    <3>2. ASSUME NEW j \in DOMAIN L, j > i
          PROVE  L[j].path \in lost \/ \E m \in DOMAIN M : m > i /\ M[m] = L[j]
      <4>1. CASE j <= k
        BY <1>2, <3>2, <4>1
      <4>2. CASE j > k + 1
        <5>1. j - 1 > i
          BY <2>1, <4>2
        <5> QED BY <1>1, <4>2, <5>1
      <4> QED BY <1>3, <4>1, <4>2
    <3> QED BY <3>1, <3>2
  <2>2. CASE i > k
    <3>1. i + 1 \in DOMAIN L /\ L[i + 1] = M[i]
      BY <2>2
    <3>2. ASSUME NEW j \in DOMAIN L, j > i + 1 PROVE j - 1 \in DOMAIN M /\ j - 1 > i /\ M[j - 1] = L[j]
      <4>1. j > k + 1 /\ j - 1 > i
        BY <2>2, <3>2
      <4> QED BY <1>1, <4>1
    <3> QED BY <3>1, <3>2
  <2> QED BY <2>1, <2>2
<1>5. Waits(L, r, M, 0, lost)
  <2> SUFFICES ASSUME NEW i \in DOMAIN L, i > r, L[i].path \notin lost
               PROVE  \E x \in DOMAIN M : x > 0 /\ M[x] = L[i]
    BY DEF Waits
  <2>1. CASE i <= k
    BY <1>2, <2>1
  <2>2. CASE i > k + 1
    BY <1>1, <2>2
  <2> QED BY <1>3, <2>1, <2>2
<1> QED BY <1>4, <1>5

\* The watcher is behind, or the path was given up.
Out(p) == p \in excused \cup flipped \/ folder[p] # known[p]
Away(p) == Out(p) \/ ~Exists(known, p)
\* The event says what the watcher knows.
Told(ev) == \/ Out(ev.path)
            \/ ev.type = "deleted" /\ ~Exists(known, ev.path)
            \/ /\ ev.type # "deleted" /\ Exists(known, ev.path)
               /\ known[ev.path].hash = ev.entry.hash
IsLast(L, i) == \A j \in DOMAIN L : j > i => L[j].path # L[i].path
EventsTold == \A ev \in Events :
                 (\E i \in DOMAIN Coming : Coming[i] = ev /\ IsLast(Coming, i)) => Told(ev)
\* What was below a removed directory is away, or is still reported.
ComesLater(L, i, p) == \E j \in DOMAIN L : j > i /\ L[j].path = p
RemovedAway == \A i \in DOMAIN Coming : OpOf(Coming[i]) = "RMD" =>
                  \A p \in Below(Coming[i].path) : Away(p) \/ ComesLater(Coming, i, p)

Stays(p) == known'[p] = known[p] /\ (Out(p) => Out(p)')
Reported(p, fresh) == \E n \in DOMAIN Coming' : /\ Coming'[n].path = p /\ Coming'[n] \in fresh
                                                /\ \A i \in DOMAIN Coming' : i <= n
Continues(fresh, lost) ==
    /\ Follows(Coming, Coming', fresh, lost)
    /\ lost \subseteq excused'
    /\ \A ev \in fresh : Told(ev)' /\ (OpOf(ev) = "RMD" => \A p \in Below(ev.path) : Away(p)')
    /\ \A p \in Path : Stays(p) \/ Reported(p, fresh)

LineTypes(L) == /\ \E n \in Nat : DOMAIN L = 1 .. n
                /\ \A i \in DOMAIN L : L[i] \in Events

LEMMA ComingTypes ==
  ASSUME ClientOK
  PROVE  LineTypes(Coming)
BY ClientFacts, LineIs, SMTT(20) DEF LineTypes, Coming

LEMMA ToldStays ==
  ASSUME NEW ev \in Events, Told(ev), Stays(ev.path)
  PROVE  Told(ev)'
BY DEF Told, Stays, Exists

LEMMA ToldKept ==
  ASSUME LineTypes(Coming), LineTypes(Coming'), EventsTold, NEW fresh, NEW lost, Continues(fresh, lost)
  PROVE  EventsTold'
<1> SUFFICES ASSUME NEW ev \in Events, NEW i \in DOMAIN Coming', Coming'[i] = ev, IsLast(Coming', i)
             PROVE  Told(ev)'
  BY DEF EventsTold
<1>1. ev = Coming'[i]
  OBVIOUS
<1>2. ev \in Events /\ ev.path \in Path /\ i \in Nat
  BY <1>1 DEF LineTypes, Events
<1>3. Told(ev)'
  <2>1. CASE ev \in fresh
    BY <2>1 DEF Continues
  <2>2. CASE ev \notin fresh
    <3>1. PICK k \in DOMAIN Coming :
             /\ Coming[k] = ev
             /\ \A j \in DOMAIN Coming : j > k =>
                   \/ Coming[j].path \in lost
                   \/ \E n \in DOMAIN Coming' : n > i /\ Coming'[n] = Coming[j]
      BY <1>1, <2>2 DEF Continues, Follows
    <3>2. CASE ev.path \in lost
      <4>1. ev.path \in excused'
        BY <3>2 DEF Continues
      <4> QED BY <4>1 DEF Told, Out
    <3>3. CASE ev.path \notin lost
      <4>1. IsLast(Coming, k)
        BY <1>1, <3>1, <3>3 DEF IsLast
      <4>2. Told(ev)
        BY <3>1, <4>1 DEF EventsTold
      <4>3. CASE Stays(ev.path)
        BY <1>2, <4>2, <4>3, ToldStays
      <4>4. CASE Reported(ev.path, fresh)
        <5>1. PICK n \in DOMAIN Coming' : /\ Coming'[n].path = ev.path /\ Coming'[n] \in fresh
                                          /\ \A x \in DOMAIN Coming' : x <= n
          BY <4>4 DEF Reported
        <5>2. n = i
          BY <1>1, <1>2, <5>1 DEF IsLast, LineTypes
        <5> QED BY <1>1, <2>2, <5>1, <5>2
      <4> QED BY <1>2, <4>3, <4>4 DEF Continues
    <3> QED BY <3>2, <3>3
  <2> QED BY <2>1, <2>2
<1> QED BY <1>3

LEMMA AwayKept ==
  ASSUME LineTypes(Coming), LineTypes(Coming'), RemovedAway, NEW fresh, NEW lost, Continues(fresh, lost)
  PROVE  RemovedAway'
<1> SUFFICES ASSUME NEW i \in DOMAIN Coming', OpOf(Coming'[i]) = "RMD", NEW p \in Below(Coming'[i].path)
             PROVE  Away(p)' \/ ComesLater(Coming', i, p)
  BY DEF RemovedAway
<1>1. PICK ev : ev = Coming'[i]
  OBVIOUS
<1>2. ev \in Events /\ i \in Nat /\ p \in Path
  BY <1>1 DEF LineTypes, Below
<1>3. CASE ev \in fresh
  BY <1>1, <1>3 DEF Continues
<1>4. CASE ev \notin fresh
  <2>1. PICK k \in DOMAIN Coming :
           /\ Coming[k] = ev
           /\ \A j \in DOMAIN Coming : j > k =>
                 \/ Coming[j].path \in lost
                 \/ \E n \in DOMAIN Coming' : n > i /\ Coming'[n] = Coming[j]
    BY <1>1, <1>4 DEF Continues, Follows
  <2>2. Away(p) \/ ComesLater(Coming, k, p)
    BY <1>1, <2>1 DEF RemovedAway
  <2>3. CASE ComesLater(Coming, k, p)
    <3>1. PICK j \in DOMAIN Coming : j > k /\ Coming[j].path = p
      BY <2>3 DEF ComesLater
    <3>2. CASE p \in lost
      <4>1. p \in excused'
        BY <3>2 DEF Continues
      <4> QED BY <4>1 DEF Away, Out
    <3> QED BY <2>1, <3>1, <3>2 DEF ComesLater
  <2>4. CASE Away(p) /\ Stays(p)
    BY <2>4 DEF Away, Stays, Exists
  <2>5. CASE Reported(p, fresh)
    <3>1. PICK n \in DOMAIN Coming' : /\ Coming'[n].path = p /\ Coming'[n] \in fresh
                                      /\ \A x \in DOMAIN Coming' : x <= n
      BY <2>5 DEF Reported
    <3>2. n # i
      BY <1>1, <1>4, <3>1
    <3>3. n > i
      BY <1>2, <3>1, <3>2 DEF LineTypes
    <3> QED BY <3>1, <3>3 DEF ComesLater
  <2> QED BY <1>2, <2>2, <2>3, <2>4, <2>5 DEF Continues
<1> QED BY <1>3, <1>4
-----------------------------------------------------------------------------
(* A path is exposed if the watcher reported all there is about it and the  *)
(* server replied to all of it; it is acknowledged if the last reply was Ok.*)
Replies == IF conn = NoConn THEN 0 ELSE Len(s2c[conn])
Unanswered(p) == \E i \in DOMAIN Coming : i > Replies /\ Coming[i].path = p
Exposed(p) == /\ pc # "down" /\ p \notin ToRecover /\ ~Out(p) /\ Exists(known, p)
              /\ ~Unanswered(p)
IsComing(p) == \E i \in DOMAIN Coming : Coming[i].path = p
Acknowledged(p) == \A i \in DOMAIN Coming : Coming[i].path = p /\ IsLast(Coming, i)
                                              => s2c[conn][i].kind \in OkCode
\* The table has a row for it, with the hash of what is on disk.
Fits(p) == rows[p] # <<>> /\ rows[p][1].hash = disk[p].hash
Backed == \A p \in Path : Exposed(p) /\ Acknowledged(p) /\ ~outOfStep
                              => SameContent(known, disk, p) /\ Fits(p)

\* A step exposes and acknowledges nothing.
Calm(p) == Exposed(p)' => Exposed(p) /\ known'[p] = known[p] /\ (Acknowledged(p)' => Acknowledged(p))

Undisturbed == /\ \E fresh, lost : Continues(fresh, lost)
               /\ \A p \in Path : Calm(p)
\* ... or starts or ends the client.
Quiet == DOMAIN Coming' = {} /\ \A p \in Path : ~Exposed(p)'

\* receive has an event between pop and push only before it sends the STOR, and the
\* program leaves nothing behind.
Resting == /\ cur # <<>> => pc = "store"
           /\ pc = "down" => scan.pass = "stopped" /\ queue = <<>> /\ window = <<>>

LEMMA ReplyCount ==
  ASSUME ClientOK
  PROVE  Replies \in Nat /\ Replies <= Len(window)
<1>1. CASE conn = NoConn
  BY <1>1, ClientFacts DEF Replies
<1>2. CASE conn # NoConn
  <2>1. pc \notin {"off", "down"}
    BY <1>2 DEF ClientOK, Control
  <2>2. Sent \in Nat /\ Sent <= Len(window)
    BY <2>1, SentIsInWindow
  <2>3. Len(s2c[conn]) \in Nat /\ Len(c2s[conn]) \in Nat
    BY <1>2, ClientFacts
  <2>4. Len(s2c[conn]) <= Sent
    <3>1. CASE link[conn] = "open"
      <4>1. Len(s2c[conn]) + Len(c2s[conn]) <= Sent
        BY <2>1, <3>1, OnConnection, Zenon
      <4>2. \A a, b, x \in Nat : a + b <= x => a <= x
        OBVIOUS
      <4> QED BY <2>2, <2>3, <4>1, <4>2, Zenon
    <3>2. CASE link[conn] # "open"
      BY <2>1, <3>2, OnConnection, Zenon
    <3> QED BY <3>1, <3>2
  <2> QED BY <1>2, <2>2, <2>3, <2>4, ClientFacts DEF Replies
<1> QED BY <1>1, <1>2

LEMMA SameComing ==
  ASSUME ClientOK, Coming' = Coming, UNCHANGED <<known, folder, flipped, excused, clientDb>>,
         pc = "down" => pc' = "down", \A p \in ToRecover \ ToRecover' : Out(p), Replies' \in Nat, Replies' <= Replies,
         \A i \in 1 .. Replies' : s2c'[conn'][i] = s2c[conn][i]
  PROVE  Undisturbed
<1>1. LineTypes(Coming) /\ Replies \in Nat
  BY ComingTypes, ReplyCount
<1>2. \A p \in Path : Stays(p)
  BY DEF Stays, Out
<1>3. Follows(Coming, Coming', {}, {})
  BY <1>1, SameLine DEF LineTypes
<1>4. Continues({}, {})
  BY <1>2, <1>3 DEF Continues
<1>5. ASSUME NEW p \in Path, Exposed(p)' PROVE Exposed(p) /\ (Acknowledged(p)' => Acknowledged(p))
  <2>1. pc # "down" /\ p \notin ToRecover /\ ~Out(p) /\ Exists(known, p)
    <3>1. ~Out(p) /\ Exists(known, p)
      BY <1>5 DEF Exposed, Out, Exists
    <3>2. pc' # "down" /\ p \notin ToRecover'
      BY <1>5 DEF Exposed
    <3> QED BY <3>1, <3>2
  <2>2. ~Unanswered(p)'
    BY <1>5 DEF Exposed
  <2>3. \A i \in DOMAIN Coming : Coming[i].path = p => i <= Replies'
    BY <1>1, <2>2 DEF Unanswered, LineTypes
  <2>4. ~Unanswered(p)
    BY <1>1, <2>3 DEF Unanswered, LineTypes
  <2>5. ASSUME NEW i \in DOMAIN Coming, Coming[i].path = p PROVE s2c'[conn'][i] = s2c[conn][i]
    BY <1>1, <2>3, <2>5 DEF LineTypes
  <2>6. Acknowledged(p)' => Acknowledged(p)
    BY <2>5 DEF Acknowledged, IsComing
  <2> QED BY <2>1, <2>4, <2>6 DEF Exposed
<1> QED BY <1>2, <1>4, <1>5 DEF Calm, Undisturbed, Stays

LEMMA UserCalm ==
  ASSUME ClientOK, Users
  PROVE  Undisturbed
<1>1. /\ UNCHANGED <<clientVars, netVars, serverVars, known, scan, queue>>
      /\ flipped' = flipped \cup {p \in Path : folder'[p] = known[p] /\ folder[p] # known[p]}
  <2>1. \E tree : Edit(tree)
    BY Zenon DEF Users, User, WriteFile, MakeDirectory, Remove
  <2>2. UNCHANGED <<clientVars, netVars, serverVars, known, scan, queue>>
    BY Zenon DEF Users, User, WriteFile, MakeDirectory, Remove
  <2>3. flipped' = flipped \cup {p \in Path : folder'[p] = known[p] /\ folder[p] # known[p]}
    BY <2>1 DEF Edit
  <2> QED BY <2>2, <2>3
<1>2. Coming' = Coming /\ Replies' = Replies /\ ToRecover' = ToRecover
  BY <1>1 DEF Coming, Replies, ToRecover, clientVars, netVars
<1>3. LineTypes(Coming) /\ Replies \in Nat
  BY ComingTypes, ReplyCount
<1>4. ASSUME NEW p \in Path PROVE Stays(p)
  BY <1>1 DEF Stays, Out, clientVars
<1>5. Follows(Coming, Coming', {}, {})
  BY <1>2, <1>3, SameLine DEF LineTypes
<1>6. Continues({}, {})
  BY <1>4, <1>5 DEF Continues
<1>7. ASSUME NEW p \in Path, Exposed(p)' PROVE Exposed(p) /\ (Acknowledged(p)' => Acknowledged(p))
  <2>1. ~Out(p)
    BY <1>4, <1>7 DEF Stays, Exposed
  <2>2. Exposed(p)
    BY <1>1, <1>2, <1>7, <2>1 DEF Exposed, Unanswered, Exists, clientVars
  <2> QED BY <1>1, <1>2, <2>2 DEF Acknowledged, IsComing, clientVars, netVars
<1> QED BY <1>1, <1>6, <1>7 DEF Calm, Undisturbed

\* The watcher reports e.
LEMMA ReportCalm ==
  ASSUME ClientOK, NEW e \in Events, queue' = Append(queue, e), UNCHANGED <<clientVars, netVars, folderVars>>,
         \A p \in Path \ {e.path} : known'[p] = known[p] /\ (p \in ToRecover => p \in ToRecover'),
         Told(e)', OpOf(e) = "RMD" => \A p \in Below(e.path) : Away(p)'
  PROVE  Undisturbed
<1> DEFINE n == Len(window) + Len(cur) + Len(queue)
<1>1. window \in Seq(Events) /\ cur \in Seq(Events) /\ queue \in Seq(Events)
  BY ClientFacts
<1>2. n \in Nat /\ Len(window) <= n /\ DOMAIN Coming = 1 .. n
  BY <1>1, LineIs DEF Coming
<1>3. Replies \in Nat /\ Replies <= n /\ Replies' = Replies
  BY <1>2, ReplyCount, ClientFacts DEF Replies, clientVars, netVars
<1>4. DOMAIN Coming' = 1 .. n + 1 /\ Coming'[n + 1] = e /\ \A i \in 1 .. n : Coming'[i] = Coming[i]
  <2>1. Coming' = Line(window, cur, Append(queue, e))
    BY DEF Coming, clientVars
  <2>2. /\ DOMAIN Line(window, cur, Append(queue, e)) = 1 .. n + 1
        /\ Line(window, cur, Append(queue, e))[n + 1] = e
        /\ \A i \in 1 .. n : Line(window, cur, Append(queue, e))[i] = Line(window, cur, queue)[i]
    BY <1>1, LineAppend
  <2> HIDE DEF n
  <2> QED BY <2>1, <2>2 DEF Coming
<1> HIDE DEF n
<1>5. Follows(Coming, Coming', {e}, {})
  BY <1>2, <1>3, <1>4, LineGrows
<1>6. ASSUME NEW p \in Path PROVE p = e.path \/ Stays(p)
  BY <1>6 DEF Stays, Out, clientVars, folderVars
<1>7. Reported(e.path, {e})
  BY <1>2, <1>4 DEF Reported
<1>8. Continues({e}, {})
  BY <1>5, <1>6, <1>7 DEF Continues
<1>9. ~Exposed(e.path)'
  <2>1. n + 1 > Replies' /\ n + 1 \in DOMAIN Coming'
    BY <1>2, <1>3, <1>4
  <2> QED BY <1>4, <2>1 DEF Exposed, Unanswered
<1>10. ASSUME NEW p \in Path, Exposed(p)'
       PROVE  Exposed(p) /\ known'[p] = known[p] /\ (Acknowledged(p)' => Acknowledged(p))
  <2>1. p # e.path /\ known'[p] = known[p]
    BY <1>9, <1>10
  <2>2. \A i \in 1 .. n : Coming[i].path = p => i <= Replies
    BY <1>2, <1>3, <1>4, <1>10 DEF Exposed, Unanswered
  <2>3. ~Unanswered(p)
    BY <1>2, <1>3, <2>2 DEF Unanswered
  <2>4. pc # "down" /\ p \notin ToRecover /\ ~Out(p) /\ Exists(known, p)
    BY <1>6, <1>10, <2>1 DEF Exposed, Stays, Exists, clientVars
  <2>5. IsComing(p)' <=> IsComing(p)
    BY <1>2, <1>4, <2>1 DEF IsComing
  <2>6. ASSUME NEW i \in DOMAIN Coming, Coming[i].path = p, IsLast(Coming, i)
        PROVE  i \in DOMAIN Coming' /\ Coming'[i].path = p /\ IsLast(Coming', i)
    <3>1. i \in DOMAIN Coming' /\ Coming'[i] = Coming[i]
      BY <1>2, <1>4
    <3>2. ASSUME NEW j \in DOMAIN Coming', j > i PROVE Coming'[j].path # Coming'[i].path
      <4>1. CASE j = n + 1
        BY <1>4, <2>1, <2>6, <3>1, <4>1
      <4>2. CASE j # n + 1
        <5>1. j \in DOMAIN Coming /\ Coming'[j] = Coming[j]
          BY <1>2, <1>4, <4>2
        <5> QED BY <2>6, <3>1, <3>2, <5>1 DEF IsLast
      <4> QED BY <4>1, <4>2
    <3> QED BY <2>6, <3>1, <3>2 DEF IsLast
  <2>7. Acknowledged(p)' => Acknowledged(p)
    BY <2>1, <2>5, <2>6 DEF Acknowledged, clientVars, netVars
  <2> QED BY <2>1, <2>3, <2>4, <2>7 DEF Exposed
<1> QED BY <1>8, <1>10 DEF Calm, Undisturbed

\* The watcher's steps.
LEMMA WatchCalm ==
  ASSUME ClientOK, Resting, Watcher
  PROVE  Undisturbed
<1>1. Watch /\ UNCHANGED <<clientVars, netVars>>
  BY DEF Watcher
<1>2. /\ folder \in Tree /\ WellFormed(folder) /\ known \in Tree /\ VisitsKnown
      /\ queue \in Seq(Events)
  BY DEF ClientOK, WatcherOK, WatcherTypeOK
<1>3. Replies' = Replies /\ Replies \in Nat
  BY <1>1, ReplyCount DEF Replies, clientVars, netVars
<1>4. ASSUME UNCHANGED <<known, queue, folderVars>>, \A p \in ToRecover \ ToRecover' : Out(p)
      PROVE  Undisturbed
  <2>1. Coming' = Coming
    BY <1>1, <1>4 DEF Coming, clientVars
  <2>2. UNCHANGED <<known, folder, flipped, excused, clientDb, conn, s2c, pc>>
    BY <1>1, <1>4 DEF clientVars, netVars, folderVars
  <2> QED BY <1>3, <1>4, <2>1, <2>2, SameComing
<1>5. CASE NextPass
  <2>1. ToRecover = {}
    BY <1>5 DEF NextPass, ToRecover
  <2> QED BY <1>4, <1>5, <2>1 DEF NextPass
<1>6. ASSUME NEW p \in Path, VisitRecover(p) PROVE Undisturbed
  <2>1. /\ p \in scan.todo /\ scan.pass = "recover" /\ Done({p}) /\ UNCHANGED <<known, folderVars>>
    BY <1>6 DEF VisitRecover, Turn
  <2>2. Exists(known, p) /\ known[p] \in Entry
    BY <1>2, <2>1 DEF VisitsKnown, Exists, Tree
  <2>3. ToRecover = scan.todo /\ ToRecover' = scan.todo \ {p}
    <3>1. scan \in [pass : Pass, todo : SUBSET Path]
      BY DEF ClientOK, WatcherOK, WatcherTypeOK
    <3> QED BY <2>1, <3>1 DEF ToRecover, Done
  <2>4. CASE Exists(folder, p)
    <3>5. PICK e : e = Event("modified", p, known[p])
      OBVIOUS
    <3>1. e \in Events /\ e.path = p /\ e.type = "modified" /\ e.entry = known[p]
      BY <2>2, <3>5, EventTypes DEF Event, EventType
    <3>2. queue' = Append(queue, e)
      BY <1>6, <2>4, <3>5 DEF VisitRecover
    <3>3. OpOf(e) # "RMD"
      BY <3>1 DEF OpOf
    <3>4. Told(e)'
      BY <2>1, <2>2, <3>1 DEF Told, Exists
    <3> QED BY <1>1, <2>1, <2>3, <3>1, <3>2, <3>3, <3>4, ReportCalm
  <2>5. CASE ~Exists(folder, p)
    <3>1. Out(p)
      BY <2>2, <2>5 DEF Out, Exists
    <3> QED BY <1>4, <1>6, <2>1, <2>3, <2>5, <3>1 DEF VisitRecover
  <2> QED BY <2>4, <2>5
<1>7. ASSUME scan.pass # "recover" PROVE ToRecover = {}
  BY <1>7 DEF ToRecover
<1>8. ASSUME NEW p \in Path, VisitDeleted(p) PROVE Undisturbed
  <2>1. /\ p \in scan.todo /\ scan.pass = "deleted" /\ UNCHANGED folderVars /\ folder' = folder
    BY <1>8 DEF VisitDeleted, Turn, folderVars
  <2>2. CASE UNCHANGED <<known, queue>>
    BY <1>4, <1>7, <2>1, <2>2
  <2>3. CASE ~UNCHANGED <<known, queue>>
    <3>8. PICK e : e = Event("deleted", p, known[p])
      OBVIOUS
    <3>1. Exists(known, p) /\ known[p] \in Entry
      BY <1>2, <2>1 DEF VisitsKnown, Exists, Tree
    <3>2. e \in Events /\ e.path = p /\ e.type = "deleted"
      BY <3>1, <3>8, EventTypes DEF Event, EventType
    <3>3. ~Exists(folder, p) /\ queue' = Append(queue, e) /\ known' = [known EXCEPT ![p] = Absent]
      BY <1>8, <2>3, <3>8 DEF VisitDeleted, Report
    <3>4. /\ known'[p] = Absent
          /\ \A q \in Path \ {p} : known'[q] = known[q]
      BY <1>2, <3>3 DEF Tree
    <3>5. Told(e)'
      BY <3>2, <3>4 DEF Told, Exists
    <3>6. ASSUME NEW q \in Below(p) PROVE Away(q)'
      <4>1. ~Exists(folder, q)
        BY <1>2, <3>3, <3>6 DEF Below, WellFormed, IsDir
      <4> QED BY <2>1, <4>1 DEF Away, Out, Exists
    <3>7. \A q \in Path : q \in ToRecover => q \in ToRecover'
      BY <1>7, <2>1
    <3> QED BY <1>1, <2>1, <3>2, <3>3, <3>4, <3>5, <3>6, <3>7, ReportCalm
  <2> QED BY <2>2, <2>3
<1>9. ASSUME NEW p \in Path, VisitPresent(p) PROVE Undisturbed
  <2>1. /\ scan.pass = "present" /\ UNCHANGED folderVars /\ folder' = folder
    BY <1>9 DEF VisitPresent, Turn, folderVars
  <2>2. CASE UNCHANGED <<known, queue>>
    BY <1>4, <1>7, <2>1, <2>2
  <2>3. CASE ~UNCHANGED <<known, queue>>
    <3> DEFINE type == IF Exists(known, p) THEN "modified" ELSE "created"
    <3>9. PICK e : e = Event(type, p, folder[p])
      OBVIOUS
    <3>1. folder[p] # Absent /\ folder[p] \in Entry
      BY <1>2, <1>9, <2>3 DEF VisitPresent, Tree
    <3>2. type \in EventType /\ type \notin {"deleted"}
      BY DEF EventType
    <3>3. queue' = Append(queue, e) /\ known' = [known EXCEPT ![p] = folder[p]]
      BY <1>9, <2>3, <3>9 DEF VisitPresent, Report
    <3> HIDE DEF type
    <3>4. e \in Events /\ e.path = p /\ e.type # "deleted" /\ e.entry = folder[p]
      BY <3>1, <3>2, <3>9, EventTypes DEF Event
    <3>5. /\ known'[p] = folder[p]
          /\ \A q \in Path \ {p} : known'[q] = known[q]
      BY <1>2, <3>3 DEF Tree
    <3>6. Told(e)'
      BY <3>1, <3>4, <3>5 DEF Told, Exists
    <3>7. OpOf(e) # "RMD"
      BY <3>4 DEF OpOf
    <3>8. \A q \in Path : q \in ToRecover => q \in ToRecover'
      BY <1>7, <2>1
    <3> QED BY <1>1, <2>1, <3>3, <3>4, <3>5, <3>6, <3>7, <3>8, ReportCalm
  <2> QED BY <2>2, <2>3
<1> QED BY <1>1, <1>5, <1>6, <1>8, <1>9 DEF Watch

\* The client's steps.
LEMMA StopQuiet ==
  ASSUME Stop, queue' = <<>>
  PROVE  Quiet
<1>1. window' = <<>> /\ cur' = <<>> /\ queue' = <<>> /\ pc' = "down"
  BY DEF Stop
<1>2. DOMAIN Coming' = {}
  BY <1>1 DEF Coming, Line
<1>3. \A p \in Path : ~Exposed(p)'
  BY <1>1 DEF Exposed
<1> QED BY <1>2, <1>3 DEF Quiet

\* What moves from the queue to the window stays in line.
LEMMA WritingCalm ==
  ASSUME ClientOK, Coming' = Coming, pc # "down",
         UNCHANGED <<known, folder, flipped, scan, excused, clientDb, conn, s2c>>
  PROVE  Undisturbed
<1>1. Replies' = Replies /\ ToRecover' = ToRecover
  BY DEF Replies, ToRecover
<1>2. Replies \in Nat
  BY ReplyCount
<1> QED BY <1>1, <1>2, SameComing

\* The oldest event is answered.
LEMMA TakeCalm ==
  ASSUME ClientOK, pc = "loop", s2c[conn] # <<>>, conn' = conn, s2c'[conn] = Tail(s2c[conn]),
         ToRecover' = ToRecover, NEW p \in Path, known'[p] = known[p], Out(p) => Out(p)', 1 \in DOMAIN Coming,
         \A i \in DOMAIN Coming : i > 1 /\ Coming[i].path = p =>
            \E k \in DOMAIN Coming' : Coming'[k].path = p /\ (k = i - 1 \/ k > Replies'),
         \A k \in DOMAIN Coming' : Coming'[k].path = p /\ k <= Replies' =>
            k + 1 \in DOMAIN Coming /\ Coming[k + 1].path = p,
         Coming[1].path = p /\ IsLast(Coming, 1) /\ Exposed(p)' => s2c[conn][1].kind \in OkCode
  PROVE  Calm(p)
<1>1. conn \in Conn /\ conn # NoConn /\ s2c[conn] \in Seq(Reply)
  BY OnConnection, ClientFacts
<1>2. /\ Len(s2c[conn]) \in Nat /\ Len(s2c[conn]) >= 1 /\ Len(Tail(s2c[conn])) = Len(s2c[conn]) - 1
      /\ \A i \in 1 .. Len(s2c[conn]) - 1 : Tail(s2c[conn])[i] = s2c[conn][i + 1]
  BY <1>1
<1>3. Replies = Len(s2c[conn]) /\ Replies' = Replies - 1 /\ Replies \in Nat /\ Replies >= 1
  BY <1>1, <1>2 DEF Replies
<1>4. LineTypes(Coming)
  BY ComingTypes
<1>5. SUFFICES ASSUME Exposed(p)' PROVE Exposed(p) /\ (Acknowledged(p)' => Acknowledged(p))
  BY DEF Calm
<1>6. \A k \in DOMAIN Coming' : Coming'[k].path = p => k <= Replies' /\ ~(k > Replies')
  <2>1. Replies' \in Nat
    BY <1>3
  <2>2. ASSUME NEW k \in DOMAIN Coming', Coming'[k].path = p PROVE ~(k > Replies')
    BY <1>5, <2>2 DEF Exposed, Unanswered
  <2>3. ASSUME NEW k \in DOMAIN Coming' PROVE k \in Int
    BY <2>3 DEF Coming, Line
  <2> QED BY <2>1, <2>2, <2>3
<1>7. ASSUME NEW i \in DOMAIN Coming, i > 1, Coming[i].path = p
      PROVE  i - 1 \in DOMAIN Coming' /\ Coming'[i - 1].path = p /\ i - 1 <= Replies'
  BY <1>6, <1>7
<1>8. Exposed(p)
  <2>1. pc # "down" /\ p \notin ToRecover /\ ~Out(p) /\ Exists(known, p)
    BY <1>5 DEF Exposed, Exists
  <2>2. ASSUME NEW i \in DOMAIN Coming, Coming[i].path = p PROVE ~(i > Replies)
    <3>1. i \in Nat
      BY <1>4 DEF LineTypes
    <3>2. CASE i > 1
      BY <1>3, <1>7, <2>2, <3>1, <3>2
    <3>3. CASE ~(i > 1)
      BY <1>3, <3>1, <3>3
    <3> QED BY <3>2, <3>3
  <2> QED BY <2>1, <2>2 DEF Exposed, Unanswered
<1>9. ASSUME Acknowledged(p)' PROVE Acknowledged(p)
  <2> SUFFICES ASSUME NEW i \in DOMAIN Coming, Coming[i].path = p, IsLast(Coming, i)
               PROVE  s2c[conn][i].kind \in OkCode
    BY DEF Acknowledged
  <2>1. i \in Nat /\ i >= 1
    BY <1>4 DEF LineTypes
  <2>2. CASE i = 1
    BY <1>5, <2>2
  <2>3. CASE i # 1
    <3>1. i - 1 \in DOMAIN Coming' /\ Coming'[i - 1].path = p /\ i - 1 <= Replies'
      BY <1>7, <2>1, <2>3
    <3>2. IsLast(Coming, i - 1)'
      <4>1. ASSUME NEW k \in DOMAIN Coming', k > i - 1, Coming'[k].path = Coming'[i - 1].path PROVE FALSE
        <5>1. k <= Replies' /\ Coming'[k].path = p
          BY <1>6, <3>1, <4>1
        <5>2. k + 1 \in DOMAIN Coming /\ Coming[k + 1].path = p
          BY <5>1
        <5>3. k \in Int
          BY <4>1 DEF Coming, Line
        <5>4. k + 1 > i
          BY <2>1, <4>1, <5>3
        <5> QED BY <5>2, <5>4 DEF IsLast
      <4> QED BY <4>1 DEF IsLast
    <3>3. s2c'[conn][i - 1].kind \in OkCode
      BY <1>9, <3>1, <3>2 DEF Acknowledged
    <3>4. i - 1 \in 1 .. Len(s2c[conn]) - 1 /\ i - 1 + 1 = i
      BY <1>3, <2>1, <2>3, <3>1
    <3> QED BY <1>2, <3>3, <3>4
  <2> QED BY <2>2, <2>3
<1> QED BY <1>8, <1>9

LEMMA ReceivedCalm ==
  ASSUME ClientOK, Resting, EventsTold, ReceiveOk \/ ReceiveErr \/ ReceiveSend
  PROVE  Undisturbed
<1>1. /\ pc = "loop" /\ s2c[conn] # <<>> /\ window # <<>>
      /\ s2c' = [s2c EXCEPT ![conn] = Tail(@)] /\ window' = Tail(window)
      /\ UNCHANGED <<conn, known, folder, flipped, scan, queue>>
  BY DEF ReceiveOk, ReceiveErr, ReceiveSend, Receiving, Consume, watcherVars
<1>2. /\ conn \in Conn /\ conn # NoConn /\ s2c'[conn] = Tail(s2c[conn])
      /\ window \in Seq(Events) /\ cur = <<>> /\ queue \in Seq(Events)
  BY <1>1, OnConnection, ClientFacts DEF Resting
<1>3. Len(window) \in Nat /\ Len(window) >= 1 /\ Len(queue) \in Nat /\ Len(cur) = 0
  BY <1>1, <1>2
<1>16. /\ Len(window) \in Nat /\ Len(cur) \in Nat /\ Len(queue) \in Nat
       /\ DOMAIN Coming = 1 .. Len(window) + Len(cur) + Len(queue)
       /\ \A i \in 1 .. Len(window) : Coming[i] = window[i]
  <2>1. window \in Seq(Events) /\ cur \in Seq(Events) /\ queue \in Seq(Events)
    BY ClientFacts
  <2> QED BY <2>1, LineIs DEF Coming
<1>4. PICK h \in Events : h = window[1] /\ h = Head(window) /\ h = Coming[1]
  <2>1. Head(window) = window[1] /\ window[1] \in Events /\ 1 \in 1 .. Len(window)
    BY <1>1, <1>2, <1>3
  <2>2. Coming[1] = window[1]
    BY <1>16, <2>1
  <2> QED BY <2>1, <2>2
<1>5. /\ Replies \in Nat /\ Replies' = Replies - 1 /\ Replies >= 1 /\ Replies <= Len(window)
  <2>1. s2c[conn] \in Seq(Reply)
    BY <1>2, ClientFacts
  <2>2. Len(s2c[conn]) \in Nat /\ Len(s2c[conn]) >= 1 /\ Len(Tail(s2c[conn])) = Len(s2c[conn]) - 1
    BY <1>1, <2>1
  <2> QED BY <1>1, <1>2, <2>2, ReplyCount DEF Replies
<1>6. ToRecover' = ToRecover
  BY <1>1 DEF ToRecover
<1>7. LineTypes(Coming)
  BY ComingTypes
<1>8. excused \subseteq excused'
  BY DEF ReceiveOk, ReceiveErr, ReceiveSend
<1>9. ASSUME NEW p \in Path PROVE known'[p] = known[p] /\ (Out(p) => Out(p)')
  BY <1>1, <1>8 DEF Out
<1>11. Head(s2c[conn]) = s2c[conn][1]
  <2>1. s2c[conn] \in Seq(Reply)
    BY <1>2, ClientFacts
  <2> QED BY <1>1, <2>1
\* The rest of the line is what it was.
<1>12. ASSUME cur' = cur,
              \A p \in Path : h.path = p /\ IsLast(Coming, 1) /\ Exposed(p)' => s2c[conn][1].kind \in OkCode
       PROVE  Undisturbed
  <2> DEFINE n == Len(window) + Len(cur) + Len(queue)
  <2>1. /\ n \in Nat /\ n >= 1 /\ DOMAIN Coming = 1 .. n /\ DOMAIN Coming' = 1 .. n - 1
        /\ \A i \in 1 .. n - 1 : Coming'[i] = Coming[i + 1]
    <3>1. Coming' = Line(Tail(window), cur, queue)
      BY <1>1, <1>12 DEF Coming
    <3>2. cur \in Seq(Events)
      BY <1>2
    <3>3. /\ n >= 1 /\ DOMAIN Line(Tail(window), cur, queue) = 1 .. n - 1
          /\ \A i \in 1 .. n - 1 : Line(Tail(window), cur, queue)[i] = Line(window, cur, queue)[i + 1]
      BY <1>1, <1>2, <3>2, LineTail, ZenonT(40)
    <3>4. n \in Nat /\ DOMAIN Coming = 1 .. n
      BY <1>16
    <3> HIDE DEF n
    <3> QED BY <3>1, <3>3, <3>4 DEF Coming
  <2> HIDE DEF n
  <2>2. Follows(Coming, Coming', {}, {})
    BY <1>5, <2>1, LineShrinks
  <2>3. Continues({}, {})
    BY <1>9, <2>2 DEF Continues, Stays
  <2>4. ASSUME NEW p \in Path PROVE Calm(p)
    <3>1. ASSUME NEW i \in DOMAIN Coming, i > 1, Coming[i].path = p
          PROVE  i - 1 \in DOMAIN Coming' /\ Coming'[i - 1].path = p
      <4>1. i - 1 \in 1 .. n - 1 /\ i - 1 + 1 = i
        BY <2>1, <3>1
      <4> QED BY <2>1, <3>1, <4>1
    <3>2. ASSUME NEW k \in DOMAIN Coming', Coming'[k].path = p
          PROVE  k + 1 \in DOMAIN Coming /\ Coming[k + 1].path = p
      BY <2>1, <3>2
    <3>3. 1 \in DOMAIN Coming
      BY <2>1
    <3>5. Coming[1].path = p /\ IsLast(Coming, 1) /\ Exposed(p)' => s2c[conn][1].kind \in OkCode
      BY <1>4, <1>12
    <3> QED BY <1>1, <1>2, <1>6, <1>9, <3>1, <3>2, <3>3, <3>5, TakeCalm
  <2> QED BY <2>3, <2>4 DEF Undisturbed
<1>13. CASE ReceiveOk
  <2>1. cur' = cur /\ s2c[conn][1].kind \in OkCode
    BY <1>11, <1>13 DEF ReceiveOk, Receiving, positionVars
  <2> QED BY <1>12, <2>1
<1>14. CASE ReceiveErr
  <2>1. cur' = cur /\ h.path \in excused'
    BY <1>4, <1>14 DEF ReceiveErr, positionVars
  <2>2. ~Exposed(h.path)'
    BY <2>1 DEF Exposed, Out
  <2> QED BY <1>12, <2>1, <2>2
<1>15. CASE ReceiveSend
  <2>1. h.type # "deleted" /\ h.entry.type = "file" /\ h.path \in Path /\ h.entry \in Entry
    BY <1>4, <1>15 DEF ReceiveSend, Wanted, Events
  <2>2. CASE ~Unchanged(h)
    <3>1. cur' = cur
      BY <1>4, <1>15, <2>2 DEF ReceiveSend
    <3>2. ASSUME IsLast(Coming, 1) PROVE Out(h.path)
      <4>1. 1 \in DOMAIN Coming
        BY <1>3, <1>16
      <4>2. Told(h)
        BY <1>4, <3>2, <4>1 DEF EventsTold
      <4> QED BY <2>1, <2>2, <4>2 DEF Told, Unchanged, Out, Exists
    <3>3. IsLast(Coming, 1) => ~Exposed(h.path)'
      BY <1>9, <2>1, <3>2 DEF Exposed
    <3> QED BY <1>12, <3>1, <3>3
  <2>3. CASE Unchanged(h)
    <3>1. PICK e : e = Event("storeSent", h.path, h.entry)
      OBVIOUS
    <3>2. cur' = <<e>> /\ excused' = excused
      BY <1>4, <1>15, <2>3, <3>1 DEF ReceiveSend
    <3>3. e \in Events /\ e.path = h.path /\ e.type = "storeSent" /\ e.entry = h.entry
      BY <2>1, <3>1, EventTypes DEF Event, EventType
    <3>4. OpOf(e) # "RMD"
      BY <2>1, <3>3 DEF OpOf
    <3>5. Told(e)'
      <4>1. folder[e.path] = known[e.path] => Exists(known, e.path) /\ known[e.path].hash = e.entry.hash
        BY <2>3, <3>3 DEF Unchanged, Exists
      <4>2. known' = known /\ folder' = folder
        BY <1>1
      <4> QED BY <3>3, <4>1, <4>2 DEF Told, Out, Exists
    <3> DEFINE n == Len(window) + Len(queue)
               w == Len(window)
    <3>6. /\ DOMAIN Coming = 1 .. n /\ DOMAIN Coming' = 1 .. n /\ w \in 1 .. n
          /\ \A i \in 1 .. w - 1 : Coming'[i] = Coming[i + 1]
          /\ Coming'[w] = e
          /\ \A i \in w + 1 .. n : Coming'[i] = Coming[i]
      <4>1. Coming' = Line(Tail(window), <<e>>, queue) /\ Coming = Line(window, <<>>, queue)
        BY <1>1, <1>2, <3>2 DEF Coming
      <4>2. LET L == Line(window, <<>>, queue)
                M == Line(Tail(window), <<e>>, queue)
            IN  /\ DOMAIN L = 1 .. n /\ DOMAIN M = 1 .. n /\ w \in 1 .. n
                /\ \A i \in 1 .. w - 1 : M[i] = L[i + 1]
                /\ M[w] = e
                /\ \A i \in w + 1 .. n : M[i] = L[i]
        BY <1>1, <1>2, <3>3, LineInsert
      <4> HIDE DEF n, w
      <4> QED BY <4>1, <4>2
    <3>7. n \in Nat /\ w \in Nat /\ Replies <= w /\ w >= 1
      BY <1>3, <1>5
    <3> HIDE DEF n, w
    <3>8. Follows(Coming, Coming', {e}, {})
      BY <1>5, <3>6, <3>7, LineTurns
    <3>9. Continues({e}, {})
      BY <1>9, <3>4, <3>5, <3>8 DEF Continues, Stays
    <3>10. ASSUME NEW p \in Path PROVE Calm(p)
      <4>1. CASE p = h.path
        <5>1. w \in DOMAIN Coming' /\ w > Replies' /\ Coming'[w].path = p
          BY <1>5, <3>3, <3>6, <3>7, <4>1
        <5>2. ~Exposed(p)'
          BY <5>1 DEF Exposed, Unanswered
        <5> QED BY <5>2 DEF Calm
      <4>2. CASE p # h.path
        <5>1. ASSUME NEW i \in DOMAIN Coming, i > 1, Coming[i].path = p
              PROVE  \E k \in DOMAIN Coming' : Coming'[k].path = p /\ (k = i - 1 \/ k > Replies')
          <6>1. CASE i <= w
            <7>1. i - 1 \in 1 .. w - 1 /\ i - 1 + 1 = i /\ i - 1 \in DOMAIN Coming'
              BY <3>6, <3>7, <5>1, <6>1
            <7> QED BY <3>6, <5>1, <7>1
          <6>2. CASE i > w
            <7>1. i \in w + 1 .. n /\ i > Replies' /\ i \in DOMAIN Coming'
              BY <1>5, <3>6, <3>7, <5>1, <6>2
            <7> QED BY <3>6, <5>1, <7>1
          <6> QED BY <3>6, <3>7, <5>1, <6>1, <6>2
        <5>2. ASSUME NEW k \in DOMAIN Coming', Coming'[k].path = p, k <= Replies'
              PROVE  k + 1 \in DOMAIN Coming /\ Coming[k + 1].path = p
          <6>1. k \in 1 .. w - 1 /\ k + 1 \in 1 .. n
            BY <1>5, <3>6, <3>7, <5>2
          <6> QED BY <3>6, <5>2, <6>1
        <5>3. 1 \in DOMAIN Coming
          BY <3>6, <3>7
        <5>4. Coming[1].path # p
          BY <1>4, <4>2
        <5> QED BY <1>1, <1>2, <1>6, <1>9, <5>1, <5>2, <5>3, <5>4, TakeCalm
      <4> QED BY <4>1, <4>2
    <3> QED BY <3>9, <3>10 DEF Undisturbed
  <2> QED BY <2>2, <2>3
<1> QED BY <1>13, <1>14, <1>15

\* Where the connection is lost between pop and push, the event in between is given up.
LEMMA HangUpCalm ==
  ASSUME ClientOK, Resting, pc # "down", HangUp, excused' = excused \cup {cur[i].path : i \in DOMAIN cur}
  PROVE  Undisturbed
<1>1. /\ window' = window /\ cur' = <<>> /\ conn' = NoConn /\ pc' = "off"
      /\ UNCHANGED <<known, folder, flipped, scan, queue, clientDb>>
  BY DEF HangUp, watcherVars
<1>2. /\ window \in Seq(Events) /\ cur \in Seq(Events) /\ queue \in Seq(Events) /\ Len(cur) <= 1
      /\ Len(cur) \in Nat
  BY ClientFacts
<1>3. Replies' = 0 /\ Replies \in Nat /\ ToRecover' = ToRecover
  BY <1>1, ReplyCount DEF Replies, ToRecover
<1>4. CASE cur = <<>>
  <2>1. Coming' = Coming
    BY <1>1, <1>4 DEF Coming
  <2>2. excused' = excused
    BY <1>4
  <2> QED BY <1>1, <1>3, <2>1, <2>2, SameComing
<1>5. CASE cur # <<>>
  <2> DEFINE n == Len(window) + Len(queue)
             k == Len(window)
  <2>1. Len(cur) = 1 /\ 1 \in DOMAIN cur
    <3>1. cur \in Seq(Events) /\ cur # <<>>
      BY <1>2, <1>5
    <3>2. Len(cur) >= 1 /\ DOMAIN cur = 1 .. Len(cur)
      BY ONLY <3>1
    <3>3. \A a \in Nat : a >= 1 /\ a <= 1 => a = 1
      OBVIOUS
    <3>4. Len(cur) = 1
      BY <1>2, <3>2, <3>3, Zenon
    <3>5. 1 \in 1 .. 1
      OBVIOUS
    <3> QED BY <3>2, <3>4, <3>5, Zenon
  <2>2. /\ DOMAIN Coming = 1 .. n + 1 /\ DOMAIN Coming' = 1 .. n /\ n \in Nat /\ k \in 0 .. n
        /\ \A i \in 1 .. k : Coming'[i] = Coming[i]
        /\ Coming[k + 1] = cur[1]
        /\ \A i \in k + 1 .. n : Coming'[i] = Coming[i + 1]
    <3>1. Coming' = Line(window, <<>>, queue)
      BY <1>1 DEF Coming
    <3>2. LET L == Line(window, cur, queue)
              M == Line(window, <<>>, queue)
          IN  /\ DOMAIN L = 1 .. n + 1 /\ DOMAIN M = 1 .. n /\ n \in Nat /\ k \in 0 .. n
              /\ \A i \in 1 .. k : M[i] = L[i]
              /\ L[k + 1] = cur[1]
              /\ \A i \in k + 1 .. n : M[i] = L[i + 1]
      BY <1>2, <2>1, LineDrop
    <3> HIDE DEF n, k
    <3> QED BY <3>1, <3>2 DEF Coming
  <2> HIDE DEF n, k
  <2>3. PICK lost : lost = {cur[1].path}
    OBVIOUS
  <2>4. lost \subseteq excused' /\ Coming[k + 1].path \in lost
    BY <2>1, <2>2, <2>3
  <2>5. Follows(Coming, Coming', {}, lost)
    BY <1>3, <2>2, <2>4, LineLoses
  <2>6. ASSUME NEW p \in Path PROVE known'[p] = known[p] /\ (Out(p) => Out(p)')
    BY <1>1 DEF Out
  <2>7. Continues({}, lost)
    BY <2>4, <2>5, <2>6 DEF Continues, Stays
  <2>8. ASSUME NEW p \in Path, Exposed(p)' PROVE Exposed(p) /\ (Acknowledged(p)' => Acknowledged(p))
    <3>1. p \notin lost
      BY <2>4, <2>8 DEF Exposed, Out
    <3>2. ASSUME NEW i \in DOMAIN Coming' PROVE Coming'[i].path # p
      <4>1. i > Replies'
        BY <1>3, <2>2, <3>2
      <4> QED BY <2>8, <4>1 DEF Exposed, Unanswered
    <3>3. ~IsComing(p)
      <4> SUFFICES ASSUME NEW i \in DOMAIN Coming, Coming[i].path = p PROVE FALSE
        BY DEF IsComing
      <4>1. CASE i <= k
        <5>1. i \in 1 .. k /\ i \in DOMAIN Coming'
          BY <2>2, <4>1
        <5> QED BY <2>2, <3>2, <5>1
      <4>2. CASE i > k + 1
        <5>1. i - 1 \in k + 1 .. n /\ i - 1 + 1 = i /\ i - 1 \in DOMAIN Coming'
          BY <2>2, <4>2
        <5> QED BY <2>2, <3>2, <5>1
      <4>3. i # k + 1
        BY <2>4, <3>1
      <4> QED BY <2>2, <4>1, <4>2, <4>3
    <3>4. ~IsComing(p)'
      BY <3>2 DEF IsComing
    <3>5. pc # "down" /\ p \notin ToRecover /\ ~Out(p) /\ Exists(known, p)
      BY <1>1, <1>3, <2>6, <2>8 DEF Exposed, Exists
    <3>6. Acknowledged(p)
      BY <3>3 DEF Acknowledged, IsComing
    <3>7. ~Unanswered(p)
      BY <3>3 DEF Unanswered, IsComing
    <3> QED BY <3>5, <3>6, <3>7 DEF Exposed
  <2> QED BY <2>6, <2>7, <2>8 DEF Calm, Undisturbed
<1> QED BY <1>4, <1>5

LEMMA ClientCalm ==
  ASSUME ClientOK, Resting, EventsTold, Communicate
  PROVE  Undisturbed \/ Quiet
<1>1. /\ window \in Seq(Events) /\ cur \in Seq(Events) /\ queue \in Seq(Events)
      /\ conn = NoConn <=> pc \in {"off", "down"}
      /\ conn # NoConn => pc # "down"
  BY ClientFacts DEF ClientOK, Control
<1>2. CASE LoseConnection
  BY <1>1, <1>2, HangUpCalm DEF LoseConnection
<1>3. CASE Disconnect
  <2>1. cur = <<>> /\ pc # "down" /\ HangUp /\ excused' = excused
    BY <1>3 DEF Disconnect, Resting
  <2>2. excused' = excused \cup {cur[i].path : i \in DOMAIN cur}
    BY <2>1
  <2> QED BY <2>1, <2>2, HangUpCalm
<1>4. CASE ReceiveUnwantedSend \/ ReceiveException \/ FileVanished
  BY <1>4, StopQuiet DEF ReceiveUnwantedSend, ReceiveException, FileVanished, StopAll
<1>5. CASE ReceiveOk \/ ReceiveErr \/ ReceiveSend
  BY <1>5, ReceivedCalm
<1>6. CASE Resent \/ SkipStale \/ ResendMessage \/ ResendData \/ SendData
  <2>1. /\ pc # "down" /\ UNCHANGED <<cur, window, ownVars, excused, s2c, watcherVars>>
    BY <1>6 DEF Resent, SkipStale, ResendMessage, ResendData, SendData, netVars
  <2>2. Coming' = Coming
    BY <2>1 DEF Coming, watcherVars
  <2> QED BY <2>1, <2>2, WritingCalm DEF ownVars, watcherVars
<1>7. CASE SendEvent
  <2>1. /\ pc = "loop" /\ queue # <<>> /\ window' = Append(window, Head(queue)) /\ queue' = Tail(queue)
        /\ UNCHANGED <<cur, ownVars, excused, s2c, known, scan, folderVars>>
    BY <1>7 DEF SendEvent, positionVars
  <2>2. cur = <<>>
    BY <2>1 DEF Resting
  <2>3. Coming' = Line(Append(window, Head(queue)), <<>>, Tail(queue))
    BY <2>1, <2>2 DEF Coming
  <2>4. Coming' = Coming
    BY <1>1, <2>1, <2>2, <2>3, LineSend DEF Coming
  <2> QED BY <2>1, <2>4, WritingCalm DEF ownVars, folderVars
<1>8. CASE SendStor
  <2>1. /\ pc = "store" /\ window' = Append(window, cur[1]) /\ cur' = <<>>
        /\ UNCHANGED <<ownVars, excused, s2c, watcherVars>>
    BY <1>8 DEF SendStor
  <2>2. Len(cur) = 1
    BY <2>1 DEF ClientOK, Control
  <2>3. Coming' = Line(Append(window, cur[1]), <<>>, queue)
    BY <2>1 DEF Coming, watcherVars
  <2>4. Coming' = Coming
    BY <1>1, <2>2, <2>3, LineStore DEF Coming
  <2> QED BY <2>1, <2>4, WritingCalm DEF ownVars, watcherVars
<1> QED BY <1>2, <1>3, <1>4, <1>5, <1>6, <1>7, <1>8 DEF Communicate

\* What the server and the network do is no step of the line.
LEMMA OtherSideCalm ==
  ASSUME ClientOK, UNCHANGED <<watcherVars, clientVars>>, Replies' \in Nat, Replies' <= Replies,
         \A i \in 1 .. Replies' : s2c'[conn][i] = s2c[conn][i]
  PROVE  Undisturbed
<1>1. Coming' = Coming /\ ToRecover' = ToRecover
  BY DEF Coming, ToRecover, watcherVars, clientVars
<1>2. UNCHANGED <<known, folder, flipped, excused, clientDb, conn, pc>>
  BY DEF watcherVars, clientVars
<1> QED BY <1>1, <1>2, SameComing

LEMMA RestingStays ==
  ASSUME Resting, [Next]_vars
  PROVE  Resting'
<1>1. ASSUME UNCHANGED <<clientVars, scan, queue>> PROVE Resting'
  BY <1>1 DEF Resting, clientVars
<1>2. ASSUME Stop, scan' = Begin("stopped", {}), queue' = <<>> PROVE Resting'
  BY <1>2 DEF Stop, Resting, Begin
<1>3. ASSUME cur' = <<>>, pc' # "down" PROVE Resting'
  BY <1>3 DEF Resting
<1>4. CASE UNCHANGED vars \/ Users
  BY <1>1, <1>4 DEF vars, watcherVars, Users, User, WriteFile, MakeDirectory, Remove
<1>5. CASE Watcher
  <2>1. UNCHANGED clientVars /\ scan.pass # "stopped"
    BY <1>5 DEF Watcher, Watch, NextPass, VisitRecover, VisitDeleted, VisitPresent, Turn
  <2> QED BY <2>1 DEF Resting, clientVars
<1>6. CASE WatcherFails
  BY <1>2, <1>6 DEF WatcherFails, VanishUnderExamination
<1>7. ASSUME StopAll PROVE Resting'
  BY <1>2, <1>7 DEF StopAll
<1>8. CASE Client
  <2>1. CASE LoseConnection \/ Disconnect
    BY <1>3, <2>1 DEF LoseConnection, Disconnect, HangUp
  <2>2. CASE ReceiveUnwantedSend \/ ReceiveException \/ FileVanished
    BY <1>7, <2>2 DEF ReceiveUnwantedSend, ReceiveException, FileVanished
  <2>3. CASE Resent \/ SkipStale \/ ResendMessage \/ ResendData \/ SendEvent \/ SendData
    <3>1. /\ pc \in {"resend", "resendData", "loop", "storeData"}
          /\ pc' \in {"resend", "resendData", "loop"} /\ cur' = cur
      BY <2>3 DEF Resent, SkipStale, ResendMessage, ResendData, SendEvent, SendData, positionVars
    <3> QED BY <1>3, <3>1 DEF Resting
  <2>4. CASE ReceiveOk \/ ReceiveErr
    <3>1. pc = "loop" /\ pc' = pc /\ cur' = cur
      BY <2>4 DEF ReceiveOk, ReceiveErr, Receiving, positionVars
    <3> QED BY <1>3, <3>1 DEF Resting
  <2>5. CASE ReceiveSend
    <3>1. pc = "loop" /\ (pc' = "store" \/ (pc' = pc /\ cur' = cur))
      BY <2>5 DEF ReceiveSend, Receiving
    <3> QED BY <3>1 DEF Resting
  <2>6. CASE SendStor
    BY <1>3, <2>6 DEF SendStor
  <2> QED BY <1>8, <2>1, <2>2, <2>3, <2>4, <2>5, <2>6 DEF Client, Communicate
<1>9. ASSUME NEW c \in Conn, Connect(c) PROVE Resting'
  <2>1. pc = "off" /\ pc' = "resend" /\ cur' = cur
    BY <1>9 DEF Connect, ConnectTo
  <2> QED BY <1>3, <2>1 DEF Resting
<1>10. CASE (\E c \in Conn : Server(c)) \/ ServerDies \/ ServerRestarts \/ ConnectionBreaks
  BY <1>1, <1>10 DEF Server, ServerDies, ServerRestarts, ConnectionBreaks, watcherVars
<1>11. CASE ClientRestarts \/ ClientGivesUp
  <2>1. CASE StartClient
    <3>1. pc = "down" /\ pc' = "off" /\ cur' = cur
      BY <2>1 DEF StartClient
    <3> QED BY <1>3, <3>1 DEF Resting
  <2> QED BY <1>7, <1>11, <2>1 DEF ClientRestarts, Kill, ClientGivesUp, GiveUp
<1> QED BY <1>4, <1>5, <1>6, <1>8, <1>9, <1>10, <1>11 DEF Next
-----------------------------------------------------------------------------
(* What a request can take away from the backup, and what it leaves.        *)
Affected(r) == {r.path} \cup IF r.op = "RMD" THEN Below(r.path) ELSE {}

\* A server thread may still find requests of a connection the client gave up.
Stale == ~outOfStep =>
            \A c \in Conn : conn # c \/ link[c] # "open" =>
               \A k \in DOMAIN c2s[c] : \A p \in Affected(c2s[c][k]) : ~Exposed(p)

LEMMA NotYet ==
  ASSUME ClientOK, InOrder, RemovedAway, ~outOfStep, conn # NoConn, link[conn] = "open",
         NEW k \in DOMAIN c2s[conn], NEW p \in Affected(c2s[conn][k])
  PROVE  ~Exposed(p)
<1>1. /\ conn \in Conn /\ s2c[conn] \in Seq(Reply) /\ c2s[conn] \in Seq(Request)
      /\ window \in Seq(Events) /\ cur \in Seq(Events) /\ queue \in Seq(Events)
      /\ Len(s2c[conn]) \in Nat /\ Len(c2s[conn]) \in Nat /\ DOMAIN c2s[conn] = 1 .. Len(c2s[conn])
  BY ClientFacts
<1>2. Sent \in Nat /\ Sent <= Len(window) /\ Len(window) \in Nat
  <2>1. pc \notin {"off", "down"}
    BY DEF ClientOK, Control
  <2> QED BY <1>1, <2>1, SentIsInWindow
<1>3. /\ Len(s2c[conn]) + Len(c2s[conn]) = Sent
      /\ \A i \in 1 .. Len(c2s[conn]) : Asked(c2s[conn][i]) = RequestOf(window[Len(s2c[conn]) + i])
  BY DEF InOrder, Matches
<1>4. PICK i \in 1 .. Len(window) : i = Len(s2c[conn]) + k
  <2>1. \A a, b, s, n \in Nat : a + b = s /\ s <= n => \A x \in 1 .. b : a + x \in 1 .. n
    OBVIOUS
  <2>2. Len(s2c[conn]) + k \in 1 .. Len(window)
    BY <1>1, <1>2, <1>3, <2>1, Zenon
  <2> QED BY <2>2
<1>5. i \in DOMAIN Coming /\ Coming[i] = window[i] /\ DOMAIN Coming \subseteq Nat
  <2>1. /\ DOMAIN Coming = 1 .. Len(window) + Len(cur) + Len(queue) /\ Coming[i] = window[i]
        /\ Len(cur) \in Nat /\ Len(queue) \in Nat
    BY <1>1, LineIs DEF Coming
  <2> QED BY <1>2, <2>1
<1>6. Replies = Len(s2c[conn])
  BY DEF Replies
<1>7. i > Replies
  BY <1>1, <1>4, <1>6
<1>8. window[i].path = c2s[conn][k].path /\ OpOf(window[i]) = c2s[conn][k].op
  <2>1. Asked(c2s[conn][k]) = RequestOf(window[i])
    BY <1>1, <1>3, <1>4
  <2>2. c2s[conn][k] \in Request
    BY <1>1, ElementOfSeq
  <2>3. Asked(c2s[conn][k]).path = c2s[conn][k].path /\ Asked(c2s[conn][k]).op = c2s[conn][k].op
    BY <2>2 DEF Asked, Request
  <2> QED BY <2>1, <2>3 DEF RequestOf
<1>9. CASE p = window[i].path
  BY <1>5, <1>7, <1>9 DEF Exposed, Unanswered
<1>10. CASE p # window[i].path
  <2>1. OpOf(Coming[i]) = "RMD" /\ p \in Below(Coming[i].path)
    BY <1>5, <1>8, <1>10 DEF Affected
  <2>2. CASE Away(p)
    BY <2>2 DEF Away, Exposed
  <2>3. CASE ComesLater(Coming, i, p)
    <3>1. PICK j \in DOMAIN Coming : j > i /\ Coming[j].path = p
      BY <2>3 DEF ComesLater
    <3>2. j > Replies
      BY <1>1, <1>5, <1>6, <1>7, <3>1
    <3> QED BY <3>1, <3>2 DEF Exposed, Unanswered
  <2> QED BY <1>5, <2>1, <2>2, <2>3 DEF RemovedAway
<1> QED BY <1>9, <1>10

LEMMA AllUnexposed ==
  ASSUME ClientOK, InOrder, RemovedAway, Stale, ~outOfStep, NEW c \in Conn, NEW k \in DOMAIN c2s[c],
         NEW p \in Affected(c2s[c][k])
  PROVE  ~Exposed(p)
<1>1. CASE conn = c /\ link[c] = "open"
  <2>1. conn # NoConn
    BY <1>1, ClientBounds
  <2> QED BY <1>1, <2>1, NotYet
<1>2. CASE conn # c \/ link[c] # "open"
  BY <1>2 DEF Stale
<1> QED BY <1>1, <1>2

\* Where nobody writes, what can be read was there before.
OldRequests == \A c \in Conn : conn' # c \/ link'[c] # "open" =>
                  \A k \in DOMAIN c2s'[c] : \E j \in DOMAIN c2s[c] : c2s'[c][k] = c2s[c][j]

LEMMA StaleStays ==
  ASSUME ClientOK, InOrder, RemovedAway, Stale, OldRequests, outOfStep => outOfStep',
         \A p \in Path : Exposed(p)' => Exposed(p)
  PROVE  Stale'
<1> SUFFICES ASSUME ~outOfStep, NEW c \in Conn, conn' # c \/ link'[c] # "open",
                    NEW k \in DOMAIN c2s'[c], NEW p \in Affected(c2s'[c][k])
             PROVE  ~Exposed(p)'
  BY DEF Stale, Affected
<1>1. PICK j \in DOMAIN c2s[c] : c2s'[c][k] = c2s[c][j]
  BY DEF OldRequests
<1>2. c2s[c][j] \in Request
  <2>1. c2s[c] \in Seq(Request)
    BY ClientFacts
  <2> QED BY <1>1, <2>1, ElementOfSeq
<1>3. p \in Affected(c2s[c][j]) /\ p \in Path
  BY <1>1, <1>2 DEF Affected, Request, Below
<1>4. ~Exposed(p)
  BY <1>3, AllUnexposed
<1> QED BY <1>3, <1>4

LEMMA SameRequests ==
  ASSUME NetTypeOK, NEW d \in Conn,
         \A c \in Conn : c2s'[c] = c2s[c] \/ c2s'[c] = <<>> \/ (c = d /\ conn' = d /\ link'[d] = "open")
  PROVE  OldRequests
<1> SUFFICES ASSUME NEW c \in Conn, conn' # c \/ link'[c] # "open", NEW k \in DOMAIN c2s'[c]
             PROVE  \E j \in DOMAIN c2s[c] : c2s'[c][k] = c2s[c][j]
  BY DEF OldRequests
<1>1. c2s'[c] = c2s[c] \/ c2s'[c] = <<>>
  OBVIOUS
<1>2. c2s'[c] # <<>>
  <2>1. DOMAIN <<>> = {}
    OBVIOUS
  <2> QED BY <2>1
<1> QED BY <1>1, <1>2

LEMMA ClientWritesOnce ==
  ASSUME ClientOK, Communicate
  PROVE  OldRequests /\ (outOfStep => outOfStep')
<1>1. NetTypeOK /\ c2s \in [Conn -> Seq(Request)] /\ link \in [Conn -> {"none", "open", "broken"}]
  BY ClientFacts DEF ClientOK
<1>2. \/ c2s' = c2s
      \/ /\ pc \notin {"off", "down"} /\ UNCHANGED <<conn, link>>
         /\ (\E r : Transmit(conn, r)) \/ \E p : AttachData(p)
  BY Zenon DEF Communicate, LoseConnection, Resent, SkipStale, ResendMessage, ResendData, SendEvent,
       ReceiveSend, ReceiveUnwantedSend, ReceiveOk, ReceiveErr, ReceiveException, SendStor, SendData,
       FileVanished, Disconnect, StopAll, Stop, HangUp, Consume, ownVars, netVars
<1>3. ASSUME c2s' = c2s PROVE OldRequests
  BY <1>3 DEF OldRequests
<1>4. ASSUME ~(c2s' = c2s) PROVE OldRequests
  <2>1. /\ conn \in Conn /\ UNCHANGED <<conn, link>>
        /\ (\E r : Transmit(conn, r)) \/ \E p : AttachData(p)
    BY <1>2, <1>4, OnConnection
  <2>2. link[conn] = "open" /\ \A c \in Conn \ {conn} : c2s'[c] = c2s[c]
    BY <1>1, <1>4, <2>1 DEF Transmit, AttachData
  <2> QED BY <1>1, <2>1, <2>2, SameRequests
<1>5. outOfStep => outOfStep'
  BY DEF Communicate, LoseConnection, Resent, SkipStale, ResendMessage, ResendData, SendEvent,
       ReceiveSend, ReceiveUnwantedSend, ReceiveOk, ReceiveErr, ReceiveException, SendStor, SendData,
       FileVanished, Disconnect, StopAll, Stop, HangUp, Consume, ownVars, netVars
<1> QED BY <1>3, <1>4, <1>5
-----------------------------------------------------------------------------
(* The handlers.                                                            *)
\* What was there keeps its content.
Remains(p) == Exists(disk, p) => SameContent(disk, disk', p)
\* The backup holds what the entry describes.
Holds(tree, p, e) == Exists(tree, p) /\ tree[p].type = e.type /\ tree[p].hash = e.hash

LEMMA TouchHolds ==
  ASSUME NEW tree \in Tree, NEW Q, NEW t \in Time, NEW p \in Path, Exists(tree, p)
  PROVE  Holds(Touch(tree, Q, t), p, tree[p])
<1>1. CASE p \in Q /\ IsDir(tree, p)
  <2>1. tree[p] \in Entry /\ tree[p].type = "directory" /\ Dir(t) \in Entry
    BY <1>1, EntryTypes DEF IsDir, Exists, Tree
  <2>2. tree[p].hash = NoHash
    BY <2>1 DEF Entry
  <2>3. Touch(tree, Q, t)[p] = Dir(t)
    BY <1>1 DEF Touch
  <2> QED BY <2>1, <2>2, <2>3, EntryTypes DEF Holds, Exists, Dir
<1>2. CASE ~(p \in Q /\ IsDir(tree, p))
  BY <1>2 DEF Touch, Holds, Exists
<1> QED BY <1>1, <1>2

LEMMA CreateHolds ==
  ASSUME NEW tree \in Tree, NEW Q \in SUBSET Path, NEW t \in Time, NEW p \in Path, Exists(tree, p)
  PROVE  Holds(CreateDirectories(tree, Q, t), p, tree[p])
<1>1. CASE CreateDirectories(tree, Q, t)[p] = tree[p]
  BY <1>1 DEF Holds, Exists
<1>2. CASE CreateDirectories(tree, Q, t)[p] = Dir(t) /\ IsDir(tree, p)
  <2>1. tree[p] \in Entry /\ tree[p].type = "directory" /\ Dir(t) \in Entry
    BY <1>2, EntryTypes DEF IsDir, Exists, Tree
  <2>2. tree[p].hash = NoHash
    BY <2>1 DEF Entry
  <2> QED BY <1>2, <2>1, <2>2, EntryTypes DEF Holds, Exists, Dir
<1> QED BY <1>1, <1>2, OnlyTouched

LEMMA StoredStands ==
  ASSUME disk \in Tree, WellFormed(disk), NEW p \in Path, NEW e \in Entry, NEW t \in Time,
         NEW q \in Path, q # p, Exists(disk, q)
  PROVE  Holds(Stored(p, e, t), q, disk[q])
<1>1. Stored(p, e, t)[q] = WithParents(p, t)[q]
  BY DEF Stored, WithParents, CreateDirectories, Touch, Tree
<1>2. Holds(WithParents(p, t), q, disk[q])
  <2>1. Ancestors[p] \subseteq Path
    BY AncestorsArePaths
  <2>2. CASE WithParents(p, t) = disk
    BY <2>2 DEF Holds
  <2>3. CASE WithParents(p, t) = CreateDirectories(disk, Ancestors[p], t)
    BY <2>1, <2>3, CreateHolds
  <2> QED BY <2>2, <2>3 DEF WithParents
<1> QED BY <1>1, <1>2 DEF Holds, Exists

LEMMA MadeStands ==
  ASSUME disk \in Tree, WellFormed(disk), NEW p \in Path, NEW t \in Time, NEW q \in Path, Exists(disk, q)
  PROVE  Holds(Made(p, t), q, disk[q])
<1>1. Ancestors[p] \cup {p} \in SUBSET Path
  BY AncestorsArePaths
<1>2. CASE Made(p, t) = disk
  BY <1>2 DEF Holds
<1>3. CASE Made(p, t) = CreateDirectories(disk, Ancestors[p] \cup {p}, t)
  BY <1>1, <1>3, CreateHolds
<1> QED BY <1>2, <1>3 DEF Made

LEMMA MadeDirStands ==
  ASSUME disk \in Tree, WellFormed(disk), NEW p \in Path, NEW e \in Entry, NEW t \in Time,
         NEW q \in Path, q # p, Exists(disk, q)
  PROVE  Holds(MadeDir(p, e, t), q, disk[q])
<1>1. MadeDir(p, e, t)[q] = KeepParentTime(disk, Made(p, t), p)[q]
  BY DEF MadeDir, KeepParentTime
<1>2. CASE KeepParentTime(disk, Made(p, t), p)[q] = disk[q]
  BY <1>1, <1>2 DEF Holds, Exists
<1>3. CASE KeepParentTime(disk, Made(p, t), p)[q] = Made(p, t)[q]
  BY <1>1, <1>3, MadeStands DEF Holds, Exists
<1> QED BY <1>2, <1>3 DEF KeepParentTime

Spares(c) == \A p \in Path : Remains(p) \/ (c2s[c] # <<>> /\ p \in Affected(Head(c2s[c])))

LEMMA HandlersSpare ==
  ASSUME ServerOK, NEW c \in Conn, Serve(c)
  PROVE  Spares(c)
<1> DEFINE p == Head(c2s[c]).path
           e == Head(c2s[c]).entry
<1>1. disk \in Tree /\ WellFormed(disk) /\ NetTypeOK
  BY ServerFacts
<1>2. ASSUME disk' = disk PROVE Spares(c)
  BY <1>2 DEF Spares, Remains, SameContent, Exists
<1>3. ASSUME NEW kind, JustAnswer(c, kind) PROVE Spares(c)
  BY <1>2, <1>3 DEF JustAnswer, storeVars
<1>4. ASSUME Fail(c) PROVE Spares(c)
  BY <1>2, <1>4 DEF Fail, storeVars
<1>5. ASSUME c2s[c] # <<>>, \A q \in Path : q # p /\ Exists(disk, q) => Holds(disk', q, disk[q])
      PROVE  Spares(c)
  BY <1>5 DEF Spares, Remains, SameContent, Holds, Exists, Affected
<1>6. ASSUME c2s[c] # <<>>, \A q \in Path \ {p} : disk'[q] = disk[q] PROVE Spares(c)
  BY <1>5, <1>6 DEF Holds, Exists
<1>7. ASSUME c2s[c] # <<>>
      PROVE  p \in Path /\ e \in Entry
  BY <1>1, <1>7, HeadRequest
<1>8. ASSUME NothingThere(c, p) PROVE Spares(c)
  BY <1>2, <1>3, <1>8 DEF NothingThere
<1>9. CASE RecoverFromDB(c) \/ Reject(c) \/ EndSession(c)
  BY <1>2, <1>9 DEF RecoverFromDB, Reject, EndSession, serverVars, storeVars
<1>10. CASE Probe(c)
  <2>1. c2s[c] # <<>>
    BY <1>10 DEF Probe, Handling
  <2>2. \/ \E kind : JustAnswer(c, kind)
        \/ Fail(c)
        \/ disk' = [disk EXCEPT ![p].lwt = e.lwt]
    BY <1>10, Zenon DEF Probe
  <2>3. CASE disk' = [disk EXCEPT ![p].lwt = e.lwt]
    <3> HIDE DEF p, e
    <3>1. \A q \in Path \ {p} : disk'[q] = disk[q]
      BY <1>1, <2>3 DEF Tree
    <3> QED BY <1>6, <2>1, <3>1
  <2> QED BY <1>3, <1>4, <2>2, <2>3
<1>11. CASE StoreFile(c)
  <2>1. c2s[c] # <<>>
    BY <1>11 DEF StoreFile, Handling
  <2>2. \/ \E kind : JustAnswer(c, kind)
        \/ Fail(c)
        \/ \E t \in Time : disk' = Stored(p, e, t)
    BY <1>11, Zenon DEF StoreFile
  <2>3. CASE \E t \in Time : disk' = Stored(p, e, t)
    <3> HIDE DEF p, e
    <3> QED BY <1>1, <1>5, <1>7, <2>1, <2>3, StoredStands
  <2> QED BY <1>3, <1>4, <2>2, <2>3
<1>12. CASE RemoveFile(c)
  <2>1. c2s[c] # <<>>
    BY <1>12 DEF RemoveFile, Handling
  <2>2. \/ NothingThere(c, p)
        \/ \E kind : JustAnswer(c, kind)
        \/ Fail(c)
        \/ disk' = [disk EXCEPT ![p] = Absent]
    BY <1>12, Zenon DEF RemoveFile
  <2>3. CASE disk' = [disk EXCEPT ![p] = Absent]
    <3> HIDE DEF p, e
    <3>1. \A q \in Path \ {p} : disk'[q] = disk[q]
      BY <1>1, <2>3 DEF Tree
    <3> QED BY <1>6, <2>1, <3>1
  <2> QED BY <1>3, <1>4, <1>8, <2>2, <2>3
<1>13. CASE MakeDir(c)
  <2>1. c2s[c] # <<>>
    BY <1>13 DEF MakeDir, Handling
  <2>2. \/ \E kind : JustAnswer(c, kind)
        \/ Fail(c)
        \/ \E t \in Time : disk' = MadeDir(p, e, t)
    BY <1>13, Zenon DEF MakeDir
  <2>3. CASE \E t \in Time : disk' = MadeDir(p, e, t)
    <3> HIDE DEF p, e
    <3> QED BY <1>1, <1>5, <1>7, <2>1, <2>3, MadeDirStands
  <2> QED BY <1>3, <1>4, <2>2, <2>3
<1>14. CASE RemoveDir(c)
  <2>1. c2s[c] # <<>> /\ Head(c2s[c]).op = "RMD"
    BY <1>14 DEF RemoveDir, Handling
  <2>2. \/ NothingThere(c, p)
        \/ \E kind : JustAnswer(c, kind)
        \/ Fail(c)
        \/ disk' = RemoveAll(disk, p)
    BY <1>14, Zenon DEF RemoveDir
  <2>3. CASE disk' = RemoveAll(disk, p)
    <3>1. \A q \in Path : q \in Affected(Head(c2s[c])) \/ (q # p /\ q \notin Below(p))
      BY <2>1 DEF Affected
    <3> HIDE DEF p, e
    <3>2. \A q \in Path : q # p /\ q \notin Below(p) => disk'[q] = disk[q]
      BY <2>3 DEF RemoveAll
    <3> QED BY <2>1, <3>1, <3>2 DEF Spares, Remains, SameContent, Exists
  <2> QED BY <1>3, <1>4, <1>8, <2>2, <2>3
<1> QED BY <1>9, <1>10, <1>11, <1>12, <1>13, <1>14 DEF Serve

LEMMA WithoutHolds ==
  ASSUME disk \in Tree, NEW R, NEW t \in Time, NEW q \in Path, q \notin R, Exists(disk, q)
  PROVE  Holds(Without(R, t), q, disk[q])
<1> DEFINE tree == [r \in Path |-> IF r \in R THEN Absent ELSE disk[r]]
<1>1. tree \in Tree /\ tree[q] = disk[q]
  BY DEF Tree
<1> HIDE DEF tree
<1>2. Holds(Touch(tree, UNION {Parent(r) : r \in R}, t), q, tree[q])
  BY <1>1, TouchHolds DEF Exists
<1> QED BY <1>1, <1>2 DEF Without, tree

LEMMA CrashSpares ==
  ASSUME ServerOK, NEW c \in Conn, CrashInHandler(c)
  PROVE  Spares(c)
<1> DEFINE p == Head(c2s[c]).path
           e == Head(c2s[c]).entry
           op == Head(c2s[c]).op
<1>1. disk \in Tree /\ WellFormed(disk) /\ NetTypeOK
  BY ServerFacts
<1>2. c2s[c] # <<>> /\ CutOff(c)
  BY CrashCuts DEF CutOff
<1>3. p \in Path /\ e \in Entry
  BY <1>1, <1>2, HeadRequest
<1>4. ASSUME \A q \in Path : q # p /\ Exists(disk, q) => Holds(disk', q, disk[q])
      PROVE  Spares(c)
  BY <1>2, <1>4 DEF Spares, Remains, SameContent, Holds, Exists, Affected
<1>5. ASSUME NEW t \in Time, Reachable(disk, p), ~IsDir(disk, p),
             disk' \in {Stored(p, e, t), Touch(Stored(p, e, t), Parent(p), t)}
      PROVE  Spares(c)
  <2> HIDE DEF p, e
  <2>1. disk' = Stored(p, e, t) \/ disk' = Touch(Stored(p, e, t), Parent(p), t)
    BY <1>5
  <2>2. Stored(p, e, t) \in Tree
    BY <1>1, <1>3, <1>5, StoredKeeps
  <2>3. ASSUME NEW q \in Path, q # p, Exists(disk, q) PROVE Holds(disk', q, disk[q])
    <3>1. Holds(Stored(p, e, t), q, disk[q])
      BY <1>1, <1>3, <2>3, StoredStands
    <3>2. Exists(Stored(p, e, t), q)
      BY <3>1 DEF Holds
    <3>3. Holds(Touch(Stored(p, e, t), Parent(p), t), q, Stored(p, e, t)[q])
      BY <2>2, <3>2, TouchHolds
    <3>4. Holds(Touch(Stored(p, e, t), Parent(p), t), q, disk[q])
      BY <3>1, <3>3 DEF Holds
    <3> QED BY <2>1, <3>1, <3>4
  <2> QED BY <1>4, <2>3
<1>6. ASSUME NEW t \in Time, NEW a \in Ancestors[p] \cup {p}, disk' = Made(a, t) PROVE Spares(c)
  <2>1. a \in Path
    BY <1>3, AncestorsArePaths
  <2> QED BY <1>1, <1>4, <1>6, <2>1, MadeStands
<1>7. ASSUME NEW t \in Time, disk' \in {[Made(p, t) EXCEPT ![p] = e], MadeDir(p, e, t)} PROVE Spares(c)
  <2> HIDE DEF p, e
  <2>1. ASSUME NEW q \in Path, q # p, Exists(disk, q) PROVE Holds(disk', q, disk[q])
    <3>1. Holds(MadeDir(p, e, t), q, disk[q]) /\ Holds(Made(p, t), q, disk[q])
      BY <1>1, <1>3, <2>1, MadeStands, MadeDirStands
    <3>2. [Made(p, t) EXCEPT ![p] = e][q] = Made(p, t)[q]
      BY <2>1, <1>1 DEF Made, CreateDirectories, Touch, Tree
    <3>3. Holds([Made(p, t) EXCEPT ![p] = e], q, disk[q])
      BY <3>1, <3>2 DEF Holds, Exists
    <3> QED BY <1>7, <3>1, <3>3
  <2> QED BY <1>4, <2>1
<1>8. ASSUME NEW t \in Time, NEW R \in SUBSET ({p} \cup Below(p)), op = "RMD" \/ R = {p}, disk' = Without(R, t)
      PROVE  Spares(c)
  <2>1. \A q \in Path : q \in Affected(Head(c2s[c])) \/ q \notin R
    BY <1>2, <1>8 DEF Affected
  <2>2. \A q \in Path : q \notin R /\ Exists(disk, q) => Holds(disk', q, disk[q])
    BY <1>1, <1>8, WithoutHolds
  <2> QED BY <1>2, <2>1, <2>2 DEF Spares, Remains, SameContent, Holds, Exists
<1> QED BY <1>2, <1>5, <1>6, <1>7, <1>8 DEF CutOff

\* ... and if its row had its hash, the row still does.
Stands(p) == Remains(p) /\ (Exists(disk, p) /\ Fits(p) => Fits(p)')
Leaves(c) == \A p \in Path : Stands(p) \/ (c2s[c] # <<>> /\ p \in Affected(Head(c2s[c])))

LEMMA SameRowStands ==
  ASSUME NEW p, Remains(p), rows'[p] = rows[p]
  PROVE  Stands(p)
BY DEF Stands, Remains, SameContent, Exists, Fits

\* Only the rows of what is affected change, except where a session begins.
HandlesRows(c) == \A p \in Path : rows'[p] = rows[p] \/ (c2s[c] # <<>> /\ p \in Affected(Head(c2s[c])))

LEMMA HandlersHandleRows ==
  ASSUME ServerOK, NEW c \in Conn, Serve(c), ~RecoverFromDB(c)
  PROVE  HandlesRows(c)
<1> DEFINE p == Head(c2s[c]).path
           e == Head(c2s[c]).entry
<1>1. rows \in [Path -> Seq(Entry)]
  BY ServerFacts DEF ServerOK, ServerTypeOK
<1>2. ASSUME rows' = rows PROVE HandlesRows(c)
  BY <1>2 DEF HandlesRows
<1>3. ASSUME c2s[c] # <<>>, \A q \in Path : q = p \/ rows'[q] = rows[q] PROVE HandlesRows(c)
  BY <1>3 DEF HandlesRows, Affected
<1>4. ASSUME Fail(c) \/ \E kind : JustAnswer(c, kind) PROVE HandlesRows(c)
  BY <1>2, <1>4 DEF Fail, JustAnswer, storeVars
<1>5. ASSUME c2s[c] # <<>>, Record(c, p, e) PROVE HandlesRows(c)
  <2> HIDE DEF p, e
  <2>1. \A q \in Path : q = p \/ rows'[q] = rows[q]
    BY <1>1, <1>5 DEF Record, Updated, Inserted
  <2> QED BY <1>3, <1>5, <2>1
<1>6. ASSUME c2s[c] # <<>>, Forget(c, {p}) PROVE HandlesRows(c)
  <2> HIDE DEF p, e
  <2>1. \A q \in Path : q = p \/ rows'[q] = rows[q]
    BY <1>6 DEF Forget, Deleted
  <2> QED BY <1>3, <1>6, <2>1
<1>7. ASSUME c2s[c] # <<>>, NothingThere(c, p) PROVE HandlesRows(c)
  BY <1>4, <1>6, <1>7 DEF NothingThere
<1>8. CASE Reject(c) \/ EndSession(c)
  BY <1>2, <1>8 DEF Reject, EndSession, serverVars, storeVars
<1>9. CASE Probe(c)
  <2>1. Fail(c) \/ (\E kind : JustAnswer(c, kind)) \/ rows' = rows
    BY <1>9, Zenon DEF Probe
  <2> QED BY <1>2, <1>4, <2>1
<1>10. CASE StoreFile(c)
  <2>1. c2s[c] # <<>>
    BY <1>10 DEF StoreFile, Handling
  <2>2. Fail(c) \/ (\E kind : JustAnswer(c, kind)) \/ Record(c, p, e)
    BY <1>10, Zenon DEF StoreFile
  <2> QED BY <1>4, <1>5, <2>1, <2>2
<1>11. CASE RemoveFile(c)
  <2>1. c2s[c] # <<>>
    BY <1>11 DEF RemoveFile, Handling
  <2>2. Fail(c) \/ (\E kind : JustAnswer(c, kind)) \/ NothingThere(c, p) \/ Forget(c, {p})
    BY <1>11, Zenon DEF RemoveFile
  <2> QED BY <1>4, <1>6, <1>7, <2>1, <2>2
<1>12. CASE MakeDir(c)
  <2>1. c2s[c] # <<>>
    BY <1>12 DEF MakeDir, Handling
  <2>2. Fail(c) \/ (\E kind : JustAnswer(c, kind)) \/ Record(c, p, e)
    BY <1>12, Zenon DEF MakeDir
  <2> QED BY <1>4, <1>5, <2>1, <2>2
<1>13. CASE RemoveDir(c)
  <2>1. c2s[c] # <<>> /\ Head(c2s[c]).op = "RMD"
    BY <1>13 DEF RemoveDir, Handling
  <2>2. \/ Fail(c) \/ (\E kind : JustAnswer(c, kind)) \/ NothingThere(c, p)
        \/ Forget(c, {p} \cup (Below(p) \cap Listed(disk)))
    BY <1>13, Zenon DEF RemoveDir
  <2>3. ASSUME Forget(c, {p} \cup (Below(p) \cap Listed(disk))) PROVE HandlesRows(c)
    <3>1. \A q \in Path : q \in Affected(Head(c2s[c])) \/ (q # p /\ q \notin Below(p))
      BY <2>1 DEF Affected
    <3> HIDE DEF p, e
    <3>2. \A q \in Path : q # p /\ q \notin Below(p) => rows'[q] = rows[q]
      BY <2>3 DEF Forget, Deleted
    <3> QED BY <2>1, <3>1, <3>2 DEF HandlesRows
  <2> QED BY <1>4, <1>7, <2>1, <2>2, <2>3
<1> QED BY <1>8, <1>9, <1>10, <1>11, <1>12, <1>13 DEF Serve

LEMMA HandlersLeave ==
  ASSUME ServerOK, NEW c \in Conn, Serve(c)
  PROVE  Leaves(c)
<1>1. Spares(c)
  BY HandlersSpare
<1>2. CASE ~RecoverFromDB(c)
  <2>1. HandlesRows(c)
    BY <1>2, HandlersHandleRows
  <2> QED BY <1>1, <2>1, SameRowStands DEF Spares, HandlesRows, Leaves
<1>3. CASE RecoverFromDB(c)
  <2> SUFFICES ASSUME NEW p \in Path PROVE Stands(p)
    BY DEF Leaves
  <2>1. disk' = disk
    BY <1>3 DEF RecoverFromDB
  <2>2. Remains(p)
    BY <2>1 DEF Remains, SameContent, Exists
  <2>3. ASSUME Exists(disk, p), Fits(p) PROVE Fits(p)'
    <3>1. rows'[p] = [i \in DOMAIN rows[p] |-> disk[p]]
      BY <1>3, <2>3 DEF RecoverFromDB
    <3>2. rows[p] \in Seq(Entry) /\ rows[p] # <<>>
      BY <2>3, ServerFacts DEF Fits, ServerOK, ServerTypeOK
    <3>3. 1 \in DOMAIN rows[p]
      BY <3>2
    <3>4. rows'[p][1] = disk[p] /\ rows'[p] # <<>>
      <4>1. rows'[p][1] = disk[p] /\ 1 \in DOMAIN rows'[p]
        BY <3>1, <3>3
      <4>2. DOMAIN <<>> = {}
        OBVIOUS
      <4> QED BY <4>1, <4>2
    <3> QED BY <2>1, <3>4 DEF Fits
  <2> QED BY <2>2, <2>3 DEF Stands
<1> QED BY <1>2, <1>3

LEMMA CrashLeaves ==
  ASSUME ServerOK, NEW c \in Conn, CrashInHandler(c)
  PROVE  Leaves(c)
<1>1. Spares(c)
  BY CrashSpares
<1>2. rows' = rows
  BY DEF CrashInHandler, Halt
<1> QED BY <1>1, <1>2, SameRowStands DEF Spares, Leaves

\* The handler replies, and what it tells of a file or directory is so.
Does(c) == \E kind :
    /\ s2c'[c] = Append(s2c[c], [kind |-> kind, re |-> Head(c2s[c])])
    /\ link'[c] = "open" \/ c2s'[c] = <<>>
    /\ kind \in OkCode /\ Head(c2s[c]).op \in {"PROB", "STOR", "MKD"} =>
          /\ Holds(disk', Head(c2s[c]).path, Head(c2s[c]).entry)
          /\ Exists(elements'[c], Head(c2s[c]).path)
          /\ elements'[c][Head(c2s[c]).path].lwt = Head(c2s[c]).entry.lwt
          /\ serverUp' /\ recovered'[c] /\ link'[c] = "open"

LEMMA HandlersDo ==
  ASSUME KindsFixed, ServerOK, RequestKinds, OfItsKind(disk), NEW c \in Conn, link[c] = "open", Serve(c),
         recovered[c] => Knows(elements[c], disk)
  PROVE  s2c' = s2c \/ (c2s[c] # <<>> /\ Does(c))
<1> DEFINE p == Head(c2s[c]).path
           e == Head(c2s[c]).entry
           el == elements[c]
           Good == s2c' = s2c \/ (c2s[c] # <<>> /\ Does(c))
<1>1. /\ disk \in Tree /\ NetTypeOK /\ s2c \in [Conn -> Seq(Reply)] /\ elements[c] \in Tree
      /\ WellFormed(disk) /\ elements \in [Conn -> Tree]
  BY ServerFacts DEF NetTypeOK, ServerOK, ServerTypeOK
<1>2. ASSUME NEW kind, Answer(c, kind), c2s[c] # <<>>,
             kind \in OkCode /\ Head(c2s[c]).op \in {"PROB", "STOR", "MKD"} =>
                /\ Holds(disk', p, e) /\ Exists(elements'[c], p) /\ elements'[c][p].lwt = e.lwt
                /\ serverUp /\ recovered[c]
      PROVE  Good
  <2>1. s2c'[c] = Append(s2c[c], [kind |-> kind, re |-> Head(c2s[c])])
    BY <1>1, <1>2 DEF Answer
  <2>2. link'[c] = "open" /\ serverUp' = serverUp /\ recovered' = recovered
    BY <1>2 DEF Answer
  <2> QED BY <1>2, <2>1, <2>2 DEF Does
<1>3. ASSUME NEW kind, JustAnswer(c, kind), c2s[c] # <<>>, kind \notin OkCode PROVE Good
  BY <1>2, <1>3 DEF JustAnswer
<1>4. ASSUME Fail(c), c2s[c] # <<>> PROVE Good
  <2>1. s2c'[c] = Append(s2c[c], [kind |-> "exception", re |-> Head(c2s[c])]) /\ c2s'[c] = <<>>
    BY <1>1, <1>4 DEF Fail
  <2>2. "exception" \notin OkCode
    BY DEF OkCode
  <2> QED BY <1>4, <2>1, <2>2 DEF Does
<1>5. ASSUME c2s[c] # <<>>
      PROVE  /\ p \in Path /\ e \in Entry /\ Kinds[p] = {e.type}
             /\ Head(c2s[c]).op \in {"PROB", "STOR", "DELE"} => e.type = "file"
             /\ Head(c2s[c]).op \in {"MKD", "RMD"} => e.type = "directory"
  BY <1>1, <1>5, AskedOfKind
<1>6. ASSUME c2s[c] # <<>>, Head(c2s[c]).op \in {"DELE", "RMD"}, NEW kind, Answer(c, kind) PROVE Good
  BY <1>2, <1>6
<1>7. ASSUME c2s[c] # <<>>, Head(c2s[c]).op \in {"DELE", "RMD"}, NothingThere(c, p) PROVE Good
  BY <1>6, <1>7 DEF NothingThere, JustAnswer
<1>8. CASE RecoverFromDB(c) \/ Reject(c) \/ EndSession(c)
  BY <1>8 DEF RecoverFromDB, Reject, EndSession, netVars
<1>9. CASE Probe(c)
  <2>1. c2s[c] # <<>> /\ recovered[c] /\ serverUp
    BY <1>9 DEF Probe, Handling
  <2>2. \/ JustAnswer(c, "SEND") \/ JustAnswer(c, "notAFile")
        \/ IsFile(el, p) /\ el[p] = e /\ JustAnswer(c, "found")
        \/ /\ IsFile(el, p) /\ el[p].hash = e.hash /\ disk' = [disk EXCEPT ![p].lwt = e.lwt]
           /\ elements' = [elements EXCEPT ![c][p] = e] /\ Answer(c, "found")
        \/ Fail(c)
    BY <1>9, Zenon DEF Probe
  <2>3. CASE JustAnswer(c, "SEND") \/ JustAnswer(c, "notAFile")
    BY <1>3, <2>1, <2>3 DEF OkCode
  <2>4. IsFile(el, p) => Holds(disk, p, el[p])
    <3> HIDE DEF p, e
    <3> QED BY <1>5, <2>1 DEF Knows, SameEntry, SameContent, IsFile, Exists, Holds
  <2>5. CASE IsFile(el, p) /\ el[p] = e /\ JustAnswer(c, "found")
    <3>1. disk' = disk /\ elements' = elements /\ Answer(c, "found")
      BY <2>5 DEF JustAnswer, storeVars
    <3>2. Holds(disk', p, e) /\ Exists(elements'[c], p) /\ elements'[c][p].lwt = e.lwt
      BY <2>4, <2>5, <3>1 DEF IsFile
    <3> QED BY <1>2, <2>1, <3>1, <3>2
  <2>6. CASE /\ IsFile(el, p) /\ el[p].hash = e.hash /\ disk' = [disk EXCEPT ![p].lwt = e.lwt]
             /\ elements' = [elements EXCEPT ![c][p] = e] /\ Answer(c, "found")
    <3>1. Holds(disk', p, e)
      <4>1. Head(c2s[c]).op = "PROB"
        BY <1>9 DEF Probe, Handling
      <4>2. e.type = "file" /\ p \in Path /\ e \in Entry
        BY <1>5, <2>1, <4>1
      <4>3. el[p].type = "file"
        BY <2>6 DEF IsFile
      <4>4. Holds(disk, p, e)
        BY <2>4, <2>6, <4>2, <4>3 DEF Holds
      <4>5. disk[p] \in Entry
        BY <1>1, <4>2, <4>4 DEF Holds, Exists, Tree
      <4> HIDE DEF p, e
      <4>6. disk'[p] = [disk[p] EXCEPT !.lwt = e.lwt]
        BY <1>1, <2>6, <4>2 DEF Tree
      <4>7. /\ [disk[p] EXCEPT !.lwt = e.lwt].type = disk[p].type
            /\ [disk[p] EXCEPT !.lwt = e.lwt].hash = disk[p].hash
            /\ [disk[p] EXCEPT !.lwt = e.lwt] \in Entry
        BY <4>2, <4>5 DEF Entry
      <4> QED BY <4>4, <4>6, <4>7, EntryTypes DEF Holds, Exists
    <3>2. Exists(elements'[c], p) /\ elements'[c][p].lwt = e.lwt
      <4>1. p \in Path /\ e \in Entry
        BY <1>5, <2>1
      <4> HIDE DEF p, e
      <4>2. elements'[c][p] = e
        BY <1>1, <2>6, <4>1 DEF Tree
      <4> QED BY <4>1, <4>2, EntryTypes DEF Exists
    <3> QED BY <1>2, <2>1, <2>6, <3>1, <3>2
  <2>7. CASE Fail(c)
    BY <1>4, <2>1, <2>7
  <2> QED BY <2>2, <2>3, <2>5, <2>6, <2>7
<1>10. CASE StoreFile(c)
  <2>1. c2s[c] # <<>> /\ serverUp /\ recovered[c]
    BY <1>10 DEF StoreFile, Handling
  <2>2. \/ JustAnswer(c, "store")
        \/ (\E t \in Time : disk' = Stored(p, e, t)) /\ Record(c, p, e) /\ Answer(c, "created")
        \/ Fail(c)
    BY <1>10, Zenon DEF StoreFile
  <2>3. CASE JustAnswer(c, "store")
    BY <1>3, <2>1, <2>3 DEF OkCode
  <2>4. CASE (\E t \in Time : disk' = Stored(p, e, t)) /\ Record(c, p, e) /\ Answer(c, "created")
    <3>1. Holds(disk', p, e)
      <4>1. p \in Path /\ e \in Entry
        BY <1>5, <2>1
      <4> HIDE DEF p, e
      <4>2. disk'[p] = e
        BY <1>1, <2>4, <4>1 DEF Stored, WithParents, CreateDirectories, Touch, Tree
      <4> QED BY <4>1, <4>2, EntryTypes DEF Holds, Exists
    <3>2. Exists(elements'[c], p) /\ elements'[c][p].lwt = e.lwt
      <4>1. p \in Path /\ e \in Entry
        BY <1>5, <2>1
      <4> HIDE DEF p, e
      <4>2. elements'[c][p] = e
        BY <1>1, <2>4, <4>1 DEF Tree, Record
      <4> QED BY <4>1, <4>2, EntryTypes DEF Exists
    <3> QED BY <1>2, <2>1, <2>4, <3>1, <3>2
  <2> QED BY <1>4, <2>1, <2>2, <2>3, <2>4
<1>11. CASE RemoveFile(c)
  <2>1. c2s[c] # <<>> /\ Head(c2s[c]).op = "DELE"
    BY <1>11 DEF RemoveFile, Handling
  <2>2. NothingThere(c, p) \/ JustAnswer(c, "remove") \/ Answer(c, "removed") \/ Fail(c)
    BY <1>11, Zenon DEF RemoveFile
  <2> QED BY <1>4, <1>6, <1>7, <2>1, <2>2 DEF JustAnswer
<1>12. CASE RemoveDir(c)
  <2>1. c2s[c] # <<>> /\ Head(c2s[c]).op = "RMD"
    BY <1>12 DEF RemoveDir, Handling
  <2>2. NothingThere(c, p) \/ JustAnswer(c, "notADir") \/ Answer(c, "removed") \/ Fail(c)
    BY <1>12, Zenon DEF RemoveDir
  <2> QED BY <1>4, <1>6, <1>7, <2>1, <2>2 DEF JustAnswer
<1>13. CASE MakeDir(c)
  <2>1. c2s[c] # <<>> /\ Head(c2s[c]).op = "MKD" /\ serverUp /\ recovered[c]
    BY <1>13 DEF MakeDir, Handling
  <2>2. \/ Exists(el, p) /\ Exists(disk, p) /\ el[p].lwt = e.lwt /\ JustAnswer(c, "created")
        \/ JustAnswer(c, "notADir")
        \/ (\E t \in Time : disk' = MadeDir(p, e, t)) /\ Record(c, p, e) /\ Answer(c, "created")
        \/ Fail(c)
    BY <1>13, Zenon DEF MakeDir
  <2>3. CASE JustAnswer(c, "notADir")
    BY <1>3, <2>1, <2>3 DEF OkCode
  <2>4. p \in Path /\ e \in Entry /\ e.type = "directory" /\ Kinds[p] = {"directory"}
    BY <1>5, <2>1
  <2>5. CASE (\E t \in Time : disk' = MadeDir(p, e, t)) /\ Record(c, p, e) /\ Answer(c, "created")
    <3>1. Holds(disk', p, e)
      <4> HIDE DEF p, e
      <4>1. disk'[p] = e
        BY <2>4, <2>5 DEF MadeDir, KeepParentTime
      <4> QED BY <2>4, <4>1, EntryTypes DEF Holds, Exists
    <3>2. Exists(elements'[c], p) /\ elements'[c][p].lwt = e.lwt
      <4>1. p \in Path /\ e \in Entry
        BY <1>5, <2>1
      <4> HIDE DEF p, e
      <4>2. elements'[c][p] = e
        BY <1>1, <2>5, <4>1 DEF Tree, Record
      <4> QED BY <4>1, <4>2, EntryTypes DEF Exists
    <3> QED BY <1>2, <2>1, <2>5, <3>1, <3>2
  <2>6. CASE Exists(el, p) /\ Exists(disk, p) /\ el[p].lwt = e.lwt /\ JustAnswer(c, "created")
    <3>1. disk' = disk /\ elements' = elements /\ Answer(c, "created")
      BY <2>6 DEF JustAnswer, storeVars
    <3>2. Holds(disk, p, e)
      <4> HIDE DEF p, e
      <4>1. disk[p] \in Entry /\ disk[p].type = "directory"
        BY <1>1, <2>4, <2>6 DEF Exists, Tree, OfItsKind
      <4>2. disk[p].hash = NoHash /\ e.hash = NoHash
        BY <2>4, <4>1 DEF Entry
      <4> QED BY <2>4, <2>6, <4>1, <4>2 DEF Holds
    <3> QED BY <1>2, <2>1, <2>6, <3>1, <3>2
  <2> QED BY <1>4, <2>1, <2>2, <2>3, <2>5, <2>6
<1> QED BY <1>8, <1>9, <1>10, <1>11, <1>12, <1>13 DEF Serve
-----------------------------------------------------------------------------
(* The steps together.                                                      *)
Saved == EventsTold /\ RemovedAway /\ Resting /\ Backed /\ Stale

LEMMA UndisturbedSaves ==
  ASSUME IInv, IInv', InOrder, Saved, Resting', Undisturbed \/ Quiet, OldRequests, outOfStep => outOfStep',
         UNCHANGED storeVars
  PROVE  Saved'
<1>1. ClientOK /\ ClientOK'
  BY DEF IInv
<1>2. LineTypes(Coming)
  BY <1>1, ComingTypes
<1>3. LineTypes(Coming')
  <2>1. window' \in Seq(Events) /\ cur' \in Seq(Events) /\ queue' \in Seq(Events)
    BY <1>1 DEF ClientOK, ClientTypeOK, WatcherOK, WatcherTypeOK
  <2>2. PICK w, c, q : w = window' /\ c = cur' /\ q = queue'
    OBVIOUS
  <2>3. LineTypes(Line(w, c, q))
    BY <2>1, <2>2, LineIs DEF LineTypes
  <2> QED BY <2>2, <2>3 DEF Coming
<1>4. CASE Quiet
  <2>1. EventsTold' /\ RemovedAway'
    BY <1>4 DEF Quiet, EventsTold, RemovedAway
  <2>2. \A p \in Path : ~Exposed(p)'
    BY <1>4 DEF Quiet
  <2>3. Backed'
    BY <2>2 DEF Backed
  <2>4. Stale'
    BY <1>1, <2>2, StaleStays DEF Saved
  <2> QED BY <2>1, <2>3, <2>4 DEF Saved
<1>5. CASE Undisturbed
  <2>1. PICK fresh, lost : Continues(fresh, lost)
    BY <1>5 DEF Undisturbed
  <2>2. \A p \in Path : Calm(p)
    BY <1>5 DEF Undisturbed
  <2>3. EventsTold' /\ RemovedAway'
    BY <1>2, <1>3, <2>1, ToldKept, AwayKept DEF Saved
  <2>4. Stale'
    BY <1>1, <2>2, StaleStays DEF Saved, Calm
  <2>5. Backed'
    BY <2>2 DEF Backed, Saved, Calm, SameContent, Exists, Fits, storeVars
  <2> QED BY <2>3, <2>4, <2>5 DEF Saved
<1> QED BY <1>4, <1>5

\* What the client has to tell and has been told is as it was.
LEMMA TheSameCalm ==
  ASSUME ClientOK, UNCHANGED <<watcherVars, clientVars>>, conn # NoConn => s2c'[conn] = s2c[conn],
         NEW p, Exposed(p)'
  PROVE  Exposed(p) /\ (Acknowledged(p)' => Acknowledged(p))
<1>1. UNCHANGED <<window, cur, queue, known, folder, flipped, excused, pc, scan, conn>>
  BY DEF watcherVars, clientVars
<1>2. Coming' = Coming /\ ToRecover' = ToRecover /\ Replies' = Replies
  BY <1>1 DEF Coming, ToRecover, Replies
<1>3. Exposed(p)
  BY <1>1, <1>2 DEF Exposed, Out, Exists, Unanswered
<1>4. CASE conn # NoConn
  BY <1>1, <1>2, <1>3, <1>4 DEF Acknowledged, IsComing
<1>5. CASE conn = NoConn
  <2>1. ~IsComing(p)
    <3>1. Replies = 0
      BY <1>5 DEF Replies
    <3>2. \A i \in DOMAIN Coming : i > 0
      BY DEF Coming, Line
    <3> QED BY <1>3, <3>1, <3>2 DEF IsComing, Exposed, Unanswered
  <2> QED BY <1>3, <2>1 DEF Acknowledged, IsComing
<1> QED BY <1>3, <1>4, <1>5

LEMMA TheSameSaves ==
  ASSUME IInv, InOrder, Saved, UNCHANGED <<watcherVars, clientVars>>, OldRequests, outOfStep => outOfStep',
         conn # NoConn => s2c'[conn] = s2c[conn],
         \A p \in Path : Stands(p) \/ (~outOfStep => ~Exposed(p))
  PROVE  Saved'
<1>1. /\ ClientOK /\ EventsTold /\ RemovedAway /\ Resting /\ Backed /\ Stale
  BY DEF IInv, Saved
<1>2. /\ UNCHANGED <<window, cur, queue, known, folder, flipped, excused, clientDb, pc, scan, conn>>
  BY DEF watcherVars, clientVars
<1>3. Coming' = Coming /\ ToRecover' = ToRecover /\ Replies' = Replies
  BY <1>2 DEF Coming, ToRecover, Replies
<1>4. EventsTold' /\ RemovedAway' /\ Resting'
  <2>1. EventsTold'
    BY <1>1, <1>2, <1>3 DEF EventsTold, Told, Out, Exists
  <2>2. RemovedAway'
    BY <1>1, <1>2, <1>3 DEF RemovedAway, Away, Out, Exists
  <2>3. Resting'
    BY <1>1, <1>2 DEF Resting
  <2> QED BY <2>1, <2>2, <2>3
<1>5. ASSUME NEW p \in Path, Exposed(p)' PROVE Exposed(p) /\ (Acknowledged(p)' => Acknowledged(p))
  BY <1>1, <1>5, TheSameCalm
<1>6. Stale'
  BY <1>1, <1>5, StaleStays
<1>7. Backed'
  <2> SUFFICES ASSUME NEW p \in Path, Exposed(p)', Acknowledged(p)', ~outOfStep'
               PROVE  SameContent(known, disk, p)' /\ Fits(p)'
    BY DEF Backed
  <2>1. Exposed(p) /\ SameContent(known, disk, p) /\ Fits(p)
    BY <1>1, <1>5 DEF Backed
  <2>2. Stands(p)
    BY <2>1
  <2> QED BY <1>2, <2>1, <2>2 DEF Stands, Remains, SameContent, Exposed, Exists
<1> QED BY <1>4, <1>6, <1>7 DEF Saved

\* A reply exposes the path of the event that it answers, and has done what it says.
LEMMA ReplyExposes ==
  ASSUME KindsFixed, IInv, AllOfTheirKind, InOrder, Saved, UNCHANGED <<watcherVars, clientVars>>,
         ~outOfStep, conn # NoConn, link[conn] = "open", c2s[conn] # <<>>, Does(conn),
         NEW p \in Path, Exposed(p)', Acknowledged(p)'
  PROVE  \/ Exposed(p) /\ Acknowledged(p) /\ p \notin Affected(Head(c2s[conn]))
         \/ \E i \in DOMAIN Coming :
               /\ Coming[i].path = p /\ IsLast(Coming, i) /\ Coming[i] \in Events
               /\ known[p].hash = Coming[i].entry.hash /\ known[p].type = Coming[i].entry.type
               /\ Holds(disk', p, Coming[i].entry) /\ Exists(elements'[conn], p)
               /\ elements'[conn][p].lwt = Coming[i].entry.lwt
               /\ serverUp' /\ recovered'[conn] /\ link'[conn] = "open"
<1>1. /\ ClientOK /\ EventsTold /\ RemovedAway /\ Resting /\ Backed /\ Stale
  BY DEF IInv, Saved
<1>2. /\ UNCHANGED <<window, cur, queue, known, folder, flipped, excused, clientDb, pc, scan, conn>>
  BY DEF watcherVars, clientVars
<1>3. Coming' = Coming /\ ToRecover' = ToRecover
  BY <1>2 DEF Coming, ToRecover
<1>5. /\ conn \in Conn /\ s2c[conn] \in Seq(Reply) /\ c2s[conn] \in Seq(Request)
      /\ window \in Seq(Events) /\ cur \in Seq(Events) /\ queue \in Seq(Events)
      /\ Len(s2c[conn]) \in Nat /\ Len(c2s[conn]) \in Nat /\ Len(c2s[conn]) >= 1
      /\ Head(c2s[conn]) = c2s[conn][1] /\ 1 \in DOMAIN c2s[conn] /\ DOMAIN c2s[conn] = 1 .. Len(c2s[conn])
  <2>1. conn \in Conn /\ s2c[conn] \in Seq(Reply) /\ c2s[conn] \in Seq(Request)
    BY <1>1, ClientFacts
  <2> QED BY <1>1, <2>1, ClientFacts
<1> DEFINE i == Len(s2c[conn]) + 1
           r == Head(c2s[conn])
<1>6. PICK kind : /\ s2c'[conn] = Append(s2c[conn], [kind |-> kind, re |-> r])
                  /\ kind \in OkCode /\ r.op \in {"PROB", "STOR", "MKD"} =>
                        /\ Holds(disk', r.path, r.entry)
                        /\ Exists(elements'[conn], r.path) /\ elements'[conn][r.path].lwt = r.entry.lwt
                        /\ serverUp' /\ recovered'[conn] /\ link'[conn] = "open"
  BY DEF Does
<1>7. /\ Replies = Len(s2c[conn]) /\ Replies' = i /\ i \in Nat
      /\ s2c'[conn][i].kind = kind
      /\ \A j \in 1 .. Replies : s2c'[conn][j] = s2c[conn][j]
  BY <1>2, <1>5, <1>6 DEF Replies
<1>8. i \in 1 .. Len(window) /\ Asked(r) = RequestOf(window[i])
  <2>1. pc \notin {"off", "down"}
    BY <1>1 DEF ClientOK, Control
  <2>2. Sent \in Nat /\ Sent <= Len(window) /\ Len(window) \in Nat
    BY <1>1, <1>5, <2>1, SentIsInWindow
  <2>3. /\ Len(s2c[conn]) + Len(c2s[conn]) = Sent
        /\ \A x \in 1 .. Len(c2s[conn]) : Asked(c2s[conn][x]) = RequestOf(window[Len(s2c[conn]) + x])
    BY DEF InOrder, Matches
  <2>4. \A a, b, s, n \in Nat : a + b = s /\ s <= n => \A x \in 1 .. b : a + x \in 1 .. n
    OBVIOUS
  <2>5. i \in 1 .. Len(window)
    BY <1>5, <2>2, <2>3, <2>4, Zenon
  <2> QED BY <1>5, <2>3, <2>5
<1> HIDE DEF i
<1>9. i \in DOMAIN Coming /\ Coming[i] = window[i] /\ DOMAIN Coming \subseteq Nat
  <2>1. /\ DOMAIN Coming = 1 .. Len(window) + Len(cur) + Len(queue) /\ Coming[i] = window[i]
        /\ Len(cur) \in Nat /\ Len(queue) \in Nat /\ Len(window) \in Nat
    BY <1>5, <1>8, LineIs DEF Coming
  <2> QED BY <1>8, <2>1
<1>10. PICK ev : ev = window[i]
  OBVIOUS
<1>11. ev \in Events /\ ev \in KindEvents
  <2>1. window \in Seq(KindEvents)
    BY DEF AllOfTheirKind, ClientKinds
  <2> QED BY <1>5, <1>8, <1>10, <2>1, ElementOfSeq
<1>12. r.op = OpOf(ev) /\ r.path = ev.path /\ r.entry = ev.entry
  <2>1. r \in Request
    BY <1>5
  <2>2. Asked(r).op = r.op /\ Asked(r).path = r.path /\ Asked(r).entry = r.entry
    BY <2>1 DEF Asked, Request
  <2> QED BY <1>8, <1>10, <2>2 DEF RequestOf
<1>13. \A j \in DOMAIN Coming : j > Replies => j = i \/ j > Replies'
  <2>1. i = Replies + 1
    BY <1>7 DEF i
  <2> QED BY <1>7, <1>9, <2>1
<1>14. /\ pc # "down" /\ p \notin ToRecover /\ ~Out(p) /\ Exists(known, p)
  BY <1>2, <1>3 DEF Exposed, Out, Exists
<1>15. ASSUME NEW j \in DOMAIN Coming, Coming[j].path = p PROVE ~(j > Replies')
  BY <1>3, <1>15 DEF Exposed, Unanswered
<1>16. CASE p # ev.path
  <2>1. ~Unanswered(p)
    BY <1>9, <1>10, <1>13, <1>15, <1>16 DEF Unanswered
  <2>2. Exposed(p)
    BY <1>14, <2>1 DEF Exposed
  <2>3. ASSUME NEW j \in DOMAIN Coming, Coming[j].path = p PROVE s2c'[conn][j] = s2c[conn][j]
    <3>1. ~(j > Replies) /\ j \in Nat /\ j >= 1
      <4>1. j >= 1
        BY <2>3 DEF Coming, Line
      <4> QED BY <1>9, <2>1, <2>3, <4>1 DEF Unanswered
    <3>2. j \in 1 .. Replies
      BY <1>5, <1>7, <3>1
    <3> QED BY <1>7, <3>2
  <2>4. Acknowledged(p)
    BY <1>2, <1>3, <2>3 DEF Acknowledged, IsComing
  <2>5. p \notin Affected(r)
    <3>1. ~(p \in Affected(c2s[conn][1]))
      BY <1>1, <1>5, <2>2, AllUnexposed
    <3> QED BY <1>5, <3>1
  <2> QED BY <2>2, <2>4, <2>5
<1>17. CASE p = ev.path
  <2>1. IsLast(Coming, i) /\ Coming[i].path = p
    <3>1. ASSUME NEW j \in DOMAIN Coming, j > i, Coming[j].path = p PROVE FALSE
      BY <1>7, <1>15, <3>1
    <3> QED BY <1>9, <1>10, <1>17, <3>1 DEF IsLast
  <2>2. kind \in OkCode
    <3>1. s2c'[conn][i].kind \in OkCode
      BY <1>2, <1>3, <1>9, <2>1 DEF Acknowledged
    <3> QED BY <1>7, <3>1
  <2>3. Told(ev)
    BY <1>1, <1>9, <1>10, <1>11, <2>1 DEF EventsTold
  <2>4. ev.type # "deleted" /\ known[p].hash = ev.entry.hash
    BY <1>14, <1>17, <2>3 DEF Told
  <2>5. OpOf(ev) \in {"PROB", "STOR", "MKD"}
    BY <2>4 DEF OpOf
  <2>6. /\ Holds(disk', p, ev.entry) /\ Exists(elements'[conn], p) /\ elements'[conn][p].lwt = ev.entry.lwt
        /\ serverUp' /\ recovered'[conn] /\ link'[conn] = "open"
    BY <1>6, <1>12, <1>17, <2>2, <2>5
  <2>7. known[p].type = ev.entry.type
    <3>1. known[p].type \in Kinds[p]
      BY <1>14 DEF AllOfTheirKind, WatcherKinds, OfItsKind
    <3>2. ev.entry.type \in Kinds[p]
      BY <1>11, <1>17 DEF KindEvents
    <3> QED BY <3>1, <3>2 DEF KindsFixed
  <2> QED BY <1>9, <1>10, <1>11, <2>1, <2>4, <2>6, <2>7
<1> QED BY <1>16, <1>17

LEMMA ReplySaves ==
  ASSUME KindsFixed, IInv, IInv', AllOfTheirKind, InOrder, Saved, UNCHANGED <<watcherVars, clientVars>>,
         ~outOfStep, conn # NoConn, link[conn] = "open", c2s[conn] # <<>>, Does(conn), Leaves(conn),
         SessionKnowsDisk', SessionKnowsTable'
  PROVE  EventsTold' /\ RemovedAway' /\ Resting' /\ Backed'
<1>1. /\ ClientOK /\ EventsTold /\ RemovedAway /\ Resting /\ Backed /\ Stale
  BY DEF IInv, Saved
<1>2. /\ UNCHANGED <<window, cur, queue, known, folder, flipped, excused, clientDb, pc, scan, conn>>
  BY DEF watcherVars, clientVars
<1>3. Coming' = Coming
  BY <1>2 DEF Coming
<1>4. EventsTold' /\ RemovedAway' /\ Resting'
  <2>1. EventsTold'
    BY <1>1, <1>2, <1>3 DEF EventsTold, Told, Out, Exists
  <2>2. RemovedAway'
    BY <1>1, <1>2, <1>3 DEF RemovedAway, Away, Out, Exists
  <2>3. Resting'
    BY <1>1, <1>2 DEF Resting
  <2> QED BY <2>1, <2>2, <2>3
<1>5. conn \in Conn
  BY <1>1, ClientFacts
<1>6. ASSUME NEW p \in Path, Exposed(p)', Acknowledged(p)' PROVE SameContent(known, disk, p)' /\ Fits(p)'
  <2>1. Exists(known, p)
    BY <1>2, <1>6 DEF Exposed, Exists
  <2>2. CASE Exposed(p) /\ Acknowledged(p) /\ p \notin Affected(Head(c2s[conn]))
    <3>1. SameContent(known, disk, p) /\ Fits(p)
      BY <1>1, <2>2 DEF Backed
    <3>2. Stands(p)
      BY <2>2 DEF Leaves
    <3> QED BY <1>2, <2>1, <3>1, <3>2 DEF Stands, Remains, SameContent, Exists
  <2>3. ASSUME NEW e, known[p].hash = e.hash, known[p].type = e.type, Holds(disk', p, e),
               Exists(elements'[conn], p), serverUp', recovered'[conn], link'[conn] = "open"
        PROVE  SameContent(known, disk, p)' /\ Fits(p)'
    <3>1. KnowsRows(elements'[conn], rows') /\ SameEntry(elements'[conn], disk', p)
      BY <1>2, <1>5, <2>3 DEF SessionKnowsDisk, SessionKnowsTable
    <3>2. Len(rows'[p]) = 1 /\ rows'[p][1].hash = elements'[conn][p].hash
      BY <2>3, <3>1 DEF KnowsRows, Lists
    <3>3. elements'[conn][p].hash = disk'[p].hash
      BY <2>3, <3>1 DEF SameEntry, SameContent
    <3>4. Len(<<>>) # 1
      OBVIOUS
    <3>5. Fits(p)'
      BY <3>2, <3>3, <3>4 DEF Fits
    <3> QED BY <1>2, <2>1, <2>3, <3>5 DEF Holds, SameContent, Exists
  <2> QED BY <1>6, <2>2, <2>3, ReplyExposes
<1>7. Backed'
  BY <1>6 DEF Backed
<1> QED BY <1>4, <1>7

LEMMA ServeReads ==
  ASSUME ServerOK, NEW c \in Conn, Serve(c), UNCHANGED clientVars
  PROVE  OldRequests /\ (outOfStep => outOfStep') /\ (link[c] # "open" => s2c' = s2c)
<1>1. c2s \in [Conn -> Seq(Request)]
  BY ServerFacts DEF NetTypeOK
<1>2. ASSUME \A d \in Conn : c2s'[d] = c2s[d] \/ c2s'[d] = <<>> PROVE OldRequests
  <2> SUFFICES ASSUME NEW d \in Conn, NEW k \in DOMAIN c2s'[d]
               PROVE  \E j \in DOMAIN c2s[d] : c2s'[d][k] = c2s[d][j]
    BY DEF OldRequests
  <2>1. c2s'[d] # <<>>
    <3>1. DOMAIN <<>> = {}
      OBVIOUS
    <3> QED BY <3>1
  <2>2. c2s'[d] = c2s[d]
    BY <1>2, <2>1
  <2> QED BY <2>2
<1>3. ASSUME c2s[c] # <<>>, c2s' = [c2s EXCEPT ![c] = Tail(@)] PROVE OldRequests
  <2> SUFFICES ASSUME NEW d \in Conn, NEW k \in DOMAIN c2s'[d]
               PROVE  \E j \in DOMAIN c2s[d] : c2s'[d][k] = c2s[d][j]
    BY DEF OldRequests
  <2>1. CASE d # c
    <3>1. c2s'[d] = c2s[d]
      BY <1>1, <1>3, <2>1
    <3> QED BY <3>1
  <2>2. CASE d = c
    <3>1. PICK q : q = c2s[c]
      OBVIOUS
    <3>2. c2s'[d] = Tail(q) /\ q \in Seq(Request) /\ q # <<>>
      BY <1>1, <1>3, <2>2, <3>1
    <3>3. k \in DOMAIN Tail(q)
      BY <3>2
    <3>4. k + 1 \in DOMAIN q /\ Tail(q)[k] = q[k + 1]
      BY <3>2, <3>3
    <3> QED BY <2>2, <3>1, <3>2, <3>4
  <2> QED BY <2>1, <2>2
<1>4. ASSUME NEW kind, Answer(c, kind), c2s[c] # <<>>
      PROVE  OldRequests /\ outOfStep' = outOfStep /\ (link[c] # "open" => s2c' = s2c)
  BY <1>3, <1>4 DEF Answer
<1>5. ASSUME NEW kind, JustAnswer(c, kind), c2s[c] # <<>>
      PROVE  OldRequests /\ outOfStep' = outOfStep /\ (link[c] # "open" => s2c' = s2c)
  BY <1>4, <1>5 DEF JustAnswer
<1>6. ASSUME Fail(c) PROVE OldRequests /\ outOfStep' = outOfStep /\ (link[c] # "open" => s2c' = s2c)
  BY <1>2, <1>6 DEF Fail
<1>7. CASE RecoverFromDB(c)
  <2>1. c2s' = c2s /\ s2c' = s2c /\ outOfStep' = outOfStep
    BY <1>7 DEF RecoverFromDB, netVars
  <2> QED BY <1>2, <2>1
<1>8. CASE Reject(c)
  <2>1. c2s' = [c2s EXCEPT ![c] = Tail(@)] /\ s2c' = s2c /\ c2s[c] # <<>> /\ outOfStep'
    BY <1>8 DEF Reject
  <2> QED BY <1>3, <2>1
<1>9. CASE EndSession(c)
  <2>1. c2s' = [c2s EXCEPT ![c] = <<>>] /\ s2c' = s2c /\ outOfStep' = outOfStep
    BY <1>9 DEF EndSession
  <2>2. \A d \in Conn : c2s'[d] = c2s[d] \/ c2s'[d] = <<>>
    BY <1>1, <2>1
  <2> QED BY <1>2, <2>1, <2>2
<1>10. CASE Probe(c) \/ StoreFile(c) \/ RemoveFile(c) \/ MakeDir(c) \/ RemoveDir(c)
  <2>1. c2s[c] # <<>>
    BY <1>10 DEF Probe, StoreFile, RemoveFile, MakeDir, RemoveDir, Handling
  <2>2. (\E kind : Answer(c, kind) \/ JustAnswer(c, kind)) \/ Fail(c)
    BY <1>10, Zenon DEF Probe, StoreFile, RemoveFile, MakeDir, RemoveDir, NothingThere
  <2> QED BY <1>4, <1>5, <1>6, <2>1, <2>2, SMTT(20)
<1> QED BY <1>7, <1>8, <1>9, <1>10 DEF Serve

\* Whatever is promised, a client that is out of step is promised nothing.
LEMMA OutOfStepSaves ==
  ASSUME Saved, UNCHANGED <<watcherVars, clientVars>>, outOfStep'
  PROVE  Saved'
<1>1. EventsTold /\ RemovedAway /\ Resting
  BY DEF Saved
<1>2. /\ UNCHANGED <<window, cur, queue, known, folder, flipped, excused, clientDb, pc, scan, conn>>
  BY DEF watcherVars, clientVars
<1>3. Coming' = Coming
  BY <1>2 DEF Coming
<1>4. EventsTold'
  BY <1>1, <1>2, <1>3 DEF EventsTold, Told, Out, Exists
<1>5. RemovedAway'
  BY <1>1, <1>2, <1>3 DEF RemovedAway, Away, Out, Exists
<1>6. Resting'
  BY <1>1, <1>2 DEF Resting
<1>7. Backed' /\ Stale'
  BY DEF Backed, Stale
<1> QED BY <1>4, <1>5, <1>6, <1>7 DEF Saved

LEMMA ServerSaves ==
  ASSUME NEW s, Conn = {s}, KindsFixed, IInv, IInv', AllOfTheirKind, InOrder, SessionKnowsDisk,
         SessionKnowsDisk', SessionKnowsTable', Saved, NEW c \in Conn, Server(c)
  PROVE  Saved'
<1>1. /\ Serve(c) /\ UNCHANGED <<watcherVars, clientVars>>
      /\ ServerOK /\ ClientOK /\ Stale /\ RemovedAway /\ RequestKinds /\ OfItsKind(disk)
  BY InvariantParts DEF Server, IInv, Saved, AllOfTheirKind
<1>2. Leaves(c)
  BY <1>1, HandlersLeave
<1>3. OldRequests /\ (outOfStep => outOfStep') /\ (link[c] # "open" => s2c' = s2c)
  <2>1. UNCHANGED clientVars
    BY <1>1
  <2> QED BY <1>1, <2>1, ServeReads
<1>4. conn \in Conn \cup {NoConn} /\ c2s[c] \in Seq(Request)
  BY <1>1, ClientFacts
<1>5. ASSUME NEW p \in Path, ~Stands(p), ~outOfStep PROVE ~Exposed(p)
  <2>1. c2s[c] # <<>> /\ p \in Affected(Head(c2s[c]))
    BY <1>2, <1>5 DEF Leaves
  <2>2. 1 \in DOMAIN c2s[c] /\ Head(c2s[c]) = c2s[c][1]
    BY <1>4, <2>1
  <2> QED BY <1>1, <1>5, <2>1, <2>2, AllUnexposed
<1>6. ASSUME conn # NoConn => s2c'[conn] = s2c[conn] PROVE Saved'
  BY <1>1, <1>3, <1>5, <1>6, TheSameSaves
<1>7. CASE s2c' = s2c \/ conn # c
  BY <1>4, <1>6, <1>7
<1>8. CASE outOfStep
  BY <1>1, <1>3, <1>8, OutOfStepSaves
<1>9. CASE s2c' # s2c /\ conn = c /\ ~outOfStep
  <2>1. link[c] = "open"
    BY <1>3, <1>9
  <2>2. serverUp
    BY <1>1, Zenon DEF Serve, RecoverFromDB, Reject, EndSession, Probe, StoreFile, RemoveFile, MakeDir,
       RemoveDir, Handling
  <2>3. recovered[c] => Knows(elements[c], disk)
    <3>1. link[c] # "none"
      BY <2>1
    <3> QED BY <2>2, <3>1 DEF SessionKnowsDisk, Knows
  <2>4. c2s[c] # <<>> /\ Does(c)
    BY <1>1, <1>9, <2>1, <2>3, HandlersDo
  <2>5. conn # NoConn
    BY <1>9, NetAssumption
  <2>6. EventsTold' /\ RemovedAway' /\ Resting' /\ Backed'
    BY <1>1, <1>2, <1>9, <2>1, <2>4, <2>5, ReplySaves
  <2>7. Stale'
    <3> SUFFICES ASSUME NEW d \in Conn, conn' # d \/ link'[d] # "open", NEW k \in DOMAIN c2s'[d] PROVE FALSE
      BY DEF Stale
    <3>1. d = c /\ conn' = c
      BY <1>1, <1>9 DEF clientVars
    <3>2. c2s'[d] = <<>>
      BY <2>4, <3>1 DEF Does
    <3>3. DOMAIN <<>> = {}
      OBVIOUS
    <3> QED BY <3>2, <3>3
  <2> QED BY <2>6, <2>7 DEF Saved
<1> QED BY <1>7, <1>8, <1>9

LEMMA DeathSaves ==
  ASSUME IInv, InOrder, Saved, ServerDies
  PROVE  Saved'
<1>1. /\ UNCHANGED <<watcherVars, clientVars, s2c, outOfStep>> /\ c2s' = [c \in Conn |-> <<>>]
      /\ ServerOK /\ ClientOK /\ Stale /\ RemovedAway
  BY InvariantParts DEF ServerDies, Crash, CrashInHandler, Halt, Saved
<1>2. OldRequests
  <2>1. \A c \in Conn : DOMAIN c2s'[c] = {}
    BY <1>1
  <2> QED BY <2>1 DEF OldRequests
<1>3. ASSUME NEW p \in Path, ~Stands(p), ~outOfStep PROVE ~Exposed(p)
  <2>1. CASE Crash
    BY <1>1, <1>3, <2>1 DEF Crash, Halt, Stands, Remains, SameContent, Exists, Fits
  <2>2. CASE \E c \in Conn : CrashInHandler(c)
    <3>1. PICK c \in Conn : CrashInHandler(c)
      BY <2>2
    <3>2. c2s[c] # <<>> /\ p \in Affected(Head(c2s[c]))
      BY <1>1, <1>3, <3>1, CrashLeaves DEF Leaves
    <3>3. c2s[c] \in Seq(Request)
      BY <1>1, ClientFacts
    <3>4. 1 \in DOMAIN c2s[c] /\ Head(c2s[c]) = c2s[c][1]
      BY <3>2, <3>3
    <3> QED BY <1>1, <1>3, <3>2, <3>4, AllUnexposed
  <2> QED BY <2>1, <2>2 DEF ServerDies
<1>4. conn # NoConn => s2c'[conn] = s2c[conn]
  BY <1>1
<1>5. UNCHANGED <<watcherVars, clientVars>> /\ (outOfStep => outOfStep')
  BY <1>1
<1> QED BY <1>2, <1>3, <1>4, <1>5, TheSameSaves

LEMMA BreakCalm ==
  ASSUME ClientOK, ConnectionBreaks
  PROVE  Undisturbed /\ OldRequests /\ UNCHANGED <<watcherVars, clientVars, serverVars, outOfStep>>
<1>1. UNCHANGED <<watcherVars, clientVars, serverVars>>
  BY DEF ConnectionBreaks
<1>2. PICK c \in Conn : Break(c)
  BY DEF ConnectionBreaks
<1>3. /\ c2s \in [Conn -> Seq(Request)] /\ s2c \in [Conn -> Seq(Reply)]
      /\ conn \in Conn \cup {NoConn}
  BY ClientFacts
<1>4. PICK s \in Prefixes(c2s[c]), u \in Prefixes(s2c[c]) :
         c2s' = [c2s EXCEPT ![c] = s] /\ s2c' = [s2c EXCEPT ![c] = u] /\ outOfStep' = outOfStep
  BY <1>2 DEF Break
<1>5. /\ DOMAIN s \subseteq DOMAIN c2s[c] /\ \A k \in DOMAIN s : s[k] = c2s[c][k]
  <2>1. PICK q : q = c2s[c]
    OBVIOUS
  <2>2. PICK n \in 0 .. Len(q) : s = SubSeq(q, 1, n)
    BY <2>1 DEF Prefixes
  <2>3. q \in Seq(Request)
    BY <1>3, <2>1
  <2> QED BY <2>1, <2>2, <2>3
<1>6. Len(u) \in Nat /\ Len(u) <= Len(s2c[c]) /\ \A i \in 1 .. Len(u) : u[i] = s2c[c][i]
  <2>1. PICK q : q = s2c[c]
    OBVIOUS
  <2>2. PICK n \in 0 .. Len(q) : u = SubSeq(q, 1, n)
    BY <2>1 DEF Prefixes
  <2>3. q \in Seq(Reply)
    BY <1>3, <2>1
  <2> QED BY <2>1, <2>2, <2>3
<1>7. OldRequests
  <2> SUFFICES ASSUME NEW d \in Conn, NEW k \in DOMAIN c2s'[d]
               PROVE  \E j \in DOMAIN c2s[d] : c2s'[d][k] = c2s[d][j]
    BY DEF OldRequests
  <2>1. CASE d = c
    <3>1. c2s'[d] = s
      BY <1>3, <1>4, <2>1
    <3> QED BY <1>5, <2>1, <3>1
  <2>2. CASE d # c
    <3>1. c2s'[d] = c2s[d]
      BY <1>3, <1>4, <2>2
    <3> QED BY <3>1
  <2> QED BY <2>1, <2>2
<1>8. /\ Replies' \in Nat /\ Replies' <= Replies
      /\ \A i \in 1 .. Replies' : s2c'[conn][i] = s2c[conn][i]
  <2>1. conn' = conn /\ Replies \in Nat
    BY <1>1, <1>3, ReplyCount DEF clientVars
  <2>2. CASE conn = NoConn
    <3>1. Replies = 0 /\ Replies' = 0
      BY <2>1, <2>2 DEF Replies
    <3> QED BY <3>1
  <2>3. CASE conn = c
    <3>1. s2c'[conn] = u
      BY <1>3, <1>4, <2>3
    <3>2. Replies = Len(s2c[c]) /\ Replies' = Len(u)
      BY <2>1, <2>3, <3>1, NetAssumption DEF Replies
    <3> QED BY <1>6, <2>3, <3>1, <3>2
  <2>4. CASE conn # NoConn /\ conn # c
    <3>1. s2c'[conn] = s2c[conn]
      BY <1>3, <1>4, <2>4
    <3>2. Replies' = Replies
      BY <2>1, <3>1 DEF Replies
    <3> QED BY <2>1, <3>1, <3>2
  <2> QED BY <2>2, <2>3, <2>4
<1>9. Undisturbed
  <2>1. UNCHANGED <<watcherVars, clientVars>>
    BY <1>1
  <2> QED BY <1>3, <1>8, <2>1, OtherSideCalm
<1> QED BY <1>1, <1>4, <1>7, <1>9

LEMMA BreakSaves ==
  ASSUME IInv, IInv', InOrder, Saved, Resting', ConnectionBreaks
  PROVE  Saved'
<1>1. UNCHANGED storeVars /\ (outOfStep => outOfStep') /\ Undisturbed /\ OldRequests
  BY BreakCalm DEF IInv, serverVars
<1> QED BY <1>1, UndisturbedSaves

LEMMA ConnectCalm ==
  ASSUME ClientOK, NEW c \in Conn, Connect(c)
  PROVE  Undisturbed /\ OldRequests
<1>1. /\ pc = "off" /\ pc' = "resend" /\ conn' = c
      /\ UNCHANGED <<cur, window, clientDb, excused, watcherVars, outOfStep, storeVars>>
      /\ c2s' = [c2s EXCEPT ![c] = <<>>] /\ s2c' = [s2c EXCEPT ![c] = <<>>]
  BY DEF Connect, ConnectTo
<1>2. /\ c2s \in [Conn -> Seq(Request)] /\ s2c \in [Conn -> Seq(Reply)]
  BY ClientFacts
<1>3. OldRequests
  <2> SUFFICES ASSUME NEW d \in Conn, NEW k \in DOMAIN c2s'[d]
               PROVE  \E j \in DOMAIN c2s[d] : c2s'[d][k] = c2s[d][j]
    BY DEF OldRequests
  <2>1. DOMAIN <<>> = {}
    OBVIOUS
  <2>2. c2s'[d] = c2s[d]
    BY <1>1, <1>2, <2>1
  <2> QED BY <2>2
<1>4. Replies' = 0
  <2>1. s2c'[c] = <<>> /\ c # NoConn
    BY <1>1, <1>2, NetAssumption
  <2>2. Len(<<>>) = 0
    OBVIOUS
  <2> QED BY <1>1, <2>1, <2>2 DEF Replies
<1>5. Replies \in Nat
  BY ReplyCount
<1>6. Coming' = Coming /\ ToRecover' = ToRecover
  BY <1>1 DEF Coming, ToRecover, watcherVars
<1>7. UNCHANGED <<known, folder, flipped, excused, clientDb>> /\ (pc = "down" => pc' = "down")
  BY <1>1 DEF watcherVars, folderVars
<1>8. Replies' \in Nat /\ Replies' <= Replies /\ \A i \in 1 .. Replies' : s2c'[conn'][i] = s2c[conn][i]
  BY <1>4, <1>5
<1>9. \A p \in ToRecover \ ToRecover' : Out(p)
  BY <1>6
<1>10. Undisturbed
  BY <1>6, <1>7, <1>8, <1>9, SameComing
<1> QED BY <1>3, <1>10

LEMMA ConnectSaves ==
  ASSUME IInv, IInv', InOrder, Saved, Resting', NEW c \in Conn, Connect(c)
  PROVE  Saved'
<1>1. UNCHANGED storeVars /\ outOfStep' = outOfStep
  BY DEF Connect
<1> QED BY <1>1, ConnectCalm, UndisturbedSaves DEF IInv

\* The client starts with what its database says, and offers all of it again.
LEMMA StartQuiet ==
  ASSUME ClientOK, Resting, StartClient
  PROVE  Quiet
<1>1. /\ queue' = <<>> /\ window' = <<>> /\ cur' = <<>>
  BY DEF StartClient, Resting
<1>2. DOMAIN Coming' = {}
  BY <1>1 DEF Coming, Line
<1>3. ASSUME NEW p \in Path, Exposed(p)' PROVE FALSE
  <2>1. scan' = Begin("recover", Listed(clientDb)) /\ known' = clientDb
    BY DEF StartClient
  <2>2. ToRecover' = Listed(clientDb)
    BY <2>1 DEF ToRecover, Begin
  <2>3. Exists(clientDb, p) /\ p \notin ToRecover'
    BY <1>3, <2>1 DEF Exposed, Exists
  <2> QED BY <2>2, <2>3 DEF Listed
<1> QED BY <1>2, <1>3 DEF Quiet

LEMMA StepSaves ==
  ASSUME NEW s, Conn = {s}, KindsFixed, IInv, IInv', AllOfTheirKind, InOrder, SessionKnowsDisk,
         SessionKnowsDisk', SessionKnowsTable', Saved, [Next]_vars
  PROVE  Saved'
<1>1. ClientOK /\ Resting /\ EventsTold /\ Resting'
  BY RestingStays, InvariantParts DEF Saved
<1>2. ASSUME c2s' = c2s PROVE OldRequests
  BY <1>2 DEF OldRequests
<1>3. CASE Users
  <2>1. UNCHANGED <<netVars, serverVars>>
    BY <1>3 DEF Users
  <2>2. c2s' = c2s /\ UNCHANGED storeVars /\ outOfStep' = outOfStep
    BY <2>1 DEF netVars, serverVars
  <2> QED BY <1>1, <1>2, <1>3, <2>2, UserCalm, UndisturbedSaves
<1>4. CASE Watcher
  <2>1. UNCHANGED <<netVars, serverVars>>
    BY <1>4 DEF Watcher
  <2>2. c2s' = c2s /\ UNCHANGED storeVars /\ outOfStep' = outOfStep
    BY <2>1 DEF netVars, serverVars
  <2> QED BY <1>1, <1>2, <1>4, <2>2, WatchCalm, UndisturbedSaves
<1>5. CASE WatcherFails \/ (Kill /\ UNCHANGED serverVars) \/ ClientGivesUp
  <2>1. Stop /\ queue' = <<>> /\ UNCHANGED serverVars
    BY <1>5 DEF WatcherFails, VanishUnderExamination, Kill, ClientGivesUp, GiveUp, StopAll
  <2>2. c2s' = c2s /\ UNCHANGED storeVars /\ outOfStep' = outOfStep
    BY <2>1 DEF Stop, serverVars
  <2> QED BY <1>1, <1>2, <2>1, <2>2, StopQuiet, UndisturbedSaves
<1>6. CASE Client
  <2>1. Communicate /\ UNCHANGED storeVars
    BY <1>6 DEF Client, serverVars
  <2> QED BY <1>1, <2>1, ClientCalm, ClientWritesOnce, UndisturbedSaves
<1>7. CASE \E c \in Conn : Connect(c)
  BY <1>1, <1>7, ConnectSaves
<1>8. CASE \E c \in Conn : Server(c)
  BY <1>8, ServerSaves
<1>9. CASE ServerDies
  BY <1>9, DeathSaves
<1>10. CASE ServerRestarts \/ UNCHANGED vars
  <2>1. UNCHANGED <<watcherVars, clientVars>> /\ c2s' = c2s /\ s2c' = s2c /\ UNCHANGED storeVars /\ outOfStep' = outOfStep
    BY <1>10 DEF ServerRestarts, Restart, vars, netVars, serverVars
  <2>2. \A p \in Path : Stands(p)
    BY <2>1 DEF Stands, Remains, SameContent, Exists, Fits, storeVars
  <2> QED BY <1>2, <2>1, <2>2, TheSameSaves
<1>11. CASE ConnectionBreaks
  BY <1>1, <1>11, BreakSaves
<1>12. CASE StartClient /\ UNCHANGED serverVars
  <2>1. c2s' = c2s /\ UNCHANGED storeVars /\ outOfStep' = outOfStep
    BY <1>12 DEF StartClient, netVars, serverVars
  <2> QED BY <1>1, <1>2, <1>12, <2>1, StartQuiet, UndisturbedSaves
<1>13. \/ Users \/ Watcher \/ WatcherFails \/ Client \/ (\E c \in Conn : Connect(c)) \/ (\E c \in Conn : Server(c))
       \/ ServerDies \/ ServerRestarts \/ ConnectionBreaks \/ UNCHANGED vars
       \/ (Kill /\ UNCHANGED serverVars) \/ (StartClient /\ UNCHANGED serverVars) \/ ClientGivesUp
  BY Zenon DEF Next, ClientRestarts
<1> QED BY <1>3, <1>4, <1>5, <1>6, <1>7, <1>8, <1>9, <1>10, <1>11, <1>12, <1>13, Zenon

LEMMA InitSaves ==
  ASSUME Init
  PROVE  Saved
<1>1. /\ folder = Initial /\ known = Initial /\ clientDb = Initial
      /\ queue = <<>> /\ window = <<>> /\ cur = <<>> /\ c2s = [c \in Conn |-> <<>>]
      /\ pc = "off" /\ scan = Begin("recover", Listed(Initial))
  BY DEF Init, WatcherInit, ClientInit, NetInit, ServerInit
<1>2. DOMAIN Coming = {}
  BY <1>1 DEF Coming, Line
<1>3. \A p \in Path : ~Exposed(p)
  BY <1>1 DEF Exposed, ToRecover, Begin, Listed
<1>4. Stale
  <2>1. \A c \in Conn : DOMAIN c2s[c] = {}
    BY <1>1
  <2> QED BY <2>1 DEF Stale
<1> QED BY <1>1, <1>2, <1>3, <1>4 DEF Saved, EventsTold, RemovedAway, Resting, Backed

LEMMA LineParts ==
  ASSUME NEW w \in Seq(Events), NEW c \in Seq(Events), NEW q \in Seq(Events), NEW i \in DOMAIN Line(w, c, q)
  PROVE  \/ \E k \in DOMAIN w : Line(w, c, q)[i] = w[k]
         \/ \E k \in DOMAIN c : Line(w, c, q)[i] = c[k]
         \/ \E k \in DOMAIN q : Line(w, c, q)[i] = q[k]
<1>1. /\ Len(w) \in Nat /\ Len(c) \in Nat /\ Len(q) \in Nat /\ i \in 1 .. Len(w) + Len(c) + Len(q)
      /\ DOMAIN w = 1 .. Len(w) /\ DOMAIN c = 1 .. Len(c) /\ DOMAIN q = 1 .. Len(q)
  BY DEF Line
<1>2. CASE i <= Len(w)
  <2>1. i \in DOMAIN w /\ Line(w, c, q)[i] = w[i]
    BY <1>1, <1>2 DEF Line
  <2> QED BY <2>1
<1>3. CASE i > Len(w) /\ i <= Len(w) + Len(c)
  <2>1. i - Len(w) \in DOMAIN c
    BY <1>1, <1>3
  <2>2. Line(w, c, q)[i] = c[i - Len(w)]
    BY <1>1, <1>3 DEF Line
  <2> QED BY <2>1, <2>2
<1>4. CASE i > Len(w) + Len(c)
  <2>1. i - Len(w) - Len(c) \in DOMAIN q
    BY <1>1, <1>4
  <2>2. Line(w, c, q)[i] = q[i - Len(w) - Len(c)]
    BY <1>1, <1>4 DEF Line
  <2> QED BY <2>1, <2>2
<1> QED BY <1>1, <1>2, <1>3, <1>4

LEMMA SavedIsBackedUp ==
  ASSUME IInv, Saved
  PROVE  BackedUp
<1> SUFFICES ASSUME pc # "down", NEW p \in Kept, Exists(folder, p), folder[p] = known[p], folder[p] = clientDb[p],
                    ({p} \cup Ancestors[p]) \cap Pending = {}
             PROVE  SameContent(folder, disk, p)
  BY DEF BackedUp
<1>1. ~outOfStep /\ p \in Path /\ p \notin excused \cup flipped
  BY DEF Kept
<1>2. p \notin Pending
  OBVIOUS
<1>3. ~IsComing(p)
  <2>1. ASSUME NEW i \in DOMAIN Coming, Coming[i].path = p PROVE FALSE
    <3>1. window \in Seq(Events) /\ cur \in Seq(Events) /\ queue \in Seq(Events)
      BY ClientFacts, InvariantParts
    <3>2. \/ \E k \in DOMAIN window : Coming[i] = window[k]
          \/ \E k \in DOMAIN cur : Coming[i] = cur[k]
          \/ \E k \in DOMAIN queue : Coming[i] = queue[k]
      <4>1. PICK w, c, q : w = window /\ c = cur /\ q = queue
        OBVIOUS
      <4>2. w \in Seq(Events) /\ c \in Seq(Events) /\ q \in Seq(Events) /\ i \in DOMAIN Line(w, c, q)
        BY <2>1, <3>1, <4>1 DEF Coming
      <4>3. \/ \E k \in DOMAIN w : Line(w, c, q)[i] = w[k]
            \/ \E k \in DOMAIN c : Line(w, c, q)[i] = c[k]
            \/ \E k \in DOMAIN q : Line(w, c, q)[i] = q[k]
        BY <4>2, LineParts
      <4> QED BY <4>1, <4>3 DEF Coming
    <3>3. p \in Paths(window) \cup Paths(cur) \cup Paths(queue)
      BY <2>1, <3>2 DEF Paths
    <3> QED BY <1>2, <3>3 DEF Pending
  <2> QED BY <2>1 DEF IsComing
<1>4. Exposed(p)
  <2>1. p \notin ToRecover
    BY <1>2 DEF Pending
  <2>2. Exists(known, p) /\ ~Out(p)
    BY <1>1 DEF Out, Exists
  <2>3. ~Unanswered(p)
    BY <1>3 DEF Unanswered, IsComing
  <2> QED BY <2>1, <2>2, <2>3 DEF Exposed
<1>5. Acknowledged(p)
  BY <1>3 DEF Acknowledged, IsComing
<1>6. SameContent(known, disk, p)
  BY <1>1, <1>4, <1>5 DEF Saved, Backed
<1> QED BY <1>6 DEF SameContent, Exists

LEMMA SavedAlways ==
  ASSUME NEW s, Conn = {s}, KindsFixed
  PROVE  Spec => [](AllOfTheirKind /\ InOrder /\ Saved)
<1> DEFINE Safe == AllOfTheirKind /\ InOrder /\ Saved
<1>1. Init => Safe
  <2> SUFFICES ASSUME Init PROVE Safe
    OBVIOUS
  <2>1. InOrder
    BY DEF Init, ClientInit, InOrder
  <2> QED BY <2>1, KindsInit, InitSaves
<1>2. /\ IInv /\ IInv' /\ SessionKnowsDisk /\ SessionKnowsDisk' /\ SessionKnowsTable' /\ Safe
      /\ [Next]_vars
      => Safe'
  <2> SUFFICES ASSUME IInv, IInv', SessionKnowsDisk, SessionKnowsDisk', SessionKnowsTable',
                      AllOfTheirKind, InOrder, Saved, [Next]_vars
               PROVE  Safe'
    OBVIOUS
  <2> QED BY KindsStay, OrderPreserved, StepSaves
<1>3. Spec => []SessionKnowsDisk
  BY SessionsAreRight
<1>4. Spec => [](OneRowEach /\ SessionKnowsTable)
  BY TableIsKnown
<1> QED BY Invariant, <1>1, <1>2, <1>3, <1>4, PTL DEF Spec

\* What the client counts as saved is in the backup, through every loss of the
\* connection, death of either program and resending of the window: an element on
\* which folder, watcher and client database agree, of which nothing is under way,
\* is on the server with that content (the handlers of server/ProtocolManager.cpp
\* and receive, client/ProtocolManager.cpp:301, together).  For a server that takes
\* one connection at a time and elements that never change between file and
\* directory: the one's handler can otherwise overtake the other's, and an MKD finds
\* a file of the same last write time and answers "created" (:918).
THEOREM NothingSavedIsLost ==
  ASSUME NEW s, Conn = {s}, KindsFixed
  PROVE  Spec => []BackedUp
<1>1. IInv /\ Saved => BackedUp
  BY SavedIsBackedUp
<1>2. Spec => [](AllOfTheirKind /\ InOrder /\ Saved)
  BY SavedAlways
<1> QED BY Invariant, <1>1, <1>2, PTL
-----------------------------------------------------------------------------
(* What a handler adds to the backup and takes from it, folder and table    *)
(* together.                                                                *)
\* No file and no row comes, and a row goes only where no file is left.
Quietly(p) == /\ IsFile(disk', p) => IsFile(disk, p)
              /\ rows'[p] # <<>> => rows[p] # <<>>
              /\ rows'[p] = <<>> => rows[p] = <<>> \/ ~IsFile(disk', p)
\* ... but for what is asked to be stored or made.
Puts(r, p) == p = r.path /\ (r.op = "STOR" \/ (r.op = "MKD" /\ rows'[p] # <<>>))
Adds(c) == \A p \in Path : Quietly(p) \/ (c2s[c] # <<>> /\ Puts(Head(c2s[c]), p))

LEMMA TouchMakesNoFile ==
  ASSUME NEW tree \in Tree, NEW Q, NEW t \in Time, NEW q \in Path, IsFile(Touch(tree, Q, t), q)
  PROVE  IsFile(tree, q)
<1>1. Touch(tree, Q, t) \in Tree
  BY TouchKeeps
<1>2. ~IsDir(Touch(tree, Q, t), q) /\ Exists(Touch(tree, Q, t), q)
  BY <1>1, Entries DEF IsFile
<1> QED BY <1>2, TouchKeeps, Entries

LEMMA CreateMakesNoFile ==
  ASSUME NEW tree \in Tree, NEW Q \in SUBSET Path, NEW t \in Time, NEW q \in Path,
         IsFile(CreateDirectories(tree, Q, t), q)
  PROVE  IsFile(tree, q)
<1>1. CreateDirectories(tree, Q, t) \in Tree
  BY CreateKeeps
<1>2. ~IsDir(CreateDirectories(tree, Q, t), q) /\ Exists(CreateDirectories(tree, Q, t), q)
  BY <1>1, Entries DEF IsFile
<1> QED BY <1>2, CreateKeeps, Entries

LEMMA StoredMakesNoFile ==
  ASSUME disk \in Tree, NEW p \in Path, NEW e \in Entry, NEW t \in Time, NEW q \in Path, q # p,
         IsFile(Stored(p, e, t), q)
  PROVE  IsFile(disk, q)
<1>1. Ancestors[p] \in SUBSET Path
  BY AncestorsArePaths
<1>2. WithParents(p, t) \in Tree
  BY <1>1, CreateKeeps DEF WithParents
<1>3. Stored(p, e, t)[q] = WithParents(p, t)[q]
  BY <1>2 DEF Stored, Tree
<1>4. IsFile(WithParents(p, t), q)
  BY <1>3 DEF IsFile, Exists
<1> QED BY <1>1, <1>4, CreateMakesNoFile DEF WithParents

LEMMA MadeMakesNoFile ==
  ASSUME disk \in Tree, NEW p \in Path, NEW t \in Time, NEW q \in Path, IsFile(Made(p, t), q)
  PROVE  IsFile(disk, q)
<1>1. Ancestors[p] \cup {p} \in SUBSET Path
  BY AncestorsArePaths
<1> QED BY <1>1, CreateMakesNoFile DEF Made

LEMMA MadeDirMakesNoFile ==
  ASSUME disk \in Tree, NEW p \in Path, NEW e \in Entry, NEW t \in Time, NEW q \in Path, q # p,
         IsFile(MadeDir(p, e, t), q)
  PROVE  IsFile(disk, q)
<1>1. MadeDir(p, e, t)[q] = KeepParentTime(disk, Made(p, t), p)[q]
  BY DEF MadeDir, KeepParentTime
<1>2. CASE KeepParentTime(disk, Made(p, t), p)[q] = disk[q]
  BY <1>1, <1>2 DEF IsFile, Exists
<1>3. CASE KeepParentTime(disk, Made(p, t), p)[q] = Made(p, t)[q]
  <2>1. IsFile(Made(p, t), q)
    BY <1>1, <1>3 DEF IsFile, Exists
  <2> QED BY <2>1, MadeMakesNoFile
<1> QED BY <1>2, <1>3 DEF KeepParentTime

LEMMA RecordIsARow ==
  ASSUME ServerOK, NEW c \in Conn, NEW p \in Path, NEW e \in Entry, Record(c, p, e),
         KnowsRows(elements[c], rows)
  PROVE  rows'[p] # <<>> /\ \A q \in Path \ {p} : rows'[q] = rows[q]
<1>1. /\ rows \in [Path -> Seq(Entry)] /\ elements \in [Conn -> Tree] /\ elements[c] \in Tree
  BY ServerFacts DEF ServerOK, ServerTypeOK
<1>2. KnowsRows(elements'[c], rows')
  BY RecordLists
<1>3. elements'[c][p] = e
  BY <1>1 DEF Record, Tree
<1>4. Exists(elements'[c], p)
  BY <1>3, EntryTypes DEF Exists
<1>5. Len(rows'[p]) = 1
  BY <1>2, <1>4 DEF KnowsRows, Lists
<1>6. Len(<<>>) # 1
  OBVIOUS
<1>7. \A q \in Path \ {p} : rows'[q] = rows[q]
  BY <1>1 DEF Record, Updated, Inserted
<1> QED BY <1>5, <1>6, <1>7

LEMMA HandlersAdd ==
  ASSUME ServerOK, NEW c \in Conn, Serve(c), recovered[c] => KnowsRows(elements[c], rows)
  PROVE  Adds(c)
<1> DEFINE p == Head(c2s[c]).path
           e == Head(c2s[c]).entry
<1>1. /\ disk \in Tree /\ WellFormed(disk) /\ NetTypeOK /\ rows \in [Path -> Seq(Entry)]
  BY ServerFacts
<1>2. ASSUME UNCHANGED storeVars PROVE Adds(c)
  BY <1>2 DEF Adds, Quietly, storeVars
<1>3. ASSUME NEW kind, JustAnswer(c, kind) PROVE Adds(c)
  BY <1>2, <1>3 DEF JustAnswer
<1>4. ASSUME Fail(c) PROVE Adds(c)
  BY <1>2, <1>4 DEF Fail
<1>5. ASSUME c2s[c] # <<>>
      PROVE  p \in Path /\ e \in Entry
  BY <1>1, <1>5, HeadRequest
<1>6. ASSUME NEW Q, Forget(c, Q), \A q \in Path : IsFile(disk', q) => IsFile(disk, q) /\ q \notin Q PROVE Adds(c)
  <2>1. rows' = [q \in Path |-> IF q \in Q THEN <<>> ELSE rows[q]]
    BY <1>6 DEF Forget, Deleted
  <2>2. ASSUME NEW q \in Path PROVE Quietly(q)
    <3>1. rows'[q] = rows[q] \/ (rows'[q] = <<>> /\ q \in Q)
      BY <2>1
    <3> QED BY <1>6, <3>1 DEF Quietly
  <2> QED BY <2>2 DEF Adds
<1>7. ASSUME c2s[c] # <<>>, Record(c, p, e), Head(c2s[c]).op \in {"STOR", "MKD"}, recovered[c],
             \A q \in Path \ {p} : IsFile(disk', q) => IsFile(disk, q)
      PROVE  Adds(c)
  <2>1. KnowsRows(elements[c], rows)
    BY <1>7
  <2>2. p \in Path /\ e \in Entry
    BY <1>5, <1>7
  <2>3. rows'[p] # <<>> /\ \A q \in Path \ {p} : rows'[q] = rows[q]
    BY <1>7, <2>1, <2>2, RecordIsARow
  <2>4. Puts(Head(c2s[c]), p)
    BY <1>7, <2>3 DEF Puts
  <2>5. \A q \in Path \ {p} : Quietly(q)
    BY <1>7, <2>3 DEF Quietly
  <2> QED BY <1>7, <2>4, <2>5 DEF Adds
<1>8. ASSUME NothingThere(c, p) PROVE Adds(c)
  <2>1. CASE JustAnswer(c, "notThere")
    BY <1>3, <2>1
  <2>2. CASE ~Exists(disk, p) /\ Forget(c, {p}) /\ disk' = disk
    <3>1. \A q \in Path : IsFile(disk', q) => IsFile(disk, q) /\ q \notin {p}
      BY <2>2 DEF IsFile
    <3> QED BY <1>6, <2>2, <3>1
  <2> QED BY <1>8, <2>1, <2>2 DEF NothingThere
<1>9. CASE RecoverFromDB(c)
  <2> SUFFICES ASSUME NEW q \in Path PROVE Quietly(q)
    BY DEF Adds
  <2>1. disk' = disk /\ rows'[q] = IF Exists(disk, q) THEN [i \in DOMAIN rows[q] |-> disk[q]] ELSE <<>>
    BY <1>9 DEF RecoverFromDB
  <2>2. CASE ~Exists(disk, q)
    BY <2>1, <2>2 DEF Quietly, IsFile
  <2>3. CASE Exists(disk, q)
    <3>1. rows'[q] = [i \in DOMAIN rows[q] |-> disk[q]]
      BY <2>1, <2>3
    <3>2. rows[q] = <<>> => rows'[q] = <<>>
      BY <3>1
    <3>3. rows'[q] = <<>> => rows[q] = <<>>
      <4>1. rows[q] \in Seq(Entry) /\ DOMAIN rows[q] = 1 .. Len(rows[q]) /\ Len(rows[q]) \in Nat
        BY <1>1
      <4>2. DOMAIN <<>> = {} /\ DOMAIN rows[q] = DOMAIN rows'[q]
        BY <3>1
      <4>3. ASSUME rows'[q] = <<>> PROVE Len(rows[q]) = 0
        <5>1. DOMAIN rows[q] = {}
          BY <4>2, <4>3
        <5>2. \A n \in Nat : 1 .. n = {} => n = 0
          OBVIOUS
        <5>3. Len(rows[q]) \in Nat /\ 1 .. Len(rows[q]) = {}
          BY <4>1, <5>1
        <5> QED BY <5>2, <5>3, Zenon
      <4> QED BY <4>1, <4>3, EmptySeq
    <3> QED BY <2>1, <3>2, <3>3 DEF Quietly
  <2> QED BY <2>2, <2>3
<1>10. CASE Reject(c) \/ EndSession(c)
  BY <1>2, <1>10 DEF Reject, EndSession, serverVars
<1>11. CASE Probe(c)
  <2>1. c2s[c] # <<>>
    BY <1>11 DEF Probe, Handling
  <2>2. \/ \E kind : JustAnswer(c, kind)
        \/ Fail(c)
        \/ Exists(disk, p) /\ disk' = [disk EXCEPT ![p].lwt = e.lwt] /\ rows' = rows
    BY <1>11, Zenon DEF Probe
  <2>3. CASE Exists(disk, p) /\ disk' = [disk EXCEPT ![p].lwt = e.lwt] /\ rows' = rows
    <3>1. p \in Path
      BY <1>5, <2>1
    <3> HIDE DEF p, e
    <3>2. disk[p] \in Entry
      BY <1>1, <2>3, <3>1, Entries
    <3>3. \A q \in Path \ {p} : disk'[q] = disk[q]
      BY <1>1, <2>3 DEF Tree
    <3>4. disk'[p] = [disk[p] EXCEPT !.lwt = e.lwt]
      BY <1>1, <2>3, <3>1 DEF Tree
    <3>5. disk'[p].type = disk[p].type
      BY <3>2, <3>4 DEF Entry
    <3>6. \A q \in Path : IsFile(disk', q) => IsFile(disk, q)
      BY <2>3, <3>3, <3>5 DEF IsFile, Exists
    <3> QED BY <2>3, <3>6 DEF Adds, Quietly
  <2> QED BY <1>3, <1>4, <2>2, <2>3
<1>12. CASE StoreFile(c)
  <2>1. c2s[c] # <<>> /\ Head(c2s[c]).op = "STOR" /\ recovered[c]
    BY <1>12 DEF StoreFile, Handling
  <2>2. \/ \E kind : JustAnswer(c, kind)
        \/ Fail(c)
        \/ (\E t \in Time : disk' = Stored(p, e, t)) /\ Record(c, p, e)
    BY <1>12, Zenon DEF StoreFile
  <2>3. CASE (\E t \in Time : disk' = Stored(p, e, t)) /\ Record(c, p, e)
    <3>1. p \in Path /\ e \in Entry
      BY <1>5, <2>1
    <3>2. \A q \in Path \ {p} : IsFile(disk', q) => IsFile(disk, q)
      <4> HIDE DEF p, e
      <4> QED BY <1>1, <2>3, <3>1, StoredMakesNoFile
    <3> QED BY <1>7, <2>1, <2>3, <3>2
  <2> QED BY <1>3, <1>4, <2>2, <2>3
<1>13. CASE RemoveFile(c)
  <2>2. \/ NothingThere(c, p)
        \/ \E kind : JustAnswer(c, kind)
        \/ Fail(c)
        \/ disk' = [disk EXCEPT ![p] = Absent] /\ Forget(c, {p})
    BY <1>13, Zenon DEF RemoveFile
  <2>3. CASE disk' = [disk EXCEPT ![p] = Absent] /\ Forget(c, {p})
    <3>1. \A q \in Path : IsFile(disk', q) => IsFile(disk, q) /\ q \notin {p}
      <4> HIDE DEF p, e
      <4> QED BY <1>1, <2>3 DEF Tree, IsFile, Exists
    <3> QED BY <1>6, <2>3, <3>1
  <2> QED BY <1>3, <1>4, <1>8, <2>2, <2>3
<1>14. CASE MakeDir(c)
  <2>1. c2s[c] # <<>> /\ Head(c2s[c]).op = "MKD" /\ recovered[c]
    BY <1>14 DEF MakeDir, Handling
  <2>2. \/ \E kind : JustAnswer(c, kind)
        \/ Fail(c)
        \/ (\E t \in Time : disk' = MadeDir(p, e, t)) /\ Record(c, p, e)
    BY <1>14, Zenon DEF MakeDir
  <2>3. CASE (\E t \in Time : disk' = MadeDir(p, e, t)) /\ Record(c, p, e)
    <3>1. p \in Path /\ e \in Entry
      BY <1>5, <2>1
    <3>2. \A q \in Path \ {p} : IsFile(disk', q) => IsFile(disk, q)
      <4> HIDE DEF p, e
      <4> QED BY <1>1, <2>3, <3>1, MadeDirMakesNoFile
    <3> QED BY <1>7, <2>1, <2>3, <3>2
  <2> QED BY <1>3, <1>4, <2>2, <2>3
<1>15. CASE RemoveDir(c)
  <2>1. c2s[c] # <<>>
    BY <1>15 DEF RemoveDir, Handling
  <2>2. \/ NothingThere(c, p)
        \/ \E kind : JustAnswer(c, kind)
        \/ Fail(c)
        \/ disk' = RemoveAll(disk, p) /\ Forget(c, {p} \cup (Below(p) \cap Listed(disk)))
    BY <1>15, Zenon DEF RemoveDir
  <2>3. CASE disk' = RemoveAll(disk, p) /\ Forget(c, {p} \cup (Below(p) \cap Listed(disk)))
    <3>1. p \in Path
      BY <1>5, <2>1
    <3>2. \A q \in Path : IsFile(disk', q) => IsFile(disk, q) /\ q \notin {p} \cup (Below(p) \cap Listed(disk))
      <4> HIDE DEF p, e
      <4> QED BY <1>1, <2>3, <3>1 DEF RemoveAll, IsFile, Exists
    <3> QED BY <1>6, <2>3, <3>2
  <2> QED BY <1>3, <1>4, <1>8, <2>2, <2>3
<1> QED BY <1>9, <1>10, <1>11, <1>12, <1>13, <1>14, <1>15 DEF Serve

LEMMA WithoutMakesNoFile ==
  ASSUME disk \in Tree, NEW R, NEW t \in Time, NEW q \in Path, IsFile(Without(R, t), q)
  PROVE  IsFile(disk, q)
<1> DEFINE tree == [r \in Path |-> IF r \in R THEN Absent ELSE disk[r]]
<1>1. tree \in Tree /\ (IsFile(tree, q) => IsFile(disk, q))
  BY DEF Tree, IsFile, Exists
<1> HIDE DEF tree
<1>2. IsFile(Touch(tree, UNION {Parent(r) : r \in R}, t), q) => IsFile(tree, q)
  BY <1>1, TouchMakesNoFile
<1> QED BY <1>1, <1>2 DEF Without, tree

LEMMA CrashAdds ==
  ASSUME ServerOK, NEW c \in Conn, CrashInHandler(c)
  PROVE  Adds(c)
<1> DEFINE p == Head(c2s[c]).path
           e == Head(c2s[c]).entry
           op == Head(c2s[c]).op
<1>1. disk \in Tree /\ WellFormed(disk) /\ NetTypeOK /\ rows' = rows
  BY ServerFacts DEF CrashInHandler, Halt
<1>2. c2s[c] # <<>> /\ CutOff(c)
  BY CrashCuts DEF CutOff
<1>3. p \in Path /\ e \in Entry /\ (op = "MKD" => e.type = "directory")
  BY <1>1, <1>2, HeadRequest
<1>4. ASSUME NEW q \in Path, IsFile(disk', q) => IsFile(disk, q) PROVE Quietly(q)
  BY <1>1, <1>4 DEF Quietly
<1>5. ASSUME NEW t \in Time, op = "STOR", Reachable(disk, p), ~IsDir(disk, p),
             disk' \in {Stored(p, e, t), Touch(Stored(p, e, t), Parent(p), t)}
      PROVE  Adds(c)
  <2>1. Puts(Head(c2s[c]), p)
    BY <1>3, <1>5 DEF Puts
  <2>2. ASSUME NEW q \in Path \ {p} PROVE Quietly(q)
    <3> HIDE DEF p, e
    <3>1. disk' = Stored(p, e, t) \/ disk' = Touch(Stored(p, e, t), Parent(p), t)
      BY <1>5
    <3>2. Stored(p, e, t) \in Tree
      BY <1>1, <1>3, <1>5, StoredKeeps
    <3>3. IsFile(disk', q) => IsFile(Stored(p, e, t), q)
      BY <3>1, <3>2, TouchMakesNoFile
    <3>4. IsFile(disk', q) => IsFile(disk, q)
      BY <1>1, <1>3, <3>3, StoredMakesNoFile
    <3> QED BY <1>4, <3>4
  <2> QED BY <1>2, <2>1, <2>2 DEF Adds
<1>6. ASSUME NEW t \in Time, NEW a \in Ancestors[p] \cup {p}, disk' = Made(a, t) PROVE Adds(c)
  <2>1. a \in Path
    BY <1>3, AncestorsArePaths
  <2>2. \A q \in Path : IsFile(disk', q) => IsFile(disk, q)
    BY <1>1, <1>6, <2>1, MadeMakesNoFile
  <2> QED BY <1>4, <2>2 DEF Adds
<1>7. ASSUME NEW t \in Time, op = "MKD", disk' \in {[Made(p, t) EXCEPT ![p] = e], MadeDir(p, e, t)} PROVE Adds(c)
  <2>0. e.type = "directory"
    BY <1>3, <1>7
  <2> HIDE DEF p, e
  <2>1. ~IsFile(MadeDir(p, e, t), p) /\ ~IsFile([Made(p, t) EXCEPT ![p] = e], p)
    <3>1. MadeDir(p, e, t)[p] = e /\ [Made(p, t) EXCEPT ![p] = e][p] = e
      BY <1>1, <1>3 DEF MadeDir, KeepParentTime, Made, CreateDirectories, Touch, Tree
    <3> QED BY <2>0, <3>1 DEF IsFile
  <2>2. ASSUME NEW q \in Path, q # p, IsFile([Made(p, t) EXCEPT ![p] = e], q) PROVE IsFile(disk, q)
    <3>1. [Made(p, t) EXCEPT ![p] = e][q] = Made(p, t)[q]
      BY <1>1, <2>2 DEF Made, CreateDirectories, Touch, Tree
    <3> QED BY <1>1, <1>3, <2>2, <3>1, MadeMakesNoFile DEF IsFile, Exists
  <2>3. \A q \in Path : IsFile(disk', q) => IsFile(disk, q)
    BY <1>1, <1>3, <1>7, <2>1, <2>2, MadeDirMakesNoFile
  <2> QED BY <1>4, <2>3 DEF Adds
<1>8. ASSUME NEW t \in Time, NEW R, disk' = Without(R, t) PROVE Adds(c)
  <2>1. \A q \in Path : IsFile(disk', q) => IsFile(disk, q)
    BY <1>1, <1>8, WithoutMakesNoFile
  <2> QED BY <1>4, <2>1 DEF Adds
<1> QED BY <1>2, <1>5, <1>6, <1>7, <1>8 DEF CutOff

\* What a reply tells of the table.
Tells(c) == \E kind :
    /\ s2c'[c] = Append(s2c[c], [kind |-> kind, re |-> Head(c2s[c])])
    /\ link'[c] = "open" \/ c2s'[c] = <<>>
    /\ kind \in OkCode /\ Head(c2s[c]).op \in {"DELE", "RMD"} => rows'[Head(c2s[c]).path] = <<>>
    /\ Head(c2s[c]).op = "STOR" => kind \in ErrCode \/ rows'[Head(c2s[c]).path] # <<>>

LEMMA HandlersTell ==
  ASSUME ServerOK, NEW c \in Conn, link[c] = "open", Serve(c), recovered[c] => KnowsRows(elements[c], rows)
  PROVE  s2c' = s2c \/ (c2s[c] # <<>> /\ Tells(c))
<1> DEFINE p == Head(c2s[c]).path
           e == Head(c2s[c]).entry
           Good == s2c' = s2c \/ (c2s[c] # <<>> /\ Tells(c))
<1>1. NetTypeOK /\ s2c \in [Conn -> Seq(Reply)]
  BY ServerFacts DEF NetTypeOK
<1>2. ASSUME NEW kind, Answer(c, kind), c2s[c] # <<>>,
             kind \in OkCode /\ Head(c2s[c]).op \in {"DELE", "RMD"} => rows'[p] = <<>>,
             Head(c2s[c]).op = "STOR" => kind \in ErrCode \/ rows'[p] # <<>>
      PROVE  Good
  <2>1. s2c'[c] = Append(s2c[c], [kind |-> kind, re |-> Head(c2s[c])])
    BY <1>1, <1>2 DEF Answer
  <2>2. link'[c] = "open"
    BY <1>2 DEF Answer
  <2> QED BY <1>2, <2>1, <2>2 DEF Tells
<1>3. ASSUME NEW kind, JustAnswer(c, kind), c2s[c] # <<>>,
             kind \in ErrCode \/ Head(c2s[c]).op \notin {"STOR", "DELE", "RMD"} PROVE Good
  <2>1. Answer(c, kind)
    BY <1>3 DEF JustAnswer
  <2>2. kind \in ErrCode => kind \notin OkCode
    BY DEF OkCode, ErrCode
  <2> QED BY <1>2, <1>3, <2>1, <2>2
<1>4. ASSUME Fail(c), c2s[c] # <<>> PROVE Good
  <2>1. s2c'[c] = Append(s2c[c], [kind |-> "exception", re |-> Head(c2s[c])]) /\ c2s'[c] = <<>>
    BY <1>1, <1>4 DEF Fail
  <2>2. "exception" \notin OkCode /\ "exception" \in ErrCode
    BY DEF OkCode, ErrCode
  <2> QED BY <1>4, <2>1, <2>2 DEF Tells
<1>5. ASSUME c2s[c] # <<>> PROVE p \in Path /\ e \in Entry
  BY <1>1, <1>5, HeadRequest
<1>6. ASSUME c2s[c] # <<>>, Head(c2s[c]).op \in {"DELE", "RMD"}, NEW Q, Forget(c, Q), p \in Q,
             NEW kind, Answer(c, kind)
      PROVE  Good
  <2>1. rows'[p] = <<>>
    <3>1. p \in Path
      BY <1>5, <1>6
    <3> HIDE DEF p, e
    <3> QED BY <1>6, <3>1 DEF Forget, Deleted
  <2> QED BY <1>2, <1>6, <2>1
<1>7. ASSUME c2s[c] # <<>>, Head(c2s[c]).op \in {"DELE", "RMD"}, NothingThere(c, p), recovered[c] PROVE Good
  <2>1. CASE ~Exists(elements[c], p) /\ JustAnswer(c, "notThere")
    <3>1. rows' = rows /\ Answer(c, "notThere")
      BY <2>1 DEF JustAnswer, storeVars
    <3>2. rows[p] = <<>>
      <4>1. p \in Path /\ KnowsRows(elements[c], rows)
        BY <1>5, <1>7
      <4> HIDE DEF p, e
      <4> QED BY <2>1, <4>1 DEF KnowsRows, Lists
    <3> QED BY <1>2, <1>7, <3>1, <3>2
  <2>2. CASE Forget(c, {p}) /\ Answer(c, "notThere")
    BY <1>6, <1>7, <2>2
  <2> QED BY <1>7, <2>1, <2>2 DEF NothingThere
<1>8. CASE RecoverFromDB(c) \/ Reject(c) \/ EndSession(c)
  BY <1>8 DEF RecoverFromDB, Reject, EndSession, netVars
<1>9. CASE Probe(c)
  <2>1. c2s[c] # <<>> /\ Head(c2s[c]).op = "PROB"
    BY <1>9 DEF Probe, Handling
  <2>2. Fail(c) \/ (\E kind : JustAnswer(c, kind)) \/ \E kind : Answer(c, kind)
    BY <1>9, Zenon DEF Probe
  <2> QED BY <1>2, <1>4, <2>1, <2>2 DEF JustAnswer
<1>10. CASE StoreFile(c)
  <2>1. c2s[c] # <<>> /\ Head(c2s[c]).op = "STOR" /\ recovered[c]
    BY <1>10 DEF StoreFile, Handling
  <2>2. JustAnswer(c, "store") \/ Fail(c) \/ (Record(c, p, e) /\ Answer(c, "created"))
    BY <1>10, Zenon DEF StoreFile
  <2>3. "store" \in ErrCode
    BY DEF ErrCode
  <2>4. Record(c, p, e) => rows'[p] # <<>>
    <3>1. p \in Path /\ e \in Entry /\ KnowsRows(elements[c], rows)
      BY <1>5, <2>1
    <3> QED BY <3>1, RecordIsARow
  <2> QED BY <1>2, <1>3, <1>4, <2>1, <2>2, <2>3, <2>4
<1>11. CASE RemoveFile(c)
  <2>1. c2s[c] # <<>> /\ Head(c2s[c]).op = "DELE" /\ recovered[c]
    BY <1>11 DEF RemoveFile, Handling
  <2>2. \/ NothingThere(c, p) \/ JustAnswer(c, "remove") \/ Fail(c)
        \/ Forget(c, {p}) /\ Answer(c, "removed")
    BY <1>11, Zenon DEF RemoveFile
  <2>3. "remove" \in ErrCode
    BY DEF ErrCode
  <2> QED BY <1>3, <1>4, <1>6, <1>7, <2>1, <2>2, <2>3
<1>12. CASE RemoveDir(c)
  <2>1. c2s[c] # <<>> /\ Head(c2s[c]).op = "RMD" /\ recovered[c]
    BY <1>12 DEF RemoveDir, Handling
  <2>2. \/ NothingThere(c, p) \/ JustAnswer(c, "notADir") \/ Fail(c)
        \/ Forget(c, {p} \cup (Below(p) \cap Listed(disk))) /\ Answer(c, "removed")
    BY <1>12, Zenon DEF RemoveDir
  <2>3. "notADir" \in ErrCode
    BY DEF ErrCode
  <2> QED BY <1>3, <1>4, <1>6, <1>7, <2>1, <2>2, <2>3
<1>13. CASE MakeDir(c)
  <2>1. c2s[c] # <<>> /\ Head(c2s[c]).op = "MKD"
    BY <1>13 DEF MakeDir, Handling
  <2>2. Fail(c) \/ (\E kind : JustAnswer(c, kind)) \/ \E kind : Answer(c, kind)
    BY <1>13, Zenon DEF MakeDir
  <2> QED BY <1>2, <1>4, <2>1, <2>2 DEF JustAnswer
<1> QED BY <1>8, <1>9, <1>10, <1>11, <1>12, <1>13 DEF Serve
-----------------------------------------------------------------------------
(* What the server has, the client knows of.                                *)
Lost(p) == outOfStep \/ p \in excused \cup doubtful
Makes(ev) == ev.type \in {"created", "storeSent"}
Stores(ev) == OpOf(ev) = "STOR" \/ (OpOf(ev) = "MKD" /\ Makes(ev))
ServerHas(p) == rows[p] # <<>> \/ IsFile(disk, p)
Orphan(p) == rows[p] = <<>> /\ IsFile(disk, p)
OkReply(i) == i <= Replies /\ s2c[conn][i].kind \in OkCode
ErrReply(i) == i <= Replies /\ s2c[conn][i].kind \in ErrCode

\* Every request under way is that of an event of the window without a reply.
Foreseen == ~outOfStep =>
    \A c \in Conn : \A k \in DOMAIN c2s[c] :
        \/ c2s[c][k].path \in doubtful
        \/ \E i \in DOMAIN window : i > Replies /\ RequestOf(window[i]) = Asked(c2s[c][k])
\* A file without a row is that of a STOR that died in the handler: it is sent again.
OrphanExpected(p) == \E i \in DOMAIN window : /\ window[i].path = p /\ OpOf(window[i]) = "STOR"
                                              /\ i > Replies \/ ErrReply(i)
OrphansExpected == \A p \in Path : Orphan(p) /\ ~Lost(p) => OrphanExpected(p)
\* What the server has is in the client's database, or its reply will bring it there.
StoreExpected(p) == \E i \in DOMAIN window : window[i].path = p /\ Stores(window[i])
HadIsKnown == \A p \in Path : ServerHas(p) /\ ~Lost(p) => Exists(clientDb, p) \/ StoreExpected(p)
\* ... also after the deletion that was answered already.
StoreFollows(p, j) == \E i \in DOMAIN window : /\ window[i].path = p /\ Stores(window[i])
                                               /\ i > j \/ ErrReply(i)
Deletes(j, p) == window[j].path = p /\ window[j].type = "deleted" /\ OkReply(j)
HadIsStored == \A p \in Path : ServerHas(p) /\ ~Lost(p) =>
                  \A j \in DOMAIN window : Deletes(j, p) => StoreFollows(p, j)
WindowTells == OrphansExpected /\ HadIsKnown /\ HadIsStored

\* The directory p is in the client's database, or will be, before the event at k.
Gone(L, p, j) == IF j = 0 THEN ~Exists(clientDb, p)
                          ELSE j \in DOMAIN L /\ L[j].path = p /\ L[j].type = "deleted"
MadeBetween(L, p, j, k) == \E i \in DOMAIN L : j < i /\ i < k /\ L[i].path = p /\ Makes(L[i])
MadeBefore(L, p, k) == \A j \in Nat : j < k /\ Gone(L, p, j) => MadeBetween(L, p, j, k)
Renews(ev) == OpOf(ev) = "MKD" /\ ev.type = "modified" /\ ev.path \notin excused
RenewedIsMade == \A k \in DOMAIN Coming : Renews(Coming[k]) => MadeBefore(Coming, Coming[k].path, k)

WindowGrows == \A i \in DOMAIN window : i \in DOMAIN window' /\ window'[i] = window[i]
NewReply(i) == /\ window[i].type = "deleted" /\ s2c'[conn'][i].kind \in OkCode => rows'[window[i].path] = <<>>
               /\ OpOf(window[i]) = "STOR" =>
                     s2c'[conn'][i].kind \in ErrCode \/ rows'[window[i].path] # <<>>
RepliesGoOn == \A i \in 1 .. Replies' :
                  \/ i <= Replies /\ s2c'[conn'][i].kind = s2c[conn][i].kind
                  \/ i > Replies /\ i \in DOMAIN window /\ NewReply(i)
Asks(p) == \E i \in DOMAIN window : /\ i > Replies /\ window[i].path = p
                                    /\ OpOf(window[i]) = "STOR" \/ (OpOf(window[i]) = "MKD" /\ rows'[p] # <<>>)
AllAsked == \A p \in Path : Lost(p)' \/ (~Lost(p) /\ (Quietly(p) \/ Asks(p)))

LEMMA Proceeds ==
  ASSUME KindsFixed, ClientOK, window \in Seq(KindEvents), window' \in Seq(Events), Replies' \in Nat, WindowTells, RenewedIsMade,
         clientDb' = clientDb, WindowGrows, RepliesGoOn, AllAsked
  PROVE  WindowTells'
<1>1. /\ Replies \in Nat /\ Replies <= Len(window) /\ Len(window) \in Nat
      /\ DOMAIN window = 1 .. Len(window) /\ \A i \in DOMAIN window : window[i] \in KindEvents
  BY ReplyCount, ClientFacts, ElementOfSeq
<1>2. /\ DOMAIN window \subseteq DOMAIN Coming /\ \A i \in DOMAIN window : Coming[i] = window[i]
      /\ \A i \in DOMAIN Coming, j \in DOMAIN window : i < j => i \in DOMAIN window
  <2>1. window \in Seq(Events) /\ cur \in Seq(Events) /\ queue \in Seq(Events)
    BY ClientFacts
  <2>2. /\ Len(cur) \in Nat /\ Len(queue) \in Nat
        /\ DOMAIN Coming = 1 .. Len(window) + Len(cur) + Len(queue)
        /\ \A i \in 1 .. Len(window) : Coming[i] = window[i]
    BY <2>1, LineIs DEF Coming
  <2> QED BY <1>1, <2>2
<1>3. ASSUME NEW i \in DOMAIN window, i > Replies \/ ErrReply(i) PROVE i > Replies' \/ ErrReply(i)' \/ (i > Replies /\ NewReply(i))
  <2>1. CASE i > Replies'
    BY <2>1
  <2>2. CASE ~(i > Replies')
    <3>1. i \in 1 .. Replies'
      BY <1>1, <2>2
    <3> QED BY <1>1, <1>3, <3>1 DEF RepliesGoOn, ErrReply
  <2> QED BY <2>1, <2>2
<1>4. ASSUME NEW p \in Path, ~Lost(p)', rows'[p] = <<>>,
             NEW i \in DOMAIN window, window[i].path = p, OpOf(window[i]) = "STOR", i > Replies \/ ErrReply(i)
      PROVE  OrphanExpected(p)'
  <2>1. CASE i > Replies /\ NewReply(i) /\ ~(i > Replies')
    <3>1. i <= Replies'
      BY <1>1, <2>1
    <3>2. s2c'[conn'][i].kind \in ErrCode
      BY <1>4, <2>1 DEF NewReply
    <3>3. ErrReply(i)'
      BY <3>1, <3>2 DEF ErrReply
    <3> QED BY <1>4, <3>3 DEF OrphanExpected, WindowGrows
  <2>2. CASE i > Replies' \/ ErrReply(i)'
    BY <1>4, <2>2 DEF OrphanExpected, WindowGrows
  <2> QED BY <1>3, <1>4, <2>1, <2>2
<1>5. ASSUME NEW p \in Path, Orphan(p)', ~Lost(p)' PROVE OrphanExpected(p)'
  <2>1. rows'[p] = <<>> /\ IsFile(disk', p) /\ ~Lost(p) /\ (Quietly(p) \/ Asks(p))
    BY <1>5 DEF Orphan, AllAsked, IsFile, Exists
  <2>2. CASE Quietly(p)
    <3>1. OrphanExpected(p)
      BY <2>1, <2>2 DEF Quietly, Orphan, WindowTells, OrphansExpected
    <3> QED BY <1>4, <1>5, <2>1, <3>1 DEF OrphanExpected
  <2>3. CASE Asks(p)
    BY <1>4, <1>5, <2>1, <2>3 DEF Asks
  <2> QED BY <2>1, <2>2, <2>3
<1>6. OrphansExpected'
  BY <1>5 DEF OrphansExpected
<1>7. ASSUME NEW p \in Path, ServerHas(p)', ~Lost(p)', Quietly(p) PROVE ServerHas(p) /\ ~Lost(p)
  BY <1>7 DEF ServerHas, Quietly, AllAsked, IsFile, Exists
<1>8. ASSUME NEW i \in DOMAIN window, NEW k \in DOMAIN window, OpOf(window[i]) = "MKD",
             window[k].path = window[i].path, Makes(window[k])
      PROVE  Stores(window[k])
  <2>1. window[i] \in KindEvents /\ window[k] \in KindEvents
    BY <1>1
  <2>2. window[i].entry.type # "file"
    BY <1>8 DEF OpOf
  <2>3. window[k].entry.type = window[i].entry.type
    BY <1>8, <2>1 DEF KindEvents, KindsFixed, Events
  <2> QED BY <1>8, <2>2, <2>3 DEF OpOf, Makes, Stores
<1>9. ASSUME NEW p \in Path, ~Lost(p), NEW i \in DOMAIN window, window[i].path = p, OpOf(window[i]) = "MKD"
      PROVE  Stores(window[i]) \/ MadeBefore(Coming, p, i)
  <2>1. window[i].type # "deleted" /\ window[i].type \in EventType
    BY <1>1, <1>9 DEF OpOf, KindEvents, Events
  <2>2. CASE Makes(window[i])
    BY <1>9, <2>2 DEF Stores
  <2>3. CASE ~Makes(window[i])
    <3>1. window[i].type = "modified"
      BY <2>1, <2>3 DEF Makes, EventType
    <3> QED BY <1>2, <1>9, <3>1 DEF RenewedIsMade, Renews, Lost
  <2> QED BY <2>2, <2>3
<1>10. ASSUME NEW p \in Path, NEW i \in DOMAIN window, window[i].path = p, OpOf(window[i]) = "MKD",
              NEW j \in Nat, j < i, Gone(Coming, p, j), MadeBefore(Coming, p, i)
       PROVE  \E k \in DOMAIN window : k > j /\ window[k].path = p /\ Stores(window[k])
  <2>1. PICK k \in DOMAIN Coming : j < k /\ k < i /\ Coming[k].path = p /\ Makes(Coming[k])
    BY <1>10 DEF MadeBefore, MadeBetween
  <2>2. k \in DOMAIN window /\ Coming[k] = window[k]
    BY <1>2, <2>1
  <2>3. Stores(window[k]) /\ k > j
    <3>1. k \in Nat
      BY <1>1, <2>2
    <3> QED BY <1>8, <1>10, <2>1, <2>2, <3>1
  <2> QED BY <2>1, <2>2, <2>3
<1>11. ASSUME NEW p \in Path, ServerHas(p)', ~Lost(p)' PROVE Exists(clientDb, p) \/ StoreExpected(p)
  <2>1. CASE Quietly(p)
    BY <1>7, <1>11, <2>1 DEF WindowTells, HadIsKnown
  <2>2. CASE ~Quietly(p)
    <3>1. ~Lost(p) /\ Asks(p)
      BY <1>11, <2>2 DEF AllAsked
    <3>2. PICK i \in DOMAIN window : window[i].path = p /\ OpOf(window[i]) \in {"STOR", "MKD"}
      BY <3>1 DEF Asks
    <3>3. CASE Stores(window[i])
      BY <3>2, <3>3 DEF StoreExpected
    <3>4. CASE ~Stores(window[i])
      <4>1. OpOf(window[i]) = "MKD" /\ MadeBefore(Coming, p, i)
        BY <1>9, <3>1, <3>2, <3>4 DEF Stores
      <4>2. 0 < i /\ 0 \in Nat
        BY <1>1
      <4>3. ~Exists(clientDb, p) => Gone(Coming, p, 0)
        BY DEF Gone
      <4> QED BY <1>10, <3>2, <4>1, <4>2, <4>3 DEF StoreExpected
    <3> QED BY <3>3, <3>4
  <2> QED BY <2>1, <2>2
<1>12. HadIsKnown'
  <2> SUFFICES ASSUME NEW p \in Path, ServerHas(p)', ~Lost(p)', ~Exists(clientDb, p)
               PROVE  StoreExpected(p)'
    BY DEF HadIsKnown, Exists
  <2>1. StoreExpected(p)
    BY <1>11
  <2> QED BY <2>1 DEF StoreExpected, WindowGrows
<1>13. ASSUME NEW p \in Path, ServerHas(p)', ~Lost(p)', NEW j \in DOMAIN window', Deletes(j, p)'
       PROVE  StoreFollows(p, j)'
  <2>1. j \in Nat /\ j >= 1 /\ j <= Replies' /\ s2c'[conn'][j].kind \in OkCode
    <3>1. j \in 1 .. Len(window') /\ Len(window') \in Nat
      BY <1>13
    <3> QED BY <1>13, <3>1 DEF Deletes, OkReply
  <2>2. ASSUME NEW i \in DOMAIN window, window[i].path = p, Stores(window[i]), i > j \/ ErrReply(i)'
        PROVE  StoreFollows(p, j)'
    BY <2>2 DEF StoreFollows, WindowGrows
  <2>3. CASE j <= Replies /\ s2c'[conn'][j].kind = s2c[conn][j].kind
    <3>1. j \in DOMAIN window
      BY <1>1, <2>1, <2>3
    <3>2. Deletes(j, p)
      BY <1>13, <2>1, <2>3, <3>1 DEF Deletes, OkReply, WindowGrows
    <3>3. CASE Quietly(p)
      <4>1. PICK i \in DOMAIN window : window[i].path = p /\ Stores(window[i]) /\ (i > j \/ ErrReply(i))
        BY <1>7, <1>13, <3>1, <3>2, <3>3 DEF WindowTells, HadIsStored, StoreFollows
      <4>2. CASE i > j
        BY <2>2, <4>1, <4>2
      <4>3. CASE ErrReply(i)
        <5>1. CASE ErrReply(i)' \/ i > Replies'
          BY <1>1, <2>1, <2>2, <4>1, <5>1
        <5>2. CASE i > Replies
          BY <1>1, <2>1, <2>2, <2>3, <4>1, <5>2
        <5> QED BY <1>3, <4>3, <5>1, <5>2
      <4> QED BY <4>1, <4>2, <4>3
    <3>4. CASE ~Quietly(p)
      <4>1. ~Lost(p) /\ Asks(p)
        BY <1>13, <3>4 DEF AllAsked
      <4>2. PICK i \in DOMAIN window : i > Replies /\ window[i].path = p /\ OpOf(window[i]) \in {"STOR", "MKD"}
        BY <4>1 DEF Asks
      <4>3. i > j
        BY <1>1, <2>1, <2>3, <4>2
      <4>4. CASE Stores(window[i])
        BY <2>2, <4>2, <4>3, <4>4
      <4>5. CASE ~Stores(window[i])
        <5>1. OpOf(window[i]) = "MKD" /\ MadeBefore(Coming, p, i)
          BY <1>9, <4>1, <4>2, <4>5 DEF Stores
        <5>2. Gone(Coming, p, j) /\ j < i
          BY <1>2, <2>1, <3>1, <3>2, <4>3 DEF Gone, Deletes
        <5>3. PICK k \in DOMAIN window : k > j /\ window[k].path = p /\ Stores(window[k])
          BY <1>10, <2>1, <4>2, <5>1, <5>2
        <5> QED BY <2>2, <5>3
      <4> QED BY <4>4, <4>5
    <3> QED BY <3>3, <3>4
  <2>4. CASE j > Replies /\ j \in DOMAIN window /\ NewReply(j)
    <3>1. window[j].path = p /\ window[j].type = "deleted"
      BY <1>13, <2>4 DEF Deletes, WindowGrows
    <3>2. rows'[p] = <<>>
      BY <2>1, <2>4, <3>1 DEF NewReply
    <3>3. Orphan(p)'
      BY <1>13, <3>2 DEF ServerHas, Orphan, IsFile, Exists
    <3>4. PICK i \in DOMAIN window' : window'[i].path = p /\ OpOf(window'[i]) = "STOR" /\ (i > Replies' \/ ErrReply(i)')
      BY <1>5, <1>13, <3>3 DEF OrphanExpected
    <3>5. i > j \/ ErrReply(i)'
      BY <2>1, <3>4
    <3> QED BY <3>4, <3>5 DEF StoreFollows, Stores
  <2> QED BY <2>1, <2>3, <2>4 DEF RepliesGoOn
<1>14. HadIsStored'
  BY <1>13 DEF HadIsStored
<1> QED BY <1>6, <1>12, <1>14 DEF WindowTells

LEMMA HeadTaken ==
  ASSUME ClientOK, ReceiveOk \/ ReceiveErr \/ ReceiveSend
  PROVE  /\ \/ s2c[conn][1].kind \in OkCode /\ clientDb' = Confirmed(window[1]) /\ excused' = excused
            \/ s2c[conn][1].kind \in ErrCode /\ clientDb' = clientDb /\ excused' = excused \cup {window[1].path}
            \/ s2c[conn][1].kind = "SEND" /\ clientDb' = clientDb /\ excused' = excused /\ ~Stores(window[1])
               /\ window[1].entry.type = "file"
         /\ UNCHANGED <<conn, doubtful, outOfStep>>
         /\ Len(window) \in Nat /\ Len(window) >= 1 /\ Len(s2c[conn]) \in Nat /\ Len(s2c[conn]) >= 1
         /\ conn \in Conn /\ conn # NoConn /\ Replies = Len(s2c[conn]) /\ Replies' = Replies - 1
         /\ Len(window') = Len(window) - 1 /\ \A i \in 1 .. Len(window) - 1 : window'[i] = window[i + 1]
         /\ DOMAIN window = 1 .. Len(window) /\ DOMAIN window' = 1 .. Len(window) - 1
         /\ \A i \in 1 .. Len(s2c[conn]) - 1 : s2c'[conn][i] = s2c[conn][i + 1]
<1>1. /\ pc = "loop" /\ s2c[conn] # <<>> /\ window # <<>>
      /\ s2c' = [s2c EXCEPT ![conn] = Tail(@)] /\ window' = Tail(window)
      /\ UNCHANGED <<conn, doubtful, outOfStep>>
  BY DEF ReceiveOk, ReceiveErr, ReceiveSend, Receiving, Consume
<1>2. /\ conn \in Conn /\ conn # NoConn /\ s2c'[conn] = Tail(s2c[conn]) /\ s2c[conn] \in Seq(Reply)
      /\ window \in Seq(Events)
  BY <1>1, OnConnection, ClientFacts
<1>3. PICK r, w : r = s2c[conn] /\ w = window
  OBVIOUS
<1>4. /\ Len(w) \in Nat /\ Len(w) >= 1 /\ Len(Tail(w)) = Len(w) - 1 /\ \A i \in 1 .. Len(w) - 1 : Tail(w)[i] = w[i + 1]
      /\ Len(r) \in Nat /\ Len(r) >= 1 /\ Len(Tail(r)) = Len(r) - 1 /\ \A i \in 1 .. Len(r) - 1 : Tail(r)[i] = r[i + 1]
      /\ DOMAIN w = 1 .. Len(w) /\ DOMAIN Tail(w) = 1 .. Len(w) - 1 /\ Head(w) = w[1] /\ Head(r) = r[1]
  BY <1>1, <1>2, <1>3
<1>5. Replies = Len(r) /\ Replies' = Len(r) - 1
  BY <1>1, <1>2, <1>3, <1>4 DEF Replies
<1>6. \/ r[1].kind \in OkCode /\ clientDb' = Confirmed(w[1]) /\ excused' = excused
      \/ r[1].kind \in ErrCode /\ clientDb' = clientDb /\ excused' = excused \cup {w[1].path}
      \/ r[1].kind = "SEND" /\ clientDb' = clientDb /\ excused' = excused /\ ~Stores(w[1]) /\ w[1].entry.type = "file"
  <2>1. CASE ReceiveOk
    BY <1>3, <1>4, <2>1 DEF ReceiveOk, Receiving
  <2>2. CASE ReceiveErr
    BY <1>3, <1>4, <2>2 DEF ReceiveErr, Receiving
  <2>3. CASE ReceiveSend
    <3>1. r[1].kind = "SEND" /\ clientDb' = clientDb /\ excused' = excused
      BY <1>3, <1>4, <2>3 DEF ReceiveSend, Receiving
    <3>2. w[1].entry.type = "file" /\ w[1].type \in {"created", "modified"}
      BY <1>3, <1>4, <2>3 DEF ReceiveSend, Wanted
    <3>3. ~Stores(w[1])
      BY <3>2 DEF Stores, OpOf
    <3> QED BY <3>1, <3>2, <3>3
  <2> QED BY <2>1, <2>2, <2>3
<1> QED BY <1>1, <1>2, <1>3, <1>4, <1>5, <1>6

LEMMA KindsApart ==
  /\ "SEND" \notin OkCode /\ "SEND" \notin ErrCode
  /\ \A k \in OkCode : k \notin ErrCode
BY DEF OkCode, ErrCode

LEMMA ConfirmedElsewhere ==
  ASSUME clientDb \in Tree, NEW ev \in Events, NEW p \in Path
  PROVE  /\ p # ev.path => Confirmed(ev)[p] = clientDb[p]
         /\ ev.type # "deleted" /\ Exists(clientDb, p) => Confirmed(ev)[p] # Absent
         /\ p = ev.path /\ Makes(ev) => Confirmed(ev)[p] = ev.entry
         /\ p = ev.path /\ ev.type = "deleted" => Confirmed(ev)[p] = Absent
<1>1. ev.path \in Path /\ ev.entry \in Entry /\ ev.entry # Absent /\ ev.type \in EventType
  <2>1. ev.path \in Path /\ ev.entry \in Entry /\ ev.type \in EventType
    BY DEF Events
  <2> QED BY <2>1, TreeAssumption
<1>2. CASE ev.type \in {"created", "storeSent"}
  BY <1>1, <1>2 DEF Confirmed, Tree, Makes, Exists
<1>3. CASE ev.type = "modified"
  BY <1>1, <1>3 DEF Confirmed, Tree, Makes, Exists
<1>4. CASE ev.type = "deleted"
  BY <1>1, <1>4 DEF Confirmed, Tree, Makes, Exists
<1> QED BY <1>1, <1>2, <1>3, <1>4 DEF EventType

LEMMA Taken ==
  ASSUME ClientOK, WindowTells, ReceiveOk \/ ReceiveErr \/ ReceiveSend, UNCHANGED storeVars
  PROVE  WindowTells'
<1>1. /\ UNCHANGED <<conn, doubtful, outOfStep>>
      /\ Len(window) \in Nat /\ Len(window) >= 1 /\ Len(s2c[conn]) \in Nat /\ Len(s2c[conn]) >= 1
      /\ conn \in Conn /\ conn # NoConn /\ Replies = Len(s2c[conn]) /\ Replies' = Replies - 1
      /\ Len(window') = Len(window) - 1 /\ \A i \in 1 .. Len(window) - 1 : window'[i] = window[i + 1]
      /\ DOMAIN window = 1 .. Len(window) /\ DOMAIN window' = 1 .. Len(window) - 1
      /\ \A i \in 1 .. Len(s2c[conn]) - 1 : s2c'[conn][i] = s2c[conn][i + 1]
  BY HeadTaken
<1>2. \/ s2c[conn][1].kind \in OkCode /\ clientDb' = Confirmed(window[1]) /\ excused' = excused
      \/ s2c[conn][1].kind \in ErrCode /\ clientDb' = clientDb /\ excused' = excused \cup {window[1].path}
      \/ s2c[conn][1].kind = "SEND" /\ clientDb' = clientDb /\ excused' = excused /\ ~Stores(window[1])
  BY HeadTaken
<1>3. ASSUME NEW p \in Path, Lost(p) PROVE Lost(p)'
  BY <1>1, <1>2, <1>3 DEF Lost
<1>4. ASSUME NEW p \in Path PROVE (ServerHas(p)' <=> ServerHas(p)) /\ (Orphan(p)' <=> Orphan(p))
  BY DEF ServerHas, Orphan, IsFile, Exists, storeVars
<1>5. ASSUME NEW i \in DOMAIN window, i > 1
      PROVE  /\ i - 1 \in DOMAIN window' /\ window'[i - 1] = window[i] /\ (i > Replies => i - 1 > Replies')
             /\ ErrReply(i) => ErrReply(i - 1)'
  <2>1. i - 1 \in 1 .. Len(window) - 1 /\ i - 1 + 1 = i
    BY <1>1, <1>5
  <2>2. i <= Replies => i - 1 \in 1 .. Len(s2c[conn]) - 1 /\ i - 1 <= Replies'
    BY <1>1, <1>5
  <2>3. ErrReply(i) => ErrReply(i - 1)'
    BY <1>1, <2>1, <2>2 DEF ErrReply
  <2> QED BY <1>1, <2>1, <2>3
<1>6. ASSUME NEW p \in Path, ~Lost(p)', window[1].path = p PROVE ~ErrReply(1)
  BY <1>2, <1>6, KindsApart DEF ErrReply, Lost
<1>7. ASSUME NEW p \in Path, Orphan(p)', ~Lost(p)' PROVE OrphanExpected(p)'
  <2>1. PICK i \in DOMAIN window : window[i].path = p /\ OpOf(window[i]) = "STOR" /\ (i > Replies \/ ErrReply(i))
    BY <1>3, <1>4, <1>7 DEF WindowTells, OrphansExpected, OrphanExpected
  <2>2. i > 1
    <3>1. i # 1
      BY <1>1, <1>6, <1>7, <2>1
    <3> QED BY <1>1, <3>1
  <2> QED BY <1>5, <2>1, <2>2 DEF OrphanExpected
<1>8. ASSUME NEW p \in Path, ServerHas(p)', ~Lost(p)', NEW j \in DOMAIN window', Deletes(j, p)'
      PROVE  StoreFollows(p, j)'
  <2>1. j + 1 \in DOMAIN window /\ window'[j] = window[j + 1] /\ j \in Nat
    BY <1>1
  <2>2. j + 1 <= Replies /\ s2c'[conn][j] = s2c[conn][j + 1]
    <3>1. j <= Replies'
      BY <1>8 DEF Deletes, OkReply
    <3>2. j \in 1 .. Len(s2c[conn]) - 1
      BY <1>1, <3>1
    <3> QED BY <1>1, <3>2
  <2>3. Deletes(j + 1, p)
    BY <1>1, <1>8, <2>1, <2>2 DEF Deletes, OkReply
  <2>4. PICK i \in DOMAIN window : window[i].path = p /\ Stores(window[i]) /\ (i > j + 1 \/ ErrReply(i))
    BY <1>3, <1>4, <1>8, <2>1, <2>3 DEF WindowTells, HadIsStored, StoreFollows
  <2>5. i > 1
    <3>1. i = 1 => ~(i > j + 1)
      BY <2>1
    <3>2. i # 1
      BY <1>1, <1>6, <1>8, <2>4, <3>1
    <3> QED BY <1>1, <3>2
  <2>6. i > j + 1 => i - 1 > j
    BY <1>1, <2>1
  <2> QED BY <1>5, <2>4, <2>5, <2>6 DEF StoreFollows
<1>9. ASSUME NEW p \in Path, NEW i \in DOMAIN window, i > 1, window[i].path = p, Stores(window[i])
      PROVE  StoreExpected(p)'
  BY <1>5, <1>9 DEF StoreExpected
<1>10. clientDb \in Tree /\ window[1] \in Events
  <2>1. clientDb \in Tree /\ window \in Seq(Events)
    BY ClientFacts DEF ClientOK, ClientTypeOK
  <2> QED BY <1>1, <2>1, ElementOfSeq
<1>11. ASSUME NEW p \in Path, ServerHas(p)', ~Lost(p)', ~Exists(clientDb', p) PROVE StoreExpected(p)'
  <2>1. ServerHas(p) /\ ~Lost(p)
    BY <1>3, <1>4, <1>11
  <2>2. CASE Exists(clientDb, p)
    <3>1. s2c[conn][1].kind \in OkCode /\ clientDb' = Confirmed(window[1])
      BY <1>2, <1>11, <2>2
    <3>2. window[1].path = p /\ window[1].type = "deleted"
      BY <1>10, <1>11, <2>2, <3>1, ConfirmedElsewhere DEF Exists
    <3>3. 1 \in DOMAIN window /\ Deletes(1, p)
      BY <1>1, <3>1, <3>2 DEF Deletes, OkReply
    <3>4. PICK i \in DOMAIN window : window[i].path = p /\ Stores(window[i]) /\ (i > 1 \/ ErrReply(i))
      BY <2>1, <3>3 DEF WindowTells, HadIsStored, StoreFollows
    <3>5. i > 1
      <4>1. i # 1 \/ i > 1
        BY <1>6, <1>11, <3>4
      <4> QED BY <1>1, <4>1
    <3> QED BY <1>9, <3>4, <3>5
  <2>3. CASE ~Exists(clientDb, p)
    <3>1. PICK i \in DOMAIN window : window[i].path = p /\ Stores(window[i])
      BY <2>1, <2>3 DEF WindowTells, HadIsKnown, StoreExpected
    <3>2. CASE i > 1
      BY <1>9, <3>1, <3>2
    <3>3. CASE i = 1
      <4>1. s2c[conn][1].kind \in OkCode /\ clientDb' = Confirmed(window[1])
        BY <1>2, <1>11, <3>1, <3>3 DEF Lost
      <4>2. Makes(window[1])
        <5>1. window[1].type \in EventType
          BY <1>10 DEF Events
        <5> QED BY <3>1, <3>3, <5>1 DEF Stores, OpOf, Makes, EventType
      <4>3. clientDb'[p] = window[1].entry /\ window[1].entry # Absent
        <5>1. window[1].path = p
          BY <3>1, <3>3
        <5>2. window[1].entry \in Entry
          BY <1>10 DEF Events
        <5>3. clientDb'[p] = window[1].entry
          BY <1>10, <4>1, <4>2, <5>1, ConfirmedElsewhere
        <5> QED BY <5>2, <5>3, TreeAssumption
      <4> QED BY <1>11, <4>3 DEF Exists
    <3> QED BY <1>1, <3>1, <3>2, <3>3
  <2> QED BY <2>2, <2>3
<1> QED BY <1>7, <1>8, <1>11 DEF WindowTells, OrphansExpected, HadIsKnown, HadIsStored

LEMMA Stopped ==
  ASSUME ClientOK, WindowTells, Stop, UNCHANGED storeVars
  PROVE  WindowTells'
<1>1. /\ window' = <<>> /\ UNCHANGED <<excused, outOfStep, clientDb>> /\ doubtful \subseteq doubtful'
      /\ \A i \in DOMAIN window : window[i].path \in doubtful'
  BY DEF Stop, InDoubt
<1>2. DOMAIN window' = {}
  BY <1>1
<1>3. ASSUME NEW p \in Path, ~Lost(p)' PROVE ~Lost(p) /\ \A i \in DOMAIN window : window[i].path # p
  BY <1>1, <1>3 DEF Lost
<1>4. ASSUME NEW p \in Path PROVE (ServerHas(p)' <=> ServerHas(p)) /\ (Orphan(p)' <=> Orphan(p))
  BY DEF ServerHas, Orphan, IsFile, Exists, storeVars
<1>5. OrphansExpected'
  BY <1>3, <1>4 DEF WindowTells, OrphansExpected, OrphanExpected
<1>6. HadIsKnown'
  BY <1>1, <1>3, <1>4 DEF WindowTells, HadIsKnown, StoreExpected, Exists
<1>7. HadIsStored'
  BY <1>2 DEF HadIsStored
<1> QED BY <1>5, <1>6, <1>7 DEF WindowTells
-----------------------------------------------------------------------------
(* Every request under way is foreseen.                                     *)
OpenForeseen == conn # NoConn /\ link[conn] = "open" /\ ~outOfStep =>
    \A k \in DOMAIN c2s[conn] :
        \E i \in DOMAIN window : i > Replies /\ RequestOf(window[i]) = Asked(c2s[conn][k])
WaitersKept == \A i \in DOMAIN window : i > Replies =>
                  \/ window[i].path \in doubtful'
                  \/ \E j \in DOMAIN window' : j > Replies' /\ window'[j] = window[i]

LEMMA OpenIsForeseen ==
  ASSUME ClientOK, InOrder
  PROVE  OpenForeseen
<1> SUFFICES ASSUME conn # NoConn, link[conn] = "open", ~outOfStep, NEW k \in DOMAIN c2s[conn]
             PROVE  \E i \in DOMAIN window : i > Replies /\ RequestOf(window[i]) = Asked(c2s[conn][k])
  BY DEF OpenForeseen
<1>1. /\ conn \in Conn /\ s2c[conn] \in Seq(Reply) /\ c2s[conn] \in Seq(Request) /\ window \in Seq(Events)
      /\ Len(s2c[conn]) \in Nat /\ Len(c2s[conn]) \in Nat /\ DOMAIN c2s[conn] = 1 .. Len(c2s[conn])
      /\ DOMAIN window = 1 .. Len(window) /\ Len(window) \in Nat
  BY ClientFacts
<1>2. Sent \in Nat /\ Sent <= Len(window)
  <2>1. pc \notin {"off", "down"}
    BY DEF ClientOK, Control
  <2> QED BY <1>1, <2>1, SentIsInWindow
<1>3. /\ Len(s2c[conn]) + Len(c2s[conn]) = Sent
      /\ \A i \in 1 .. Len(c2s[conn]) : Asked(c2s[conn][i]) = RequestOf(window[Len(s2c[conn]) + i])
  BY DEF InOrder, Matches
<1>4. Len(s2c[conn]) + k \in 1 .. Len(window) /\ Len(s2c[conn]) + k > Len(s2c[conn])
  <2>1. \A a, b, s, n \in Nat : a + b = s /\ s <= n => \A x \in 1 .. b : a + x \in 1 .. n /\ a + x > a
    OBVIOUS
  <2> QED BY <1>1, <1>2, <1>3, <2>1, Zenon
<1> QED BY <1>1, <1>3, <1>4 DEF Replies

LEMMA AskedPath ==
  ASSUME NEW r \in Request, NEW ev, RequestOf(ev) = Asked(r)
  PROVE  ev.path = r.path /\ OpOf(ev) = r.op /\ ev.entry = r.entry
<1>1. Asked(r).op = r.op /\ Asked(r).path = r.path /\ Asked(r).entry = r.entry
  BY DEF Asked, Request
<1> QED BY <1>1 DEF RequestOf

LEMMA ForeseenStays ==
  ASSUME ClientOK, Foreseen, WaitersKept, OldRequests, outOfStep => outOfStep', doubtful \subseteq doubtful',
         OpenForeseen'
  PROVE  Foreseen'
<1> SUFFICES ASSUME ~outOfStep', NEW c \in Conn, NEW k \in DOMAIN c2s'[c]
             PROVE  \/ c2s'[c][k].path \in doubtful'
                    \/ \E i \in DOMAIN window' : i > Replies' /\ RequestOf(window'[i]) = Asked(c2s'[c][k])
  BY DEF Foreseen, Asked, RequestOf, OpOf
<1>1. CASE conn' = c /\ link'[c] = "open"
  <2>1. conn' # NoConn
    BY <1>1, NetAssumption
  <2> QED BY <1>1, <2>1 DEF OpenForeseen, Asked, RequestOf, OpOf
<1>2. CASE conn' # c \/ link'[c] # "open"
  <2>1. PICK j \in DOMAIN c2s[c] : c2s'[c][k] = c2s[c][j]
    BY <1>2 DEF OldRequests
  <2>2. c2s[c][j] \in Request
    <3>1. c2s[c] \in Seq(Request)
      BY ClientFacts
    <3> QED BY <3>1, ElementOfSeq
  <2>3. CASE c2s[c][j].path \in doubtful
    BY <2>1, <2>3
  <2>4. CASE c2s[c][j].path \notin doubtful
    <3>1. PICK i \in DOMAIN window : i > Replies /\ RequestOf(window[i]) = Asked(c2s[c][j])
      BY <2>4 DEF Foreseen
    <3>2. window[i].path = c2s[c][j].path
      BY <2>2, <3>1, AskedPath
    <3>3. \/ window[i].path \in doubtful'
          \/ \E x \in DOMAIN window' : x > Replies' /\ window'[x] = window[i]
      BY <3>1 DEF WaitersKept
    <3> QED BY <2>1, <3>1, <3>2, <3>3
  <2> QED BY <2>3, <2>4
<1> QED BY <1>1, <1>2

LEMMA NextIsAnswered ==
  ASSUME ClientOK, InOrder, conn # NoConn, link[conn] = "open", ~outOfStep, c2s[conn] # <<>>
  PROVE  /\ Len(s2c[conn]) \in Nat /\ Len(s2c[conn]) + 1 \in DOMAIN window
         /\ Head(c2s[conn]) \in Request /\ RequestOf(window[Len(s2c[conn]) + 1]) = Asked(Head(c2s[conn]))
<1>1. /\ conn \in Conn /\ s2c[conn] \in Seq(Reply) /\ c2s[conn] \in Seq(Request) /\ window \in Seq(Events)
      /\ Len(s2c[conn]) \in Nat /\ DOMAIN window = 1 .. Len(window) /\ Len(window) \in Nat
  BY ClientFacts
<1>2. Sent \in Nat /\ Sent <= Len(window)
  <2>1. pc \notin {"off", "down"}
    BY DEF ClientOK, Control
  <2> QED BY <1>1, <2>1, SentIsInWindow
<1>3. /\ Len(s2c[conn]) + Len(c2s[conn]) = Sent
      /\ \A i \in 1 .. Len(c2s[conn]) : Asked(c2s[conn][i]) = RequestOf(window[Len(s2c[conn]) + i])
  BY DEF InOrder, Matches
<1>4. PICK q : q = c2s[conn]
  OBVIOUS
<1>5. Len(q) \in Nat /\ Len(q) >= 1 /\ Head(q) = q[1] /\ Head(q) \in Request /\ 1 \in 1 .. Len(q)
  BY <1>1, <1>4
<1>6. Len(s2c[conn]) + 1 \in 1 .. Len(window)
  <2>1. \A a, b, x, n \in Nat : a + b = x /\ x <= n /\ b >= 1 => a + 1 \in 1 .. n
    OBVIOUS
  <2> QED BY <1>1, <1>2, <1>3, <1>4, <1>5, <2>1, Zenon
<1> QED BY <1>1, <1>3, <1>4, <1>5, <1>6

LEMMA OutOfStepTells ==
  ASSUME outOfStep'
  PROVE  WindowTells' /\ Foreseen'
BY DEF WindowTells, OrphansExpected, HadIsKnown, HadIsStored, Foreseen, Lost

LEMMA ServerTells ==
  ASSUME NEW s, Conn = {s}, KindsFixed, IInv, IInv', AllOfTheirKind, InOrder, SessionKnowsTable, Silent,
         OpenForeseen', Foreseen, WindowTells, RenewedIsMade, NEW c \in Conn, Server(c)
  PROVE  WindowTells' /\ Foreseen'
<1>1. /\ Serve(c) /\ UNCHANGED <<watcherVars, clientVars>> /\ ServerOK /\ ClientOK /\ window \in Seq(KindEvents)
  BY InvariantParts DEF Server, IInv, AllOfTheirKind, ClientKinds
<1>2. /\ UNCHANGED <<window, cur, queue, excused, doubtful, clientDb, conn>>
  BY <1>1 DEF watcherVars, clientVars
<1>3. OldRequests /\ (outOfStep => outOfStep') /\ (link[c] # "open" => s2c' = s2c)
  <2>1. UNCHANGED clientVars
    BY <1>1
  <2> QED BY <1>1, <2>1, ServeReads
<1>4. CASE outOfStep'
  BY <1>4, OutOfStepTells
<1>5. SUFFICES ASSUME ~outOfStep' PROVE WindowTells' /\ Foreseen'
  BY <1>4
<1>6. ~outOfStep
  BY <1>3, <1>5
<1>7. recovered[c] => KnowsRows(elements[c], rows)
  <2>1. serverUp /\ (c2s[c] # <<>> \/ link[c] = "broken")
    BY <1>1, Zenon DEF Serve, RecoverFromDB, Reject, EndSession, Probe, StoreFile, RemoveFile, MakeDir,
       RemoveDir, Handling
  <2>2. link[c] # "none"
    BY <2>1 DEF Silent
  <2> QED BY <2>1, <2>2 DEF SessionKnowsTable
<1>8. Adds(c)
  BY <1>1, <1>7, HandlersAdd
<1>9. AllAsked
  <2> SUFFICES ASSUME NEW p \in Path, ~Lost(p)' PROVE ~Lost(p) /\ (Quietly(p) \/ Asks(p))
    BY DEF AllAsked
  <2>1. ~Lost(p)
    BY <1>2, <1>6 DEF Lost
  <2>2. CASE Quietly(p)
    BY <2>1, <2>2
  <2>3. CASE ~Quietly(p)
    <3>1. c2s[c] # <<>> /\ Puts(Head(c2s[c]), p)
      BY <1>8, <2>3 DEF Adds
    <3>2. 1 \in DOMAIN c2s[c] /\ Head(c2s[c]) = c2s[c][1] /\ c2s[c][1] \in Request
      <4>1. c2s[c] \in Seq(Request)
        BY <1>1, ClientFacts
      <4> QED BY <3>1, <4>1
    <3>3. c2s[c][1].path = p /\ p \notin doubtful
      BY <2>1, <3>1, <3>2 DEF Puts, Lost
    <3>4. PICK i \in DOMAIN window : i > Replies /\ RequestOf(window[i]) = Asked(c2s[c][1])
      BY <1>6, <3>2, <3>3 DEF Foreseen
    <3>5. window[i].path = p /\ OpOf(window[i]) = c2s[c][1].op
      BY <3>2, <3>3, <3>4, AskedPath
    <3> QED BY <2>1, <3>1, <3>2, <3>4, <3>5 DEF Puts, Asks
  <2> QED BY <2>2, <2>3
<1>10. WindowGrows
  BY <1>2 DEF WindowGrows
<1>11. Replies \in Nat /\ conn \in Conn \cup {NoConn} /\ s2c \in [Conn -> Seq(Reply)] /\ window \in Seq(Events)
  BY <1>1, ReplyCount, ClientFacts
<1>12. CASE s2c' = s2c \/ conn = NoConn
  <2>1. Replies' = Replies /\ (Replies # 0 => s2c' = s2c)
    BY <1>2, <1>12 DEF Replies
  <2>2. RepliesGoOn
    BY <1>2, <1>11, <2>1 DEF RepliesGoOn
  <2>3. WaitersKept
    BY <1>2, <2>1 DEF WaitersKept
  <2>4. WindowTells'
    BY <1>1, <1>2, <1>9, <1>10, <1>11, <2>1, <2>2, Proceeds
  <2>5. doubtful \subseteq doubtful'
    BY <1>2
  <2> QED BY <1>1, <1>3, <2>3, <2>4, <2>5, ForeseenStays
<1>13. CASE s2c' # s2c /\ conn # NoConn
  <2>1. conn = c /\ link[c] = "open"
    BY <1>3, <1>11, <1>13
  <2>2. c2s[c] # <<>> /\ Tells(c)
    BY <1>1, <1>7, <1>13, <2>1, HandlersTell
  <2>3. /\ Len(s2c[c]) \in Nat /\ Len(s2c[c]) + 1 \in DOMAIN window /\ Head(c2s[c]) \in Request
        /\ RequestOf(window[Len(s2c[c]) + 1]) = Asked(Head(c2s[c]))
    BY <1>1, <1>6, <1>13, <2>1, <2>2, NextIsAnswered
  <2> DEFINE n == Len(s2c[c]) + 1
             r == Head(c2s[c])
  <2>4. PICK kind : /\ s2c'[c] = Append(s2c[c], [kind |-> kind, re |-> r])
                    /\ link'[c] = "open" \/ c2s'[c] = <<>>
                    /\ kind \in OkCode /\ r.op \in {"DELE", "RMD"} => rows'[r.path] = <<>>
                    /\ r.op = "STOR" => kind \in ErrCode \/ rows'[r.path] # <<>>
    BY <2>2 DEF Tells
  <2>5. window[n].path = r.path /\ OpOf(window[n]) = r.op /\ n \in DOMAIN window
    BY <2>3, AskedPath
  <2>6. /\ Replies = Len(s2c[c]) /\ Replies' = n /\ n \in Nat /\ s2c'[conn'][n].kind = kind
        /\ \A j \in 1 .. Replies : s2c'[conn'][j] = s2c[conn][j]
    <3>1. s2c[c] \in Seq(Reply)
      BY <1>11
    <3> QED BY <1>2, <1>13, <2>1, <2>3, <2>4, <3>1 DEF Replies
  <2>7. NewReply(n)
    <3>1. window[n].type = "deleted" => r.op \in {"DELE", "RMD"}
      BY <2>5 DEF OpOf
    <3> HIDE DEF n, r
    <3> QED BY <2>4, <2>5, <2>6, <3>1 DEF NewReply
  <2>8. RepliesGoOn
    <3> SUFFICES ASSUME NEW i \in 1 .. Replies'
                 PROVE  \/ i <= Replies /\ s2c'[conn'][i].kind = s2c[conn][i].kind
                        \/ i > Replies /\ i \in DOMAIN window /\ NewReply(i)
      BY DEF RepliesGoOn
    <3>1. i \in 1 .. Replies \/ (i = n /\ i > Replies)
      BY <2>3, <2>6
    <3> HIDE DEF n, r
    <3> QED BY <2>5, <2>6, <2>7, <3>1
  <2>9. WindowTells'
    <3>1. Replies' \in Nat /\ clientDb' = clientDb /\ window' \in Seq(Events)
      BY <1>2, <1>11, <2>6
    <3> HIDE DEF n, r
    <3> QED BY <1>1, <1>9, <1>10, <2>8, <3>1, Proceeds
  <2>10. Foreseen'
    <3> SUFFICES ASSUME NEW d \in Conn, NEW k \in DOMAIN c2s'[d]
                 PROVE  \E i \in DOMAIN window' : i > Replies' /\ RequestOf(window'[i]) = Asked(c2s'[d][k])
      BY DEF Foreseen, Asked, RequestOf, OpOf
    <3>1. d = c /\ conn' = c
      BY <1>2, <2>1
    <3>2. c2s'[d] # <<>>
      <4>1. DOMAIN <<>> = {}
        OBVIOUS
      <4> QED BY <4>1
    <3>3. link'[c] = "open"
      BY <2>4, <3>1, <3>2
    <3> QED BY <1>2, <1>5, <1>13, <3>1, <3>3 DEF OpenForeseen, Asked, RequestOf, OpOf
  <2> QED BY <2>9, <2>10
<1> QED BY <1>12, <1>13

\* The other steps take no reply from the window and bring none to it.
LEMMA GoesOnTells ==
  ASSUME KindsFixed, ClientOK, window \in Seq(KindEvents), window' \in Seq(Events), Foreseen, WindowTells,
         RenewedIsMade, OldRequests, OpenForeseen', clientDb' = clientDb, WindowGrows, Replies' \in Nat,
         Replies' <= Replies, \A i \in 1 .. Replies' : s2c'[conn'][i] = s2c[conn][i],
         excused \subseteq excused', doubtful \subseteq doubtful', outOfStep => outOfStep',
         UNCHANGED storeVars \/ \A p \in Path : Lost(p) \/ Quietly(p) \/ Asks(p)
  PROVE  WindowTells' /\ Foreseen'
<1>1. Replies \in Nat
  BY ReplyCount
<1>2. RepliesGoOn
  BY <1>1 DEF RepliesGoOn
<1>3. WaitersKept
  BY <1>1 DEF WaitersKept, WindowGrows
<1>4. AllAsked
  <2> SUFFICES ASSUME NEW p \in Path, ~Lost(p)' PROVE ~Lost(p) /\ (Quietly(p) \/ Asks(p))
    BY DEF AllAsked
  <2>1. ~Lost(p)
    BY DEF Lost
  <2>2. UNCHANGED storeVars => Quietly(p)
    BY DEF Quietly, storeVars
  <2> QED BY <2>1, <2>2
<1> QED BY <1>2, <1>3, <1>4, Proceeds, ForeseenStays

LEMMA ReceivedTells ==
  ASSUME ClientOK, Foreseen, WindowTells, OpenForeseen', UNCHANGED storeVars,
         ReceiveOk \/ ReceiveErr \/ ReceiveSend
  PROVE  WindowTells' /\ Foreseen'
<1>1. OldRequests /\ (outOfStep => outOfStep')
  <2>1. Communicate
    BY DEF Communicate
  <2> QED BY <2>1, ClientWritesOnce
<1>2. /\ UNCHANGED <<conn, doubtful, outOfStep>>
      /\ Len(window) \in Nat /\ Len(s2c[conn]) \in Nat /\ Len(s2c[conn]) >= 1
      /\ Replies = Len(s2c[conn]) /\ Replies' = Replies - 1
      /\ \A i \in 1 .. Len(window) - 1 : window'[i] = window[i + 1]
      /\ DOMAIN window = 1 .. Len(window) /\ DOMAIN window' = 1 .. Len(window) - 1
  BY HeadTaken
<1>3. WaitersKept
  <2> SUFFICES ASSUME NEW i \in DOMAIN window, i > Replies
               PROVE  \E j \in DOMAIN window' : j > Replies' /\ window'[j] = window[i]
    BY DEF WaitersKept
  <2>1. i - 1 \in 1 .. Len(window) - 1 /\ i - 1 + 1 = i /\ i - 1 > Replies'
    BY <1>2
  <2> QED BY <1>2, <2>1
<1>4. Foreseen'
  <2>1. doubtful \subseteq doubtful'
    BY <1>2
  <2> QED BY <1>1, <1>3, <2>1, ForeseenStays
<1> QED BY <1>4, Taken

LEMMA StopTells ==
  ASSUME ClientOK, Foreseen, WindowTells, OpenForeseen', UNCHANGED storeVars, Stop
  PROVE  WindowTells' /\ Foreseen'
<1>1. OldRequests /\ outOfStep' = outOfStep
  BY DEF Stop, OldRequests
<1>2. WaitersKept /\ doubtful \subseteq doubtful'
  BY DEF Stop, InDoubt, WaitersKept
<1> QED BY <1>1, <1>2, ForeseenStays, Stopped

LEMMA HangUpTells ==
  ASSUME KindsFixed, ClientOK, window \in Seq(KindEvents), Foreseen, WindowTells,
         RenewedIsMade, OpenForeseen', UNCHANGED storeVars, HangUp, excused \subseteq excused'
  PROVE  WindowTells' /\ Foreseen'
<1>1. /\ UNCHANGED <<c2s, outOfStep, window, clientDb, doubtful>> /\ conn' = NoConn
  BY DEF HangUp
<1>2. OldRequests
  BY <1>1 DEF OldRequests
<1>3. Replies' = 0 /\ Replies \in Nat /\ window \in Seq(Events)
  BY <1>1, ReplyCount, ClientFacts DEF Replies
<1>4. WindowGrows
  BY <1>1 DEF WindowGrows
<1>5. /\ Replies' \in Nat /\ Replies' <= Replies /\ \A i \in 1 .. Replies' : s2c'[conn'][i] = s2c[conn][i]
      /\ window' \in Seq(Events) /\ clientDb' = clientDb /\ doubtful \subseteq doubtful' /\ (outOfStep => outOfStep')
  BY <1>1, <1>3
<1> QED BY <1>2, <1>4, <1>5, GoesOnTells

LEMMA WritingTells ==
  ASSUME KindsFixed, ClientOK, window \in Seq(KindEvents), window' \in Seq(Events), Foreseen, WindowTells,
         RenewedIsMade, OpenForeseen', UNCHANGED storeVars, OldRequests, outOfStep => outOfStep',
         UNCHANGED <<clientDb, conn, s2c, excused, doubtful>>, WindowGrows
  PROVE  WindowTells' /\ Foreseen'
<1>1. Replies' = Replies /\ Replies \in Nat
  BY ReplyCount DEF Replies
<1>2. /\ Replies' \in Nat /\ Replies' <= Replies /\ \A i \in 1 .. Replies' : s2c'[conn'][i] = s2c[conn][i]
      /\ clientDb' = clientDb /\ excused \subseteq excused' /\ doubtful \subseteq doubtful'
  BY <1>1
<1> QED BY <1>2, GoesOnTells

LEMMA AppendGrows ==
  ASSUME window \in Seq(Events), NEW e, window' = Append(window, e)
  PROVE  WindowGrows
<1>1. Len(window) \in Nat /\ DOMAIN window = 1 .. Len(window)
  OBVIOUS
<1> QED BY <1>1 DEF WindowGrows

LEMMA ClientTells ==
  ASSUME KindsFixed, ClientOK, window \in Seq(KindEvents), window' \in Seq(Events), Foreseen, WindowTells,
         RenewedIsMade, OpenForeseen', UNCHANGED storeVars, Communicate
  PROVE  WindowTells' /\ Foreseen'
<1>1. OldRequests /\ (outOfStep => outOfStep') /\ window \in Seq(Events)
  BY ClientWritesOnce, ClientFacts
<1>2. CASE LoseConnection \/ Disconnect
  <2>1. HangUp /\ excused \subseteq excused'
    BY <1>2 DEF LoseConnection, Disconnect
  <2> QED BY <2>1, HangUpTells
<1>3. CASE ReceiveUnwantedSend \/ ReceiveException \/ FileVanished
  BY <1>3, StopTells DEF ReceiveUnwantedSend, ReceiveException, FileVanished, StopAll
<1>4. CASE ReceiveOk \/ ReceiveErr \/ ReceiveSend
  BY <1>4, ReceivedTells
<1>5. CASE Resent \/ SkipStale \/ ResendMessage \/ ResendData \/ SendData
  <2>1. UNCHANGED <<window, ownVars, excused, s2c>>
    BY <1>5 DEF Resent, SkipStale, ResendMessage, ResendData, SendData, netVars
  <2>2. WindowGrows
    BY <2>1 DEF WindowGrows
  <2> QED BY <1>1, <2>1, <2>2, WritingTells DEF ownVars
<1>6. CASE SendEvent \/ SendStor
  <2>1. UNCHANGED <<ownVars, excused, s2c>> /\ \E e : window' = Append(window, e)
    BY <1>6 DEF SendEvent, SendStor
  <2>2. WindowGrows
    BY <1>1, <2>1, AppendGrows
  <2> QED BY <1>1, <2>1, <2>2, WritingTells DEF ownVars
<1> QED BY <1>2, <1>3, <1>4, <1>5, <1>6 DEF Communicate

LEMMA DeathTells ==
  ASSUME KindsFixed, IInv, window \in Seq(KindEvents), Foreseen, WindowTells,
         RenewedIsMade, OpenForeseen', ServerDies
  PROVE  WindowTells' /\ Foreseen'
<1>1. /\ UNCHANGED <<watcherVars, clientVars, s2c, outOfStep>> /\ c2s' = [c \in Conn |-> <<>>]
      /\ ServerOK /\ ClientOK
  BY InvariantParts DEF ServerDies, Crash, CrashInHandler, Halt
<1>2. OldRequests
  <2>1. \A c \in Conn : DOMAIN c2s'[c] = {}
    BY <1>1
  <2> QED BY <2>1 DEF OldRequests
<1>3. UNCHANGED <<window, excused, doubtful, clientDb, conn>> /\ window \in Seq(Events) /\ Replies \in Nat
  BY <1>1, ClientFacts, ReplyCount DEF clientVars
<1>4. Replies' = Replies
  BY <1>1, <1>3 DEF Replies
<1>5. UNCHANGED storeVars \/ \A p \in Path : Lost(p) \/ Quietly(p) \/ Asks(p)
  <2>1. CASE Crash
    BY <2>1 DEF Crash, Halt, storeVars
  <2>2. CASE \E c \in Conn : CrashInHandler(c)
    <3>1. PICK c \in Conn : CrashInHandler(c)
      BY <2>2
    <3>2. Adds(c)
      BY <1>1, <3>1, CrashAdds
    <3>3. ASSUME NEW p \in Path, ~Lost(p), ~Quietly(p) PROVE Asks(p)
      <4>1. c2s[c] # <<>> /\ Puts(Head(c2s[c]), p)
        BY <3>2, <3>3 DEF Adds
      <4>2. 1 \in DOMAIN c2s[c] /\ Head(c2s[c]) = c2s[c][1] /\ c2s[c][1] \in Request
        <5>1. c2s[c] \in Seq(Request)
          BY <1>1, ClientFacts
        <5> QED BY <4>1, <5>1
      <4>3. c2s[c][1].path = p /\ p \notin doubtful /\ ~outOfStep
        BY <3>3, <4>1, <4>2 DEF Puts, Lost
      <4>4. PICK i \in DOMAIN window : i > Replies /\ RequestOf(window[i]) = Asked(c2s[c][1])
        BY <4>2, <4>3 DEF Foreseen
      <4>5. window[i].path = p /\ OpOf(window[i]) = c2s[c][1].op
        BY <4>2, <4>3, <4>4, AskedPath
      <4> QED BY <4>1, <4>2, <4>4, <4>5 DEF Puts, Asks
    <3> QED BY <3>3
  <2> QED BY <2>1, <2>2 DEF ServerDies
<1>6. WindowGrows
  BY <1>3 DEF WindowGrows
<1>7. /\ Replies' \in Nat /\ Replies' <= Replies /\ \A i \in 1 .. Replies' : s2c'[conn'][i] = s2c[conn][i]
      /\ clientDb' = clientDb /\ excused \subseteq excused' /\ doubtful \subseteq doubtful'
      /\ window' \in Seq(Events) /\ (outOfStep => outOfStep')
  BY <1>1, <1>3, <1>4
<1> QED BY <1>1, <1>2, <1>5, <1>6, <1>7, GoesOnTells

LEMMA BreakReads ==
  ASSUME ClientOK, ConnectionBreaks
  PROVE  /\ OldRequests /\ Replies' \in Nat /\ Replies' <= Replies
         /\ \A i \in 1 .. Replies' : s2c'[conn][i] = s2c[conn][i]
         /\ outOfStep' = outOfStep
<1>1. UNCHANGED clientVars
  BY DEF ConnectionBreaks
<1>2. PICK c \in Conn : Break(c)
  BY DEF ConnectionBreaks
<1>3. /\ c2s \in [Conn -> Seq(Request)] /\ s2c \in [Conn -> Seq(Reply)]
      /\ conn \in Conn \cup {NoConn}
  BY ClientFacts
<1>4. PICK s \in Prefixes(c2s[c]), u \in Prefixes(s2c[c]) :
         c2s' = [c2s EXCEPT ![c] = s] /\ s2c' = [s2c EXCEPT ![c] = u] /\ outOfStep' = outOfStep
  BY <1>2 DEF Break
<1>5. /\ DOMAIN s \subseteq DOMAIN c2s[c] /\ \A k \in DOMAIN s : s[k] = c2s[c][k]
  <2>1. PICK q : q = c2s[c]
    OBVIOUS
  <2>2. PICK n \in 0 .. Len(q) : s = SubSeq(q, 1, n)
    BY <2>1 DEF Prefixes
  <2>3. q \in Seq(Request)
    BY <1>3, <2>1
  <2> QED BY <2>1, <2>2, <2>3
<1>6. Len(u) \in Nat /\ Len(u) <= Len(s2c[c]) /\ \A i \in 1 .. Len(u) : u[i] = s2c[c][i]
  <2>1. PICK q : q = s2c[c]
    OBVIOUS
  <2>2. PICK n \in 0 .. Len(q) : u = SubSeq(q, 1, n)
    BY <2>1 DEF Prefixes
  <2>3. q \in Seq(Reply)
    BY <1>3, <2>1
  <2> QED BY <2>1, <2>2, <2>3
<1>7. OldRequests
  <2> SUFFICES ASSUME NEW d \in Conn, NEW k \in DOMAIN c2s'[d]
               PROVE  \E j \in DOMAIN c2s[d] : c2s'[d][k] = c2s[d][j]
    BY DEF OldRequests
  <2>1. CASE d = c
    <3>1. c2s'[d] = s
      BY <1>3, <1>4, <2>1
    <3> QED BY <1>5, <2>1, <3>1
  <2>2. CASE d # c
    <3>1. c2s'[d] = c2s[d]
      BY <1>3, <1>4, <2>2
    <3> QED BY <3>1
  <2> QED BY <2>1, <2>2
<1>8. /\ Replies' \in Nat /\ Replies' <= Replies
      /\ \A i \in 1 .. Replies' : s2c'[conn][i] = s2c[conn][i]
  <2>1. conn' = conn /\ Replies \in Nat
    BY <1>1, <1>3, ReplyCount DEF clientVars
  <2>2. CASE conn = NoConn
    <3>1. Replies = 0 /\ Replies' = 0
      BY <2>1, <2>2 DEF Replies
    <3> QED BY <3>1
  <2>3. CASE conn = c
    <3>1. s2c'[conn] = u
      BY <1>3, <1>4, <2>3
    <3>2. Replies = Len(s2c[c]) /\ Replies' = Len(u)
      BY <2>1, <2>3, <3>1, NetAssumption DEF Replies
    <3> QED BY <1>6, <2>3, <3>1, <3>2
  <2>4. CASE conn # NoConn /\ conn # c
    <3>1. s2c'[conn] = s2c[conn]
      BY <1>3, <1>4, <2>4
    <3>2. Replies' = Replies
      BY <2>1, <3>1 DEF Replies
    <3> QED BY <2>1, <3>1, <3>2
  <2> QED BY <2>2, <2>3, <2>4
<1> QED BY <1>4, <1>7, <1>8

LEMMA StepTells ==
  ASSUME NEW s, Conn = {s}, KindsFixed, IInv, IInv', AllOfTheirKind, InOrder, SessionKnowsTable, Silent,
         OpenForeseen', Foreseen, WindowTells, RenewedIsMade, [Next]_vars
  PROVE  WindowTells' /\ Foreseen'
<1>1. /\ ClientOK /\ ServerOK /\ window \in Seq(KindEvents) /\ window \in Seq(Events) /\ Replies \in Nat
  BY InvariantParts, ClientFacts, ReplyCount DEF AllOfTheirKind, ClientKinds
<1>2. window' \in Seq(Events)
  BY DEF IInv, ClientOK, ClientTypeOK
<1>3. ASSUME c2s' = c2s PROVE OldRequests
  BY <1>3 DEF OldRequests
<1>4. ASSUME UNCHANGED <<clientVars, storeVars>>, OldRequests, outOfStep' = outOfStep, s2c' = s2c
      PROVE  WindowTells' /\ Foreseen'
  <2>1. UNCHANGED <<clientDb, conn, excused, doubtful, window>> /\ (outOfStep => outOfStep')
    BY <1>4 DEF clientVars
  <2>2. WindowGrows
    BY <2>1 DEF WindowGrows
  <2> QED BY <1>1, <1>2, <1>4, <2>1, <2>2, WritingTells
<1>5. CASE Users \/ Watcher \/ UNCHANGED vars
  <2>1. UNCHANGED <<clientVars, netVars, serverVars>>
    BY <1>5 DEF Users, Watcher, vars
  <2> QED BY <1>3, <1>4, <2>1 DEF netVars, serverVars
<1>6. CASE WatcherFails \/ (Kill /\ UNCHANGED serverVars) \/ ClientGivesUp
  <2>1. Stop /\ UNCHANGED serverVars
    BY <1>6 DEF WatcherFails, Kill, ClientGivesUp, GiveUp, StopAll
  <2> QED BY <1>1, <2>1, StopTells DEF serverVars
<1>7. CASE Client
  <2>1. Communicate /\ UNCHANGED storeVars
    BY <1>7 DEF Client, serverVars
  <2> QED BY <1>1, <1>2, <2>1, ClientTells
<1>8. ASSUME NEW c \in Conn, Connect(c) PROVE WindowTells' /\ Foreseen'
  <2>1. /\ conn' = c
        /\ UNCHANGED <<window, clientDb, excused, doubtful, outOfStep, storeVars>>
        /\ c2s' = [c2s EXCEPT ![c] = <<>>] /\ s2c' = [s2c EXCEPT ![c] = <<>>]
    BY <1>8 DEF Connect, ConnectTo
  <2>2. c2s \in [Conn -> Seq(Request)] /\ s2c \in [Conn -> Seq(Reply)]
    BY <1>1, ClientFacts
  <2>3. OldRequests
    <3> SUFFICES ASSUME NEW d \in Conn, NEW k \in DOMAIN c2s'[d]
                 PROVE  \E j \in DOMAIN c2s[d] : c2s'[d][k] = c2s[d][j]
      BY DEF OldRequests
    <3>1. DOMAIN <<>> = {}
      OBVIOUS
    <3>2. c2s'[d] = c2s[d]
      BY <2>1, <2>2, <3>1
    <3> QED BY <3>2
  <2>4. Replies' = 0
    <3>1. s2c'[c] = <<>> /\ c # NoConn
      BY <2>1, <2>2, NetAssumption
    <3>2. Len(<<>>) = 0
      OBVIOUS
    <3> QED BY <2>1, <3>1, <3>2 DEF Replies
  <2>5. WindowGrows
    BY <2>1 DEF WindowGrows
  <2>6. /\ Replies' \in Nat /\ Replies' <= Replies /\ \A i \in 1 .. Replies' : s2c'[conn'][i] = s2c[conn][i]
        /\ clientDb' = clientDb /\ excused \subseteq excused' /\ doubtful \subseteq doubtful'
        /\ (outOfStep => outOfStep') /\ UNCHANGED storeVars
    BY <1>1, <2>1, <2>4
  <2> QED BY <1>1, <1>2, <2>3, <2>5, <2>6, GoesOnTells
<1>9. CASE \E c \in Conn : Server(c)
  BY <1>9, ServerTells
<1>10. CASE ServerDies
  BY <1>1, <1>10, DeathTells
<1>11. CASE ServerRestarts
  <2>1. UNCHANGED <<clientVars, c2s, s2c, outOfStep, storeVars>>
    BY <1>11 DEF ServerRestarts, Restart
  <2> QED BY <1>3, <1>4, <2>1
<1>12. CASE ConnectionBreaks
  <2>1. UNCHANGED <<clientVars, storeVars>>
    BY <1>12 DEF ConnectionBreaks, serverVars
  <2>2. UNCHANGED <<clientDb, conn, excused, doubtful, window>>
    BY <2>1 DEF clientVars
  <2>3. WindowGrows /\ clientDb' = clientDb /\ excused \subseteq excused' /\ doubtful \subseteq doubtful'
    BY <2>2 DEF WindowGrows
  <2> QED BY <1>1, <1>2, <1>12, <2>1, <2>2, <2>3, BreakReads, GoesOnTells
<1>13. CASE StartClient /\ UNCHANGED serverVars
  <2>1. UNCHANGED <<window, clientDb, conn, excused, doubtful, c2s, s2c, outOfStep, storeVars>>
    BY <1>13 DEF StartClient, netVars, serverVars
  <2>2. WindowGrows /\ (outOfStep => outOfStep')
    BY <2>1 DEF WindowGrows
  <2> QED BY <1>1, <1>2, <1>3, <2>1, <2>2, WritingTells
<1>14. \/ Users \/ Watcher \/ WatcherFails \/ Client \/ (\E c \in Conn : Connect(c)) \/ (\E c \in Conn : Server(c))
       \/ ServerDies \/ ServerRestarts \/ ConnectionBreaks \/ UNCHANGED vars
       \/ (Kill /\ UNCHANGED serverVars) \/ (StartClient /\ UNCHANGED serverVars) \/ ClientGivesUp
  BY Zenon DEF Next, ClientRestarts
<1> QED BY <1>5, <1>6, <1>7, <1>8, <1>9, <1>10, <1>11, <1>12, <1>13, <1>14, Zenon
-----------------------------------------------------------------------------
(* A directory the watcher knows is in the client's database or will be.    *)
HeldIsMade == pc # "down" =>
    \A p \in Path : IsDir(known, p) /\ p \notin excused =>
        \A k \in Nat \ {0} : DOMAIN Coming = 1 .. k - 1 => MadeBefore(Coming, p, k)
\* Where client and watcher have nothing more to tell of p, the client's database has
\* what the watcher knows.
Rests(p) == ~IsComing(p) /\ p \notin ToRecover /\ ~Out(p)
Agrees(p) == SameContent(known, clientDb, p) \/ (p \in doubtful /\ ~Exists(clientDb, p))
Agreed == pc # "down" /\ ~outOfStep => \A p \in Path : Rests(p) => Agrees(p)
LineTells == RenewedIsMade /\ HeldIsMade /\ Agreed

ComingOfKind == \A i \in DOMAIN Coming : Coming[i] \in KindEvents

LEMMA ComingIsOfKind ==
  ASSUME ClientOK, AllOfTheirKind
  PROVE  ComingOfKind
<1> SUFFICES ASSUME NEW i \in DOMAIN Coming PROVE Coming[i] \in KindEvents
  BY DEF ComingOfKind
<1>1. window \in Seq(Events) /\ cur \in Seq(Events) /\ queue \in Seq(Events)
  BY ClientFacts
<1>2. window \in Seq(KindEvents) /\ cur \in Seq(KindEvents) /\ queue \in Seq(KindEvents)
  BY DEF AllOfTheirKind, ClientKinds, WatcherKinds
<1>3. PICK w, c, q : w = window /\ c = cur /\ q = queue
  OBVIOUS
<1>4. \/ \E k \in DOMAIN w : Line(w, c, q)[i] = w[k]
      \/ \E k \in DOMAIN c : Line(w, c, q)[i] = c[k]
      \/ \E k \in DOMAIN q : Line(w, c, q)[i] = q[k]
  <2>1. i \in DOMAIN Line(w, c, q)
    BY <1>3 DEF Coming
  <2> QED BY <1>1, <1>3, <2>1, LineParts
<1>5. /\ \A k \in DOMAIN w : w[k] \in KindEvents
      /\ \A k \in DOMAIN c : c[k] \in KindEvents
      /\ \A k \in DOMAIN q : q[k] \in KindEvents
  BY <1>2, <1>3, ElementOfSeq
<1> QED BY <1>3, <1>4, <1>5 DEF Coming

\* f takes the events of p before k in M to their places in L, and misses none that
\* makes p but what was confirmed.
Aligns(f, L, M, p, k) ==
    /\ DOMAIN L \subseteq Nat \ {0} /\ DOMAIN M \subseteq Nat \ {0} /\ f[k] > 0
    /\ \A i, j \in Nat : i <= j => f[i] <= f[j]
    /\ \A i \in DOMAIN M : M[i].path = p /\ i < k => f[i] \in DOMAIN L /\ L[f[i]] = M[i] /\ f[i] < f[k]
    /\ \A i \in DOMAIN L : L[i].path = p /\ Makes(L[i]) /\ i < f[k] =>
          \/ i = 1 /\ Exists(clientDb', p)
          \/ \E x \in DOMAIN M : f[x] = i /\ M[x] = L[i]
    /\ \/ Exists(clientDb', p)
       \/ ~Exists(clientDb, p)
       \/ 1 \in DOMAIN L /\ L[1].path = p /\ L[1].type = "deleted" /\ 1 < f[k]

LEMMA Aligned ==
  ASSUME NEW L, NEW M, NEW p, NEW k \in Nat, NEW f \in [Nat -> Nat], Aligns(f, L, M, p, k),
         MadeBefore(L, p, f[k]),
         NEW j \in Nat, j < k, IF j = 0 THEN ~Exists(clientDb', p) ELSE Gone(M, p, j)
  PROVE  MadeBetween(M, p, j, k)
<1> SUFFICES \E i \in DOMAIN M : j < i /\ i < k /\ M[i].path = p /\ Makes(M[i])
  BY DEF MadeBetween
<1> USE DEF Aligns
<1>1. ASSUME NEW i \in DOMAIN L, L[i].path = p, Makes(L[i]), i < f[k], i # 1 \/ ~Exists(clientDb', p),
             j = 0 \/ f[j] < i
      PROVE  \E x \in DOMAIN M : j < x /\ x < k /\ M[x].path = p /\ Makes(M[x])
  <2>1. PICK x \in DOMAIN M : f[x] = i /\ M[x] = L[i]
    BY <1>1
  <2>2. x \in Nat /\ x > 0 /\ i \in Nat /\ f[x] \in Nat /\ f[k] \in Nat /\ f[j] \in Nat
    OBVIOUS
  <2>3. x < k
    <3>1. k <= x => f[k] <= f[x]
      BY <2>2
    <3> QED BY <1>1, <2>1, <2>2, <3>1
  <2>4. j < x
    <3>1. x <= j => f[x] <= f[j]
      BY <2>2
    <3> QED BY <1>1, <2>1, <2>2, <3>1
  <2> QED BY <1>1, <2>1, <2>3, <2>4
<1>2. CASE j # 0
  <2>1. j \in DOMAIN M /\ M[j].path = p /\ M[j].type = "deleted"
    BY <1>2 DEF Gone
  <2>2. f[j] \in DOMAIN L /\ L[f[j]] = M[j] /\ f[j] < f[k] /\ f[j] \in Nat /\ f[j] # 0
    BY <2>1
  <2>3. Gone(L, p, f[j])
    BY <2>1, <2>2 DEF Gone
  <2>4. PICK i \in DOMAIN L : f[j] < i /\ i < f[k] /\ L[i].path = p /\ Makes(L[i])
    BY <2>2, <2>3 DEF MadeBefore, MadeBetween
  <2>5. i # 1
    <3>1. i \in Nat
      OBVIOUS
    <3> QED BY <2>2, <2>4, <3>1
  <2> QED BY <1>1, <2>4, <2>5
<1>3. CASE j = 0
  <2>1. ~Exists(clientDb', p)
    BY <1>3 DEF Gone, Exists
  <2>2. Gone(L, p, 0) \/ (Gone(L, p, 1) /\ 1 < f[k])
    BY <2>1 DEF Gone
  <2>3. PICK i \in DOMAIN L : i < f[k] /\ L[i].path = p /\ Makes(L[i])
    BY <2>2 DEF MadeBefore, MadeBetween
  <2> QED BY <1>1, <1>3, <2>1, <2>3
<1> QED BY <1>2, <1>3

\* What is said of an event, or of the end of the line, was said before the step.
MadeStays(p) ==
    \A k \in Nat \ {0} :
        (k \in DOMAIN Coming' /\ Coming'[k].path = p) \/ DOMAIN Coming' = 1 .. k - 1 =>
            \E m \in Nat \ {0} :
                /\ k \in DOMAIN Coming' => m \in DOMAIN Coming /\ Coming[m] = Coming'[k]
                /\ k \notin DOMAIN Coming' => DOMAIN Coming = 1 .. m - 1
                /\ MadeBefore(Coming, p, m) => MadeBefore(Coming, p, k)'

LEMMA AlignedStays ==
  ASSUME NEW p, NEW n \in Nat, NEW n2 \in Nat, DOMAIN Coming = 1 .. n, DOMAIN Coming' = 1 .. n2,
         NEW f \in [Nat -> Nat],
         \A k \in Nat \ {0} : f[k] > 0, f[n2 + 1] = n + 1,
         \A i, j \in Nat : i <= j => f[i] <= f[j],
         \A i, j \in Nat : i < j /\ f[i] = f[j] => j \in DOMAIN Coming' /\ Coming'[j].path # p,
         \A i \in DOMAIN Coming' : Coming'[i].path = p => f[i] \in DOMAIN Coming /\ Coming[f[i]] = Coming'[i],
         \A i \in DOMAIN Coming : Coming[i].path = p /\ Makes(Coming[i]) =>
            \/ i = 1 /\ Exists(clientDb', p)
            \/ \E x \in DOMAIN Coming' : f[x] = i /\ Coming'[x] = Coming[i],
         \/ Exists(clientDb', p)
         \/ ~Exists(clientDb, p)
         \/ 1 \in DOMAIN Coming /\ Coming[1].path = p /\ Coming[1].type = "deleted" /\ \A k \in Nat \ {0} : 1 < f[k]
  PROVE  MadeStays(p)
<1> SUFFICES ASSUME NEW k \in Nat \ {0},
                    (k \in DOMAIN Coming' /\ Coming'[k].path = p) \/ DOMAIN Coming' = 1 .. k - 1
             PROVE  /\ f[k] \in Nat \ {0}
                    /\ k \in DOMAIN Coming' => f[k] \in DOMAIN Coming /\ Coming[f[k]] = Coming'[k]
                    /\ k \notin DOMAIN Coming' => DOMAIN Coming = 1 .. f[k] - 1
                    /\ MadeBefore(Coming, p, f[k]) => MadeBefore(Coming, p, k)'
  BY DEF MadeStays
<1>1. f[k] \in Nat \ {0}
  <2>1. k \in Nat /\ f[k] > 0
    OBVIOUS
  <2>2. f[k] \in Nat
    BY <2>1
  <2>3. \A x \in Nat : x > 0 => x \in Nat \ {0}
    OBVIOUS
  <2> QED BY <2>1, <2>2, <2>3, Zenon
<1>2. DOMAIN Coming' = 1 .. k - 1 => k = n2 + 1
  <2>1. \A a, b \in Nat : 1 .. a = 1 .. b => a = b
    <3> SUFFICES ASSUME NEW a \in Nat, NEW b \in Nat, 1 .. a = 1 .. b PROVE a = b
      OBVIOUS
    <3>1. a >= 1 => a \in 1 .. b
      OBVIOUS
    <3>2. b >= 1 => b \in 1 .. a
      OBVIOUS
    <3> QED BY <3>1, <3>2
  <2>2. k - 1 \in Nat
    OBVIOUS
  <2> QED BY <2>1, <2>2
<1>3. k \notin DOMAIN Coming' => DOMAIN Coming = 1 .. f[k] - 1
  <2>1. k \notin DOMAIN Coming' => k = n2 + 1
    BY <1>2
  <2>2. k = n2 + 1 => f[k] - 1 = n
    OBVIOUS
  <2> QED BY <2>1, <2>2
<1>4. \A i \in DOMAIN Coming' : Coming'[i].path = p /\ i < k =>
         f[i] \in DOMAIN Coming /\ Coming[f[i]] = Coming'[i] /\ f[i] < f[k]
  <2> SUFFICES ASSUME NEW i \in DOMAIN Coming', Coming'[i].path = p, i < k PROVE f[i] < f[k]
    OBVIOUS
  <2>1. i \in Nat /\ f[i] <= f[k]
    OBVIOUS
  <2>2. f[i] # f[k]
    <3>1. k \in DOMAIN Coming' => Coming'[k].path = p
      BY <1>2
    <3> QED BY <2>1, <3>1
  <2> QED BY <2>1, <2>2
<1>5. MadeBefore(Coming, p, f[k]) => MadeBefore(Coming, p, k)'
  <2> SUFFICES ASSUME MadeBefore(Coming, p, f[k]) PROVE MadeBefore(Coming, p, k)'
    OBVIOUS
  <2>1. PICK L, M : L = Coming /\ M = Coming'
    OBVIOUS
  <2>2. MadeBefore(L, p, f[k])
    BY <2>1
  <2>3. DOMAIN L \subseteq Nat \ {0} /\ DOMAIN M \subseteq Nat \ {0}
    <3>1. \A x \in Nat : 1 .. x \subseteq Nat \ {0}
      OBVIOUS
    <3> QED BY <2>1, <3>1
  <2>8. f[k] > 0 /\ k \in Nat
    OBVIOUS
  <2>9. \A i, j \in Nat : i <= j => f[i] <= f[j]
    OBVIOUS
  <2>4. \A i \in DOMAIN M : M[i].path = p /\ i < k => f[i] \in DOMAIN L /\ L[f[i]] = M[i] /\ f[i] < f[k]
    BY <1>4, <2>1
  <2>5. \A i \in DOMAIN L : L[i].path = p /\ Makes(L[i]) /\ i < f[k] =>
            \/ i = 1 /\ Exists(clientDb', p)
            \/ \E x \in DOMAIN M : f[x] = i /\ M[x] = L[i]
    BY <2>1
  <2>6. \/ Exists(clientDb', p)
        \/ ~Exists(clientDb, p)
        \/ 1 \in DOMAIN L /\ L[1].path = p /\ L[1].type = "deleted" /\ 1 < f[k]
    BY <2>1
  <2>10. Aligns(f, L, M, p, k)
    BY <2>3, <2>4, <2>5, <2>6, <2>8, <2>9, Zenon DEF Aligns
  <2>7. \A j \in Nat : j < k /\ (IF j = 0 THEN ~Exists(clientDb', p) ELSE Gone(M, p, j)) => MadeBetween(M, p, j, k)
    <3> SUFFICES ASSUME NEW j \in Nat, j < k, IF j = 0 THEN ~Exists(clientDb', p) ELSE Gone(M, p, j)
                 PROVE  MadeBetween(M, p, j, k)
      OBVIOUS
    <3> QED BY <2>2, <2>8, <2>10, Aligned, Zenon
  <2> QED BY <2>1, <2>7 DEF MadeBefore, MadeBetween, Gone
<1>6. k \in DOMAIN Coming' => f[k] \in DOMAIN Coming /\ Coming[f[k]] = Coming'[k]
  <2> SUFFICES ASSUME k \in DOMAIN Coming' PROVE f[k] \in DOMAIN Coming /\ Coming[f[k]] = Coming'[k]
    OBVIOUS
  <2>1. Coming'[k].path = p
    BY <1>2
  <2> QED BY <2>1
<1> QED BY <1>1, <1>3, <1>5, <1>6, Zenon

\* So it stays said of every directory.
Folder(p) == p \in Path /\ Kinds[p] = {"directory"}
AllMadeStay == \A p \in Path : Folder(p) /\ p \notin excused' => MadeStays(p)

LEMMA FolderEvents ==
  ASSUME KindsFixed, NEW ev \in KindEvents
  PROVE  /\ ev.path \in Path /\ ev \in Events
         /\ OpOf(ev) = "MKD" => Folder(ev.path)
         /\ ev.entry.type = "file" => ~Folder(ev.path)
<1>1. ev \in Events /\ ev.path \in Path /\ ev.entry \in Entry /\ ev.entry.type \in Kinds[ev.path]
  BY DEF KindEvents, Events
<1>2. ev.entry.type \in {"file", "directory"}
  BY <1>1 DEF Entry
<1>3. OpOf(ev) = "MKD" => ev.entry.type # "file"
  BY DEF OpOf
<1> QED BY <1>1, <1>2, <1>3 DEF Folder, KindsFixed

LEMMA StayMade ==
  ASSUME KindsFixed, ClientOK', RenewedIsMade, HeldIsMade, OfItsKind(known), ComingOfKind', AllMadeStay,
         known' = known, pc' # "down" => pc # "down", excused \subseteq excused'
  PROVE  RenewedIsMade' /\ HeldIsMade'
<1>1. ASSUME NEW k \in DOMAIN Coming', Renews(Coming[k])'
      PROVE  MadeBefore(Coming, Coming[k].path, k)'
  <2>1. PICK p, ev : p = Coming'[k].path /\ ev = Coming'[k]
    OBVIOUS
  <2>2. ev \in KindEvents
    BY <2>1 DEF ComingOfKind
  <2>3. OpOf(ev) = "MKD" /\ ev.type = "modified" /\ p \notin excused' /\ p \in Path /\ Folder(p)
    <3>1. OpOf(ev) = "MKD" /\ ev.type = "modified" /\ p \notin excused'
      BY <1>1, <2>1 DEF Renews, OpOf
    <3> QED BY <2>1, <2>2, <3>1, FolderEvents
  <2>4. MadeStays(p)
    BY <2>3 DEF AllMadeStay
  <2>5. k \in Nat \ {0}
    BY DEF Coming, Line
  <2>6. PICK m \in Nat \ {0} : /\ m \in DOMAIN Coming /\ Coming[m] = Coming'[k]
                               /\ MadeBefore(Coming, p, m) => MadeBefore(Coming, p, k)'
    BY <2>1, <2>4, <2>5 DEF MadeStays
  <2>7. Renews(Coming[m])
    BY <2>1, <2>3, <2>6 DEF Renews
  <2>8. MadeBefore(Coming, p, m)
    BY <2>1, <2>6, <2>7 DEF RenewedIsMade
  <2> QED BY <2>1, <2>6, <2>8
<1>2. ASSUME pc' # "down", NEW p \in Path, IsDir(known', p), p \notin excused',
             NEW k \in Nat \ {0}, DOMAIN Coming' = 1 .. k - 1
      PROVE  MadeBefore(Coming, p, k)'
  <2>1. Folder(p) /\ IsDir(known, p) /\ p \notin excused /\ pc # "down"
    BY <1>2 DEF OfItsKind, IsDir, Exists, Folder, KindsFixed
  <2>2. MadeStays(p)
    BY <1>2, <2>1 DEF AllMadeStay
  <2>3. k \notin DOMAIN Coming'
    BY <1>2
  <2>4. PICK m \in Nat \ {0} : /\ DOMAIN Coming = 1 .. m - 1
                               /\ MadeBefore(Coming, p, m) => MadeBefore(Coming, p, k)'
    BY <1>2, <2>2, <2>3 DEF MadeStays
  <2> QED BY <2>1, <2>4 DEF HeldIsMade
<1>3. RenewedIsMade'
  BY <1>1 DEF RenewedIsMade
<1>4. HeldIsMade'
  BY <1>2 DEF HeldIsMade, IsDir, Exists
<1> QED BY <1>3, <1>4

LEMMA LineKept ==
  ASSUME Coming' = Coming, clientDb' = clientDb
  PROVE  AllMadeStay
<1> SUFFICES ASSUME NEW p \in Path, NEW k \in Nat \ {0},
                    k \in DOMAIN Coming' \/ DOMAIN Coming' = 1 .. k - 1
             PROVE  /\ k \in DOMAIN Coming' => k \in DOMAIN Coming /\ Coming[k] = Coming'[k]
                    /\ k \notin DOMAIN Coming' => DOMAIN Coming = 1 .. k - 1
                    /\ MadeBefore(Coming, p, k) => MadeBefore(Coming, p, k)'
  BY DEF AllMadeStay, MadeStays
<1>1. MadeBefore(Coming, p, k) => MadeBefore(Coming, p, k)'
  BY DEF MadeBefore, MadeBetween, Gone, Exists, Makes
<1> QED BY <1>1

\* What the answer to the oldest event makes of a directory.
LEMMA HeadMakes ==
  ASSUME KindsFixed, ClientOK, ComingOfKind, ReceiveOk \/ ReceiveErr \/ ReceiveSend,
         NEW p, Folder(p), p \notin excused'
  PROVE  /\ 1 \in DOMAIN Coming /\ Coming[1] = window[1]
         /\ Coming[1].path = p /\ Makes(Coming[1]) => Exists(clientDb', p)
         /\ \/ Exists(clientDb', p)
            \/ ~Exists(clientDb, p)
            \/ Coming[1].path = p /\ Coming[1].type = "deleted"
<1>1. /\ \/ s2c[conn][1].kind \in OkCode /\ clientDb' = Confirmed(window[1])
         \/ clientDb' = clientDb /\ excused' = excused \cup {window[1].path}
         \/ clientDb' = clientDb /\ window[1].entry.type = "file"
      /\ Len(window) \in Nat /\ Len(window) >= 1 /\ DOMAIN window = 1 .. Len(window)
  BY HeadTaken
<1>2. 1 \in DOMAIN Coming /\ Coming[1] = window[1]
  <2>1. window \in Seq(Events) /\ cur \in Seq(Events) /\ queue \in Seq(Events)
    BY ClientFacts
  <2>2. /\ Len(window) \in Nat /\ Len(cur) \in Nat /\ Len(queue) \in Nat
        /\ DOMAIN Coming = 1 .. Len(window) + Len(cur) + Len(queue)
        /\ \A i \in 1 .. Len(window) : Coming[i] = window[i]
    BY <2>1, LineIs DEF Coming
  <2> QED BY <1>1, <2>2
<1>3. PICK h \in KindEvents : h = window[1]
  BY <1>2 DEF ComingOfKind
<1>4. h \in Events /\ h.path \in Path /\ (h.entry.type = "file" => ~Folder(h.path)) /\ h.entry \in Entry
      /\ clientDb \in Tree /\ p \in Path /\ h.type \in EventType
  <2>1. h \in Events /\ h.path \in Path /\ (h.entry.type = "file" => ~Folder(h.path))
    BY FolderEvents
  <2> QED BY <2>1, ClientFacts DEF Folder, Events
<1>5. CASE clientDb' = Confirmed(h)
  <2>1. h.path = p /\ Makes(h) => Exists(clientDb', p)
    BY <1>4, <1>5, ConfirmedElsewhere, TreeAssumption DEF Exists
  <2>2. \/ Exists(clientDb', p)
        \/ ~Exists(clientDb, p)
        \/ h.path = p /\ h.type = "deleted"
    BY <1>4, <1>5, ConfirmedElsewhere DEF Exists
  <2> QED BY <1>2, <1>3, <2>1, <2>2
<1>6. CASE clientDb' = clientDb /\ h.path # p
  BY <1>2, <1>3, <1>6 DEF Exists
<1>7. CASE clientDb' = clientDb /\ excused' = excused \cup {h.path}
  <2>1. h.path # p
    BY <1>7
  <2> QED BY <1>6, <1>7, <2>1
<1>8. CASE clientDb' = clientDb /\ h.entry.type = "file"
  <2>1. h.path # p
    BY <1>4, <1>8
  <2> QED BY <1>6, <1>8, <2>1
<1> QED BY <1>1, <1>3, <1>5, <1>7, <1>8

\* f takes M's places to those of L: it is in order, leaves out the first events of L
\* and joins no event of p to another.
Carries(f, L, M, p, first) ==
    /\ \A k \in Nat \ {0} : first < f[k]
    /\ \A i, j \in Nat : i <= j => f[i] <= f[j]
    /\ \A i, j \in Nat : i < j /\ f[i] = f[j] => j \in DOMAIN M /\ M[j].path # p
    /\ \A i \in DOMAIN M : M[i].path = p => f[i] \in DOMAIN L /\ L[f[i]] = M[i]
    /\ \A i \in DOMAIN L : L[i].path = p /\ i > first => \E x \in DOMAIN M : f[x] = i /\ M[x] = L[i]

LEMMA MatchShrunk ==
  ASSUME NEW L, NEW M, NEW p, NEW n \in Nat, n >= 1, DOMAIN L = 1 .. n, DOMAIN M = 1 .. n - 1,
         \A i \in 1 .. n - 1 : M[i] = L[i + 1]
  PROVE  \E f \in [Nat -> Nat] : f[n - 1 + 1] = n + 1 /\ Carries(f, L, M, p, 1)
<1>1. PICK f \in [Nat -> Nat] : \A i \in Nat : f[i] = i + 1
  <2>1. [i \in Nat |-> i + 1] \in [Nat -> Nat]
    OBVIOUS
  <2> QED BY <2>1
<1>2. f[n - 1 + 1] = n + 1
  <2>1. n - 1 + 1 \in Nat /\ n - 1 + 1 = n
    OBVIOUS
  <2> QED BY <1>1, <2>1
<1>3. \A k \in Nat \ {0} : 1 < f[k]
  BY ONLY <1>1
<1>4. \A i, j \in Nat : i <= j => f[i] <= f[j]
  BY ONLY <1>1
<1>5. \A i, j \in Nat : i < j => f[i] # f[j]
  BY ONLY <1>1
<1>6. ASSUME NEW i \in DOMAIN M PROVE f[i] \in DOMAIN L /\ L[f[i]] = M[i]
  <2>2. i \in 1 .. n - 1
    OBVIOUS
  <2>1. i \in Nat /\ i + 1 \in 1 .. n /\ i \in 1 .. n - 1
    BY ONLY <2>2, n \in Nat
  <2> QED BY <1>1, <2>1
<1>7. ASSUME NEW i \in DOMAIN L, i > 1 PROVE \E x \in DOMAIN M : f[x] = i /\ M[x] = L[i]
  <2>3. i \in 1 .. n
    OBVIOUS
  <2>1. i - 1 \in 1 .. n - 1 /\ i - 1 + 1 = i /\ i - 1 \in Nat
    BY ONLY <1>7, <2>3, n \in Nat
  <2>2. M[i - 1] = L[i] /\ f[i - 1] = i
    BY <1>1, <2>1
  <2> QED BY <2>1, <2>2
<1>8. Carries(f, L, M, p, 1)
  BY <1>3, <1>4, <1>5, <1>6, <1>7, Zenon DEF Carries
<1> QED BY <1>2, <1>8

LEMMA MatchTurned ==
  ASSUME NEW L, NEW M, NEW p, NEW n \in Nat, NEW w \in 1 .. n, DOMAIN L = 1 .. n, DOMAIN M = 1 .. n,
         \A i \in 1 .. w - 1 : M[i] = L[i + 1], \A i \in w + 1 .. n : M[i] = L[i],
         M[w].path # p, L[1].path # p
  PROVE  \E f \in [Nat -> Nat] : f[n + 1] = n + 1 /\ Carries(f, L, M, p, 0)
<1>1. PICK f \in [Nat -> Nat] : \A i \in Nat : f[i] = IF i < w THEN i + 1 ELSE i
  <2>1. [i \in Nat |-> IF i < w THEN i + 1 ELSE i] \in [Nat -> Nat]
    OBVIOUS
  <2> QED BY <2>1
<1>2. w \in Nat /\ w >= 1 /\ w <= n
  OBVIOUS
<1>3. \A k \in Nat \ {0} : 0 < f[k]
  BY ONLY <1>1, <1>2
<1>4. f[n + 1] = n + 1
  BY <1>1, <1>2
<1>5. \A i, j \in Nat : i <= j => f[i] <= f[j]
  BY ONLY <1>1, <1>2
<1>6. \A i, j \in Nat : i < j /\ f[i] = f[j] => j \in DOMAIN M /\ M[j].path # p
  <2>1. \A i, j \in Nat : i < j /\ f[i] = f[j] => j = w
    BY ONLY <1>1, <1>2
  <2> QED BY <2>1
<1>7. ASSUME NEW i \in DOMAIN M, M[i].path = p PROVE f[i] \in DOMAIN L /\ L[f[i]] = M[i]
  <2>1. i \in Nat /\ i # w /\ i >= 1 /\ i <= n
    BY <1>7
  <2>2. CASE i < w
    <3>1. i \in 1 .. w - 1 /\ i + 1 \in 1 .. n /\ f[i] = i + 1
      BY <1>1, <1>2, <2>1, <2>2
    <3> QED BY <3>1
  <2>3. CASE i > w
    <3>1. i \in w + 1 .. n /\ f[i] = i
      BY <1>1, <1>2, <2>1, <2>3
    <3> QED BY <3>1
  <2> QED BY <1>2, <2>1, <2>2, <2>3
<1>8. ASSUME NEW i \in DOMAIN L, L[i].path = p PROVE \E x \in DOMAIN M : f[x] = i /\ M[x] = L[i]
  <2>1. i \in Nat /\ i # 1 /\ i >= 1 /\ i <= n
    BY <1>8
  <2>2. CASE i <= w
    <3>1. i - 1 \in 1 .. w - 1 /\ i - 1 + 1 = i /\ i - 1 \in Nat /\ i - 1 < w /\ i - 1 \in 1 .. n
      BY ONLY <1>2, <2>1, <2>2
    <3>2. f[i - 1] = i /\ M[i - 1] = L[i]
      BY <1>1, <3>1
    <3> QED BY <3>1, <3>2
  <2>3. CASE i > w
    <3>1. i \in w + 1 .. n /\ f[i] = i
      BY <1>1, <1>2, <2>1, <2>3
    <3> QED BY <3>1
  <2> QED BY <1>2, <2>1, <2>2, <2>3
<1>9. Carries(f, L, M, p, 0)
  BY <1>3, <1>5, <1>6, <1>7, <1>8, Zenon DEF Carries
<1> QED BY <1>4, <1>9

LEMMA MatchLost ==
  ASSUME NEW L, NEW M, NEW p, NEW n \in Nat, NEW k \in 0 .. n, DOMAIN L = 1 .. n + 1, DOMAIN M = 1 .. n,
         \A i \in 1 .. k : M[i] = L[i], \A i \in k + 1 .. n : M[i] = L[i + 1], L[k + 1].path # p
  PROVE  \E f \in [Nat -> Nat] : f[n + 1] = n + 1 + 1 /\ Carries(f, L, M, p, 0)
<1>1. PICK f \in [Nat -> Nat] : \A i \in Nat : f[i] = IF i <= k THEN i ELSE i + 1
  <2>1. [i \in Nat |-> IF i <= k THEN i ELSE i + 1] \in [Nat -> Nat]
    OBVIOUS
  <2> QED BY <2>1
<1>2. k \in Nat /\ k <= n
  OBVIOUS
<1>3. \A x \in Nat \ {0} : 0 < f[x]
  BY ONLY <1>1, <1>2
<1>4. f[n + 1] = n + 1 + 1
  BY <1>1, <1>2
<1>5. \A i, j \in Nat : i <= j => f[i] <= f[j]
  BY ONLY <1>1, <1>2
<1>6. \A i, j \in Nat : i < j => f[i] # f[j]
  BY ONLY <1>1, <1>2
<1>7. ASSUME NEW i \in DOMAIN M PROVE f[i] \in DOMAIN L /\ L[f[i]] = M[i]
  <2>1. i \in Nat /\ i >= 1 /\ i <= n
    OBVIOUS
  <2>2. CASE i <= k
    <3>1. i \in 1 .. k /\ i \in 1 .. n + 1 /\ f[i] = i
      BY ONLY <1>1, <1>2, <2>1, <2>2, n \in Nat
    <3> QED BY <3>1
  <2>3. CASE i > k
    <3>1. i \in k + 1 .. n /\ i + 1 \in 1 .. n + 1 /\ f[i] = i + 1
      BY ONLY <1>1, <1>2, <2>1, <2>3, n \in Nat
    <3> QED BY <3>1
  <2> QED BY <1>2, <2>1, <2>2, <2>3
<1>8. ASSUME NEW i \in DOMAIN L, L[i].path = p PROVE \E x \in DOMAIN M : f[x] = i /\ M[x] = L[i]
  <2>4. i \in 1 .. n + 1 /\ i # k + 1
    BY <1>8
  <2>1. i \in Nat /\ i # k + 1 /\ i >= 1 /\ i <= n + 1
    BY ONLY <2>4, n \in Nat
  <2>2. CASE i <= k
    <3>1. i \in 1 .. k /\ i \in 1 .. n /\ f[i] = i
      BY ONLY <1>1, <1>2, <2>1, <2>2, n \in Nat
    <3> QED BY <3>1
  <2>3. CASE i > k + 1
    <3>1. i - 1 \in k + 1 .. n /\ i - 1 + 1 = i /\ i - 1 \in Nat /\ i - 1 > k /\ i - 1 \in 1 .. n
      BY ONLY <1>2, <2>1, <2>3, n \in Nat
    <3>2. f[i - 1] = i /\ M[i - 1] = L[i]
      BY ONLY <1>1, <1>2, <3>1, \A i_1 \in k + 1 .. n : M[i_1] = L[i_1 + 1]
    <3> QED BY <3>1, <3>2
  <2>5. i <= k \/ i > k + 1
    BY ONLY <1>2, <2>1
  <2> QED BY <2>2, <2>3, <2>5
<1>9. Carries(f, L, M, p, 0)
  BY <1>3, <1>5, <1>6, <1>7, <1>8, Zenon DEF Carries
<1> QED BY <1>4, <1>9

LEMMA MatchedStays ==
  ASSUME NEW p, NEW n \in Nat, NEW n2 \in Nat, DOMAIN Coming = 1 .. n, DOMAIN Coming' = 1 .. n2,
         NEW f \in [Nat -> Nat], f[n2 + 1] = n + 1, NEW first, first = 0 \/ (first = 1 /\ n >= 1),
         Carries(f, Coming, Coming', p, first),
         first = 0 => clientDb' = clientDb,
         first = 1 => /\ Coming[1].path = p /\ Makes(Coming[1]) => Exists(clientDb', p)
                      /\ \/ Exists(clientDb', p)
                         \/ ~Exists(clientDb, p)
                         \/ Coming[1].path = p /\ Coming[1].type = "deleted"
  PROVE  MadeStays(p)
<1>1. \A k \in Nat \ {0} : first < f[k]
  BY DEF Carries
<1>2. \A k \in Nat \ {0} : f[k] > 0
  BY ONLY <1>1, first = 0 \/ first = 1, f \in [Nat -> Nat]
<1>3. /\ \A i, j \in Nat : i <= j => f[i] <= f[j]
      /\ \A i, j \in Nat : i < j /\ f[i] = f[j] => j \in DOMAIN Coming' /\ Coming'[j].path # p
      /\ \A i \in DOMAIN Coming' : Coming'[i].path = p => f[i] \in DOMAIN Coming /\ Coming[f[i]] = Coming'[i]
      /\ \A i \in DOMAIN Coming : Coming[i].path = p /\ i > first =>
                                    \E x \in DOMAIN Coming' : f[x] = i /\ Coming'[x] = Coming[i]
  BY Zenon DEF Carries
<1>4. \A i \in DOMAIN Coming : i > first \/ (i = 1 /\ first = 1)
  <2>1. \A i \in 1 .. n : i > first \/ (i = 1 /\ first = 1)
    BY ONLY n \in Nat, first = 0 \/ first = 1
  <2> QED BY <2>1
<1>5. ASSUME NEW i \in DOMAIN Coming, Coming[i].path = p, Makes(Coming[i])
      PROVE  \/ i = 1 /\ Exists(clientDb', p)
             \/ \E x \in DOMAIN Coming' : f[x] = i /\ Coming'[x] = Coming[i]
  BY <1>3, <1>4, <1>5, Zenon
<1>6. \/ Exists(clientDb', p)
      \/ ~Exists(clientDb, p)
      \/ 1 \in DOMAIN Coming /\ Coming[1].path = p /\ Coming[1].type = "deleted" /\ \A k \in Nat \ {0} : 1 < f[k]
  <2>1. CASE first = 0
    BY <2>1 DEF Exists
  <2>2. CASE first = 1
    <3>1. 1 \in 1 .. n
      BY ONLY <2>2, n \in Nat, first = 0 \/ (first = 1 /\ n >= 1)
    <3>2. 1 \in DOMAIN Coming
      BY <3>1
    <3> QED BY <1>1, <2>2, <3>2, Zenon
  <2> QED BY <2>1, <2>2
<1> QED BY <1>2, <1>3, <1>5, <1>6, AlignedStays

LEMMA KeptStays ==
  ASSUME NEW p, NEW n \in Nat, NEW n2 \in Nat, DOMAIN Coming = 1 .. n, DOMAIN Coming' = 1 .. n2,
         NEW f \in [Nat -> Nat], f[n2 + 1] = n + 1, Carries(f, Coming, Coming', p, 0), clientDb' = clientDb
  PROVE  MadeStays(p)
<1>1. PICK first : first = 0
  OBVIOUS
<1>2. first # 1
  BY <1>1
<1>3. Carries(f, Coming, Coming', p, first)
  BY <1>1
<1> QED BY <1>1, <1>2, <1>3, MatchedStays, Zenon

LEMMA TakenStays ==
  ASSUME NEW p, NEW n \in Nat, NEW n2 \in Nat, n >= 1, DOMAIN Coming = 1 .. n, DOMAIN Coming' = 1 .. n2,
         NEW f \in [Nat -> Nat], f[n2 + 1] = n + 1, Carries(f, Coming, Coming', p, 1),
         Coming[1].path = p /\ Makes(Coming[1]) => Exists(clientDb', p),
         \/ Exists(clientDb', p)
         \/ ~Exists(clientDb, p)
         \/ Coming[1].path = p /\ Coming[1].type = "deleted"
  PROVE  MadeStays(p)
<1>1. PICK first : first = 1
  OBVIOUS
<1>2. first # 0
  BY <1>1
<1>3. Carries(f, Coming, Coming', p, first)
  BY <1>1
<1> QED BY <1>1, <1>2, <1>3, MatchedStays, Zenon

\* receive takes the oldest event from the line, or puts another for it behind the window.
Shrunk(n) == /\ n >= 1 /\ DOMAIN Coming = 1 .. n /\ DOMAIN Coming' = 1 .. n - 1
             /\ \A i \in 1 .. n - 1 : Coming'[i] = Coming[i + 1]
Turned(n, w) == /\ DOMAIN Coming = 1 .. n /\ DOMAIN Coming' = 1 .. n
                /\ \A i \in 1 .. w - 1 : Coming'[i] = Coming[i + 1]
                /\ Coming'[w].path = Coming[1].path
                /\ \A i \in w + 1 .. n : Coming'[i] = Coming[i]

LEMMA ReceivedLine ==
  ASSUME ClientOK, Resting, ReceiveOk \/ ReceiveErr \/ ReceiveSend
  PROVE  /\ 1 \in DOMAIN Coming /\ Coming[1] = window[1] /\ Coming[1] \in Events
         /\ \A i \in DOMAIN window : i \in DOMAIN Coming /\ Coming[i] = window[i]
         /\ cur' = cur => \E n \in Nat : Shrunk(n)
         /\ cur' # cur => /\ \E n \in Nat : \E w \in 1 .. n : Turned(n, w)
                          /\ window[1].entry.type = "file" /\ clientDb' = clientDb
<1>1. /\ pc = "loop" /\ s2c[conn] # <<>> /\ window # <<>> /\ window' = Tail(window) /\ queue' = queue
  BY DEF ReceiveOk, ReceiveErr, ReceiveSend, Receiving, Consume, watcherVars
<1>2. window \in Seq(Events) /\ cur = <<>> /\ queue \in Seq(Events) /\ cur \in Seq(Events)
  BY <1>1, ClientFacts DEF Resting
<1>3. /\ Len(window) \in Nat /\ Len(window) >= 1 /\ Len(queue) \in Nat /\ Len(cur) = 0
      /\ DOMAIN window = 1 .. Len(window)
  BY <1>1, <1>2
<1>4. /\ DOMAIN Coming = 1 .. Len(window) + Len(cur) + Len(queue)
      /\ \A i \in DOMAIN Coming : Coming[i] \in Events
      /\ \A i \in 1 .. Len(window) : Coming[i] = window[i]
  <2>1. window \in Seq(Events) /\ cur \in Seq(Events) /\ queue \in Seq(Events)
    BY ClientFacts
  <2> QED BY <2>1, LineIs DEF Coming
<1>5. /\ 1 \in DOMAIN Coming /\ 1 \in DOMAIN window
      /\ \A i \in DOMAIN window : i \in DOMAIN Coming /\ Coming[i] = window[i]
  BY <1>3, <1>4
<1>6. ASSUME cur' = cur PROVE \E n \in Nat : Shrunk(n)
  <2> DEFINE n == Len(window) + Len(cur) + Len(queue)
  <2>1. Coming' = Line(Tail(window), cur, queue)
    BY <1>1, <1>6 DEF Coming
  <2>2. /\ n >= 1 /\ DOMAIN Line(Tail(window), cur, queue) = 1 .. n - 1
        /\ \A i \in 1 .. n - 1 : Line(Tail(window), cur, queue)[i] = Line(window, cur, queue)[i + 1]
    BY <1>1, <1>2, LineTail, ZenonT(40)
  <2>3. n \in Nat /\ DOMAIN Coming = 1 .. n
    BY <1>3, <1>4
  <2> HIDE DEF n
  <2>4. Shrunk(n)
    BY <2>1, <2>2, <2>3 DEF Coming, Shrunk
  <2> QED BY <2>3, <2>4
<1>7. ASSUME cur' # cur
      PROVE  /\ \E n \in Nat : \E w \in 1 .. n : Turned(n, w)
             /\ window[1].entry.type = "file" /\ clientDb' = clientDb
  <2>1. PICK h : h = Head(window) /\ h = window[1]
    BY <1>1, <1>2
  <2>2. /\ ReceiveSend /\ h.entry.type = "file" /\ clientDb' = clientDb
        /\ cur' = <<Event("storeSent", h.path, h.entry)>>
    BY <1>7, <2>1 DEF ReceiveOk, ReceiveErr, ReceiveSend, Wanted, positionVars
  <2>3. h \in Events /\ h.path \in Path /\ h.entry \in Entry
    BY <1>4, <1>5, <2>1 DEF Events
  <2>4. PICK e \in Events : e = Event("storeSent", h.path, h.entry) /\ e.path = h.path
    BY <2>3, EventTypes DEF Event, EventType
  <2> DEFINE n == Len(window) + Len(queue)
             w == Len(window)
  <2>5. Coming' = Line(Tail(window), <<e>>, queue) /\ Coming = Line(window, <<>>, queue)
    BY <1>1, <1>2, <2>2, <2>4 DEF Coming
  <2>6. LET L == Line(window, <<>>, queue)
            M == Line(Tail(window), <<e>>, queue)
        IN  /\ DOMAIN L = 1 .. n /\ DOMAIN M = 1 .. n /\ w \in 1 .. n
            /\ \A i \in 1 .. w - 1 : M[i] = L[i + 1]
            /\ M[w] = e
            /\ \A i \in w + 1 .. n : M[i] = L[i]
    BY <1>1, <1>2, LineInsert
  <2>7. n \in Nat
    BY <1>3
  <2> HIDE DEF n, w
  <2>8. Turned(n, w)
    BY <1>5, <2>1, <2>4, <2>5, <2>6 DEF Turned
  <2> QED BY <2>1, <2>2, <2>6, <2>7, <2>8
<1> QED BY <1>4, <1>5, <1>6, <1>7

LEMMA ReceivedStays ==
  ASSUME KindsFixed, ClientOK, Resting, ComingOfKind, ReceiveOk \/ ReceiveErr \/ ReceiveSend
  PROVE  AllMadeStay
<1> SUFFICES ASSUME NEW p, Folder(p), p \notin excused' PROVE MadeStays(p)
  BY DEF AllMadeStay
<1>1. /\ 1 \in DOMAIN Coming /\ Coming[1] = window[1]
      /\ Coming[1].path = p /\ Makes(Coming[1]) => Exists(clientDb', p)
      /\ \/ Exists(clientDb', p)
         \/ ~Exists(clientDb, p)
         \/ Coming[1].path = p /\ Coming[1].type = "deleted"
  BY HeadMakes
<1>2. CASE cur' = cur
  <2>1. PICK n \in Nat : Shrunk(n)
    BY <1>2, ReceivedLine
  <2>2. PICK n2 \in Nat : n2 = n - 1
    BY <2>1 DEF Shrunk
  <2>3. PICK L, M : L = Coming /\ M = Coming'
    OBVIOUS
  <2>4. PICK f \in [Nat -> Nat] : f[n - 1 + 1] = n + 1 /\ Carries(f, L, M, p, 1)
    BY <2>1, <2>3, MatchShrunk DEF Shrunk
  <2>5. f[n2 + 1] = n + 1 /\ Carries(f, Coming, Coming', p, 1) /\ DOMAIN Coming' = 1 .. n2
        /\ n >= 1 /\ DOMAIN Coming = 1 .. n
    BY <2>1, <2>2, <2>3, <2>4 DEF Shrunk
  <2> QED BY <1>1, <2>5, TakenStays, Zenon
<1>3. CASE cur' # cur
  <2>1. window[1].entry.type = "file" /\ clientDb' = clientDb
    BY <1>3, ReceivedLine
  <2>2. PICK n \in Nat : \E w \in 1 .. n : Turned(n, w)
    BY <1>3, ReceivedLine
  <2>3. PICK w \in 1 .. n : Turned(n, w)
    BY <2>2
  <2>4. Coming[1] \in KindEvents
    BY <1>1 DEF ComingOfKind
  <2>5. Coming[1].path # p
    BY <1>1, <2>1, <2>4, FolderEvents
  <2>6. PICK L, M : L = Coming /\ M = Coming'
    OBVIOUS
  <2>7. PICK f \in [Nat -> Nat] : f[n + 1] = n + 1 /\ Carries(f, L, M, p, 0)
    <3>1. M[w].path # p /\ L[1].path # p
      BY <2>3, <2>5, <2>6 DEF Turned
    <3> QED BY <2>3, <2>6, <3>1, MatchTurned DEF Turned
  <2>8. Carries(f, Coming, Coming', p, 0) /\ DOMAIN Coming = 1 .. n /\ DOMAIN Coming' = 1 .. n
    BY <2>3, <2>6, <2>7 DEF Turned
  <2> QED BY <2>1, <2>7, <2>8, KeptStays, Zenon
<1> QED BY <1>2, <1>3

LEMMA DroppedLine ==
  ASSUME ClientOK, HangUp, cur # <<>>
  PROVE  \E n \in Nat : \E k \in 0 .. n :
            /\ DOMAIN Coming = 1 .. n + 1 /\ DOMAIN Coming' = 1 .. n
            /\ \A i \in 1 .. k : Coming'[i] = Coming[i]
            /\ Coming[k + 1] = cur[1] /\ 1 \in DOMAIN cur
            /\ \A i \in k + 1 .. n : Coming'[i] = Coming[i + 1]
<1>1. window' = window /\ cur' = <<>> /\ queue' = queue
  BY DEF HangUp, watcherVars
<1>2. window \in Seq(Events) /\ cur \in Seq(Events) /\ queue \in Seq(Events) /\ Len(cur) <= 1
  BY ClientFacts
<1>3. Len(cur) = 1 /\ 1 \in DOMAIN cur
  <2>1. cur \in Seq(Events) /\ cur # <<>>
    BY <1>2
  <2>2. Len(cur) >= 1 /\ DOMAIN cur = 1 .. Len(cur) /\ Len(cur) \in Nat
    BY ONLY <2>1
  <2>3. \A a \in Nat : a >= 1 /\ a <= 1 => a = 1
    OBVIOUS
  <2>4. Len(cur) = 1
    BY <1>2, <2>2, <2>3, Zenon
  <2>5. 1 \in 1 .. 1
    OBVIOUS
  <2> QED BY <2>2, <2>4, <2>5, Zenon
<1> DEFINE n == Len(window) + Len(queue)
           k == Len(window)
<1>4. /\ DOMAIN Coming = 1 .. n + 1 /\ DOMAIN Coming' = 1 .. n /\ n \in Nat /\ k \in 0 .. n
      /\ \A i \in 1 .. k : Coming'[i] = Coming[i]
      /\ Coming[k + 1] = cur[1]
      /\ \A i \in k + 1 .. n : Coming'[i] = Coming[i + 1]
  <2>1. Coming' = Line(window, <<>>, queue)
    BY <1>1 DEF Coming
  <2>2. LET L == Line(window, cur, queue)
            M == Line(window, <<>>, queue)
        IN  /\ DOMAIN L = 1 .. n + 1 /\ DOMAIN M = 1 .. n /\ n \in Nat /\ k \in 0 .. n
            /\ \A i \in 1 .. k : M[i] = L[i]
            /\ L[k + 1] = cur[1]
            /\ \A i \in k + 1 .. n : M[i] = L[i + 1]
    BY <1>2, <1>3, LineDrop
  <2> HIDE DEF n, k
  <2> QED BY <2>1, <2>2 DEF Coming
<1> HIDE DEF n, k
<1> QED BY <1>3, <1>4

LEMMA HangUpStays ==
  ASSUME ClientOK, HangUp, excused' = excused \cup {cur[i].path : i \in DOMAIN cur}
  PROVE  AllMadeStay
<1>1. /\ window' = window /\ cur' = <<>> /\ queue' = queue /\ clientDb' = clientDb
  BY DEF HangUp, watcherVars
<1>2. /\ window \in Seq(Events) /\ cur \in Seq(Events) /\ queue \in Seq(Events) /\ Len(cur) <= 1
      /\ Len(cur) \in Nat
  BY ClientFacts
<1>4. CASE cur = <<>>
  <2>1. Coming' = Coming
    BY <1>1, <1>4 DEF Coming
  <2> QED BY <1>1, <2>1, LineKept
<1>5. CASE cur # <<>>
  <2> SUFFICES ASSUME NEW p, Folder(p), p \notin excused' PROVE MadeStays(p)
    BY DEF AllMadeStay
  <2>1. PICK n \in Nat : \E k \in 0 .. n :
           /\ DOMAIN Coming = 1 .. n + 1 /\ DOMAIN Coming' = 1 .. n
           /\ \A i \in 1 .. k : Coming'[i] = Coming[i]
           /\ Coming[k + 1] = cur[1] /\ 1 \in DOMAIN cur
           /\ \A i \in k + 1 .. n : Coming'[i] = Coming[i + 1]
    BY <1>5, DroppedLine
  <2>2. PICK k \in 0 .. n :
           /\ DOMAIN Coming = 1 .. n + 1 /\ DOMAIN Coming' = 1 .. n
           /\ \A i \in 1 .. k : Coming'[i] = Coming[i]
           /\ Coming[k + 1] = cur[1] /\ 1 \in DOMAIN cur
           /\ \A i \in k + 1 .. n : Coming'[i] = Coming[i + 1]
    BY <2>1
  <2>3. cur[1].path # p
    BY <2>2
  <2>4. PICK L, M : L = Coming /\ M = Coming'
    OBVIOUS
  <2>5. PICK f \in [Nat -> Nat] : f[n + 1] = n + 1 + 1 /\ Carries(f, L, M, p, 0)
    <3>1. L[k + 1].path # p
      BY <2>2, <2>3, <2>4
    <3> QED BY <2>2, <2>4, <3>1, MatchLost
  <2>6. PICK m \in Nat : m = n + 1
    BY <2>2
  <2>7. f[n + 1] = m + 1 /\ Carries(f, Coming, Coming', p, 0) /\ DOMAIN Coming = 1 .. m
    BY <2>2, <2>4, <2>5, <2>6
  <2> QED BY <1>1, <2>2, <2>7, KeptStays, Zenon
<1> QED BY <1>4, <1>5

\* The watcher's report.
Reports(e) == /\ queue' = Append(queue, e) /\ known' \in Tree /\ scan.pass # "stopped"
              /\ \A p \in Path \ {e.path} : known'[p] = known[p] /\ (p \in ToRecover => p \in ToRecover')
              /\ IF e.type = "deleted" THEN ~Exists(known', e.path) ELSE known'[e.path] = e.entry
              /\ e.type = "modified" => Exists(known, e.path)
NoReport == /\ UNCHANGED <<known, queue>> /\ \A p \in ToRecover \ ToRecover' : Out(p)

LEMMA WatchReports ==
  ASSUME ClientOK, Watcher
  PROVE  NoReport \/ \E e \in Events : Reports(e)
<1>1. Watch
  BY DEF Watcher
<1>2. /\ folder \in Tree /\ known \in Tree /\ VisitsKnown
      /\ scan \in [pass : Pass, todo : SUBSET Path]
  BY DEF ClientOK, WatcherOK, WatcherTypeOK
<1>3. ASSUME scan.pass # "recover" PROVE ToRecover = {}
  BY <1>3 DEF ToRecover
<1>5. CASE NextPass
  <2>1. ToRecover = {}
    BY <1>5 DEF NextPass, ToRecover
  <2> QED BY <1>5, <2>1 DEF NextPass, NoReport
<1>6. ASSUME NEW p \in Path, VisitRecover(p) PROVE NoReport \/ \E e \in Events : Reports(e)
  <2>1. /\ p \in scan.todo /\ scan.pass = "recover" /\ Done({p}) /\ UNCHANGED known
    BY <1>6 DEF VisitRecover, Turn
  <2>2. Exists(known, p) /\ known[p] \in Entry
    BY <1>2, <2>1 DEF VisitsKnown, Exists, Tree
  <2>3. ToRecover = scan.todo /\ ToRecover' = scan.todo \ {p}
    BY <1>2, <2>1 DEF ToRecover, Done
  <2>4. CASE Exists(folder, p)
    <3>1. PICK e : e = Event("modified", p, known[p])
      OBVIOUS
    <3>2. e \in Events /\ e.path = p /\ e.type = "modified" /\ e.entry = known[p]
      BY <2>2, <3>1, EventTypes DEF Event, EventType
    <3>3. queue' = Append(queue, e)
      BY <1>6, <2>4, <3>1 DEF VisitRecover
    <3>4. Reports(e)
      BY <1>2, <2>1, <2>2, <2>3, <3>2, <3>3 DEF Reports
    <3> QED BY <3>2, <3>4
  <2>5. CASE ~Exists(folder, p)
    <3>1. Out(p)
      BY <2>2, <2>5 DEF Out, Exists
    <3>2. queue' = queue
      BY <1>6, <2>5 DEF VisitRecover
    <3> QED BY <2>1, <2>3, <3>1, <3>2 DEF NoReport
  <2> QED BY <2>4, <2>5
<1>8. ASSUME NEW p \in Path, VisitDeleted(p) PROVE NoReport \/ \E e \in Events : Reports(e)
  <2>1. /\ p \in scan.todo /\ scan.pass = "deleted"
    BY <1>8 DEF VisitDeleted, Turn
  <2>2. CASE UNCHANGED <<known, queue>>
    BY <1>3, <2>1, <2>2 DEF NoReport
  <2>3. CASE ~UNCHANGED <<known, queue>>
    <3>1. PICK e : e = Event("deleted", p, known[p])
      OBVIOUS
    <3>2. Exists(known, p) /\ known[p] \in Entry
      BY <1>2, <2>1 DEF VisitsKnown, Exists, Tree
    <3>3. e \in Events /\ e.path = p /\ e.type = "deleted"
      BY <3>1, <3>2, EventTypes DEF Event, EventType
    <3>4. queue' = Append(queue, e) /\ known' = [known EXCEPT ![p] = Absent]
      BY <1>8, <2>3, <3>1 DEF VisitDeleted, Report
    <3>5. known' \in Tree /\ known'[p] = Absent /\ \A q \in Path \ {p} : known'[q] = known[q]
      BY <1>2, <3>4 DEF Tree
    <3>6. Reports(e)
      BY <1>3, <2>1, <3>3, <3>4, <3>5 DEF Reports, Exists
    <3> QED BY <3>3, <3>6
  <2> QED BY <2>2, <2>3
<1>9. ASSUME NEW p \in Path, VisitPresent(p) PROVE NoReport \/ \E e \in Events : Reports(e)
  <2>1. scan.pass = "present"
    BY <1>9 DEF VisitPresent, Turn
  <2>2. CASE UNCHANGED <<known, queue>>
    BY <1>3, <2>1, <2>2 DEF NoReport
  <2>3. CASE ~UNCHANGED <<known, queue>>
    <3> DEFINE type == IF Exists(known, p) THEN "modified" ELSE "created"
    <3>1. PICK e : e = Event(type, p, folder[p])
      OBVIOUS
    <3>2. folder[p] \in Entry
      BY <1>2, <1>9, <2>3 DEF VisitPresent, Tree
    <3>3. type \in EventType /\ type # "deleted" /\ (type = "modified" => Exists(known, p))
      BY DEF EventType
    <3>4. queue' = Append(queue, e) /\ known' = [known EXCEPT ![p] = folder[p]]
      BY <1>9, <2>3, <3>1 DEF VisitPresent, Report
    <3> HIDE DEF type
    <3>5. e \in Events /\ e.path = p /\ e.type = type /\ e.entry = folder[p]
      BY <3>1, <3>2, <3>3, EventTypes DEF Event
    <3>6. known' \in Tree /\ known'[p] = folder[p] /\ \A q \in Path \ {p} : known'[q] = known[q]
      BY <1>2, <3>2, <3>4 DEF Tree
    <3>7. Reports(e)
      BY <1>3, <2>1, <3>3, <3>4, <3>5, <3>6 DEF Reports
    <3> QED BY <3>5, <3>7
  <2> QED BY <2>2, <2>3
<1> QED BY <1>1, <1>5, <1>6, <1>8, <1>9 DEF Watch

LEMMA MadeGrows ==
  ASSUME NEW L, NEW M, NEW n \in Nat, DOMAIN L = 1 .. n, DOMAIN M = 1 .. n + 1,
         \A i \in 1 .. n : M[i] = L[i], NEW p, NEW k \in 1 .. n + 1, MadeBefore(L, p, k)
  PROVE  MadeBefore(M, p, k)
<1> SUFFICES ASSUME NEW j \in Nat, j < k, Gone(M, p, j) PROVE MadeBetween(M, p, j, k)
  BY DEF MadeBefore
<1>1. j # 0 => j \in 1 .. n
  BY ONLY n \in Nat, j \in Nat, k \in 1 .. n + 1, j < k
<1>2. Gone(L, p, j)
  BY <1>1 DEF Gone
<1>3. PICK i \in DOMAIN L : j < i /\ i < k /\ L[i].path = p /\ Makes(L[i])
  BY <1>2 DEF MadeBefore, MadeBetween
<1>4. i \in DOMAIN M
  BY ONLY i \in DOMAIN L, DOMAIN L = 1 .. n, DOMAIN M = 1 .. n + 1, n \in Nat
<1> QED BY <1>3, <1>4 DEF MadeBetween

LEMMA MadeAtEnd ==
  ASSUME NEW M, NEW n \in Nat, DOMAIN M = 1 .. n + 1, NEW p,
         M[n + 1].path = p => M[n + 1].type # "deleted",
         MadeBefore(M, p, n + 1) \/ (M[n + 1].path = p /\ Makes(M[n + 1]))
  PROVE  MadeBefore(M, p, n + 2)
<1> SUFFICES ASSUME NEW j \in Nat, j < n + 2, Gone(M, p, j) PROVE MadeBetween(M, p, j, n + 2)
  BY DEF MadeBefore
<1>1. j < n + 1
  <2>1. j # n + 1
    BY DEF Gone
  <2> QED BY ONLY <2>1, j \in Nat, n \in Nat, j < n + 2
<1>2. CASE MadeBefore(M, p, n + 1)
  <2>1. PICK i \in DOMAIN M : j < i /\ i < n + 1 /\ M[i].path = p /\ Makes(M[i])
    BY <1>1, <1>2 DEF MadeBefore, MadeBetween
  <2>2. i < n + 2
    BY ONLY <2>1, i \in DOMAIN M, DOMAIN M = 1 .. n + 1, n \in Nat
  <2> QED BY <2>1, <2>2 DEF MadeBetween
<1>3. CASE M[n + 1].path = p /\ Makes(M[n + 1])
  <2>1. n + 1 \in DOMAIN M /\ n + 1 < n + 2
    BY ONLY DOMAIN M = 1 .. n + 1, n \in Nat
  <2> QED BY <1>1, <1>3, <2>1 DEF MadeBetween
<1> QED BY <1>2, <1>3

LEMMA ReportedLine ==
  ASSUME ClientOK, NEW e \in Events, queue' = Append(queue, e), UNCHANGED clientVars
  PROVE  \E n \in Nat : /\ DOMAIN Coming = 1 .. n /\ DOMAIN Coming' = 1 .. n + 1 /\ Coming'[n + 1] = e
                        /\ \A i \in 1 .. n : Coming'[i] = Coming[i]
<1> DEFINE n == Len(window) + Len(cur) + Len(queue)
<1>1. window \in Seq(Events) /\ cur \in Seq(Events) /\ queue \in Seq(Events)
  BY ClientFacts
<1>2. n \in Nat /\ DOMAIN Coming = 1 .. n
  BY <1>1, LineIs DEF Coming
<1>3. DOMAIN Coming' = 1 .. n + 1 /\ Coming'[n + 1] = e /\ \A i \in 1 .. n : Coming'[i] = Coming[i]
  <2>1. Coming' = Line(window, cur, Append(queue, e))
    BY DEF Coming, clientVars
  <2>2. /\ DOMAIN Line(window, cur, Append(queue, e)) = 1 .. n + 1
        /\ Line(window, cur, Append(queue, e))[n + 1] = e
        /\ \A i \in 1 .. n : Line(window, cur, Append(queue, e))[i] = Line(window, cur, queue)[i]
    BY <1>1, LineAppend
  <2> HIDE DEF n
  <2> QED BY <2>1, <2>2 DEF Coming
<1> HIDE DEF n
<1> QED BY <1>2, <1>3

LEMMA ReportMakes ==
  ASSUME KindsFixed, ClientOK, Resting, OfItsKind(known), OfItsKind(known'), ComingOfKind',
         RenewedIsMade, HeldIsMade, NEW e \in Events, Reports(e), UNCHANGED clientVars
  PROVE  RenewedIsMade' /\ HeldIsMade'
<1>1. queue' = Append(queue, e)
  BY DEF Reports
<1>2. PICK n \in Nat : /\ DOMAIN Coming = 1 .. n /\ DOMAIN Coming' = 1 .. n + 1 /\ Coming'[n + 1] = e
                      /\ \A i \in 1 .. n : Coming'[i] = Coming[i]
  BY <1>1, ReportedLine
<1>3. n \in Nat /\ DOMAIN Coming = 1 .. n /\ DOMAIN Coming' = 1 .. n + 1
  BY <1>2
<1>4. PICK L, M : L = Coming /\ M = Coming'
  OBVIOUS
<1>5. /\ DOMAIN L = 1 .. n /\ DOMAIN M = 1 .. n + 1 /\ M[n + 1] = e /\ \A i \in 1 .. n : M[i] = L[i]
  BY <1>2, <1>3, <1>4
<1>6. n + 1 \in 1 .. n + 1 /\ n + 1 \in Nat \ {0} /\ n + 1 - 1 = n /\ \A i \in 1 .. n : i \in 1 .. n + 1
  BY ONLY <1>2
<1>7. pc # "down" /\ pc' = pc /\ clientDb' = clientDb /\ excused' = excused
  BY DEF Reports, Resting, clientVars
<1>8. ASSUME NEW p, NEW k, MadeBefore(M, p, k) PROVE MadeBefore(Coming, p, k)'
  BY <1>4, <1>7, <1>8 DEF MadeBefore, MadeBetween, Gone, Exists, Makes
<1>9. ASSUME NEW p \in Path, IsDir(known, p), p \notin excused PROVE MadeBefore(M, p, n + 1)
  <2>1. MadeBefore(L, p, n + 1)
    BY <1>2, <1>4, <1>6, <1>7, <1>9 DEF HeldIsMade
  <2> QED BY <1>2, <1>5, <1>6, <2>1, MadeGrows
<1>10. ASSUME NEW k \in DOMAIN Coming', Renews(Coming[k])'
       PROVE  MadeBefore(Coming, Coming[k].path, k)'
  <2>1. PICK p, ev : p = Coming'[k].path /\ ev = Coming'[k]
    OBVIOUS
  <2>2. OpOf(ev) = "MKD" /\ ev.type = "modified" /\ p \notin excused' /\ Folder(p) /\ p \in Path
    <3>1. OpOf(ev) = "MKD" /\ ev.type = "modified" /\ p \notin excused'
      BY <1>10, <2>1 DEF Renews, OpOf
    <3>2. ev \in KindEvents
      BY <2>1 DEF ComingOfKind
    <3> QED BY <2>1, <3>1, <3>2, FolderEvents
  <2>3. MadeBefore(M, p, k)
    <3>1. CASE k \in 1 .. n
      <4>1. L[k] = ev /\ k \in DOMAIN L /\ k \in 1 .. n + 1
        BY <1>4, <1>5, <1>6, <2>1, <3>1
      <4>2. Renews(L[k])
        BY <1>7, <2>1, <2>2, <4>1 DEF Renews
      <4>3. MadeBefore(L, p, k)
        BY <1>4, <2>1, <4>1, <4>2 DEF RenewedIsMade
      <4> QED BY <1>2, <1>5, <4>1, <4>3, MadeGrows
    <3>2. CASE k = n + 1
      <4>1. e.path = p /\ e.type = "modified"
        BY <1>2, <2>1, <2>2, <3>2
      <4>2. Exists(known, p)
        BY <4>1 DEF Reports
      <4>3. IsDir(known, p)
        BY <2>2, <4>2 DEF IsDir, OfItsKind, Folder
      <4> QED BY <1>7, <1>9, <2>2, <3>2, <4>3
    <3>3. k \in 1 .. n \/ k = n + 1
      <4>1. k \in 1 .. n + 1
        BY <1>3
      <4> QED BY ONLY <1>2, <4>1
    <3> QED BY <3>1, <3>2, <3>3
  <2> QED BY <1>8, <2>1, <2>3
<1>11. ASSUME NEW p \in Path, IsDir(known', p), p \notin excused', NEW k \in Nat \ {0}, DOMAIN Coming' = 1 .. k - 1
       PROVE  MadeBefore(Coming, p, k)'
  <2>1. k = n + 2
    <3>1. \A a, b \in Nat : 1 .. a = 1 .. b => a = b
      <4> SUFFICES ASSUME NEW a \in Nat, NEW b \in Nat, 1 .. a = 1 .. b PROVE a = b
        OBVIOUS
      <4>1. a >= 1 => a \in 1 .. b
        OBVIOUS
      <4>2. b >= 1 => b \in 1 .. a
        OBVIOUS
      <4> QED BY <4>1, <4>2
    <3>2. k - 1 \in Nat /\ n + 1 \in Nat
      BY <1>2
    <3>3. k - 1 = n + 1
      BY <1>3, <1>11, <3>1, <3>2
    <3> QED BY ONLY <1>2, <3>3, k \in Nat \ {0}
  <2>2. M[n + 1].path = p => M[n + 1].type # "deleted"
    BY <1>5, <1>11 DEF Reports, IsDir, Exists
  <2>3. e.type \in EventType /\ e.path \in Path
    BY DEF Events
  <2>4. MadeBefore(M, p, n + 1) \/ (M[n + 1].path = p /\ Makes(M[n + 1]))
    <3>1. CASE p # e.path
      <4>1. IsDir(known, p)
        BY <1>11, <3>1 DEF Reports, IsDir, Exists
      <4> QED BY <1>7, <1>9, <1>11, <4>1
    <3>2. CASE p = e.path /\ e.type = "modified"
      <4>1. Exists(known, p)
        BY <3>2 DEF Reports
      <4>2. Folder(p)
        BY <1>11 DEF OfItsKind, IsDir, Folder, KindsFixed
      <4>3. IsDir(known, p)
        BY <4>1, <4>2 DEF IsDir, OfItsKind, Folder
      <4> QED BY <1>7, <1>9, <1>11, <4>3
    <3>3. CASE p = e.path /\ e.type # "modified"
      BY <1>5, <2>2, <2>3, <3>3 DEF Makes, EventType
    <3> QED BY <3>1, <3>2, <3>3
  <2>5. MadeBefore(M, p, n + 2)
    BY <1>2, <1>5, <2>2, <2>4, MadeAtEnd
  <2> QED BY <1>8, <2>1, <2>5
<1>12. RenewedIsMade'
  BY <1>10 DEF RenewedIsMade
<1>13. HeldIsMade'
  BY <1>11 DEF HeldIsMade, IsDir, Exists
<1> QED BY <1>12, <1>13

\* The steps of the client's thread, by what becomes of the line.
Goes == /\ Coming' = Coming /\ pc # "down" /\ pc' # "down"
        /\ UNCHANGED <<known, folder, flipped, scan, excused, clientDb, conn, s2c, doubtful>>
LosesHold == pc # "down" /\ HangUp /\ excused' = excused \cup {cur[i].path : i \in DOMAIN cur}

LEMMA ClientLines ==
  ASSUME ClientOK, Resting, Communicate
  PROVE  Goes \/ LosesHold \/ StopAll \/ ReceiveOk \/ ReceiveErr \/ ReceiveSend
<1>1. /\ window \in Seq(Events) /\ cur \in Seq(Events) /\ queue \in Seq(Events)
      /\ conn = NoConn <=> pc \in {"off", "down"}
      /\ conn # NoConn => pc # "down"
  BY ClientFacts DEF ClientOK, Control
<1>2. CASE LoseConnection
  BY <1>1, <1>2 DEF LoseConnection, LosesHold
<1>3. CASE Disconnect
  <2>1. cur = <<>> /\ pc # "down" /\ HangUp /\ excused' = excused
    BY <1>3 DEF Disconnect, Resting
  <2>2. excused' = excused \cup {cur[i].path : i \in DOMAIN cur}
    BY <2>1
  <2> QED BY <2>1, <2>2 DEF LosesHold
<1>4. CASE ReceiveUnwantedSend \/ ReceiveException \/ FileVanished
  BY <1>4 DEF ReceiveUnwantedSend, ReceiveException, FileVanished
<1>6. CASE Resent \/ SkipStale \/ ResendMessage \/ ResendData \/ SendData
  <2>1. /\ pc # "down" /\ pc' # "down" /\ UNCHANGED <<cur, window, ownVars, excused, s2c, watcherVars>>
    BY <1>6 DEF Resent, SkipStale, ResendMessage, ResendData, SendData, netVars
  <2>2. Coming' = Coming
    BY <2>1 DEF Coming, watcherVars
  <2> QED BY <2>1, <2>2 DEF Goes, ownVars, watcherVars
<1>7. CASE SendEvent
  <2>1. /\ pc = "loop" /\ pc' = pc /\ queue # <<>> /\ window' = Append(window, Head(queue)) /\ queue' = Tail(queue)
        /\ UNCHANGED <<cur, ownVars, excused, s2c, known, scan, folderVars>>
    BY <1>7 DEF SendEvent, positionVars
  <2>2. cur = <<>>
    BY <2>1 DEF Resting
  <2>3. Coming' = Line(Append(window, Head(queue)), <<>>, Tail(queue))
    BY <2>1, <2>2 DEF Coming
  <2>4. Coming' = Coming
    BY <1>1, <2>1, <2>2, <2>3, LineSend DEF Coming
  <2> QED BY <2>1, <2>4 DEF Goes, ownVars, folderVars
<1>8. CASE SendStor
  <2>1. /\ pc = "store" /\ pc' = "storeData" /\ window' = Append(window, cur[1]) /\ cur' = <<>>
        /\ UNCHANGED <<ownVars, excused, s2c, watcherVars>>
    BY <1>8 DEF SendStor
  <2>2. Len(cur) = 1
    BY <2>1 DEF ClientOK, Control
  <2>3. Coming' = Line(Append(window, cur[1]), <<>>, queue)
    BY <2>1 DEF Coming, watcherVars
  <2>4. Coming' = Coming
    BY <1>1, <2>2, <2>3, LineStore DEF Coming
  <2> QED BY <2>1, <2>4 DEF Goes, ownVars, watcherVars
<1> QED BY <1>2, <1>3, <1>4, <1>6, <1>7, <1>8 DEF Communicate

LEMMA EmptyMakes ==
  ASSUME DOMAIN Coming' = {}, pc' = "down" \/ (known' = clientDb /\ clientDb' = clientDb)
  PROVE  RenewedIsMade' /\ HeldIsMade'
<1>1. RenewedIsMade'
  BY DEF RenewedIsMade
<1>2. ASSUME pc' # "down", NEW p \in Path, IsDir(known', p), NEW k \in Nat \ {0}, DOMAIN Coming' = 1 .. k - 1
      PROVE  MadeBefore(Coming, p, k)'
  <2>1. Exists(clientDb', p)
    BY <1>2 DEF IsDir, Exists
  <2>2. k = 1
    <3>1. k > 1 => 1 \in 1 .. k - 1
      OBVIOUS
    <3> QED BY <1>2, <3>1
  <2>3. ASSUME NEW j \in Nat, j < k PROVE ~Gone(Coming, p, j)'
    <3>1. j = 0
      BY ONLY <2>2, <2>3
    <3> QED BY <2>1, <3>1 DEF Gone, Exists
  <2> QED BY <2>3 DEF MadeBefore
<1> QED BY <1>1, <1>2 DEF HeldIsMade, IsDir, Exists

LEMMA StepMakes ==
  ASSUME KindsFixed, IInv, IInv', AllOfTheirKind, AllOfTheirKind', Resting, ComingOfKind, ComingOfKind',
         RenewedIsMade, HeldIsMade, [Next]_vars
  PROVE  RenewedIsMade' /\ HeldIsMade'
<1>1. ClientOK /\ ClientOK' /\ OfItsKind(known)
  BY InvariantParts DEF IInv, ClientOK, AllOfTheirKind, WatcherKinds
<1>2. OfItsKind(known')
  BY DEF AllOfTheirKind, WatcherKinds, OfItsKind, Exists
<1>3. ASSUME Coming' = Coming, clientDb' = clientDb, known' = known, pc' # "down" => pc # "down", excused' = excused
      PROVE  RenewedIsMade' /\ HeldIsMade'
  BY <1>1, <1>3, LineKept, StayMade
<1>4. ASSUME Stop, queue' = <<>> PROVE RenewedIsMade' /\ HeldIsMade'
  <2>1. window' = <<>> /\ cur' = <<>> /\ pc' = "down"
    BY <1>4 DEF Stop
  <2>2. DOMAIN Coming' = {}
    BY <1>4, <2>1 DEF Coming, Line
  <2> QED BY <2>1, <2>2, EmptyMakes
<1>5. ASSUME UNCHANGED <<clientVars, known, queue>> PROVE RenewedIsMade' /\ HeldIsMade'
  BY <1>3, <1>5 DEF clientVars, Coming
<1>6. CASE Users \/ UNCHANGED vars
  BY <1>5, <1>6 DEF Users, User, WriteFile, MakeDirectory, Remove, vars, watcherVars
<1>7. CASE Watcher
  <2>1. UNCHANGED clientVars
    BY <1>7 DEF Watcher
  <2>2. CASE NoReport
    BY <1>5, <2>1, <2>2 DEF NoReport
  <2>3. ASSUME NEW e \in Events, Reports(e) PROVE RenewedIsMade' /\ HeldIsMade'
    BY <1>1, <1>2, <2>1, <2>3, ReportMakes
  <2> QED BY <1>1, <1>7, <2>2, <2>3, WatchReports
<1>8. CASE WatcherFails \/ Kill \/ ClientGivesUp
  BY <1>4, <1>8 DEF WatcherFails, VanishUnderExamination, Kill, ClientGivesUp, GiveUp, StopAll
<1>9. CASE Client
  <2>1. CASE Goes
    BY <1>3, <2>1 DEF Goes
  <2>2. CASE LosesHold
    <3>1. AllMadeStay
      BY <1>1, <2>2, HangUpStays DEF LosesHold
    <3>2. known' = known /\ pc # "down" /\ excused \subseteq excused'
      BY <2>2 DEF LosesHold, HangUp, watcherVars
    <3> QED BY <1>1, <3>1, <3>2, StayMade
  <2>3. CASE StopAll
    BY <1>4, <2>3 DEF StopAll
  <2>4. CASE ReceiveOk \/ ReceiveErr \/ ReceiveSend
    <3>1. AllMadeStay
      BY <1>1, <2>4, ReceivedStays
    <3>2. known' = known /\ pc # "down" /\ excused \subseteq excused'
      BY <2>4 DEF ReceiveOk, ReceiveErr, ReceiveSend, Receiving, Consume, watcherVars
    <3> QED BY <1>1, <3>1, <3>2, StayMade
  <2> QED BY <1>1, <1>9, <2>1, <2>2, <2>3, <2>4, ClientLines DEF Client
<1>10. ASSUME NEW c \in Conn, Connect(c) PROVE RenewedIsMade' /\ HeldIsMade'
  <2>1. UNCHANGED <<window, cur, clientDb, excused, known, queue>> /\ pc = "off"
    BY <1>10 DEF Connect, ConnectTo, watcherVars
  <2> QED BY <1>3, <2>1 DEF Coming
<1>11. CASE (\E c \in Conn : Server(c)) \/ ServerDies \/ ServerRestarts \/ ConnectionBreaks
  BY <1>5, <1>11 DEF Server, ServerDies, ServerRestarts, ConnectionBreaks, watcherVars
<1>12. CASE StartClient
  <2>1. /\ pc = "down" /\ known' = clientDb /\ UNCHANGED <<window, cur, queue, clientDb>>
    BY <1>12 DEF StartClient
  <2>2. window = <<>> /\ queue = <<>> /\ cur = <<>>
    BY <2>1 DEF Resting
  <2>3. DOMAIN Coming' = {}
    BY <2>1, <2>2 DEF Coming, Line
  <2> QED BY <2>1, <2>3, EmptyMakes
<1> QED BY <1>6, <1>7, <1>8, <1>9, <1>10, <1>11, <1>12 DEF Next, ClientRestarts
-----------------------------------------------------------------------------
(* Where nothing more is to tell, the client's database is right.           *)
StaysAgreed(p) == /\ Rests(p) /\ known'[p] = known[p] /\ clientDb'[p] = clientDb[p]
                  /\ p \in doubtful => p \in doubtful'

LEMMA AgreedStays ==
  ASSUME Agreed, pc # "down", outOfStep => outOfStep', \A p \in Path : Rests(p)' => StaysAgreed(p) \/ Agrees(p)'
  PROVE  Agreed'
<1> SUFFICES ASSUME ~outOfStep', NEW p \in Path, Rests(p)' PROVE Agrees(p)'
  BY DEF Agreed
<1>1. CASE StaysAgreed(p)
  <2>1. Agrees(p)
    BY <1>1 DEF Agreed, StaysAgreed
  <2> QED BY <1>1, <2>1 DEF StaysAgreed, Agrees, SameContent, Exists
<1> QED BY <1>1

\* Nothing of the line goes, and nothing is changed behind it.
LEMMA LineRests ==
  ASSUME Agreed, pc # "down", outOfStep => outOfStep', UNCHANGED clientDb, doubtful \subseteq doubtful',
         \A p \in Path : Rests(p)' => known'[p] = known[p] /\ (Out(p) => Out(p)'),
         \A p \in Path : Rests(p)' /\ p \in ToRecover => p \in ToRecover',
         \A i \in DOMAIN Coming : \/ Coming[i].path \in excused'
                                  \/ \E k \in DOMAIN Coming' : Coming'[k].path = Coming[i].path
  PROVE  Agreed'
<1>1. ASSUME NEW p \in Path, Rests(p)' PROVE StaysAgreed(p)
  <2>1. p \notin excused' /\ ~IsComing(p)' /\ ~Out(p)'
    BY <1>1 DEF Rests, Out
  <2>2. ~IsComing(p)
    BY <2>1 DEF IsComing
  <2>3. p \notin ToRecover /\ ~Out(p)
    BY <1>1, <2>1 DEF Rests
  <2> QED BY <1>1, <2>2, <2>3 DEF StaysAgreed, Rests
<1> QED BY <1>1, AgreedStays

LEMMA ReportRests ==
  ASSUME ClientOK, Agreed, Resting, NEW e \in Events, Reports(e), UNCHANGED <<clientVars, folderVars, outOfStep>>
  PROVE  Agreed'
<1>1. queue' = Append(queue, e)
  BY DEF Reports
<1>2. PICK n \in Nat : /\ DOMAIN Coming = 1 .. n /\ DOMAIN Coming' = 1 .. n + 1 /\ Coming'[n + 1] = e
                      /\ \A i \in 1 .. n : Coming'[i] = Coming[i]
  BY <1>1, ReportedLine
<1>3. n \in Nat
  BY <1>2
<1>4. n + 1 \in 1 .. n + 1 /\ \A i \in 1 .. n : i \in 1 .. n + 1
  BY ONLY <1>3
<1>5. \A i \in DOMAIN Coming : \E k \in DOMAIN Coming' : Coming'[k].path = Coming[i].path
  BY <1>2, <1>4
<1>6. \E k \in DOMAIN Coming' : Coming'[k].path = e.path
  BY <1>2, <1>4
<1>7. /\ pc # "down" /\ clientDb' = clientDb /\ doubtful' = doubtful /\ excused' = excused /\ folder' = folder
      /\ flipped' = flipped /\ outOfStep' = outOfStep
  BY DEF Reports, Resting, clientVars, folderVars
<1>8. ASSUME NEW p \in Path, Rests(p)' PROVE known'[p] = known[p] /\ (Out(p) => Out(p)') /\ (p \in ToRecover => p \in ToRecover')
  <2>1. p # e.path
    BY <1>6, <1>8 DEF Rests, IsComing
  <2>2. known'[p] = known[p] /\ (p \in ToRecover => p \in ToRecover')
    BY <2>1 DEF Reports
  <2> QED BY <1>7, <2>2 DEF Out
<1> QED BY <1>5, <1>7, <1>8, LineRests

LEMMA DropRests ==
  ASSUME ClientOK, Agreed, LosesHold
  PROVE  Agreed'
<1>1. /\ window' = window /\ cur' = <<>> /\ queue' = queue /\ clientDb' = clientDb /\ doubtful' = doubtful
      /\ outOfStep' = outOfStep /\ excused' = excused \cup {cur[i].path : i \in DOMAIN cur} /\ pc # "down"
      /\ known' = known /\ folder' = folder /\ flipped' = flipped /\ scan' = scan
  BY DEF LosesHold, HangUp, watcherVars
<1>3. \A p \in Path : /\ known'[p] = known[p] /\ (Out(p) => Out(p)')
                      /\ p \in ToRecover => p \in ToRecover'
  BY <1>1 DEF Out, ToRecover
<1>4. \A i \in DOMAIN Coming : \/ Coming[i].path \in excused'
                               \/ \E k \in DOMAIN Coming' : Coming'[k].path = Coming[i].path
  <2>1. CASE cur = <<>>
    <3>1. Coming' = Coming
      BY <1>1, <2>1 DEF Coming
    <3> QED BY <3>1
  <2>2. CASE cur # <<>>
    <3>1. PICK n \in Nat : \E k \in 0 .. n :
             /\ DOMAIN Coming = 1 .. n + 1 /\ DOMAIN Coming' = 1 .. n
             /\ \A i \in 1 .. k : Coming'[i] = Coming[i]
             /\ Coming[k + 1] = cur[1] /\ 1 \in DOMAIN cur
             /\ \A i \in k + 1 .. n : Coming'[i] = Coming[i + 1]
      BY <1>1, <2>2, DroppedLine DEF LosesHold
    <3>2. PICK k \in 0 .. n :
             /\ DOMAIN Coming = 1 .. n + 1 /\ DOMAIN Coming' = 1 .. n
             /\ \A i \in 1 .. k : Coming'[i] = Coming[i]
             /\ Coming[k + 1] = cur[1] /\ 1 \in DOMAIN cur
             /\ \A i \in k + 1 .. n : Coming'[i] = Coming[i + 1]
      BY <3>1
    <3>3. cur[1].path \in excused'
      BY <1>1, <3>2
    <3>4. ASSUME NEW i \in DOMAIN Coming
          PROVE  Coming[i].path \in excused' \/ \E m \in DOMAIN Coming' : Coming'[m].path = Coming[i].path
      <4>1. i \in 1 .. n + 1 /\ n \in Nat /\ k \in 0 .. n
        BY <3>2
      <4>2. \/ i \in 1 .. k /\ i \in 1 .. n
            \/ i = k + 1
            \/ i - 1 \in k + 1 .. n /\ i - 1 \in 1 .. n /\ i - 1 + 1 = i
        BY ONLY <4>1
      <4> QED BY <3>2, <3>3, <4>2
    <3> QED BY <3>4
  <2> QED BY <2>1, <2>2
<1> QED BY <1>1, <1>3, <1>4, LineRests

\* receive takes the oldest event; its path may have come to rest.
LEMMA TakenLine ==
  ASSUME ClientOK, Resting, ReceiveOk \/ ReceiveErr \/ ReceiveSend
  PROVE  /\ \A i \in DOMAIN Coming : i = 1 \/ \E k \in DOMAIN Coming' : Coming'[k].path = Coming[i].path
         /\ cur' # cur => \E k \in DOMAIN Coming' : Coming'[k].path = Coming[1].path
<1>1. CASE cur' = cur
  <2>1. PICK n \in Nat : Shrunk(n)
    BY <1>1, ReceivedLine
  <2>2. ASSUME NEW i \in DOMAIN Coming, i # 1 PROVE \E k \in DOMAIN Coming' : Coming'[k].path = Coming[i].path
    <3>1. i \in 1 .. n /\ n \in Nat /\ i # 1
      BY <2>1, <2>2 DEF Shrunk
    <3>2. i - 1 \in 1 .. n - 1 /\ i - 1 + 1 = i
      BY ONLY <3>1
    <3> QED BY <2>1, <3>2 DEF Shrunk
  <2> QED BY <1>1, <2>2
<1>2. CASE cur' # cur
  <2>1. PICK n \in Nat : \E w \in 1 .. n : Turned(n, w)
    BY <1>2, ReceivedLine
  <2>2. PICK w \in 1 .. n : Turned(n, w)
    BY <2>1
  <2>3. \E k \in DOMAIN Coming' : Coming'[k].path = Coming[1].path
    BY <2>2 DEF Turned
  <2>4. ASSUME NEW i \in DOMAIN Coming, i # 1 PROVE \E k \in DOMAIN Coming' : Coming'[k].path = Coming[i].path
    <3>1. i \in 1 .. n /\ i # 1 /\ n \in Nat /\ w \in 1 .. n
      BY <2>2, <2>4 DEF Turned
    <3>2. \/ i - 1 \in 1 .. w - 1 /\ i - 1 \in 1 .. n /\ i - 1 + 1 = i
          \/ i \in w + 1 .. n /\ i \in 1 .. n
      BY ONLY <3>1
    <3> QED BY <2>2, <3>2 DEF Turned
  <2> QED BY <2>3, <2>4
<1> QED BY <1>1, <1>2

\* The reply to the last event of a path that is not given up.
LastTold ==
    /\ 1 \in DOMAIN Coming /\ IsLast(Coming, 1) /\ Coming[1].path \notin excused' /\ ~Out(Coming[1].path)
    /\ Told(Coming[1]) /\ Coming[1].path \notin ToRecover

\* update finds its row, or the client was killed before it could note the event.
LEMMA UpdateFinds ==
  ASSUME ClientOK, Saved, WindowTells, ReceiveOk, LastTold, ~outOfStep, Coming[1].type = "modified"
  PROVE  Exists(clientDb, Coming[1].path) \/ Coming[1].path \in doubtful
<1> SUFFICES ASSUME ~Exists(clientDb, Coming[1].path), Coming[1].path \notin doubtful PROVE FALSE
  OBVIOUS
<1>1. PICK p : p = Coming[1].path
  OBVIOUS
<1>2. /\ Coming[1] = window[1] /\ Coming[1] \in Events /\ p \in Path
      /\ \A i \in DOMAIN window : i \in DOMAIN Coming /\ Coming[i] = window[i]
  <2>1. Resting
    BY DEF Saved
  <2> QED BY <1>1, <2>1, ReceivedLine DEF Events
<1>3. /\ s2c[conn][1].kind \in OkCode /\ Replies >= 1 /\ Replies \in Nat /\ pc # "down"
  <2>1. /\ pc = "loop" /\ s2c[conn] # <<>> /\ Head(s2c[conn]).kind \in OkCode
    BY DEF ReceiveOk, Receiving
  <2>2. conn \in Conn /\ Replies = Len(s2c[conn]) /\ Replies >= 1
    BY HeadTaken
  <2>3. s2c[conn] \in Seq(Reply)
    BY <2>2, ClientFacts
  <2> QED BY <2>1, <2>2, <2>3
<1>4. \A i \in DOMAIN Coming : i \in Nat /\ (Coming[i].path = p => i <= 1)
  <2>1. \A i \in DOMAIN Coming : i \in Nat
    BY ComingTypes DEF LineTypes
  <2> QED BY <1>1, <2>1 DEF LastTold, IsLast
<1>5. Exists(known, p) /\ p \notin ToRecover /\ ~Out(p)
  BY <1>1 DEF LastTold, Told
<1>6. ~Unanswered(p)
  BY <1>3, <1>4 DEF Unanswered
<1>7. Acknowledged(p)
  <2>1. ASSUME NEW i \in DOMAIN Coming, Coming[i].path = p, IsLast(Coming, i) PROVE i = 1
    <3>1. 1 \in DOMAIN Coming /\ Coming[1].path = p /\ i \in Nat /\ i <= 1
      BY <1>1, <1>4, <2>1 DEF LastTold
    <3>2. ~(1 > i)
      BY <2>1, <3>1 DEF IsLast
    <3> QED BY ONLY <3>1, <3>2
  <2> QED BY <1>3, <2>1 DEF Acknowledged
<1>8. ServerHas(p)
  <2>1. Exposed(p)
    BY <1>3, <1>5, <1>6 DEF Exposed
  <2>2. Fits(p)
    BY <1>2, <1>7, <2>1 DEF Saved, Backed
  <2> QED BY <2>2 DEF Fits, ServerHas
<1>9. p \notin excused
  BY <1>5 DEF Out
<1>10. StoreExpected(p)
  BY <1>1, <1>2, <1>8, <1>9 DEF WindowTells, HadIsKnown, Lost
<1>11. PICK i \in DOMAIN window : window[i].path = p /\ Stores(window[i])
  BY <1>10 DEF StoreExpected
<1>12. i = 1
  <2>1. i \in DOMAIN Coming /\ Coming[i].path = p /\ window \in Seq(Events)
    BY <1>2, <1>11, ClientFacts
  <2>2. i <= 1 /\ i \in Nat /\ i >= 1
    BY <1>4, <1>11, <2>1
  <2> QED BY ONLY <2>2
<1>13. OpOf(Coming[1]) # "STOR"
  BY DEF OpOf
<1> QED BY <1>2, <1>11, <1>12, <1>13 DEF Stores, Makes

LEMMA ReceivedRests ==
  ASSUME ClientOK, OfItsKind(known), ComingOfKind, KindsFixed, Saved, WindowTells, Agreed,
         ReceiveOk \/ ReceiveErr \/ ReceiveSend
  PROVE  Agreed'
<1>1. /\ pc = "loop" /\ pc # "down"
      /\ UNCHANGED <<conn, doubtful, outOfStep, known, folder, flipped, scan>>
  BY DEF ReceiveOk, ReceiveErr, ReceiveSend, Receiving, Consume, watcherVars
<1>2. PICK h : h = Coming[1]
  OBVIOUS
<1>3. /\ Coming[1] = window[1] /\ h \in Events /\ h.path \in Path /\ 1 \in DOMAIN Coming
      /\ h.entry \in Entry /\ h.type \in EventType
      /\ \A i \in DOMAIN Coming : i = 1 \/ \E k \in DOMAIN Coming' : Coming'[k].path = Coming[i].path
      /\ cur' # cur => \E k \in DOMAIN Coming' : Coming'[k].path = Coming[1].path
  BY <1>2, ReceivedLine, TakenLine DEF Saved, Events
<1>4. h \in KindEvents
  BY <1>2, <1>3 DEF ComingOfKind
<1>5. h = Head(window) /\ clientDb \in Tree /\ known \in Tree /\ folder \in Tree
  <2>1. window \in Seq(Events) /\ window # <<>>
    BY ClientFacts DEF ReceiveOk, ReceiveErr, ReceiveSend, Receiving
  <2> QED BY <1>2, <1>3, <2>1 DEF ClientOK, ClientTypeOK, WatcherOK, WatcherTypeOK
<1>6. /\ \/ ReceiveOk /\ clientDb' = Confirmed(h) /\ excused' = excused
         \/ ReceiveErr /\ clientDb' = clientDb /\ excused' = excused \cup {h.path}
         \/ ReceiveSend /\ clientDb' = clientDb /\ excused' = excused
  BY <1>5 DEF ReceiveOk, ReceiveErr, ReceiveSend
<1>7. ASSUME NEW p \in Path, Rests(p)' PROVE /\ known'[p] = known[p] /\ p \notin ToRecover /\ ~Out(p)
                                             /\ \A i \in DOMAIN Coming : Coming[i].path = p => i = 1
                                             /\ p \notin excused' /\ p \notin excused
  <2>1. ~IsComing(p)' /\ p \notin ToRecover' /\ ~Out(p)'
    BY <1>7 DEF Rests
  <2>2. p \notin ToRecover
    BY <1>1, <2>1 DEF ToRecover
  <2>3. p \notin excused' /\ p \notin excused /\ ~Out(p)
    BY <1>1, <1>6, <2>1 DEF Out
  <2>4. \A i \in DOMAIN Coming : Coming[i].path = p => i = 1
    BY <1>3, <2>1 DEF IsComing
  <2> QED BY <1>1, <2>2, <2>3, <2>4
<1>8. ASSUME NEW p \in Path, Rests(p)', p # h.path PROVE StaysAgreed(p)
  <2>1. clientDb'[p] = clientDb[p]
    BY <1>3, <1>5, <1>6, <1>8, ConfirmedElsewhere
  <2>2. ~IsComing(p)
    BY <1>2, <1>7, <1>8 DEF IsComing
  <2> QED BY <1>1, <1>7, <1>8, <2>1, <2>2 DEF StaysAgreed, Rests
<1>9. ASSUME ~outOfStep, NEW p \in Path, Rests(p)', p = h.path PROVE Agrees(p)'
  <2>1. IsLast(Coming, 1)
    BY <1>2, <1>7, <1>9, ComingTypes DEF IsLast, LineTypes
  <2>2. Told(h)
    BY <1>2, <1>3, <2>1 DEF Saved, EventsTold
  <2>3. ~Out(p)
    BY <1>7, <1>9
  <2>4. /\ h.type = "deleted" => ~Exists(known, p)
        /\ h.type # "deleted" => Exists(known, p) /\ known[p].hash = h.entry.hash /\ known[p].type = h.entry.type
    <3>1. /\ h.type = "deleted" => ~Exists(known, p)
          /\ h.type # "deleted" => Exists(known, p) /\ known[p].hash = h.entry.hash
      BY <1>9, <2>2, <2>3 DEF Told
    <3>2. ASSUME Exists(known, p) PROVE known[p].type = h.entry.type
      BY <1>4, <1>9, <3>2 DEF OfItsKind, KindEvents, KindsFixed
    <3> QED BY <3>1, <3>2
  <2>5. LastTold
    BY <1>2, <1>3, <1>7, <1>9, <2>1, <2>2, <2>3 DEF LastTold
  <2>6. CASE excused' = excused \cup {h.path}
    BY <1>7, <1>9, <2>6
  <2>7. CASE ReceiveSend
    <3>1. h.type # "deleted"
      BY <1>5, <2>7 DEF ReceiveSend, Wanted
    <3>2. folder[p] = known[p]
      BY <2>3 DEF Out
    <3>3. Unchanged(h)
      BY <1>9, <2>4, <3>1, <3>2 DEF Unchanged, Exists
    <3>4. cur' # cur
      <4>1. cur = <<>>
        BY <1>1 DEF Saved, Resting
      <4>2. cur' = <<Event("storeSent", h.path, h.entry)>>
        BY <1>5, <2>7, <3>3 DEF ReceiveSend
      <4> QED BY <4>1, <4>2
    <3>5. IsComing(p)'
      BY <1>2, <1>3, <1>9, <3>4 DEF IsComing
    <3> QED BY <1>9, <3>5 DEF Rests
  <2>8. CASE ReceiveOk
    <3>1. known'[p] = known[p] /\ clientDb' = Confirmed(h) /\ doubtful' = doubtful
      BY <1>1, <1>5, <2>8 DEF ReceiveOk
    <3>2. h.entry # Absent
      BY <1>3, TreeAssumption
    <3>3. CASE h.type = "deleted"
      <4>1. clientDb'[p] = Absent
        BY <1>3, <1>5, <1>9, <3>1, <3>3 DEF Confirmed, Tree
      <4> QED BY <2>4, <3>1, <3>3, <4>1 DEF Agrees, SameContent, Exists
    <3>4. CASE h.type \in {"created", "storeSent"} \/ (h.type = "modified" /\ Exists(clientDb, p))
      <4>1. clientDb'[p] = h.entry /\ h.type # "deleted"
        BY <1>3, <1>5, <1>9, <3>1, <3>4 DEF Confirmed, Tree
      <4> QED BY <2>4, <3>1, <3>2, <4>1 DEF Agrees, SameContent, Exists
    <3>5. CASE h.type = "modified" /\ ~Exists(clientDb, p)
      <4>1. p \in doubtful
        BY <1>2, <1>9, <2>5, <2>8, <3>5, UpdateFinds
      <4>2. clientDb' = clientDb
        BY <1>9, <3>1, <3>5 DEF Confirmed
      <4> QED BY <3>1, <3>5, <4>1, <4>2 DEF Agrees, Exists
    <3> QED BY <1>3, <3>3, <3>4, <3>5 DEF EventType
  <2> QED BY <1>6, <2>6, <2>7, <2>8
<1>10. CASE outOfStep
  BY <1>1, <1>10 DEF Agreed
<1>11. CASE ~outOfStep
  BY <1>1, <1>8, <1>9, <1>11, AgreedStays
<1> QED BY <1>10, <1>11

LEMMA StepAgrees ==
  ASSUME KindsFixed, IInv, AllOfTheirKind, ComingOfKind, Saved, WindowTells, Agreed, [Next]_vars
  PROVE  Agreed'
<1>1. ClientOK /\ OfItsKind(known) /\ Resting
  BY InvariantParts DEF AllOfTheirKind, WatcherKinds, Saved
<1>2. ASSUME UNCHANGED <<Coming, clientDb, doubtful, known, scan, excused>>, pc' # "down" => pc # "down",
             outOfStep => outOfStep', UNCHANGED <<folder, flipped>> \/ Users
      PROVE  Agreed'
  <2>1. CASE pc' = "down"
    BY <2>1 DEF Agreed
  <2>2. CASE pc' # "down"
    <3>1. pc # "down"
      BY <1>2, <2>2
    <3>2. \A i \in DOMAIN Coming : \E k \in DOMAIN Coming' : Coming'[k].path = Coming[i].path
      BY <1>2
    <3>3. ASSUME NEW p \in Path, Rests(p)' PROVE known'[p] = known[p] /\ (Out(p) => Out(p)')
      <4>1. CASE UNCHANGED <<folder, flipped>>
        BY <1>2, <4>1 DEF Out
      <4>2. CASE Users
        <5>1. PICK tree : Edit(tree)
          <6>1. \E tree : Edit(tree)
            BY <4>2, Zenon DEF Users, User, WriteFile, MakeDirectory, Remove
          <6> QED BY <6>1
        <5>2. flipped' = flipped \cup {q \in Path : folder'[q] = known[q] /\ folder[q] # known[q]}
          BY <5>1 DEF Edit
        <5> QED BY <1>2, <5>2 DEF Out
      <4> QED BY <1>2, <4>1, <4>2
    <3>4. \A p \in Path : p \in ToRecover => p \in ToRecover'
      BY <1>2 DEF ToRecover
    <3>5. clientDb' = clientDb /\ doubtful \subseteq doubtful'
      BY <1>2
    <3> QED BY <1>2, <3>1, <3>2, <3>3, <3>4, <3>5, LineRests
  <2> QED BY <2>1, <2>2
<1>3. ASSUME Stop PROVE Agreed'
  BY <1>3 DEF Stop, Agreed
<1>4. ASSUME UNCHANGED <<watcherVars, clientVars>>, outOfStep => outOfStep' PROVE Agreed'
  BY <1>2, <1>4 DEF watcherVars, clientVars, Coming
<1>5. CASE Users
  <2>1. UNCHANGED <<known, scan, queue, clientVars, outOfStep>>
    BY <1>5 DEF Users, User, WriteFile, MakeDirectory, Remove, netVars
  <2> QED BY <1>2, <1>5, <2>1 DEF clientVars, Coming
<1>6. CASE UNCHANGED vars
  BY <1>4, <1>6 DEF vars, netVars
<1>7. CASE Watcher
  <2>1. UNCHANGED <<clientVars, outOfStep>> /\ UNCHANGED folderVars
    <3>1. UNCHANGED <<clientVars, outOfStep>> /\ Watch
      BY <1>7 DEF Watcher, netVars
    <3> QED BY <3>1 DEF Watch, NextPass, VisitRecover, VisitDeleted, VisitPresent
  <2>2. CASE NoReport /\ pc # "down"
    <3>1. UNCHANGED <<known, folder, flipped, excused, clientDb, doubtful>> /\ Coming' = Coming /\ outOfStep' = outOfStep
      BY <2>1, <2>2 DEF NoReport, clientVars, folderVars, Coming
    <3>2. ASSUME NEW p \in Path, Rests(p)' PROVE /\ known'[p] = known[p] /\ (Out(p) => Out(p)')
                                                 /\ p \in ToRecover => p \in ToRecover'
      <4>1. ~Out(p)
        BY <3>1, <3>2 DEF Rests, Out
      <4> QED BY <2>2, <3>1, <4>1 DEF NoReport
    <3>3. \A i \in DOMAIN Coming : \E k \in DOMAIN Coming' : Coming'[k].path = Coming[i].path
      BY <3>1
    <3> QED BY <2>2, <3>1, <3>2, <3>3, LineRests
  <2>3. CASE pc = "down"
    BY <2>1, <2>3 DEF Agreed, clientVars
  <2>4. ASSUME NEW e \in Events, Reports(e) PROVE Agreed'
    BY <1>1, <2>1, <2>4, ReportRests
  <2> QED BY <1>1, <1>7, <2>2, <2>3, <2>4, WatchReports
<1>8. CASE WatcherFails \/ Kill \/ ClientGivesUp
  BY <1>3, <1>8 DEF WatcherFails, Kill, ClientGivesUp, GiveUp, StopAll
<1>9. CASE Client
  <2>1. CASE Goes
    <3>1. outOfStep => outOfStep'
      BY <1>9 DEF Client, Communicate, LoseConnection, Disconnect, HangUp, Resent, SkipStale, ResendMessage,
                  ResendData, SendEvent, ReceiveSend, ReceiveUnwantedSend, ReceiveOk, ReceiveErr,
                  ReceiveException, Consume, SendStor, SendData, FileVanished, StopAll, Stop, netVars
    <3> QED BY <1>2, <2>1, <3>1 DEF Goes
  <2>2. CASE LosesHold
    BY <1>1, <2>2, DropRests
  <2>3. CASE StopAll
    BY <1>3, <2>3 DEF StopAll
  <2>4. CASE ReceiveOk \/ ReceiveErr \/ ReceiveSend
    BY <1>1, <2>4, ReceivedRests
  <2> QED BY <1>1, <1>9, <2>1, <2>2, <2>3, <2>4, ClientLines DEF Client
<1>10. ASSUME NEW c \in Conn, Connect(c) PROVE Agreed'
  <2>1. UNCHANGED <<window, cur, clientDb, excused, doubtful, watcherVars, outOfStep>> /\ pc = "off"
    BY <1>10 DEF Connect, ConnectTo
  <2> QED BY <1>2, <2>1 DEF Coming, watcherVars
<1>11. CASE (\E c \in Conn : Server(c)) \/ ServerDies \/ ServerRestarts \/ ConnectionBreaks
  <2>1. UNCHANGED <<watcherVars, clientVars>>
    BY <1>11 DEF Server, ServerDies, ServerRestarts, ConnectionBreaks
  <2>2. outOfStep => outOfStep'
    <3>1. ASSUME NEW c \in Conn, Server(c) PROVE outOfStep => outOfStep'
      BY <3>1, ServeReads, InvariantParts DEF Server
    <3> QED BY <1>11, <3>1 DEF ServerDies, Crash, CrashInHandler, Halt, ServerRestarts, Restart, ConnectionBreaks, Break
  <2> QED BY <1>4, <2>1, <2>2
<1>12. CASE StartClient
  BY <1>12 DEF StartClient, Agreed, Agrees, SameContent, Exists
<1> QED BY <1>5, <1>6, <1>7, <1>8, <1>9, <1>10, <1>11, <1>12 DEF Next, ClientRestarts
-----------------------------------------------------------------------------
(* Everything is answered.                                                  *)

\* At the start the server has nothing the client's database does not list.
NothingMore == \A p \in Path : Exists(StartTree, p) => Exists(Initial, p)

LEMMA InitTells ==
  ASSUME NothingMore, Init
  PROVE  WindowTells /\ Foreseen /\ LineTells
<1>1. /\ folder = Initial /\ known = Initial /\ clientDb = Initial /\ disk = StartTree
      /\ rows = [p \in Path |-> IF Exists(StartTree, p) THEN <<StartTree[p]>> ELSE <<>>]
      /\ queue = <<>> /\ window = <<>> /\ cur = <<>> /\ c2s = [c \in Conn |-> <<>>]
  BY DEF Init, WatcherInit, ClientInit, NetInit, ServerInit
<1>2. DOMAIN Coming = {}
  BY <1>1 DEF Coming, Line
<1>3. \A p \in Path : ServerHas(p) => Exists(clientDb, p)
  BY <1>1 DEF ServerHas, IsFile, Exists, NothingMore
<1>4. OrphansExpected
  BY <1>1 DEF OrphansExpected, Orphan, IsFile
<1>5. WindowTells
  BY <1>1, <1>3, <1>4 DEF WindowTells, HadIsKnown, HadIsStored
<1>6. Foreseen
  BY <1>1 DEF Foreseen
<1>7. RenewedIsMade
  BY <1>2 DEF RenewedIsMade
<1>8. HeldIsMade
  <2>1. ASSUME NEW p \in Path, IsDir(known, p), NEW k \in Nat \ {0}, DOMAIN Coming = 1 .. k - 1
        PROVE  MadeBefore(Coming, p, k)
    <3>1. k = 1
      <4>1. k > 1 => 1 \in 1 .. k - 1
        OBVIOUS
      <4> QED BY <1>2, <2>1, <4>1
    <3>2. ASSUME NEW j \in Nat, j < k PROVE ~Gone(Coming, p, j)
      <4>1. j = 0
        BY ONLY <3>1, <3>2
      <4> QED BY <1>1, <2>1, <4>1 DEF Gone, IsDir, Exists
    <3> QED BY <3>2 DEF MadeBefore
  <2> QED BY <2>1 DEF HeldIsMade
<1>9. Agreed
  BY <1>1 DEF Agreed, Agrees, SameContent
<1> QED BY <1>5, <1>6, <1>7, <1>8, <1>9 DEF LineTells

LEMMA SettledIsInSync ==
  ASSUME IInv, OneRowEach, Saved, WindowTells, LineTells
  PROVE  InSyncUnlessExcused /\ RowsDescribeDisk
<1> SUFFICES ASSUME Settled, NEW p \in Kept
             PROVE  /\ SameContent(folder, clientDb, p) \/ (p \in doubtful /\ ~Exists(clientDb, p))
                    /\ SameContent(folder, disk, p) \/ LeftOver(p)
                    /\ \/ IF Exists(disk, p) THEN Len(rows[p]) = 1 /\ rows[p][1].hash = disk[p].hash
                                             ELSE rows[p] = <<>>
                       \/ LeftOver(p)
  BY DEF InSyncUnlessExcused, RowsDescribeDisk
<1>1. /\ ~outOfStep /\ p \in Path /\ p \notin excused \cup flipped /\ pc # "down" /\ known = folder
      /\ window = <<>> /\ cur = <<>> /\ queue = <<>> /\ scan.pass # "recover"
  BY DEF Kept, Settled, Saved, Resting
<1>2. DOMAIN Coming = {}
  BY <1>1 DEF Coming, Line
<1>3. ~Out(p) /\ p \notin ToRecover /\ ~IsComing(p) /\ ~Unanswered(p) /\ Acknowledged(p)
  BY <1>1, <1>2 DEF Out, ToRecover, IsComing, Unanswered, Acknowledged
<1>4. Agrees(p)
  BY <1>1, <1>3 DEF LineTells, Agreed, Rests
<1>5. rows[p] \in Seq(Entry) /\ Len(rows[p]) <= 1 /\ disk \in Tree
  BY <1>1, InvariantParts, ServerFacts DEF OneRowEach, ServerTypeOK
<1>6. CASE Exists(folder, p)
  <2>1. Exposed(p)
    BY <1>1, <1>3, <1>6 DEF Exposed
  <2>2. SameContent(known, disk, p) /\ Fits(p)
    BY <1>1, <1>3, <2>1 DEF Saved, Backed
  <2>3. Len(rows[p]) = 1
    <3>1. rows[p] # <<>>
      BY <2>2 DEF Fits
    <3>2. PICK r \in Seq(Entry) : r = rows[p] /\ r # <<>> /\ Len(r) <= 1
      BY <1>5, <3>1
    <3>3. Len(r) \in Nat /\ Len(r) >= 1 /\ Len(r) <= 1
      BY <3>2
    <3>4. Len(r) = 1
      BY ONLY <3>3
    <3> QED BY <3>2, <3>4
  <2> QED BY <1>1, <1>4, <1>6, <2>2, <2>3 DEF Agrees, SameContent, Fits
<1>7. CASE ~Exists(folder, p) /\ p \in doubtful
  BY <1>1, <1>4, <1>7 DEF Agrees, SameContent, LeftOver
<1>8. CASE ~Exists(folder, p) /\ p \notin doubtful
  <2>1. ~Exists(clientDb, p) /\ SameContent(folder, clientDb, p)
    BY <1>1, <1>4, <1>8 DEF Agrees, SameContent
  <2>2. ~StoreExpected(p) /\ ~Lost(p)
    BY <1>1, <1>8 DEF StoreExpected, Lost
  <2>3. rows[p] = <<>> /\ ~IsFile(disk, p)
    BY <1>1, <2>1, <2>2 DEF WindowTells, HadIsKnown, ServerHas
  <2>4. Exists(disk, p) => IsDir(disk, p)
    BY <1>1, <1>5, <2>3, EntryTypes, SMTT(20) DEF Tree, IsDir, IsFile, Exists, Entry
  <2> QED BY <1>8, <2>1, <2>3, <2>4 DEF SameContent, LeftOver
<1> QED BY <1>6, <1>7, <1>8

\* What is said of the window and of the line, in every state.
LEMMA LineAlwaysTells ==
  ASSUME NEW s, Conn = {s}, KindsFixed, NothingMore
  PROVE  Spec => [](WindowTells /\ LineTells)
<1> DEFINE Safe == AllOfTheirKind /\ InOrder /\ Saved
           Lines == WindowTells /\ Foreseen /\ LineTells
<1>1. Init => Silent /\ Lines
  BY InitTells DEF Init, NetInit, ServerInit, Silent
<1>2. IInv /\ Silent /\ [Next]_vars => Silent'
  BY StaysSilent
<1>3. IInv /\ Safe => OpenForeseen /\ ComingOfKind
  BY OpenIsForeseen, ComingIsOfKind, InvariantParts
<1>4. /\ IInv /\ IInv' /\ Safe /\ Safe' /\ Silent /\ SessionKnowsTable
      /\ OpenForeseen' /\ ComingOfKind /\ ComingOfKind' /\ Lines /\ [Next]_vars
      => Lines'
  <2> SUFFICES ASSUME IInv, IInv', AllOfTheirKind, AllOfTheirKind', InOrder, Saved, Silent, SessionKnowsTable,
                      OpenForeseen', ComingOfKind, ComingOfKind', WindowTells, Foreseen, LineTells, [Next]_vars
               PROVE  Lines'
    OBVIOUS
  <2>1. RenewedIsMade /\ HeldIsMade /\ Agreed /\ Resting
    BY DEF LineTells, Saved
  <2>2. WindowTells' /\ Foreseen'
    BY <2>1, StepTells
  <2>3. RenewedIsMade' /\ HeldIsMade'
    BY <2>1, StepMakes
  <2>4. Agreed'
    BY <2>1, StepAgrees
  <2> QED BY <2>2, <2>3, <2>4 DEF LineTells
<1>5. Spec => []Safe
  BY SavedAlways
<1>6. Spec => [](OneRowEach /\ SessionKnowsTable)
  BY TableIsKnown
<1> QED BY Invariant, <1>1, <1>2, <1>3, <1>4, <1>5, <1>6, PTL DEF Spec

\* When everything is answered the backup is the folder and the client's database says
\* so, except for what is left over or in doubt, whatever the user did meanwhile and
\* however often connections broke, the server crashed or the client was killed and
\* started again: scan, window, handlers and the two recoverFromDB together
\* (client/FileSystemWatcher.cpp:133, server/ProtocolManager.cpp:55).  For one session at
\* a time, paths that do not change their kind, and a server that begins with nothing
\* the client's database does not list.
THEOREM BackupIsInSync ==
  ASSUME NEW s, Conn = {s}, KindsFixed, NothingMore
  PROVE  Spec => []InSyncUnlessExcused
<1>1. IInv /\ OneRowEach /\ Saved /\ WindowTells /\ LineTells => InSyncUnlessExcused
  BY SettledIsInSync
<1>2. Spec => []Saved
  BY SavedAlways, PTL
<1> QED BY Invariant, TableIsKnown, LineAlwaysTells, <1>1, <1>2, PTL

\* ... and the server's table then lists what is on its disk: one row with the right
\* hash for each element and none for another, also where a handler was cut off
\* between the two (server/ProtocolManager.cpp:727).  A retrieval, and the next
\* session's recoverFromDB, find the whole backup.
THEOREM TableIsInSync ==
  ASSUME NEW s, Conn = {s}, KindsFixed, NothingMore
  PROVE  Spec => []RowsDescribeDisk
<1>1. IInv /\ OneRowEach /\ Saved /\ WindowTells /\ LineTells => RowsDescribeDisk
  BY SettledIsInSync
<1>2. Spec => []Saved
  BY SavedAlways, PTL
<1> QED BY Invariant, TableIsKnown, LineAlwaysTells, <1>1, <1>2, PTL
-----------------------------------------------------------------------------
(* The last write times.  The one that is due for a path is that of its last *)
(* event, or that of the client's database when none of it is under way.     *)
IsLastOf(L, i, p) == i \in DOMAIN L /\ L[i].path = p /\ IsLast(L, i)
DueTime(p, t) == \/ \E i \in DOMAIN Coming : IsLastOf(Coming, i, p) /\ Coming[i].entry.lwt = t
                 \/ ~IsComing(p) /\ Exists(clientDb, p) /\ clientDb[p].lwt = t
DueKept(p) == \A t \in Time : DueTime(p, t)' => DueTime(p, t)

\* What the server answered to has the time that is due; so has what the watcher knows
\* of directories.
Dated == ~outOfStep =>
    \A p \in Path : Exposed(p) /\ Acknowledged(p) /\ ~HoldsFolders(p) /\ (crashes = 0 \/ IsFile(known, p)) =>
        \A t \in Time : DueTime(p, t) => disk[p].lwt = t
DirsDated == pc # "down" /\ ~outOfStep =>
    \A p \in Path : IsDir(known, p) /\ ~Out(p) => \A t \in Time : DueTime(p, t) => known[p].lwt = t

\* An event between pop and push has no reply to come.
CurWaits == cur # <<>> => Unanswered(cur[1].path)

LEMMA RepliesInLine ==
  ASSUME ClientOK
  PROVE  Replies \in Nat /\ (Replies = 0 \/ Replies \in DOMAIN Coming)
<1>1. Replies \in Nat /\ Replies <= Len(window)
  BY ReplyCount
<1>2. window \in Seq(Events) /\ cur \in Seq(Events) /\ queue \in Seq(Events)
  BY ClientFacts
<1>3. /\ Len(window) \in Nat /\ Len(cur) \in Nat /\ Len(queue) \in Nat
      /\ DOMAIN Coming = 1 .. Len(window) + Len(cur) + Len(queue)
  BY <1>2, LineIs DEF Coming
<1> QED BY <1>1, <1>3

LEMMA CurHasNoReply ==
  ASSUME ClientOK
  PROVE  CurWaits
<1> SUFFICES ASSUME cur # <<>> PROVE Unanswered(cur[1].path)
  BY DEF CurWaits
<1>1. Replies \in Nat /\ Replies <= Len(window)
  BY ReplyCount
<1>2. window \in Seq(Events) /\ cur \in Seq(Events) /\ queue \in Seq(Events)
  BY ClientFacts
<1>3. Len(window) \in Nat /\ Len(cur) \in Nat /\ Len(queue) \in Nat /\ Len(cur) >= 1
  BY <1>2
<1>4. DOMAIN Coming = 1 .. Len(window) + Len(cur) + Len(queue)
  BY <1>2, LineIs DEF Coming
<1>5. Len(window) + 1 \in DOMAIN Coming
  BY <1>3, <1>4
<1>6. Coming[Len(window) + 1] = cur[1]
  BY <1>3, <1>5 DEF Coming, Line
<1>7. Len(window) + 1 > Replies
  BY <1>1, <1>3
<1> QED BY <1>5, <1>6, <1>7 DEF Unanswered

\* A time that was due stays due.
LEMMA DueStays ==
  ASSUME NEW p,
         \A k \in DOMAIN Coming' : IsLastOf(Coming', k, p) =>
            \E i \in DOMAIN Coming : IsLastOf(Coming, i, p) /\ Coming[i].entry = Coming'[k].entry,
         ~IsComing(p)' /\ Exists(clientDb', p) =>
            \/ ~IsComing(p) /\ clientDb'[p] = clientDb[p]
            \/ \E i \in DOMAIN Coming : IsLastOf(Coming, i, p) /\ Coming[i].entry = clientDb'[p]
  PROVE  DueKept(p)
<1> SUFFICES ASSUME NEW t \in Time, DueTime(p, t)' PROVE DueTime(p, t)
  BY DEF DueKept
<1>1. CASE \E k \in DOMAIN Coming' : IsLastOf(Coming', k, p) /\ Coming'[k].entry.lwt = t
  BY <1>1 DEF DueTime
<1>2. CASE ~IsComing(p)' /\ Exists(clientDb', p) /\ clientDb'[p].lwt = t
  BY <1>2 DEF DueTime, Exists
<1> QED BY <1>1, <1>2 DEF DueTime, IsLastOf, IsLast

LEMMA SameDue ==
  ASSUME Coming' = Coming, clientDb' = clientDb
  PROVE  \A p : DueKept(p)
BY DEF DueKept, DueTime, IsLastOf, IsLast, IsComing, Exists

\* One event more.
LEMMA ReportDue ==
  ASSUME ClientOK, NEW e \in Events, Reports(e), UNCHANGED <<clientVars, netVars>>
  PROVE  /\ Unanswered(e.path)'
         /\ \A p \in Path \ {e.path} : DueKept(p)
         /\ \A t : DueTime(e.path, t)' => e.entry.lwt = t
<1>1. queue' = Append(queue, e)
  BY DEF Reports
<1>2. PICK n \in Nat : /\ DOMAIN Coming = 1 .. n /\ DOMAIN Coming' = 1 .. n + 1 /\ Coming'[n + 1] = e
                      /\ \A i \in 1 .. n : Coming'[i] = Coming[i]
  BY <1>1, ReportedLine DEF clientVars
<1>3. /\ n + 1 \in 1 .. n + 1 /\ \A i \in 1 .. n : i \in 1 .. n + 1 /\ ~(i > n + 1)
      /\ \A i \in 1 .. n + 1 : i \in 1 .. n \/ i = n + 1
      /\ \A i \in 1 .. n : n + 1 > i
  OBVIOUS
<1>4. Unanswered(e.path)'
  <2>1. Replies' = Replies
    BY DEF Replies, clientVars, netVars
  <2>2. n + 1 > Replies
    BY <1>2, RepliesInLine
  <2> QED BY <1>2, <1>3, <2>1, <2>2 DEF Unanswered
<1>5. ASSUME NEW p \in Path \ {e.path} PROVE DueKept(p)
  <2>1. ASSUME NEW k \in DOMAIN Coming', IsLastOf(Coming', k, p)
        PROVE  IsLastOf(Coming, k, p) /\ Coming[k].entry = Coming'[k].entry
    <3>1. k \in 1 .. n
      BY <1>2, <1>3, <2>1 DEF IsLastOf
    <3>2. \A j \in DOMAIN Coming : j > k => Coming[j].path # p
      BY <1>2, <1>3, <2>1 DEF IsLastOf, IsLast
    <3> QED BY <1>2, <2>1, <3>1, <3>2 DEF IsLastOf, IsLast
  <2>2. IsComing(p) => IsComing(p)'
    BY <1>2, <1>3 DEF IsComing
  <2>3. clientDb' = clientDb
    BY DEF clientVars
  <2> QED BY <2>1, <2>2, <2>3, DueStays DEF IsLastOf
<1>6. ASSUME NEW t, DueTime(e.path, t)' PROVE e.entry.lwt = t
  <2>1. IsComing(e.path)'
    BY <1>2, <1>3 DEF IsComing
  <2>2. PICK k \in DOMAIN Coming' : IsLastOf(Coming', k, e.path) /\ Coming'[k].entry.lwt = t
    BY <1>6, <2>1 DEF DueTime
  <2>3. k = n + 1
    BY <1>2, <1>3, <2>2 DEF IsLastOf, IsLast
  <2> QED BY <1>2, <2>2, <2>3
<1> QED BY <1>4, <1>5, <1>6

\* One event less, which is given up.
LEMMA DropDue ==
  ASSUME ClientOK, LosesHold, NEW p \in Path, p \notin excused'
  PROVE  DueKept(p)
<1>1. /\ window' = window /\ cur' = <<>> /\ queue' = queue /\ clientDb' = clientDb
      /\ excused' = excused \cup {cur[i].path : i \in DOMAIN cur}
  BY DEF LosesHold, HangUp, watcherVars
<1>2. CASE cur = <<>>
  <2>1. Coming' = Coming
    BY <1>1, <1>2 DEF Coming
  <2> QED BY <1>1, <2>1, SameDue
<1>3. CASE cur # <<>>
  <2>1. PICK n \in Nat : \E k \in 0 .. n :
           /\ DOMAIN Coming = 1 .. n + 1 /\ DOMAIN Coming' = 1 .. n
           /\ \A i \in 1 .. k : Coming'[i] = Coming[i]
           /\ Coming[k + 1] = cur[1] /\ 1 \in DOMAIN cur
           /\ \A i \in k + 1 .. n : Coming'[i] = Coming[i + 1]
    BY <1>3, DroppedLine DEF LosesHold
  <2>2. PICK k \in 0 .. n :
           /\ DOMAIN Coming = 1 .. n + 1 /\ DOMAIN Coming' = 1 .. n
           /\ \A i \in 1 .. k : Coming'[i] = Coming[i]
           /\ Coming[k + 1] = cur[1] /\ 1 \in DOMAIN cur
           /\ \A i \in k + 1 .. n : Coming'[i] = Coming[i + 1]
    BY <2>1
  <2>3. Coming[k + 1].path # p
    BY <1>1, <2>2
  <2>4. /\ \A i \in 1 .. n + 1 : \/ i \in 1 .. k /\ i \in 1 .. n
                                 \/ i = k + 1
                                 \/ i - 1 \in k + 1 .. n /\ i - 1 \in 1 .. n /\ i - 1 + 1 = i
        /\ \A i \in 1 .. n : \/ i \in 1 .. k /\ i \in 1 .. n + 1
                             \/ i \in k + 1 .. n /\ i + 1 \in 1 .. n + 1
    OBVIOUS
  <2>5. ASSUME NEW i \in DOMAIN Coming, Coming[i].path = p
        PROVE  \E j \in DOMAIN Coming' : /\ Coming'[j] = Coming[i]
                                         /\ (i \in 1 .. k /\ j = i) \/ (i - 1 \in k + 1 .. n /\ j = i - 1)
    BY <2>2, <2>3, <2>4, <2>5
  <2>6. ASSUME NEW m \in DOMAIN Coming', IsLastOf(Coming', m, p)
        PROVE  \E i \in DOMAIN Coming : IsLastOf(Coming, i, p) /\ Coming[i].entry = Coming'[m].entry
    <3>1. PICK i : /\ \/ m \in 1 .. k /\ i = m
                      \/ m \in k + 1 .. n /\ i = m + 1
                   /\ i \in DOMAIN Coming /\ Coming[i] = Coming'[m]
      BY <2>2, <2>4, <2>6
    <3>2. ASSUME NEW j \in DOMAIN Coming, j > i, Coming[j].path = p PROVE FALSE
      <4>1. PICK x \in DOMAIN Coming' : /\ Coming'[x] = Coming[j]
                                        /\ (j \in 1 .. k /\ x = j) \/ (j - 1 \in k + 1 .. n /\ x = j - 1)
        BY <2>5, <3>2
      <4>2. x > m
        <5>1. j \in 1 .. n + 1 /\ m \in 1 .. n
          BY <2>2, <2>6
        <5> QED BY ONLY <3>1, <3>2, <4>1, <5>1, n \in Nat, k \in 0 .. n
      <4> QED BY <2>6, <3>2, <4>1, <4>2 DEF IsLastOf, IsLast
    <3> QED BY <2>6, <3>1, <3>2 DEF IsLastOf, IsLast
  <2>7. IsComing(p) => IsComing(p)'
    BY <2>5 DEF IsComing
  <2> QED BY <1>1, <2>6, <2>7, DueStays
<1> QED BY <1>2, <1>3

\* What is left of the line behind a reply.
LEMMA LastOfRest ==
  ASSUME NEW n \in Nat, NEW p, NEW k \in DOMAIN Coming', IsLastOf(Coming', k, p),
         \/ Shrunk(n)
         \/ \E w \in 1 .. n : Turned(n, w) /\ Coming[1].path # p
  PROVE  \E i \in DOMAIN Coming : IsLastOf(Coming, i, p) /\ Coming[i].entry = Coming'[k].entry
<1>1. CASE Shrunk(n)
  <2>1. k \in 1 .. n - 1 /\ n \in Nat
    BY <1>1 DEF Shrunk
  <2>2. k + 1 \in 1 .. n /\ k \in Nat
    BY ONLY <2>1
  <2>3. k + 1 \in DOMAIN Coming /\ Coming[k + 1] = Coming'[k]
    BY <1>1, <2>1, <2>2 DEF Shrunk
  <2>4. ASSUME NEW j \in DOMAIN Coming, j > k + 1, Coming[j].path = p PROVE FALSE
    <3>1. j \in 1 .. n
      BY <1>1 DEF Shrunk
    <3>2. j - 1 \in 1 .. n - 1 /\ j - 1 + 1 = j /\ j - 1 > k
      BY ONLY <2>1, <2>4, <3>1
    <3> QED BY <1>1, <2>4, <3>2 DEF Shrunk, IsLastOf, IsLast
  <2> QED BY <2>3, <2>4 DEF IsLastOf, IsLast
<1>2. CASE \E w \in 1 .. n : Turned(n, w) /\ Coming[1].path # p
  <2>1. PICK w \in 1 .. n : Turned(n, w) /\ Coming[1].path # p
    BY <1>2
  <2>2. k \in 1 .. n /\ k # w
    BY <2>1 DEF Turned, IsLastOf
  <2>3. PICK i : (k \in 1 .. w - 1 /\ i = k + 1) \/ (k \in w + 1 .. n /\ i = k)
    <3>1. k \in 1 .. w - 1 \/ k \in w + 1 .. n
      BY ONLY <2>2, w \in 1 .. n, n \in Nat
    <3> QED BY <3>1
  <2>4. i \in 1 .. n
    BY ONLY <2>3, w \in 1 .. n, n \in Nat
  <2>5. i \in DOMAIN Coming /\ Coming[i] = Coming'[k]
    BY <2>1, <2>3, <2>4 DEF Turned
  <2>6. ASSUME NEW j \in DOMAIN Coming, j > i, Coming[j].path = p PROVE FALSE
    <3>1. j \in 1 .. n
      BY <2>1 DEF Turned
    <3>2. \/ j - 1 \in 1 .. w - 1 /\ j - 1 \in 1 .. n /\ j - 1 + 1 = j /\ j - 1 > k
          \/ j \in w + 1 .. n /\ j > k
      BY ONLY <2>2, <2>3, <2>6, <3>1, w \in 1 .. n, n \in Nat
    <3> QED BY <2>1, <2>6, <3>1, <3>2 DEF Turned, IsLastOf, IsLast
  <2> QED BY <2>5, <2>6 DEF IsLastOf, IsLast
<1> QED BY <1>1, <1>2

\* The reply to the oldest event: a time that is due is noted or was due before.
LEMMA ReceivedDue ==
  ASSUME ClientOK, OfItsKind(known), ComingOfKind, KindsFixed, Saved,
         ReceiveOk \/ ReceiveErr \/ ReceiveSend, NEW p \in Path, ~Out(p)',
         cur' = cur \/ Coming[1].path # p
  PROVE  DueKept(p)
<1>1. UNCHANGED <<known, folder, flipped>>
  BY DEF ReceiveOk, ReceiveErr, ReceiveSend, Consume, watcherVars
<1>2. PICK h : h = Coming[1]
  OBVIOUS
<1>3. /\ Coming[1] = window[1] /\ h \in Events /\ h.path \in Path /\ 1 \in DOMAIN Coming
      /\ h.entry \in Entry /\ h.type \in EventType
      /\ \A i \in DOMAIN Coming : i = 1 \/ \E k \in DOMAIN Coming' : Coming'[k].path = Coming[i].path
  BY <1>2, ReceivedLine, TakenLine DEF Saved, Events
<1>4. h = Head(window) /\ clientDb \in Tree
  <2>1. window \in Seq(Events) /\ window # <<>>
    BY ClientFacts DEF ReceiveOk, ReceiveErr, ReceiveSend, Receiving
  <2> QED BY <1>2, <1>3, <2>1 DEF ClientOK, ClientTypeOK
<1>5. /\ \/ ReceiveOk /\ clientDb' = Confirmed(h) /\ excused' = excused
         \/ ReceiveErr /\ clientDb' = clientDb /\ excused' = excused \cup {h.path}
         \/ ReceiveSend /\ clientDb' = clientDb /\ excused' = excused
  BY <1>4 DEF ReceiveOk, ReceiveErr, ReceiveSend
<1>6. ~Out(p) /\ p \notin excused'
  BY <1>1, <1>5 DEF Out
<1>7. \E n \in Nat : Shrunk(n) \/ \E w \in 1 .. n : Turned(n, w) /\ Coming[1].path # p
  <2>1. CASE cur' = cur
    BY <2>1, ReceivedLine DEF Saved
  <2>2. CASE cur' # cur
    BY <2>2, ReceivedLine DEF Saved
  <2> QED BY <2>1, <2>2
<1>8. ASSUME NEW k \in DOMAIN Coming', IsLastOf(Coming', k, p)
      PROVE  \E i \in DOMAIN Coming : IsLastOf(Coming, i, p) /\ Coming[i].entry = Coming'[k].entry
  BY <1>7, <1>8, LastOfRest
<1>9. ASSUME ~IsComing(p)', Exists(clientDb', p)
      PROVE  \/ ~IsComing(p) /\ clientDb'[p] = clientDb[p]
             \/ \E i \in DOMAIN Coming : IsLastOf(Coming, i, p) /\ Coming[i].entry = clientDb'[p]
  <2>1. CASE p # h.path
    <3>1. clientDb'[p] = clientDb[p]
      BY <1>3, <1>4, <1>5, <2>1, ConfirmedElsewhere
    <3>2. ~IsComing(p)
      BY <1>2, <1>3, <1>9, <2>1 DEF IsComing
    <3> QED BY <3>1, <3>2
  <2>2. CASE p = h.path
    <3>1. IsLast(Coming, 1)
      <4>1. \A i \in DOMAIN Coming : i # 1 => Coming[i].path # p
        BY <1>3, <1>9 DEF IsComing
      <4> QED BY <1>2, <2>2, <4>1, ComingTypes DEF IsLast, LineTypes
    <3>2. CASE ReceiveOk /\ clientDb' = Confirmed(h)
      <4>1. clientDb'[p] = h.entry
        <5>1. CASE h.type = "deleted"
          <6>1. clientDb'[p] = Absent
            BY <1>3, <1>4, <2>2, <3>2, <5>1, ConfirmedElsewhere
          <6> QED BY <1>9, <6>1 DEF Exists
        <5>2. CASE h.type \in {"created", "storeSent"} \/ (h.type = "modified" /\ Exists(clientDb, p))
          BY <1>3, <1>4, <2>2, <3>2, <5>2 DEF Confirmed, Tree
        <5>3. CASE h.type = "modified" /\ ~Exists(clientDb, p)
          <6>1. clientDb' = clientDb
            BY <2>2, <3>2, <5>3 DEF Confirmed
          <6> QED BY <1>9, <5>3, <6>1 DEF Exists
        <5> QED BY <1>3, <5>1, <5>2, <5>3 DEF EventType
      <4> QED BY <1>2, <1>3, <2>2, <3>1, <4>1 DEF IsLastOf
    <3>3. CASE excused' = excused \cup {h.path}
      BY <1>6, <2>2, <3>3
    <3>4. CASE ReceiveSend
      <4>1. h.type # "deleted" /\ Told(h)
        BY <1>2, <1>3, <1>4, <3>1, <3>4 DEF ReceiveSend, Wanted, Saved, EventsTold
      <4>2. Exists(known, p) /\ known[p].hash = h.entry.hash /\ folder[p] = known[p]
        BY <1>6, <2>2, <4>1 DEF Told, Out
      <4>3. Unchanged(h)
        BY <2>2, <4>2 DEF Unchanged, Exists
      <4>4. cur' # cur
        <5>1. cur = <<>>
          BY <3>4 DEF Saved, Resting, ReceiveSend, Receiving
        <5>2. cur' = <<Event("storeSent", h.path, h.entry)>>
          BY <1>4, <3>4, <4>3 DEF ReceiveSend
        <5> QED BY <5>1, <5>2
      <4> QED BY <1>2, <2>2, <4>4
    <3> QED BY <1>5, <3>2, <3>3, <3>4
  <2> QED BY <2>1, <2>2
<1> QED BY <1>8, <1>9, DueStays

\* The STOR that is asked for has no reply yet.
LEMMA TurnedWaits ==
  ASSUME ClientOK, Saved, ReceiveOk \/ ReceiveErr \/ ReceiveSend, cur' # cur, CurWaits',
         NEW p, p = Coming[1].path
  PROVE  Unanswered(p)' /\ Coming[1].entry.type = "file"
<1>1. Coming[1] = window[1] /\ window[1].entry.type = "file" /\ cur = <<>>
  BY ReceivedLine DEF Saved, Resting, ReceiveOk, ReceiveErr, ReceiveSend, Receiving
<1>2. window[1] = Head(window)
  <2>1. window \in Seq(Events) /\ window # <<>>
    BY ClientFacts DEF ReceiveOk, ReceiveErr, ReceiveSend, Receiving
  <2> QED BY <2>1
<1>3. cur' = <<Event("storeSent", window[1].path, window[1].entry)>>
  BY <1>1, <1>2 DEF ReceiveOk, ReceiveErr, ReceiveSend, positionVars
<1>4. cur' # <<>> /\ cur'[1].path = p
  BY <1>1, <1>3 DEF Event
<1>5. Unanswered(p)'
  <2>1. \E i \in DOMAIN Coming' : i > Replies' /\ Coming'[i].path = cur'[1].path
    BY <1>4 DEF CurWaits, Unanswered
  <2> QED BY <1>4, <2>1 DEF Unanswered
<1> QED BY <1>1, <1>5

\* What a step of the client does to a path's times: they stay, or something new is
\* reported that has no reply yet.
KeepsTimes(p) ==
    \/ Out(p)'
    \/ DueKept(p) /\ known'[p] = known[p] /\ ~Out(p)
    \/ /\ Unanswered(p)'
       /\ IsDir(known', p) => \A t \in Time : DueTime(p, t)' => known'[p].lwt = t

LEMMA ClientSideDates ==
  ASSUME Dated, DirsDated, UNCHANGED <<disk, crashes>>, outOfStep => outOfStep',
         pc = "down" => pc' = "down", Undisturbed, \A p \in Path : KeepsTimes(p)
  PROVE  Dated' /\ DirsDated'
<1>1. Dated'
  <2> SUFFICES ASSUME ~outOfStep', NEW p \in Path, Exposed(p)', Acknowledged(p)', ~HoldsFolders(p),
                      crashes' = 0 \/ IsFile(known', p), NEW t \in Time, DueTime(p, t)'
               PROVE  disk'[p].lwt = t
    BY DEF Dated, HoldsFolders, Below, IsFile, Exists
  <2>1. Exposed(p) /\ Acknowledged(p) /\ known'[p] = known[p]
    BY DEF Undisturbed, Calm
  <2>2. DueTime(p, t)
    BY DEF KeepsTimes, DueKept, Exposed
  <2>3. crashes = 0 \/ IsFile(known, p)
    BY <2>1 DEF IsFile, Exists
  <2> QED BY <2>1, <2>2, <2>3 DEF Dated
<1>2. DirsDated'
  <2> SUFFICES ASSUME pc' # "down", ~outOfStep', NEW p \in Path, IsDir(known', p), ~Out(p)',
                      NEW t \in Time, DueTime(p, t)'
               PROVE  known'[p].lwt = t
    BY DEF DirsDated, IsDir, Exists
  <2>1. CASE DueKept(p) /\ known'[p] = known[p] /\ ~Out(p)
    <3>1. DueTime(p, t) /\ IsDir(known, p)
      BY <2>1 DEF DueKept, IsDir, Exists
    <3> QED BY <2>1, <3>1 DEF DirsDated
  <2>2. CASE ~(DueKept(p) /\ known'[p] = known[p] /\ ~Out(p))
    BY <2>2 DEF KeepsTimes
  <2> QED BY <2>1, <2>2
<1> QED BY <1>1, <1>2

\* A start or an end leaves nothing under way.
LEMMA QuietDates ==
  ASSUME Quiet, pc' = "down" \/ known' = clientDb'
  PROVE  Dated' /\ DirsDated'
<1>1. Dated'
  BY DEF Quiet, Dated
<1>2. DirsDated'
  BY DEF Quiet, DirsDated, DueTime
<1> QED BY <1>1, <1>2

\* The watcher's steps, and those of the client's thread.
LEMMA WatcherDue ==
  ASSUME ClientOK, Watcher
  PROVE  \A p \in Path : KeepsTimes(p)
<1>1. UNCHANGED <<clientVars, netVars>> /\ UNCHANGED folderVars
  <2>1. UNCHANGED <<clientVars, netVars>> /\ Watch
    BY DEF Watcher
  <2> QED BY <2>1 DEF Watch, NextPass, VisitRecover, VisitDeleted, VisitPresent
<1>2. CASE NoReport
  <2>1. Coming' = Coming /\ UNCHANGED <<clientDb, known, folder, flipped, excused>>
    BY <1>1, <1>2 DEF NoReport, Coming, clientVars, folderVars
  <2> QED BY <2>1, SameDue DEF KeepsTimes, Out
<1>3. ASSUME NEW e \in Events, Reports(e) PROVE \A p \in Path : KeepsTimes(p)
  <2>1. /\ Unanswered(e.path)'
        /\ \A p \in Path \ {e.path} : DueKept(p)
        /\ \A t : DueTime(e.path, t)' => e.entry.lwt = t
    BY <1>1, <1>3, ReportDue
  <2>2. ASSUME NEW p \in Path \ {e.path} PROVE KeepsTimes(p)
    <3>1. known'[p] = known[p] /\ (Out(p) => Out(p)')
      BY <1>1, <1>3 DEF Reports, Out, folderVars, clientVars
    <3> QED BY <2>1, <3>1 DEF KeepsTimes
  <2>3. KeepsTimes(e.path)
    <3>1. PICK p : p = e.path
      OBVIOUS
    <3>2. IsDir(known', p) => known'[p] = e.entry
      BY <1>3, <3>1 DEF Reports, IsDir, Exists
    <3> QED BY <2>1, <3>1, <3>2 DEF KeepsTimes
  <2> QED BY <2>2, <2>3
<1> QED BY <1>2, <1>3, WatchReports

LEMMA ReceivedTimes ==
  ASSUME ClientOK, OfItsKind(known), ComingOfKind, KindsFixed, Saved, CurWaits',
         ReceiveOk \/ ReceiveErr \/ ReceiveSend, NEW p \in Path
  PROVE  KeepsTimes(p)
<1>1. UNCHANGED <<known, folder, flipped>> /\ excused \subseteq excused'
  BY DEF ReceiveOk, ReceiveErr, ReceiveSend, Consume, watcherVars
<1>2. CASE Out(p)'
  BY <1>2 DEF KeepsTimes
<1>3. CASE ~Out(p)' /\ (cur' = cur \/ Coming[1].path # p)
  <2>1. ~Out(p)
    BY <1>1, <1>3 DEF Out
  <2> QED BY <1>1, <1>3, <2>1, ReceivedDue DEF KeepsTimes
<1>4. CASE cur' # cur /\ Coming[1].path = p
  <2>1. Unanswered(p)' /\ Coming[1].entry.type = "file"
    BY <1>4, TurnedWaits
  <2>2. Coming[1] \in KindEvents
    BY ReceivedLine DEF ComingOfKind, Saved
  <2>3. ~IsDir(known, p)
    BY <1>4, <2>1, <2>2 DEF KindEvents, KindsFixed, OfItsKind, IsDir
  <2> QED BY <1>1, <2>1, <2>3 DEF KeepsTimes, IsDir, Exists
<1> QED BY <1>2, <1>3, <1>4

LEMMA CommunicationDue ==
  ASSUME ClientOK, OfItsKind(known), ComingOfKind, KindsFixed, Saved, CurWaits', Communicate, ~StopAll
  PROVE  \A p \in Path : KeepsTimes(p)
<1> SUFFICES ASSUME NEW p \in Path PROVE KeepsTimes(p)
  OBVIOUS
<1>1. CASE Goes
  <2>1. DueKept(p)
    BY <1>1, SameDue DEF Goes
  <2> QED BY <1>1, <2>1 DEF Goes, KeepsTimes, Out
<1>2. CASE LosesHold
  <2>1. /\ known' = known /\ folder' = folder /\ flipped' = flipped /\ excused \subseteq excused'
    BY <1>2 DEF LosesHold, HangUp, watcherVars
  <2>2. CASE Out(p)'
    BY <2>2 DEF KeepsTimes
  <2>3. CASE ~Out(p)'
    BY <1>2, <2>1, <2>3, DropDue DEF KeepsTimes, Out
  <2> QED BY <2>2, <2>3
<1>3. CASE ReceiveOk \/ ReceiveErr \/ ReceiveSend
  BY <1>3, ReceivedTimes
<1> QED BY <1>1, <1>2, <1>3, ClientLines DEF Saved

LEMMA ClientDates ==
  ASSUME KindsFixed, IInv, AllOfTheirKind, ComingOfKind, Saved, CurWaits', Dated, DirsDated,
         \/ Users \/ Watcher \/ WatcherFails \/ Client \/ (\E c \in Conn : Connect(c))
         \/ (Kill /\ UNCHANGED serverVars) \/ (StartClient /\ UNCHANGED serverVars) \/ ClientGivesUp
         \/ ConnectionBreaks
  PROVE  Dated' /\ DirsDated'
<1>1. ClientOK /\ OfItsKind(known) /\ Resting /\ EventsTold
  BY InvariantParts DEF AllOfTheirKind, WatcherKinds, Saved
<1>2. UNCHANGED <<disk, crashes>> /\ (outOfStep => outOfStep')
  <2>1. CASE Client
    BY <1>1, <2>1, ClientWritesOnce DEF Client, serverVars, storeVars
  <2>2. CASE ~Client
    BY <2>2 DEF Users, Watcher, WatcherFails, Stop, Connect, Kill, StartClient, ClientGivesUp, GiveUp, StopAll,
       ConnectionBreaks, Break, serverVars, storeVars, netVars
  <2> QED BY <2>1, <2>2
<1>3. ASSUME Stop, queue' = <<>> PROVE Dated' /\ DirsDated'
  <2>1. pc' = "down"
    BY <1>3 DEF Stop
  <2> QED BY <1>3, <2>1, StopQuiet, QuietDates
<1>4. CASE Users
  <2>1. /\ UNCHANGED <<known, scan, queue, clientVars>> /\ \E tree : Edit(tree)
    BY <1>4, Zenon DEF Users, User, WriteFile, MakeDirectory, Remove
  <2>2. UNCHANGED <<Coming, clientDb, pc, excused>>
    BY <2>1 DEF Coming, clientVars
  <2>3. ASSUME NEW p \in Path PROVE KeepsTimes(p)
    <3>1. Out(p) => Out(p)'
      BY <2>1, <2>2 DEF Edit, Out
    <3> QED BY <2>1, <2>2, <3>1, SameDue DEF KeepsTimes
  <2> QED BY <1>1, <1>2, <1>4, <2>2, <2>3, UserCalm, ClientSideDates
<1>5. CASE Watcher
  <2>1. pc' = pc
    BY <1>5 DEF Watcher, clientVars
  <2> QED BY <1>1, <1>2, <1>5, <2>1, WatchCalm, WatcherDue, ClientSideDates
<1>6. CASE WatcherFails \/ Kill \/ ClientGivesUp
  <2>1. Stop /\ queue' = <<>>
    BY <1>6 DEF WatcherFails, VanishUnderExamination, Kill, ClientGivesUp, GiveUp, StopAll
  <2> QED BY <1>3, <2>1
<1>7. CASE Client /\ StopAll
  BY <1>3, <1>7 DEF StopAll
<1>8. CASE Client /\ ~StopAll
  <2>1. Communicate
    BY <1>8 DEF Client
  <2>2. \A p \in Path : KeepsTimes(p)
    BY <1>1, <1>8, <2>1, CommunicationDue
  <2>3. CASE Undisturbed
    <3>1. pc = "down" => pc' = "down"
      <4>1. Goes \/ LosesHold \/ ReceiveOk \/ ReceiveErr \/ ReceiveSend
        BY <1>1, <1>8, <2>1, ClientLines
      <4> QED BY <4>1 DEF Goes, LosesHold, ReceiveOk, ReceiveErr, ReceiveSend, Receiving
    <3> QED BY <1>2, <2>2, <2>3, <3>1, ClientSideDates
  <2>4. CASE Quiet
    <3>1. Dated'
      BY <2>4 DEF Quiet, Dated
    <3>2. DirsDated'
      <4>1. pc # "down" \/ pc' = "down"
        <5>1. Goes \/ LosesHold \/ ReceiveOk \/ ReceiveErr \/ ReceiveSend
          BY <1>1, <1>8, <2>1, ClientLines
        <5> QED BY <5>1 DEF Goes, LosesHold, ReceiveOk, ReceiveErr, ReceiveSend, Receiving
      <4> SUFFICES ASSUME pc' # "down", ~outOfStep', NEW p \in Path, IsDir(known', p), ~Out(p)',
                          NEW t \in Time, DueTime(p, t)'
                   PROVE  known'[p].lwt = t
        BY DEF DirsDated, IsDir, Exists
      <4>2. KeepsTimes(p) /\ pc # "down" /\ ~outOfStep
        BY <1>2, <2>2, <4>1
      <4> QED BY <4>2 DEF KeepsTimes, DueKept, DirsDated, IsDir, Exists
    <3> QED BY <3>1, <3>2
  <2> QED BY <1>1, <2>1, <2>3, <2>4, ClientCalm
<1>9. ASSUME NEW c \in Conn, Connect(c) PROVE Dated' /\ DirsDated'
  <2>1. UNCHANGED <<window, cur, clientDb, excused, watcherVars>> /\ pc = "off"
    BY <1>9 DEF Connect, ConnectTo
  <2>2. Coming' = Coming /\ UNCHANGED <<known, folder, flipped>>
    BY <2>1 DEF Coming, watcherVars
  <2>3. ASSUME NEW p \in Path PROVE KeepsTimes(p)
    BY <2>1, <2>2, SameDue DEF KeepsTimes, Out
  <2> QED BY <1>1, <1>2, <1>9, <2>1, <2>3, ConnectCalm, ClientSideDates
<1>10. CASE ConnectionBreaks
  <2>1. UNCHANGED <<watcherVars, clientVars>> /\ Undisturbed
    BY <1>1, <1>10, BreakCalm
  <2>2. UNCHANGED <<window, cur, queue, clientDb, excused, known, folder, flipped, pc>>
    BY <2>1 DEF watcherVars, clientVars
  <2>3. Coming' = Coming
    BY <2>2 DEF Coming
  <2>4. ASSUME NEW p \in Path PROVE KeepsTimes(p)
    BY <2>2, <2>3, SameDue DEF KeepsTimes, Out
  <2> QED BY <1>2, <2>1, <2>2, <2>4, ClientSideDates
<1>11. CASE StartClient
  <2>1. known' = clientDb'
    BY <1>11 DEF StartClient
  <2> QED BY <1>1, <1>11, <2>1, StartQuiet, QuietDates
<1> QED BY <1>4, <1>5, <1>6, <1>7, <1>8, <1>9, <1>10, <1>11

\* What the handlers do to the times of other elements than the one they are asked for.
LEMMA CreatedElsewhere ==
  ASSUME disk \in Tree, NEW p \in Path, NEW Q, Q \subseteq Ancestors[p] \cup {p}, NEW t \in Time,
         NEW q \in Path, Exists(disk, q), ~HoldsFolders(q)
  PROVE  \/ CreateDirectories(disk, Q, t)[q] = disk[q]
         \/ CreateDirectories(disk, Q, t)[q] = Dir(t) /\ IsDir(disk, q) /\ q \in Parent(p)
<1>1. Q \in SUBSET Path
  BY AncestorsArePaths
<1>2. CASE CreateDirectories(disk, Q, t)[q] = disk[q]
  BY <1>2
<1>3. CASE /\ CreateDirectories(disk, Q, t)[q] = Dir(t) /\ IsDir(disk, q)
           /\ \E m \in Q : ~Exists(disk, m) /\ q \in Parent(m)
  <2>1. PICK m \in Q : q \in Parent(m)
    BY <1>3
  <2>2. m \notin Ancestors[p]
    BY <2>1, HoldsWhatIsMade
  <2> QED BY <1>3, <2>1, <2>2
<1> QED BY <1>1, <1>2, <1>3, OnlyTouched

LEMMA StoredElsewhere ==
  ASSUME disk \in Tree, NEW p \in Path, NEW e \in Entry, NEW t \in Time,
         NEW q \in Path, q # p, Exists(disk, q), ~HoldsFolders(q)
  PROVE  Stored(p, e, t)[q] = disk[q]
<1>1. Stored(p, e, t)[q] = WithParents(p, t)[q]
  BY DEF Stored, WithParents, CreateDirectories, Touch, Tree
<1>2. CASE WithParents(p, t) = disk
  BY <1>1, <1>2
<1>3. CASE WithParents(p, t) = CreateDirectories(disk, Ancestors[p], t)
  <2>1. Ancestors[p] \in SUBSET Path
    BY AncestorsArePaths
  <2>2. CASE \E m \in Ancestors[p] : ~Exists(disk, m) /\ q \in Parent(m)
    BY <2>2, HoldsWhatIsMade
  <2> QED BY <1>1, <1>3, <2>1, <2>2, OnlyTouched
<1> QED BY <1>2, <1>3 DEF WithParents

LEMMA MadeDirElsewhere ==
  ASSUME disk \in Tree, NEW p \in Path, NEW e \in Entry, NEW t \in Time,
         NEW q \in Path, q # p, Exists(disk, q), ~HoldsFolders(q)
  PROVE  MadeDir(p, e, t)[q] = disk[q]
<1>1. MadeDir(p, e, t)[q] = IF q \in Parent(p) /\ IsDir(disk, q) THEN disk[q] ELSE Made(p, t)[q]
  BY DEF MadeDir, KeepParentTime
<1>2. CASE Made(p, t) = disk
  BY <1>1, <1>2
<1>3. CASE Made(p, t) = CreateDirectories(disk, Ancestors[p] \cup {p}, t)
  BY <1>1, <1>3, CreatedElsewhere
<1> QED BY <1>2, <1>3 DEF Made

LEMMA HandlersKeepTimes ==
  ASSUME ServerOK, NEW c \in Conn, Serve(c), NEW q \in Path, Exists(disk, q), ~HoldsFolders(q),
         c2s[c] = <<>> \/ q \notin Affected(Head(c2s[c]))
  PROVE  disk'[q] = disk[q]
<1> DEFINE p == Head(c2s[c]).path
           e == Head(c2s[c]).entry
<1>1. disk \in Tree /\ WellFormed(disk) /\ NetTypeOK
  BY ServerFacts
<1>2. ASSUME NEW kind, JustAnswer(c, kind) PROVE disk' = disk
  BY <1>2 DEF JustAnswer, storeVars
<1>3. ASSUME Fail(c) PROVE disk' = disk
  BY <1>3 DEF Fail, storeVars
<1>4. ASSUME c2s[c] # <<>> PROVE p \in Path /\ e \in Entry /\ q # p
  BY <1>1, <1>4, HeadRequest DEF Affected
<1>5. ASSUME NothingThere(c, p) PROVE disk' = disk
  BY <1>2, <1>5 DEF NothingThere
<1>6. CASE RecoverFromDB(c) \/ Reject(c) \/ EndSession(c)
  BY <1>6 DEF RecoverFromDB, Reject, EndSession, serverVars, storeVars
<1>7. CASE Probe(c)
  <2>1. c2s[c] # <<>>
    BY <1>7 DEF Probe, Handling
  <2>2. (\E kind : JustAnswer(c, kind)) \/ Fail(c) \/ disk' = [disk EXCEPT ![p].lwt = e.lwt]
    BY <1>7, Zenon DEF Probe
  <2> HIDE DEF p, e
  <2> QED BY <1>1, <1>2, <1>3, <1>4, <2>1, <2>2 DEF Tree
<1>8. CASE StoreFile(c)
  <2>1. c2s[c] # <<>>
    BY <1>8 DEF StoreFile, Handling
  <2>2. (\E kind : JustAnswer(c, kind)) \/ Fail(c) \/ \E t \in Time : disk' = Stored(p, e, t)
    BY <1>8, Zenon DEF StoreFile
  <2> HIDE DEF p, e
  <2> QED BY <1>1, <1>2, <1>3, <1>4, <2>1, <2>2, StoredElsewhere
<1>9. CASE RemoveFile(c)
  <2>1. c2s[c] # <<>>
    BY <1>9 DEF RemoveFile, Handling
  <2>2. \/ NothingThere(c, p) \/ (\E kind : JustAnswer(c, kind)) \/ Fail(c)
        \/ disk' = [disk EXCEPT ![p] = Absent]
    BY <1>9, Zenon DEF RemoveFile
  <2> HIDE DEF p, e
  <2> QED BY <1>1, <1>2, <1>3, <1>4, <1>5, <2>1, <2>2 DEF Tree
<1>10. CASE MakeDir(c)
  <2>1. c2s[c] # <<>>
    BY <1>10 DEF MakeDir, Handling
  <2>2. (\E kind : JustAnswer(c, kind)) \/ Fail(c) \/ \E t \in Time : disk' = MadeDir(p, e, t)
    BY <1>10, Zenon DEF MakeDir
  <2> HIDE DEF p, e
  <2> QED BY <1>1, <1>2, <1>3, <1>4, <2>1, <2>2, MadeDirElsewhere
<1>11. CASE RemoveDir(c)
  <2>1. c2s[c] # <<>> /\ Head(c2s[c]).op = "RMD"
    BY <1>11 DEF RemoveDir, Handling
  <2>2. \/ NothingThere(c, p) \/ (\E kind : JustAnswer(c, kind)) \/ Fail(c)
        \/ disk' = RemoveAll(disk, p)
    BY <1>11, Zenon DEF RemoveDir
  <2>3. q # p /\ q \notin Below(p)
    BY <2>1 DEF Affected
  <2> HIDE DEF p, e
  <2> QED BY <1>2, <1>3, <1>5, <2>2, <2>3 DEF RemoveAll
<1> QED BY <1>6, <1>7, <1>8, <1>9, <1>10, <1>11 DEF Serve

\* A handler that is cut off leaves at least the files' times as they are.
LEMMA CrashKeepsFiles ==
  ASSUME ServerOK, NEW c \in Conn, CrashInHandler(c), NEW q \in Path, IsFile(disk, q),
         q \notin Affected(Head(c2s[c]))
  PROVE  disk'[q] = disk[q]
<1> DEFINE p == Head(c2s[c]).path
           e == Head(c2s[c]).entry
           op == Head(c2s[c]).op
<1>1. disk \in Tree /\ WellFormed(disk) /\ NetTypeOK
  BY ServerFacts
<1>2. c2s[c] # <<>> /\ CutOff(c)
  BY CrashCuts DEF CutOff
<1>3. p \in Path /\ e \in Entry
  BY <1>1, <1>2, HeadRequest
<1>4. q # p /\ (op = "RMD" => q \notin Below(p))
  BY DEF Affected
<1>5. ASSUME NEW tree, NEW Q, NEW t \in Time, tree[q] = disk[q] PROVE Touch(tree, Q, t)[q] = disk[q]
  BY <1>5 DEF Touch, IsFile, IsDir, Exists
<1>6. ASSUME NEW Q, Q \in SUBSET Path, NEW t \in Time PROVE CreateDirectories(disk, Q, t)[q] = disk[q]
  BY <1>1, <1>6, OnlyTouched DEF IsFile, IsDir, Exists
<1>7. ASSUME NEW a \in Ancestors[p] \cup {p}, NEW t \in Time PROVE Made(a, t)[q] = disk[q]
  <2>1. Ancestors[a] \cup {a} \in SUBSET Path
    BY <1>3, <1>7, AncestorsArePaths
  <2> QED BY <1>6, <2>1 DEF Made
<1>8. ASSUME NEW t \in Time, disk' \in {Stored(p, e, t), Touch(Stored(p, e, t), Parent(p), t)} PROVE disk'[q] = disk[q]
  <2> HIDE DEF p, e
  <2>1. Ancestors[p] \in SUBSET Path
    BY <1>3, AncestorsArePaths
  <2>2. WithParents(p, t)[q] = disk[q]
    BY <1>6, <2>1 DEF WithParents
  <2>3. Stored(p, e, t)[q] = disk[q]
    BY <1>1, <1>4, <2>2 DEF Stored, WithParents, CreateDirectories, Touch, Tree
  <2> QED BY <1>5, <1>8, <2>3
<1>9. ASSUME NEW t \in Time, disk' \in {[Made(p, t) EXCEPT ![p] = e], MadeDir(p, e, t)} PROVE disk'[q] = disk[q]
  <2>1. Made(p, t)[q] = disk[q]
    BY <1>7
  <2> HIDE DEF p, e
  <2>2. MadeDir(p, e, t)[q] = disk[q]
    BY <1>4, <2>1 DEF MadeDir, KeepParentTime
  <2>3. [Made(p, t) EXCEPT ![p] = e][q] = disk[q]
    BY <1>1, <1>4, <2>1 DEF Made, CreateDirectories, Touch, Tree
  <2> QED BY <1>9, <2>2, <2>3
<1>10. ASSUME NEW t \in Time, NEW R \in SUBSET ({p} \cup Below(p)), op = "RMD" \/ R = {p}, disk' = Without(R, t)
       PROVE  disk'[q] = disk[q]
  <2>1. q \notin R
    BY <1>4, <1>10
  <2> QED BY <1>5, <1>10, <2>1 DEF Without
<1> QED BY <1>2, <1>7, <1>8, <1>9, <1>10 DEF CutOff

\* A step of the server or of the network leaves what is due.
LEMMA OtherSideDates ==
  ASSUME UNCHANGED <<watcherVars, clientVars>>, DirsDated, outOfStep => outOfStep',
         \A p \in Path : \A t \in Time :
            /\ ~outOfStep' /\ Exposed(p)' /\ Acknowledged(p)' /\ ~HoldsFolders(p)
            /\ crashes' = 0 \/ IsFile(known, p)
            /\ DueTime(p, t)
            => disk'[p].lwt = t
  PROVE  Dated' /\ DirsDated'
<1>1. UNCHANGED <<window, cur, queue, known, folder, flipped, excused, clientDb, pc>>
  BY DEF watcherVars, clientVars
<1>2. Coming' = Coming
  BY <1>1 DEF Coming
<1>3. \A p : DueKept(p)
  BY <1>1, <1>2, SameDue
<1>4. Dated'
  <2> SUFFICES ASSUME ~outOfStep', NEW p \in Path, Exposed(p)', Acknowledged(p)', ~HoldsFolders(p),
                      crashes' = 0 \/ IsFile(known', p), NEW t \in Time, DueTime(p, t)'
               PROVE  disk'[p].lwt = t
    BY DEF Dated, HoldsFolders, Below, IsFile, Exists
  <2>1. DueTime(p, t) /\ (crashes' = 0 \/ IsFile(known, p))
    BY <1>1, <1>3 DEF DueKept
  <2> QED BY <2>1
<1>5. DirsDated'
  BY <1>1, <1>3 DEF DirsDated, DueKept, IsDir, Exists, Out
<1> QED BY <1>4, <1>5

\* What is exposed exists on the server.
LEMMA ExposedIsThere ==
  ASSUME Saved, ~outOfStep, NEW p \in Path, Exposed(p), Acknowledged(p)
  PROVE  Exists(disk, p) /\ (IsFile(known, p) => IsFile(disk, p))
BY DEF Saved, Backed, Exposed, SameContent, IsFile, Exists

\* Nothing of p is told, and nothing of it is changed.
LEMMA TheSameDates ==
  ASSUME ClientOK, UNCHANGED <<watcherVars, clientVars>>, Dated, DirsDated, outOfStep => outOfStep',
         conn # NoConn => s2c'[conn] = s2c[conn], crashes' = 0 => crashes = 0,
         \A p \in Path : /\ ~outOfStep /\ Exposed(p) /\ Acknowledged(p) /\ ~HoldsFolders(p)
                         /\ crashes' = 0 \/ IsFile(known, p)
                         => disk'[p] = disk[p]
  PROVE  Dated' /\ DirsDated'
<1> SUFFICES ASSUME NEW p \in Path, NEW t \in Time, ~outOfStep', Exposed(p)', Acknowledged(p)', ~HoldsFolders(p),
                    crashes' = 0 \/ IsFile(known, p), DueTime(p, t)
             PROVE  disk'[p].lwt = t
  BY OtherSideDates
<1>1. Exposed(p) /\ Acknowledged(p)
  BY TheSameCalm
<1>2. disk'[p] = disk[p] /\ (crashes = 0 \/ IsFile(known, p))
  BY <1>1
<1> QED BY <1>1, <1>2 DEF Dated

LEMMA ServerDates ==
  ASSUME NEW s, Conn = {s}, KindsFixed, IInv, AllOfTheirKind, InOrder, SessionKnowsDisk,
         SessionKnowsDisk', Saved, Dated, DirsDated, NEW c \in Conn, Server(c)
  PROVE  Dated' /\ DirsDated'
<1>1. /\ Serve(c) /\ UNCHANGED <<watcherVars, clientVars>>
      /\ ServerOK /\ ClientOK /\ Stale /\ RemovedAway /\ RequestKinds /\ OfItsKind(disk)
  BY InvariantParts DEF Server, IInv, Saved, AllOfTheirKind
<1>2. (outOfStep => outOfStep') /\ (link[c] # "open" => s2c' = s2c)
  <2>1. UNCHANGED clientVars
    BY <1>1
  <2> QED BY <1>1, <2>1, ServeReads
<1>3. conn \in Conn \cup {NoConn} /\ c2s[c] \in Seq(Request)
  BY <1>1, ClientFacts
<1>4. crashes' = crashes
  BY <1>1, Zenon DEF Serve, RecoverFromDB, Reject, EndSession, Probe, StoreFile, RemoveFile, MakeDir, RemoveDir,
     NothingThere, JustAnswer, Answer, Fail, serverVars
<1>5. ASSUME NEW p \in Path, ~outOfStep, Exposed(p), Acknowledged(p), ~HoldsFolders(p)
      PROVE  disk'[p] = disk[p]
  <2>1. Exists(disk, p)
    BY <1>5, ExposedIsThere
  <2>2. ASSUME c2s[c] # <<>>, p \in Affected(Head(c2s[c])) PROVE FALSE
    <3>1. 1 \in DOMAIN c2s[c] /\ Head(c2s[c]) = c2s[c][1]
      BY <1>3, <2>2
    <3> QED BY <1>1, <1>5, <2>2, <3>1, AllUnexposed
  <2> QED BY <1>1, <1>5, <2>1, <2>2, HandlersKeepTimes
<1>6. CASE s2c' = s2c \/ conn # c
  <2>1. conn # NoConn => s2c'[conn] = s2c[conn]
    BY <1>3, <1>6
  <2> QED BY <1>1, <1>2, <1>4, <1>5, <2>1, TheSameDates
<1>7. CASE outOfStep
  BY <1>2, <1>7 DEF Dated, DirsDated
<1>8. CASE s2c' # s2c /\ conn = c /\ ~outOfStep
  <2>1. link[c] = "open"
    BY <1>2, <1>8
  <2>2. serverUp
    BY <1>1, Zenon DEF Serve, RecoverFromDB, Reject, EndSession, Probe, StoreFile, RemoveFile, MakeDir,
       RemoveDir, Handling
  <2>3. recovered[c] => Knows(elements[c], disk)
    <3>1. link[c] # "none"
      BY <2>1
    <3> QED BY <2>2, <3>1 DEF SessionKnowsDisk, Knows
  <2>4. c2s[c] # <<>> /\ Does(c)
    BY <1>1, <1>8, <2>1, <2>3, HandlersDo
  <2>5. conn # NoConn
    BY <1>8, NetAssumption
  <2> SUFFICES ASSUME NEW p \in Path, NEW t \in Time, ~outOfStep', Exposed(p)', Acknowledged(p)',
                      ~HoldsFolders(p), crashes' = 0 \/ IsFile(known, p), DueTime(p, t)
               PROVE  disk'[p].lwt = t
    BY <1>1, <1>2, OtherSideDates
  <2>6. \/ Exposed(p) /\ Acknowledged(p)
        \/ \E i \in DOMAIN Coming :
              /\ Coming[i].path = p /\ IsLast(Coming, i) /\ Exists(elements'[c], p)
              /\ elements'[c][p].lwt = Coming[i].entry.lwt
              /\ serverUp' /\ recovered'[c] /\ link'[c] = "open"
    <3>1. UNCHANGED <<watcherVars, clientVars>> /\ link[conn] = "open" /\ c2s[conn] # <<>> /\ Does(conn)
      BY <1>1, <1>8, <2>1, <2>4
    <3> QED BY <1>8, <2>5, <3>1, ReplyExposes
  <2>7. CASE Exposed(p) /\ Acknowledged(p)
    <3>1. disk'[p] = disk[p]
      BY <1>5, <1>8, <2>7
    <3> QED BY <1>4, <1>8, <2>7, <3>1 DEF Dated
  <2>8. CASE \E i \in DOMAIN Coming :
              /\ Coming[i].path = p /\ IsLast(Coming, i) /\ Exists(elements'[c], p)
              /\ elements'[c][p].lwt = Coming[i].entry.lwt
              /\ serverUp' /\ recovered'[c] /\ link'[c] = "open"
    <3>1. PICK i \in DOMAIN Coming :
              /\ Coming[i].path = p /\ IsLast(Coming, i) /\ Exists(elements'[c], p)
              /\ elements'[c][p].lwt = Coming[i].entry.lwt
              /\ serverUp' /\ recovered'[c] /\ link'[c] = "open"
      BY <2>8
    <3>2. PICK k \in DOMAIN Coming : IsLastOf(Coming, k, p) /\ Coming[k].entry.lwt = t
      BY <3>1 DEF DueTime, IsComing
    <3>3. k = i
      BY <1>1, <3>1, <3>2, ComingTypes DEF LineTypes, IsLastOf, IsLast
    <3>4. SameEntry(elements'[c], disk', p)
      BY <3>1 DEF SessionKnowsDisk, SameEntry, SameContent, HoldsFolders, Below, Exists
    <3>5. elements'[c][p] = disk'[p]
      BY <3>4 DEF SameEntry
    <3> QED BY <3>1, <3>2, <3>3, <3>5
  <2> QED BY <2>6, <2>7, <2>8
<1> QED BY <1>6, <1>7, <1>8

LEMMA DeathDates ==
  ASSUME IInv, InOrder, Saved, Dated, DirsDated, ServerDies
  PROVE  Dated' /\ DirsDated'
<1>1. /\ UNCHANGED <<watcherVars, clientVars, s2c, outOfStep>> /\ crashes' = crashes + 1
      /\ ServerOK /\ ClientOK /\ Stale /\ RemovedAway
  BY InvariantParts DEF ServerDies, Crash, CrashInHandler, Halt, Saved
<1>2. crashes' # 0
  <2>1. crashes \in Nat
    BY <1>1, ServerFacts DEF ServerTypeOK
  <2> QED BY <1>1, <2>1
<1>3. ASSUME NEW p \in Path, ~outOfStep, Exposed(p), Acknowledged(p), IsFile(known, p) PROVE disk'[p] = disk[p]
  <2>1. CASE Crash
    BY <2>1 DEF Crash
  <2>2. CASE \E c \in Conn : CrashInHandler(c)
    <3>1. PICK c \in Conn : CrashInHandler(c)
      BY <2>2
    <3>2. c2s[c] # <<>> /\ c2s[c] \in Seq(Request)
      BY <1>1, <3>1, ClientFacts, Zenon DEF CrashInHandler, Handling
    <3>3. 1 \in DOMAIN c2s[c] /\ Head(c2s[c]) = c2s[c][1]
      BY <3>2
    <3>4. p \notin Affected(Head(c2s[c]))
      BY <1>1, <1>3, <3>3, AllUnexposed
    <3>5. IsFile(disk, p)
      BY <1>3, ExposedIsThere
    <3> QED BY <1>1, <3>1, <3>4, <3>5, CrashKeepsFiles
  <2> QED BY <2>1, <2>2 DEF ServerDies
<1>4. UNCHANGED <<watcherVars, clientVars>> /\ (outOfStep => outOfStep') /\ (conn # NoConn => s2c'[conn] = s2c[conn])
  BY <1>1
<1> QED BY <1>1, <1>2, <1>3, <1>4, TheSameDates

LEMMA StepDates ==
  ASSUME NEW s, Conn = {s}, KindsFixed, IInv, AllOfTheirKind, ComingOfKind, InOrder, SessionKnowsDisk,
         SessionKnowsDisk', Saved, CurWaits', Dated, DirsDated, [Next]_vars
  PROVE  Dated' /\ DirsDated'
<1>1. CASE \/ Users \/ Watcher \/ WatcherFails \/ Client \/ (\E c \in Conn : Connect(c))
           \/ (Kill /\ UNCHANGED serverVars) \/ (StartClient /\ UNCHANGED serverVars) \/ ClientGivesUp
           \/ ConnectionBreaks
  BY <1>1, ClientDates
<1>2. CASE \E c \in Conn : Server(c)
  BY <1>2, ServerDates
<1>3. CASE ServerDies
  BY <1>3, DeathDates
<1>4. CASE ServerRestarts \/ UNCHANGED vars
  <2>1. UNCHANGED <<watcherVars, clientVars>> /\ UNCHANGED <<s2c, disk, crashes, outOfStep>>
    BY <1>4 DEF ServerRestarts, Restart, vars, netVars, serverVars, storeVars
  <2>2. /\ ClientOK /\ (outOfStep => outOfStep') /\ (conn # NoConn => s2c'[conn] = s2c[conn])
        /\ (crashes' = 0 => crashes = 0) /\ \A p \in Path : disk'[p] = disk[p]
    BY <2>1, InvariantParts
  <2> QED BY <2>1, <2>2, TheSameDates
<1>5. \/ Users \/ Watcher \/ WatcherFails \/ Client \/ (\E c \in Conn : Connect(c)) \/ (\E c \in Conn : Server(c))
      \/ ServerDies \/ ServerRestarts \/ ConnectionBreaks \/ UNCHANGED vars
      \/ (Kill /\ UNCHANGED serverVars) \/ (StartClient /\ UNCHANGED serverVars) \/ ClientGivesUp
  BY Zenon DEF Next, ClientRestarts
<1> QED BY <1>1, <1>2, <1>3, <1>4, <1>5

LEMMA InitDates ==
  ASSUME Init
  PROVE  Dated /\ DirsDated
<1>1. /\ folder = Initial /\ known = Initial /\ clientDb = Initial
      /\ queue = <<>> /\ window = <<>> /\ cur = <<>> /\ scan = Begin("recover", Listed(Initial))
  BY DEF Init, WatcherInit, ClientInit, NetInit, ServerInit
<1>2. DOMAIN Coming = {}
  BY <1>1 DEF Coming, Line
<1>3. \A p \in Path : ~Exposed(p)
  BY <1>1 DEF Exposed, ToRecover, Begin, Listed
<1>4. Dated
  BY <1>3 DEF Dated
<1>5. DirsDated
  BY <1>1, <1>2 DEF DirsDated, DueTime
<1> QED BY <1>4, <1>5

\* Entries are the same if type, hash and time are.
LEMMA SameParts ==
  ASSUME NEW a \in Entry, NEW b \in Entry, a.type = b.type, a.hash = b.hash, a.lwt = b.lwt
  PROVE  a = b
BY DEF Entry

LEMMA SettledIsDated ==
  ASSUME IInv, Saved, LineTells, Dated, DirsDated
  PROVE  TimesKept
<1> SUFFICES ASSUME Settled, NEW p \in Kept
             PROVE  /\ Exists(clientDb, p) /\ (crashes = 0 \/ IsFile(clientDb, p)) => SameEntry(clientDb, disk, p)
                    /\ IsDir(folder, p) => clientDb[p] = folder[p] \/ (p \in doubtful /\ ~Exists(clientDb, p))
  BY DEF TimesKept
<1>1. /\ ~outOfStep /\ p \in Path /\ p \notin excused \cup flipped /\ pc # "down" /\ known = folder
      /\ window = <<>> /\ cur = <<>> /\ queue = <<>> /\ scan.pass # "recover"
  BY DEF Kept, Settled, Saved, Resting
<1>2. DOMAIN Coming = {}
  BY <1>1 DEF Coming, Line
<1>3. ~Out(p) /\ p \notin ToRecover /\ ~IsComing(p) /\ ~Unanswered(p) /\ Acknowledged(p)
  BY <1>1, <1>2 DEF Out, ToRecover, IsComing, Unanswered, Acknowledged
<1>4. Agrees(p)
  BY <1>1, <1>3 DEF LineTells, Agreed, Rests
<1>5. clientDb \in Tree /\ known \in Tree /\ disk \in Tree
  BY InvariantParts, ServerFacts DEF ClientOK, ClientTypeOK, WatcherOK, WatcherTypeOK
<1>6. ASSUME Exists(clientDb, p)
      PROVE  /\ Exists(known, p) /\ SameContent(known, clientDb, p) /\ clientDb[p] \in Entry /\ clientDb[p].lwt \in Time
             /\ DueTime(p, clientDb[p].lwt)
  <2>1. SameContent(known, clientDb, p) /\ Exists(known, p)
    BY <1>4, <1>6 DEF Agrees, SameContent
  <2>2. clientDb[p] \in Entry
    BY <1>1, <1>5, <1>6 DEF Tree, Exists
  <2>3. clientDb[p].lwt \in Time
    BY <2>2 DEF Entry
  <2> QED BY <1>3, <1>6, <2>1, <2>2, <2>3 DEF DueTime
<1>7. ASSUME Exists(clientDb, p), crashes = 0 \/ IsFile(clientDb, p) PROVE SameEntry(clientDb, disk, p)
  <2>1. Exposed(p)
    BY <1>1, <1>3, <1>6, <1>7 DEF Exposed
  <2>2. SameContent(known, disk, p)
    BY <1>1, <1>3, <2>1 DEF Saved, Backed
  <2>3. SameContent(clientDb, disk, p)
    BY <1>6, <1>7, <2>2 DEF SameContent
  <2>4. CASE HoldsFolders(p)
    BY <2>3, <2>4 DEF SameEntry
  <2>5. CASE ~HoldsFolders(p)
    <3>1. IsFile(clientDb, p) => IsFile(known, p)
      BY <1>6, <1>7 DEF SameContent, IsFile
    <3>2. disk[p].lwt = clientDb[p].lwt
      BY <1>1, <1>3, <1>6, <1>7, <2>1, <2>5, <3>1 DEF Dated
    <3>3. disk[p] \in Entry /\ disk[p].type = clientDb[p].type /\ disk[p].hash = clientDb[p].hash
      BY <1>1, <1>5, <1>7, <2>3 DEF SameContent, Tree, Exists
    <3>4. clientDb[p] = disk[p]
      BY <1>6, <1>7, <3>2, <3>3, SameParts
    <3> QED BY <2>3, <3>4 DEF SameEntry
  <2> QED BY <2>4, <2>5
<1>8. ASSUME IsDir(folder, p), ~(p \in doubtful /\ ~Exists(clientDb, p)) PROVE clientDb[p] = folder[p]
  <2>1. IsDir(known, p) /\ Exists(known, p)
    BY <1>1, <1>8 DEF IsDir
  <2>2. Exists(clientDb, p)
    BY <1>4, <1>8, <2>1 DEF Agrees, SameContent
  <2>3. known[p].lwt = clientDb[p].lwt
    BY <1>1, <1>3, <1>6, <2>1, <2>2 DEF DirsDated
  <2>4. known[p] \in Entry /\ known[p].type = clientDb[p].type /\ known[p].hash = clientDb[p].hash
    BY <1>1, <1>5, <1>6, <2>1, <2>2 DEF SameContent, Tree, Exists
  <2>5. clientDb[p] = known[p]
    BY <1>6, <2>2, <2>3, <2>4, SameParts
  <2> QED BY <1>1, <2>5
<1> QED BY <1>7, <1>8

\* When everything is answered, the last write times on the server are those of the
\* client's database, and those of directories the folder's, in whatever order and however
\* often PROB, STOR and MKD of an element were sent: _probe sets a time that differs
\* (server/ProtocolManager.cpp:524), _storeFile and _makeDir set that of the element and
\* then their parent's again (:679, :732, :963, :968), as the removals do (:867, :1109).
\* For one session at a time, paths that do not change their kind, and a server that
\* begins with nothing the client's database does not list; a directory's time is not
\* kept once the server was killed, when it may have been in a handler.
THEOREM TimesAreKept ==
  ASSUME NEW s, Conn = {s}, KindsFixed, NothingMore
  PROVE  Spec => []TimesKept
<1> DEFINE Times == Dated /\ DirsDated
           Safe == AllOfTheirKind /\ InOrder /\ Saved
<1>1. Init => Times
  BY InitDates
<1>2. IInv /\ Safe => ComingOfKind
  BY ComingIsOfKind, InvariantParts
<1>3. IInv => CurWaits
  BY CurHasNoReply, InvariantParts
<1>4. /\ IInv /\ Safe /\ ComingOfKind /\ SessionKnowsDisk /\ SessionKnowsDisk' /\ CurWaits' /\ Times /\ [Next]_vars
      => Times'
  BY StepDates
<1>5. IInv /\ Saved /\ LineTells /\ Times => TimesKept
  BY SettledIsDated
<1>6. Spec => []Safe
  BY SavedAlways
<1>7. Spec => []SessionKnowsDisk
  BY SessionsAreRight
<1> QED BY Invariant, LineAlwaysTells, <1>1, <1>2, <1>3, <1>4, <1>5, <1>6, <1>7, PTL DEF Spec
=============================================================================
