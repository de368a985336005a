---------------------------- MODULE RetrievalProofs ----------------------------
(***************************************************************************)
(* Retrieval and the administration that precedes it, for every set of     *)
(* machines, paths and hashes, every table and backup folder to begin with *)
(* and all bounds.                                                         *)
(***************************************************************************)
EXTENDS Retrieval, FileTreeProofs, SequenceTheorems, FiniteSetTheorems,
        FunctionTheorems, WellFoundedInduction

-----------------------------------------------------------------------------
(* FlattenSeq, by induction over the natural numbers as a set.              *)
LEMMA SetInduction ==
  ASSUME NEW S \in SUBSET Nat, 0 \in S, \A n \in S : n + 1 \in S
  PROVE  S = Nat
<1> SUFFICES ASSUME S # Nat PROVE FALSE
  OBVIOUS
<1> DEFINE T == Nat \ S
<1>1. T # {} /\ T \subseteq Nat
  OBVIOUS
<1>2. \E x \in T : \A y \in T : ~(<<y, x>> \in OpToRel(<, Nat))
  <2> HIDE DEF T
  <2> QED BY <1>1, NatLessThanWellFounded, WFMin, Zenon
<1>3. PICK x \in T : \A y \in T : ~(<<y, x>> \in OpToRel(<, Nat))
  BY <1>2
<1>4. \A y \in T : ~(y < x)
  BY <1>1, <1>3, Zenon DEF OpToRel
<1>5. x # 0 /\ x - 1 \in Nat
  OBVIOUS
<1>6. x - 1 \in S
  BY <1>4, <1>5
<1>7. x - 1 + 1 \in S
  BY <1>6
<1> QED BY <1>5, <1>7

LEMMA SequenceOf ==
  ASSUME NEW S, NEW n \in Nat, NEW s \in [1 .. n -> S]
  PROVE  s \in Seq(S) /\ Len(s) = n
  OBVIOUS

\* w is s followed by t.
IsConcat(S, w, s, t) ==
    /\ w \in Seq(S) /\ Len(w) = Len(s) + Len(t) /\ Len(s) \in Nat /\ Len(t) \in Nat
    /\ DOMAIN s = 1 .. Len(s) /\ DOMAIN t = 1 .. Len(t) /\ DOMAIN w = 1 .. Len(w)
    /\ \A k \in DOMAIN s : k \in DOMAIN w /\ w[k] = s[k]
    /\ \A k \in DOMAIN t : Len(s) + k \in DOMAIN w /\ w[Len(s) + k] = t[k]
    /\ \A k \in DOMAIN w : k \notin DOMAIN s => k - Len(s) \in DOMAIN t /\ w[k] = t[k - Len(s)]

LEMMA ConcatElements ==
  \A S : \A s, t \in Seq(S) : IsConcat(S, s \o t, s, t)
<1> TAKE S
<1> TAKE s, t \in Seq(S)
<1> DEFINE w == s \o t
<1>1. /\ w \in Seq(S) /\ Len(w) = Len(s) + Len(t) /\ Len(s) \in Nat /\ Len(t) \in Nat
      /\ DOMAIN s = 1 .. Len(s) /\ DOMAIN t = 1 .. Len(t) /\ DOMAIN w = 1 .. Len(w)
      /\ \A k \in 1 .. Len(s) + Len(t) : w[k] = IF k <= Len(s) THEN s[k] ELSE t[k - Len(s)]
  BY ConcatProperties
<1> HIDE DEF w
<1>2. \A k \in DOMAIN s : k \in DOMAIN w /\ w[k] = s[k]
  BY <1>1
<1>3. ASSUME NEW k \in DOMAIN t PROVE Len(s) + k \in DOMAIN w /\ w[Len(s) + k] = t[k]
  <2>1. Len(s) + k \in 1 .. Len(s) + Len(t) /\ ~(Len(s) + k <= Len(s)) /\ Len(s) + k - Len(s) = k
    BY <1>1
  <2> QED BY <1>1, <2>1
<1>4. ASSUME NEW k \in DOMAIN w, k \notin DOMAIN s
      PROVE  k - Len(s) \in DOMAIN t /\ w[k] = t[k - Len(s)]
  BY <1>1, <1>4
<1>5. IsConcat(S, w, s, t)
  BY <1>1, <1>2, <1>3, <1>4, Zenon DEF IsConcat
<1> QED BY <1>5 DEF w

\* f adds one sequence after the other.
Adds(f, seqs) == f = [i \in 1 .. Len(seqs) |-> IF i = 1 THEN seqs[i] ELSE f[i - 1] \o seqs[i]]

LEMMA AddsExists ==
  ASSUME NEW T, NEW seqs \in Seq(Seq(T))
  PROVE  \E f : Adds(f, seqs)
<1> DEFINE Upto(g, n) == \A i \in 1 .. n : i \in 1 .. Len(seqs) =>
                            g[i] = IF i = 1 THEN seqs[i] ELSE g[i - 1] \o seqs[i]
           S == {n \in Nat : \E g \in [1 .. Len(seqs) -> Seq(T)] : Upto(g, n)}
<1>1. 0 \in S
  <2> DEFINE g == [i \in 1 .. Len(seqs) |-> <<>>]
  <2>1. g \in [1 .. Len(seqs) -> Seq(T)] /\ Upto(g, 0)
    OBVIOUS
  <2> QED BY <2>1
<1>2. ASSUME NEW n \in S PROVE n + 1 \in S
  <2>1. n \in Nat /\ \E g \in [1 .. Len(seqs) -> Seq(T)] : Upto(g, n)
    BY <1>2
  <2> HIDE DEF S
  <2>4. PICK g \in [1 .. Len(seqs) -> Seq(T)] : Upto(g, n)
    BY <2>1
  <2> DEFINE h == [i \in 1 .. Len(seqs) |->
                     IF i = n + 1 THEN (IF i = 1 THEN seqs[i] ELSE g[i - 1] \o seqs[i]) ELSE g[i]]
  <2>2. h \in [1 .. Len(seqs) -> Seq(T)]
    <3> SUFFICES ASSUME NEW i \in 1 .. Len(seqs) PROVE h[i] \in Seq(T)
      OBVIOUS
    <3>1. seqs[i] \in Seq(T)
      BY ElementOfSeq
    <3>2. i # 1 => i - 1 \in 1 .. Len(seqs)
      BY <2>1
    <3>3. i # 1 => g[i - 1] \o seqs[i] \in Seq(T)
      BY <3>1, <3>2, ConcatProperties
    <3> QED BY <3>1, <3>3
  <2>3. Upto(h, n + 1)
    <3> SUFFICES ASSUME NEW i \in 1 .. n + 1, i \in 1 .. Len(seqs)
                 PROVE  h[i] = IF i = 1 THEN seqs[i] ELSE h[i - 1] \o seqs[i]
      OBVIOUS
    <3>1. i # 1 => h[i - 1] = g[i - 1]
      BY <2>1
    <3>2. h[i] = IF i = n + 1 THEN (IF i = 1 THEN seqs[i] ELSE g[i - 1] \o seqs[i]) ELSE g[i]
      OBVIOUS
    <3>4. i # n + 1 => i \in 1 .. n
      BY <2>1
    <3>3. i # n + 1 => g[i] = IF i = 1 THEN seqs[i] ELSE g[i - 1] \o seqs[i]
      BY <2>4, <3>4, Zenon
    <3> HIDE DEF h
    <3> QED BY ONLY <3>1, <3>2, <3>3, Zenon
  <2>5. n + 1 \in Nat
    BY <2>1
  <2> HIDE DEF Upto, h
  <2> QED BY <2>2, <2>3, <2>5 DEF S
<1>3. S = Nat
  <2>1. S \in SUBSET Nat
    OBVIOUS
  <2>2. \A n \in S : n + 1 \in S
    BY <1>2
  <2> HIDE DEF S
  <2> QED BY <1>1, <2>1, <2>2, SetInduction
<1>4. PICK g \in [1 .. Len(seqs) -> Seq(T)] : Upto(g, Len(seqs))
  <2>1. Len(seqs) \in S
    <3> HIDE DEF S
    <3> QED BY <1>3
  <2> QED BY <2>1
<1> QED BY <1>4 DEF Adds

LEMMA FlattenAdds ==
  ASSUME NEW T, NEW seqs \in Seq(Seq(T))
  PROVE  /\ seqs = <<>> => FlattenSeq(seqs) = <<>>
         /\ seqs # <<>> => \E f : Adds(f, seqs) /\ FlattenSeq(seqs) = f[Len(seqs)]
<1>1. seqs = <<>> => FlattenSeq(seqs) = <<>>
  BY DEF FlattenSeq
<1>2. ASSUME seqs # <<>>
      PROVE  \E f : Adds(f, seqs) /\ FlattenSeq(seqs) = f[Len(seqs)]
  <2> DEFINE f == CHOOSE f : f = [i \in 1 .. Len(seqs) |-> IF i = 1 THEN seqs[i] ELSE f[i - 1] \o seqs[i]]
  <2>1. Adds(f, seqs)
    BY AddsExists, Zenon DEF Adds
  <2>2. FlattenSeq(seqs) = f[Len(seqs)]
    <3>1. Len(seqs) # 0
      BY <1>2
    <3> QED BY <3>1, Zenon DEF FlattenSeq
  <2> QED BY <2>1, <2>2
<1> QED BY <1>1, <1>2
\* s has the elements of the first n sequences: its k-th is the p[k]-th of the b[k]-th.
Lists(b, p, s, seqs, n) ==
    /\ \A k \in 1 .. Len(s) : /\ b[k] \in 1 .. n /\ p[k] \in 1 .. Len(seqs[b[k]])
                             /\ s[k] = seqs[b[k]][p[k]]
    /\ \A k, l \in 1 .. Len(s) : b[k] = b[l] /\ p[k] = p[l] => k = l
    /\ \A i \in 1 .. n : \A j \in 1 .. Len(seqs[i]) : \E k \in 1 .. Len(s) : b[k] = i /\ p[k] = j

LEMMA ListsAppend ==
  ASSUME NEW T, NEW seqs \in Seq(Seq(T)), NEW n \in Nat, n + 1 <= Len(seqs),
         NEW s \in Seq(T), NEW b, NEW p, Lists(b, p, s, seqs, n)
  PROVE  /\ s \o seqs[n + 1] \in Seq(T)
         /\ \E c, q : Lists(c, q, s \o seqs[n + 1], seqs, n + 1)
<1> DEFINE u == seqs[n + 1]
           w == s \o u
           c == [k \in 1 .. Len(w) |-> IF k <= Len(s) THEN b[k] ELSE n + 1]
           q == [k \in 1 .. Len(w) |-> IF k <= Len(s) THEN p[k] ELSE k - Len(s)]
<1>1. u \in Seq(T)
  BY n + 1 \in 1 .. Len(seqs), ElementOfSeq
<1>2. /\ w \in Seq(T) /\ Len(w) = Len(s) + Len(u) /\ Len(s) \in Nat /\ Len(u) \in Nat
      /\ \A k \in 1 .. Len(s) : k \in 1 .. Len(w) /\ w[k] = s[k] /\ c[k] = b[k] /\ q[k] = p[k]
      /\ \A k \in 1 .. Len(w) : k > Len(s) =>
            k - Len(s) \in 1 .. Len(u) /\ w[k] = u[k - Len(s)] /\ c[k] = n + 1 /\ q[k] = k - Len(s)
      /\ \A k \in 1 .. Len(w) : k <= Len(s) => k \in 1 .. Len(s)
  <2>1. /\ w \in Seq(T) /\ Len(w) = Len(s) + Len(u) /\ Len(s) \in Nat /\ Len(u) \in Nat
        /\ \A k \in 1 .. Len(w) : w[k] = IF k <= Len(s) THEN s[k] ELSE u[k - Len(s)]
    BY <1>1, ConcatProperties
  <2> HIDE DEF w, u
  <2>2. \A k \in 1 .. Len(s) : k \in 1 .. Len(w) /\ k <= Len(s)
    BY <2>1
  <2>3. \A k \in 1 .. Len(w) : /\ k > Len(s) => ~(k <= Len(s)) /\ k - Len(s) \in 1 .. Len(u)
                             /\ k <= Len(s) => k \in 1 .. Len(s)
    BY <2>1
  <2>4. \A k \in 1 .. Len(w) : /\ c[k] = IF k <= Len(s) THEN b[k] ELSE n + 1
                             /\ q[k] = IF k <= Len(s) THEN p[k] ELSE k - Len(s)
    OBVIOUS
  <2> HIDE DEF c, q
  <2>5. \A k \in 1 .. Len(s) : k \in 1 .. Len(w) /\ w[k] = s[k] /\ c[k] = b[k] /\ q[k] = p[k]
    BY ONLY <2>1, <2>2, <2>4
  <2>6. \A k \in 1 .. Len(w) : k > Len(s) =>
            k - Len(s) \in 1 .. Len(u) /\ w[k] = u[k - Len(s)] /\ c[k] = n + 1 /\ q[k] = k - Len(s)
    BY ONLY <2>1, <2>3, <2>4
  <2>7. \A k \in 1 .. Len(w) : k <= Len(s) => k \in 1 .. Len(s)
    BY ONLY <2>3
  <2> QED BY ONLY <2>1, <2>5, <2>6, <2>7
<1> HIDE DEF w, c, q
<1>3. /\ \A k \in 1 .. Len(s) : /\ b[k] \in 1 .. n /\ p[k] \in 1 .. Len(seqs[b[k]])
                               /\ s[k] = seqs[b[k]][p[k]]
      /\ \A k, l \in 1 .. Len(s) : b[k] = b[l] /\ p[k] = p[l] => k = l
      /\ \A i \in 1 .. n : \A j \in 1 .. Len(seqs[i]) : \E k \in 1 .. Len(s) : b[k] = i /\ p[k] = j
  BY DEF Lists
<1>4. ASSUME NEW k \in 1 .. Len(w)
      PROVE  /\ c[k] \in 1 .. n + 1 /\ q[k] \in 1 .. Len(seqs[c[k]])
             /\ w[k] = seqs[c[k]][q[k]]
  <2>1. CASE k <= Len(s)
    <3>1. k \in 1 .. Len(s)
      BY <2>1, <1>2
    <3>2. c[k] = b[k] /\ q[k] = p[k] /\ w[k] = s[k]
      BY <1>2, <3>1
    <3>3. b[k] \in 1 .. n /\ p[k] \in 1 .. Len(seqs[b[k]]) /\ s[k] = seqs[b[k]][p[k]]
      BY <1>3, <3>1
    <3>4. b[k] \in 1 .. n + 1
      BY <3>3
    <3> QED BY <3>2, <3>3, <3>4
  <2>2. CASE k > Len(s)
    <3>1. c[k] = n + 1 /\ q[k] = k - Len(s) /\ w[k] = u[k - Len(s)] /\ k - Len(s) \in 1 .. Len(u)
      BY <1>2, <2>2
    <3> QED BY <3>1
  <2> QED BY <2>1, <2>2, <1>2
<1>5. ASSUME NEW k \in 1 .. Len(w), NEW l \in 1 .. Len(w), c[k] = c[l], q[k] = q[l]
      PROVE  k = l
  <2>1. k \in 1 .. Len(s) => c[k] \in 1 .. n
    BY <1>2, <1>3
  <2>2. l \in 1 .. Len(s) => c[l] \in 1 .. n
    BY <1>2, <1>3
  <2>0. /\ k > Len(s) => c[k] = n + 1 /\ q[k] = k - Len(s)
        /\ l > Len(s) => c[l] = n + 1 /\ q[l] = l - Len(s)
        /\ k <= Len(s) => k \in 1 .. Len(s)
        /\ l <= Len(s) => l \in 1 .. Len(s)
        /\ Len(s) \in Nat
    BY ONLY <1>2, k \in 1 .. Len(w), l \in 1 .. Len(w)
  <2>3. CASE k <= Len(s) /\ l <= Len(s)
    BY <2>0, <2>3, <1>2, <1>3, <1>5
  <2>4. CASE k > Len(s) /\ l > Len(s)
    BY ONLY <2>0, <2>4, <1>5, k \in Nat, l \in Nat
  <2> QED BY ONLY <2>0, <2>1, <2>2, <2>3, <2>4, <1>5, k \in Nat, l \in Nat, n \in Nat
<1>6. ASSUME NEW i \in 1 .. n + 1, NEW j \in 1 .. Len(seqs[i])
      PROVE  \E k \in 1 .. Len(w) : c[k] = i /\ q[k] = j
  <2>1. CASE i = n + 1
    <3>1. /\ Len(s) + j \in 1 .. Len(w) /\ Len(s) + j > Len(s) /\ Len(s) + j - Len(s) = j
      BY <1>2, <2>1
    <3>2. c[Len(s) + j] = i /\ q[Len(s) + j] = j
      BY <1>2, <2>1, <3>1
    <3> QED BY <3>1, <3>2
  <2>2. CASE i # n + 1
    <3>1. i \in 1 .. n
      BY <2>2
    <3>2. PICK k \in 1 .. Len(s) : b[k] = i /\ p[k] = j
      BY <1>3, <3>1
    <3> QED BY <1>2, <3>2
  <2> QED BY <2>1, <2>2
<1>7. Lists(c, q, w, seqs, n + 1)
  BY <1>4, <1>5, <1>6 DEF Lists
<1> QED BY <1>2, <1>7 DEF w

\* What FlattenSeq returns.
LEMMA FlattenLists ==
  ASSUME NEW T, NEW seqs \in Seq(Seq(T))
  PROVE  /\ FlattenSeq(seqs) \in Seq(T)
         /\ \E b, p : Lists(b, p, FlattenSeq(seqs), seqs, Len(seqs))
<1>1. CASE seqs = <<>>
  <2>1. Lists(<<>>, <<>>, <<>>, seqs, 0)
    BY DEF Lists
  <2>2. Len(seqs) = 0 /\ <<>> \in Seq(T)
    BY <1>1
  <2>3. FlattenSeq(seqs) = <<>>
    BY <1>1, FlattenAdds
  <2> QED BY <2>1, <2>2, <2>3
<1>2. CASE seqs # <<>>
  <2>1. PICK f : Adds(f, seqs) /\ FlattenSeq(seqs) = f[Len(seqs)]
    BY <1>2, FlattenAdds
  <2> DEFINE P(n) == n \in 1 .. Len(seqs) =>
                        f[n] \in Seq(T) /\ \E b, p : Lists(b, p, f[n], seqs, n)
             S == {n \in Nat : P(n)}
  <2>2. 0 \in S
    OBVIOUS
  <2>3. ASSUME NEW n \in Nat, P(n), n + 1 \in 1 .. Len(seqs)
        PROVE  f[n + 1] \in Seq(T) /\ \E b, p : Lists(b, p, f[n + 1], seqs, n + 1)
    <3>1. CASE n = 0
      <4>1. Lists(<<>>, <<>>, <<>>, seqs, 0)
        BY DEF Lists
      <4>2. <<>> \in Seq(T)
        OBVIOUS
      <4>3. seqs[n + 1] \in Seq(T)
        BY <2>3, ElementOfSeq
      <4>4. f[n + 1] = seqs[n + 1]
        BY <2>1, <2>3, <3>1 DEF Adds
      <4>5. f[n + 1] = <<>> \o seqs[n + 1]
        BY <4>3, <4>4, ConcatEmptySeq
      <4>6. n + 1 <= Len(seqs)
        BY <2>3
      <4> QED BY <3>1, <4>1, <4>2, <4>5, <4>6, ListsAppend
    <3>2. CASE n # 0
      <4>1. n \in 1 .. Len(seqs) /\ n + 1 <= Len(seqs)
        BY <2>3, <3>2
      <4>2. f[n + 1] = f[n] \o seqs[n + 1]
        <5>1. n + 1 # 1 /\ (n + 1) - 1 = n
          BY <3>2
        <5>2. f[n + 1] = f[(n + 1) - 1] \o seqs[n + 1]
          BY <2>1, <2>3, <5>1, Zenon DEF Adds
        <5> QED BY <5>1, <5>2
      <4>3. f[n] \in Seq(T) /\ \E b, p : Lists(b, p, f[n], seqs, n)
        BY <2>3, <4>1
      <4> QED BY <4>1, <4>2, <4>3, ListsAppend
    <3> QED BY <3>1, <3>2
  <2> HIDE DEF P
  <2>4. \A n \in S : n + 1 \in S
    <3> SUFFICES ASSUME NEW n \in Nat, P(n) PROVE n + 1 \in Nat /\ P(n + 1)
      OBVIOUS
    <3>1. n + 1 \in Nat
      OBVIOUS
    <3> QED BY <2>3, <3>1, Zenon DEF P
  <2>5. S = Nat
    <3>1. S \in SUBSET Nat
      OBVIOUS
    <3> HIDE DEF S
    <3> QED BY <2>2, <2>4, <3>1, SetInduction
  <2>6. Len(seqs) \in Nat /\ Len(seqs) \in 1 .. Len(seqs)
    BY <1>2, EmptySeq
  <2>7. P(Len(seqs))
    <3>1. Len(seqs) \in S
      <4> HIDE DEF S
      <4> QED BY <2>5, <2>6
    <3> QED BY <3>1
  <2> QED BY <2>1, <2>6, <2>7 DEF P
<1> QED BY <1>1, <1>2
\* A selection of rows: all of those whose path is in Q, and no others.
Selects(some, rows, Q) ==
    /\ \A j \in DOMAIN some : some[j].path \in Q /\ \E i \in DOMAIN rows : some[j] = rows[i]
    /\ \A i \in DOMAIN rows : rows[i].path \in Q => \E j \in DOMAIN some : some[j] = rows[i]

LEMMA RowsSelected ==
  ASSUME NEW rows \in Seq(Row), NEW Q
  PROVE  /\ RowsWith(rows, Q) \in Seq(Row)
         /\ Selects(RowsWith(rows, Q), rows, Q)
         /\ OneRowEach(rows) => OneRowEach(RowsWith(rows, Q))
<1> DEFINE seqs == [i \in DOMAIN rows |-> IF rows[i].path \in Q THEN <<rows[i]>> ELSE <<>>]
           some == RowsWith(rows, Q)
<1>1. Len(rows) \in Nat /\ DOMAIN rows = 1 .. Len(rows) /\ \A i \in DOMAIN rows : rows[i] \in Row
  OBVIOUS
<1>10. ASSUME NEW i \in DOMAIN rows
       PROVE  /\ rows[i].path \in Q => (Len(seqs[i]) = 1 /\ seqs[i][1] = rows[i])
              /\ ~(rows[i].path \in Q) => Len(seqs[i]) = 0
  BY <1>1
<1>2. seqs \in Seq(Seq(Row)) /\ Len(seqs) = Len(rows)
  <2>1. \A i \in DOMAIN rows : seqs[i] \in Seq(Row)
    BY <1>1
  <2>2. seqs \in [1 .. Len(rows) -> Seq(Row)]
    BY <1>1, <2>1
  <2>3. seqs \in Seq(Seq(Row)) /\ Len(seqs) = Len(rows)
    <3> HIDE DEF seqs
    <3> QED BY <1>1, <2>2
  <2> QED BY <2>3
<1>3. some = FlattenSeq(seqs)
  BY DEF RowsWith
<1> HIDE DEF seqs, some
<1>4. /\ some \in Seq(Row)
      /\ \E b, p : Lists(b, p, some, seqs, Len(rows))
  BY <1>2, <1>3, FlattenLists
<1>5. PICK b, p : Lists(b, p, some, seqs, Len(rows))
  BY <1>4
<1>6. DOMAIN some = 1 .. Len(some) /\ Len(some) \in Nat
  BY <1>4
<1>7. ASSUME NEW j \in DOMAIN some
      PROVE  /\ b[j] \in DOMAIN rows /\ p[j] = 1 /\ some[j] = rows[b[j]] /\ rows[b[j]].path \in Q
  <2>1. b[j] \in 1 .. Len(rows) /\ p[j] \in 1 .. Len(seqs[b[j]]) /\ some[j] = seqs[b[j]][p[j]]
    BY <1>5, <1>6 DEF Lists
  <2>5. b[j] \in DOMAIN rows
    BY <1>1, <2>1
  <2>2. rows[b[j]].path \in Q
    BY <1>10, <2>1, <2>5
  <2>3. Len(seqs[b[j]]) = 1 /\ seqs[b[j]][1] = rows[b[j]]
    BY <1>10, <2>2, <2>5
  <2>4. p[j] = 1
    BY <2>1, <2>3
  <2> QED BY <1>1, <2>1, <2>2, <2>3, <2>4
<1>8. ASSUME NEW i \in DOMAIN rows, rows[i].path \in Q
      PROVE  \E j \in DOMAIN some : some[j] = rows[i]
  <2>1. i \in 1 .. Len(rows) /\ 1 \in 1 .. Len(seqs[i])
    <3>1. Len(seqs[i]) = 1
      BY <1>10, <1>8
    <3> QED BY <1>1, <3>1
  <2>2. PICK j \in 1 .. Len(some) : b[j] = i /\ p[j] = 1
    BY <1>5, <2>1 DEF Lists
  <2> QED BY <1>6, <1>7, <2>2
<1>9. ASSUME OneRowEach(rows) PROVE OneRowEach(some)
  <2> SUFFICES ASSUME NEW j \in DOMAIN some, NEW k \in DOMAIN some, some[j].path = some[k].path
               PROVE  j = k
    BY DEF OneRowEach
  <2>1. b[j] = b[k] /\ p[j] = p[k]
    BY <1>7, <1>9 DEF OneRowEach
  <2> QED BY <1>5, <1>6, <2>1 DEF Lists
<1> QED BY <1>4, <1>7, <1>8, <1>9 DEF some, Selects

\* Collect's list of the machines.
LEMMA MachinesInSequence ==
  ASSUME NEW S, IsFiniteSet(S)
  PROVE  /\ Cardinality(S) \in Nat
         /\ SetToSeq(S) \in [1 .. Cardinality(S) -> S]
         /\ \A i, j \in 1 .. Cardinality(S) : SetToSeq(S)[i] = SetToSeq(S)[j] => i = j
<1>1. Cardinality(S) \in Nat
  BY FS_CardinalityType
<1>2. \E f : f \in [1 .. Cardinality(S) -> S] /\ IsInjective(f)
  <2>1. PICK f \in Bijection(1 .. Cardinality(S), S) : TRUE
    BY FS_CardinalityType DEF ExistsBijection
  <2>2. f \in [1 .. Cardinality(S) -> S]
    BY <2>1 DEF Bijection, Injection
  <2>3. \A i, j \in 1 .. Cardinality(S) : f[i] = f[j] => i = j
    BY <2>1 DEF Bijection, Injection, IsInjective
  <2> QED BY <2>2, <2>3 DEF IsInjective
<1>3. SetToSeq(S) \in [1 .. Cardinality(S) -> S] /\ IsInjective(SetToSeq(S))
  BY <1>2 DEF SetToSeq
<1> QED BY <1>1, <1>3 DEF IsInjective
-----------------------------------------------------------------------------
(* The invariant.                                                           *)

\* The administration: removeUser comes before all other removals and is followed by
\* those of the user's data; nothing follows the start.
CommandOrder(steps) ==
    \A i \in DOMAIN steps :
        /\ steps[i] = "removeUser" =>
              /\ i + 3 <= Len(steps)
              /\ steps[i + 1] = "getAllMacAddresses" /\ steps[i + 2] = "removeAll"
              /\ steps[i + 3] = "erase"
              /\ \A j \in DOMAIN steps : j < i => steps[j] \in {"add", "update"}
        /\ steps[i] = "start" => i = Len(steps)

AllGone == \A m \in Mac : table[m] = <<>> /\ (m \in named => backup[m] = NoTree)

\* A removed user's data is gone, or a step that is still to come takes it.
Removing ==
    \/ /\ Len(todo) >= 3 /\ todo[1] = "getAllMacAddresses" /\ todo[2] = "removeAll" /\ todo[3] = "erase"
       /\ \A m \in named : table[m] # <<>> \/ backup[m] = NoTree
    \/ /\ Len(todo) >= 2 /\ todo[1] = "removeAll" /\ todo[2] = "erase"
       /\ \A m \in named : m \in macs \/ backup[m] = NoTree
    \/ /\ Len(todo) >= 1 /\ todo[1] = "erase"
       /\ \A m \in Mac : table[m] = <<>>
       /\ \A m \in named : m \in macs \/ backup[m] = NoTree

UserRemoved == password = NoPassword /\ ~interrupted => AllGone \/ Removing

AdministrationOK ==
    /\ CommandOrder(todo)
    /\ (\E i \in DOMAIN todo : todo[i] = "removeUser") => named = WithRows
    /\ program # "options" => todo = <<>>
    /\ phase # "idle" => program # "options"
    /\ UserRemoved

\* The other session has every row of Busy among its elements.
SessionOK ==
    /\ \A m \in Mac : OneRowEach(table[m])
    /\ mine # NoSession => /\ program = "serving" /\ password # NoPassword
                           /\ \A j \in DOMAIN table[Busy] : table[Busy][j].path \in mine

Working == {"look", "examine", "open", "forget"}

\* What the places of client, server and connection promise.
Places ==
    /\ phase = "idle" => request = "none" /\ down = <<>> /\ link = "open" /\ sess = "none"
    /\ phase \in {"idle", "auth"} => collected = <<>>
    /\ request # "none" => collected = <<>> /\ down = <<>>
    /\ request = "AUTH" => phase \in {"auth", "failed"}
    /\ request = "RETR" => phase \in {"receiving", "failed"}
    /\ sess \in Working => request = "none"
    /\ sess \in {"examine", "open", "forget"} => toSend # <<>>
    /\ link = "closed" => sess = "none"
    /\ link = "lost" /\ sess # "none" => down = <<>> /\ phase # "done"
    /\ phase = "done" => toSend = <<>> /\ sess \notin Working /\ down = <<>>
    /\ phase = "storing" => \/ down # <<>> /\ down[1].type = "STOR"
                            \/ down = <<>> /\ link = "lost"

SameElement(r, s) == r.mac = s.mac /\ r.path = s.path

\* toSend is the rest of what was collected.
RestOK ==
    /\ \A i, j \in DOMAIN collected : SameElement(collected[i], collected[j]) => i = j
    /\ Len(toSend) <= Len(collected)
    /\ \A k \in DOMAIN toSend : toSend[k] = collected[Len(collected) - Len(toSend) + k]

\* The i-th row was looked at, or is the one that is.
Looked(i) == i <= Len(collected) - Len(toSend)
IsCurrent(i) == i = Len(collected) - Len(toSend) + 1

RowTags == {"MKD", "STOR", "DATA"}
OfRow(n) == down[n].type \in RowTags
About(n, i) == SameElement(collected[i], down[n].row)

\* A message is about the i-th row, which was there when it was sent.
IsAbout(n, i) ==
    /\ About(n, i)
    /\ \/ Looked(i)
       \/ IsCurrent(i) /\ n = Len(down) /\ down[n].type = "STOR" /\ sess \in {"open", "none"}
    /\ down[n].type \in {"MKD", "STOR"} => down[n].row = collected[i]
    /\ collected[i].entry.type = (IF down[n].type = "MKD" THEN "directory" ELSE "file")
    /\ \A q \in Ancestors[down[n].row.path] : IsDir(backup[down[n].row.mac], q)

RowsMeant == \A n \in DOMAIN down : OfRow(n) => \E i \in DOMAIN collected : IsAbout(n, i)

\* An answer to the whole request is the last word.
LastWord == \A n \in DOMAIN down : /\ ~OfRow(n) => n = Len(down) /\ sess \notin Working
                                   /\ down[n].type = "OK" => toSend = <<>>

\* A STOR is followed by its DATA, of the same content if nobody touched the file.
StorePairs ==
    \A n \in DOMAIN down :
        down[n].type = "STOR" =>
            IF n = Len(down)
            THEN sess \in {"open", "none"} /\ (sess = "open" => down[n].row = Current)
            ELSE /\ down[n + 1].type = "DATA"
                 /\ Untouched(down[n].row) => down[n + 1].row.entry.hash = down[n].row.entry.hash

\* The messages are in the order of the rows.
InOrder ==
    \A m, n \in DOMAIN down : \A i, j \in DOMAIN collected :
        m < n /\ OfRow(m) /\ OfRow(n) /\ About(m, i) /\ About(n, j)
            => i < j \/ (i = j /\ n = m + 1 /\ down[m].type = "STOR")

MessagesOK == RowsMeant /\ LastWord /\ StorePairs /\ InOrder

\* The client can still get all of it.
Alive == phase # "failed" /\ ~(link = "lost" /\ down = <<>> /\ Active)

Due(row) == \/ Matches(row) /\ Untouched(row)
            \/ row.entry.type = "directory" /\ IsDir(backup[row.mac], row.path)

\* What the looks at the disk found still holds, if nobody touched it.
LooksOK ==
    /\ sess \in {"examine", "open"} => /\ Current.entry.type = "file"
                                       /\ Untouched(Current) => Exists(OnDisk, Current.path)
    /\ sess = "open" => (Untouched(Current) => OnDisk[Current.path].hash = Current.entry.hash)
    /\ sess = "forget" => ~Due(Current)

UnderWay(i) == \E n \in DOMAIN down : down[n].type \in {"MKD", "STOR"} /\ down[n].row = collected[i]
Landed(i) == LET row == collected[i]
             IN  IF row.entry.type = "directory"
                 THEN /\ IsDir(dest[row.mac], row.path)
                      /\ ParentsFirst(i) => dest[row.mac][row.path] = row.entry
                 ELSE dest[row.mac][row.path] = row.entry
\* It arrived, and what is still under way comes after it.
Settled(i) == /\ Landed(i)
              /\ \A n \in DOMAIN down, k \in DOMAIN collected : OfRow(n) /\ About(n, k) => i < k

\* What was looked at and is as the row says is on its way or has arrived.
DeliveryOK ==
    Alive => /\ sess = "open" => down # <<>> /\ down[Len(down)] = Msg("STOR", Current)
             /\ \A i \in DOMAIN collected : Looked(i) /\ Due(collected[i]) => UnderWay(i) \/ Settled(i)

InTable(row) == \E j \in DOMAIN table[row.mac] : table[row.mac][j].path = row.path

RowsOK == \A i \in DOMAIN collected :
             Untouched(collected[i]) =>
                /\ Looked(i) => (Matches(collected[i]) <=> InTable(collected[i]))
                /\ ~Looked(i) => InTable(collected[i])

Excused == tried # password \/ link = "lost" \/ \E i \in DOMAIN collected : ~Untouched(collected[i])
CausesOK == link = "closed" \/ (\E n \in DOMAIN down : down[n].type = "ERR") => Excused

IInv == /\ TypeOK /\ AdministrationOK /\ SessionOK /\ Places /\ RestOK /\ MessagesOK /\ LooksOK
        /\ DeliveryOK /\ RowsOK /\ CausesOK /\ FailsOnlyForCause
-----------------------------------------------------------------------------
(* The steps of a command line.                                             *)
LEMMA StepsOfOptions ==
  /\ Len(Options) = 6
  /\ StepsOf(Options[1]) = <<"add">> /\ StepsOf(Options[2]) = <<"update">>
  /\ StepsOf(Options[3]) = <<"removeUser", "getAllMacAddresses", "removeAll", "erase">>
  /\ StepsOf(Options[4]) = <<"getAllMacAddresses", "removeAll", "erase">>
  /\ StepsOf(Options[5]) = <<"removeAllOfMac", "erase">>
  /\ StepsOf(Options[6]) = <<"start">>
<1>1. /\ Len(Options) = 6
      /\ Options[1] = "add" /\ Options[2] = "update" /\ Options[3] = "remove"
      /\ Options[4] = "delete" /\ Options[5] = "deleteMac" /\ Options[6] = "start"
  BY DEF Options
<1>2. /\ StepsOf("add") = <<"add">> /\ StepsOf("update") = <<"update">> /\ StepsOf("start") = <<"start">>
      /\ StepsOf("remove") = <<"removeUser", "getAllMacAddresses", "removeAll", "erase">>
      /\ StepsOf("delete") = <<"getAllMacAddresses", "removeAll", "erase">>
      /\ StepsOf("deleteMac") = <<"removeAllOfMac", "erase">>
  BY DEF StepsOf
<1> QED BY <1>1, <1>2

LEMMA StepsOfTypes ==
  /\ <<>> \in Seq(StepNames) /\ <<"add">> \in Seq(StepNames) /\ <<"update">> \in Seq(StepNames)
  /\ <<"start">> \in Seq(StepNames) /\ <<"removeAllOfMac", "erase">> \in Seq(StepNames)
  /\ <<"getAllMacAddresses", "removeAll", "erase">> \in Seq(StepNames)
  /\ <<"removeUser", "getAllMacAddresses", "removeAll", "erase">> \in Seq(StepNames)
<1>1. /\ "add" \in StepNames /\ "update" \in StepNames /\ "start" \in StepNames
      /\ "removeUser" \in StepNames /\ "getAllMacAddresses" \in StepNames
      /\ "removeAll" \in StepNames /\ "removeAllOfMac" \in StepNames /\ "erase" \in StepNames
  BY DEF StepNames
<1>2. \A a \in StepNames : <<a>> \in Seq(StepNames)
  OBVIOUS
<1>3. \A a, b \in StepNames : <<a, b>> \in Seq(StepNames)
  OBVIOUS
<1>4. \A a, b, c \in StepNames : <<a, b, c>> \in Seq(StepNames)
  OBVIOUS
<1>5. \A a, b, c, d \in StepNames : <<a, b, c, d>> \in Seq(StepNames)
  OBVIOUS
<1>6. <<>> \in Seq(StepNames)
  OBVIOUS
<1> QED BY <1>1, <1>2, <1>3, <1>4, <1>5, <1>6, Zenon

Lacks(u, name) == \A i \in DOMAIN u : u[i] # name

LEMMA LacksAppends ==
  ASSUME NEW u \in Seq(StepNames), NEW v \in Seq(StepNames), NEW name,
         Lacks(u, name), Lacks(v, name), NEW w, w = u \o v
  PROVE  Lacks(w, name)
<1>1. IsConcat(StepNames, w, u, v)
  BY ConcatElements, Zenon
<1> QED BY <1>1, Zenon DEF IsConcat, Lacks

\* Steps that neither remove the user nor come after the start may follow.
LEMMA OrderAppends ==
  ASSUME NEW u \in Seq(StepNames), NEW v \in Seq(StepNames), CommandOrder(u),
         Lacks(u, "start"), Lacks(v, "removeUser"), Lacks(v, "start") \/ Len(v) = 1,
         NEW w, w = u \o v
  PROVE  w \in Seq(StepNames) /\ CommandOrder(w)
<1>0. IsConcat(StepNames, w, u, v)
  BY ConcatElements, Zenon
<1>1. /\ w \in Seq(StepNames) /\ Len(w) = Len(u) + Len(v) /\ Len(u) \in Nat /\ Len(v) \in Nat
      /\ DOMAIN w = 1 .. Len(w) /\ DOMAIN u = 1 .. Len(u) /\ DOMAIN v = 1 .. Len(v)
      /\ \A k \in DOMAIN u : k \in DOMAIN w /\ w[k] = u[k]
      /\ \A k \in DOMAIN w : k \notin DOMAIN u => k - Len(u) \in DOMAIN v /\ w[k] = v[k - Len(u)]
  BY <1>0, Zenon DEF IsConcat
<1>2. ASSUME NEW i \in DOMAIN w, w[i] = "removeUser"
      PROVE  /\ i + 3 <= Len(w)
             /\ w[i + 1] = "getAllMacAddresses" /\ w[i + 2] = "removeAll" /\ w[i + 3] = "erase"
             /\ \A j \in DOMAIN w : j < i => w[j] \in {"add", "update"}
  <2>1. i \in DOMAIN u /\ u[i] = "removeUser"
    BY ONLY <1>1, <1>2, Lacks(v, "removeUser"), Zenon DEF Lacks
  <2>2. /\ i + 3 <= Len(u)
        /\ u[i + 1] = "getAllMacAddresses" /\ u[i + 2] = "removeAll" /\ u[i + 3] = "erase"
        /\ \A j \in DOMAIN u : j < i => u[j] \in {"add", "update"}
    BY <2>1, Zenon DEF CommandOrder
  <2>3. ASSUME NEW j \in DOMAIN w, j < i PROVE w[j] \in {"add", "update"}
    <3>1. j \in DOMAIN u
      BY ONLY <1>1, <2>1, <2>3
    <3>2. w[j] = u[j]
      BY ONLY <1>1, <3>1
    <3> QED BY ONLY <2>2, <2>3, <3>1, <3>2
  <2>4. i + 1 \in DOMAIN u /\ i + 2 \in DOMAIN u /\ i + 3 \in DOMAIN u /\ i + 3 <= Len(w)
    BY ONLY <1>1, <2>1, <2>2
  <2>5. w[i + 1] = u[i + 1] /\ w[i + 2] = u[i + 2] /\ w[i + 3] = u[i + 3]
    BY ONLY <1>1, <2>4, Zenon
  <2> QED BY <2>2, <2>3, <2>4, <2>5
<1>3. ASSUME NEW i \in DOMAIN w, w[i] = "start" PROVE i = Len(w)
  <2>1. i - Len(u) \in DOMAIN v /\ v[i - Len(u)] = "start"
    BY ONLY <1>1, <1>3, Lacks(u, "start"), Zenon DEF Lacks
  <2>2. Len(v) = 1
    BY ONLY <2>1, Lacks(v, "start") \/ Len(v) = 1, Zenon DEF Lacks
  <2>3. i - Len(u) = 1 /\ i \in Nat
    BY ONLY <1>1, <2>1, <2>2, i \in DOMAIN w
  <2> QED BY ONLY <1>1, <2>2, <2>3
<1>4. CommandOrder(w)
  BY <1>2, <1>3, Zenon DEF CommandOrder
<1> QED BY <1>1, <1>4

LEMMA CommandLineOrder ==
  ASSUME NEW options
  PROVE  LET steps == FlattenSeq([i \in 1 .. Len(Options) |->
                          IF Options[i] \in options THEN StepsOf(Options[i]) ELSE <<>>])
         IN  steps \in Seq(StepNames) /\ CommandOrder(steps)
<1> DEFINE s == [i \in 1 .. Len(Options) |->
                          IF Options[i] \in options THEN StepsOf(Options[i]) ELSE <<>>]
<1>1. /\ s[1] \in {<<>>, <<"add">>} /\ s[2] \in {<<>>, <<"update">>}
      /\ s[3] \in {<<>>, <<"removeUser", "getAllMacAddresses", "removeAll", "erase">>}
      /\ s[4] \in {<<>>, <<"getAllMacAddresses", "removeAll", "erase">>}
      /\ s[5] \in {<<>>, <<"removeAllOfMac", "erase">>}
      /\ s[6] \in {<<>>, <<"start">>}
      /\ s = [i \in 1 .. 6 |-> s[i]]
  <2>1. \A i \in 1 .. 6 : s[i] = IF Options[i] \in options THEN StepsOf(Options[i]) ELSE <<>>
    BY StepsOfOptions
  <2>2. s = [i \in 1 .. 6 |-> s[i]]
    BY StepsOfOptions
  <2> HIDE DEF s
  <2>4. 1 \in 1 .. 6 /\ 2 \in 1 .. 6 /\ 3 \in 1 .. 6 /\ 4 \in 1 .. 6 /\ 5 \in 1 .. 6 /\ 6 \in 1 .. 6
    OBVIOUS
  <2> QED BY <2>1, <2>2, <2>4, StepsOfOptions, Zenon
<1> HIDE DEF s
<1>2. s \in Seq(Seq(StepNames)) /\ Len(s) = 6 /\ s # <<>>
  <2>1. \A i \in 1 .. 6 : i = 1 \/ i = 2 \/ i = 3 \/ i = 4 \/ i = 5 \/ i = 6
    OBVIOUS
  <2>2. \A i \in 1 .. 6 : s[i] \in Seq(StepNames)
    BY <1>1, <2>1, StepsOfTypes, Zenon
  <2>3. s \in [1 .. 6 -> Seq(StepNames)]
    BY <1>1, <2>2, Zenon
  <2>4. 6 \in Nat
    OBVIOUS
  <2>5. s \in Seq(Seq(StepNames))
    BY <2>3, <2>4, SequenceOf
  <2>6. Len(s) = 6
    BY <2>3, <2>4, SequenceOf
  <2>7. s # <<>>
    BY <2>6
  <2> QED BY <2>5, <2>6, <2>7
<1>3. PICK f : Adds(f, s) /\ FlattenSeq(s) = f[6]
  BY <1>2, FlattenAdds
<1>4. /\ f[1] = s[1] /\ f[2] = f[1] \o s[2] /\ f[3] = f[2] \o s[3]
      /\ f[4] = f[3] \o s[4] /\ f[5] = f[4] \o s[5] /\ f[6] = f[5] \o s[6]
  <2>1. \A i \in 1 .. 6 : f[i] = IF i = 1 THEN s[i] ELSE f[i - 1] \o s[i]
    BY <1>2, <1>3, Zenon DEF Adds
  <2>2. f[1] = s[1]
    BY <2>1
  <2>3. /\ 2 \in 1 .. 6 /\ 2 # 1 /\ 2 - 1 = 1 /\ 3 \in 1 .. 6 /\ 3 # 1 /\ 3 - 1 = 2
        /\ 4 \in 1 .. 6 /\ 4 # 1 /\ 4 - 1 = 3 /\ 5 \in 1 .. 6 /\ 5 # 1 /\ 5 - 1 = 4
        /\ 6 \in 1 .. 6 /\ 6 # 1 /\ 6 - 1 = 5
    OBVIOUS
  <2>4. ASSUME NEW i \in 1 .. 6, i # 1 PROVE f[i] = f[i - 1] \o s[i]
    BY <2>1, <2>4, Zenon
  <2> QED BY <2>2, <2>3, <2>4, Zenon
<1>5. /\ \A i \in 1 .. 6 : s[i] \in Seq(StepNames)
      /\ Lacks(s[1], "removeUser") /\ Lacks(s[1], "start")
      /\ Lacks(s[2], "removeUser") /\ Lacks(s[2], "start")
      /\ Lacks(s[4], "removeUser") /\ Lacks(s[4], "start")
      /\ Lacks(s[5], "removeUser") /\ Lacks(s[5], "start")
      /\ Lacks(s[6], "removeUser") /\ (Lacks(s[6], "start") \/ Len(s[6]) = 1)
  <2>1. \A i \in 1 .. 6 : s[i] \in Seq(StepNames)
    BY <1>2, ElementOfSeq
  <2>2. Lacks(s[1], "removeUser") /\ Lacks(s[1], "start")
    BY <1>1 DEF Lacks
  <2>3. Lacks(s[2], "removeUser") /\ Lacks(s[2], "start")
    BY <1>1 DEF Lacks
  <2>4. Lacks(s[4], "removeUser") /\ Lacks(s[4], "start")
    BY <1>1 DEF Lacks
  <2>5. Lacks(s[5], "removeUser") /\ Lacks(s[5], "start")
    BY <1>1 DEF Lacks
  <2>6. Lacks(s[6], "removeUser")
    BY <1>1 DEF Lacks
  <2>7. Lacks(s[6], "start") \/ Len(s[6]) = 1
    <3>1. CASE s[6] = <<>>
      BY <3>1 DEF Lacks
    <3>2. CASE s[6] = <<"start">>
      BY <3>2
    <3> QED BY <1>1, <3>1, <3>2
  <2> QED BY <2>1, <2>2, <2>3, <2>4, <2>5, <2>6, <2>7
\* What stands before the removal of the user.
<1>6. f[2] \in Seq(StepNames) /\ \A i \in DOMAIN f[2] : f[2][i] \in {"add", "update"}
  <2>1. \A i \in DOMAIN s[1] : s[1][i] \in {"add", "update"}
    BY <1>1
  <2>2. \A i \in DOMAIN s[2] : s[2][i] \in {"add", "update"}
    BY <1>1
  <2>3. s[1] \in Seq(StepNames) /\ s[2] \in Seq(StepNames)
    BY <1>5
  <2>4. f[2] = s[1] \o s[2]
    BY <1>4
  <2>5. IsConcat(StepNames, f[2], s[1], s[2])
    BY <2>3, <2>4, ConcatElements, Zenon
  <2> QED BY <2>1, <2>2, <2>5, Zenon DEF IsConcat
<1>7. f[3] \in Seq(StepNames) /\ CommandOrder(f[3]) /\ Lacks(f[3], "start")
  <2>1. CASE s[3] = <<>>
    <3>1. f[3] = f[2]
      BY <1>4, <1>6, <2>1, ConcatEmptySeq
    <3>2. \A i \in DOMAIN f[3] : f[3][i] # "removeUser" /\ f[3][i] # "start"
      BY <1>6, <3>1
    <3> QED BY <1>6, <3>1, <3>2, Zenon DEF CommandOrder, Lacks
  <2>2. CASE s[3] # <<>>
    <3> DEFINE u == f[2]
               v == <<"removeUser", "getAllMacAddresses", "removeAll", "erase">>
    <3>1. s[3] = v
      BY <1>1, <2>2
    <3>2. v \in Seq(StepNames) /\ Len(v) = 4
      BY StepsOfTypes
    <3>3. v[1] = "removeUser" /\ v[2] = "getAllMacAddresses" /\ v[3] = "removeAll" /\ v[4] = "erase"
      OBVIOUS
    <3> HIDE DEF v, u
    <3>4. /\ f[3] \in Seq(StepNames) /\ Len(f[3]) = Len(u) + 4 /\ Len(u) \in Nat
          /\ DOMAIN f[3] = 1 .. Len(f[3]) /\ DOMAIN u = 1 .. Len(u)
          /\ \A k \in DOMAIN u : f[3][k] = u[k]
          /\ \A k \in 1 .. 4 : f[3][Len(u) + k] = v[k]
      <4>1. f[3] = u \o v /\ u \in Seq(StepNames)
        BY <1>4, <1>6, <3>1 DEF u
      <4>2. IsConcat(StepNames, f[3], u, v)
        BY <3>2, <4>1, ConcatElements, Zenon
      <4> QED BY ONLY <3>2, <4>2 DEF IsConcat
    <3>5. /\ f[3][Len(u) + 1] = v[1] /\ f[3][Len(u) + 2] = v[2]
          /\ f[3][Len(u) + 3] = v[3] /\ f[3][Len(u) + 4] = v[4]
      BY <3>4
    <3>6. \A k \in DOMAIN f[3] : \/ k \in DOMAIN u /\ k <= Len(u) /\ f[3][k] = u[k]
                                \/ k = Len(u) + 1 \/ k = Len(u) + 2 \/ k = Len(u) + 3 \/ k = Len(u) + 4
      BY <3>4
    <3>7. \A k \in DOMAIN u : u[k] \in {"add", "update"}
      BY <1>6 DEF u
    <3>8. Lacks(f[3], "start")
      BY ONLY <3>3, <3>5, <3>6, <3>7 DEF Lacks
    <3>9. ASSUME NEW k \in DOMAIN f[3], f[3][k] = "removeUser"
          PROVE  k = Len(u) + 1
      BY ONLY <3>3, <3>5, <3>6, <3>7, <3>9
    <3>10. \A j \in DOMAIN f[3] : j < Len(u) + 1 => f[3][j] \in {"add", "update"}
      BY ONLY <3>4, <3>7
    <3>11. ASSUME NEW k \in DOMAIN f[3], f[3][k] = "removeUser"
           PROVE  /\ k + 3 <= Len(f[3])
                  /\ f[3][k + 1] = "getAllMacAddresses" /\ f[3][k + 2] = "removeAll"
                  /\ f[3][k + 3] = "erase"
                  /\ \A j \in DOMAIN f[3] : j < k => f[3][j] \in {"add", "update"}
      <4>1. k = Len(u) + 1
        BY <3>9, <3>11
      <4>2. k + 1 = Len(u) + 2 /\ k + 2 = Len(u) + 3 /\ k + 3 = Len(u) + 4 /\ k + 3 <= Len(f[3])
        BY ONLY <3>4, <4>1
      <4> QED BY ONLY <3>3, <3>5, <3>10, <4>1, <4>2
    <3>12. CommandOrder(f[3])
      BY ONLY <3>8, <3>11, Zenon DEF CommandOrder, Lacks
    <3> QED BY <3>4, <3>8, <3>12
  <2> QED BY <2>1, <2>2
<1>8. s[4] \in Seq(StepNames) /\ s[5] \in Seq(StepNames) /\ s[6] \in Seq(StepNames)
  BY <1>5
<1>9. f[4] \in Seq(StepNames) /\ CommandOrder(f[4]) /\ Lacks(f[4], "start")
  <2>1. f[4] = f[3] \o s[4] /\ Lacks(s[4], "removeUser") /\ Lacks(s[4], "start")
    BY <1>4, <1>5
  <2>2. Lacks(s[4], "start") \/ Len(s[4]) = 1
    BY <2>1
  <2>3. f[4] \in Seq(StepNames) /\ CommandOrder(f[4])
    BY ONLY <1>7, <1>8, <2>1, <2>2, OrderAppends
  <2>4. Lacks(f[4], "start")
    BY ONLY <1>7, <1>8, <2>1, LacksAppends
  <2> QED BY ONLY <2>1, <2>3, <2>4
<1>10. f[5] \in Seq(StepNames) /\ CommandOrder(f[5]) /\ Lacks(f[5], "start")
  <2>1. f[5] = f[4] \o s[5] /\ Lacks(s[5], "removeUser") /\ Lacks(s[5], "start")
    BY <1>4, <1>5
  <2>2. Lacks(s[5], "start") \/ Len(s[5]) = 1
    BY <2>1
  <2>3. f[5] \in Seq(StepNames) /\ CommandOrder(f[5])
    BY ONLY <1>8, <1>9, <2>1, <2>2, OrderAppends
  <2>4. Lacks(f[5], "start")
    BY ONLY <1>9, <1>8, <2>1, LacksAppends
  <2> QED BY ONLY <2>1, <2>3, <2>4
<1>11. f[6] \in Seq(StepNames) /\ CommandOrder(f[6])
  <2>1. f[6] = f[5] \o s[6] /\ Lacks(s[6], "removeUser") /\ (Lacks(s[6], "start") \/ Len(s[6]) = 1)
    BY <1>4, <1>5
  <2> QED BY ONLY <1>8, <1>10, <2>1, OrderAppends
<1> QED BY <1>3, <1>11 DEF s
-----------------------------------------------------------------------------
(* Messages, rows and the ends of sequences.                                *)
LEMMA MessageTypes ==
  /\ \A m \in Messages : /\ m.type \in {"MKD", "STOR", "DATA", "OK", "ERR"}
                         /\ m.type \in {"MKD", "STOR", "DATA"} => m.row \in MacRow
  /\ \A r \in MacRow : /\ Msg("MKD", r) \in Messages /\ Msg("STOR", r) \in Messages
                       /\ Msg("DATA", r) \in Messages
  /\ Msg("OK", NoRow) \in Messages /\ Msg("ERR", NoRow) \in Messages
  /\ \A t, r : Msg(t, r).type = t /\ Msg(t, r).row = r
  BY DEF Messages, Msg

LEMMA RowTypes ==
  /\ \A r \in MacRow : /\ r.mac \in Mac /\ r.path \in Path /\ r.entry \in Entry
                       /\ r.entry # Absent /\ r.entry.type \in {"file", "directory"}
                       /\ r.entry.hash \in Hash \cup {NoHash} /\ r.entry.lwt \in Time
                       /\ r.entry.type = "file" => r.entry.hash \in Hash
                       /\ r = [mac |-> r.mac, path |-> r.path, entry |-> r.entry]
                       /\ Ancestors[r.path] \subseteq Path
  /\ \A r \in Row : r.path \in Path /\ r.entry \in Entry /\ r = [path |-> r.path, entry |-> r.entry]
  /\ \A m \in Mac, p \in Path, e \in Entry : /\ [mac |-> m, path |-> p, entry |-> e] \in MacRow
                                             /\ [path |-> p, entry |-> e] \in Row
  /\ \A r \in MacRow, e \in Entry :
        /\ [r EXCEPT !.entry = e] \in MacRow
        /\ [r EXCEPT !.entry = e].mac = r.mac /\ [r EXCEPT !.entry = e].path = r.path
        /\ [r EXCEPT !.entry = e].entry = e
  BY EntryTypes, TreeAssumption DEF MacRow, Row

\* t is s without its first element.
IsTail(S, t, s) ==
    /\ s[1] \in S /\ Head(s) = s[1] /\ t \in Seq(S) /\ Len(t) + 1 = Len(s) /\ Len(t) \in Nat
    /\ DOMAIN t = 1 .. Len(t) /\ DOMAIN s = 1 .. Len(s)
    /\ 1 \in DOMAIN s /\ Len(s) \in Nat
    /\ \A k \in DOMAIN t : k + 1 \in DOMAIN s /\ t[k] = s[k + 1]
    /\ \A k \in DOMAIN s : k = 1 \/ (k - 1 \in DOMAIN t /\ s[k] = t[k - 1])

LEMMA TailElements ==
  \A S : \A s \in Seq(S) : s # <<>> => IsTail(S, Tail(s), s)
<1> TAKE S
<1> SUFFICES ASSUME NEW s \in Seq(S), s # <<>> PROVE IsTail(S, Tail(s), s)
  OBVIOUS
<1> DEFINE t == Tail(s)
<1>1. /\ Len(s) \in Nat /\ Len(s) # 0 /\ DOMAIN s = 1 .. Len(s)
      /\ t \in Seq(S) /\ Len(t) = Len(s) - 1 /\ Head(s) \in S /\ Head(s) = s[1]
      /\ \A k \in 1 .. Len(t) : t[k] = s[k + 1]
  <2>1. Len(s) \in Nat /\ Len(s) # 0 /\ DOMAIN s = 1 .. Len(s)
    OBVIOUS
  <2>2. t \in Seq(S) /\ Len(t) = Len(s) - 1 /\ Head(s) \in S
    OBVIOUS
  <2>3. Head(s) = s[1] /\ \A k \in 1 .. Len(t) : t[k] = s[k + 1]
    OBVIOUS
  <2> QED BY <2>1, <2>2, <2>3
<1>2. DOMAIN t = 1 .. Len(t)
  BY <1>1
<1> HIDE DEF t
<1>3. Len(t) + 1 = Len(s) /\ Len(t) \in Nat /\ 1 \in DOMAIN s
  BY <1>1
<1>4. \A k \in DOMAIN t : k + 1 \in DOMAIN s /\ t[k] = s[k + 1]
  BY <1>1, <1>2
<1>5. ASSUME NEW k \in DOMAIN s, k # 1 PROVE k - 1 \in DOMAIN t /\ s[k] = t[k - 1]
  <2>1. k - 1 \in 1 .. Len(t) /\ (k - 1) + 1 = k
    BY <1>1, <1>5
  <2> QED BY <1>1, <1>2, <2>1
<1>6. IsTail(S, t, s)
  BY <1>1, <1>2, <1>3, <1>4, <1>5, Zenon DEF IsTail
<1> QED BY <1>6 DEF t

\* w is s and m after it.
IsAppended(S, w, s, m) ==
    /\ w \in Seq(S) /\ Len(w) = Len(s) + 1 /\ w[Len(w)] = m /\ w # <<>> /\ m \in S
    /\ DOMAIN w = 1 .. Len(w) /\ DOMAIN s = 1 .. Len(s) /\ Len(s) \in Nat /\ Len(w) \in DOMAIN w
    /\ \A k \in DOMAIN s : k \in DOMAIN w /\ w[k] = s[k] /\ k # Len(w) /\ k < Len(w)
    /\ \A k \in DOMAIN w : k # Len(w) => k \in DOMAIN s

LEMMA AppendedElements ==
  \A S : \A s \in Seq(S), m \in S : IsAppended(S, s \o <<m>>, s, m)
<1> TAKE S
<1> TAKE s \in Seq(S), m \in S
<1> DEFINE w == s \o <<m>>
           o == <<m>>
<1>1. o \in Seq(S) /\ Len(o) = 1 /\ o[1] = m
  OBVIOUS
<1>2. w = s \o o
  OBVIOUS
<1> HIDE DEF w, o
<1>3. IsConcat(S, w, s, o)
  BY <1>1, <1>2, ConcatElements, Zenon
<1>4. /\ w \in Seq(S) /\ Len(w) = Len(s) + 1 /\ Len(s) \in Nat
      /\ DOMAIN w = 1 .. Len(w) /\ DOMAIN s = 1 .. Len(s)
      /\ \A k \in DOMAIN s : k \in DOMAIN w /\ w[k] = s[k]
      /\ w[Len(s) + 1] = m
  BY <1>1, <1>3 DEF IsConcat
<1>5. Len(w) \in DOMAIN w /\ w[Len(w)] = m /\ w # <<>>
  BY <1>4
<1>6. /\ \A k \in DOMAIN s : k # Len(w) /\ k < Len(w)
      /\ \A k \in DOMAIN w : k # Len(w) => k \in DOMAIN s
  BY <1>4
<1>7. IsAppended(S, w, s, m)
  BY <1>4, <1>5, <1>6, Zenon DEF IsAppended
<1> QED BY <1>7 DEF w

LEMMA SendsOne ==
  ASSUME down \in Seq(Messages), NEW m \in Messages, Sends(<<m>>)
  PROVE  /\ down' \in Seq(Messages)
         /\ link = "lost" => down' = down
         /\ link # "lost" => IsAppended(Messages, down', down, m)
<1>1. link = "lost" => down' = down
  BY DEF Sends
<1>2. link # "lost" => down' = down \o <<m>>
  BY DEF Sends
<1>3. link # "lost" => IsAppended(Messages, down', down, m)
  BY <1>2, AppendedElements, Zenon
<1> QED BY <1>1, <1>3, Zenon DEF IsAppended
-----------------------------------------------------------------------------
(* The client puts elements into the destination folder.                    *)

\* new is tree with e at p: what was there stays, and directories on the way to p keep
\* their times if all of them were there.
PutInto(new, tree, p, e) ==
    /\ new \in Tree /\ WellFormed(new) /\ new[p] = e
    /\ \A q \in Path : IsDir(tree, q) => IsDir(new, q)
    /\ \A q \in Path : q # p /\ (IsFile(tree, q) \/ q \notin Ancestors[p]) => new[q] = tree[q]
    /\ (\A a \in Ancestors[p] : IsDir(tree, a)) => \A q \in Path : q # p => new[q] = tree[q]

LEMMA TouchedTimes ==
  ASSUME NEW tree \in Tree, NEW Q, NEW t \in Time, NEW q \in Path, q \notin Q \/ ~IsDir(tree, q)
  PROVE  Touch(tree, Q, t)[q] = tree[q]
  BY DEF Touch

\* What was there keeps its entry, except a directory in which one is made.
LEMMA CreateTimes ==
  ASSUME NEW tree \in Tree, NEW Q \in SUBSET Path, NEW t \in Time, NEW q \in Path, Exists(tree, q),
         IsFile(tree, q) \/ \A r \in Q : ~Exists(tree, r) => q \notin Parent(r)
  PROVE  CreateDirectories(tree, Q, t)[q] = tree[q]
<1> DEFINE missing == {r \in Q : ~Exists(tree, r)}
           made == [r \in Path |-> IF r \in missing THEN Dir(t) ELSE tree[r]]
<1>1. made[q] = tree[q]
  OBVIOUS
<1>2. q \notin UNION {Parent(r) : r \in missing} \/ ~IsDir(made, q)
  BY <1>1 DEF IsDir, IsFile
<1>3. made \in Tree
  BY EntryTypes DEF Tree
<1>4. CreateDirectories(tree, Q, t) = Touch(made, UNION {Parent(r) : r \in missing}, t)
  BY DEF CreateDirectories
<1> HIDE DEF made, missing
<1> QED BY <1>1, <1>2, <1>3, <1>4, TouchedTimes

LEMMA WayToElement ==
  ASSUME NEW tree \in Tree, WellFormed(tree), NEW p \in Path, Reachable(tree, p)
  PROVE  /\ \A a \in Ancestors[p] : a \in Path /\ (IsDir(tree, a) \/ ~Exists(tree, a))
         /\ (\A q \in Parent(p) : Exists(tree, q)) => \A a \in Ancestors[p] : IsDir(tree, a)
<1>1. \A a \in Ancestors[p] : a \in Path /\ (IsDir(tree, a) \/ ~Exists(tree, a))
  BY TreeAssumption, EntryTypes DEF Tree, Reachable, IsFile, IsDir, Exists
<1>2. ASSUME \A q \in Parent(p) : Exists(tree, q), NEW a \in Ancestors[p]
      PROVE  IsDir(tree, a)
  <2>1. PICK q \in Parent(p) : Exists(tree, q)
    BY TreeAssumption, <1>2
  <2>2. q \in Ancestors[p] /\ Ancestors[p] \subseteq Ancestors[q] \cup {q}
    BY DEF Parent
  <2>3. CASE a = q
    BY <1>1, <2>1, <2>3
  <2>4. CASE a \in Ancestors[q]
    BY <1>1, <2>1, <2>2, <2>4 DEF WellFormed
  <2> QED BY <1>2, <2>2, <2>3, <2>4
<1> QED BY <1>1, <1>2

LEMMA MadePuts ==
  ASSUME NEW tree \in Tree, WellFormed(tree), NEW p \in Path, NEW t \in Time, Makeable(tree, p)
  PROVE  PutInto(Made(tree, p, t), tree, p, Dir(t))
<1> DEFINE Q == Ancestors[p] \cup {p}
           made == IF Exists(tree, p) THEN tree ELSE CreateDirectories(tree, Q, Now)
           put == [made EXCEPT ![p] = Dir(t)]
           new == KeepParentTime(tree, put, p)
<1>1. /\ Q \in SUBSET Path /\ Now \in Time /\ p \notin Ancestors[p] /\ p \notin Parent(p)
      /\ Dir(t) \in Entry /\ Dir(t).type = "directory"
      /\ \A q \in Path : Parent(q) \subseteq Ancestors[q] /\ q \notin Ancestors[q]
  BY TreeAssumption, RetrievalAssumption, EntryTypes, DirIsDir DEF Parent
<1>2. \A a \in Ancestors[p] : a \in Path /\ (IsDir(tree, a) \/ ~Exists(tree, a))
  BY WayToElement DEF Makeable
<1>3. IsDir(tree, p) \/ ~Exists(tree, p)
  BY EntryTypes DEF Makeable, IsFile, IsDir, Exists, Tree
<1>4. /\ made \in Tree /\ WellFormed(made)
      /\ \A q \in Path : IsDir(tree, q) => IsDir(made, q)
      /\ \A q \in Q : IsDir(made, q)
  <2>1. CASE Exists(tree, p)
    BY <1>3, <2>1 DEF WellFormed
  <2>2. CASE ~Exists(tree, p)
    <3>1. \A q \in Q : \A a \in Ancestors[q] : IsDir(tree, a) \/ (a \in Q /\ ~Exists(tree, a))
      BY TreeAssumption, <1>1, <1>2
    <3>2. made = CreateDirectories(tree, Q, Now)
      BY <2>2
    <3>3. WellFormed(made)
      BY <1>1, <3>1, <3>2, CreateWellFormed
    <3>4. /\ made \in Tree
          /\ \A q \in Path : IsDir(made, q) <=> IsDir(tree, q) \/ (q \in Q /\ ~Exists(tree, q))
      BY <1>1, <3>2, CreateKeeps
    <3> HIDE DEF made
    <3> QED BY <1>1, <1>2, <1>3, <3>3, <3>4
  <2> QED BY <2>1, <2>2
<1>5. \A q \in Path : q # p /\ (\/ IsFile(tree, q) \/ q \notin Ancestors[p]
                                \/ \A a \in Ancestors[p] : IsDir(tree, a))
                        => \/ made[q] = tree[q]
                           \/ q \in Parent(p) /\ IsDir(tree, q)
  <2> SUFFICES ASSUME NEW q \in Path, q # p,
                      \/ IsFile(tree, q) \/ q \notin Ancestors[p]
                      \/ \A a \in Ancestors[p] : IsDir(tree, a),
                      ~(q \in Parent(p) /\ IsDir(tree, q)), ~Exists(tree, p)
               PROVE  CreateDirectories(tree, Q, Now)[q] = tree[q]
    OBVIOUS
  <2>1. CASE IsFile(tree, q)
    BY <1>1, <2>1, CreateTimes DEF IsFile
  <2>2. CASE ~IsFile(tree, q) /\ Exists(tree, q)
    <3>1. IsDir(tree, q) /\ q \notin Parent(p)
      BY <2>2, EntryTypes DEF IsFile, IsDir, Exists, Tree
    <3>2. q \in Ancestors[p] => \A r \in Q : ~Exists(tree, r) => r = p
      BY <2>2 DEF IsDir
    <3>4. q \notin Ancestors[p] => \A r \in Q : q \notin Parent(r)
      BY TreeAssumption, <1>1
    <3>3. \A r \in Q : ~Exists(tree, r) => q \notin Parent(r)
      BY <3>1, <3>2, <3>4
    <3> QED BY <1>1, <2>2, <3>3, CreateTimes
  <2>3. CASE ~Exists(tree, q)
    <3>1. ~IsFile(tree, q) /\ q \notin Q
      BY <2>3 DEF IsFile, IsDir
    <3>2. ~Exists(CreateDirectories(tree, Q, Now), q)
      BY <1>1, <2>3, <3>1, CreateKeeps
    <3> QED BY <2>3, <3>2 DEF Exists
  <2> QED BY <2>1, <2>2, <2>3
<1>6. Made(tree, p, t) = new
  BY DEF Made
<1> HIDE DEF made
<1>7. put \in Tree /\ WellFormed(put)
  BY <1>1, <1>4, PutWellFormed
<1>8. put[p] = Dir(t) /\ \A q \in Path : q # p => put[q] = made[q]
  BY <1>4 DEF Tree
<1> HIDE DEF put
<1>9. \A q \in Path : IsDir(tree, q) => IsDir(put, q)
  BY <1>1, <1>4, <1>8, EntryTypes DEF IsDir, Exists
<1>10. new \in Tree /\ WellFormed(new)
  <2>1. /\ new \in Tree
        /\ \A q \in Path : /\ Exists(new, q) <=> Exists(put, q)
                           /\ IsDir(new, q) <=> IsDir(put, q)
    BY <1>7, <1>9, KeepTimeKeeps
  <2> HIDE DEF new
  <2> QED BY <1>7, <2>1, TreeAssumption DEF WellFormed
<1>11. \A q \in Path : new[q] = IF q \in Parent(p) /\ IsDir(tree, q) THEN tree[q] ELSE put[q]
  BY DEF KeepParentTime
<1> HIDE DEF new
<1>12. new[p] = Dir(t)
  BY <1>1, <1>8, <1>11
<1>13. ASSUME NEW q \in Path, IsDir(tree, q) PROVE IsDir(new, q)
  BY <1>9, <1>11, <1>13 DEF IsDir, Exists
<1>14. ASSUME NEW q \in Path, q # p,
              \/ IsFile(tree, q) \/ q \notin Ancestors[p]
              \/ \A a \in Ancestors[p] : IsDir(tree, a)
       PROVE  new[q] = tree[q]
  BY <1>5, <1>8, <1>11, <1>14
<1> QED BY <1>6, <1>10, <1>12, <1>13, <1>14 DEF PutInto

LEMMA StoredPuts ==
  ASSUME NEW tree \in Tree, WellFormed(tree), NEW p \in Path, NEW e \in Entry,
         Reachable(tree, p), ~IsDir(tree, p)
  PROVE  PutInto([WithParent(tree, p) EXCEPT ![p] = e], tree, p, e)
<1> DEFINE Q == Ancestors[p]
           made == WithParent(tree, p)
           new == [made EXCEPT ![p] = e]
<1>1. Q \in SUBSET Path /\ Now \in Time /\ p \notin Q
  BY TreeAssumption, RetrievalAssumption
<1>2. \A a \in Q : IsDir(tree, a) \/ ~Exists(tree, a)
  BY WayToElement
<1>3. /\ made \in Tree /\ WellFormed(made)
      /\ \A q \in Path : IsDir(tree, q) => IsDir(made, q)
      /\ \A a \in Q : IsDir(made, a)
      /\ ~IsDir(made, p)
      /\ \A q \in Path : q # p /\ (IsFile(tree, q) \/ q \notin Q) => made[q] = tree[q]
      /\ (\A a \in Q : IsDir(tree, a)) => made = tree
  <2>1. CASE \A q \in Parent(p) : Exists(tree, q)
    BY <2>1, WayToElement DEF WithParent
  <2>2. CASE ~\A q \in Parent(p) : Exists(tree, q)
    <3>1. \A q \in Q : \A a \in Ancestors[q] : IsDir(tree, a) \/ (a \in Q /\ ~Exists(tree, a))
      BY TreeAssumption, <1>1, <1>2
    <3>2. made = CreateDirectories(tree, Q, Now)
      BY <2>2 DEF WithParent
    <3> HIDE DEF made
    <3>3. WellFormed(made)
      BY <1>1, <3>1, <3>2, CreateWellFormed
    <3>4. /\ made \in Tree
          /\ \A q \in Path : IsDir(made, q) <=> IsDir(tree, q) \/ (q \in Q /\ ~Exists(tree, q))
      <4> HIDE DEF Q
      <4> QED BY ONLY <1>1, <3>2, CreateKeeps, tree \in Tree
    <3>5. ASSUME NEW q \in Path, IsFile(tree, q) PROVE made[q] = tree[q]
      BY <1>1, <3>2, <3>5, CreateTimes DEF IsFile
    <3>7. ASSUME NEW q \in Path, q \notin Q PROVE made[q] = tree[q]
      <4>1. CASE Exists(tree, q)
        <5>1. \A r \in Q : q \notin Parent(r)
          BY <3>7, TreeAssumption DEF Parent
        <5> HIDE DEF Q
        <5> QED BY <1>1, <3>2, <4>1, <5>1, CreateTimes
      <4>2. CASE ~Exists(tree, q)
        <5>1. ~Exists(made, q)
          BY <1>1, <3>2, <3>7, <4>2, CreateKeeps
        <5> QED BY <4>2, <5>1 DEF Exists
      <4> QED BY <4>1, <4>2
    <3>6. ~\A a \in Q : IsDir(tree, a)
      BY <2>2 DEF Parent, IsDir
    <3> QED BY <1>1, <1>2, <3>3, <3>4, <3>5, <3>6, <3>7
  <2> QED BY <2>1, <2>2
<1> HIDE DEF made
<1>4. new \in Tree /\ WellFormed(new)
  BY <1>1, <1>3, PutWellFormed
<1>5. new[p] = e /\ \A q \in Path : q # p => new[q] = made[q]
  BY <1>3 DEF Tree
<1> HIDE DEF new
<1>6. ASSUME NEW q \in Path, IsDir(tree, q) PROVE IsDir(new, q)
  <2>1. q # p
    BY <1>6
  <2> QED BY <1>3, <1>5, <1>6, <2>1 DEF IsDir, Exists
<1>7. PutInto(new, tree, p, e)
  BY <1>1, <1>3, <1>4, <1>5, <1>6 DEF PutInto
<1> QED BY <1>7 DEF new, made
-----------------------------------------------------------------------------
(* TypeOK.                                                                  *)

LEMMA AccountsUnchanged ==
  ASSUME AccountsTypeOK, UNCHANGED accountVars
  PROVE  AccountsTypeOK'
  BY DEF AccountsTypeOK, accountVars, programVars

\* TypeOK without the administration.
RetrievalTypeOK ==
    /\ phase \in {"idle", "auth", "receiving", "storing", "done", "failed"}
    /\ tried \in Password /\ wanted \subseteq Mac
    /\ dest \in [Mac -> Tree] /\ \A m \in Mac : WellFormed(dest[m])
    /\ request \in {"none", "AUTH", "RETR"}
    /\ down \in Seq(Messages) /\ link \in {"open", "lost", "closed"}
    /\ sess \in {"none", "auth", "ready", "look", "examine", "open", "forget"}
    /\ toSend \in Seq(MacRow) /\ collected \in Seq(MacRow)
    /\ mine = NoSession \/ mine \subseteq Path
    /\ pending = NoRow \/ pending \in [path : Path, entry : Entry \cup {Absent}]
    /\ edits \in 0 .. MaxEdits /\ touched \subseteq Mac \X Path

LEMMA TypeParts ==
  /\ TypeOK <=> AccountsTypeOK /\ RetrievalTypeOK
  /\ TypeOK' <=> AccountsTypeOK' /\ RetrievalTypeOK'
  BY DEF TypeOK, RetrievalTypeOK

LEMMA DestinationTypes ==
  ASSUME dest \in [Mac -> Tree], \A m \in Mac : WellFormed(dest[m]), NEW m \in Mac,
         NEW new \in Tree, WellFormed(new), dest' = [dest EXCEPT ![m] = new]
  PROVE  /\ dest' \in [Mac -> Tree] /\ \A x \in Mac : WellFormed(dest'[x])
         /\ dest'[m] = new /\ \A x \in Mac : x # m => dest'[x] = dest[x]
  OBVIOUS

\* What MakeDir and StoreData put into the destination folder.
LEMMA MakeDirPuts ==
  ASSUME TypeOK, MakeDir
  PROVE  /\ down[1].row \in MacRow /\ down # <<>> /\ down[1] = Head(down) /\ down[1].type = "MKD"
         /\ \/ /\ phase' = phase
               /\ PutInto(dest'[down[1].row.mac], dest[down[1].row.mac], down[1].row.path, Dir(down[1].row.entry.lwt))
               /\ \A x \in Mac : x # down[1].row.mac => dest'[x] = dest[x]
               /\ dest' \in [Mac -> Tree] /\ \A m \in Mac : WellFormed(dest'[m])
            \/ /\ phase' = "failed" /\ UNCHANGED dest
               /\ ~Makeable(dest[down[1].row.mac], down[1].row.path)
<1> DEFINE row == down[1].row
           tree == dest[row.mac]
<1>1. /\ down # <<>> /\ down \in Seq(Messages) /\ Head(down).type = "MKD"
      /\ dest \in [Mac -> Tree] /\ \A m \in Mac : WellFormed(dest[m])
  BY DEF TypeOK, MakeDir, Receives
<1>2. Head(down) = down[1] /\ down[1] \in Messages
  BY <1>1, TailElements DEF IsTail
<1>3. row \in MacRow
  BY <1>1, <1>2, MessageTypes
<1>4. row.mac \in Mac /\ row.path \in Path /\ row.entry.lwt \in Time /\ tree \in Tree /\ WellFormed(tree)
  BY <1>1, <1>3, RowTypes
<1>5. \/ /\ Makeable(tree, row.path) /\ UNCHANGED phase
         /\ dest' = [dest EXCEPT ![row.mac] = Made(tree, row.path, row.entry.lwt)]
      \/ ~Makeable(tree, row.path) /\ phase' = "failed" /\ UNCHANGED dest
  BY <1>2 DEF MakeDir
<1> HIDE DEF row, tree
<1>6. ASSUME Makeable(tree, row.path), UNCHANGED phase,
             dest' = [dest EXCEPT ![row.mac] = Made(tree, row.path, row.entry.lwt)]
      PROVE  /\ phase' = phase
             /\ PutInto(dest'[row.mac], dest[row.mac], row.path, Dir(row.entry.lwt))
             /\ \A x \in Mac : x # row.mac => dest'[x] = dest[x]
             /\ dest' \in [Mac -> Tree] /\ \A m \in Mac : WellFormed(dest'[m])
  <2> DEFINE new == Made(tree, row.path, row.entry.lwt)
  <2>1. PutInto(new, tree, row.path, Dir(row.entry.lwt))
    BY <1>4, <1>6, MadePuts
  <2>2. new \in Tree /\ WellFormed(new)
    BY <2>1 DEF PutInto
  <2> HIDE DEF new
  <2>3. /\ dest' \in [Mac -> Tree] /\ \A x \in Mac : WellFormed(dest'[x])
        /\ dest'[row.mac] = new /\ \A x \in Mac : x # row.mac => dest'[x] = dest[x]
    BY <1>1, <1>4, <1>6, <2>2, DestinationTypes DEF new
  <2> QED BY <1>6, <2>1, <2>3 DEF tree
<1>7. \/ /\ phase' = phase
         /\ PutInto(dest'[row.mac], dest[row.mac], row.path, Dir(row.entry.lwt))
         /\ \A x \in Mac : x # row.mac => dest'[x] = dest[x]
         /\ dest' \in [Mac -> Tree] /\ \A m \in Mac : WellFormed(dest'[m])
      \/ /\ phase' = "failed" /\ UNCHANGED dest
         /\ ~Makeable(dest[row.mac], row.path)
  BY <1>5, <1>6 DEF tree
<1> QED BY <1>1, <1>2, <1>3, <1>7 DEF row

LEMMA StoreDataPuts ==
  ASSUME TypeOK, Places, StoreData
  PROVE  /\ down[1].row \in MacRow /\ down[2].row \in MacRow /\ Len(down) >= 2
         /\ down[1].type = "STOR" /\ down[2].type = "DATA"
         /\ \/ /\ phase' = "receiving" /\ AsExpected(down[1].row, down[2].row)
               /\ PutInto(dest'[down[1].row.mac], dest[down[1].row.mac], down[1].row.path, down[1].row.entry)
               /\ \A x \in Mac : x # down[1].row.mac => dest'[x] = dest[x]
               /\ dest' \in [Mac -> Tree] /\ \A m \in Mac : WellFormed(dest'[m])
               /\ ~IsDir(dest[down[1].row.mac], down[1].row.path)
            \/ /\ phase' = "failed" /\ UNCHANGED dest
               /\ \/ ~AsExpected(down[1].row, down[2].row)
                  \/ ~Reachable(dest[down[1].row.mac], down[1].row.path)
                  \/ IsDir(dest[down[1].row.mac], down[1].row.path)
<1> DEFINE row == down[1].row
           tree == dest[row.mac]
           taken == AsExpected(row, down[2].row) /\ Reachable(tree, row.path) /\ ~IsDir(tree, row.path)
<1>1. /\ Len(down) > 1 /\ down \in Seq(Messages) /\ down[2].type = "DATA" /\ phase = "storing"
      /\ dest \in [Mac -> Tree] /\ \A m \in Mac : WellFormed(dest[m])
  BY DEF TypeOK, StoreData
<1>2. down[1] \in Messages /\ down[2] \in Messages /\ Len(down) >= 2
  BY <1>1
<1>3. down[1].type = "STOR" /\ row \in MacRow /\ down[2].row \in MacRow
  <2>1. down # <<>>
    BY <1>2
  <2>2. down[1].type = "STOR"
    BY <1>1, <2>1 DEF Places
  <2> QED BY <1>1, <1>2, <2>2, MessageTypes
<1>4. row.mac \in Mac /\ row.path \in Path /\ row.entry \in Entry /\ tree \in Tree /\ WellFormed(tree)
  BY <1>1, <1>3, RowTypes
<1>5. \/ /\ taken /\ phase' = "receiving"
         /\ dest' = [dest EXCEPT ![row.mac] = [WithParent(tree, row.path) EXCEPT ![row.path] = row.entry]]
      \/ ~taken /\ phase' = "failed" /\ UNCHANGED dest
  BY DEF StoreData
<1> HIDE DEF row, tree
<1>6. ASSUME taken, phase' = "receiving",
             dest' = [dest EXCEPT ![row.mac] = [WithParent(tree, row.path) EXCEPT ![row.path] = row.entry]]
      PROVE  /\ phase' = "receiving" /\ AsExpected(row, down[2].row)
             /\ PutInto(dest'[row.mac], dest[row.mac], row.path, row.entry)
             /\ \A x \in Mac : x # row.mac => dest'[x] = dest[x]
             /\ dest' \in [Mac -> Tree] /\ \A m \in Mac : WellFormed(dest'[m])
             /\ ~IsDir(dest[row.mac], row.path)
  <2> DEFINE new == [WithParent(tree, row.path) EXCEPT ![row.path] = row.entry]
  <2>1. PutInto(new, tree, row.path, row.entry)
    BY <1>4, <1>6, StoredPuts
  <2>2. new \in Tree /\ WellFormed(new)
    BY <2>1 DEF PutInto
  <2> HIDE DEF new
  <2>3. /\ dest' \in [Mac -> Tree] /\ \A x \in Mac : WellFormed(dest'[x])
        /\ dest'[row.mac] = new /\ \A x \in Mac : x # row.mac => dest'[x] = dest[x]
    BY <1>1, <1>4, <1>6, <2>2, DestinationTypes DEF new
  <2> QED BY <1>6, <2>1, <2>3 DEF tree
<1>7. \/ /\ phase' = "receiving" /\ AsExpected(row, down[2].row)
         /\ PutInto(dest'[row.mac], dest[row.mac], row.path, row.entry)
         /\ \A x \in Mac : x # row.mac => dest'[x] = dest[x]
         /\ dest' \in [Mac -> Tree] /\ \A m \in Mac : WellFormed(dest'[m])
         /\ ~IsDir(dest[row.mac], row.path)
      \/ /\ phase' = "failed" /\ UNCHANGED dest
         /\ \/ ~AsExpected(row, down[2].row)
            \/ ~Reachable(dest[row.mac], row.path)
            \/ IsDir(dest[row.mac], row.path)
  BY <1>5, <1>6 DEF tree
<1> QED BY <1>1, <1>2, <1>3, <1>7 DEF row

LEMMA ClientTypes ==
  ASSUME TypeOK, Places, Authenticate \/ Client
  PROVE  TypeOK'
<1> USE DEF RetrievalTypeOK
<1>1. AccountsTypeOK /\ RetrievalTypeOK
  BY TypeParts
<1> SUFFICES RetrievalTypeOK'
  <2>1. AccountsTypeOK'
    BY <1>1, AccountsUnchanged DEF Authenticate, Client, RetrieveFiles, MakeDir, StoreFile, StoreData, Retrieved, Fails
  <2> HIDE DEF RetrievalTypeOK
  <2> QED BY <2>1, TypeParts
<1>3. ASSUME down # <<>> PROVE Tail(down) \in Seq(Messages)
  BY <1>1, <1>3, TailElements DEF IsTail
<1>4. CASE Authenticate
  BY <1>1, <1>4 DEF Authenticate, otherVars, sendVars
<1>5. CASE RetrieveFiles
  BY <1>1, <1>3, <1>5 DEF RetrieveFiles, Receives, sendVars, otherVars
<1>6. CASE MakeDir
  <2>1. /\ dest' \in [Mac -> Tree] /\ \A m \in Mac : WellFormed(dest'[m])
        /\ phase' \in {phase, "failed"}
    BY <1>1, <1>6, MakeDirPuts
  <2>2. down' = Tail(down) /\ down # <<>> /\ UNCHANGED <<tried, wanted, request, link, sendVars, otherVars>>
    BY <1>6 DEF MakeDir, Receives
  <2> QED BY <1>1, <1>3, <2>1, <2>2 DEF sendVars, otherVars
<1>7. CASE StoreFile
  BY <1>1, <1>7 DEF StoreFile, netVars, sendVars, otherVars
<1>8. CASE StoreData
  <2>1. /\ dest' \in [Mac -> Tree] /\ \A m \in Mac : WellFormed(dest'[m])
        /\ phase' \in {"receiving", "failed"}
    BY <1>1, <1>8, StoreDataPuts
  <2>2. down' = Tail(Tail(down)) /\ Len(down) > 1 /\ UNCHANGED <<tried, wanted, request, link, sendVars, otherVars>>
    BY <1>8 DEF StoreData
  <2>3. down' \in Seq(Messages)
    <3>1. down # <<>>
      BY <1>1, <2>2
    <3>2. IsTail(Messages, Tail(down), down)
      BY <1>1, <3>1, TailElements
    <3>3. Tail(down) \in Seq(Messages) /\ Tail(down) # <<>>
      BY <2>2, <3>2 DEF IsTail
    <3> QED BY <2>2, <3>3, TailElements DEF IsTail
  <2> QED BY <1>1, <2>1, <2>2, <2>3 DEF sendVars, otherVars
<1>9. CASE Retrieved
  BY <1>1, <1>3, <1>9 DEF Retrieved, Receives, sendVars, otherVars
<1>10. CASE Fails
  BY <1>1, <1>10 DEF Fails, sendVars, otherVars
<1> QED BY <1>4, <1>5, <1>6, <1>7, <1>8, <1>9, <1>10 DEF Client

\* The row the server is looking at.
LEMMA CurrentRow ==
  ASSUME TypeOK, toSend # <<>>
  PROVE  /\ IsTail(MacRow, Tail(toSend), toSend)
         /\ Current = toSend[1] /\ Current \in MacRow
         /\ OnDisk \in Tree /\ WellFormed(OnDisk) /\ OnDisk = backup[Current.mac]
         /\ Exists(OnDisk, Current.path) => OnDisk[Current.path] \in Entry
<1>1. IsTail(MacRow, Tail(toSend), toSend)
  BY TailElements DEF TypeOK
<1>2. Current = toSend[1] /\ Current \in MacRow
  BY <1>1 DEF IsTail, Current
<1>3. Current.mac \in Mac /\ Current.path \in Path
  BY <1>2, RowTypes
<1>4. OnDisk = backup[Current.mac]
  BY DEF OnDisk
<1>5. OnDisk \in Tree /\ WellFormed(OnDisk)
  BY <1>3, <1>4 DEF TypeOK, AccountsTypeOK
<1>6. Exists(OnDisk, Current.path) => OnDisk[Current.path] \in Entry
  BY <1>3, <1>5 DEF Exists, Tree
<1> QED BY <1>1, <1>2, <1>4, <1>5, <1>6

\* The rows of the machines, one machine after the other.
LEMMA CollectedRows ==
  ASSUME TypeOK, \A m \in Mac : OneRowEach(table[m]), Collect
  PROVE  /\ toSend' \in Seq(MacRow) /\ collected' = toSend'
         /\ \A i \in DOMAIN collected' :
               \E j \in DOMAIN table[collected'[i].mac] :
                  table[collected'[i].mac][j] = [path |-> collected'[i].path, entry |-> collected'[i].entry]
         /\ \A i, j \in DOMAIN collected' : SameElement(collected'[i], collected'[j]) => i = j
<1> DEFINE n == Cardinality(wanted)
           mac == SetToSeq(wanted)
           Rows(m) == [j \in DOMAIN table[m] |->
                         [mac |-> m, path |-> table[m][j].path, entry |-> table[m][j].entry]]
           seqs == [i \in 1 .. n |-> Rows(mac[i])]
<1>1. IsFiniteSet(wanted) /\ wanted \subseteq Mac
  BY AccountsAssumption, FS_Subset DEF TypeOK
<1>2. /\ n \in Nat /\ mac \in [1 .. n -> wanted]
      /\ \A i, j \in 1 .. n : mac[i] = mac[j] => i = j
  BY <1>1, MachinesInSequence
<1>3. toSend' = FlattenSeq(seqs) /\ collected' = toSend'
  BY DEF Collect
<1> HIDE DEF n, mac
<1>4. \A i \in 1 .. n : mac[i] \in Mac
  BY <1>1, <1>2
<1>5. \A m \in Mac : table[m] \in Seq(Row) /\ DOMAIN table[m] = 1 .. Len(table[m]) /\ Len(table[m]) \in Nat
  BY DEF TypeOK, AccountsTypeOK
<1>6. ASSUME NEW m \in Mac PROVE Rows(m) \in Seq(MacRow) /\ Len(Rows(m)) = Len(table[m])
  <2>1. \A j \in 1 .. Len(table[m]) : table[m][j] \in Row
    BY <1>5
  <2>2. \A j \in 1 .. Len(table[m]) : [mac |-> m, path |-> table[m][j].path, entry |-> table[m][j].entry] \in MacRow
    BY <2>1, RowTypes
  <2>3. Rows(m) \in [1 .. Len(table[m]) -> MacRow]
    BY <1>5, <2>2
  <2> HIDE DEF Rows
  <2> QED BY <1>5, <2>3, SequenceOf
<1>7. \A m \in Mac : \A j \in DOMAIN table[m] :
         Rows(m)[j] = [mac |-> m, path |-> table[m][j].path, entry |-> table[m][j].entry]
  OBVIOUS
<1> HIDE DEF Rows
<1>8. seqs \in [1 .. n -> Seq(MacRow)]
  BY <1>4, <1>6
<1>9. \A i \in 1 .. n : seqs[i] = Rows(mac[i])
  OBVIOUS
<1> HIDE DEF seqs
<1>10. seqs \in Seq(Seq(MacRow)) /\ Len(seqs) = n
  BY <1>2, <1>8, SequenceOf
<1>11. toSend' \in Seq(MacRow)
  BY <1>3, <1>10, FlattenLists
<1>12. PICK b, p : Lists(b, p, collected', seqs, n)
  BY <1>3, <1>10, FlattenLists
<1>13. DOMAIN collected' = 1 .. Len(collected')
  BY <1>3, <1>11
<1>14. ASSUME NEW i \in DOMAIN collected'
       PROVE  /\ b[i] \in 1 .. n /\ mac[b[i]] \in Mac /\ p[i] \in DOMAIN table[mac[b[i]]]
              /\ collected'[i] = [mac |-> mac[b[i]], path |-> table[mac[b[i]]][p[i]].path,
                                  entry |-> table[mac[b[i]]][p[i]].entry]
  <2>1. b[i] \in 1 .. n /\ p[i] \in 1 .. Len(seqs[b[i]]) /\ collected'[i] = seqs[b[i]][p[i]]
    BY <1>12, <1>13, Zenon DEF Lists
  <2>2. mac[b[i]] \in Mac /\ seqs[b[i]] = Rows(mac[b[i]])
    BY <1>4, <1>9, <2>1
  <2>3. p[i] \in DOMAIN table[mac[b[i]]]
    BY <1>5, <1>6, <2>1, <2>2
  <2> QED BY <1>7, <2>1, <2>2, <2>3
<1>15. ASSUME NEW i \in DOMAIN collected'
       PROVE  \E j \in DOMAIN table[collected'[i].mac] :
                  table[collected'[i].mac][j] = [path |-> collected'[i].path, entry |-> collected'[i].entry]
  <2>1. table[mac[b[i]]][p[i]] \in Row
    BY <1>5, <1>14
  <2>2. table[mac[b[i]]][p[i]] = [path |-> table[mac[b[i]]][p[i]].path, entry |-> table[mac[b[i]]][p[i]].entry]
    BY <2>1, RowTypes
  <2>3. /\ collected'[i].mac = mac[b[i]] /\ collected'[i].path = table[mac[b[i]]][p[i]].path
        /\ collected'[i].entry = table[mac[b[i]]][p[i]].entry
    BY <1>14
  <2> QED BY <1>14, <2>2, <2>3
<1>16. ASSUME NEW i \in DOMAIN collected', NEW j \in DOMAIN collected', SameElement(collected'[i], collected'[j])
       PROVE  i = j
  <2>1. mac[b[i]] = mac[b[j]] /\ table[mac[b[i]]][p[i]].path = table[mac[b[j]]][p[j]].path
    BY <1>14, <1>16 DEF SameElement
  <2>2. b[i] = b[j]
    BY <1>2, <1>14, <2>1
  <2>3. p[i] = p[j]
    BY <1>14, <2>1, <2>2 DEF OneRowEach
  <2> QED BY <1>12, <1>13, <2>2, <2>3, Zenon DEF Lists
<1> QED BY <1>3, <1>11, <1>15, <1>16

LEMMA ServerTypes ==
  ASSUME TypeOK, Places, \A m \in Mac : OneRowEach(table[m]), Server
  PROVE  TypeOK'
<1> USE DEF RetrievalTypeOK
<1>1. AccountsTypeOK /\ RetrievalTypeOK
  BY TypeParts
<1>2. ASSUME UNCHANGED accountVars, RetrievalTypeOK' PROVE TypeOK'
  <2> HIDE DEF RetrievalTypeOK
  <2> QED BY <1>1, <1>2, TypeParts, AccountsUnchanged
<1>3. ASSUME sess \in {"examine", "open", "forget"} PROVE toSend # <<>>
  BY <1>3 DEF Places
<1>4. ASSUME toSend # <<>>
      PROVE  /\ Current \in MacRow /\ Tail(toSend) \in Seq(MacRow)
             /\ Exists(OnDisk, Current.path) => [Current EXCEPT !.entry = OnDisk[Current.path]] \in MacRow
  BY <1>4, CurrentRow, RowTypes DEF IsTail
<1>5. \A m \in Messages : Sends(<<m>>) => down' \in Seq(Messages)
  BY <1>1, SendsOne
<1>6. Msg("OK", NoRow) \in Messages /\ Msg("ERR", NoRow) \in Messages
  BY MessageTypes
<1>7. Closes => link' \in {"open", "lost", "closed"}
  BY DEF Closes
<1>8. CASE CheckPassword
  <2>1. UNCHANGED <<accountVars, clientVars, toSend, collected, otherVars>> /\ request' = "none"
        /\ sess' \in {"ready", "none"}
    BY <1>8 DEF CheckPassword
  <2>2. down' \in Seq(Messages) /\ link' \in {"open", "lost", "closed"}
    BY <1>1, <1>5, <1>6, <1>7, <1>8 DEF CheckPassword
  <2> QED BY <1>1, <1>2, <2>1, <2>2 DEF clientVars, otherVars
<1>9. CASE Collect
  <2>1. toSend' \in Seq(MacRow) /\ collected' = toSend'
    BY <1>9, CollectedRows
  <2>2. UNCHANGED <<accountVars, clientVars, down, link, mine, pending, edits>> /\ request' = "none"
        /\ sess' = "look" /\ touched' = {}
    BY <1>9 DEF Collect
  <2> QED BY <1>1, <1>2, <2>1, <2>2 DEF clientVars
<1>10. CASE LookAt
  <2>1. /\ Current \in MacRow /\ Tail(toSend) \in Seq(MacRow)
    BY <1>4, <1>10 DEF LookAt
  <2>2. Unchanged /\ sess' \in {"forget", "look", "examine"} /\ toSend' \in {toSend, Tail(toSend)}
        /\ (UNCHANGED down \/ Sends(<<Msg("MKD", Current)>>))
    BY <1>10 DEF LookAt
  <2>3. down' \in Seq(Messages)
    BY <1>1, <1>5, <2>1, <2>2, MessageTypes
  <2> QED BY <1>1, <1>2, <2>1, <2>2, <2>3 DEF Unchanged, clientVars, otherVars
<1>11. CASE Examine
  <2>1. Current \in MacRow
    BY <1>3, <1>4, <1>11 DEF Examine
  <2>2. Unchanged /\ sess' \in {"forget", "open"} /\ toSend' = toSend
        /\ (UNCHANGED down \/ Sends(<<Msg("STOR", Current)>>))
    BY <1>11 DEF Examine
  <2>3. down' \in Seq(Messages)
    BY <1>1, <1>5, <2>1, <2>2, MessageTypes
  <2> QED BY <1>1, <1>2, <2>1, <2>2, <2>3 DEF Unchanged, clientVars, otherVars
<1>12. CASE OpenAndSend
  <2>1. Tail(toSend) \in Seq(MacRow) /\ [Current EXCEPT !.entry = OnDisk[Current.path]] \in MacRow
    BY <1>3, <1>4, <1>12 DEF OpenAndSend
  <2>2. Unchanged /\ sess' = "look" /\ toSend' = Tail(toSend)
        /\ Sends(<<Msg("DATA", [Current EXCEPT !.entry = OnDisk[Current.path]])>>)
    BY <1>12 DEF OpenAndSend
  <2>3. down' \in Seq(Messages)
    BY <1>1, <1>5, <2>1, <2>2, MessageTypes
  <2> QED BY <1>1, <1>2, <2>1, <2>2, <2>3 DEF Unchanged, clientVars, otherVars
<1>13. CASE Forget
  <2>1. Current \in MacRow /\ Tail(toSend) \in Seq(MacRow)
    BY <1>3, <1>4, <1>13 DEF Forget
  <2>2. WithoutRow(table[Current.mac], Current.path) \in Seq(Row)
    BY <1>1, <2>1, RowTypes, RowsSelected DEF WithoutRow, AccountsTypeOK
  <2>3. table' \in [Mac -> Seq(Row)]
    BY <1>1, <1>13, <2>1, <2>2 DEF Forget, AccountsTypeOK
  <2>4. AccountsTypeOK'
    BY <1>1, <1>13, <2>3 DEF Forget, AccountsTypeOK, programVars
  <2>5. RetrievalTypeOK'
    BY <1>1, <1>13, <2>1 DEF Forget, clientVars, netVars, otherVars
  <2> HIDE DEF RetrievalTypeOK
  <2> QED BY <2>4, <2>5, TypeParts
<1>14. CASE EndOfData
  <2>1. down' \in Seq(Messages)
    BY <1>5, <1>6, <1>14 DEF EndOfData
  <2> QED BY <1>1, <1>2, <1>14, <2>1 DEF EndOfData, Unchanged, clientVars, otherVars
<1>15. CASE Vanished
  <2>1. down' \in Seq(Messages) /\ link' \in {"open", "lost", "closed"}
    BY <1>1, <1>5, <1>6, <1>7, <1>15 DEF Vanished
  <2>2. AccountsTypeOK'
    BY <1>1, <1>15 DEF Vanished, AccountsTypeOK
  <2>3. RetrievalTypeOK'
    BY <1>1, <1>15, <2>1 DEF Vanished, clientVars
  <2> HIDE DEF RetrievalTypeOK
  <2> QED BY <2>2, <2>3, TypeParts
<1>16. CASE Leave
  BY <1>1, <1>2, <1>16 DEF Leave, Unchanged, clientVars, otherVars
<1> QED BY <1>8, <1>9, <1>10, <1>11, <1>12, <1>13, <1>14, <1>15, <1>16 DEF Server

\* The rows of the other session's machine after recoverFromDB: those of the elements
\* that are there, as they are.
Recovered(rows, old, tree) ==
    /\ rows \in Seq(Row) /\ OneRowEach(rows)
    /\ \A i \in DOMAIN rows : /\ Exists(tree, rows[i].path) /\ rows[i].entry = tree[rows[i].path]
                              /\ \E j \in DOMAIN old : old[j].path = rows[i].path
    /\ \A j \in DOMAIN old : Exists(tree, old[j].path) => \E i \in DOMAIN rows : rows[i].path = old[j].path

LEMMA RecoverRows ==
  ASSUME TypeOK, OneRowEach(table[Busy]), Recover
  PROVE  /\ Recovered(table'[Busy], table[Busy], backup[Busy])
         /\ mine' = {table'[Busy][i].path : i \in DOMAIN table'[Busy]}
         /\ table' \in [Mac -> Seq(Row)] /\ \A m \in Mac : m # Busy => table'[m] = table[m]
<1> DEFINE tree == backup[Busy]
           rows == table[Busy]
           there == RowsWith(rows, Listed(tree))
           new == [i \in DOMAIN there |-> [path |-> there[i].path, entry |-> tree[there[i].path]]]
<1>1. Busy \in Mac /\ tree \in Tree /\ rows \in Seq(Row) /\ OneRowEach(rows) /\ table \in [Mac -> Seq(Row)]
  BY RetrievalAssumption DEF TypeOK, AccountsTypeOK
<1>2. table' = [table EXCEPT ![Busy] = new] /\ mine' = {there[i].path : i \in DOMAIN there}
  BY DEF Recover
<1> HIDE DEF tree, rows
<1>3. there \in Seq(Row) /\ Selects(there, rows, Listed(tree)) /\ OneRowEach(there)
  BY <1>1, RowsSelected
<1> HIDE DEF there
<1>4. \A i \in DOMAIN there : /\ there[i].path \in Path /\ tree[there[i].path] \in Entry
                              /\ Exists(tree, there[i].path)
                              /\ \E j \in DOMAIN rows : there[i] = rows[j]
  BY <1>1, <1>3, RowTypes DEF Selects, Listed, Exists, Tree
<1>5. DOMAIN there = 1 .. Len(there) /\ Len(there) \in Nat
  BY <1>3
<1>6. new \in [1 .. Len(there) -> Row]
  <2>1. \A i \in DOMAIN there : [path |-> there[i].path, entry |-> tree[there[i].path]] \in Row
    BY <1>4 DEF Row
  <2> QED BY <1>5, <2>1
<1>7. /\ \A i \in DOMAIN there : new[i].path = there[i].path /\ new[i].entry = tree[there[i].path]
      /\ DOMAIN new = DOMAIN there
  OBVIOUS
<1> HIDE DEF new
<1>8. new \in Seq(Row)
  BY <1>5, <1>6, SequenceOf
<1>9. OneRowEach(new)
  BY <1>3, <1>7 DEF OneRowEach
<1>10. \A i \in DOMAIN new : /\ Exists(tree, new[i].path) /\ new[i].entry = tree[new[i].path]
                             /\ \E j \in DOMAIN rows : rows[j].path = new[i].path
  BY <1>4, <1>7
<1>11. ASSUME NEW j \in DOMAIN rows, Exists(tree, rows[j].path)
       PROVE  \E i \in DOMAIN new : new[i].path = rows[j].path
  <2>1. rows[j].path \in Listed(tree)
    BY <1>1, <1>11, RowTypes DEF Listed
  <2>2. PICK i \in DOMAIN there : there[i] = rows[j]
    BY <1>3, <2>1 DEF Selects
  <2> QED BY <1>7, <2>2
<1>12. Recovered(new, rows, tree)
  BY <1>8, <1>9, <1>10, <1>11 DEF Recovered
<1>13. table'[Busy] = new /\ table' \in [Mac -> Seq(Row)] /\ \A m \in Mac : m # Busy => table'[m] = table[m]
  BY <1>1, <1>2, <1>8
<1>14. mine' = {table'[Busy][i].path : i \in DOMAIN table'[Busy]}
  BY <1>2, <1>7, <1>13
<1> QED BY <1>12, <1>13, <1>14 DEF rows, tree

\* The rows of the other session's machine after one of its requests.
Requested(rows, old, p, e) ==
    /\ rows \in Seq(Row) /\ OneRowEach(rows)
    /\ \A q \in Path : q # p =>
          ((\E i \in DOMAIN rows : rows[i].path = q) <=> (\E j \in DOMAIN old : old[j].path = q))
    /\ e # Absent => \A i \in DOMAIN rows : (\E j \in DOMAIN old : old[j].path = rows[i].path) \/ rows[i].path = p
    /\ e = Absent => \A i \in DOMAIN rows : rows[i].path # p /\ \E j \in DOMAIN old : old[j].path = rows[i].path

LEMMA OtherRowsRequested ==
  ASSUME TypeOK, SessionOK, OtherRows
  PROVE  /\ pending.path \in Path /\ pending.entry \in Entry \cup {Absent}
         /\ Requested(table'[Busy], table[Busy], pending.path, pending.entry)
         /\ table' \in [Mac -> Seq(Row)] /\ \A m \in Mac : m # Busy => table'[m] = table[m]
         /\ mine' = IF pending.entry = Absent THEN mine \ {pending.path} ELSE mine \cup {pending.path}
<1> DEFINE p == pending.path
           e == pending.entry
           rows == table[Busy]
           changed == [i \in DOMAIN rows |-> IF rows[i].path = p THEN [path |-> p, entry |-> e] ELSE rows[i]]
           new == IF e = Absent THEN WithoutRow(rows, p)
                  ELSE IF p \in mine THEN changed
                  ELSE Append(rows, [path |-> p, entry |-> e])
<1>1. /\ Busy \in Mac /\ rows \in Seq(Row) /\ OneRowEach(rows) /\ table \in [Mac -> Seq(Row)]
      /\ mine # NoSession /\ pending # NoRow
      /\ \A j \in DOMAIN rows : rows[j].path \in mine
  BY RetrievalAssumption DEF TypeOK, AccountsTypeOK, OtherRows, SessionOK
<1>2. p \in Path /\ e \in Entry \cup {Absent}
  BY <1>1 DEF TypeOK
<1>3. /\ table' = [table EXCEPT ![Busy] = new]
      /\ mine' = IF e = Absent THEN mine \ {p} ELSE mine \cup {p}
  BY DEF OtherRows
<1>4. DOMAIN rows = 1 .. Len(rows) /\ Len(rows) \in Nat /\ \A i \in DOMAIN rows : rows[i] \in Row /\ rows[i].path \in Path
  BY <1>1, RowTypes
<1> HIDE DEF p, e, rows
<1>5. Requested(new, rows, p, e)
  <2>1. CASE e = Absent
    <3> DEFINE some == RowsWith(rows, Path \ {p})
    <3>1. some \in Seq(Row) /\ Selects(some, rows, Path \ {p}) /\ OneRowEach(some)
      BY <1>1, RowsSelected
    <3>2. new = some
      BY <2>1 DEF WithoutRow
    <3> HIDE DEF some, new
    <3>3. \A i \in DOMAIN some : some[i].path # p /\ \E j \in DOMAIN rows : rows[j] = some[i]
      BY <3>1 DEF Selects
    <3>4. \A j \in DOMAIN rows : rows[j].path # p => \E i \in DOMAIN some : some[i] = rows[j]
      BY <1>4, <3>1 DEF Selects
    <3> QED BY <2>1, <3>1, <3>2, <3>3, <3>4 DEF Requested
  <2>2. CASE e # Absent /\ p \in mine
    <3>1. new = changed /\ [path |-> p, entry |-> e] \in Row
      <4>1. new = changed
        <5> HIDE DEF changed
        <5> QED BY <2>2
      <4>2. e \in Entry
        BY <1>2, <2>2
      <4> QED BY <1>2, <4>1, <4>2 DEF Row
    <3>2. changed \in [1 .. Len(rows) -> Row]
      BY <1>4, <3>1
    <3>3. DOMAIN changed = DOMAIN rows /\ \A i \in DOMAIN rows : changed[i].path = rows[i].path
      OBVIOUS
    <3> HIDE DEF new, changed
    <3>4. changed \in Seq(Row) /\ OneRowEach(changed)
      BY <1>1, <1>4, <3>2, <3>3, SequenceOf DEF OneRowEach
    <3> QED BY <2>2, <3>1, <3>3, <3>4 DEF Requested
  <2>3. CASE e # Absent /\ p \notin mine
    <3> DEFINE r == [path |-> p, entry |-> e]
               longer == Append(rows, r)
    <3>1. new = longer /\ r \in Row /\ r.path = p
      <4>1. new = longer
        <5> HIDE DEF changed
        <5> QED BY <2>3
      <4>2. e \in Entry
        BY <1>2, <2>3
      <4> QED BY <1>2, <4>1, <4>2 DEF Row
    <3>2. \A i \in DOMAIN rows : rows[i].path # p
      BY <1>1, <2>3
    <3> HIDE DEF new, r
    <3>3. /\ longer \in Seq(Row) /\ DOMAIN longer = 1 .. Len(rows) + 1
          /\ longer[Len(rows) + 1] = r /\ \A i \in DOMAIN rows : longer[i] = rows[i]
      BY <1>1, <1>4, <3>1
    <3> HIDE DEF longer
    <3>4. \A i \in DOMAIN longer : i \in DOMAIN rows \/ i = Len(rows) + 1
      BY <1>4, <3>3
    <3>5. OneRowEach(longer)
      BY <1>1, <3>1, <3>2, <3>3, <3>4 DEF OneRowEach
    <3>6. \A i \in DOMAIN rows : i \in DOMAIN longer
      BY <1>4, <3>3
    <3> QED BY <2>3, <3>1, <3>3, <3>4, <3>5, <3>6 DEF Requested
  <2> QED BY <2>1, <2>2, <2>3
<1> HIDE DEF new
<1>6. new \in Seq(Row)
  BY <1>5 DEF Requested
<1>7. table'[Busy] = new /\ table' \in [Mac -> Seq(Row)] /\ \A m \in Mac : m # Busy => table'[m] = table[m]
  BY <1>1, <1>3, <1>6
<1> QED BY <1>2, <1>3, <1>5, <1>7 DEF p, e, rows

\* What a request of the other session does to the folder.
EditedAt(p) ==
    /\ p \in Path /\ Changed(p) /\ ~IsDir(backup[Busy], p) /\ ~IsDir(backup'[Busy], p)
    /\ backup' \in [Mac -> Tree] /\ \A m \in Mac : WellFormed(backup'[m])
    /\ \A m \in Mac : m # Busy => backup'[m] = backup[m]
    /\ \A q \in Path : q # p => backup'[Busy][q] = backup[Busy][q]

LEMMA OtherEdits ==
  ASSUME TypeOK, OtherStores \/ OtherRemoves
  PROVE  /\ \E p \in Path : EditedAt(p)
         /\ pending' \in [path : Path, entry : Entry \cup {Absent}]
<1>1. Busy \in Mac /\ backup \in [Mac -> Tree] /\ \A m \in Mac : WellFormed(backup[m])
  BY RetrievalAssumption DEF TypeOK, AccountsTypeOK
<1>2. Now \in Time /\ Absent \notin Entry
  BY RetrievalAssumption, TreeAssumption
<1> DEFINE tree == backup[Busy]
<1>3. tree \in Tree /\ WellFormed(tree)
  BY <1>1
<1>4. ASSUME NEW p \in Path, NEW x \in Entry \cup {Absent}, ~IsDir(tree, p), Changed(p),
             x = Absent \/ ~(x.type = "directory"),
             backup' = [backup EXCEPT ![Busy][p] = x],
             WellFormed([tree EXCEPT ![p] = x])
      PROVE  EditedAt(p)
  <2> DEFINE new == [tree EXCEPT ![p] = x]
  <2>1. new \in Tree /\ new[p] = x /\ \A q \in Path : q # p => new[q] = tree[q]
    BY <1>3 DEF Tree
  <2>2. backup' = [backup EXCEPT ![Busy] = new]
    BY <1>4
  <2> HIDE DEF new, tree
  <2>3. backup'[Busy] = new /\ \A m \in Mac : m # Busy => backup'[m] = backup[m]
    BY <1>1, <2>2
  <2>4. backup' \in [Mac -> Tree] /\ \A m \in Mac : WellFormed(backup'[m])
    BY <1>1, <1>4, <2>1, <2>2 DEF new
  <2>5. ~IsDir(backup'[Busy], p)
    BY <1>4, <2>1, <2>3 DEF IsDir, Exists
  <2> QED BY <1>4, <2>1, <2>3, <2>4, <2>5 DEF EditedAt, tree
<1>5. CASE OtherStores
  <2>1. PICK p \in Path, h \in Hash :
               /\ \A q \in Ancestors[p] : IsDir(backup[Busy], q)
               /\ ~IsDir(backup[Busy], p)
               /\ backup' = [backup EXCEPT ![Busy][p] = File(h, Now)]
               /\ pending' = [path |-> p, entry |-> File(h, Now)]
               /\ Changed(p)
    BY <1>5 DEF OtherStores
  <2>2. File(h, Now) \in Entry /\ File(h, Now).type # "directory"
    BY <1>2, EntryTypes DEF File
  <2>3. WellFormed([tree EXCEPT ![p] = File(h, Now)])
    BY <1>3, <2>1, <2>2, PutWellFormed
  <2>4. EditedAt(p)
    BY <1>4, <2>1, <2>2, <2>3
  <2> QED BY <2>1, <2>2, <2>4
<1>6. CASE OtherRemoves
  <2>1. PICK p \in mine :
               /\ IsFile(backup[Busy], p)
               /\ backup' = [backup EXCEPT ![Busy][p] = Absent]
               /\ pending' = [path |-> p, entry |-> Absent]
               /\ Changed(p)
    BY <1>6 DEF OtherRemoves
  <2>2. p \in Path
    BY <1>6, <2>1 DEF OtherRemoves, TypeOK
  <2>3. WellFormed([tree EXCEPT ![p] = Absent])
    <3>1. \A q \in Path : Exists(tree, q) => p \notin Ancestors[q]
      BY <1>3, <2>1 DEF WellFormed, IsFile, IsDir
    <3>2. \A q \in Path : q # p => [tree EXCEPT ![p] = Absent][q] = tree[q]
      BY <1>3 DEF Tree
    <3>3. ~Exists([tree EXCEPT ![p] = Absent], p)
      BY <1>3, <2>2 DEF Tree, Exists
    <3> QED BY <1>3, <3>1, <3>2, <3>3, TreeAssumption DEF WellFormed, Exists, IsDir
  <2>4. ~IsDir(tree, p)
    BY <2>1 DEF IsFile, IsDir
  <2>5. EditedAt(p)
    BY <1>4, <2>1, <2>2, <2>3, <2>4
  <2> QED BY <2>1, <2>2, <2>5
<1> QED BY <1>5, <1>6

LEMMA OtherTypes ==
  ASSUME TypeOK, SessionOK, Other
  PROVE  TypeOK'
<1> USE DEF RetrievalTypeOK
<1>1. AccountsTypeOK /\ RetrievalTypeOK
  BY TypeParts
<1>2. Busy \in Mac
  BY RetrievalAssumption
<1>3. CASE Recover
  <2>1. /\ Recovered(table'[Busy], table[Busy], backup[Busy])
        /\ mine' = {table'[Busy][i].path : i \in DOMAIN table'[Busy]}
        /\ table' \in [Mac -> Seq(Row)]
    BY <1>2, <1>3, RecoverRows DEF SessionOK
  <2>2. mine' \subseteq Path
    BY <1>2, <2>1, RowTypes
  <2>3. touched' \subseteq Mac \X Path
    BY <1>1, <1>2, <1>3, RowTypes DEF Recover, AccountsTypeOK
  <2>4. AccountsTypeOK'
    BY <1>1, <1>3, <2>1 DEF Recover, AccountsTypeOK, programVars
  <2>5. RetrievalTypeOK'
    BY <1>1, <1>3, <2>2, <2>3 DEF Recover, clientVars, netVars, sendVars
  <2> HIDE DEF RetrievalTypeOK
  <2> QED BY <2>4, <2>5, TypeParts
<1>4. CASE OtherStores \/ OtherRemoves
  <2>1. pending' \in [path : Path, entry : Entry \cup {Absent}]
    BY <1>4, OtherEdits
  <2>2. PICK p \in Path : EditedAt(p)
    BY <1>4, OtherEdits
  <2>3. AccountsTypeOK'
    BY <1>1, <1>4, <2>2 DEF EditedAt, OtherStores, OtherRemoves, AccountsTypeOK, programVars
  <2>4. touched' \subseteq Mac \X Path
    BY <1>1, <1>2, <2>2 DEF EditedAt, Changed
  <2>5. edits' \in 0 .. MaxEdits
    BY <1>1, <1>4, RetrievalAssumption DEF OtherStores, OtherRemoves
  <2>6. UNCHANGED <<clientVars, netVars, sendVars, mine>>
    BY <1>4 DEF OtherStores, OtherRemoves
  <2>7. RetrievalTypeOK'
    BY <1>1, <2>1, <2>4, <2>5, <2>6 DEF clientVars, netVars, sendVars
  <2> HIDE DEF RetrievalTypeOK
  <2> QED BY <2>3, <2>7, TypeParts
<1>5. CASE OtherRows
  <2>1. /\ pending.path \in Path /\ table' \in [Mac -> Seq(Row)]
        /\ mine' = IF pending.entry = Absent THEN mine \ {pending.path} ELSE mine \cup {pending.path}
    BY <1>5, OtherRowsRequested
  <2>2. AccountsTypeOK'
    BY <1>1, <1>5, <2>1 DEF OtherRows, AccountsTypeOK, programVars
  <2>3. touched' \subseteq Mac \X Path
    BY <1>1, <1>2, <1>5, <2>1 DEF OtherRows, Changed
  <2>4. mine' \subseteq Path /\ pending' = NoRow
    BY <1>1, <1>5, <2>1 DEF OtherRows
  <2>5. RetrievalTypeOK'
    BY <1>1, <1>5, <2>3, <2>4 DEF OtherRows, clientVars, netVars, sendVars
  <2> HIDE DEF RetrievalTypeOK
  <2> QED BY <2>2, <2>5, TypeParts
<1> QED BY <1>3, <1>4, <1>5 DEF Other

LEMMA AdministrationTypes ==
  ASSUME AccountsTypeOK, Administration
  PROVE  AccountsTypeOK'
<1> USE DEF AccountsTypeOK
<1>1. WithRows \subseteq Mac
  BY DEF WithRows
<1>2. ASSUME NEW name, Step(name) PROVE Tail(todo) \in Seq(StepNames)
  BY <1>2, TailElements DEF Step, IsTail
<1>3. CASE Start
  <2>1. PICK options \in CommandLines :
               todo' = FlattenSeq([i \in 1 .. Len(Options) |->
                          IF Options[i] \in options THEN StepsOf(Options[i]) ELSE <<>>])
    BY <1>3 DEF Start
  <2>2. todo' \in Seq(StepNames)
    BY <2>1, CommandLineOrder
  <2>3. starts' \in 0 .. MaxStarts
    BY <1>3, AccountsAssumption DEF Start
  <2> QED BY <1>1, <1>3, <2>2, <2>3 DEF Start
<1>4. CASE AddUser
  <2>1. program' \in {program, "off"} /\ password' \in Password \cup {NoPassword}
        /\ UNCHANGED <<macs, table, backup, starts, crashes, named, interrupted>>
    BY <1>4 DEF AddUser, Done
  <2>2. Step("add") /\ todo' \in {Tail(todo), <<>>}
    BY <1>4 DEF AddUser, Done
  <2>3. Tail(todo) \in Seq(StepNames) /\ <<>> \in Seq(StepNames)
    BY <1>2, <2>2
  <2> QED BY <2>1, <2>2, <2>3
<1>5. CASE UpdateUser
  BY <1>2, <1>5 DEF UpdateUser, Done
<1>6. CASE RemoveUser
  BY <1>2, <1>6 DEF RemoveUser, Done
<1>7. CASE GetAllMacAddresses
  BY <1>1, <1>2, <1>7 DEF GetAllMacAddresses, Done
<1>8. \A Q : RemoveRows(Q) => table' \in [Mac -> Seq(Row)]
  BY DEF RemoveRows
<1>9. CASE RemoveAllRows
  BY <1>2, <1>8, <1>9 DEF RemoveAllRows, Done
<1>10. CASE RemoveAllOfMac
  BY <1>2, <1>8, <1>10 DEF RemoveAllOfMac, Done
<1>11. CASE Erase
  <2>1. CASE macs = {}
    BY <1>2, <1>11, <2>1 DEF Erase, Done
  <2>2. CASE macs # {}
    <3>1. PICK m \in macs : macs' = macs \ {m} /\ backup' = [backup EXCEPT ![m] = NoTree]
      BY <1>11, <2>2 DEF Erase
    <3>2. NoTree \in Tree /\ WellFormed(NoTree)
      BY DEF NoTree, Tree, WellFormed, Exists
    <3>3. backup' \in [Mac -> Tree] /\ \A x \in Mac : WellFormed(backup'[x])
      BY <3>1, <3>2
    <3> QED BY <1>11, <2>2, <3>1, <3>3 DEF Erase
  <2> QED BY <2>1, <2>2
<1>12. CASE Serve
  BY <1>2, <1>12 DEF Serve, Done
<1>13. CASE Exit
  BY <1>13 DEF Exit
<1> QED BY <1>3, <1>4, <1>5, <1>6, <1>7, <1>9, <1>10, <1>11, <1>12, <1>13 DEF Administration

LEMMA TypesKept ==
  ASSUME TypeOK, Places, SessionOK, [Next]_vars
  PROVE  TypeOK'
<1>1. AccountsTypeOK /\ RetrievalTypeOK
  BY TypeParts
<1>2. CASE Authenticate \/ Client
  BY <1>2, ClientTypes
<1>3. CASE Server
  BY <1>3, ServerTypes DEF SessionOK
<1>4. CASE Other
  BY <1>4, OtherTypes
<1>5. CASE Lose
  <2>1. AccountsTypeOK'
    BY <1>1, <1>5, AccountsUnchanged DEF Lose
  <2>2. RetrievalTypeOK'
    BY <1>1, <1>5 DEF Lose, RetrievalTypeOK, clientVars, sendVars, otherVars
  <2> QED BY <2>1, <2>2, TypeParts
<1>6. CASE Killed
  <2>1. AccountsTypeOK'
    BY <1>1, <1>6, AccountsAssumption DEF Killed, Kill, AccountsTypeOK
  <2>2. RetrievalTypeOK'
    BY <1>1, <1>6 DEF Killed, RetrievalTypeOK, clientVars
  <2> QED BY <2>1, <2>2, TypeParts
<1>7. CASE Administers
  <2>1. AccountsTypeOK'
    BY <1>1, <1>7, AdministrationTypes DEF Administers
  <2>2. RetrievalTypeOK'
    BY <1>1, <1>7 DEF Administers, RetrievalTypeOK, clientVars, netVars, sendVars, otherVars
  <2> QED BY <2>1, <2>2, TypeParts
<1>8. CASE UNCHANGED vars
  <2>1. AccountsTypeOK'
    BY <1>1, <1>8, AccountsUnchanged DEF vars
  <2>2. RetrievalTypeOK'
    BY <1>1, <1>8 DEF vars, RetrievalTypeOK, clientVars, netVars, sendVars, otherVars
  <2> QED BY <2>1, <2>2, TypeParts
<1> QED BY <1>2, <1>3, <1>4, <1>5, <1>6, <1>7, <1>8 DEF Next
-----------------------------------------------------------------------------
(* The administration.                                                      *)

LEMMA TailOrder ==
  ASSUME NEW s \in Seq(StepNames), s # <<>>, CommandOrder(s)
  PROVE  /\ CommandOrder(Tail(s))
         /\ s[1] = "start" => Tail(s) = <<>>
         /\ (\E i \in DOMAIN Tail(s) : Tail(s)[i] = "removeUser") => s[1] \in {"add", "update"}
         /\ s[1] = "removeUser" => /\ Len(Tail(s)) >= 3 /\ Tail(s)[1] = "getAllMacAddresses"
                                   /\ Tail(s)[2] = "removeAll" /\ Tail(s)[3] = "erase"
<1> DEFINE t == Tail(s)
<1>1. IsTail(StepNames, t, s)
  BY TailElements
<1> HIDE DEF t
<1>2. /\ t \in Seq(StepNames) /\ Len(t) + 1 = Len(s) /\ Len(t) \in Nat /\ Len(s) \in Nat
      /\ DOMAIN t = 1 .. Len(t) /\ DOMAIN s = 1 .. Len(s) /\ 1 \in DOMAIN s
      /\ \A k \in DOMAIN t : k + 1 \in DOMAIN s /\ t[k] = s[k + 1]
      /\ \A k \in DOMAIN s : k = 1 \/ (k - 1 \in DOMAIN t /\ s[k] = t[k - 1])
  BY <1>1, Zenon DEF IsTail
<1>3. \A i \in DOMAIN s : s[i] = "removeUser" =>
              /\ i + 3 <= Len(s)
              /\ s[i + 1] = "getAllMacAddresses" /\ s[i + 2] = "removeAll" /\ s[i + 3] = "erase"
              /\ \A j \in DOMAIN s : j < i => s[j] \in {"add", "update"}
  BY Zenon DEF CommandOrder
<1>4. \A i \in DOMAIN s : s[i] = "start" => i = Len(s)
  BY Zenon DEF CommandOrder
<1>5. ASSUME NEW i \in DOMAIN t, t[i] = "removeUser"
      PROVE  /\ i + 3 <= Len(t)
             /\ t[i + 1] = "getAllMacAddresses" /\ t[i + 2] = "removeAll" /\ t[i + 3] = "erase"
             /\ \A j \in DOMAIN t : j < i => t[j] \in {"add", "update"}
             /\ s[1] \in {"add", "update"}
  <2>1. i + 1 \in DOMAIN s /\ s[i + 1] = "removeUser" /\ i \in Nat /\ 1 < i + 1
    BY <1>2, <1>5
  <2>2. /\ (i + 1) + 3 <= Len(s)
        /\ s[(i + 1) + 1] = "getAllMacAddresses" /\ s[(i + 1) + 2] = "removeAll" /\ s[(i + 1) + 3] = "erase"
        /\ \A j \in DOMAIN s : j < i + 1 => s[j] \in {"add", "update"}
    BY <1>3, <2>1
  <2>3. i + 3 <= Len(t) /\ i + 1 \in DOMAIN t /\ i + 2 \in DOMAIN t /\ i + 3 \in DOMAIN t
    BY <1>2, <2>1, <2>2
  <2>4. t[i + 1] = s[(i + 1) + 1] /\ t[i + 2] = s[(i + 2) + 1] /\ t[i + 3] = s[(i + 3) + 1]
    BY <1>2, <2>3
  <2>5. (i + 2) + 1 = (i + 1) + 2 /\ (i + 3) + 1 = (i + 1) + 3
    BY <2>1
  <2>6. ASSUME NEW j \in DOMAIN t, j < i PROVE t[j] \in {"add", "update"}
    <3>1. j + 1 \in DOMAIN s /\ t[j] = s[j + 1] /\ j + 1 < i + 1
      BY <1>2, <2>1, <2>6
    <3> QED BY <2>2, <3>1
  <2>7. s[1] \in {"add", "update"}
    BY <1>2, <2>1, <2>2
  <2> QED BY <2>2, <2>3, <2>4, <2>5, <2>6, <2>7
<1>6. ASSUME NEW i \in DOMAIN t, t[i] = "start" PROVE i = Len(t)
  <2>1. i + 1 \in DOMAIN s /\ s[i + 1] = "start" /\ i \in Nat
    BY <1>2, <1>6
  <2>2. i + 1 = Len(s)
    BY <1>4, <2>1
  <2> QED BY <1>2, <2>1, <2>2
<1>7. CommandOrder(t)
  BY <1>5, <1>6, Zenon DEF CommandOrder
<1>8. ASSUME s[1] = "start" PROVE t = <<>>
  <2>1. Len(s) = 1
    BY <1>2, <1>4, <1>8
  <2>2. Len(t) = 0
    BY <1>2, <2>1
  <2> QED BY <1>2, <2>2, EmptySeq
<1>9. ASSUME s[1] = "removeUser"
      PROVE  /\ Len(t) >= 3 /\ t[1] = "getAllMacAddresses" /\ t[2] = "removeAll" /\ t[3] = "erase"
  <2>1. /\ 1 + 3 <= Len(s) /\ s[1 + 1] = "getAllMacAddresses" /\ s[1 + 2] = "removeAll" /\ s[1 + 3] = "erase"
    BY <1>2, <1>3, <1>9
  <2>2. Len(t) >= 3 /\ 1 \in DOMAIN t /\ 2 \in DOMAIN t /\ 3 \in DOMAIN t
    BY <1>2, <2>1
  <2>3. t[1] = s[1 + 1] /\ t[2] = s[2 + 1] /\ t[3] = s[3 + 1]
    BY <1>2, <2>2
  <2> QED BY <2>1, <2>2, <2>3
<1> QED BY <1>5, <1>7, <1>8, <1>9 DEF t

\* Only the administration's own steps, a forgotten row and the other session change
\* what it is about; the latter two find the user registered or his rows gone.
LEMMA ForgottenRows ==
  ASSUME TypeOK, Places, Forget
  PROVE  /\ Current \in MacRow
         /\ LET new == table'[Current.mac]
                old == table[Current.mac]
            IN  new \in Seq(Row) /\ Selects(new, old, Path \ {Current.path})
                /\ (OneRowEach(old) => OneRowEach(new))
         /\ \A m \in Mac : m # Current.mac => table'[m] = table[m]
         /\ \A m \in Mac : table[m] = <<>> => table'[m] = <<>>
<1>1. Current \in MacRow /\ Current.mac \in Mac /\ Current.path \in Path
  BY CurrentRow, RowTypes DEF Places, Forget
<1>2. table \in [Mac -> Seq(Row)]
  BY DEF TypeOK, AccountsTypeOK
<1> DEFINE new == WithoutRow(table[Current.mac], Current.path)
<1>3. new \in Seq(Row) /\ Selects(new, table[Current.mac], Path \ {Current.path})
      /\ (OneRowEach(table[Current.mac]) => OneRowEach(new))
  BY <1>1, <1>2, RowsSelected DEF WithoutRow
<1>4. table' = [table EXCEPT ![Current.mac] = new]
  BY DEF Forget
<1> HIDE DEF new
<1>5. table'[Current.mac] = new /\ \A m \in Mac : m # Current.mac => table'[m] = table[m]
  BY <1>1, <1>2, <1>4
<1>6. table[Current.mac] = <<>> => new = <<>>
  <2>1. table[Current.mac] = <<>> => DOMAIN new = {}
    <3>1. \A j \in DOMAIN new : \E i \in DOMAIN table[Current.mac] : new[j] = table[Current.mac][i]
      BY <1>3 DEF Selects
    <3>2. table[Current.mac] = <<>> => DOMAIN table[Current.mac] = {}
      OBVIOUS
    <3> QED BY <3>1, <3>2
  <2>2. DOMAIN new = 1 .. Len(new) /\ Len(new) \in Nat
    BY <1>3
  <2>3. DOMAIN new = {} => Len(new) = 0
    BY <2>2
  <2> QED BY <1>3, <2>1, <2>3, EmptySeq
<1> QED BY <1>1, <1>3, <1>5, <1>6

\* Which steps change the rows, the folders and the user; and when.
LEMMA QuietSteps ==
  ASSUME TypeOK, AdministrationOK, SessionOK, Places, [Next]_vars
  PROVE  \/ Administers
         \/ /\ UNCHANGED <<password, named, backup>> /\ phase # "idle" /\ Forget
            /\ todo = <<>> /\ UNCHANGED <<program, todo, interrupted>>
         \/ /\ password # NoPassword /\ program = "serving" /\ todo = <<>> /\ Other
            /\ UNCHANGED <<password, named, program, todo, interrupted>>
         \/ /\ UNCHANGED <<password, named, backup, table>> /\ todo' = <<>>
            /\ todo = <<>> \/ interrupted'
            /\ UNCHANGED interrupted \/ interrupted'
            /\ program' = "off" /\ mine' = NoSession /\ UNCHANGED phase
         \/ UNCHANGED <<accountVars, mine>> /\ (UNCHANGED phase \/ (phase' # "idle" /\ program # "options"))
<1> USE DEF AdministrationOK, SessionOK, Places, programVars, accountVars, otherVars
<1>1. phase \in {"idle", "auth", "receiving", "storing", "done", "failed"} /\ interrupted \in BOOLEAN
  BY DEF TypeOK, AccountsTypeOK
<1>2. CASE Authenticate
  BY <1>2 DEF Authenticate
<1>3. CASE Client
  BY <1>1, <1>3 DEF Client, RetrieveFiles, MakeDir, StoreFile, StoreData, Retrieved, Fails, Active
<1>4. CASE CheckPassword \/ Collect \/ LookAt \/ Examine \/ OpenAndSend \/ EndOfData \/ Leave
  BY <1>1, <1>4 DEF CheckPassword, Collect, LookAt, Examine, OpenAndSend, EndOfData, Leave, Unchanged, clientVars
<1>5. CASE Forget
  BY <1>1, <1>5 DEF Forget
<1>6. CASE Vanished
  BY <1>1, <1>6 DEF Vanished, clientVars
<1>7. CASE Other
  BY <1>1, <1>7 DEF Other, Recover, OtherStores, OtherRemoves, OtherRows
<1>8. CASE Lose
  BY <1>8 DEF Lose, clientVars
<1>9. CASE Killed
  BY <1>1, <1>9 DEF Killed, Kill, clientVars
<1>10. CASE Administers
  BY <1>10
<1>11. CASE UNCHANGED vars
  BY <1>11 DEF vars, clientVars
<1> QED BY <1>2, <1>3, <1>4, <1>5, <1>6, <1>7, <1>8, <1>9, <1>10, <1>11 DEF Next, Server

\* Removing, by what is next and what is left to do after it.
LEMMA RemovingSteps ==
  ASSUME TypeOK
  PROVE  /\ todo = <<>> => ~Removing
         /\ Removing => Head(todo) = todo[1] /\ todo[1] \in {"getAllMacAddresses", "removeAll", "erase"}
         /\ Removing /\ todo[1] = "getAllMacAddresses" =>
               /\ Len(Tail(todo)) >= 2 /\ Tail(todo)[1] = "removeAll" /\ Tail(todo)[2] = "erase"
               /\ \A m \in named : table[m] # <<>> \/ backup[m] = NoTree
         /\ Removing /\ todo[1] = "removeAll" =>
               /\ Len(Tail(todo)) >= 1 /\ Tail(todo)[1] = "erase"
               /\ \A m \in named : m \in macs \/ backup[m] = NoTree
         /\ Removing /\ todo[1] = "erase" =>
               /\ Len(todo) >= 1
               /\ \A m \in Mac : table[m] = <<>>
               /\ \A m \in named : m \in macs \/ backup[m] = NoTree
<1>1. todo \in Seq(StepNames)
  BY DEF TypeOK, AccountsTypeOK
<1>2. ASSUME todo = <<>> PROVE ~Removing
  <2>1. Len(todo) = 0
    BY <1>2
  <2> QED BY <2>1 DEF Removing
<1>3. CASE todo # <<>>
  <2>1. IsTail(StepNames, Tail(todo), todo)
    BY <1>1, <1>3, TailElements
  <2>2. /\ Len(todo) >= 3 => /\ Len(Tail(todo)) >= 2 /\ Tail(todo)[1] = todo[2] /\ Tail(todo)[2] = todo[3]
        /\ Len(todo) >= 2 => /\ Len(Tail(todo)) >= 1 /\ Tail(todo)[1] = todo[2]
        /\ Head(todo) = todo[1]
    <3> DEFINE t == Tail(todo)
    <3>1. /\ Len(t) + 1 = Len(todo) /\ Len(t) \in Nat /\ DOMAIN t = 1 .. Len(t) /\ Head(todo) = todo[1]
          /\ \A k \in DOMAIN t : t[k] = todo[k + 1]
      BY <2>1, Zenon DEF IsTail
    <3> HIDE DEF t
    <3>2. /\ Len(todo) >= 3 => /\ Len(t) >= 2 /\ t[1] = todo[1 + 1] /\ t[2] = todo[2 + 1]
          /\ Len(todo) >= 2 => /\ Len(t) >= 1 /\ t[1] = todo[1 + 1]
      BY <3>1
    <3> QED BY <3>1, <3>2 DEF t
  <2> QED BY <1>3, <2>2 DEF Removing
<1> QED BY <1>2, <1>3

\* The last step of the removal of a user, and those before it.
LEMMA UserRemovedKept ==
  ASSUME TypeOK, AdministrationOK, Administration, password' = NoPassword, ~interrupted'
  PROVE  AllGone' \/ Removing'
<1>1. /\ UserRemoved /\ CommandOrder(todo) /\ (program # "options" => todo = <<>>)
      /\ (\E i \in DOMAIN todo : todo[i] = "removeUser") => named = WithRows
  BY DEF AdministrationOK
<1>2. /\ todo \in Seq(StepNames) /\ table \in [Mac -> Seq(Row)] /\ backup \in [Mac -> Tree]
      /\ named \subseteq Mac /\ macs \subseteq Mac
      /\ password \in Password \cup {NoPassword} /\ NoPassword \notin Password
  BY AccountsAssumption DEF TypeOK, AccountsTypeOK
<1>3. ~interrupted
  BY DEF Administration, Start, AddUser, UpdateUser, RemoveUser, GetAllMacAddresses, RemoveAllRows,
         RemoveAllOfMac, Erase, Serve, Exit, Done
<1>4. password = NoPassword => AllGone \/ Removing
  BY <1>1, <1>3 DEF UserRemoved
<1>5. ASSUME NEW name, Step(name)
      PROVE  todo # <<>> /\ todo[1] = name /\ Head(todo) = todo[1]
  BY <1>2, <1>5, TailElements DEF Step, IsTail
<1>6. CASE Start
  <2>1. todo = <<>> /\ password = NoPassword /\ UNCHANGED <<table, backup>> /\ named' = WithRows
    BY <1>1, <1>6 DEF Start
  <2>2. AllGone
    BY <1>4, <2>1, RemovingSteps
  <2>3. named' = {}
    BY <2>1, <2>2 DEF AllGone, WithRows
  <2>4. AllGone'
    BY <2>1, <2>2, <2>3 DEF AllGone
  <2> QED BY <2>4
<1>7. CASE AddUser
  <2>1. Step("add") /\ password' # NoPassword
    BY <1>2, <1>7 DEF AddUser
  <2> QED BY <2>1
<1>8. CASE UpdateUser
  <2>1. Step("update") /\ password = NoPassword /\ UNCHANGED <<table, backup, named>>
    BY <1>2, <1>8 DEF UpdateUser, Done
  <2>2. todo[1] = "update"
    BY <1>5, <2>1
  <2>3. AllGone
    BY <1>4, <2>1, <2>2, RemovingSteps
  <2> QED BY <2>1, <2>3 DEF AllGone
<1>9. CASE RemoveUser
  <2>1. Step("removeUser") /\ todo' = Tail(todo) /\ UNCHANGED <<table, backup, named>>
    BY <1>9 DEF RemoveUser, Done
  <2>2. todo # <<>> /\ todo[1] = "removeUser"
    BY <1>5, <2>1
  <2>3. 1 \in DOMAIN todo
    BY <1>2, <2>2
  <2>4. named = WithRows
    BY <1>1, <2>2, <2>3
  <2>5. /\ Len(todo') >= 3 /\ todo'[1] = "getAllMacAddresses"
        /\ todo'[2] = "removeAll" /\ todo'[3] = "erase"
    BY <1>1, <1>2, <2>1, <2>2, TailOrder
  <2>6. \A m \in named' : table'[m] # <<>>
    BY <2>1, <2>4 DEF WithRows
  <2> QED BY <2>5, <2>6 DEF Removing
<1>10. CASE GetAllMacAddresses
  <2>1. /\ Step("getAllMacAddresses") /\ todo' = Tail(todo) /\ UNCHANGED <<table, backup, named, password>>
        /\ macs' = WithRows
    BY <1>10 DEF GetAllMacAddresses, Done
  <2>2. todo[1] = "getAllMacAddresses" /\ password = NoPassword
    BY <1>5, <2>1
  <2>3. CASE AllGone
    BY <2>1, <2>3 DEF AllGone
  <2>4. CASE Removing
    <3>1. /\ Len(todo') >= 2 /\ todo'[1] = "removeAll" /\ todo'[2] = "erase"
          /\ \A m \in named : table[m] # <<>> \/ backup[m] = NoTree
      BY <2>1, <2>2, <2>4, RemovingSteps
    <3>2. \A m \in named' : m \in macs' \/ backup'[m] = NoTree
      BY <1>2, <2>1, <3>1 DEF WithRows
    <3> QED BY <3>1, <3>2 DEF Removing
  <2> QED BY <1>4, <2>2, <2>3, <2>4
<1>11. ASSUME NEW Q, RemoveRows(Q)
       PROVE  \A m \in Mac : table'[m] = <<>> \/ table'[m] = table[m]
  BY <1>11 DEF RemoveRows
<1>12. CASE RemoveAllRows
  <2>1. /\ Step("removeAll") /\ todo' = Tail(todo) /\ UNCHANGED <<backup, named, password, macs>>
        /\ \A m \in Mac : table'[m] = <<>>
    BY <1>12 DEF RemoveAllRows, Done, RemoveRows
  <2>2. todo[1] = "removeAll" /\ password = NoPassword
    BY <1>5, <2>1
  <2>3. CASE AllGone
    BY <2>1, <2>3 DEF AllGone
  <2>4. CASE Removing
    <3>1. /\ Len(todo') >= 1 /\ todo'[1] = "erase"
          /\ \A m \in named : m \in macs \/ backup[m] = NoTree
      BY <2>1, <2>2, <2>4, RemovingSteps
    <3>2. \A m \in named' : m \in macs' \/ backup'[m] = NoTree
      BY <2>1, <3>1
    <3> QED BY <2>1, <3>1, <3>2 DEF Removing
  <2> QED BY <1>4, <2>2, <2>3, <2>4
<1>13. CASE RemoveAllOfMac
  <2>1. /\ Step("removeAllOfMac") /\ UNCHANGED <<backup, named, password>>
        /\ \A m \in Mac : table'[m] = <<>> \/ table'[m] = table[m]
    BY <1>11, <1>13 DEF RemoveAllOfMac, Done
  <2>2. todo[1] = "removeAllOfMac" /\ password = NoPassword
    BY <1>5, <2>1
  <2>3. AllGone
    BY <1>4, <2>2, RemovingSteps
  <2> QED BY <2>1, <2>3 DEF AllGone
<1>14. CASE Erase
  <2>1. Step("erase") /\ UNCHANGED <<named, password, table>> /\ password = NoPassword
    BY <1>14 DEF Erase, Done
  <2>2. todo[1] = "erase"
    BY <1>5, <2>1
  <2>3. CASE macs = {}
    <3>1. UNCHANGED <<macs, backup>>
      BY <1>14, <2>3 DEF Erase
    <3>2. AllGone
      BY <1>2, <1>4, <2>1, <2>2, <2>3, RemovingSteps DEF AllGone
    <3> QED BY <2>1, <3>1, <3>2 DEF AllGone
  <2>4. CASE macs # {}
    <3>1. PICK m \in macs : macs' = macs \ {m} /\ backup' = [backup EXCEPT ![m] = NoTree]
      BY <1>14, <2>4 DEF Erase
    <3>2. UNCHANGED todo
      BY <1>14, <2>4 DEF Erase
    <3>3. m \in Mac /\ backup'[m] = NoTree /\ \A x \in Mac : x # m => backup'[x] = backup[x]
      BY <1>2, <3>1
    <3>4. ASSUME AllGone PROVE AllGone'
      BY <2>1, <3>3, <3>4 DEF AllGone
    <3>5. ASSUME Removing PROVE Removing'
      <4>1. /\ Len(todo) >= 1 /\ \A x \in Mac : table[x] = <<>>
            /\ \A x \in named : x \in macs \/ backup[x] = NoTree
        BY <2>2, <3>5, RemovingSteps
      <4>2. \A x \in named' : x \in macs' \/ backup'[x] = NoTree
        BY <1>2, <2>1, <3>1, <3>3, <4>1
      <4> QED BY <2>1, <2>2, <3>2, <4>1, <4>2 DEF Removing
    <3> QED BY <1>4, <2>1, <3>4, <3>5
  <2> QED BY <2>3, <2>4
<1>15. CASE Serve
  <2>1. Step("start") /\ UNCHANGED <<backup, named, password, table>>
    BY <1>15 DEF Serve, Done
  <2>2. todo[1] = "start" /\ password = NoPassword
    BY <1>5, <2>1
  <2>3. AllGone
    BY <1>4, <2>2, RemovingSteps
  <2> QED BY <2>1, <2>3 DEF AllGone
<1>16. CASE Exit
  <2>1. UNCHANGED <<backup, named, password, table, todo>> /\ todo = <<>>
    BY <1>16 DEF Exit
  <2>2. AllGone
    BY <1>4, <2>1, RemovingSteps
  <2> QED BY <2>1, <2>2 DEF AllGone
<1> QED BY <1>6, <1>7, <1>8, <1>9, <1>10, <1>12, <1>13, <1>14, <1>15, <1>16 DEF Administration

LEMMA AdministrationKept ==
  ASSUME TypeOK, AdministrationOK, SessionOK, Places, [Next]_vars
  PROVE  AdministrationOK'
<1>1. /\ UserRemoved /\ CommandOrder(todo) /\ (program # "options" => todo = <<>>)
      /\ (\E i \in DOMAIN todo : todo[i] = "removeUser") => named = WithRows
      /\ phase # "idle" => program # "options"
  BY DEF AdministrationOK
<1>2. todo \in Seq(StepNames) /\ table \in [Mac -> Seq(Row)]
  BY DEF TypeOK, AccountsTypeOK
<1>3. CommandOrder(<<>>) /\ \A i \in DOMAIN <<>> : <<>>[i] # "removeUser"
  BY DEF CommandOrder
<1>4. todo = <<>> => (UserRemoved <=> (password = NoPassword /\ ~interrupted => AllGone))
  BY RemovingSteps DEF UserRemoved
<1>5. CASE Administers
  <2>1. Administration /\ phase = "idle" /\ phase' = "idle"
    BY <1>5 DEF Administers, clientVars
  <2>2. UserRemoved'
    BY <2>1, UserRemovedKept DEF UserRemoved
  <2>3. CASE Start
    <3>1. CommandOrder(todo') /\ program' = "options"
      BY <2>3, CommandLineOrder DEF Start
    <3>2. named' = WithRows'
      BY <2>3 DEF Start, WithRows
    <3> QED BY <2>1, <2>2, <3>1, <3>2 DEF AdministrationOK
  <2>4. CASE AddUser /\ program' = "off"
    <3>1. todo' = <<>>
      <4>1. program = "options"
        BY <2>4 DEF AddUser, Step
      <4> QED BY <2>4, <4>1 DEF AddUser
    <3> QED BY <1>3, <2>1, <2>2, <3>1 DEF AdministrationOK
  <2>5. CASE Exit
    <3>1. UNCHANGED todo /\ todo = <<>>
      BY <2>5 DEF Exit
    <3> QED BY <1>3, <2>1, <2>2, <3>1 DEF AdministrationOK
  <2>6. CASE Erase /\ macs # {}
    <3>1. UNCHANGED <<program, todo, named, table>> /\ program = "options"
      BY <2>6 DEF Erase, Step
    <3> QED BY <1>1, <2>1, <2>2, <3>1 DEF AdministrationOK, WithRows
  <2>7. CASE \/ AddUser /\ program' # "off"
             \/ UpdateUser \/ RemoveUser \/ GetAllMacAddresses \/ RemoveAllRows
             \/ RemoveAllOfMac \/ (Erase /\ macs = {}) \/ Serve
    <3>1. /\ todo # <<>> /\ todo' = Tail(todo) /\ UNCHANGED named /\ program = "options"
          /\ \/ program' = "options"
             \/ program' = "serving" /\ Head(todo) = "start"
      BY <2>7 DEF AddUser, UpdateUser, RemoveUser, GetAllMacAddresses, RemoveAllRows,
                  RemoveAllOfMac, Erase, Serve, Step, Done
    <3>2. Head(todo) = todo[1]
      BY <1>2, <3>1, TailElements DEF IsTail
    <3>3. /\ CommandOrder(todo') /\ (todo[1] = "start" => todo' = <<>>)
          /\ (\E i \in DOMAIN todo' : todo'[i] = "removeUser") => todo[1] \in {"add", "update"}
      BY <1>1, <1>2, <3>1, TailOrder
    <3>4. todo[1] \in {"add", "update"} => UNCHANGED table
      BY <2>7, <3>2 DEF AddUser, UpdateUser, RemoveUser, GetAllMacAddresses, RemoveAllRows,
                  RemoveAllOfMac, Erase, Serve, Step
    <3>5. (\E i \in DOMAIN todo' : todo'[i] = "removeUser") => named' = WithRows'
      <4> SUFFICES ASSUME NEW i \in DOMAIN todo', todo'[i] = "removeUser" PROVE named' = WithRows'
        OBVIOUS
      <4>1. UNCHANGED table
        BY <3>3, <3>4
      <4>2. \E k \in DOMAIN todo : todo[k] = "removeUser"
        <5>1. IsTail(StepNames, todo', todo)
          BY <1>2, <3>1, TailElements
        <5> QED BY <5>1 DEF IsTail
      <4> QED BY <1>1, <3>1, <4>1, <4>2 DEF WithRows
    <3> QED BY <2>1, <2>2, <3>1, <3>2, <3>3, <3>5 DEF AdministrationOK
  <2> QED BY <2>1, <2>3, <2>4, <2>5, <2>6, <2>7 DEF Administration
<1>6. ASSUME todo' = <<>>, phase' # "idle" => program' # "options",
             password' = NoPassword /\ ~interrupted' => AllGone'
      PROVE  AdministrationOK'
  BY <1>3, <1>6 DEF AdministrationOK, UserRemoved
<1>7. CASE /\ UNCHANGED <<password, named, backup>> /\ phase # "idle" /\ Forget
           /\ todo = <<>> /\ UNCHANGED <<program, todo, interrupted>>
  <2>1. \A m \in Mac : table[m] = <<>> => table'[m] = <<>>
    BY <1>7, ForgottenRows
  <2>2. password' = NoPassword /\ ~interrupted' => AllGone'
    BY <1>1, <1>4, <1>7, <2>1 DEF AllGone
  <2> QED BY <1>1, <1>6, <1>7, <2>2
<1>8. CASE /\ password # NoPassword /\ program = "serving" /\ todo = <<>>
           /\ UNCHANGED <<password, named, program, todo, interrupted>>
  BY <1>6, <1>8
<1>9. CASE /\ UNCHANGED <<password, named, backup, table>> /\ todo' = <<>>
           /\ todo = <<>> \/ interrupted'
           /\ UNCHANGED interrupted \/ interrupted'
           /\ program' = "off"
  <2>1. password' = NoPassword /\ ~interrupted' => AllGone'
    BY <1>1, <1>4, <1>9 DEF AllGone
  <2> QED BY <1>6, <1>9, <2>1
<1>10. CASE UNCHANGED <<accountVars, mine>> /\ (UNCHANGED phase \/ (phase' # "idle" /\ program # "options"))
  BY <1>1, <1>10 DEF AdministrationOK, accountVars, programVars, UserRemoved, AllGone, Removing, WithRows
<1> QED BY <1>5, <1>7, <1>8, <1>9, <1>10, QuietSteps

LEMMA SessionKept ==
  ASSUME TypeOK, AdministrationOK, SessionOK, Places, [Next]_vars
  PROVE  SessionOK'
<1>1. /\ \A m \in Mac : OneRowEach(table[m])
      /\ mine # NoSession => /\ program = "serving" /\ password # NoPassword
                             /\ \A j \in DOMAIN table[Busy] : table[Busy][j].path \in mine
  BY DEF SessionOK
<1>2. Busy \in Mac /\ table \in [Mac -> Seq(Row)]
  BY RetrievalAssumption DEF TypeOK, AccountsTypeOK
<1>3. ASSUME \A m \in Mac : OneRowEach(table'[m]), mine' = NoSession
      PROVE  SessionOK'
  BY <1>3 DEF SessionOK
<1>4. OneRowEach(<<>>)
  BY DEF OneRowEach
<1>5. CASE Administers
  <2>1. Administration /\ UNCHANGED mine
    BY <1>5 DEF Administers, otherVars
  <2>2. program # "serving"
    BY <2>1 DEF Administration, Start, AddUser, UpdateUser, RemoveUser, GetAllMacAddresses, RemoveAllRows,
         RemoveAllOfMac, Erase, Serve, Exit, Step
  <2>3. \A Q : RemoveRows(Q) => \A m \in Mac : table'[m] = <<>> \/ table'[m] = table[m]
    BY DEF RemoveRows
  <2>4. \A m \in Mac : table'[m] = <<>> \/ table'[m] = table[m]
    <3>1. UNCHANGED table \/ \E Q : RemoveRows(Q)
      BY <2>1 DEF Administration, Start, AddUser, UpdateUser, RemoveUser, GetAllMacAddresses, RemoveAllRows,
         RemoveAllOfMac, Erase, Serve, Exit
    <3> QED BY <2>3, <3>1
  <2>5. \A m \in Mac : OneRowEach(table'[m])
    BY <1>1, <1>4, <2>4
  <2> QED BY <1>1, <1>3, <2>1, <2>2, <2>5
<1>6. CASE Forget /\ UNCHANGED <<password, program>>
  <2>1. /\ Current.mac \in Mac
        /\ Selects(table'[Current.mac], table[Current.mac], Path \ {Current.path})
        /\ OneRowEach(table[Current.mac]) => OneRowEach(table'[Current.mac])
        /\ \A m \in Mac : m # Current.mac => table'[m] = table[m]
    BY <1>6, ForgottenRows, RowTypes
  <2>2. \A m \in Mac : OneRowEach(table'[m])
    BY <1>1, <2>1
  <2>3. UNCHANGED mine
    BY <1>6 DEF Forget, otherVars
  <2>4. \A j \in DOMAIN table'[Busy] : \E i \in DOMAIN table[Busy] : table'[Busy][j] = table[Busy][i]
    <3>1. CASE Current.mac = Busy
      BY <2>1, <3>1, Zenon DEF Selects
    <3>2. CASE Current.mac # Busy
      BY <1>2, <2>1, <3>2
    <3> QED BY <3>1, <3>2
  <2> QED BY <1>1, <1>6, <2>2, <2>3, <2>4 DEF SessionOK
<1>7. CASE Other /\ password # NoPassword /\ program = "serving" /\ UNCHANGED <<password, program>>
  <2>1. CASE Recover
    <3>1. /\ Recovered(table'[Busy], table[Busy], backup[Busy])
          /\ mine' = {table'[Busy][i].path : i \in DOMAIN table'[Busy]}
          /\ \A m \in Mac : m # Busy => table'[m] = table[m]
      BY <1>1, <1>2, <2>1, RecoverRows
    <3>2. \A m \in Mac : OneRowEach(table'[m])
      BY <1>1, <3>1 DEF Recovered
    <3>3. \A j \in DOMAIN table'[Busy] : table'[Busy][j].path \in mine'
      BY <3>1
    <3> QED BY <1>7, <3>2, <3>3 DEF SessionOK
  <2>2. CASE OtherStores \/ OtherRemoves
    <3>1. UNCHANGED <<table, mine>>
      BY <2>2 DEF OtherStores, OtherRemoves
    <3> QED BY <1>1, <1>7, <3>1 DEF SessionOK
  <2>3. CASE OtherRows
    <3>1. /\ Requested(table'[Busy], table[Busy], pending.path, pending.entry)
          /\ \A m \in Mac : m # Busy => table'[m] = table[m]
          /\ mine' = IF pending.entry = Absent THEN mine \ {pending.path} ELSE mine \cup {pending.path}
          /\ mine # NoSession
      BY <2>3, OtherRowsRequested DEF OtherRows
    <3>2. \A m \in Mac : OneRowEach(table'[m])
      BY <1>1, <3>1 DEF Requested
    <3>3. \A i \in DOMAIN table'[Busy] : table'[Busy][i].path \in mine'
      BY <1>1, <3>1 DEF Requested
    <3> QED BY <1>7, <3>2, <3>3 DEF SessionOK
  <2> QED BY <1>7, <2>1, <2>2, <2>3 DEF Other
<1>8. CASE UNCHANGED table /\ mine' = NoSession
  BY <1>1, <1>3, <1>8
<1>9. CASE UNCHANGED <<accountVars, mine>>
  BY <1>1, <1>9 DEF accountVars, programVars, SessionOK
<1> QED BY <1>5, <1>6, <1>7, <1>8, <1>9, QuietSteps
-----------------------------------------------------------------------------
(* Where client, server and connection are.                                 *)

LEMMA PlacesClient ==
  ASSUME TypeOK, Places, MessagesOK, Authenticate \/ Client
  PROVE  Places'
<1>1. /\ down \in Seq(Messages) /\ phase \in {"idle", "auth", "receiving", "storing", "done", "failed"}
      /\ request \in {"none", "AUTH", "RETR"}
  BY DEF TypeOK
<1>2. ASSUME Receives("OK") PROVE down' = <<>> /\ sess \notin Working /\ toSend = <<>>
  <2>1. /\ IsTail(Messages, Tail(down), down) /\ Head(down).type = "OK" /\ down' = Tail(down)
    BY <1>1, <1>2, TailElements DEF Receives
  <2>2. 1 \in DOMAIN down /\ down[1].type = "OK"
    BY <2>1, Zenon DEF IsTail
  <2>3. ~OfRow(1)
    BY <2>2 DEF OfRow, RowTags
  <2>4. 1 = Len(down) /\ sess \notin Working /\ toSend = <<>>
    BY <2>2, <2>3 DEF MessagesOK, LastWord
  <2>5. down' \in Seq(Messages) /\ Len(down') = 0
    BY <2>1, <2>4 DEF IsTail
  <2> QED BY <2>4, <2>5, EmptySeq
<1>3. CASE Authenticate
  BY <1>3 DEF Authenticate, Places, Working
<1>4. CASE RetrieveFiles
  <2>1. down' = <<>> /\ sess \notin Working
    BY <1>2, <1>4 DEF RetrieveFiles
  <2> QED BY <1>4, <2>1 DEF RetrieveFiles, Places, Working, sendVars
<1>5. CASE MakeDir
  <2>1. phase = "receiving" /\ phase' \in {"receiving", "failed"} /\ down # <<>>
        /\ UNCHANGED <<request, link, sendVars>>
    BY <1>5 DEF MakeDir, Receives
  <2>2. link = "lost" => sess = "none"
    BY <2>1 DEF Places
  <2>3. request = "none"
    BY <2>1 DEF Places
  <2> QED BY <2>1, <2>2, <2>3 DEF Places, Working, sendVars
<1>6. CASE StoreFile
  <2>1. /\ phase = "receiving" /\ phase' = "storing" /\ down # <<>> /\ UNCHANGED <<netVars, sendVars>>
        /\ Head(down).type = "STOR"
    BY <1>6 DEF StoreFile
  <2>2. down[1].type = "STOR"
    BY <1>1, <2>1, TailElements DEF IsTail
  <2>3. request = "none"
    BY <2>1 DEF Places
  <2> QED BY <2>1, <2>2, <2>3 DEF Places, Working, netVars, sendVars
<1>7. CASE StoreData
  <2>1. phase = "storing" /\ phase' \in {"receiving", "failed"} /\ Len(down) > 1
        /\ UNCHANGED <<request, link, sendVars>>
    BY <1>7 DEF StoreData
  <2>2. down # <<>>
    BY <2>1
  <2>3. link = "lost" => sess = "none"
    BY <2>2 DEF Places
  <2>4. request = "none"
    BY <2>2 DEF Places
  <2> QED BY <2>1, <2>3, <2>4 DEF Places, Working, sendVars
<1>8. CASE Retrieved
  <2>1. down' = <<>> /\ sess \notin Working /\ toSend = <<>> /\ down # <<>>
    BY <1>2, <1>8 DEF Retrieved, Receives
  <2>2. phase = "receiving" /\ phase' = "done" /\ UNCHANGED <<request, link, sendVars>>
    BY <1>8 DEF Retrieved
  <2>3. link = "lost" => sess = "none"
    BY <2>1 DEF Places
  <2>4. request = "none"
    BY <2>1 DEF Places
  <2> QED BY <2>1, <2>2, <2>3, <2>4 DEF Places, Working, sendVars
<1>9. CASE Fails
  <2>1. phase' = "failed" /\ down' = <<>> /\ UNCHANGED <<request, link, sendVars>>
    BY <1>9 DEF Fails
  <2> QED BY <2>1 DEF Places, Working, sendVars
<1> QED BY <1>3, <1>4, <1>5, <1>6, <1>7, <1>8, <1>9 DEF Client

LEMMA PlacesServer ==
  ASSUME TypeOK, Places, MessagesOK, Server
  PROVE  Places'
<1>1. /\ down \in Seq(Messages) /\ phase \in {"idle", "auth", "receiving", "storing", "done", "failed"}
      /\ request \in {"none", "AUTH", "RETR"}
      /\ sess \in {"none", "auth", "ready", "look", "examine", "open", "forget"}
      /\ link \in {"open", "lost", "closed"}
  BY DEF TypeOK
\* What is sent comes after what is there.
<1>2. ASSUME NEW m \in Messages, Sends(<<m>>)
      PROVE  /\ link = "lost" => down' = down
             /\ down # <<>> => down' # <<>> /\ down'[1] = down[1]
  <2>1. /\ link = "lost" => down' = down
        /\ link # "lost" => IsAppended(Messages, down', down, m)
    BY <1>1, <1>2, SendsOne
  <2>2. down # <<>> => 1 \in DOMAIN down
    BY <1>1
  <2> QED BY <2>1, <2>2 DEF IsAppended
<1>3. Msg("OK", NoRow) \in Messages /\ Msg("ERR", NoRow) \in Messages
  BY MessageTypes
<1>4. sess \in Working => sess # "none" /\ link # "closed" /\ phase \notin {"idle", "done"} /\ request = "none"
  BY DEF Places, Working
<1>5. ASSUME sess \in Working, sess' \in {"none", "ready", "look", "examine", "open", "forget"},
             UNCHANGED <<phase, request, collected>>, link' = link \/ sess' = "none", link' \in {link, "closed"},
             link = "lost" => link' = "lost",
             sess' \in {"examine", "open", "forget"} => toSend' # <<>>,
             UNCHANGED down \/ \E m \in Messages : Sends(<<m>>)
      PROVE  Places'
  <2>1. /\ link = "lost" => down' = down
        /\ down # <<>> => down' # <<>> /\ down'[1] = down[1]
    BY <1>2, <1>5
  <2>2. link = "lost" => link' = "lost"
    BY <1>5, <1>4
  <2>4. phase = "storing" => \/ down # <<>> /\ down[1].type = "STOR"
                             \/ down = <<>> /\ link = "lost"
    BY DEF Places
  <2>5. phase' = "storing" => \/ down' # <<>> /\ down'[1].type = "STOR"
                              \/ down' = <<>> /\ link' = "lost"
    BY <1>5, <2>1, <2>2, <2>4
  <2>6. phase = "auth" => collected = <<>>
    BY DEF Places
  <2>7. link' = "lost" /\ sess' # "none" => down' = <<>>
    BY <1>4, <1>5, <2>1 DEF Places
  <2> QED BY <1>1, <1>4, <1>5, <2>5, <2>6, <2>7 DEF Places, Working
<1>6. ASSUME Closes PROVE link' \in {link, "closed"} /\ (link = "lost" => link' = "lost")
  BY <1>6 DEF Closes
<1>7. toSend # <<>> => Current \in MacRow
  BY CurrentRow
<1>8. CASE CheckPassword
  <2>1. /\ sess = "auth" /\ request = "AUTH" /\ request' = "none" /\ phase \in {"auth", "failed"}
        /\ UNCHANGED <<phase, toSend, collected>> /\ collected = <<>> /\ down = <<>>
        /\ link # "closed"
    BY <1>8 DEF CheckPassword, clientVars, Places
  <2>2. link = "lost" => down' = <<>> /\ link' = "lost"
    BY <1>2, <1>3, <1>8, <2>1 DEF CheckPassword, Closes
  <2>3. \/ sess' = "ready" /\ UNCHANGED link
        \/ sess' = "none" /\ link' \in {"lost", "closed"}
    BY <1>8 DEF CheckPassword, Closes
  <2> QED BY <1>1, <2>1, <2>2, <2>3 DEF Places, Working
<1>9. CASE Collect
  <2>1. /\ sess = "ready" /\ request = "RETR" /\ request' = "none" /\ sess' = "look"
        /\ UNCHANGED <<phase, down, link>>
    BY <1>9 DEF Collect, clientVars
  <2> QED BY <2>1 DEF Places, Working
<1>10. CASE LookAt
  <2>1. /\ sess = "look" /\ sess' \in {"look", "forget", "examine"} /\ toSend # <<>>
        /\ UNCHANGED <<phase, request, collected, link>>
        /\ sess' # "look" => toSend' = toSend
        /\ UNCHANGED down \/ Sends(<<Msg("MKD", Current)>>)
    BY <1>10 DEF LookAt, Unchanged, clientVars
  <2>2. Msg("MKD", Current) \in Messages
    BY <1>7, <2>1, MessageTypes
  <2> QED BY <1>5, <2>1, <2>2 DEF Working
<1>11. CASE Examine
  <2>1. /\ sess = "examine" /\ sess' \in {"open", "forget"} /\ toSend # <<>> /\ toSend' = toSend
        /\ UNCHANGED <<phase, request, collected, link>>
        /\ UNCHANGED down \/ Sends(<<Msg("STOR", Current)>>)
    BY <1>11 DEF Examine, Unchanged, clientVars, Places
  <2>2. Msg("STOR", Current) \in Messages
    BY <1>7, <2>1, MessageTypes
  <2> QED BY <1>5, <2>1, <2>2 DEF Working
<1>12. CASE OpenAndSend
  <2>1. /\ sess = "open" /\ sess' = "look" /\ toSend # <<>>
        /\ UNCHANGED <<phase, request, collected, link>>
        /\ Sends(<<Msg("DATA", [Current EXCEPT !.entry = OnDisk[Current.path]])>>)
        /\ Exists(OnDisk, Current.path)
    BY <1>12 DEF OpenAndSend, Unchanged, clientVars, Places
  <2>2. Msg("DATA", [Current EXCEPT !.entry = OnDisk[Current.path]]) \in Messages
    BY <2>1, CurrentRow, RowTypes, MessageTypes
  <2> QED BY <1>5, <2>1, <2>2 DEF Working
<1>13. CASE Forget
  <2>1. sess = "forget" /\ sess' = "look" /\ UNCHANGED <<phase, request, collected, link, down>>
    BY <1>13 DEF Forget, clientVars, netVars
  <2> QED BY <1>5, <2>1 DEF Working
<1>14. CASE EndOfData
  <2>1. /\ sess = "look" /\ sess' = "ready" /\ UNCHANGED <<phase, request, collected, link>>
        /\ Sends(<<Msg("OK", NoRow)>>)
    BY <1>14 DEF EndOfData, Unchanged, clientVars
  <2> QED BY <1>3, <1>5, <2>1 DEF Working
<1>15. CASE Vanished
  <2>1. /\ sess \in {"examine", "open"} /\ sess' = "none" /\ UNCHANGED <<phase, request, collected>>
        /\ UNCHANGED down \/ Sends(<<Msg("ERR", NoRow)>>)
        /\ Closes
    BY <1>15 DEF Vanished, clientVars
  <2> QED BY <1>3, <1>5, <1>6, <2>1 DEF Working
<1>16. CASE Leave
  <2>1. sess # "none" /\ sess' = "none" /\ UNCHANGED <<phase, request, collected, link, down, toSend>>
    BY <1>16 DEF Leave, Unchanged, clientVars
  <2> QED BY <2>1 DEF Places, Working
<1> QED BY <1>8, <1>9, <1>10, <1>11, <1>12, <1>13, <1>14, <1>15, <1>16 DEF Server

LEMMA PlacesKept ==
  ASSUME TypeOK, Places, MessagesOK, [Next]_vars
  PROVE  Places'
<1>1. CASE Authenticate \/ Client
  BY <1>1, PlacesClient
<1>2. CASE Server
  BY <1>2, PlacesServer
<1>3. CASE Other
  <2>1. UNCHANGED <<phase, request, down, link, sess, toSend, collected>>
    BY <1>3 DEF Other, Recover, OtherStores, OtherRemoves, OtherRows, clientVars, netVars, sendVars
  <2> QED BY <2>1 DEF Places
<1>4. CASE Lose
  <2>1. /\ phase \in {"auth", "receiving", "storing"} /\ link' = "lost" /\ down' = <<>>
        /\ UNCHANGED <<phase, request, sess, toSend, collected>>
    BY <1>4 DEF Lose, Active, clientVars, sendVars
  <2> QED BY <2>1 DEF Places
<1>5. CASE Killed
  <2>1. /\ sess' = "none" /\ link' = IF phase = "idle" THEN link ELSE "lost"
        /\ UNCHANGED <<phase, request, down, toSend, collected>>
    BY <1>5 DEF Killed, clientVars
  <2> QED BY <2>1 DEF Places, Working
<1>6. CASE Administers \/ UNCHANGED vars
  <2>1. UNCHANGED <<phase, request, down, link, sess, toSend, collected>>
    BY <1>6 DEF Administers, vars, clientVars, netVars, sendVars
  <2> QED BY <2>1 DEF Places
<1> QED BY <1>1, <1>2, <1>3, <1>4, <1>5, <1>6 DEF Next
-----------------------------------------------------------------------------
(* What a step leaves alone after the rows were collected.                  *)
Framed ==
    /\ UNCHANGED <<collected, password, tried>> /\ touched \subseteq touched'
    /\ \A m \in Mac, p \in Path : IsDir(backup[m], p)' <=> IsDir(backup[m], p)
    /\ \A m \in Mac, p \in Path : <<m, p>> \notin touched' => backup'[m][p] = backup[m][p]

LEMMA FramedSteps ==
  ASSUME TypeOK, [Next]_vars, ~Administers, ~Collect
  PROVE  Framed
<1>1. CASE UNCHANGED <<collected, password, tried, touched, backup>>
  BY <1>1 DEF Framed
<1>2. CASE Authenticate \/ Client \/ Lose \/ Killed \/ UNCHANGED vars
  BY <1>1, <1>2 DEF Authenticate, Client, RetrieveFiles, MakeDir, StoreFile, StoreData, Retrieved, Fails, Lose, Killed,
       Kill, vars, accountVars, programVars, clientVars, sendVars, otherVars
<1>3. CASE Server
  BY <1>1, <1>3 DEF Server, CheckPassword, LookAt, Examine, OpenAndSend, Forget, EndOfData, Vanished, Leave,
       Unchanged, accountVars, programVars, clientVars, otherVars
<1>4. CASE Recover \/ OtherRows
  <2>1. UNCHANGED <<collected, password, tried, backup>> /\ touched \subseteq touched'
    BY <1>4 DEF Recover, OtherRows, Changed, programVars, clientVars, sendVars
  <2> QED BY <2>1 DEF Framed
<1>5. CASE OtherStores \/ OtherRemoves
  <2>1. UNCHANGED <<collected, password, tried>>
    BY <1>5 DEF OtherStores, OtherRemoves, programVars, clientVars, sendVars
  <2>2. PICK p \in Path : EditedAt(p)
    BY <1>5, OtherEdits
  <2>3. /\ touched' = touched \cup {<<Busy, p>>} /\ ~IsDir(backup[Busy], p) /\ ~IsDir(backup'[Busy], p)
        /\ \A m \in Mac : m # Busy => backup'[m] = backup[m]
        /\ \A q \in Path : q # p => backup'[Busy][q] = backup[Busy][q]
    BY <2>2 DEF EditedAt, Changed
  <2>4. ASSUME NEW m \in Mac, NEW q \in Path
        PROVE  /\ IsDir(backup'[m], q) <=> IsDir(backup[m], q)
               /\ <<m, q>> \notin touched' => backup'[m][q] = backup[m][q]
    <3>1. CASE m = Busy /\ q = p
      BY <2>3, <3>1
    <3>2. CASE m # Busy
      BY <2>3, <3>2
    <3>3. CASE q # p /\ m = Busy
      BY <2>3, <3>3 DEF IsDir, Exists
    <3> QED BY <3>1, <3>2, <3>3
  <2> QED BY <2>1, <2>3, <2>4 DEF Framed
<1> QED BY <1>2, <1>3, <1>4, <1>5 DEF Next, Other

LEMMA CollectedTypes ==
  ASSUME TypeOK, RestOK
  PROVE  /\ DOMAIN collected = 1 .. Len(collected) /\ Len(collected) \in Nat
         /\ DOMAIN toSend = 1 .. Len(toSend) /\ Len(toSend) \in Nat /\ Len(toSend) <= Len(collected)
         /\ \A i \in DOMAIN collected :
               /\ collected[i] \in MacRow /\ collected[i].mac \in Mac /\ collected[i].path \in Path
               /\ collected[i].entry \in Entry /\ collected[i].entry.type \in {"file", "directory"}
               /\ Ancestors[collected[i].path] \subseteq Path
         /\ \A i \in DOMAIN collected : i \in Nat /\ i > 0
         /\ toSend = <<>> <=> Len(toSend) = 0
<1>1. collected \in Seq(MacRow) /\ toSend \in Seq(MacRow)
  BY DEF TypeOK
<1>2. \A i \in DOMAIN collected : collected[i] \in MacRow
  BY <1>1
<1>3. Len(toSend) <= Len(collected)
  BY DEF RestOK
<1>4. toSend = <<>> <=> Len(toSend) = 0
  BY <1>1, EmptySeq
<1> QED BY <1>1, <1>2, <1>3, <1>4, RowTypes

LEMMA FramedRows ==
  ASSUME TypeOK, RestOK, Framed
  PROVE  /\ DOMAIN collected' = DOMAIN collected
         /\ \A i \in DOMAIN collected :
               /\ collected'[i] = collected[i]
               /\ Untouched(collected[i])' => /\ Untouched(collected[i])
                                              /\ Matches(collected[i])' <=> Matches(collected[i])
               /\ Due(collected[i])' => Due(collected[i])
<1>1. UNCHANGED collected
  BY DEF Framed
<1>2. ASSUME NEW i \in DOMAIN collected, Untouched(collected[i])'
      PROVE  /\ Untouched(collected[i])
             /\ Matches(collected[i])' <=> Matches(collected[i])
  <2> DEFINE r == collected[i]
  <2>1. r \in MacRow /\ r.mac \in Mac /\ r.path \in Path
    BY CollectedTypes
  <2>2. <<r.mac, r.path>> \notin touched'
    BY <1>1, <1>2 DEF Untouched
  <2>3. <<r.mac, r.path>> \notin touched /\ backup'[r.mac][r.path] = backup[r.mac][r.path]
    BY <2>1, <2>2 DEF Framed
  <2>4. Matches(collected[i])' <=> Matches(collected[i])
    BY <1>1, <2>3 DEF Matches, Exists
  <2> QED BY <2>3, <2>4 DEF Untouched
<1>3. ASSUME NEW i \in DOMAIN collected, Due(collected[i])'
      PROVE  Due(collected[i])
  <2>1. collected[i].mac \in Mac /\ collected[i].path \in Path
    BY CollectedTypes
  <2>2. CASE Matches(collected[i])' /\ Untouched(collected[i])'
    BY <1>2, <2>2 DEF Due
  <2>3. CASE collected[i]'.entry.type = "directory" /\ IsDir(backup[collected[i].mac], collected[i].path)'
    <3>1. IsDir(backup[collected[i].mac], collected[i].path)
      BY <1>1, <2>1, <2>3 DEF Framed
    <3> QED BY <1>1, <2>3, <3>1 DEF Due
  <2> QED BY <1>3, <2>2, <2>3 DEF Due
<1> QED BY <1>1, <1>2, <1>3

\* The row the server is looking at is the next one of those collected.
LEMMA CurrentIndex ==
  ASSUME TypeOK, RestOK, toSend # <<>>
  PROVE  \E i \in DOMAIN collected : IsCurrent(i) /\ collected[i] = Current
<1> DEFINE i == Len(collected) - Len(toSend) + 1
<1>1. Len(toSend) > 0 /\ i \in DOMAIN collected /\ 1 \in DOMAIN toSend
  BY CollectedTypes
<1>2. toSend[1] = collected[i]
  BY <1>1 DEF RestOK
<1> QED BY <1>1, <1>2, CurrentRow DEF IsCurrent

\* Its rest after the next row was dealt with.
LEMMA RestTail ==
  ASSUME TypeOK, RestOK, toSend # <<>>, toSend' = Tail(toSend), UNCHANGED collected
  PROVE  /\ RestOK' /\ Len(toSend') + 1 = Len(toSend)
         /\ \A i \in DOMAIN collected : Looked(i)' <=> Looked(i) \/ IsCurrent(i)
<1>1. IsTail(MacRow, toSend', toSend)
  BY CurrentRow
<1>2. /\ Len(toSend') + 1 = Len(toSend) /\ Len(toSend') \in Nat /\ DOMAIN toSend' = 1 .. Len(toSend')
      /\ \A k \in DOMAIN toSend' : k + 1 \in DOMAIN toSend /\ toSend'[k] = toSend[k + 1]
  BY <1>1, Zenon DEF IsTail
<1>3. ASSUME NEW k \in DOMAIN toSend'
      PROVE  toSend'[k] = collected'[Len(collected') - Len(toSend') + k]
  <2>1. k + 1 \in DOMAIN toSend /\ toSend'[k] = toSend[k + 1]
    BY <1>2
  <2>2. toSend[k + 1] = collected[Len(collected) - Len(toSend) + (k + 1)]
    BY <2>1 DEF RestOK
  <2>3. Len(collected) - Len(toSend) + (k + 1) = Len(collected) - Len(toSend') + k
    BY <1>2, CollectedTypes
  <2> QED BY <2>1, <2>2, <2>3
<1>4. Len(toSend') <= Len(collected')
  BY <1>2, CollectedTypes
<1>5. RestOK'
  BY <1>3, <1>4 DEF RestOK, SameElement
<1>6. ASSUME NEW i \in DOMAIN collected
      PROVE  Looked(i)' <=> Looked(i) \/ IsCurrent(i)
  <2>1. /\ Looked(i)' <=> i <= Len(collected) - Len(toSend')
        /\ Looked(i) <=> i <= Len(collected) - Len(toSend)
        /\ IsCurrent(i) <=> i = Len(collected) - Len(toSend) + 1
    BY DEF Looked, IsCurrent
  <2>2. i \in Nat /\ Len(collected) \in Nat /\ Len(toSend) \in Nat
    BY CollectedTypes
  <2> QED BY <1>2, <2>1, <2>2
<1> QED BY <1>2, <1>5, <1>6

\* Either the rows are collected, or one of them is done, or the rest stays.
LEMMA RestKept ==
  ASSUME TypeOK, Places, RestOK, \A m \in Mac : OneRowEach(table[m]), [Next]_vars
  PROVE  RestOK'
<1>1. CASE UNCHANGED <<toSend, collected>>
  BY <1>1 DEF RestOK
<1>2. CASE toSend # <<>> /\ toSend' = Tail(toSend) /\ UNCHANGED collected
  BY <1>2, RestTail
<1>3. CASE Collect
  <2>1. /\ toSend' \in Seq(MacRow) /\ collected' = toSend'
        /\ \A i, j \in DOMAIN collected' : SameElement(collected'[i], collected'[j]) => i = j
    BY <1>3, CollectedRows
  <2>2. \A k \in DOMAIN toSend' : Len(collected') - Len(toSend') + k = k
    BY <2>1
  <2>3. Len(toSend') <= Len(collected')
    BY <2>1
  <2> QED BY <2>1, <2>2, <2>3 DEF RestOK, SameElement
<1>4. CASE Authenticate \/ Client \/ Lose \/ Killed \/ Administers \/ UNCHANGED vars \/ Other
  BY <1>1, <1>4 DEF Authenticate, Client, RetrieveFiles, MakeDir, StoreFile, StoreData, Retrieved, Fails, Lose, Killed,
       Administers, vars, sendVars, Other, Recover, OtherStores, OtherRemoves, OtherRows
<1>5. CASE Server /\ ~Collect
  <2>1. sess \in {"open", "forget"} => toSend # <<>>
    BY DEF Places
  <2>2. \/ UNCHANGED <<toSend, collected>>
        \/ toSend # <<>> /\ toSend' = Tail(toSend) /\ UNCHANGED collected
    BY <1>5, <2>1 DEF Server, CheckPassword, LookAt, Examine, OpenAndSend, Forget, EndOfData, Vanished, Leave, Unchanged
  <2> QED BY <1>1, <1>2, <2>2
<1> QED BY <1>3, <1>4, <1>5 DEF Next
-----------------------------------------------------------------------------
(* What the server saw.                                                     *)

LEMMA LooksFramed ==
  ASSUME TypeOK, Places, RestOK, LooksOK, Framed, UNCHANGED <<sess, toSend>>
  PROVE  LooksOK'
<1>1. CASE sess \notin {"examine", "open", "forget"}
  BY <1>1 DEF LooksOK
<1>2. CASE sess \in {"examine", "open", "forget"}
  <2>1. toSend # <<>>
    BY <1>2 DEF Places
  <2>2. PICK i \in DOMAIN collected : IsCurrent(i) /\ collected[i] = Current
    BY <2>1, CurrentIndex
  <2>3. UNCHANGED Current /\ collected'[i] = collected[i]
    BY <2>2, FramedRows DEF Current
  <2>4. /\ Untouched(collected[i])' => /\ Untouched(collected[i])
                                       /\ backup'[Current.mac][Current.path] = backup[Current.mac][Current.path]
        /\ Due(collected[i])' => Due(collected[i])
    <3>1. Current.mac \in Mac /\ Current.path \in Path
      BY <2>1, CurrentRow, RowTypes
    <3>2. Untouched(collected[i])' => <<Current.mac, Current.path>> \notin touched'
      BY <2>2, <2>3 DEF Untouched
    <3> QED BY <2>2, <3>1, <3>2, FramedRows DEF Framed
  <2>5. /\ Untouched(Current)' => /\ Untouched(Current)
                                  /\ backup'[Current.mac][Current.path] = backup[Current.mac][Current.path]
        /\ Due(Current)' => Due(Current)
    BY <2>2, <2>3, <2>4 DEF Untouched, Due, Matches, Exists, IsDir
  <2>6. sess' \in {"examine", "open"} => /\ Current'.entry.type = "file"
                                         /\ Untouched(Current)' => Exists(OnDisk, Current.path)'
    BY <2>3, <2>5 DEF LooksOK, Exists, OnDisk
  <2>7. sess' = "open" => (Untouched(Current)' => OnDisk'[Current'.path].hash = Current'.entry.hash)
    BY <2>3, <2>5 DEF LooksOK, OnDisk
  <2>8. sess' = "forget" => ~Due(Current)'
    BY <2>5 DEF LooksOK
  <2> QED BY <2>6, <2>7, <2>8 DEF LooksOK
<1> QED BY <1>1, <1>2

LEMMA LooksKept ==
  ASSUME TypeOK, Places, RestOK, LooksOK, [Next]_vars
  PROVE  LooksOK'
<1>1. CASE sess' \notin {"examine", "open", "forget"}
  BY <1>1 DEF LooksOK
<1>2. CASE Administers \/ Collect
  <2>1. sess' \notin {"examine", "open", "forget"}
    BY <1>2 DEF Administers, Collect, sendVars, Places
  <2> QED BY <1>1, <2>1
<1>3. CASE UNCHANGED <<sess, toSend>> /\ ~Administers /\ ~Collect
  BY <1>3, FramedSteps, LooksFramed
<1>4. ASSUME UNCHANGED <<backup, touched, toSend>>, toSend # <<>>
      PROVE  /\ UNCHANGED <<Current, OnDisk>>
             /\ Due(Current)' <=> Due(Current)
             /\ Untouched(Current)' <=> Untouched(Current)
             /\ Exists(OnDisk, Current.path)' <=> Exists(OnDisk, Current.path)
  BY <1>4 DEF Current, OnDisk, Due, Matches, Exists, IsDir, Untouched
<1>5. CASE LookAt
  <2>1. toSend # <<>> /\ UNCHANGED <<backup, touched>>
    BY <1>5 DEF LookAt, Unchanged, accountVars, otherVars
  <2>2. CASE sess' = "forget"
    <3>1. ~Exists(OnDisk, Current.path) /\ UNCHANGED toSend
      BY <1>5, <2>2 DEF LookAt
    <3>2. ~Due(Current)
      BY <3>1 DEF Due, Matches, IsDir, OnDisk
    <3> QED BY <1>4, <2>1, <2>2, <3>1, <3>2 DEF LooksOK
  <2>3. CASE sess' = "examine"
    <3>1. Exists(OnDisk, Current.path) /\ UNCHANGED toSend /\ Current.entry.type = "file"
      BY <1>5, <2>3 DEF LookAt
    <3> QED BY <1>4, <2>1, <2>3, <3>1 DEF LooksOK
  <2>4. sess' \in {"look", "forget", "examine"}
    BY <1>5 DEF LookAt
  <2> QED BY <1>1, <2>2, <2>3, <2>4
<1>6. CASE Examine
  <2>1. toSend # <<>> /\ UNCHANGED <<backup, touched, toSend>> /\ Current.entry.type = "file"
        /\ Exists(OnDisk, Current.path)
    BY <1>6 DEF Examine, Unchanged, accountVars, otherVars, Places, LooksOK
  <2>2. CASE sess' = "forget"
    <3>1. OnDisk[Current.path].hash # Current.entry.hash
      BY <1>6, <2>2 DEF Examine
    <3>2. ~Due(Current)
      BY <2>1, <3>1 DEF Due, Matches, OnDisk
    <3> QED BY <1>4, <2>1, <2>2, <3>2 DEF LooksOK
  <2>3. CASE sess' = "open"
    <3>1. OnDisk[Current.path].hash = Current.entry.hash
      BY <1>6, <2>3 DEF Examine
    <3>2. OnDisk'[Current'.path].hash = Current'.entry.hash
      BY <1>4, <2>1, <3>1
    <3> QED BY <1>4, <2>1, <2>3, <3>2 DEF LooksOK
  <2>4. sess' \in {"open", "forget"}
    BY <1>6 DEF Examine
  <2> QED BY <2>2, <2>3, <2>4
<1>7. CASE Authenticate \/ Killed \/ CheckPassword \/ OpenAndSend \/ Forget \/ EndOfData \/ Vanished \/ Leave
  BY <1>1, <1>7 DEF Authenticate, Killed, CheckPassword, OpenAndSend, Forget, EndOfData, Vanished, Leave
<1>8. CASE Client \/ Other \/ Lose \/ UNCHANGED vars
  <2>1. UNCHANGED <<sess, toSend>>
    BY <1>8 DEF Client, RetrieveFiles, MakeDir, StoreFile, StoreData, Retrieved, Fails, Lose,
       Administers, vars, sendVars, Other, Recover, OtherStores, OtherRemoves, OtherRows
  <2> QED BY <1>2, <1>3, <2>1
<1> QED BY <1>2, <1>5, <1>6, <1>7, <1>8 DEF Next, Server
-----------------------------------------------------------------------------
(* The messages on their way.                                               *)

\* The first d messages are received or lost.
Dropped(d) ==
    /\ d \in Nat /\ down' \in Seq(Messages) /\ Len(down) = Len(down') + d
    /\ \A n \in DOMAIN down' : n + d \in DOMAIN down /\ down'[n] = down[n + d]

\* Meanwhile the server may look at a row, or be done with one it forgets, or leave.
GoesOn ==
    \/ down' = <<>>
    \/ UNCHANGED <<sess, toSend>>
    \/ sess' = "none" /\ UNCHANGED toSend
    \/ sess \in {"look", "examine"} /\ sess' \in {"examine", "forget"} /\ UNCHANGED toSend
    \/ sess = "forget" /\ sess' = "look" /\ toSend # <<>> /\ toSend' = Tail(toSend)

LEMMA AboutOne ==
  ASSUME RestOK, NEW n, NEW i \in DOMAIN collected, NEW j \in DOMAIN collected,
         About(n, i), About(n, j)
  PROVE  i = j
  BY DEF RestOK, About, SameElement

LEMMA DroppedKept ==
  ASSUME TypeOK, RestOK, MessagesOK, Framed, NEW d, Dropped(d), GoesOn
  PROVE  MessagesOK'
<1>1. /\ d \in Nat /\ down' \in Seq(Messages) /\ Len(down) = Len(down') + d
      /\ \A n \in DOMAIN down' : n + d \in DOMAIN down /\ down'[n] = down[n + d]
      /\ DOMAIN down' = 1 .. Len(down') /\ Len(down') \in Nat /\ down \in Seq(Messages)
      /\ DOMAIN down = 1 .. Len(down) /\ Len(down) \in Nat
  BY DEF TypeOK, Dropped
<1>2. UNCHANGED collected /\ touched \subseteq touched'
  BY DEF Framed
<1>3. ASSUME down' = <<>> PROVE MessagesOK'
  <2>1. DOMAIN down' = {}
    BY <1>1, <1>3
  <2> QED BY <2>1 DEF MessagesOK, RowsMeant, LastWord, StorePairs, InOrder
<1> SUFFICES ASSUME down' # <<>> PROVE MessagesOK'
  BY <1>3
<1>4. /\ sess' \in Working => sess \in Working
      /\ sess \in {"open", "none"} => sess' \in {"open", "none"}
      /\ sess' = "open" => sess = "open" /\ UNCHANGED toSend
      /\ sess \in {"open", "none"} => UNCHANGED toSend
      /\ toSend = <<>> => UNCHANGED toSend
      /\ UNCHANGED toSend \/ (toSend # <<>> /\ toSend' = Tail(toSend))
  BY DEF GoesOn, Working
<1>5. ASSUME NEW i \in DOMAIN collected PROVE Looked(i) => Looked(i)'
  <2>1. CASE UNCHANGED toSend
    BY <1>2, <2>1 DEF Looked
  <2>2. CASE toSend # <<>> /\ toSend' = Tail(toSend)
    BY <1>2, <2>2, RestTail
  <2> QED BY <1>4, <2>1, <2>2
<1>6. \A n \in DOMAIN down' : /\ OfRow(n)' <=> OfRow(n + d)
                             /\ \A i : About(n, i)' <=> About(n + d, i)
  BY <1>1, <1>2 DEF OfRow, About
<1>7. RowsMeant'
  <2> SUFFICES ASSUME NEW n \in DOMAIN down', OfRow(n)'
               PROVE  \E i \in DOMAIN collected' : IsAbout(n, i)'
    BY DEF RowsMeant
  <2>1. n + d \in DOMAIN down /\ down'[n] = down[n + d] /\ OfRow(n + d) /\ down[n + d] \in Messages
    BY <1>1, <1>6
  <2>2. PICK i \in DOMAIN collected : IsAbout(n + d, i)
    BY <2>1 DEF MessagesOK, RowsMeant
  <2>3. About(n, i)'
    BY <1>6, <2>2 DEF IsAbout
  <2>4. \/ Looked(i)'
        \/ IsCurrent(i)' /\ n = Len(down') /\ down'[n].type = "STOR" /\ sess' \in {"open", "none"}
    <3>1. CASE Looked(i)
      BY <1>5, <3>1
    <3>2. CASE IsCurrent(i) /\ n + d = Len(down) /\ down[n + d].type = "STOR" /\ sess \in {"open", "none"}
      <4>1. n = Len(down')
        BY <1>1, <3>2
      <4>2. UNCHANGED toSend /\ sess' \in {"open", "none"}
        BY <1>4, <3>2
      <4> QED BY <1>2, <2>1, <3>2, <4>1, <4>2 DEF IsCurrent
    <3> QED BY <2>2, <3>1, <3>2 DEF IsAbout
  <2>5. /\ down'[n].type \in {"MKD", "STOR"} => down'[n].row = collected'[i]
        /\ collected'[i].entry.type = (IF down'[n].type = "MKD" THEN "directory" ELSE "file")
    BY <1>2, <2>1, <2>2 DEF IsAbout
  <2>6. \A q \in Ancestors[down'[n].row.path] : IsDir(backup'[down'[n].row.mac], q)
    <3>1. down'[n].row.mac \in Mac /\ Ancestors[down'[n].row.path] \subseteq Path
      BY <2>1, MessageTypes, RowTypes DEF OfRow, RowTags
    <3>2. \A q \in Ancestors[down'[n].row.path] : IsDir(backup[down'[n].row.mac], q)
      BY <2>1, <2>2 DEF IsAbout
    <3> QED BY <3>1, <3>2 DEF Framed
  <2>7. IsAbout(n, i)'
    BY <2>3, <2>4, <2>5, <2>6 DEF IsAbout
  <2> QED BY <1>2, <2>7
<1>8. LastWord'
  <2> SUFFICES ASSUME NEW n \in DOMAIN down'
               PROVE  /\ ~OfRow(n)' => n = Len(down') /\ sess' \notin Working
                      /\ down'[n].type = "OK" => toSend' = <<>>
    BY DEF LastWord
  <2>1. n + d \in DOMAIN down /\ down'[n] = down[n + d] /\ (OfRow(n)' <=> OfRow(n + d))
    BY <1>1, <1>6
  <2>2. /\ ~OfRow(n + d) => n + d = Len(down) /\ sess \notin Working
        /\ down[n + d].type = "OK" => toSend = <<>>
    BY <2>1 DEF MessagesOK, LastWord
  <2> QED BY <1>1, <1>4, <2>1, <2>2
<1>9. StorePairs'
  <2> SUFFICES ASSUME NEW n \in DOMAIN down', down'[n].type = "STOR"
               PROVE  IF n = Len(down')
                      THEN sess' \in {"open", "none"} /\ (sess' = "open" => down'[n].row = Current')
                      ELSE /\ down'[n + 1].type = "DATA"
                           /\ Untouched(down[n].row)' => down'[n + 1].row.entry.hash = down'[n].row.entry.hash
    BY DEF StorePairs
  <2>1. n + d \in DOMAIN down /\ down'[n] = down[n + d] /\ n \in Nat
    BY <1>1
  <2>2. CASE n = Len(down')
    <3>1. n + d = Len(down)
      BY <1>1, <2>2
    <3>2. sess \in {"open", "none"} /\ (sess = "open" => down[n + d].row = Current)
      BY <2>1, <3>1 DEF MessagesOK, StorePairs
    <3> QED BY <1>4, <2>1, <2>2, <3>2 DEF Current
  <2>3. CASE n # Len(down')
    <3>1. n + d # Len(down) /\ n + 1 \in DOMAIN down'
      BY <1>1, <2>3
    <3>2. down'[n + 1] = down[(n + d) + 1]
      <4>1. (n + 1) + d = (n + d) + 1
        BY <1>1, <2>1
      <4>2. down'[n + 1] = down[(n + 1) + d]
        BY <1>1, <3>1
      <4> QED BY <4>1, <4>2
    <3>3. /\ down[(n + d) + 1].type = "DATA"
          /\ Untouched(down[n + d].row) => down[(n + d) + 1].row.entry.hash = down[n + d].row.entry.hash
      BY <2>1, <3>1 DEF MessagesOK, StorePairs
    <3>4. Untouched(down[n].row)' => Untouched(down[n + d].row)
      BY <1>2, <2>1 DEF Untouched
    <3> QED BY <2>1, <2>3, <3>2, <3>3, <3>4
  <2> QED BY <2>2, <2>3
<1>10. InOrder'
  <2> SUFFICES ASSUME NEW m \in DOMAIN down', NEW n \in DOMAIN down',
                      NEW i \in DOMAIN collected', NEW j \in DOMAIN collected',
                      m < n, OfRow(m)', OfRow(n)', About(m, i)', About(n, j)'
               PROVE  i < j \/ (i = j /\ n = m + 1 /\ down'[m].type = "STOR")
    BY DEF InOrder
  <2>1. /\ m + d \in DOMAIN down /\ n + d \in DOMAIN down /\ m + d < n + d
        /\ (n + d = (m + d) + 1 => n = m + 1) /\ down'[m] = down[m + d]
    BY <1>1
  <2>2. OfRow(m + d) /\ OfRow(n + d) /\ About(m + d, i) /\ About(n + d, j)
    BY <1>6
  <2>3. i < j \/ (i = j /\ n + d = (m + d) + 1 /\ down[m + d].type = "STOR")
    BY <1>2, <2>1, <2>2 DEF MessagesOK, InOrder
  <2> QED BY <2>1, <2>3
<1> QED BY <1>7, <1>8, <1>9, <1>10 DEF MessagesOK

\* A message about the row the server is looking at.
SendsRow(m) ==
    /\ toSend # <<>> /\ Exists(OnDisk, Current.path)
    /\ SameElement(Current, m.row)
    /\ m.type \in {"MKD", "STOR"} => m.row = Current
    /\ Current.entry.type = (IF m.type = "MKD" THEN "directory" ELSE "file")
    /\ \/ m.type = "MKD" /\ sess = "look" /\ sess' = "look" /\ toSend' = Tail(toSend)
       \/ m.type = "STOR" /\ sess = "examine" /\ sess' = "open" /\ UNCHANGED toSend
       \/ /\ m.type = "DATA" /\ sess = "open" /\ sess' = "look" /\ toSend' = Tail(toSend)
          /\ Untouched(Current) => m.row.entry.hash = Current.entry.hash

LEMMA RowSent ==
  ASSUME TypeOK, RestOK, MessagesOK, Framed, NEW m \in Messages, SendsRow(m),
         IsAppended(Messages, down', down, m)
  PROVE  MessagesOK'
<1>1. UNCHANGED collected /\ touched \subseteq touched'
  BY DEF Framed
<1>2. /\ down' \in Seq(Messages) /\ Len(down') = Len(down) + 1 /\ down'[Len(down')] = m
      /\ DOMAIN down' = 1 .. Len(down') /\ DOMAIN down = 1 .. Len(down) /\ Len(down) \in Nat
      /\ Len(down') \in DOMAIN down'
      /\ \A k \in DOMAIN down : k \in DOMAIN down' /\ down'[k] = down[k] /\ k # Len(down') /\ k < Len(down')
      /\ \A k \in DOMAIN down' : k # Len(down') => k \in DOMAIN down
  BY Zenon DEF IsAppended
<1>0. PICK last : last = Len(down')
  OBVIOUS
<1>3. PICK c \in DOMAIN collected : IsCurrent(c) /\ collected[c] = Current
  BY CurrentIndex DEF SendsRow
<1>4. sess \in Working /\ m.type \in RowTags /\ toSend # <<>>
      /\ (UNCHANGED toSend \/ toSend' = Tail(toSend))
  BY DEF SendsRow, Working, RowTags
<1>5. \A n \in DOMAIN down : OfRow(n) /\ \E i \in DOMAIN collected : IsAbout(n, i)
  BY <1>4 DEF MessagesOK, LastWord, RowsMeant
<1>6. /\ \A i \in DOMAIN collected : Looked(i) => Looked(i)'
      /\ toSend' = Tail(toSend) => Looked(c)'
      /\ UNCHANGED toSend => IsCurrent(c)'
  <2>1. CASE UNCHANGED toSend
    BY <1>1, <1>3, <2>1, CurrentRow DEF Looked, IsCurrent, IsTail
  <2>2. CASE toSend' = Tail(toSend)
    <3>1. Len(toSend') + 1 = Len(toSend) /\ \A i \in DOMAIN collected : Looked(i)' <=> Looked(i) \/ IsCurrent(i)
      BY <1>1, <1>4, <2>2, RestTail
    <3>2. ~UNCHANGED toSend
      BY <3>1, CollectedTypes
    <3> QED BY <1>3, <3>1, <3>2
  <2> QED BY <1>4, <2>1, <2>2
<1>7. /\ \A n \in DOMAIN down : /\ OfRow(n)' <=> OfRow(n)
                              /\ \A i : About(n, i)' <=> About(n, i)
      /\ OfRow(last)' /\ About(last, c)'
  <2>1. \A n \in DOMAIN down : /\ OfRow(n)' <=> OfRow(n)
                             /\ \A i : About(n, i)' <=> About(n, i)
    BY <1>1, <1>2 DEF OfRow, About
  <2>2. OfRow(last)'
    BY <1>0, <1>2, <1>4 DEF OfRow
  <2>3. About(last, c)'
    BY <1>0, <1>1, <1>2, <1>3 DEF About, SendsRow
  <2> QED BY <2>1, <2>2, <2>3
<1>8. RowsMeant'
  <2>1. ASSUME NEW n \in DOMAIN down PROVE \E i \in DOMAIN collected' : IsAbout(n, i)'
    <3>1. n \in DOMAIN down' /\ down'[n] = down[n] /\ down[n] \in Messages /\ OfRow(n)
      BY <1>2, <1>5, ElementOfSeq DEF TypeOK
    <3>2. PICK i \in DOMAIN collected : IsAbout(n, i)
      BY <1>5
    <3>3. Looked(i)'
      <4>1. CASE Looked(i)
        BY <1>6, <4>1
      <4>2. CASE IsCurrent(i) /\ sess \in {"open", "none"}
        <5>1. sess = "open" /\ toSend' = Tail(toSend)
          BY <4>2 DEF SendsRow
        <5>2. i = c
          BY <1>3, <4>2 DEF IsCurrent
        <5> QED BY <1>6, <5>1, <5>2
      <4> QED BY <3>2, <4>1, <4>2 DEF IsAbout
    <3>4. About(n, i)'
      BY <1>7, <3>2 DEF IsAbout
    <3>5. \A q \in Ancestors[down'[n].row.path] : IsDir(backup'[down'[n].row.mac], q)
      <4>1. down'[n].row.mac \in Mac /\ Ancestors[down'[n].row.path] \subseteq Path
        BY <3>1, MessageTypes, RowTypes DEF OfRow, RowTags
      <4>2. \A q \in Ancestors[down'[n].row.path] : IsDir(backup[down'[n].row.mac], q)
        BY <3>1, <3>2 DEF IsAbout
      <4> QED BY <4>1, <4>2 DEF Framed
    <3>6. /\ down'[n].type \in {"MKD", "STOR"} => down'[n].row = collected'[i]
          /\ collected'[i].entry.type = (IF down'[n].type = "MKD" THEN "directory" ELSE "file")
      BY <1>1, <3>1, <3>2 DEF IsAbout
    <3>7. IsAbout(n, i)'
      BY <3>3, <3>4, <3>5, <3>6 DEF IsAbout
    <3> QED BY <1>1, <3>7
  <2>2. IsAbout(last, c)'
    <3>1. \/ Looked(c)'
          \/ IsCurrent(c)' /\ last = Len(down') /\ down'[last].type = "STOR" /\ sess' \in {"open", "none"}
      BY <1>0, <1>2, <1>6 DEF SendsRow
    <3>2. /\ down'[last].type \in {"MKD", "STOR"} => down'[last].row = collected'[c]
          /\ collected'[c].entry.type = (IF down'[last].type = "MKD" THEN "directory" ELSE "file")
      BY <1>0, <1>1, <1>2, <1>3 DEF SendsRow
    <3>3. \A q \in Ancestors[down'[last].row.path] : IsDir(backup'[down'[last].row.mac], q)
      <4>1. /\ m.row.mac = Current.mac /\ m.row.path = Current.path /\ Current.mac \in Mac
            /\ Current.path \in Path /\ Ancestors[Current.path] \subseteq Path
        BY <1>4, CurrentRow, RowTypes DEF SendsRow, SameElement
      <4>2. \A q \in Ancestors[Current.path] : IsDir(backup[Current.mac], q)
        BY <1>4, <4>1, CurrentRow DEF SendsRow, WellFormed
      <4> QED BY <1>0, <1>2, <4>1, <4>2 DEF Framed
    <3> QED BY <1>7, <3>1, <3>2, <3>3 DEF IsAbout
  <2>3. ASSUME NEW n \in DOMAIN down' PROVE \E i \in DOMAIN collected' : IsAbout(n, i)'
    <3>1. CASE n \in DOMAIN down
      BY <2>1, <3>1
    <3>2. CASE n = last
      BY <1>1, <2>2, <3>2
    <3> QED BY <1>0, <1>2, <3>1, <3>2
  <2> QED BY <2>3 DEF RowsMeant
<1>9. LastWord'
  <2>1. ASSUME NEW n \in DOMAIN down' PROVE OfRow(n)'
    BY <1>0, <1>2, <1>5, <1>7
  <2> QED BY <2>1 DEF LastWord, OfRow, RowTags
<1>10. StorePairs'
  <2> SUFFICES ASSUME NEW n \in DOMAIN down', down'[n].type = "STOR"
               PROVE  IF n = Len(down')
                      THEN sess' \in {"open", "none"} /\ (sess' = "open" => down'[n].row = Current')
                      ELSE /\ down'[n + 1].type = "DATA"
                           /\ Untouched(down[n].row)' => down'[n + 1].row.entry.hash = down'[n].row.entry.hash
    BY DEF StorePairs
  <2>1. CASE n = last
    BY <1>0, <1>2, <2>1 DEF SendsRow, Current
  <2>2. CASE n # last
    <3>1. n \in DOMAIN down /\ down'[n] = down[n] /\ n \in Nat
      BY <1>0, <1>2, <2>2
    <3>2. CASE n = Len(down)
      <4>1. sess \in {"open", "none"} /\ (sess = "open" => down[n].row = Current)
        BY <2>2, <3>1, <3>2 DEF MessagesOK, StorePairs
      <4>2. /\ m.type = "DATA" /\ down[n].row = Current /\ n + 1 = last
            /\ Untouched(Current) => m.row.entry.hash = Current.entry.hash
        BY <1>0, <1>2, <3>2, <4>1 DEF SendsRow
      <4>3. Untouched(down[n].row)' => Untouched(Current)
        BY <1>1, <3>1, <4>2 DEF Untouched
      <4> QED BY <1>0, <1>2, <2>2, <3>1, <4>2, <4>3
    <3>3. CASE n # Len(down)
      <4>1. n + 1 \in DOMAIN down /\ down'[n + 1] = down[n + 1]
        BY <1>2, <3>1, <3>3
      <4>2. /\ down[n + 1].type = "DATA"
            /\ Untouched(down[n].row) => down[n + 1].row.entry.hash = down[n].row.entry.hash
        BY <2>2, <3>1, <3>3 DEF MessagesOK, StorePairs
      <4>3. Untouched(down[n].row)' => Untouched(down[n].row)
        BY <1>1, <3>1 DEF Untouched
      <4> QED BY <1>0, <2>2, <3>1, <4>1, <4>2, <4>3
    <3> QED BY <3>2, <3>3
  <2> QED BY <2>1, <2>2
<1>11. InOrder'
  <2> SUFFICES ASSUME NEW k \in DOMAIN down', NEW n \in DOMAIN down',
                      NEW i \in DOMAIN collected, NEW j \in DOMAIN collected,
                      k < n, OfRow(k)', OfRow(n)', About(k, i)', About(n, j)'
               PROVE  i < j \/ (i = j /\ n = k + 1 /\ down'[k].type = "STOR")
    BY <1>1 DEF InOrder
  <2>1. k \in DOMAIN down /\ down'[k] = down[k] /\ About(k, i) /\ OfRow(k)
    BY <1>2, <1>5, <1>7
  <2>2. CASE n \in DOMAIN down
    <3>1. About(n, j) /\ OfRow(n)
      BY <1>7, <2>2
    <3> QED BY <2>1, <2>2, <3>1 DEF MessagesOK, InOrder
  <2>3. CASE n = last
    <3>1. j = c
      BY <1>0, <1>1, <1>2, <1>3, <2>3 DEF About, SendsRow, RestOK, SameElement
    <3>2. IsAbout(k, i)
      <4>1. PICK x \in DOMAIN collected : IsAbout(k, x)
        BY <1>5, <2>1
      <4>2. x = i
        BY <2>1, <4>1, AboutOne DEF IsAbout
      <4> QED BY <4>1, <4>2
    <3>3. CASE Looked(i)
      BY <1>3, <3>1, <3>3, CollectedTypes DEF Looked, IsCurrent
    <3>4. CASE IsCurrent(i) /\ k = Len(down) /\ down[k].type = "STOR"
      BY <1>0, <1>2, <1>3, <2>1, <2>3, <3>1, <3>4 DEF IsCurrent
    <3> QED BY <3>2, <3>3, <3>4 DEF IsAbout
  <2> QED BY <1>0, <1>2, <2>2, <2>3
<1> QED BY <1>8, <1>9, <1>10, <1>11 DEF MessagesOK

LEMMA AnswerSent ==
  ASSUME TypeOK, RestOK, MessagesOK, Framed, NEW m \in Messages, m.type \notin RowTags,
         IsAppended(Messages, down', down, m), sess' \notin Working, UNCHANGED toSend,
         m.type = "OK" => toSend = <<>>, down = <<>> \/ sess \in {"look", "examine"}
  PROVE  MessagesOK'
<1>1. UNCHANGED collected /\ touched \subseteq touched'
  BY DEF Framed
<1>2. /\ down' \in Seq(Messages) /\ Len(down') = Len(down) + 1 /\ down'[Len(down')] = m
      /\ DOMAIN down' = 1 .. Len(down') /\ DOMAIN down = 1 .. Len(down) /\ Len(down) \in Nat
      /\ \A k \in DOMAIN down : k \in DOMAIN down' /\ down'[k] = down[k] /\ k # Len(down') /\ k < Len(down')
      /\ \A k \in DOMAIN down' : k # Len(down') => k \in DOMAIN down
  BY Zenon DEF IsAppended
<1>3. sess \in Working \/ DOMAIN down = {}
  BY DEF Working
<1>4. \A n \in DOMAIN down : /\ OfRow(n) /\ down[n].type # "OK"
                             /\ \E i \in DOMAIN collected : IsAbout(n, i) /\ Looked(i)
                             /\ n = Len(down) => down[n].type # "STOR"
  BY <1>3 DEF MessagesOK, LastWord, RowsMeant, StorePairs, OfRow, RowTags, IsAbout
<1>5. \A n \in DOMAIN down' : OfRow(n)' => n \in DOMAIN down
  BY <1>2 DEF OfRow
<1>6. \A n \in DOMAIN down : \A i : About(n, i)' <=> About(n, i)
  BY <1>1, <1>2 DEF About
<1>7. RowsMeant'
  <2> SUFFICES ASSUME NEW n \in DOMAIN down', OfRow(n)'
               PROVE  \E i \in DOMAIN collected' : IsAbout(n, i)'
    BY DEF RowsMeant
  <2>1. n \in DOMAIN down /\ down'[n] = down[n] /\ down[n] \in Messages /\ OfRow(n)
    BY <1>2, <1>4, <1>5, ElementOfSeq DEF TypeOK
  <2>2. PICK i \in DOMAIN collected : IsAbout(n, i) /\ Looked(i)
    BY <1>4, <2>1
  <2>3. Looked(i)' /\ About(n, i)'
    BY <1>1, <1>6, <2>1, <2>2 DEF Looked, IsAbout
  <2>4. /\ down'[n].row.mac \in Mac /\ Ancestors[down'[n].row.path] \subseteq Path
        /\ \A q \in Ancestors[down'[n].row.path] : IsDir(backup[down'[n].row.mac], q)
    BY <2>1, <2>2, MessageTypes, RowTypes DEF OfRow, RowTags, IsAbout
  <2>5. \A q \in Ancestors[down'[n].row.path] : IsDir(backup'[down'[n].row.mac], q)
    BY <2>4 DEF Framed
  <2>6. /\ down'[n].type \in {"MKD", "STOR"} => down'[n].row = collected'[i]
        /\ collected'[i].entry.type = (IF down'[n].type = "MKD" THEN "directory" ELSE "file")
    BY <1>1, <2>1, <2>2 DEF IsAbout
  <2>7. IsAbout(n, i)'
    BY <2>3, <2>5, <2>6 DEF IsAbout
  <2> QED BY <1>1, <2>7
<1>8. LastWord'
  BY <1>2, <1>4 DEF LastWord, OfRow
<1>9. StorePairs'
  <2> SUFFICES ASSUME NEW n \in DOMAIN down', down'[n].type = "STOR"
               PROVE  /\ n # Len(down') /\ down'[n + 1].type = "DATA"
                      /\ Untouched(down[n].row)' => down'[n + 1].row.entry.hash = down'[n].row.entry.hash
    BY Zenon DEF StorePairs
  <2>1. n \in DOMAIN down /\ down'[n] = down[n] /\ n # Len(down')
    BY <1>2, <1>5 DEF OfRow, RowTags
  <2>2. n # Len(down) /\ n + 1 \in DOMAIN down
    BY <1>2, <1>4, <2>1
  <2>3. /\ down[n + 1].type = "DATA"
        /\ Untouched(down[n].row) => down[n + 1].row.entry.hash = down[n].row.entry.hash
    BY <2>1, <2>2 DEF MessagesOK, StorePairs
  <2>4. Untouched(down[n].row)' => Untouched(down[n].row)
    BY <1>1, <2>1 DEF Untouched
  <2> QED BY <1>2, <2>1, <2>2, <2>3, <2>4
<1>10. InOrder'
  <2> SUFFICES ASSUME NEW k \in DOMAIN down', NEW n \in DOMAIN down',
                      NEW i \in DOMAIN collected, NEW j \in DOMAIN collected,
                      k < n, OfRow(k)', OfRow(n)', About(k, i)', About(n, j)'
               PROVE  i < j \/ (i = j /\ n = k + 1 /\ down'[k].type = "STOR")
    BY <1>1 DEF InOrder
  <2>1. /\ k \in DOMAIN down /\ n \in DOMAIN down /\ down'[k] = down[k]
        /\ About(k, i) /\ OfRow(k) /\ About(n, j) /\ OfRow(n)
    BY <1>2, <1>4, <1>5, <1>6
  <2> QED BY <2>1 DEF MessagesOK, InOrder
<1> QED BY <1>7, <1>8, <1>9, <1>10 DEF MessagesOK

LEMMA TailTwice ==
  ASSUME down \in Seq(Messages), Len(down) > 1, down' = Tail(Tail(down))
  PROVE  Dropped(2)
<1> DEFINE t == Tail(down)
<1>1. IsTail(Messages, t, down)
  BY TailElements
<1>2. t \in Seq(Messages) /\ t # <<>>
  <2> HIDE DEF t
  <2>1. t \in Seq(Messages) /\ Len(t) + 1 = Len(down) /\ Len(t) \in Nat
    BY <1>1, Zenon DEF IsTail
  <2>2. Len(t) # 0
    BY <2>1
  <2> QED BY <2>1, <2>2
<1>3. IsTail(Messages, Tail(t), t)
  BY <1>2, TailElements
<1>4. down' = Tail(t)
  OBVIOUS
<1> HIDE DEF t
<1>5. /\ down' \in Seq(Messages) /\ Len(down') \in Nat /\ Len(down') + 1 = Len(t) /\ Len(t) + 1 = Len(down)
      /\ \A k \in DOMAIN down' : k + 1 \in DOMAIN t /\ down'[k] = t[k + 1]
      /\ \A k \in DOMAIN t : k + 1 \in DOMAIN down /\ t[k] = down[k + 1]
      /\ DOMAIN down' = 1 .. Len(down')
  BY <1>1, <1>3, <1>4 DEF IsTail
<1>6. ASSUME NEW k \in DOMAIN down' PROVE k + 2 \in DOMAIN down /\ down'[k] = down[k + 2]
  <2>1. (k + 1) + 1 = k + 2
    BY <1>5
  <2> QED BY <1>5, <2>1
<1>7. Len(down) = Len(down') + 2
  BY <1>5
<1> QED BY <1>5, <1>6, <1>7 DEF Dropped

\* The two ends of the connection, without the server's answers.
LEMMA DropsClient ==
  ASSUME TypeOK, Client \/ Lose
  PROVE  \E d : Dropped(d)
<1>1. down \in Seq(Messages) /\ Len(down) \in Nat /\ DOMAIN down = 1 .. Len(down)
  BY DEF TypeOK
<1>2. ASSUME UNCHANGED down PROVE Dropped(0)
  BY <1>1, <1>2 DEF Dropped
<1>3. ASSUME down' = <<>> PROVE Dropped(Len(down))
  BY <1>1, <1>3 DEF Dropped
<1>4. ASSUME down # <<>>, down' = Tail(down) PROVE Dropped(1)
  BY <1>1, <1>4, TailElements DEF IsTail, Dropped
<1>5. ASSUME Len(down) > 1, down' = Tail(Tail(down)) PROVE Dropped(2)
  BY <1>1, <1>5, TailTwice
<1> QED BY <1>2, <1>3, <1>4, <1>5 DEF Client, RetrieveFiles, MakeDir, StoreFile, StoreData, Retrieved, Fails, Lose,
          Receives, netVars

LEMMA MessagesKept ==
  ASSUME TypeOK, Places, RestOK, MessagesOK, LooksOK, [Next]_vars
  PROVE  MessagesOK'
<1>1. down \in Seq(Messages) /\ DOMAIN down = 1 .. Len(down) /\ Len(down) \in Nat
  BY DEF TypeOK
<1>2. ASSUME UNCHANGED down PROVE Dropped(0)
  BY <1>1, <1>2 DEF Dropped
<1>3. CASE Administers \/ Collect
  <2>1. down' = <<>>
    BY <1>3 DEF Administers, Collect, netVars, Places
  <2>2. DOMAIN down' = {}
    BY <2>1
  <2> QED BY <2>2 DEF MessagesOK, RowsMeant, LastWord, StorePairs, InOrder
<1> SUFFICES ASSUME ~Administers, ~Collect PROVE MessagesOK'
  BY <1>3
<1>4. Framed
  BY FramedSteps
<1>5. ASSUME UNCHANGED down, GoesOn PROVE MessagesOK'
  BY <1>2, <1>4, <1>5, DroppedKept
<1>6. CASE Client \/ Lose
  <2>1. UNCHANGED <<sess, toSend>>
    BY <1>6 DEF Client, RetrieveFiles, MakeDir, StoreFile, StoreData, Retrieved, Fails, Lose, sendVars
  <2> QED BY <1>4, <1>6, <2>1, DropsClient, DroppedKept DEF GoesOn
<1>7. CASE Other \/ Killed \/ Leave \/ UNCHANGED vars
  <2>1. UNCHANGED <<down, toSend>> /\ (UNCHANGED sess \/ sess' = "none")
    BY <1>7 DEF Killed, Leave, vars, sendVars, netVars, Other, Recover, OtherStores, OtherRemoves, OtherRows
  <2> QED BY <1>5, <2>1 DEF GoesOn
<1>8. CASE Authenticate
  <2>1. UNCHANGED <<down, toSend>> /\ down = <<>>
    BY <1>8 DEF Authenticate, Places
  <2> QED BY <1>5, <2>1 DEF GoesOn
\* One message is sent, if the connection is there.
<1>9. ASSUME NEW m \in Messages, Sends(<<m>>), SendsRow(m) PROVE MessagesOK'
  <2>1. link = "lost" => down' = <<>>
    <3>1. sess # "none"
      BY <1>9 DEF SendsRow
    <3> QED BY <1>9, <3>1 DEF Sends, Places
  <2>2. CASE link = "lost"
    <3>1. UNCHANGED down
      BY <1>9, <2>2 DEF Sends
    <3> QED BY <1>5, <2>1, <2>2, <3>1 DEF GoesOn
  <2>3. CASE link # "lost"
    BY <1>1, <1>4, <1>9, <2>3, SendsOne, RowSent
  <2> QED BY <2>2, <2>3
<1>10. ASSUME NEW m \in Messages, Sends(<<m>>), m.type \notin RowTags, sess # "none", sess' \notin Working,
              UNCHANGED toSend, m.type = "OK" => toSend = <<>>, down = <<>> \/ sess \in {"look", "examine"}
       PROVE  MessagesOK'
  <2>2. CASE link = "lost"
    <3>1. UNCHANGED down /\ down = <<>>
      BY <1>10, <2>2 DEF Sends, Places
    <3> QED BY <1>5, <3>1 DEF GoesOn
  <2>3. CASE link # "lost"
    <3>1. IsAppended(Messages, down', down, m)
      BY <1>1, <1>10, <2>3, SendsOne
    <3> QED BY <1>4, <1>10, <3>1, AnswerSent
  <2> QED BY <2>2, <2>3
<1>11. /\ Msg("OK", NoRow) \in Messages /\ Msg("OK", NoRow).type \notin RowTags
       /\ Msg("ERR", NoRow) \in Messages /\ Msg("ERR", NoRow).type = "ERR" /\ Msg("ERR", NoRow).type \notin RowTags
  BY MessageTypes DEF RowTags
<1>12. CASE CheckPassword
  <2>1. /\ sess # "none" /\ sess' \notin Working /\ UNCHANGED toSend /\ request # "none"
        /\ Sends(<<Msg("OK", NoRow)>>) \/ Sends(<<Msg("ERR", NoRow)>>)
    BY <1>12 DEF CheckPassword, Working
  <2>2. down = <<>> /\ collected = <<>>
    BY <2>1 DEF Places
  <2>3. toSend = <<>>
    BY <2>2, CollectedTypes
  <2> QED BY <1>10, <1>11, <2>1, <2>2, <2>3
<1>13. CASE LookAt
  <2>1. CASE UNCHANGED <<toSend, down>> /\ sess' \in {"forget", "examine"}
    BY <1>5, <1>13, <2>1 DEF LookAt, GoesOn
  <2>2. CASE /\ Exists(OnDisk, Current.path) /\ Current.entry.type = "directory"
             /\ Sends(<<Msg("MKD", Current)>>) /\ toSend' = Tail(toSend) /\ UNCHANGED sess
    <3>1. toSend # <<>> /\ sess = "look"
      BY <1>13 DEF LookAt
    <3>2. Msg("MKD", Current) \in Messages /\ Msg("MKD", Current).type = "MKD" /\ Msg("MKD", Current).row = Current
      BY <3>1, CurrentRow, MessageTypes
    <3>3. SendsRow(Msg("MKD", Current))
      BY <2>2, <3>1, <3>2 DEF SendsRow, SameElement
    <3> QED BY <1>9, <2>2, <3>2, <3>3
  <2> QED BY <1>13, <2>1, <2>2 DEF LookAt
<1>14. CASE Examine
  <2>1. /\ sess = "examine" /\ toSend # <<>> /\ UNCHANGED toSend /\ Current.entry.type = "file"
        /\ Exists(OnDisk, Current.path)
    BY <1>14 DEF Examine, Places, LooksOK
  <2>2. CASE sess' = "forget" /\ UNCHANGED down
    BY <1>5, <2>1, <2>2 DEF GoesOn
  <2>3. CASE sess' = "open" /\ Sends(<<Msg("STOR", Current)>>)
    <3>2. Msg("STOR", Current) \in Messages /\ Msg("STOR", Current).type = "STOR" /\ Msg("STOR", Current).row = Current
      BY <2>1, CurrentRow, MessageTypes
    <3>3. SendsRow(Msg("STOR", Current))
      BY <2>1, <2>3, <3>2 DEF SendsRow, SameElement
    <3> QED BY <1>9, <2>3, <3>2, <3>3
  <2> QED BY <1>14, <2>2, <2>3 DEF Examine
<1>15. CASE OpenAndSend
  <2> DEFINE r == [Current EXCEPT !.entry = OnDisk[Current.path]]
  <2>1. /\ sess = "open" /\ toSend # <<>> /\ toSend' = Tail(toSend) /\ Current.entry.type = "file"
        /\ Exists(OnDisk, Current.path) /\ sess' = "look" /\ Sends(<<Msg("DATA", r)>>)
    BY <1>15 DEF OpenAndSend, Places, LooksOK
  <2>2. r \in MacRow /\ r.mac = Current.mac /\ r.path = Current.path /\ r.entry = OnDisk[Current.path]
    BY <2>1, CurrentRow, RowTypes
  <2> HIDE DEF r
  <2>3. Msg("DATA", r) \in Messages /\ Msg("DATA", r).type = "DATA" /\ Msg("DATA", r).row = r
    BY <2>2, MessageTypes
  <2>4. Untouched(Current) => r.entry.hash = Current.entry.hash
    BY <2>1, <2>2 DEF LooksOK
  <2>5. SendsRow(Msg("DATA", r))
    BY <2>1, <2>2, <2>3, <2>4 DEF SendsRow, SameElement
  <2> QED BY <1>9, <2>1, <2>3, <2>5
<1>16. CASE Forget
  <2>1. sess = "forget" /\ sess' = "look" /\ toSend # <<>> /\ toSend' = Tail(toSend) /\ UNCHANGED down
    BY <1>16 DEF Forget, netVars, Places
  <2> QED BY <1>5, <2>1 DEF GoesOn
<1>17. CASE EndOfData
  <2>1. sess = "look" /\ sess' = "ready" /\ toSend = <<>> /\ UNCHANGED toSend /\ Sends(<<Msg("OK", NoRow)>>)
    BY <1>17 DEF EndOfData
  <2> QED BY <1>10, <1>11, <2>1 DEF Working
<1>18. CASE Vanished
  <2>1. sess' = "none" /\ UNCHANGED toSend
    BY <1>18 DEF Vanished
  <2>2. CASE sess = "examine" /\ Sends(<<Msg("ERR", NoRow)>>)
    BY <1>10, <1>11, <2>1, <2>2 DEF Working
  <2>3. CASE UNCHANGED down
    BY <1>5, <2>1, <2>3 DEF GoesOn
  <2> QED BY <1>18, <2>2, <2>3 DEF Vanished
<1> QED BY <1>6, <1>7, <1>8, <1>12, <1>13, <1>14, <1>15, <1>16, <1>17, <1>18 DEF Next, Server
-----------------------------------------------------------------------------
(* What was sent arrives.                                                   *)

LEMMA DeliveryNone ==
  ASSUME collected' = <<>>, sess' # "open"
  PROVE  DeliveryOK'
<1>1. DOMAIN collected' = {}
  BY collected' = <<>>
<1> QED BY <1>1 DEF DeliveryOK

LEMMA LandedStays ==
  ASSUME UNCHANGED <<collected, dest>>, NEW i
  PROVE  Landed(i)' <=> Landed(i)
  BY DEF Landed, ParentsFirst, IsDir, Exists

\* Nothing is sent, received or looked at.
LEMMA DeliveryFramed ==
  ASSUME TypeOK, RestOK, DeliveryOK, Framed, UNCHANGED <<down, dest>>, Alive' => Alive,
         sess' = "open" => sess = "open" /\ UNCHANGED toSend,
         \/ UNCHANGED toSend
         \/ toSend # <<>> /\ toSend' = Tail(toSend) /\ ~Due(Current)
  PROVE  DeliveryOK'
<1> SUFFICES ASSUME Alive' PROVE /\ sess' = "open" => down' # <<>> /\ down'[Len(down')] = Msg("STOR", Current)'
                                 /\ \A i \in DOMAIN collected' :
                                       (Looked(i) /\ Due(collected[i]))' => (UnderWay(i) \/ Settled(i))'
  BY DEF DeliveryOK
<1>1. UNCHANGED collected
  BY DEF Framed
<1>2. sess' = "open" => down' # <<>> /\ down'[Len(down')] = Msg("STOR", Current)'
  BY DEF DeliveryOK, Current, Msg
<1>3. ASSUME NEW i \in DOMAIN collected, (Looked(i) /\ Due(collected[i]))'
      PROVE  (UnderWay(i) \/ Settled(i))'
  <2>1. Due(collected[i])
    BY <1>3, FramedRows
  <2>2. Looked(i)
    <3>1. CASE UNCHANGED toSend
      BY <1>1, <1>3, <3>1 DEF Looked
    <3>2. CASE toSend # <<>> /\ toSend' = Tail(toSend) /\ ~Due(Current)
      <4>1. PICK c \in DOMAIN collected : IsCurrent(c) /\ collected[c] = Current
        BY <3>2, CurrentIndex
      <4>0. \A k \in DOMAIN collected : Looked(k)' <=> Looked(k) \/ IsCurrent(k)
        BY ONLY <1>1, <3>2, TypeOK, RestOK, RestTail
      <4>2. Looked(i) \/ IsCurrent(i)
        BY ONLY <4>0, <1>3, Zenon
      <4>3. IsCurrent(i) => i = c
        BY <4>1 DEF IsCurrent
      <4> QED BY <2>1, <3>2, <4>1, <4>2, <4>3
    <3> QED BY <3>1, <3>2
  <2>3. UnderWay(i) \/ Settled(i)
    BY <2>1, <2>2 DEF DeliveryOK
  <2>4. UnderWay(i) => UnderWay(i)'
    BY <1>1 DEF UnderWay
  <2>5. Settled(i) => Settled(i)'
    BY <1>1, LandedStays DEF Settled, OfRow, About
  <2> QED BY <2>3, <2>4, <2>5
<1> QED BY <1>1, <1>2, <1>3

\* A message is sent, about a row or as an answer.
LEMMA DeliverySent ==
  ASSUME TypeOK, RestOK, DeliveryOK, Framed, UNCHANGED <<dest, phase>>, link # "lost",
         NEW m \in Messages, IsAppended(Messages, down', down, m),
         SendsRow(m) \/ (m.type \notin RowTags /\ UNCHANGED toSend /\ sess' # "open")
  PROVE  DeliveryOK'
<1>1. UNCHANGED collected
  BY DEF Framed
<1>2. /\ down' \in Seq(Messages) /\ Len(down') = Len(down) + 1 /\ down'[Len(down')] = m /\ down' # <<>>
      /\ DOMAIN down' = 1 .. Len(down') /\ DOMAIN down = 1 .. Len(down) /\ Len(down) \in Nat
      /\ Len(down') \in DOMAIN down'
      /\ \A k \in DOMAIN down : k \in DOMAIN down' /\ down'[k] = down[k] /\ k # Len(down') /\ k < Len(down')
      /\ \A k \in DOMAIN down' : k # Len(down') => k \in DOMAIN down
  BY Zenon DEF IsAppended
<1> SUFFICES ASSUME Alive' PROVE /\ sess' = "open" => down' # <<>> /\ down'[Len(down')] = Msg("STOR", Current)'
                                 /\ \A i \in DOMAIN collected' :
                                       (Looked(i) /\ Due(collected[i]))' => (UnderWay(i) \/ Settled(i))'
  BY DEF DeliveryOK
<1>3. Alive
  BY DEF Alive
<1>4. sess' = "open" => down' # <<>> /\ down'[Len(down')] = Msg("STOR", Current)'
  <2> SUFFICES ASSUME sess' = "open" PROVE m = Msg("STOR", Current)'
    BY <1>2
  <2>1. m.type = "STOR" /\ m.row = Current /\ UNCHANGED toSend /\ toSend # <<>>
    BY DEF SendsRow
  <2>2. Current \in MacRow
    BY <2>1, CurrentRow
  <2>3. m = Msg("STOR", Current)
    BY <2>1 DEF Messages, Msg
  <2> QED BY <2>1, <2>3 DEF Current, Msg
<1>5. ASSUME NEW i \in DOMAIN collected, (Looked(i) /\ Due(collected[i]))'
      PROVE  (UnderWay(i) \/ Settled(i))'
  <2>1. Due(collected[i])
    BY <1>5, FramedRows
  <2>2. UnderWay(i) => UnderWay(i)'
    BY <1>1, <1>2 DEF UnderWay
  <2>3. CASE m.type \notin RowTags /\ UNCHANGED toSend
    <3>1. Looked(i)
      BY <1>1, <1>5, <2>3 DEF Looked
    <3>2. \A n \in DOMAIN down' : OfRow(n)' => n \in DOMAIN down /\ down'[n] = down[n]
      BY <1>2, <2>3 DEF OfRow
    <3>3. Settled(i) => Settled(i)'
      BY <1>1, <3>2, LandedStays DEF Settled, OfRow, About
    <3> QED BY <1>3, <2>1, <2>2, <3>1, <3>3 DEF DeliveryOK
  <2>4. CASE SendsRow(m)
    <3>1. PICK c \in DOMAIN collected : IsCurrent(c) /\ collected[c] = Current
      BY <2>4, CurrentIndex DEF SendsRow
    <3>2. CASE Looked(i)
      <4>1. i < c
        BY <3>1, <3>2, CollectedTypes DEF Looked, IsCurrent
      <4>2. ASSUME Settled(i) PROVE Settled(i)'
        <5>1. Landed(i)'
          BY <1>1, <4>2, LandedStays DEF Settled
        <5>2. ASSUME NEW n \in DOMAIN down', NEW k \in DOMAIN collected, OfRow(n)', About(n, k)'
              PROVE  i < k
          <6>1. CASE n \in DOMAIN down
            <7>1. OfRow(n) /\ About(n, k)
              BY <1>1, <1>2, <5>2, <6>1 DEF OfRow, About
            <7> QED BY <4>2, <6>1, <7>1 DEF Settled
          <6>2. CASE n = Len(down')
            <7>1. SameElement(collected[k], m.row) /\ SameElement(collected[c], m.row)
              BY <1>1, <1>2, <2>4, <3>1, <5>2, <6>2 DEF About, SendsRow
            <7>2. k = c
              BY <7>1 DEF RestOK, SameElement
            <7> QED BY <4>1, <7>2
          <6> QED BY <1>2, <6>1, <6>2
        <5> QED BY <1>1, <5>1, <5>2 DEF Settled
      <4> QED BY <1>3, <2>1, <2>2, <3>2, <4>2 DEF DeliveryOK
    <3>3. CASE ~Looked(i)
      <4>1. toSend # <<>> /\ (UNCHANGED toSend \/ toSend' = Tail(toSend))
        BY <2>4 DEF SendsRow
      <4>2. toSend' = Tail(toSend) /\ i = c
        <5>1. CASE UNCHANGED toSend
          BY <1>1, <1>5, <3>3, <5>1 DEF Looked
        <5>2. CASE toSend' = Tail(toSend)
          <6>1. \A k \in DOMAIN collected : Looked(k)' <=> Looked(k) \/ IsCurrent(k)
            BY ONLY <1>1, <4>1, <5>2, TypeOK, RestOK, RestTail
          <6>2. IsCurrent(i)
            BY ONLY <6>1, <1>5, <3>3, Zenon
          <6> QED BY <3>1, <5>2, <6>2 DEF IsCurrent
        <5> QED BY <4>1, <5>1, <5>2
      <4>3. CASE m.type = "MKD"
        BY <1>1, <1>2, <2>4, <3>1, <4>2, <4>3 DEF SendsRow, UnderWay
      <4>4. CASE m.type = "DATA"
        <5>1. down # <<>> /\ down[Len(down)] = Msg("STOR", Current)
          BY <1>3, <2>4, <4>4 DEF DeliveryOK, SendsRow
        <5>2. Len(down) \in DOMAIN down
          <6>1. Len(down) # 0
            BY <5>1, EmptySeq DEF TypeOK
          <6> QED BY <1>2, <6>1
        <5>3. UnderWay(i)
          BY <3>1, <4>2, <5>1, <5>2, MessageTypes DEF UnderWay
        <5> QED BY <2>2, <5>3
      <4>5. CASE m.type = "STOR"
        <5>1. UNCHANGED toSend
          BY <2>4, <4>5 DEF SendsRow
        <5> QED BY <1>1, <1>5, <3>3, <5>1 DEF Looked
      <4> QED BY <2>4, <4>3, <4>4, <4>5 DEF SendsRow
    <3> QED BY <3>2, <3>3
  <2> QED BY <2>3, <2>4
<1> QED BY <1>1, <1>4, <1>5

\* An element was put into the destination folder: it is settled, and those before it stay.
LEMMA Delivered ==
  ASSUME TypeOK, RestOK, MessagesOK, DeliveryOK, Framed, UNCHANGED <<sess, toSend>>, Alive, down # <<>>,
         NEW d \in {1, 2}, Dropped(d), down[1].type = (IF d = 1 THEN "MKD" ELSE "STOR"),
         d = 2 => down[2].type = "DATA",
         PutInto(dest'[down[1].row.mac], dest[down[1].row.mac], down[1].row.path, down[1].row.entry),
         \A x \in Mac : x # down[1].row.mac => dest'[x] = dest[x]
  PROVE  DeliveryOK'
<1> DEFINE r == down[1].row
<1>1. /\ d \in Nat /\ d > 0 /\ down' \in Seq(Messages) /\ Len(down) = Len(down') + d
      /\ \A n \in DOMAIN down' : n + d \in DOMAIN down /\ down'[n] = down[n + d]
      /\ DOMAIN down' = 1 .. Len(down') /\ Len(down') \in Nat /\ down \in Seq(Messages)
      /\ DOMAIN down = 1 .. Len(down) /\ Len(down) \in Nat
  BY DEF TypeOK, Dropped
<1>2. /\ UNCHANGED collected
      /\ \A n \in DOMAIN down' : /\ OfRow(n)' <=> OfRow(n + d)
                               /\ \A i : About(n, i)' <=> About(n + d, i)
  BY <1>1 DEF OfRow, About, Framed
<1>3. 1 \in DOMAIN down /\ OfRow(1) /\ down[1].type \in {"MKD", "STOR"}
  BY <1>1 DEF OfRow, RowTags
<1>4. PICK k \in DOMAIN collected : IsAbout(1, k)
  BY <1>3 DEF MessagesOK, RowsMeant
<1>5. /\ collected[k] = r /\ About(1, k) /\ \A q \in Ancestors[r.path] : IsDir(backup[r.mac], q)
      /\ r.mac \in Mac /\ r.path \in Path /\ r.entry \in Entry /\ Ancestors[r.path] \subseteq Path
  BY <1>3, <1>4, CollectedTypes DEF IsAbout
<1>6. Looked(k) \/ IsCurrent(k)
  BY <1>4 DEF IsAbout
<1>7. \A n \in DOMAIN down, i \in DOMAIN collected :
         1 < n /\ OfRow(n) /\ About(n, i) => k < i \/ (k = i /\ n = 2 /\ down[1].type = "STOR")
  BY <1>3, <1>5 DEF MessagesOK, InOrder
<1>8. \A i \in DOMAIN collected : Looked(i) /\ Due(collected[i]) => UnderWay(i) \/ Settled(i)
  BY DEF DeliveryOK
<1>9. \A i, j \in DOMAIN collected : SameElement(collected[i], collected[j]) => i = j
  BY DEF RestOK
<1>10. sess' = "open" => down' # <<>> /\ down'[Len(down')] = Msg("STOR", Current)'
  <2> SUFFICES ASSUME sess' = "open" PROVE down' # <<>> /\ down'[Len(down')] = Msg("STOR", Current)
    BY DEF Current, Msg
  <2>1. down[Len(down)] = Msg("STOR", Current) /\ Msg("STOR", Current).type = "STOR"
    BY MessageTypes DEF DeliveryOK
  <2>2. Len(down') # 0
    <3>1. Len(down') = 0 => Len(down) = d
      BY <1>1
    <3>2. down[d].type # "STOR"
      OBVIOUS
    <3> QED BY <2>1, <3>1, <3>2
  <2>3. Len(down') \in DOMAIN down' /\ down' # <<>>
    BY <1>1, <2>2
  <2> QED BY <1>1, <2>1, <2>3
<1>11. Settled(k)'
  <2>1. /\ dest'[r.mac][r.path] = r.entry
        /\ r.entry.type = "directory" => IsDir(dest'[r.mac], r.path)
    BY <1>5, EntryTypes DEF PutInto, IsDir, Exists
  <2>2. Landed(k)'
    BY <1>2, <1>5, <2>1 DEF Landed
  <2>3. ASSUME NEW n \in DOMAIN down', NEW i \in DOMAIN collected, OfRow(n)', About(n, i)'
        PROVE  k < i
    <3>1. n + d \in DOMAIN down /\ 1 < n + d /\ OfRow(n + d) /\ About(n + d, i) /\ (n + d = 2 => d = 1)
      BY <1>1, <1>2, <2>3
    <3> QED BY <1>7, <3>1
  <2> QED BY <1>2, <2>2, <2>3 DEF Settled
<1>12. ASSUME NEW i \in DOMAIN collected, i # k, UnderWay(i) PROVE UnderWay(i)'
  <2>1. PICK n \in DOMAIN down : down[n].type \in {"MKD", "STOR"} /\ down[n].row = collected[i]
    BY <1>12 DEF UnderWay
  <2>2. n # 1
    BY <1>5, <1>9, <1>12, <2>1 DEF SameElement
  <2>3. ~(n = 2 /\ d = 2)
    BY <2>1
  <2>4. n - d \in DOMAIN down' /\ (n - d) + d = n
    BY <1>1, <2>2, <2>3
  <2>5. down'[n - d] = down[n]
    BY <1>1, <2>4
  <2> QED BY <1>2, <2>1, <2>4, <2>5 DEF UnderWay
<1>13. ASSUME NEW i \in DOMAIN collected, i < k, Landed(i) PROVE Landed(i)'
  <2> DEFINE s == collected[i]
  <2>0. s.mac \in Mac /\ s.path \in Path /\ s.entry \in Entry /\ s.entry.type \in {"file", "directory"}
    BY CollectedTypes
  <2>1. CASE s.mac # r.mac
    <3>1. dest'[s.mac] = dest[s.mac]
      BY <2>0, <2>1
    <3> QED BY <1>2, <1>13, <3>1 DEF Landed, ParentsFirst
  <2>2. CASE s.mac = r.mac
    <3>1. s.path # r.path
      <4>1. i # k
        BY <1>13, CollectedTypes
      <4> QED BY <1>5, <1>9, <2>2, <4>1 DEF SameElement
    <3>2. ASSUME dest'[s.mac][s.path] = dest[s.mac][s.path] PROVE Landed(i)'
      BY <1>2, <1>13, <3>2 DEF Landed, ParentsFirst, IsDir, Exists
    <3>3. CASE s.entry.type = "file"
      <4>1. dest[s.mac][s.path] = s.entry
        BY <1>13, <3>3 DEF Landed
      <4>2. IsFile(dest[r.mac], s.path)
        BY <2>0, <2>2, <3>3, <4>1, EntryTypes DEF IsFile, Exists
      <4>3. dest'[s.mac][s.path] = dest[s.mac][s.path]
        BY <2>0, <2>2, <3>1, <4>2 DEF PutInto
      <4> QED BY <3>2, <4>3
    <3>4. CASE s.path \notin Ancestors[r.path]
      <4>1. dest'[s.mac][s.path] = dest[s.mac][s.path]
        BY <2>0, <2>2, <3>1, <3>4 DEF PutInto
      <4> QED BY <3>2, <4>1
    <3>5. CASE s.entry.type = "directory" /\ s.path \in Ancestors[r.path]
      <4>1. IsDir(dest[s.mac], s.path) /\ (ParentsFirst(i) => dest[s.mac][s.path] = s.entry)
        BY <1>13, <3>5 DEF Landed
      <4>2. IsDir(dest'[s.mac], s.path)
        BY <2>0, <2>2, <4>1 DEF PutInto
      <4>3. ASSUME ParentsFirst(i) PROVE dest'[s.mac][s.path] = s.entry
        <5>1. ASSUME NEW q \in Ancestors[r.path] PROVE IsDir(dest[r.mac], q)
          <6>1. k \in i + 1 .. Len(collected)
            BY <1>13, CollectedTypes
          <6>2. \A p \in Ancestors[r.path] :
                   \E l \in 1 .. k - 1 : /\ collected[l].mac = r.mac /\ collected[l].path = p
                                         /\ collected[l].entry.type = "directory"
            <7>1. collected[k].mac = collected[i].mac /\ collected[i].path \in Ancestors[collected[k].path]
              BY <1>5, <2>2, <3>5
            <7>2. \A p \in Ancestors[collected[k].path] :
                     \E l \in 1 .. k - 1 : /\ collected[l].mac = collected[k].mac /\ collected[l].path = p
                                           /\ collected[l].entry.type = "directory"
              BY <4>3, <6>1, <7>1, Zenon DEF ParentsFirst
            <7> QED BY <1>5, <7>2
          <6>3. PICK l \in 1 .. k - 1 : /\ collected[l].mac = r.mac /\ collected[l].path = q
                                        /\ collected[l].entry.type = "directory"
            BY <6>2
          <6>4. l \in DOMAIN collected /\ l < k
            BY <6>3, CollectedTypes
          <6>5. Looked(l)
            BY <1>6, <6>4, CollectedTypes DEF Looked, IsCurrent
          <6>6. Due(collected[l])
            BY <1>5, <6>3 DEF Due
          <6>7. ~UnderWay(l)
            <7> SUFFICES ASSUME NEW n \in DOMAIN down, down[n].type \in {"MKD", "STOR"},
                                down[n].row = collected[l]
                         PROVE  FALSE
              BY DEF UnderWay
            <7>1. OfRow(n) /\ About(n, l)
              BY DEF OfRow, RowTags, About, SameElement
            <7>2. CASE n = 1
              BY <1>5, <1>9, <6>4, <7>2, CollectedTypes DEF SameElement
            <7>3. CASE 1 < n
              BY <1>7, <6>4, <7>1, <7>3, CollectedTypes
            <7> QED BY <1>1, <7>2, <7>3
          <6>8. Landed(l)
            BY <1>8, <6>4, <6>5, <6>6, <6>7 DEF Settled
          <6> QED BY <6>3, <6>8 DEF Landed
        <5>2. \A p \in Path : p # r.path => dest'[r.mac][p] = dest[r.mac][p]
          BY <5>1 DEF PutInto
        <5> QED BY <2>0, <2>2, <3>1, <4>1, <4>3, <5>2
      <4>4. ParentsFirst(i)' <=> ParentsFirst(i)
        BY <1>2 DEF ParentsFirst
      <4> QED BY <1>2, <3>5, <4>2, <4>3, <4>4 DEF Landed
    <3> QED BY <2>0, <3>3, <3>4, <3>5
  <2> QED BY <2>1, <2>2
<1>14. ASSUME NEW i \in DOMAIN collected, i # k, Settled(i) PROVE Settled(i)'
  <2>1. i < k /\ Landed(i)
    BY <1>3, <1>5, <1>14 DEF Settled
  <2>2. Landed(i)'
    BY <1>13, <2>1
  <2>3. ASSUME NEW n \in DOMAIN down', NEW j \in DOMAIN collected, OfRow(n)', About(n, j)'
        PROVE  i < j
    BY <1>1, <1>2, <1>14, <2>3 DEF Settled
  <2> QED BY <1>2, <2>2, <2>3 DEF Settled
<1>15. ASSUME NEW i \in DOMAIN collected, (Looked(i) /\ Due(collected[i]))'
       PROVE  (UnderWay(i) \/ Settled(i))'
  <2>1. Looked(i) /\ Due(collected[i])
    BY <1>2, <1>15, FramedRows DEF Looked
  <2> QED BY <1>8, <1>11, <1>12, <1>14, <2>1
<1> QED BY <1>2, <1>10, <1>15 DEF DeliveryOK

LEMMA DeliveryKept ==
  ASSUME TypeOK, Places, RestOK, MessagesOK, LooksOK, DeliveryOK,
         \A m \in Mac : OneRowEach(table[m]), [Next]_vars
  PROVE  DeliveryOK'
<1>1. down \in Seq(Messages) /\ DOMAIN down = 1 .. Len(down) /\ Len(down) \in Nat
  BY DEF TypeOK
<1>2. CASE Administers \/ Authenticate
  BY <1>2, DeliveryNone DEF Administers, Authenticate, sendVars, Places
<1>3. CASE RetrieveFiles
  <2>1. UNCHANGED <<sess, collected>> /\ collected = <<>>
    BY <1>3 DEF RetrieveFiles, sendVars, Places
  <2>2. sess # "open"
    BY <2>1, CollectedTypes DEF Places
  <2> QED BY <2>1, <2>2, DeliveryNone
<1>4. CASE CheckPassword
  <2>1. UNCHANGED collected /\ collected = <<>> /\ sess' # "open"
    BY <1>4 DEF CheckPassword, Places
  <2> QED BY <2>1, DeliveryNone
<1>5. CASE Collect
  <2>1. collected' = toSend' /\ toSend' \in Seq(MacRow) /\ sess' = "look"
    <3>1. sess' = "look"
      BY <1>5 DEF Collect
    <3> QED BY <1>5, <3>1, CollectedRows
  <2>2. ASSUME NEW i \in DOMAIN collected' PROVE ~Looked(i)'
    BY <2>1 DEF Looked
  <2> QED BY <2>1, <2>2 DEF DeliveryOK
<1> SUFFICES ASSUME ~Administers, ~Collect PROVE DeliveryOK'
  BY <1>2, <1>5
<1>6. Framed
  BY FramedSteps
<1>7. ASSUME ~Alive' PROVE DeliveryOK'
  BY <1>7 DEF DeliveryOK
<1>8. CASE Fails \/ Lose
  BY <1>7, <1>8 DEF Fails, Lose, Alive, Active, clientVars
<1>9. CASE Other \/ UNCHANGED vars \/ Leave \/ StoreFile
  <2>1. UNCHANGED <<down, dest, toSend, link>> /\ (UNCHANGED sess \/ sess' = "none")
        /\ (UNCHANGED phase \/ (phase = "receiving" /\ phase' = "storing"))
    BY <1>9 DEF Other, Recover, OtherStores, OtherRemoves, OtherRows, vars, clientVars, netVars, sendVars,
         Leave, Unchanged, StoreFile
  <2>2. Alive' => Alive
    BY <2>1 DEF Alive, Active
  <2> QED BY <1>6, <2>1, <2>2, DeliveryFramed
<1>10. CASE Killed
  <2>1. UNCHANGED <<down, dest, toSend, phase>> /\ sess' = "none" /\ (link' = "lost" \/ UNCHANGED link)
    BY <1>10 DEF Killed, clientVars
  <2>2. Alive' => Alive
    BY <2>1 DEF Alive, Active
  <2> QED BY <1>6, <2>1, <2>2, DeliveryFramed
<1>11. CASE Retrieved
  <2>1. /\ phase = "receiving" /\ phase' = "done" /\ down # <<>> /\ Head(down).type = "OK"
        /\ down' = Tail(down) /\ UNCHANGED <<dest, link, sess, toSend, collected>>
    BY <1>11 DEF Retrieved, Receives, sendVars
  <2>2. IsTail(Messages, down', down)
    BY <1>1, <2>1, TailElements
  <2>3. 1 \in DOMAIN down /\ down[1].type = "OK" /\ DOMAIN down' = 1 .. Len(down') /\ Len(down') + 1 = Len(down)
        /\ down' \in Seq(Messages)
    BY <2>1, <2>2 DEF IsTail
  <2>4. 1 = Len(down) /\ sess \notin Working
    BY <2>3 DEF MessagesOK, LastWord, OfRow, RowTags
  <2>5. DOMAIN down' = {} /\ DOMAIN down = {1}
    BY <1>1, <2>3, <2>4
  <2>6. Alive
    BY <2>1 DEF Alive
  <2>7. ASSUME NEW i \in DOMAIN collected, (Looked(i) /\ Due(collected[i]))'
        PROVE  Settled(i)'
    <3>1. Looked(i) /\ Due(collected[i])
      BY <1>6, <2>1, <2>7, FramedRows DEF Looked
    <3>2. ~UnderWay(i)
      BY <2>3, <2>5 DEF UnderWay
    <3>3. Landed(i)
      BY <2>6, <3>1, <3>2 DEF DeliveryOK, Settled
    <3> QED BY <2>1, <2>5, <3>3, LandedStays DEF Settled
  <2> QED BY <2>1, <2>4, <2>7 DEF DeliveryOK, Working
<1>12. CASE MakeDir /\ phase' # "failed"
  <2> DEFINE r == down[1].row
  <2>1. /\ r \in MacRow /\ down # <<>> /\ down[1].type = "MKD"
        /\ PutInto(dest'[r.mac], dest[r.mac], r.path, Dir(r.entry.lwt))
        /\ \A x \in Mac : x # r.mac => dest'[x] = dest[x]
    BY <1>12, MakeDirPuts
  <2>2. phase = "receiving" /\ down' = Tail(down) /\ UNCHANGED <<sess, toSend>>
    BY <1>12 DEF MakeDir, Receives, sendVars
  <2>3. Dropped(1)
    BY <1>1, <2>1, <2>2, TailElements DEF IsTail, Dropped
  <2>4. Alive
    BY <2>1, <2>2 DEF Alive
  <2>5. r.entry = Dir(r.entry.lwt)
    <3>1. 1 \in DOMAIN down
      BY <1>1, <2>1
    <3>2. PICK i \in DOMAIN collected : IsAbout(1, i)
      BY <2>1, <3>1 DEF MessagesOK, RowsMeant, OfRow, RowTags
    <3>3. r.entry \in Entry /\ r.entry.type = "directory"
      BY <2>1, <3>2, RowTypes DEF IsAbout
    <3> QED BY <3>3 DEF Entry, Dir
  <2> QED BY <1>6, <2>1, <2>2, <2>3, <2>4, <2>5, Delivered
<1>13. CASE StoreData /\ phase' # "failed"
  <2> DEFINE r == down[1].row
  <2>1. /\ Len(down) >= 2 /\ down[1].type = "STOR" /\ down[2].type = "DATA"
        /\ PutInto(dest'[r.mac], dest[r.mac], r.path, r.entry)
        /\ \A x \in Mac : x # r.mac => dest'[x] = dest[x]
    BY <1>13, StoreDataPuts
  <2>2. phase = "storing" /\ down' = Tail(Tail(down)) /\ UNCHANGED <<sess, toSend>>
    BY <1>13 DEF StoreData, sendVars
  <2>3. Dropped(2)
    BY <1>1, <2>1, <2>2, TailTwice
  <2>4. down # <<>> /\ Alive
    BY <1>1, <2>1, <2>2 DEF Alive
  <2> QED BY <1>6, <2>1, <2>2, <2>3, <2>4, Delivered
<1>14. CASE phase' = "failed"
  BY <1>7, <1>14 DEF Alive
<1>15. ASSUME NEW m \in Messages, Sends(<<m>>), sess # "none", UNCHANGED <<dest, phase>>,
              UNCHANGED link \/ Closes,
              SendsRow(m) \/ (m.type \notin RowTags /\ UNCHANGED toSend /\ sess' # "open")
       PROVE  DeliveryOK'
  <2>1. CASE link = "lost"
    <3>1. down' = <<>> /\ link' = "lost" /\ phase \notin {"idle", "done"}
      BY <1>15, <2>1 DEF Sends, Places, Closes
    <3>2. ~Alive'
      BY <1>15, <3>1 DEF Alive, Active, TypeOK
    <3> QED BY <1>7, <3>2
  <2>2. CASE link # "lost"
    <3>1. IsAppended(Messages, down', down, m)
      BY <1>1, <1>15, <2>2, SendsOne
    <3> QED BY <1>6, <1>15, <2>2, <3>1, DeliverySent
  <2> QED BY <2>1, <2>2
<1>16. ASSUME UNCHANGED <<down, dest, phase>>, UNCHANGED link \/ Closes, sess' # "open",
              UNCHANGED toSend \/ (toSend # <<>> /\ toSend' = Tail(toSend) /\ ~Due(Current))
       PROVE  DeliveryOK'
  <2>1. Alive' => Alive
    BY <1>16 DEF Alive, Active, Closes
  <2> QED BY <1>6, <1>16, <2>1, DeliveryFramed
<1>17. CASE LookAt
  <2>0. UNCHANGED <<dest, phase, link>> /\ toSend # <<>> /\ sess = "look"
    BY <1>17 DEF LookAt, Unchanged, clientVars
  <2>1. CASE UNCHANGED <<toSend, down>> /\ sess' \in {"forget", "examine"}
    BY <1>16, <2>0, <2>1
  <2>2. CASE /\ Exists(OnDisk, Current.path) /\ Current.entry.type = "directory"
             /\ Sends(<<Msg("MKD", Current)>>) /\ toSend' = Tail(toSend) /\ UNCHANGED sess
    <3>2. Msg("MKD", Current) \in Messages /\ Msg("MKD", Current).type = "MKD" /\ Msg("MKD", Current).row = Current
      BY <2>0, CurrentRow, MessageTypes
    <3>3. SendsRow(Msg("MKD", Current))
      BY <2>0, <2>2, <3>2 DEF SendsRow, SameElement
    <3> QED BY <1>15, <2>0, <2>2, <3>2, <3>3
  <2> QED BY <1>17, <2>1, <2>2 DEF LookAt
<1>18. CASE Examine
  <2>1. /\ sess = "examine" /\ toSend # <<>> /\ UNCHANGED toSend /\ Current.entry.type = "file"
        /\ Exists(OnDisk, Current.path) /\ UNCHANGED <<dest, phase, link>>
    BY <1>18 DEF Examine, Places, LooksOK, Unchanged, clientVars
  <2>2. CASE sess' = "forget" /\ UNCHANGED down
    BY <1>16, <2>1, <2>2
  <2>3. CASE sess' = "open" /\ Sends(<<Msg("STOR", Current)>>)
    <3>2. Msg("STOR", Current) \in Messages /\ Msg("STOR", Current).type = "STOR" /\ Msg("STOR", Current).row = Current
      BY <2>1, CurrentRow, MessageTypes
    <3>3. SendsRow(Msg("STOR", Current))
      BY <2>1, <2>3, <3>2 DEF SendsRow, SameElement
    <3> QED BY <1>15, <2>1, <2>3, <3>2, <3>3
  <2> QED BY <1>18, <2>2, <2>3 DEF Examine
<1>19. CASE OpenAndSend
  <2> DEFINE r == [Current EXCEPT !.entry = OnDisk[Current.path]]
  <2>1. /\ sess = "open" /\ toSend # <<>> /\ toSend' = Tail(toSend) /\ Current.entry.type = "file"
        /\ Exists(OnDisk, Current.path) /\ sess' = "look" /\ Sends(<<Msg("DATA", r)>>)
        /\ UNCHANGED <<dest, phase, link>>
    BY <1>19 DEF OpenAndSend, Places, LooksOK, Unchanged, clientVars
  <2>2. r \in MacRow /\ r.mac = Current.mac /\ r.path = Current.path /\ r.entry = OnDisk[Current.path]
    BY <2>1, CurrentRow, RowTypes
  <2> HIDE DEF r
  <2>3. Msg("DATA", r) \in Messages /\ Msg("DATA", r).type = "DATA" /\ Msg("DATA", r).row = r
    BY <2>2, MessageTypes
  <2>4. Untouched(Current) => r.entry.hash = Current.entry.hash
    BY <2>1, <2>2 DEF LooksOK
  <2>5. SendsRow(Msg("DATA", r))
    BY <2>1, <2>2, <2>3, <2>4 DEF SendsRow, SameElement
  <2> QED BY <1>15, <2>1, <2>3, <2>5
<1>20. CASE Forget
  <2>1. toSend # <<>> /\ toSend' = Tail(toSend) /\ UNCHANGED <<down, dest, phase, link>> /\ ~Due(Current)
        /\ sess' = "look"
    BY <1>20 DEF Forget, netVars, clientVars, Places, LooksOK
  <2> QED BY <1>16, <2>1
<1>21. CASE EndOfData \/ Vanished
  <2>1. /\ sess # "none" /\ sess' # "open" /\ UNCHANGED <<toSend, dest, phase>> /\ (UNCHANGED link \/ Closes)
        /\ Sends(<<Msg("OK", NoRow)>>) \/ Sends(<<Msg("ERR", NoRow)>>) \/ UNCHANGED down
    BY <1>21 DEF EndOfData, Vanished, Unchanged, clientVars
  <2>2. /\ Msg("OK", NoRow) \in Messages /\ Msg("OK", NoRow).type \notin RowTags
        /\ Msg("ERR", NoRow) \in Messages /\ Msg("ERR", NoRow).type \notin RowTags
    BY MessageTypes DEF RowTags
  <2> QED BY <1>15, <1>16, <2>1, <2>2
<1> QED BY <1>2, <1>3, <1>4, <1>8, <1>9, <1>10, <1>11, <1>12, <1>13, <1>14, <1>17, <1>18, <1>19, <1>20, <1>21
        DEF Next, Server, Client
-----------------------------------------------------------------------------
(* The rows of what was left alone.                                         *)

LEMMA RowsFramed ==
  ASSUME TypeOK, RestOK, RowsOK, Framed, UNCHANGED toSend,
         \A i \in DOMAIN collected :
            Untouched(collected[i])' => (InTable(collected[i])' <=> InTable(collected[i]))
  PROVE  RowsOK'
<1>1. UNCHANGED collected
  BY DEF Framed
<1>2. ASSUME NEW i \in DOMAIN collected, Untouched(collected[i])'
      PROVE  /\ Looked(i)' => (Matches(collected[i])' <=> InTable(collected[i])')
             /\ ~Looked(i)' => InTable(collected[i])'
  <2>1. Untouched(collected[i]) /\ (Matches(collected[i])' <=> Matches(collected[i]))
    BY <1>2, FramedRows
  <2>2. /\ Looked(i) => (Matches(collected[i]) <=> InTable(collected[i]))
        /\ ~Looked(i) => InTable(collected[i])
    BY <2>1 DEF RowsOK
  <2>3. Looked(i)' <=> Looked(i)
    BY <1>1 DEF Looked
  <2> QED BY <1>2, <2>1, <2>2, <2>3
<1> QED BY <1>1, <1>2 DEF RowsOK

\* The server is done with a row: it is there and matches, or neither.

LEMMA RowsTail ==
  ASSUME TypeOK, RestOK, RowsOK, Framed, toSend # <<>>, toSend' = Tail(toSend),
         NEW c \in DOMAIN collected, IsCurrent(c),
         Untouched(collected[c])' => (Matches(collected[c])' <=> InTable(collected[c])'),
         \A i \in DOMAIN collected :
            i # c /\ Untouched(collected[i])' => (InTable(collected[i])' <=> InTable(collected[i]))
  PROVE  RowsOK'
<1>1. UNCHANGED collected
  BY DEF Framed
<1>2. \A i \in DOMAIN collected : Looked(i)' <=> Looked(i) \/ i = c
  <2>1. \A i \in DOMAIN collected : Looked(i)' <=> Looked(i) \/ IsCurrent(i)
    BY <1>1, RestTail
  <2> QED BY <2>1 DEF IsCurrent
<1>3. ASSUME NEW i \in DOMAIN collected, i # c, Untouched(collected[i])'
      PROVE  /\ Looked(i)' => (Matches(collected[i])' <=> InTable(collected[i])')
             /\ ~Looked(i)' => InTable(collected[i])'
  <2>1. Untouched(collected[i]) /\ (Matches(collected[i])' <=> Matches(collected[i]))
    BY <1>3, FramedRows
  <2>2. /\ Looked(i) => (Matches(collected[i]) <=> InTable(collected[i]))
        /\ ~Looked(i) => InTable(collected[i])
    BY <2>1 DEF RowsOK
  <2>3. Looked(i)' <=> Looked(i)
    BY <1>2, <1>3
  <2>4. InTable(collected[i])' <=> InTable(collected[i])
    BY <1>3
  <2> QED BY ONLY <2>1, <2>2, <2>3, <2>4, Zenon
<1>4. Looked(c)'
  BY <1>2
<1> QED BY <1>1, <1>3, <1>4 DEF RowsOK

LEMMA RowsKept ==
  ASSUME TypeOK, SessionOK, Places, RestOK, LooksOK, RowsOK, [Next]_vars
  PROVE  RowsOK'
<1>1. ASSUME collected' = <<>> PROVE RowsOK'
  <2>1. DOMAIN collected' = {}
    BY <1>1
  <2> QED BY <2>1 DEF RowsOK
<1>2. CASE Administers \/ Authenticate \/ CheckPassword
  <2>1. UNCHANGED collected /\ (phase = "idle" \/ request # "none")
    BY <1>2 DEF Administers, Authenticate, CheckPassword, sendVars
  <2>2. collected = <<>>
    BY <2>1 DEF Places
  <2> QED BY <1>1, <2>1, <2>2
<1>3. CASE Collect
  <2>1. /\ toSend' \in Seq(MacRow) /\ collected' = toSend' /\ UNCHANGED table
        /\ \A i \in DOMAIN collected' :
              \E j \in DOMAIN table[collected'[i].mac] :
                 table[collected'[i].mac][j] = [path |-> collected'[i].path, entry |-> collected'[i].entry]
    <3>1. UNCHANGED table
      BY <1>3 DEF Collect, accountVars
    <3>2. \A m \in Mac : OneRowEach(table[m])
      BY DEF SessionOK
    <3> QED BY ONLY <1>3, <3>1, <3>2, TypeOK, CollectedRows
  <2>2. ASSUME NEW i \in DOMAIN collected' PROVE ~Looked(i)' /\ InTable(collected[i])'
    <3>1. ~Looked(i)'
      BY <2>1 DEF Looked
    <3>2. InTable(collected[i])'
      <4>1. PICK j \in DOMAIN table[collected'[i].mac] :
               table[collected'[i].mac][j] = [path |-> collected'[i].path, entry |-> collected'[i].entry]
        BY <2>1
      <4>2. table[collected'[i].mac][j].path = collected'[i].path
        BY <4>1
      <4>3. UNCHANGED table
        BY <2>1
      <4> QED BY <4>2, <4>3 DEF InTable
    <3> QED BY <3>1, <3>2
  <2> QED BY <2>2 DEF RowsOK
<1> SUFFICES ASSUME ~Administers, ~Collect PROVE RowsOK'
  BY <1>2, <1>3
<1>4. Framed /\ UNCHANGED collected
  BY FramedSteps DEF Framed
<1>5. ASSUME UNCHANGED table, NEW i \in DOMAIN collected
      PROVE  InTable(collected[i])' <=> InTable(collected[i])
  BY <1>4, <1>5 DEF InTable
<1>6. CASE UNCHANGED <<table, toSend>>
  BY <1>4, <1>5, <1>6, RowsFramed
<1>7. CASE Client \/ Lose \/ Killed \/ UNCHANGED vars \/ OtherStores \/ OtherRemoves
  BY <1>6, <1>7 DEF Client, RetrieveFiles, MakeDir, StoreFile, StoreData, Retrieved, Fails, Lose, Killed, Kill,
       vars, accountVars, sendVars, OtherStores, OtherRemoves
<1>8. CASE Examine \/ EndOfData \/ Vanished \/ Leave
  BY <1>6, <1>8 DEF Examine, EndOfData, Vanished, Leave, Unchanged, accountVars
<1>9. Busy \in Mac /\ table \in [Mac -> Seq(Row)] /\ OneRowEach(table[Busy])
  BY RetrievalAssumption DEF TypeOK, AccountsTypeOK, SessionOK
<1>10. CASE Recover
  <2>1. /\ Recovered(table'[Busy], table[Busy], backup[Busy]) /\ \A m \in Mac : m # Busy => table'[m] = table[m]
    BY <1>9, <1>10, RecoverRows
  <2>2. /\ touched' = touched \cup {<<Busy, table[Busy][i].path>> : i \in
                         {j \in DOMAIN table[Busy] : table[Busy][j].entry # backup[Busy][table[Busy][j].path]}}
        /\ UNCHANGED toSend
    BY <1>10 DEF Recover, sendVars
  <2>3. ASSUME NEW i \in DOMAIN collected, Untouched(collected[i])'
        PROVE  InTable(collected[i])' <=> InTable(collected[i])
    <3>1. CASE collected[i].mac # Busy
      BY <1>4, <2>1, <3>1, CollectedTypes DEF InTable
    <3>2. CASE collected[i].mac = Busy
      <4>1. <<Busy, collected[i].path>> \notin touched'
        BY <1>4, <2>3, <3>2 DEF Untouched
      <4>2. ASSUME NEW j \in DOMAIN table[Busy], table[Busy][j].path = collected[i].path
            PROVE  \E k \in DOMAIN table'[Busy] : table'[Busy][k].path = collected[i].path
        <5>1. table[Busy][j].entry = backup[Busy][collected[i].path]
          BY <2>2, <4>1, <4>2
        <5>2. table[Busy][j] \in Row
          BY <1>9
        <5>3. Exists(backup[Busy], table[Busy][j].path)
          BY <4>2, <5>1, <5>2, RowTypes, EntryTypes DEF Exists
        <5> QED BY <2>1, <4>2, <5>3 DEF Recovered
      <4>3. ASSUME NEW k \in DOMAIN table'[Busy], table'[Busy][k].path = collected[i].path
            PROVE  \E j \in DOMAIN table[Busy] : table[Busy][j].path = collected[i].path
        BY <2>1, <4>3 DEF Recovered
      <4> QED BY <1>4, <3>2, <4>2, <4>3 DEF InTable
    <3> QED BY <3>1, <3>2
  <2> QED BY <1>4, <2>2, <2>3, RowsFramed
<1>11. CASE OtherRows
  <2>1. /\ Requested(table'[Busy], table[Busy], pending.path, pending.entry)
        /\ \A m \in Mac : m # Busy => table'[m] = table[m]
    BY <1>11, OtherRowsRequested
  <2>2. touched' = touched \cup {<<Busy, pending.path>>} /\ UNCHANGED toSend
    BY <1>11 DEF OtherRows, Changed, sendVars
  <2>3. ASSUME NEW i \in DOMAIN collected, Untouched(collected[i])'
        PROVE  InTable(collected[i])' <=> InTable(collected[i])
    <3>1. CASE collected[i].mac # Busy
      BY <1>4, <2>1, <3>1, CollectedTypes DEF InTable
    <3>2. CASE collected[i].mac = Busy
      <4>1. collected[i].path # pending.path /\ collected[i].path \in Path
        BY <1>4, <2>2, <2>3, <3>2, CollectedTypes DEF Untouched
      <4>2. (\E k \in DOMAIN table'[Busy] : table'[Busy][k].path = collected[i].path)
              <=> (\E j \in DOMAIN table[Busy] : table[Busy][j].path = collected[i].path)
        BY <2>1, <4>1 DEF Requested
      <4> QED BY <1>4, <3>2, <4>2 DEF InTable
    <3> QED BY <3>1, <3>2
  <2> QED BY <1>4, <2>2, <2>3, RowsFramed
<1>12. CASE LookAt
  <2>1. UNCHANGED <<table, backup>> /\ toSend # <<>>
    BY <1>12 DEF LookAt, Unchanged, accountVars
  <2>2. CASE UNCHANGED toSend
    BY <1>6, <2>1, <2>2
  <2>3. CASE toSend' = Tail(toSend) /\ Exists(OnDisk, Current.path) /\ Current.entry.type = "directory"
    <3>1. PICK c \in DOMAIN collected : IsCurrent(c) /\ collected[c] = Current
      BY <2>1, CurrentIndex
    <3>2. Matches(collected[c])
      BY <2>3, <3>1 DEF Matches, OnDisk
    <3>3. ASSUME Untouched(collected[c])' PROVE Matches(collected[c])' /\ InTable(collected[c])'
      <4>1. Untouched(collected[c]) /\ Matches(collected[c])'
        BY <1>4, <3>2, <3>3, FramedRows
      <4>2. InTable(collected[c])
        BY <3>2, <4>1 DEF RowsOK
      <4> QED BY <1>5, <2>1, <4>1, <4>2
    <3> QED BY <1>4, <1>5, <2>1, <2>3, <3>1, <3>3, RowsTail
  <2> QED BY <1>12, <2>2, <2>3 DEF LookAt
<1>13. CASE OpenAndSend
  <2>1. /\ UNCHANGED <<table, backup>> /\ toSend # <<>> /\ toSend' = Tail(toSend) /\ sess = "open"
        /\ Exists(OnDisk, Current.path)
    BY <1>13 DEF OpenAndSend, Unchanged, accountVars, Places
  <2>2. PICK c \in DOMAIN collected : IsCurrent(c) /\ collected[c] = Current
    BY <2>1, CurrentIndex
  <2>3. ASSUME Untouched(collected[c])' PROVE Matches(collected[c])' /\ InTable(collected[c])'
    <3>1. Untouched(collected[c])
      BY <1>4, <2>3, FramedRows
    <3>2. Matches(collected[c])
      BY <2>1, <2>2, <3>1 DEF LooksOK, Matches, OnDisk
    <3>3. Matches(collected[c])'
      BY <1>4, <2>3, <3>2, FramedRows
    <3>4. InTable(collected[c])
      BY <3>1, <3>2 DEF RowsOK
    <3> QED BY <1>5, <2>1, <3>3, <3>4
  <2> QED BY <1>4, <1>5, <2>1, <2>2, <2>3, RowsTail
<1>14. CASE Forget
  <2>1. toSend # <<>> /\ toSend' = Tail(toSend) /\ ~Due(Current)
    BY <1>14 DEF Forget, Places, LooksOK
  <2>2. PICK c \in DOMAIN collected : IsCurrent(c) /\ collected[c] = Current
    BY <2>1, CurrentIndex
  <2>3. /\ Current \in MacRow /\ Current.mac \in Mac
        /\ Selects(table'[Current.mac], table[Current.mac], Path \ {Current.path})
        /\ \A m \in Mac : m # Current.mac => table'[m] = table[m]
    BY <1>14, ForgottenRows, RowTypes
  <2>4. ASSUME Untouched(collected[c])' PROVE ~Matches(collected[c])' /\ ~InTable(collected[c])'
    <3>1. Untouched(collected[c]) /\ (Matches(collected[c])' <=> Matches(collected[c]))
      BY <1>4, <2>4, FramedRows
    <3>2. ~Matches(collected[c])
      BY <2>1, <2>2, <3>1 DEF Due
    <3>3. ~InTable(collected[c])'
      <4>1. \A j \in DOMAIN table'[Current.mac] : table'[Current.mac][j].path # Current.path
        BY <2>3 DEF Selects
      <4>2. collected'[c] = Current
        BY <1>4, <2>2
      <4> QED BY <4>1, <4>2 DEF InTable
    <3> QED BY <3>1, <3>2, <3>3
  <2>5. ASSUME NEW i \in DOMAIN collected, i # c
        PROVE  InTable(collected[i])' <=> InTable(collected[i])
    <3>0. collected[i].mac \in Mac /\ collected[i].path \in Path
      BY CollectedTypes
    <3>1. CASE collected[i].mac # Current.mac
      BY <1>4, <2>3, <3>0, <3>1 DEF InTable
    <3>2. CASE collected[i].mac = Current.mac
      <4>1. collected[i].path # Current.path
        BY <2>2, <2>5, <3>2 DEF RestOK, SameElement
      <4>2. (\E k \in DOMAIN table'[Current.mac] : table'[Current.mac][k].path = collected[i].path)
              <=> (\E j \in DOMAIN table[Current.mac] : table[Current.mac][j].path = collected[i].path)
        <5>1. collected[i].path \in Path \ {Current.path}
          BY <3>0, <4>1
        <5> QED BY <2>3, <5>1 DEF Selects
      <4> QED BY <1>4, <3>2, <4>2 DEF InTable
    <3> QED BY <3>1, <3>2
  <2> QED BY <1>4, <2>1, <2>2, <2>4, <2>5, RowsTail
<1> QED BY <1>2, <1>7, <1>8, <1>10, <1>11, <1>12, <1>13, <1>14 DEF Next, Server, Other
-----------------------------------------------------------------------------
(* The causes.                                                              *)

LEMMA ExcusedStays ==
  ASSUME Framed, Excused, link = "lost" => link' = "lost"
  PROVE  Excused'
<1>1. UNCHANGED <<collected, password, tried>> /\ touched \subseteq touched'
  BY DEF Framed
<1>2. (\E i \in DOMAIN collected : ~Untouched(collected[i])) => Excused'
  BY <1>1 DEF Excused, Untouched
<1>3. tried # password => Excused'
  BY <1>1 DEF Excused
<1>4. link = "lost" => Excused'
  BY DEF Excused
<1> QED BY <1>2, <1>3, <1>4 DEF Excused

\* What is lost stays lost.
LEMMA LostStays ==
  ASSUME TypeOK, Places, [Next]_vars
  PROVE  link = "lost" => link' = "lost"
<1>1. CASE Killed
  BY <1>1 DEF Killed, Places
<1>2. CASE CheckPassword \/ Vanished
  BY <1>2 DEF CheckPassword, Vanished, Closes
<1>3. CASE ~Killed /\ ~CheckPassword /\ ~Vanished
  <2>1. CASE Authenticate \/ Client \/ Lose \/ Administers \/ UNCHANGED vars
    BY <2>1 DEF vars, netVars, Authenticate, Client, RetrieveFiles, MakeDir, StoreFile, StoreData, Retrieved, Fails,
         Lose, Administers
  <2>2. CASE Server \/ Other
    BY <1>3, <2>2 DEF Server, Collect, LookAt, Examine, OpenAndSend, Forget, EndOfData, Leave, Unchanged, netVars,
         Other, Recover, OtherStores, OtherRemoves, OtherRows
  <2> QED BY <1>3, <2>1, <2>2 DEF Next
<1> QED BY <1>1, <1>2, <1>3

Broken == link = "closed" \/ \E n \in DOMAIN down : down[n].type = "ERR"

LEMMA CausesKept ==
  ASSUME TypeOK, Places, RestOK, LooksOK, CausesOK, [Next]_vars
  PROVE  CausesOK'
<1>1. down \in Seq(Messages) /\ DOMAIN down = 1 .. Len(down) /\ Len(down) \in Nat
  BY DEF TypeOK
<1>2. CausesOK <=> (Broken => Excused)
  BY DEF CausesOK, Broken
<1>3. CausesOK' <=> (Broken' => Excused')
  BY DEF CausesOK, Broken
<1>4. CASE Administers \/ Authenticate
  <2>1. UNCHANGED <<down, link>> /\ down = <<>> /\ link = "open"
    BY <1>4 DEF Administers, Authenticate, netVars, Places
  <2> QED BY <1>3, <2>1 DEF Broken
<1>5. CASE Collect
  <2>1. UNCHANGED <<down, link, tried, password>> /\ collected = <<>>
    BY <1>5 DEF Collect, clientVars, accountVars, programVars, Places
  <2>2. Broken' => Broken
    BY <2>1 DEF Broken
  <2>3. Excused => Excused'
    BY <2>1 DEF Excused
  <2> QED BY <1>2, <1>3, <2>2, <2>3
<1> SUFFICES ASSUME ~Administers, ~Collect PROVE CausesOK'
  BY <1>4, <1>5
<1>6. Framed /\ (Excused => Excused')
  BY FramedSteps, ExcusedStays, LostStays
<1>7. ASSUME Broken' => Broken PROVE CausesOK'
  BY <1>2, <1>3, <1>6, <1>7
<1>8. ASSUME NEW m \in Messages, m.type # "ERR", Sends(<<m>>), UNCHANGED link PROVE CausesOK'
  <2>1. Broken' => Broken
    <3>1. CASE link = "lost"
      BY <1>1, <1>8, <3>1, SendsOne DEF Broken
    <3>2. CASE link # "lost"
      <4>1. IsAppended(Messages, down', down, m)
        BY <1>1, <1>8, <3>2, SendsOne
      <4>2. \A k \in DOMAIN down' : down'[k] = m \/ (k \in DOMAIN down /\ down'[k] = down[k])
        BY <4>1 DEF IsAppended
      <4> QED BY <1>8, <4>2 DEF Broken
    <3> QED BY <3>1, <3>2
  <2> QED BY <1>7, <2>1
<1>9. Msg("OK", NoRow) \in Messages /\ Msg("OK", NoRow).type = "OK"
  BY MessageTypes
<1>10. CASE Client \/ Lose
  <2>1. PICK d : Dropped(d)
    BY <1>10, DropsClient
  <2>2. link' # "closed" \/ UNCHANGED link
    BY <1>10 DEF Client, RetrieveFiles, MakeDir, StoreFile, StoreData, Retrieved, Fails, Lose, netVars
  <2> QED BY <1>7, <2>1, <2>2 DEF Dropped, Broken
<1>11. CASE Other \/ Killed \/ Leave \/ Forget \/ UNCHANGED vars
  <2>1. UNCHANGED down /\ (UNCHANGED link \/ link' = "lost")
    BY <1>11 DEF Killed, Leave, Forget, vars, Unchanged, netVars, Other, Recover, OtherStores, OtherRemoves, OtherRows
  <2> QED BY <1>7, <2>1 DEF Broken
<1>12. CASE CheckPassword
  <2>1. CASE tried = password
    <3>1. Sends(<<Msg("OK", NoRow)>>) /\ UNCHANGED link
      BY <1>12, <2>1 DEF CheckPassword
    <3> QED BY <1>8, <1>9, <3>1
  <2>2. CASE tried # password
    BY <1>3, <1>6, <2>2 DEF Excused
  <2> QED BY <2>1, <2>2
<1>13. CASE LookAt
  <2>1. UNCHANGED link /\ toSend # <<>>
    BY <1>13 DEF LookAt, Unchanged
  <2>2. Msg("MKD", Current) \in Messages /\ Msg("MKD", Current).type = "MKD"
    BY <2>1, CurrentRow, MessageTypes
  <2>3. UNCHANGED down \/ Sends(<<Msg("MKD", Current)>>)
    BY <1>13 DEF LookAt
  <2>4. UNCHANGED down => CausesOK'
    BY <1>7, <2>1 DEF Broken
  <2> QED BY <1>8, <2>1, <2>2, <2>3, <2>4
<1>14. CASE Examine
  <2>1. UNCHANGED link /\ toSend # <<>>
    BY <1>14 DEF Examine, Unchanged, Places
  <2>2. Msg("STOR", Current) \in Messages /\ Msg("STOR", Current).type = "STOR"
    BY <2>1, CurrentRow, MessageTypes
  <2>3. UNCHANGED down \/ Sends(<<Msg("STOR", Current)>>)
    BY <1>14 DEF Examine
  <2>4. UNCHANGED down => CausesOK'
    BY <1>7, <2>1 DEF Broken
  <2> QED BY <1>8, <2>1, <2>2, <2>3, <2>4
<1>15. CASE OpenAndSend
  <2> DEFINE r == [Current EXCEPT !.entry = OnDisk[Current.path]]
  <2>1. UNCHANGED link /\ toSend # <<>> /\ Exists(OnDisk, Current.path) /\ Sends(<<Msg("DATA", r)>>)
    BY <1>15 DEF OpenAndSend, Unchanged, Places
  <2>2. r \in MacRow
    BY <2>1, CurrentRow, RowTypes
  <2> HIDE DEF r
  <2>3. Msg("DATA", r) \in Messages /\ Msg("DATA", r).type = "DATA"
    BY <2>2, MessageTypes
  <2> QED BY <1>8, <2>1, <2>3
<1>16. CASE EndOfData
  BY <1>8, <1>9, <1>16 DEF EndOfData, Unchanged
\* The file was there when the server looked at it: somebody touched it.
<1>17. CASE Vanished
  <2>1. sess \in {"examine", "open"} /\ ~Exists(OnDisk, Current.path)
    BY <1>17 DEF Vanished
  <2>2. ~Untouched(Current) /\ toSend # <<>>
    BY <2>1 DEF LooksOK, Places
  <2>3. Excused
    BY <2>2, CurrentIndex DEF Excused
  <2> QED BY <1>3, <1>6, <2>3
<1> QED BY <1>4, <1>10, <1>11, <1>12, <1>13, <1>14, <1>15, <1>16, <1>17 DEF Next, Server

\* A row that cannot be put into the destination folder.
Hopeless(row) == Obstructed(row) \/ (row.entry.type = "file" /\ ~Keeps(row.entry.hash))

LEMMA FailsKept ==
  ASSUME TypeOK, Places, RestOK, MessagesOK, CausesOK, FailsOnlyForCause, [Next]_vars
  PROVE  FailsOnlyForCause'
<1>1. down \in Seq(Messages) /\ DOMAIN down = 1 .. Len(down) /\ Len(down) \in Nat
  BY DEF TypeOK
<1>2. FailsOnlyForCause <=> (phase = "failed" => Excused \/ \E i \in DOMAIN collected : Hopeless(collected[i]))
  BY DEF FailsOnlyForCause, Excused, Hopeless
<1>3. FailsOnlyForCause' <=> (phase' = "failed" => Excused' \/ \E i \in DOMAIN collected' : Hopeless(collected[i])')
  BY DEF FailsOnlyForCause, Excused, Hopeless
<1>4. CASE phase' # "failed"
  BY <1>3, <1>4
<1>5. CASE Collect
  <2>1. UNCHANGED <<phase, link, tried, password>> /\ collected = <<>>
    BY <1>5 DEF Collect, clientVars, accountVars, programVars, Places
  <2>2. Excused => Excused'
    BY <2>1 DEF Excused
  <2>3. ~\E i \in DOMAIN collected : Hopeless(collected[i])
    BY <2>1
  <2> QED BY <1>2, <1>3, <2>1, <2>2, <2>3
<1>6. CASE Administers
  BY <1>4, <1>6 DEF Administers, clientVars
<1> SUFFICES ASSUME ~Administers, ~Collect, phase' = "failed" PROVE FailsOnlyForCause'
  BY <1>4, <1>5, <1>6
<1>7. Framed /\ (Excused => Excused') /\ UNCHANGED collected
  BY FramedSteps, ExcusedStays, LostStays DEF Framed
<1>8. ASSUME UNCHANGED dest, NEW i \in DOMAIN collected, Hopeless(collected[i])
      PROVE  FailsOnlyForCause'
  <2>1. Hopeless(collected[i])'
    BY <1>7, <1>8 DEF Hopeless, Obstructed
  <2> QED BY <1>3, <1>7, <2>1
<1>9. CASE phase = "failed"
  <2>1. UNCHANGED dest
    BY <1>9 DEF Next, vars, clientVars, Authenticate, Client, RetrieveFiles, MakeDir, StoreFile, StoreData, Retrieved,
       Fails, Active, Server, CheckPassword, Collect, LookAt, Examine, OpenAndSend, Forget, EndOfData, Vanished, Leave,
       Unchanged, Other, Recover, OtherStores, OtherRemoves, OtherRows, Lose, Killed
  <2> QED BY <1>2, <1>3, <1>7, <1>8, <1>9, <2>1
<1>10. CASE phase # "failed"
  <2>1. MakeDir \/ StoreData \/ Fails
    BY <1>10 DEF Next, vars, clientVars, Authenticate, Client, RetrieveFiles, StoreFile, Retrieved,
       Server, CheckPassword, Collect, LookAt, Examine, OpenAndSend, Forget, EndOfData, Vanished, Leave,
       Unchanged, Other, Recover, OtherStores, OtherRemoves, OtherRows, Lose, Killed
  <2>2. CASE Fails
    <3>1. link = "lost" \/ link = "closed" \/ \E n \in DOMAIN down : down[n].type = "ERR"
      BY <2>2 DEF Fails
    <3>2. Excused
      BY <3>1 DEF CausesOK, Excused
    <3> QED BY <1>3, <1>7, <3>2
  <2>3. CASE MakeDir
    <3>1. /\ down # <<>> /\ down[1].type = "MKD" /\ UNCHANGED dest
          /\ ~Makeable(dest[down[1].row.mac], down[1].row.path)
      BY <1>10, <2>3, MakeDirPuts
    <3>2. 1 \in DOMAIN down
      BY <1>1, <3>1
    <3>3. PICK i \in DOMAIN collected : IsAbout(1, i)
      BY <3>1, <3>2 DEF MessagesOK, RowsMeant, OfRow, RowTags
    <3>4. collected[i] = down[1].row /\ collected[i].entry.type = "directory"
      BY <3>1, <3>3 DEF IsAbout
    <3>5. Hopeless(collected[i])
      BY <3>1, <3>4 DEF Hopeless, Obstructed, Makeable
    <3> QED BY <1>8, <3>1, <3>5
  <2>4. CASE StoreData
    <3>1. /\ Len(down) >= 2 /\ down[1].type = "STOR" /\ UNCHANGED dest
          /\ \/ ~AsExpected(down[1].row, down[2].row)
             \/ ~Reachable(dest[down[1].row.mac], down[1].row.path)
             \/ IsDir(dest[down[1].row.mac], down[1].row.path)
      BY <2>4, StoreDataPuts
    <3>2. 1 \in DOMAIN down /\ 1 # Len(down)
      BY <1>1, <3>1
    <3>3. PICK i \in DOMAIN collected : IsAbout(1, i)
      BY <3>1, <3>2 DEF MessagesOK, RowsMeant, OfRow, RowTags
    <3>4. collected[i] = down[1].row /\ collected[i].entry.type = "file"
      BY <3>1, <3>3 DEF IsAbout
    <3>5. Untouched(collected[i]) => down[2].row.entry.hash = down[1].row.entry.hash
      BY <3>1, <3>2, <3>4 DEF MessagesOK, StorePairs
    <3>6. CASE ~Untouched(collected[i])
      <4>1. Excused
        BY <3>6 DEF Excused
      <4> QED BY <1>3, <1>7, <4>1
    <3>7. CASE Untouched(collected[i])
      <4>1. Hopeless(collected[i])
        BY <3>1, <3>4, <3>5, <3>7 DEF Hopeless, Obstructed, AsExpected
      <4> QED BY <1>8, <3>1, <4>1
    <3> QED BY <3>6, <3>7
  <2> QED BY <2>1, <2>2, <2>3, <2>4
<1> QED BY <1>9, <1>10
-----------------------------------------------------------------------------
(* The whole invariant.                                                     *)

LEMMA InvariantInit == Init => IInv
<1> SUFFICES ASSUME Init PROVE IInv
  OBVIOUS
<1>1. /\ AccountsInit /\ phase = "idle" /\ tried \in Password /\ wanted = {} /\ dest \in Destinations
      /\ request = "none" /\ down = <<>> /\ link = "open"
      /\ sess = "none" /\ toSend = <<>> /\ collected = <<>>
      /\ mine = NoSession /\ pending = NoRow /\ edits = 0 /\ touched = {}
  BY DEF Init
<1>2. DOMAIN collected = {} /\ DOMAIN down = {} /\ DOMAIN toSend = {} /\ Len(toSend) = 0 /\ Len(collected) = 0
  BY <1>1
<1>3. PICK data \in ServerData : table = data.table /\ backup = data.backup
  BY <1>1 DEF AccountsInit
<1>4. /\ table \in [Mac -> Seq(Row)] /\ backup \in [Mac -> Tree]
      /\ \A m \in Mac : OneRowEach(table[m]) /\ WellFormed(backup[m])
  BY <1>3, AccountsAssumption
<1>5. AccountsTypeOK
  <2>1. /\ program = "off" /\ todo = <<>> /\ macs = {} /\ password \in Password
        /\ starts = 0 /\ crashes = 0 /\ named = {} /\ interrupted = FALSE
    BY <1>1 DEF AccountsInit
  <2>2. todo \in Seq(StepNames)
    BY <2>1, StepsOfTypes
  <2>3. starts \in 0 .. MaxStarts /\ crashes \in 0 .. MaxCrashes
    BY <2>1, AccountsAssumption
  <2> QED BY <1>4, <2>1, <2>2, <2>3 DEF AccountsTypeOK
<1>6. TypeOK
  BY <1>1, <1>5, RetrievalAssumption DEF TypeOK
<1>7. AdministrationOK
  <2>1. todo = <<>> /\ DOMAIN todo = {} /\ program = "off" /\ password # NoPassword
    BY <1>1, AccountsAssumption DEF AccountsInit
  <2> QED BY <1>1, <2>1 DEF AdministrationOK, CommandOrder, UserRemoved
<1>8. SessionOK /\ Places /\ RestOK
  BY <1>1, <1>2, <1>4 DEF SessionOK, Places, RestOK, Working
<1>9. MessagesOK /\ LooksOK
  BY <1>1, <1>2 DEF MessagesOK, RowsMeant, LastWord, StorePairs, InOrder, LooksOK
<1>10. DeliveryOK /\ RowsOK /\ CausesOK /\ FailsOnlyForCause
  BY <1>1, <1>2 DEF DeliveryOK, RowsOK, CausesOK, FailsOnlyForCause
<1> QED BY <1>6, <1>7, <1>8, <1>9, <1>10 DEF IInv

LEMMA InvariantKept == IInv /\ [Next]_vars => IInv'
<1> SUFFICES ASSUME IInv, [Next]_vars PROVE IInv'
  OBVIOUS
<1>1. /\ TypeOK /\ AdministrationOK /\ SessionOK /\ Places /\ RestOK /\ MessagesOK /\ LooksOK
      /\ DeliveryOK /\ RowsOK /\ CausesOK /\ FailsOnlyForCause
      /\ \A m \in Mac : OneRowEach(table[m])
  BY DEF IInv, SessionOK
<1>2. TypeOK' /\ AdministrationOK' /\ SessionOK' /\ Places'
  BY <1>1, TypesKept, AdministrationKept, SessionKept, PlacesKept
<1>3. RestOK' /\ MessagesOK' /\ LooksOK'
  BY <1>1, RestKept, MessagesKept, LooksKept
<1>4. DeliveryOK' /\ RowsOK' /\ CausesOK' /\ FailsOnlyForCause'
  BY <1>1, DeliveryKept, RowsKept, CausesKept, FailsKept
<1> QED BY <1>2, <1>3, <1>4 DEF IInv

\* The parts of the invariant hold in every reachable state, whatever the machines, rows,
\* folders and command lines are.
THEOREM InvariantHolds == Spec => []IInv
  BY InvariantInit, InvariantKept, PTL DEF Spec

\* Every variable keeps its type, and the folders of server and client stay trees: below
\* what is there, every component of the way is a directory.
THEOREM RetrievalTyped == Spec => []TypeOK
<1>1. IInv => TypeOK
  BY DEF IInv
<1> QED BY <1>1, InvariantHolds, PTL

\* After a complete command line that removed the user nothing of his is left, for every
\* combination of options main takes in its order (server/main.cpp).
THEOREM RemovedUserIsGone == Spec => []NoUserNoData
<1>1. IInv => NoUserNoData
  <2> SUFFICES ASSUME IInv, password = NoPassword, todo = <<>>, ~interrupted
               PROVE  AllGone
    BY DEF NoUserNoData, AllGone
  <2>1. AllGone \/ Removing
    BY DEF IInv, AdministrationOK, UserRemoved
  <2>2. ~Removing
    BY RemovingSteps DEF IInv
  <2> QED BY <2>1, <2>2
<1> QED BY <1>1, InvariantHolds, PTL

\* When the client reports success, each element that the backup had as the table says
\* it, and that nobody touched meanwhile, is in the destination folder as it was saved.
THEOREM WhatIsRetrieved == Spec => []RetrievedIsBackup
<1>1. IInv => RetrievedIsBackup
  <2> SUFFICES ASSUME IInv, phase = "done", NEW i \in DOMAIN collected,
                      Matches(collected[i]), Untouched(collected[i])
               PROVE  IF collected[i].entry.type = "directory" /\ ~ParentsFirst(i)
                      THEN IsDir(dest[collected[i].mac], collected[i].path)
                      ELSE dest[collected[i].mac][collected[i].path] = collected[i].entry
    BY DEF RetrievedIsBackup
  <2>1. TypeOK /\ RestOK /\ Places /\ DeliveryOK
    BY DEF IInv
  <2>2. toSend = <<>> /\ down = <<>>
    BY <2>1 DEF Places
  <2>3. Looked(i) /\ Due(collected[i])
    BY <2>1, <2>2, CollectedTypes DEF Looked, Due
  <2>4. Alive
    BY DEF Alive, Active
  <2>5. ~UnderWay(i)
    BY <2>2 DEF UnderWay
  <2>6. Landed(i)
    BY <2>1, <2>3, <2>4, <2>5 DEF DeliveryOK, Settled
  <2> QED BY <2>6 DEF Landed
<1> QED BY <1>1, InvariantHolds, PTL

\* A retrieval that fails does so because of the password, the network, a crash, a change
\* of an element meanwhile, the destination folder or a size that does not fit an int.
THEOREM FailuresHaveCauses == Spec => []FailsOnlyForCause
<1>1. IInv => FailsOnlyForCause
  BY DEF IInv
<1> QED BY <1>1, InvariantHolds, PTL

\* A retrieval to the end leaves exactly the rows whose element is still as they say,
\* among those that nobody touched.
THEOREM StaleRowsForgotten == Spec => []ForgetsStaleRows
<1>1. IInv => ForgetsStaleRows
  <2> SUFFICES ASSUME IInv, phase = "done", NEW i \in DOMAIN collected, Untouched(collected[i])
               PROVE  Matches(collected[i]) <=> InTable(collected[i])
    BY DEF ForgetsStaleRows, InTable
  <2>1. TypeOK /\ RestOK /\ Places /\ RowsOK
    BY DEF IInv
  <2>2. Looked(i)
    BY <2>1, CollectedTypes DEF Looked, Places
  <2> QED BY <2>1, <2>2 DEF RowsOK
<1> QED BY <1>1, InvariantHolds, PTL
=============================================================================
