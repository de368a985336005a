------------------------- MODULE ServerThreadsProofs -------------------------
(***************************************************************************)
(* The server's socket queue is safe for one acceptor and any number of    *)
(* threads, for every size: nobody sleeps without a reason, each           *)
(* connection is handed to one thread, and the connection that only ends   *)
(* the accept is never handed over.                                        *)
(***************************************************************************)
EXTENDS ServerThreads, SequenceTheorems, FiniteSetTheorems, TLAPS

\* Why a thread sleeps or is about to.
Sleepers == /\ onPush \subseteq {Acceptor}
            /\ onPop \subseteq Workers
            /\ owner = Acceptor => Len(items) = Size
            /\ owner \in Workers => items = <<>>

\* Who connects to end the accept has set the flag before.
FlagFirst == /\ \A i \in DOMAIN backlog : backlog[i] = Waker => stopMain
             /\ \A w \in Workers : at[w] = "wake" => stopMain

IInv == TypeOK /\ NoIdleSleeper /\ Sleepers /\ FlagFirst /\ WakerIsNoClient

USE QueueAssumption, ServerThreadsAssumption
USE DEF QueueTypeOK, NotEmpty, NotFull

LEMMA InitIInv == Init => IInv
<1> SUFFICES ASSUME Init PROVE IInv
  OBVIOUS
<1>1. stopMain \in BOOLEAN /\ stopServers \in BOOLEAN /\ unheard \in BOOLEAN
  BY Zenon DEF Init
<1>2. QueueTypeOK
  BY DEF Init, QueueInit
<1>3. TypeOK
  BY <1>1, <1>2 DEF Init, TypeOK
<1> QED BY <1>3 DEF Init, QueueInit, IInv, NoIdleSleeper, Sleepers, FlagFirst, WakerIsNoClient, Workers

\* What main has just accepted.
LEMMA OneElement ==
  ASSUME NEW s \in Seq(Value), s # <<>>, Len(s) <= 1
  PROVE  s[1] \in Value /\ s = <<s[1]>>
<1>1. Len(s) \in Nat \ {0}
  BY EmptySeq, Zenon
<1>2. Len(s) = 1
  BY <1>1
<1>3. s[1] \in Value /\ <<s[1]>> \in Seq(Value) /\ Len(<<s[1]>>) = 1 /\ <<s[1]>>[1] = s[1]
  BY <1>2
<1>4. \A i \in 1 .. Len(s) : s[i] = <<s[1]>>[i]
  BY <1>2, <1>3
<1> QED BY <1>2, <1>3, <1>4, SeqEqual

LEMMA MainKeeps ==
  ASSUME IInv, Main \/ AcceptFails
  PROVE  IInv'
<1> USE DEF IInv, TypeOK, NoIdleSleeper, Sleepers, FlagFirst, WakerIsNoClient, Workers,
            acceptVars, workerVars, flagVars
<1>1. CASE BeginAccept
  BY <1>1 DEF BeginAccept, queueVars
<1>2. CASE Accept
  <2> USE <1>2 DEF Accept, queueVars
  <2>1. /\ backlog' \in Seq(Value) /\ Len(backlog') = Len(backlog) - 1
        /\ \A i \in DOMAIN backlog' : i + 1 \in DOMAIN backlog /\ backlog'[i] = backlog[i + 1]
        /\ 1 \in DOMAIN backlog /\ Head(backlog) = backlog[1] /\ Head(backlog) \in Value
    OBVIOUS
  <2>2. \A i \in DOMAIN backlog' : backlog'[i] = Waker => stopMain'
    BY <2>1
  <2>3. CASE stopMain
    BY <2>1, <2>2, <2>3
  <2>4. CASE ~stopMain
    <3>1. Head(backlog) # Waker
      BY <2>1, <2>4
    <3>2. accepted' = <<Head(backlog)>> /\ main' = "push"
      BY <2>4
    <3>3. accepted' # <<Waker>> /\ accepted' \in Seq(Value) /\ Len(accepted') = 1 /\ accepted' # <<>>
      BY <2>1, <3>1, <3>2
    <3> QED BY <2>1, <2>2, <3>2, <3>3
  <2> QED BY <2>3, <2>4
<1>3. CASE AcceptFails
  BY <1>3 DEF AcceptFails, queueVars
<1>4. CASE Push
  <2> USE <1>4 DEF Push, Put, Lock, Awake
  <2>1. accepted \in Seq(Value) /\ accepted # <<>> /\ Len(accepted) <= 1
    OBVIOUS
  <2>2. accepted[1] \in Value /\ accepted = <<accepted[1]>>
    BY <2>1, OneElement
  <2>3. accepted[1] # Waker
    BY <2>2
  <2>4. /\ items' \in Seq(Value) /\ Len(items') = Len(items) + 1 /\ items' # <<>>
        /\ \A i \in DOMAIN items' : items'[i] = IF i = Len(items') THEN accepted[1] ELSE items[i]
        /\ \A i \in DOMAIN items' : i # Len(items') => i \in DOMAIN items
    BY <2>2
  <2>5. WakerIsNoClient'
    BY <2>3, <2>4
  <2>6. TypeOK'
    BY <2>4
  <2> QED BY <2>4, <2>5, <2>6
<1>5. CASE PushMustWait
  BY <1>5 DEF PushMustWait, GoToSleep, Lock, Awake
<1>6. CASE AcceptorSleeps
  BY <1>6 DEF AcceptorSleeps, SleepOnPush
<1>7. CASE Leave
  BY <1>7 DEF Leave, queueVars
<1>8. CASE NotifyWorkers
  BY <1>8 DEF NotifyWorkers, NotifyAll
<1>9. CASE Join
  BY <1>9 DEF Join, queueVars
<1> QED BY <1>1, <1>2, <1>3, <1>4, <1>5, <1>6, <1>7, <1>8, <1>9 DEF Main

LEMMA WorkerKeeps ==
  ASSUME IInv, NEW w \in Workers, Worker(w) \/ Fatal(w)
  PROVE  IInv'
<1> USE DEF IInv, TypeOK, NoIdleSleeper, Sleepers, FlagFirst, WakerIsNoClient, Workers,
            acceptVars, workerVars, flagVars, Goto
<1>1. CASE Top(w)
  BY <1>1 DEF Top, queueVars
<1>2. CASE Get(w)
  BY <1>2 DEF Get, Take, Lock, Awake
<1>3. CASE GetMustWait(w)
  BY <1>3 DEF GetMustWait, GoToSleep, Lock, Awake
<1>4. CASE WorkerSleeps(w)
  BY <1>4 DEF WorkerSleeps, SleepOnPop
<1>5. CASE GetIsStopped(w)
  BY <1>5 DEF GetIsStopped, NotifyAll
<1>6. CASE Authenticated(w)
  BY <1>6 DEF Authenticated, queueVars
<1>7. CASE Loop(w)
  BY <1>7 DEF Loop, queueVars
<1>8. CASE Ready(w)
  BY <1>8 DEF Ready, queueVars
<1>14. CASE Message(w)
  BY <1>14 DEF Message, queueVars
<1>9. CASE TimesOut(w)
  BY <1>9 DEF TimesOut, queueVars
<1>10. CASE EndSession(w)
  BY <1>10 DEF EndSession, queueVars
<1>11. CASE Fatal(w)
  BY <1>11 DEF Fatal, queueVars
<1>12. CASE WakeMain(w)
  BY <1>12 DEF WakeMain, queueVars
<1>13. CASE WakeFails(w)
  BY <1>13 DEF WakeFails, NotifyAll
<1> QED BY <1>1, <1>2, <1>3, <1>4, <1>5, <1>6, <1>7, <1>8, <1>9, <1>10, <1>11, <1>12, <1>13, <1>14 DEF Worker

LEMMA ClientsKeep ==
  ASSUME IInv, NEW c \in Clients, ClientConnects(c)
  PROVE  IInv'
  BY DEF ClientConnects, Clients, IInv, TypeOK, NoIdleSleeper, Sleepers, FlagFirst,
         WakerIsNoClient, Workers, queueVars, acceptVars, workerVars, flagVars

LEMMA StutterKeeps ==
  ASSUME IInv, UNCHANGED vars
  PROVE  IInv'
  BY DEF vars, IInv, TypeOK, NoIdleSleeper, Sleepers, FlagFirst, WakerIsNoClient, Workers,
         queueVars, acceptVars, workerVars, flagVars

\* The inductive invariant.
THEOREM Invariant == Spec => []IInv
<1>1. IInv /\ [Next]_vars => IInv'
  BY MainKeeps, WorkerKeeps, ClientsKeep, StutterKeeps DEF Next
<1> QED BY InitIInv, <1>1, PTL DEF Spec

\* The types of the threads' variables; the queues never exceed their sizes, and main
\* holds a connection exactly when it is about to push one.
THEOREM PoolTypeOK == Spec => []TypeOK
  BY Invariant, PTL DEF IInv

\* No thread of the server sleeps, or stays asleep, while what it waits for is there.
THEOREM NoLostWakeup == Spec => []NoIdleSleeper
  BY Invariant, PTL DEF IInv

\* The connection that ends the accept is never given to a thread, because main looks
\* at the flag between accept and push, and the flag is set before the connection is made.
THEOREM WakerNeverServed == Spec => []WakerIsNoClient
  BY Invariant, PTL DEF IInv
-----------------------------------------------------------------------------
(* Each connection is in one place.                                         *)

\* Two places of one sequence, or of two sequences, do not hold the same connection.
InOnePlace(s, c) == \A i, j \in DOMAIN s : s[i] = c /\ s[j] = c => i = j
NotIn(s, c) == \A i \in DOMAIN s : s[i] # c
Unserved(c) == \A w \in Workers : serving[w] # <<c>>

\* Holders(c) <= 1 without counting: what is in one of the places is in no other.
Once(c) == /\ InOnePlace(backlog, c) /\ InOnePlace(items, c) /\ InOnePlace(accepted, c)
           /\ \A w, x \in Workers : serving[w] = <<c>> /\ serving[x] = <<c>> => w = x
           /\ NotIn(backlog, c) \/ (NotIn(items, c) /\ NotIn(accepted, c) /\ Unserved(c))
           /\ NotIn(items, c) \/ (NotIn(accepted, c) /\ Unserved(c))
           /\ NotIn(accepted, c) \/ Unserved(c)

LEMMA AtMostOne ==
  ASSUME NEW S, \A x, y \in S : x = y
  PROVE  /\ Cardinality(S) \in {0, 1}
         /\ Cardinality(S) = 0 <=> S = {}
<1>1. CASE S = {}
  BY <1>1, FS_EmptySet
<1>2. CASE S # {}
  <2>1. PICK x : S = {x}
    BY <1>2
  <2> QED BY <2>1, FS_Singleton
<1> QED BY <1>1, <1>2

LEMMA Counted ==
  ASSUME NEW c, Once(c)
  PROVE  /\ Holders(c) <= 1
         /\ Holders(c) = 0 => /\ NotIn(backlog, c) /\ NotIn(items, c)
                              /\ NotIn(accepted, c) /\ Unserved(c)
<1> DEFINE B == {i \in DOMAIN backlog : backlog[i] = c}
           I == {i \in DOMAIN items : items[i] = c}
           A == {i \in DOMAIN accepted : accepted[i] = c}
           W == {w \in Workers : serving[w] = <<c>>}
<1>1. /\ \A x, y \in B : x = y
      /\ \A x, y \in I : x = y
      /\ \A x, y \in A : x = y
      /\ \A x, y \in W : x = y
  BY DEF Once, InOnePlace
<1>2. /\ NotIn(backlog, c) <=> B = {}
      /\ NotIn(items, c) <=> I = {}
      /\ NotIn(accepted, c) <=> A = {}
      /\ Unserved(c) <=> W = {}
  BY DEF NotIn, Unserved
<1>3. /\ B = {} \/ (I = {} /\ A = {} /\ W = {})
      /\ I = {} \/ (A = {} /\ W = {})
      /\ A = {} \/ W = {}
  BY <1>2 DEF Once
<1>4. Holders(c) = Cardinality(B) + Cardinality(I) + Cardinality(A) + Cardinality(W)
  BY DEF Holders
<1> HIDE DEF B, I, A, W
<1>5. /\ Cardinality(B) \in {0, 1} /\ (Cardinality(B) = 0 <=> B = {})
      /\ Cardinality(I) \in {0, 1} /\ (Cardinality(I) = 0 <=> I = {})
      /\ Cardinality(A) \in {0, 1} /\ (Cardinality(A) = 0 <=> A = {})
      /\ Cardinality(W) \in {0, 1} /\ (Cardinality(W) = 0 <=> W = {})
  BY <1>1, AtMostOne, Zenon
<1> QED BY <1>2, <1>3, <1>4, <1>5

LEMMA OnceAtStart ==
  ASSUME Init, NEW c \in Clients
  PROVE  Once(c)
  BY DEF Init, QueueInit, Once, InOnePlace, NotIn, Unserved

LEMMA MainKeepsOnce ==
  ASSUME IInv, Main \/ AcceptFails, NEW c \in Clients, Once(c)
  PROVE  Once(c)'
<1> USE DEF Once, InOnePlace, NotIn, Unserved, acceptVars, workerVars, flagVars
<1>1. CASE Accept
  <2>1. /\ \A i \in DOMAIN backlog' : i \in Int /\ i + 1 \in DOMAIN backlog /\ i # 0
                                      /\ backlog'[i] = backlog[i + 1]
        /\ 1 \in DOMAIN backlog /\ Head(backlog) = backlog[1]
    BY <1>1 DEF Accept, IInv, TypeOK
  <2>2. UNCHANGED <<items, serving>>
    BY <1>1 DEF Accept, queueVars
  <2>3. CASE accepted' = accepted
    <3>1. InOnePlace(backlog, c)' /\ (NotIn(backlog, c) => NotIn(backlog, c)')
      BY <2>1
    <3> QED BY <2>2, <2>3, <3>1
  <2>4. CASE accepted' = <<Head(backlog)>>
    <3>1. DOMAIN accepted' = {1} /\ accepted'[1] = backlog[1]
      BY <2>1, <2>4
    <3>2. CASE backlog[1] = c
      <4>1. NotIn(backlog, c)'
        BY <2>1, <3>2
      <4>2. NotIn(items, c) /\ Unserved(c)
        BY <2>1, <3>2
      <4> QED BY <2>2, <3>1, <4>1, <4>2
    <3>3. CASE backlog[1] # c
      <4>1. InOnePlace(backlog, c)' /\ (NotIn(backlog, c) => NotIn(backlog, c)') /\ NotIn(accepted, c)'
        BY <2>1, <3>1, <3>3
      <4>2. InOnePlace(accepted, c)'
        BY <3>1
      <4> QED BY <2>2, <4>1, <4>2
    <3> QED BY <3>2, <3>3
  <2> QED BY <1>1, <2>3, <2>4 DEF Accept
<1>2. CASE Push
  <2>1. /\ accepted[1] \in Value /\ 1 \in DOMAIN accepted /\ DOMAIN accepted' = {}
    BY <1>2, OneElement DEF Push, IInv, TypeOK
  <2>2. /\ \A i \in DOMAIN items' : items'[i] = IF i = Len(items') THEN accepted[1] ELSE items[i]
        /\ \A i \in DOMAIN items' : i # Len(items') => i \in DOMAIN items
    BY <1>2, <2>1 DEF Push, Put, IInv, TypeOK
  <2>3. UNCHANGED <<backlog, serving>>
    BY <1>2 DEF Push
  <2>4. CASE accepted[1] = c
    BY <2>1, <2>2, <2>3, <2>4
  <2>5. CASE accepted[1] # c
    <3>1. \A i \in DOMAIN items' : items'[i] = c => i \in DOMAIN items /\ items[i] = c
      BY <2>2, <2>5
    <3> QED BY <2>1, <2>3, <3>1
  <2> QED BY <2>4, <2>5
<1>3. CASE ~Accept /\ ~Push
  BY <1>3 DEF Main, BeginAccept, AcceptFails, PushMustWait, AcceptorSleeps, GoToSleep, SleepOnPush,
              Leave, NotifyWorkers, Join, queueVars
<1> QED BY <1>1, <1>2, <1>3

\* The connection a thread turns to, or lets go, is the only one that changes.
LEMMA Served ==
  ASSUME NEW w \in Workers, NEW s, serving' = [serving EXCEPT ![w] = s],
         NEW x \in Workers, NEW c, serving'[x] = <<c>>
  PROVE  serving[x] = <<c>> \/ (x = w /\ s = <<c>>)
  OBVIOUS

LEMMA WorkerKeepsOnce ==
  ASSUME IInv, NEW w \in Workers, Worker(w) \/ Fatal(w), NEW c \in Clients, Once(c)
  PROVE  Once(c)'
<1> USE DEF Once, InOnePlace, NotIn, Unserved, acceptVars, workerVars, flagVars, Goto
<1>1. CASE Get(w)
  <2>1. /\ \A i \in DOMAIN items' : i \in Int /\ i + 1 \in DOMAIN items /\ i # 0
                                    /\ items'[i] = items[i + 1]
        /\ 1 \in DOMAIN items /\ Head(items) = items[1]
    BY <1>1 DEF Get, Take, IInv, TypeOK
  <2>2. UNCHANGED <<backlog, accepted>>
    BY <1>1 DEF Get
  <2>3. serving' = [serving EXCEPT ![w] = <<items[1]>>]
    BY <1>1, <2>1 DEF Get
  <2>4. \A x \in Workers : serving'[x] = <<c>> => serving[x] = <<c>> \/ (x = w /\ items[1] = c)
    BY <2>3, Served
  <2>5. CASE items[1] = c
    <3>1. NotIn(items, c)'
      BY <2>1, <2>5
    <3>2. Unserved(c) /\ NotIn(backlog, c) /\ NotIn(accepted, c)
      BY <2>1, <2>5
    <3> QED BY <2>2, <2>4, <3>1, <3>2
  <2>6. CASE items[1] # c
    <3>1. InOnePlace(items, c)' /\ (NotIn(items, c) => NotIn(items, c)')
      BY <2>1
    <3>2. \A x \in Workers : serving'[x] = <<c>> => serving[x] = <<c>>
      BY <2>4, <2>6
    <3> QED BY <2>2, <3>1, <3>2
  <2> QED BY <2>5, <2>6
<1>2. CASE EndSession(w)
  <2>1. \A x \in Workers : serving'[x] = <<c>> => serving[x] = <<c>>
    BY <1>2, Served DEF EndSession
  <2> QED BY <1>2, <2>1 DEF EndSession, queueVars
<1>3. CASE WakeMain(w)
  <2>1. \A x \in Workers : serving'[x] = <<c>> => serving[x] = <<c>>
    <3>1. serving' = [serving EXCEPT ![w] = <<>>]
      BY <1>3 DEF WakeMain
    <3> QED BY <3>1, Served
  <2>2. \A i \in DOMAIN backlog' : backlog'[i] = c => i \in DOMAIN backlog /\ backlog[i] = c
    BY <1>3 DEF WakeMain, IInv, TypeOK, Clients
  <2>3. UNCHANGED <<items, accepted>>
    BY <1>3 DEF WakeMain, queueVars
  <2> QED BY <2>1, <2>2, <2>3
<1>4. CASE WakeFails(w)
  <2>1. \A x \in Workers : serving'[x] # <<c>>
    BY <1>4 DEF WakeFails
  <2>2. accepted' = <<>> /\ UNCHANGED <<backlog, items>>
    BY <1>4 DEF WakeFails
  <2> QED BY <2>1, <2>2
<1>5. CASE ~Get(w) /\ ~EndSession(w) /\ ~WakeMain(w) /\ ~WakeFails(w)
  BY <1>5 DEF Worker, Top, GetMustWait, WorkerSleeps, GetIsStopped, Authenticated, Loop, Ready,
              Message, TimesOut, Fatal, GoToSleep, SleepOnPop, queueVars
<1> QED BY <1>1, <1>2, <1>3, <1>4, <1>5

LEMMA ClientsKeepOnce ==
  ASSUME IInv, NEW d \in Clients, ClientConnects(d), NEW c \in Clients, Once(c), Once(d)
  PROVE  Once(c)'
<1>1. NotIn(backlog, d) /\ NotIn(items, d) /\ NotIn(accepted, d) /\ Unserved(d)
  BY Counted DEF ClientConnects
<1>2. /\ \A i \in DOMAIN backlog' : backlog'[i] = IF i = Len(backlog') THEN d ELSE backlog[i]
      /\ \A i \in DOMAIN backlog' : i # Len(backlog') => i \in DOMAIN backlog
  BY DEF ClientConnects, IInv, TypeOK, Clients
<1>3. UNCHANGED <<items, accepted, serving>>
  BY DEF ClientConnects, queueVars, acceptVars, workerVars
<1>4. CASE c = d
  BY <1>1, <1>2, <1>3, <1>4 DEF Once, InOnePlace, NotIn, Unserved
<1>5. CASE c # d
  BY <1>2, <1>3, <1>5 DEF Once, InOnePlace, NotIn, Unserved
<1> QED BY <1>4, <1>5

\* A connection is waiting for accept, in main's hand, in the socket queue or served by
\* one thread, and never in two of these places.
THEOREM ConnectionsOnce == Spec => []EachConnectionOnce
<1> DEFINE AllOnce == \A c \in Clients : Once(c)
<1>1. Init => AllOnce
  BY OnceAtStart
<1>2. IInv /\ AllOnce /\ [Next]_vars => AllOnce'
  <2> SUFFICES ASSUME IInv, AllOnce, [Next]_vars, NEW c \in Clients PROVE Once(c)'
    OBVIOUS
  <2>1. CASE UNCHANGED vars
    BY <2>1 DEF vars, queueVars, acceptVars, workerVars, Once, InOnePlace, NotIn, Unserved
  <2>2. CASE Next
    BY <2>2, MainKeepsOnce, WorkerKeepsOnce, ClientsKeepOnce DEF Next
  <2> QED BY <2>1, <2>2
<1>3. AllOnce => EachConnectionOnce
  BY Counted DEF EachConnectionOnce
<1> QED BY Invariant, <1>1, <1>2, <1>3, PTL DEF Spec
=============================================================================
