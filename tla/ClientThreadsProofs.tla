------------------------- MODULE ClientThreadsProofs -------------------------
(***************************************************************************)
(* The client's event queue is safe for its two threads, for every size of *)
(* queue and window: no thread sleeps without a reason, and what the       *)
(* communication thread asked before select still holds when it uses it.   *)
(***************************************************************************)
EXTENDS ClientThreads, TLAPS

\* Why a thread sleeps or is about to, and what the thread knows at its select.
Sleepers == /\ onPush \subseteq {Watcher}
            /\ onPop \subseteq {Communicator}
            /\ owner = Watcher => Len(items) = Size
            /\ owner = Communicator => items = <<>>
AtSelect == comm = "select" /\ write => NotEmpty /\ unanswered < WindowSize
AtRetry == main = "retry" => left > 0

IInv == TypeOK /\ NoIdleSleeper /\ Sleepers /\ SelectStillTrue /\ AtSelect /\ AtRetry

USE QueueAssumption, ThreadsAssumption
USE DEF QueueTypeOK, NotEmpty, NotFull

LEMMA InitIInv == Init => IInv
<1> SUFFICES ASSUME Init PROVE IInv
  OBVIOUS
<1>1. QueueTypeOK
  BY DEF Init, QueueInit
<1>2. write \in BOOLEAN /\ read \in BOOLEAN /\ stopWatch \in BOOLEAN /\ stopComm \in BOOLEAN
      /\ unheard \in BOOLEAN
  BY Zenon DEF Init
<1>3. main = "recover" /\ comm = "top" /\ left \in 0 .. MaxFound
  BY DEF Init
<1>4. unanswered = 0 /\ tries = 0 /\ idle = 0
  BY DEF Init
<1>5. TypeOK
  BY <1>1, <1>2, <1>3, <1>4 DEF TypeOK
<1> QED BY <1>3, <1>5 DEF Init, QueueInit, IInv, NoIdleSleeper, Sleepers, SelectStillTrue, AtSelect, AtRetry

LEMMA MainKeeps ==
  ASSUME IInv, Main \/ WatcherThrows
  PROVE  IInv'
<1> USE DEF IInv, TypeOK, NoIdleSleeper, Sleepers, SelectStillTrue, AtSelect, AtRetry,
            commVars, sessionVars, flagVars, mainVars
<1>1. CASE PushRecovered
  BY <1>1 DEF PushRecovered, Put, Lock, Awake
<1>2. CASE PushMustWait
  BY <1>2 DEF PushMustWait, GoToSleep, Lock, Awake
<1>3. CASE WatcherSleeps
  BY <1>3 DEF WatcherSleeps, SleepOnPush
<1>4. CASE PushIsStopped
  BY <1>4 DEF PushIsStopped, JustLook, queueVars
<1>5. CASE Recovered
  BY <1>5 DEF Recovered, queueVars
<1>6. CASE BeginPass
  BY <1>6 DEF BeginPass, queueVars
<1>7. CASE EndPass
  BY <1>7 DEF EndPass, queueVars
<1>8. CASE TryPush
  BY <1>8 DEF TryPush, Put, Lock, Awake, JustLook, queueVars
<1>9. CASE TryPushAgain
  <2>1. CASE NotFull
    BY <1>9, <2>1 DEF TryPushAgain, Put, Lock, Awake
  <2>2. CASE ~NotFull
    BY <1>9, <2>2 DEF TryPushAgain, JustLook, queueVars
  <2> QED BY <2>1, <2>2
<1>10. CASE WatcherThrows
  BY <1>10 DEF WatcherThrows, queueVars
<1>11. CASE Leave
  BY <1>11 DEF Leave, queueVars
<1>12. CASE Join
  BY <1>12 DEF Join, queueVars
<1> QED BY <1>1, <1>2, <1>3, <1>4, <1>5, <1>6, <1>7, <1>8, <1>9, <1>10, <1>11, <1>12 DEF Main

LEMMA CommunicateKeeps ==
  ASSUME IInv, Communicate \/ OtherException \/ SelectError
  PROVE  IInv'
<1> USE DEF IInv, TypeOK, NoIdleSleeper, Sleepers, SelectStillTrue, AtSelect, AtRetry,
            commVars, sessionVars, flagVars, mainVars
<1>1. CASE Top
  BY <1>1 DEF Top, Goto, queueVars
<1>2. CASE WaitOver
  BY <1>2 DEF WaitOver, Goto, JustLook, queueVars
<1>3. CASE WaitForEvent
  BY <1>3 DEF WaitForEvent, GoToSleep, Lock, Awake
<1>4. CASE CommunicatorSleeps
  BY <1>4 DEF CommunicatorSleeps, SleepOnPop
<1>5. CASE Connect
  BY <1>5 DEF Connect, queueVars
<1>6. CASE StartSession
  BY <1>6 DEF StartSession, queueVars
<1>7. CASE SocketFails
  BY <1>7 DEF SocketFails, Goto, queueVars
<1>8. CASE OtherException
  BY <1>8 DEF OtherException, Goto, queueVars
<1>9. CASE NothingToDo
  BY <1>9 DEF NothingToDo, Goto, JustLook, queueVars
<1>10. CASE TryAgain
  BY <1>10 DEF TryAgain, JustLook, queueVars
<1>11. CASE Terminate
  BY <1>11 DEF Terminate, queueVars
<1>12. CASE NotifyWatcher
  BY <1>12 DEF NotifyWatcher, NotifyAll
<1>13. CASE Loop
  BY <1>13, ZenonT(40) DEF Loop, JustLook, queueVars
<1>14. CASE LoopStopped
  BY <1>14 DEF LoopStopped, Goto, queueVars
<1>15. CASE SelectError
  BY <1>15 DEF SelectError, queueVars
<1>16. CASE TimesOut
  BY <1>16 DEF TimesOut, queueVars
<1>17. CASE Ready
  BY <1>17 DEF Ready, queueVars
<1>18. CASE Send
  BY <1>18 DEF Send, JustLook, queueVars
<1>19. CASE Pop
  BY <1>19 DEF Pop, Take, Goto, Lock, Awake
<1>20. CASE Receive
  BY <1>20 DEF Receive, queueVars
<1>21. CASE LoseStor
  BY <1>21 DEF LoseStor, queueVars
<1> QED BY <1>1, <1>2, <1>3, <1>4, <1>5, <1>6, <1>7, <1>8, <1>9, <1>10, <1>11, <1>12, <1>13,
           <1>14, <1>15, <1>16, <1>17, <1>18, <1>19, <1>20, <1>21 DEF Communicate

LEMMA StutterKeeps ==
  ASSUME IInv, UNCHANGED vars
  PROVE  IInv'
  BY DEF IInv, TypeOK, NoIdleSleeper, Sleepers, SelectStillTrue, AtSelect, AtRetry, vars,
         queueVars, commVars, sessionVars, flagVars, mainVars

\* The inductive invariant.
THEOREM Invariant == Spec => []IInv
<1>1. IInv /\ [Next]_vars => IInv'
  BY MainKeeps, CommunicateKeeps, StutterKeeps DEF Next
<1> QED BY InitIInv, <1>1, PTL DEF Spec

\* The types of the threads' variables; queue and window never exceed their sizes.
THEOREM ThreadsTypeOK == Spec => []TypeOK
  BY Invariant, PTL DEF IInv

\* No thread of the client sleeps, or stays asleep, while what it waits for is there.
THEOREM NoLostWakeup == Spec => []NoIdleSleeper
  BY Invariant, PTL DEF IInv

\* front, pop and send of communicate find what canGet and canSend promised before the
\* select: none of them waits or refuses.
THEOREM PromisesHold == Spec => []SelectStillTrue
  BY Invariant, PTL DEF IInv
=============================================================================
