---------------------------- MODULE ClientThreads ----------------------------
(***************************************************************************)
(* The client's two threads (client/main.cpp): the main thread, which runs *)
(* the watcher and fills the event queue, and communicate, which empties   *)
(* it; two stop flags and the Thread_guard by which they end each other.   *)
(*                                                                         *)
(* Of the watcher only the number of elements left in its pass is kept, of *)
(* the ProtocolManager only how many messages of the window have no reply: *)
(* what they contain is in FileSystemWatcher and ClientProtocol.  Network  *)
(* and server may do anything, and nothing: no socket has a time-out.      *)
(***************************************************************************)
EXTENDS TSQueue

CONSTANTS Watcher, Communicator,   \* the threads
          WindowSize,              \* config->getMaxResponseWaiting()
          MaxTries,                \* config->getMaxConnectionRetries()
          Persist,                 \* the option to retry for ever
          IdleRounds,              \* time-outs of select that make TimeoutSeconds
          MaxFound                 \* bound: elements found by a pass of the watcher

ASSUME ThreadsAssumption == /\ Thread = {Watcher, Communicator}
                            /\ Watcher # Communicator
                            /\ WindowSize \in Nat \ {0} /\ MaxTries \in Nat
                            /\ Persist \in BOOLEAN
                            /\ IdleRounds \in Nat \ {0} /\ MaxFound \in Nat

VARIABLES main,        \* where the main thread is
          left,        \* elements left in its pass
          comm,        \* where communicate is
          unanswered,  \* size of _waitingForResponse
          tries,       \* failed attempts in a row; stays at MaxTries with Persist
          idle,        \* timeWaited, in rounds of the select
          write, read, \* the socket is in write_fds, read_fds
          stopWatch,   \* fileWatcher_stop
          stopComm,    \* communicate_stop
          unheard      \* history: fileWatcher_stop was set, but the watcher, about to
                       \* sleep or asleep, was not notified

mainVars == <<main, left>>
sessionVars == <<unanswered, tries, idle, write, read>>
flagVars == <<stopWatch, stopComm, unheard>>
commVars == <<comm, sessionVars>>
vars == <<queueVars, mainVars, commVars, flagVars>>

Init == /\ QueueInit
        /\ main = "recover" /\ left \in 0 .. MaxFound
        /\ comm = "top"
        /\ unanswered = 0 /\ tries = 0 /\ idle = 0 /\ write = FALSE /\ read = FALSE
        /\ stopWatch = FALSE /\ stopComm = FALSE /\ unheard = FALSE
-----------------------------------------------------------------------------
(* The main thread.                                                         *)
\* recoverFromDB: push(t, stop) waits for a free place or for the stop.
PushRecovered == /\ main = "recover" /\ left > 0 /\ ~stopWatch
                 /\ \E e \in Value : Put(Watcher, e)
                 /\ left' = left - 1
                 /\ UNCHANGED <<main, commVars, flagVars>>

PushMustWait == /\ main = "recover" /\ left > 0 /\ ~stopWatch /\ ~NotFull
                /\ GoToSleep(Watcher)
                /\ UNCHANGED <<mainVars, commVars, flagVars>>

WatcherSleeps == /\ SleepOnPush(Watcher)
                 /\ UNCHANGED <<mainVars, commVars, flagVars>>

PushIsStopped == /\ main = "recover" /\ left > 0 /\ stopWatch
                 /\ JustLook(Watcher)
                 /\ main' = "begin" /\ left' = 0
                 /\ UNCHANGED <<commVars, flagVars>>

\* start: the flag is looked at once for each pass.
Recovered == /\ main = "recover" /\ left = 0
             /\ main' = "begin"
             /\ UNCHANGED <<left, queueVars, commVars, flagVars>>

BeginPass == /\ main = "begin"
             /\ IF stopWatch
                THEN main' = "leave" /\ UNCHANGED left
                ELSE main' = "scan" /\ left' \in 0 .. MaxFound
             /\ UNCHANGED <<queueVars, commVars, flagVars>>

EndPass == /\ main = "scan" /\ left = 0
           /\ main' = "begin"
           /\ UNCHANGED <<left, queueVars, commVars, flagVars>>

\* tryPush; wait_for releases the mutex once and then looks a second time.
TryPush == /\ main = "scan" /\ left > 0
           /\ IF NotFull
              THEN /\ \E e \in Value : Put(Watcher, e)
                   /\ left' = left - 1 /\ UNCHANGED main
              ELSE /\ JustLook(Watcher)
                   /\ main' = "retry" /\ UNCHANGED left
           /\ UNCHANGED <<commVars, flagVars>>

\* Mutant: the second look is taken for a success.
TryPushAgainBlindly == /\ main = "retry"
                       /\ Lock(Watcher)
                       /\ \E e \in Value : items' = Append(items, e)
                       /\ onPop' = {}
                       /\ main' = "scan" /\ left' = left - 1
                       /\ UNCHANGED <<owner, onPush, commVars, flagVars>>

TryPushAgain == /\ main = "retry"
                /\ IF NotFull
                   THEN \E e \in Value : Put(Watcher, e)
                   ELSE JustLook(Watcher)
                /\ main' = "scan" /\ left' = left - 1
                /\ UNCHANGED <<commVars, flagVars>>

\* The folder vanishes under the iterator, a file cannot be hashed: main's catch
\* clauses return, and ~Thread_guard runs on the way.
WatcherThrows == /\ main \in {"recover", "scan"}
                 /\ owner # Watcher /\ Awake(Watcher)
                 /\ main' = "leave"
                 /\ UNCHANGED <<left, queueVars, commVars, flagVars>>

\* ~Thread_guard: the flag, but no notification; then the join.
Leave == /\ main = "leave"
         /\ main' = "join" /\ stopComm' = TRUE
         /\ UNCHANGED <<left, queueVars, commVars, stopWatch, unheard>>

Join == /\ main = "join" /\ comm = "done"
        /\ main' = "ended"
        /\ UNCHANGED <<left, queueVars, commVars, flagVars>>

Main == \/ PushRecovered \/ PushMustWait \/ WatcherSleeps \/ PushIsStopped \/ Recovered
        \/ BeginPass \/ EndPass \/ TryPush \/ TryPushAgain \/ Leave \/ Join
-----------------------------------------------------------------------------
(* communicate: from one connection to the next.                            *)
Goto(place) == comm' = place /\ UNCHANGED <<sessionVars, mainVars, flagVars>>

\* Mutant: the flag is looked at by the inner loop only.
TopUnchecked == /\ comm = "top"
                /\ Goto(IF unanswered = 0 THEN "wait" ELSE "connect")
                /\ UNCHANGED queueVars

Top == /\ comm = "top"
       /\ Goto(IF stopComm THEN "done" ELSE IF unanswered = 0 THEN "wait" ELSE "connect")
       /\ UNCHANGED queueVars

\* waitForCondition
WaitOver == /\ comm = "wait" /\ (stopComm \/ NotEmpty)
            /\ JustLook(Communicator)
            /\ Goto(IF stopComm THEN "done" ELSE "connect")

WaitForEvent == /\ comm = "wait" /\ ~stopComm /\ ~NotEmpty
                /\ GoToSleep(Communicator)
                /\ UNCHANGED <<mainVars, commVars, flagVars>>

CommunicatorSleeps == /\ SleepOnPop(Communicator)
                      /\ UNCHANGED <<mainVars, commVars, flagVars>>

Connect == /\ comm = "connect"
           /\ comm' = "session" /\ tries' = 0
           /\ UNCHANGED <<unanswered, idle, write, read, queueVars, mainVars, flagVars>>

\* authenticate, then recoverFromError: the window is sent again as it is.
StartSession == /\ comm = "session"
                /\ comm' = "loop" /\ idle' = 0
                /\ UNCHANGED <<unanswered, tries, write, read, queueVars, mainVars, flagVars>>

\* Connecting, reading or writing fails.
SocketFails == /\ comm \in {"connect", "session", "send", "receive"}
               /\ Goto("lost")
               /\ UNCHANGED queueVars

\* Any other exception: of the constructors, of the authentication, an error the
\* server reports, a file that vanished.
OtherException == /\ comm \in {"top", "connect", "session", "receive"}
                  /\ comm = "top" => ~stopComm
                  /\ Goto("fatal")
                  /\ UNCHANGED queueVars

\* The handler: is there a reason to connect again?
NothingToDo == /\ comm = "lost" /\ unanswered = 0 /\ ~NotEmpty
               /\ JustLook(Communicator)
               /\ Goto("top")

\* Mutant: the attempts are not counted.
TryAgainUncounted ==
    /\ comm = "lost" /\ (unanswered > 0 \/ NotEmpty)
    /\ IF unanswered = 0 THEN JustLook(Communicator) ELSE UNCHANGED queueVars
    /\ comm' = (IF Persist \/ tries < MaxTries THEN "top" ELSE "fatal")
    /\ UNCHANGED <<tries, unanswered, idle, write, read, mainVars, flagVars>>

TryAgain ==
    /\ comm = "lost" /\ (unanswered > 0 \/ NotEmpty)
    /\ IF unanswered = 0 THEN JustLook(Communicator) ELSE UNCHANGED queueVars
    /\ IF Persist \/ tries < MaxTries
       THEN comm' = "top" /\ tries' = IF tries < MaxTries THEN tries + 1 ELSE tries
       ELSE comm' = "fatal" /\ UNCHANGED tries
    /\ UNCHANGED <<unanswered, idle, write, read, mainVars, flagVars>>

\* "terminate filesystem watcher and exit": the flag, then the notification.  A watcher
\* that looked at the flag before and does not sleep yet hears nothing.
Terminate == /\ comm = "fatal"
             /\ comm' = "notify" /\ stopWatch' = TRUE
             /\ UNCHANGED <<sessionVars, queueVars, mainVars, stopComm, unheard>>

\* Mutant: the notification is forgotten.
NotifyNobody == /\ comm = "notify"
                /\ comm' = "done"
                /\ UNCHANGED <<queueVars, unheard, sessionVars, mainVars, stopWatch, stopComm>>

NotifyWatcher == /\ comm = "notify"
                 /\ comm' = "done"
                 /\ NotifyAll
                 /\ unheard' = (owner = Watcher)
                 /\ UNCHANGED <<items, owner, sessionVars, mainVars, stopWatch, stopComm>>
-----------------------------------------------------------------------------
(* communicate: the loop round select.                                      *)
\* Mutant: canSend is not asked.
LoopUnasked == /\ comm = "loop" /\ ~stopComm
               /\ JustLook(Communicator)
               /\ write' = NotEmpty
               /\ comm' = "select"
               /\ UNCHANGED <<unanswered, tries, idle, read, mainVars, flagVars>>

\* canSend() && canGet()
Loop == /\ comm = "loop" /\ ~stopComm
        /\ \/ /\ unanswered < WindowSize
              /\ JustLook(Communicator)
              /\ write' = NotEmpty
           \/ unanswered = WindowSize /\ write' = FALSE /\ UNCHANGED queueVars
        /\ comm' = "select"
        /\ UNCHANGED <<unanswered, tries, idle, read, mainVars, flagVars>>

LoopStopped == /\ comm = "loop" /\ stopComm
               /\ Goto("top")
               /\ UNCHANGED queueVars

\* select returns -1: the flag, but no notification.
SelectError == /\ comm = "select"
               /\ comm' = "done"
               /\ stopWatch' = TRUE /\ unheard' = TRUE
               /\ UNCHANGED <<sessionVars, queueVars, mainVars, stopComm>>

TimesOut == /\ comm = "select"
            /\ idle' = IF unanswered > 0 THEN idle ELSE (idle + 1) % IdleRounds
            /\ comm' = IF unanswered = 0 /\ idle + 1 = IdleRounds THEN "top" ELSE "loop"
            /\ UNCHANGED <<unanswered, tries, write, read, queueVars, mainVars, flagVars>>

Ready == /\ comm = "select"
         /\ \E w, r \in BOOLEAN :
               /\ w => write
               /\ w \/ r
               /\ write' = w /\ read' = r
               /\ comm' = IF w THEN "send" ELSE "receive"
         /\ idle' = 0
         /\ UNCHANGED <<unanswered, tries, queueVars, mainVars, flagVars>>

\* front() and send: the event stays in the queue until it is sent.  An event that is
\* neither of a file nor of a directory is dropped.  (front() would wait for an event,
\* send would refuse a full window: SelectStillTrue says that neither happens.)
Send == /\ comm = "send" /\ NotEmpty
        /\ JustLook(Communicator)
        /\ comm' = "pop" /\ unanswered' \in {unanswered, unanswered + 1}
        /\ UNCHANGED <<tries, idle, write, read, mainVars, flagVars>>

Pop == /\ comm = "pop"
       /\ Take(Communicator)
       /\ Goto(IF read THEN "receive" ELSE "loop")

\* A reply takes its event out of the window; a SEND may put a STOR in.
Receive == /\ comm = "receive" /\ unanswered > 0
           /\ comm' = "loop" /\ unanswered' \in {unanswered - 1, unanswered}
           /\ UNCHANGED <<tries, idle, write, read, queueVars, mainVars, flagVars>>

\* The connection breaks between the two.
LoseStor == /\ comm = "receive" /\ unanswered > 0
            /\ comm' = "lost" /\ unanswered' = unanswered - 1
            /\ UNCHANGED <<tries, idle, write, read, queueVars, mainVars, flagVars>>

Communicate == \/ Top \/ WaitOver \/ WaitForEvent \/ CommunicatorSleeps \/ Connect \/ StartSession
               \/ SocketFails \/ NothingToDo \/ TryAgain \/ Terminate \/ NotifyWatcher
               \/ Loop \/ LoopStopped \/ TimesOut \/ Ready \/ Send \/ Pop \/ Receive \/ LoseStor

Next == Main \/ Communicate \/ WatcherThrows \/ OtherException \/ SelectError

\* Where communicate waits for the server without a time-out: it authenticates or sends
\* the window again, writes a message, reads the rest of one.
Blocking == {"session", "send", "receive"}

\* Both threads go on, except while the server makes one wait; the mutex is given to
\* each of those who want it.  No error that ends a thread has to happen.
Fairness == WF_vars(Main) /\ WF_vars(comm \notin Blocking /\ Communicate)
Spec == Init /\ [][Next]_vars /\ Fairness
-----------------------------------------------------------------------------
TypeOK == /\ QueueTypeOK
          /\ main \in {"recover", "begin", "scan", "retry", "leave", "join", "ended"}
          /\ left \in 0 .. MaxFound
          /\ comm \in {"top", "wait", "connect", "session", "loop", "select", "send", "pop",
                       "receive", "lost", "fatal", "notify", "done"}
          /\ unanswered \in 0 .. WindowSize
          /\ tries \in 0 .. MaxTries /\ idle \in 0 .. IdleRounds - 1
          /\ write \in BOOLEAN /\ read \in BOOLEAN
          /\ stopWatch \in BOOLEAN /\ stopComm \in BOOLEAN /\ unheard \in BOOLEAN

\* What was asked before the select is still true when it is used: the window has a
\* place for the event that is sent, and front() and pop() find an event.  They wait
\* for one otherwise, and an open connection would wait with them.
SelectStillTrue == /\ comm = "send" => NotEmpty /\ unanswered < WindowSize
                   /\ comm = "pop" => NotEmpty

\* When communicate gives up, the program ends: the watcher stops, main joins.  The
\* exception is a watcher asleep in the push of recoverFromDB that was not notified.
ClientEnds == stopWatch ~> main = "ended" \/ [](unheard /\ Watcher \in onPush)

\* When main leaves, by an exception or because it was stopped, communicate ends and
\* is joined.  There are two exceptions: a communicate that sleeps until the next event
\* (the guard does not notify it, and there is no watcher any more), and one that a
\* silent server keeps in a read or a write, where it never looks at the flag.
GuardJoins == main = "join" ~> \/ main = "ended"
                               \/ [](Communicator \in onPop)
                               \/ [](comm \in Blocking)

\* A server that cannot be reached any more is not tried for ever: communicate ends,
\* or has nothing to send.
Connected == {"session", "loop", "select", "send", "pop", "receive"}
GivesUp == <>[](comm \notin Connected) => <>[](comm \in {"done", "wait"})
=============================================================================
