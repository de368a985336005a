---------------------------- MODULE ServerThreads ----------------------------
(***************************************************************************)
(* The server's threads (server/main.cpp): the main thread accepts         *)
(* connections and puts them into the socket queue, the single_server      *)
(* threads take them out and serve one client each.  A thread that cannot  *)
(* go on sets a flag for main and connects to the server's own port, so    *)
(* that accept returns; main then stops and joins all threads.             *)
(*                                                                         *)
(* Of a session only its end is kept: what it does is in ServerProtocol.   *)
(***************************************************************************)
EXTENDS TSQueue, FiniteSets

CONSTANTS Acceptor,      \* the main thread
          Waker,         \* a connection made to end the accept
          Backlog,       \* config->getListenQueue()
          IdleRounds     \* time-outs of select that make TimeoutSeconds

Workers == Thread \ {Acceptor}
Clients == Value \ {Waker}

ASSUME ServerThreadsAssumption == /\ Acceptor \in Thread /\ Waker \in Value
                                  /\ Backlog \in Nat \ {0} /\ IdleRounds \in Nat \ {0}

VARIABLES backlog,     \* connections that wait for accept
          main,        \* where the main thread is
          accepted,    \* its local variable s, as a sequence of at most one
          at,          \* where each single_server is
          serving,     \* its local variable sock, as a sequence of at most one
          idle,        \* its timeWaited, in rounds of the select
          stopMain,    \* main_stop
          stopServers, \* server_threads_stop
          unheard      \* history: ~Thread_guard notified while a thread was about to
                       \* sleep and no other was in tryGetUntil to pass it on

acceptVars == <<main, accepted>>
workerVars == <<at, serving, idle>>
flagVars == <<stopMain, stopServers, unheard>>
vars == <<queueVars, backlog, acceptVars, workerVars, flagVars>>

Init == /\ QueueInit
        /\ backlog = <<>>
        /\ main = "top" /\ accepted = <<>>
        /\ at = [w \in Workers |-> "top"]
        /\ serving = [w \in Workers |-> <<>>]
        /\ idle = [w \in Workers |-> 0]
        /\ stopMain = FALSE /\ stopServers = FALSE /\ unheard = FALSE

\* How many places hold the connection.  A client is one connection: it connects again
\* when the server is done with it.
Holders(c) == Cardinality({i \in DOMAIN backlog : backlog[i] = c})
            + Cardinality({i \in DOMAIN items : items[i] = c})
            + Cardinality({i \in DOMAIN accepted : accepted[i] = c})
            + Cardinality({w \in Workers : serving[w] = <<c>>})

ClientConnects(c) == /\ Holders(c) = 0 /\ Len(backlog) < Backlog
                     /\ main \notin {"ended", "aborted"}
                     /\ backlog' = Append(backlog, c)
                     /\ UNCHANGED <<queueVars, acceptVars, workerVars, flagVars>>
-----------------------------------------------------------------------------
(* The main thread.                                                         *)
BeginAccept == /\ main = "top"
               /\ main' = IF stopMain THEN "leave" ELSE "accept"
               /\ UNCHANGED <<accepted, queueVars, backlog, workerVars, flagVars>>

\* accept returns; then the flag is looked at again.
Accept == /\ main = "accept" /\ backlog # <<>>
          /\ backlog' = Tail(backlog)
          /\ IF stopMain
             THEN main' = "leave" /\ UNCHANGED accepted
             ELSE main' = "push" /\ accepted' = <<Head(backlog)>>
          /\ UNCHANGED <<queueVars, workerVars, flagVars>>

AcceptFails == /\ main = "accept"
               /\ main' = "leave"
               /\ UNCHANGED <<accepted, queueVars, backlog, workerVars, flagVars>>

\* push(t): no flag ends this wait.
Push == /\ main = "push"
        /\ Put(Acceptor, accepted[1])
        /\ main' = "top" /\ accepted' = <<>>
        /\ UNCHANGED <<backlog, workerVars, flagVars>>

PushMustWait == /\ main = "push" /\ ~NotFull
                /\ GoToSleep(Acceptor)
                /\ UNCHANGED <<backlog, acceptVars, workerVars, flagVars>>

AcceptorSleeps == /\ SleepOnPush(Acceptor)
                  /\ UNCHANGED <<backlog, acceptVars, workerVars, flagVars>>

\* ~Thread_guard: the flag, the notification, the joins.
Leave == /\ main = "leave"
         /\ main' = "notify" /\ stopServers' = TRUE
         /\ UNCHANGED <<accepted, queueVars, backlog, workerVars, stopMain, unheard>>

NotifyWorkers ==
    /\ main = "notify"
    /\ main' = "join"
    /\ NotifyAll
    /\ unheard' = (owner \in Workers /\ \A w \in Workers \ {owner} : at[w] # "get")
    /\ UNCHANGED <<items, owner, accepted, backlog, workerVars, stopMain, stopServers>>

Join == /\ main = "join" /\ \A w \in Workers : at[w] = "done"
        /\ main' = "ended"
        /\ UNCHANGED <<accepted, queueVars, backlog, workerVars, flagVars>>

Main == \/ BeginAccept \/ Accept \/ Push \/ PushMustWait \/ AcceptorSleeps
        \/ Leave \/ NotifyWorkers \/ Join
-----------------------------------------------------------------------------
(* single_server.                                                           *)
Goto(w, place) == at' = [at EXCEPT ![w] = place]

Top(w) == /\ at[w] = "top"
          /\ Goto(w, IF stopServers THEN "done" ELSE "get")
          /\ UNCHANGED <<queueVars, backlog, acceptVars, serving, idle, flagVars>>

\* Mutant: the connection stays at the head of the queue.
GetWithoutTaking(w) == /\ at[w] = "get" /\ ~stopServers
                       /\ Lock(w) /\ NotEmpty
                       /\ onPush' = {} /\ UNCHANGED <<items, owner, onPop>>
                       /\ serving' = [serving EXCEPT ![w] = <<Head(items)>>]
                       /\ Goto(w, "session")
                       /\ UNCHANGED <<backlog, acceptVars, idle, flagVars>>

\* tryGetUntil
Get(w) == /\ at[w] = "get" /\ ~stopServers
          /\ Take(w)
          /\ serving' = [serving EXCEPT ![w] = <<Head(items)>>]
          /\ Goto(w, "session")
          /\ UNCHANGED <<backlog, acceptVars, idle, flagVars>>

GetMustWait(w) == /\ at[w] = "get" /\ ~stopServers /\ ~NotEmpty
                  /\ GoToSleep(w)
                  /\ UNCHANGED <<backlog, acceptVars, workerVars, flagVars>>

WorkerSleeps(w) == /\ SleepOnPop(w)
                   /\ UNCHANGED <<backlog, acceptVars, workerVars, flagVars>>

\* Mutant: nobody else is told.
GetStoppedQuietly(w) == /\ at[w] = "get" /\ stopServers
                        /\ JustLook(w)
                        /\ Goto(w, "done")
                        /\ UNCHANGED <<backlog, acceptVars, serving, idle, flagVars>>

GetIsStopped(w) == /\ at[w] = "get" /\ stopServers
                   /\ Lock(w)
                   /\ NotifyAll /\ UNCHANGED <<items, owner>>
                   /\ Goto(w, "done")
                   /\ UNCHANGED <<backlog, acceptVars, serving, idle, flagVars>>

\* authenticate
Authenticated(w) == /\ at[w] = "session"
                    /\ Goto(w, "loop")
                    /\ idle' = [idle EXCEPT ![w] = 0]
                    /\ UNCHANGED <<queueVars, backlog, acceptVars, serving, flagVars>>

Loop(w) == /\ at[w] = "loop" /\ ~stopServers
           /\ Goto(w, "select")
           /\ UNCHANGED <<queueVars, backlog, acceptVars, serving, idle, flagVars>>

\* There is something to read, which need not be a whole message.
Ready(w) == /\ at[w] = "select"
            /\ Goto(w, "receive")
            /\ idle' = [idle EXCEPT ![w] = 0]
            /\ UNCHANGED <<queueVars, backlog, acceptVars, serving, flagVars>>

\* A message was received and answered, or skipped.
Message(w) == /\ at[w] = "receive"
              /\ Goto(w, "loop")
              /\ UNCHANGED <<queueVars, backlog, acceptVars, serving, idle, flagVars>>

TimesOut(w) == /\ at[w] = "select" /\ idle[w] + 1 < IdleRounds
               /\ Goto(w, "loop")
               /\ idle' = [idle EXCEPT ![w] = @ + 1]
               /\ UNCHANGED <<queueVars, backlog, acceptVars, serving, flagVars>>

\* The connection is lost, refused or idle for too long, select fails, or the thread has
\* to stop: on to the next connection.
EndSession(w) == /\ \/ at[w] \in {"session", "select", "receive"}
                    \/ at[w] = "loop" /\ stopServers
                 /\ Goto(w, "top")
                 /\ serving' = [serving EXCEPT ![w] = <<>>]
                 /\ idle' = [idle EXCEPT ![w] = 0]
                 /\ UNCHANGED <<queueVars, backlog, acceptVars, flagVars>>

\* Where a thread is in the handlers, and waits for its client without a time-out: it
\* authenticates, or reads a message, its DATA, or writes a reply.
Blocking == {"session", "receive"}

\* Mutant: the connection is made first.
FatalTooLate(w) == /\ at[w] \in Blocking
                   /\ Len(backlog) < Backlog
                   /\ backlog' = Append(backlog, Waker)
                   /\ Goto(w, "wake")
                   /\ UNCHANGED <<queueVars, acceptVars, serving, idle, flagVars>>

\* An exception that "require[s] the closing of the whole program": the flag for main...
Fatal(w) == /\ at[w] \in Blocking
            /\ Goto(w, "wake")
            /\ stopMain' = TRUE
            /\ UNCHANGED <<queueVars, backlog, acceptVars, serving, idle, stopServers, unheard>>

\* ... and the connection.
WakeMain(w) == /\ at[w] = "wake" /\ Len(backlog) < Backlog
               /\ backlog' = Append(backlog, Waker)
               /\ Goto(w, "done")
               /\ serving' = [serving EXCEPT ![w] = <<>>]
               /\ UNCHANGED <<queueVars, acceptVars, idle, flagVars>>

\* connect times out on a full backlog: an exception in a catch clause of a thread's
\* function, std::terminate.
WakeFails(w) == /\ at[w] = "wake" /\ Len(backlog) = Backlog
                /\ main' = "aborted" /\ accepted' = <<>>
                /\ at' = [x \in Workers |-> "done"]
                /\ serving' = [x \in Workers |-> <<>>]
                /\ owner' = Nobody /\ NotifyAll
                /\ UNCHANGED <<items, backlog, idle, flagVars>>

Worker(w) == \/ Top(w) \/ Get(w) \/ GetMustWait(w) \/ WorkerSleeps(w) \/ GetIsStopped(w)
             \/ Authenticated(w) \/ Loop(w) \/ Ready(w) \/ Message(w) \/ TimesOut(w)
             \/ EndSession(w) \/ WakeMain(w) \/ WakeFails(w)

Next == \/ Main \/ AcceptFails
        \/ \E w \in Workers : Worker(w) \/ Fatal(w)
        \/ \E c \in Clients : ClientConnects(c)

\* All threads go on, except while a client makes one wait; the mutex is given to each
\* of those who want it.  No client has to connect or to say anything, and no fatal error
\* has to happen.
Fairness == WF_vars(Main) /\ \A w \in Workers : WF_vars(at[w] \notin Blocking /\ Worker(w))
Spec == Init /\ [][Next]_vars /\ Fairness
-----------------------------------------------------------------------------
TypeOK == /\ QueueTypeOK
          /\ backlog \in Seq(Value) /\ Len(backlog) <= Backlog
          /\ main \in {"top", "accept", "push", "leave", "notify", "join", "ended", "aborted"}
          /\ accepted \in Seq(Value) /\ Len(accepted) <= 1
          /\ (main = "push") = (accepted # <<>>)
          /\ at \in [Workers -> {"top", "get", "session", "loop", "select", "receive", "wake", "done"}]
          /\ \A w \in Workers : serving[w] \in {<<>>} \cup {<<c>> : c \in Value}
          /\ idle \in [Workers -> 0 .. IdleRounds - 1]
          /\ stopMain \in BOOLEAN /\ stopServers \in BOOLEAN /\ unheard \in BOOLEAN

\* A client's connection is in one place at a time: no two threads ever serve it, and
\* none is served again after its session.
EachConnectionOnce == \A c \in Clients : Holders(c) <= 1

\* A connection that was made only to end the accept is never taken for a client.
WakerIsNoClient == /\ accepted # <<Waker>>
                   /\ \A i \in DOMAIN items : items[i] # Waker

\* A connection in the socket queue gets its turn, however many others come after it: it
\* is taken out, unless from some time on no thread looks for one any more (all are kept
\* by one client each, or ended).  So it is not overtaken for ever, and no free thread
\* sleeps through its arrival.
Queued(c) == \E i \in DOMAIN items : items[i] = c
EachGetsItsTurn == \A c \in Clients :
                      Queued(c) ~> ~Queued(c) \/ [](\A w \in Workers : at[w] \notin {"top", "get"})

\* After a fatal error in any thread, or of main, the server ends: main is woken, all
\* threads stop and are joined.  Three things can prevent it: main waits for ever for a
\* place in the socket queue (push does not look at the flag), the only thread in
\* tryGetUntil misses the notification, or a silent client keeps its thread in a read.
\* A thread that misses the notification while another is in tryGetUntil does not
\* prevent it: tryGetUntil passes the notification on.
ServerEnds == stopMain \/ main = "leave" ~> \/ main \in {"ended", "aborted"}
                                           \/ [](main = "push")
                                           \/ [](unheard /\ Cardinality(onPop) = 1)
                                           \/ \E w \in Workers : [](at[w] \in Blocking)
=============================================================================
