------------------------------- MODULE TSQueue -------------------------------
(***************************************************************************)
(* TS_Circular_vector<T> (myLibraries/Circular_vector.h:195-427): the ring *)
(* behind a mutex, with a condition variable for those who wait for a free *)
(* place and one for those who wait for an element.  The arithmetic of the *)
(* ring is that of CircularVector; here it is the sequence it implements.  *)
(*                                                                         *)
(* What a method does under the mutex is one step, with one exception: a   *)
(* thread whose predicate was false still owns the mutex before wait()     *)
(* releases it and puts the thread to sleep.  The stop flags and           *)
(* notifyAll() do not take the mutex, so they can come in between.         *)
(*                                                                         *)
(* A method is entered anew after each wake-up: wait(l, pred) is a loop.   *)
(* Spurious wake-ups are left out: a thread they wake looks at the same    *)
(* predicate and falls asleep again.                                       *)
(***************************************************************************)
EXTENDS Naturals, Sequences

CONSTANTS Thread,    \* those who call the methods
          Nobody,    \* the owner of a free mutex
          Value,     \* the elements
          Size       \* the constructor's argument; the configurations replace 0

ASSUME QueueAssumption == Nobody \notin Thread /\ Size \in Nat \ {0}

VARIABLES items,     \* the elements between _start and _end
          owner,     \* who holds _m from one step to the next
          onPush,    \* the threads asleep on _cvPush
          onPop      \* the threads asleep on _cvPop

queueVars == <<items, owner, onPush, onPop>>

QueueInit == items = <<>> /\ owner = Nobody /\ onPush = {} /\ onPop = {}

NotEmpty == items # <<>>
NotFull == Len(items) < Size
Awake(t) == t \notin onPush \cup onPop

\* unique_lock l(_m): a new call, or the end of a wait.
Lock(t) == owner = Nobody /\ Awake(t)

\* Mutant: nobody is told of the new element.
PutQuietly(t, e) == /\ Lock(t) /\ NotFull
                    /\ items' = Append(items, e)
                    /\ UNCHANGED <<owner, onPush, onPop>>

\* Mutant: the new element goes to the head.
PutFirst(t, e) == /\ Lock(t) /\ NotFull
                  /\ items' = <<e>> \o items
                  /\ onPop' = {}
                  /\ UNCHANGED <<owner, onPush>>

\* The end of push and tryPush.
Put(t, e) == /\ Lock(t) /\ NotFull
             /\ items' = Append(items, e)
             /\ onPop' = {}
             /\ UNCHANGED <<owner, onPush>>

\* The end of pop and tryGetUntil.
Take(t) == /\ Lock(t) /\ NotEmpty
           /\ items' = Tail(items)
           /\ onPush' = {}
           /\ UNCHANGED <<owner, onPop>>

\* A method that only looks: canGet, front, waitForCondition, a push that fails.
JustLook(t) == Lock(t) /\ UNCHANGED queueVars

\* The predicate was false: the thread is going to sleep and has the mutex.
GoToSleep(t) == Lock(t) /\ owner' = t /\ UNCHANGED <<items, onPush, onPop>>

SleepOnPush(t) == /\ owner = t
                  /\ owner' = Nobody /\ onPush' = onPush \cup {t}
                  /\ UNCHANGED <<items, onPop>>
SleepOnPop(t) == /\ owner = t
                 /\ owner' = Nobody /\ onPop' = onPop \cup {t}
                 /\ UNCHANGED <<items, onPush>>

NotifyAll == onPush' = {} /\ onPop' = {}
-----------------------------------------------------------------------------
QueueTypeOK == /\ items \in Seq(Value) /\ Len(items) <= Size
               /\ owner \in Thread \cup {Nobody}
               /\ onPush \subseteq Thread
               /\ onPop \subseteq Thread

\* Nobody sleeps, or is about to, without a reason: a thread asleep on _cvPop has
\* nothing to take, one asleep on _cvPush has no place to put anything.  So the two
\* condition variables lose no notification of push, tryPush, pop and tryGetUntil.
NoIdleSleeper == /\ onPop # {} => items = <<>>
                 /\ onPush # {} => Len(items) = Size
=============================================================================
