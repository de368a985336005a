# Verification of PDS_Backup

PDS_Backup keeps a folder of a client in sync with a copy on a server
(C++, `src/client`, `src/server`, `src/myLibraries`). These modules model the
part in which the work of the program lies: how a difference in the folder
becomes an event, a message, a change of the server's folder and table, a reply
and a row of the client's database, while the user keeps editing, connections
break and either process dies; how a file crosses the sockets in chunks; and how
a user is administered and gets his backup back. TLC checks small instances,
TLAPS proves what holds for every value of the constants.

## The system

| component | state | operations | interacts by |
| --- | --- | --- | --- |
| `FileSystemWatcher` (client main thread) | `_paths`, the position in a scan | `recoverFromDB`, `start` | reads the folder and, once, the database; pushes events |
| event queue (`TS_Circular_vector`) | a ring, a mutex, two condition variables | `push`, `tryPush`, `front`, `pop`, waits | shared by the client's two threads |
| `communicate` (client thread) | where it is, retry counters | connect, select loop, close, give up | pops events, owns the sockets |
| client `ProtocolManager` | `_waitingForResponse`, a ring kept across connections | `send`, `receive`, `recoverFromError` | messages, folder, client database |
| client `Database` | one row for each path | insert, update, remove, forAll | SQLite |
| sockets | what is under way, in full buffers too | `sendString`, `recvString`, close | TCP or TLS |
| client retrieval (`retrieveFiles`) | where it is, a destination folder | authenticate, `_makeDir`, `_storeFile` | messages |
| server `main` | queue of accepted sockets | accept, push | shared with the threads |
| `single_server` (N threads) | one session | authenticate, select loop | messages |
| server `ProtocolManager` | `_elements`, `_recovered` | `recoverFromDB`, `_probe`, `_storeFile`, `_removeFile`, `_makeDir`, `_removeDir`, `_retrieveUserData` | backup folder and table, shared by all threads |
| server `Database` | rows of (user, machine, path), none unique | insert, update, remove, removeAll, forAll | SQLite |
| server `Database_pwd` | one row for each user | add, update, remove, get | SQLite; the options in the server's `main` |
| configuration, arguments, validator, logging, hash, random numbers | none of the protocol | | |

A file goes through two messages: PROB announces path, hash and last write
time, the server answers OK or SEND, and after a SEND the client sends STOR with
the DATA messages. DELE, MKD and RMD take one message. Replies carry no number:
the client takes each for the event at the head of its window.

What is hard: the folder changes between the watcher's look, the sending, and the
look of `receive`; the window is sent again after a reconnection, with part of it
done already; the server's old session may still work on its buffer; handlers
change folder, table and map one after the other; both programs restart from
databases that lag behind; queue and window are full; the flags by which threads
stop each other are set, and notified, without the mutex of those who wait; the client
reads a file while it is written and no replies while it sends; a retrieval
collects rows first and looks at the disk later.

What makes the parts correct:

- ring: first in, first out, never more than its size, the walk over it complete;
- window: never a reply without an event, replies in the window's order;
- queues: each element taken once and in its turn, nobody asleep beside what he waits for;
- threads: what was asked before a select or a wait still holds after it; a thread
  that cannot go on ends the program;
- client database: what it says saved is saved; what it does not say will be sent;
- server: folder, `_elements` and table agree, and no request ends the server;
- transfer: the copy is a version the file had, messages are not confused, nobody
  waits for a reader that waits for him, no temporary file remains;
- retrieval: what the client gets is the backup, and a failure has a cause;
- accounts: a removed user leaves nothing to the next of that name;
- all: when everything is answered the copy is the folder, and it is answered.

## The modules

| module | models |
| --- | --- |
| `BoundedFifo` | what a ring promises: the abstract queue |
| `CircularVector` | `Circular_vector`: slots, head, tail, as the code computes them |
| `CircularVectorProofs` | the ring's invariant and refinement |
| `FileTree` | paths, entries, trees, the file system calls both sides use, events |
| `FileSystemWatcher` | the user, and the watcher's three passes, a path at a time |
| `Network` | requests, replies, connections that lose a suffix |
| `ClientProtocol` | `communicate` and the client's `ProtocolManager` |
| `ServerProtocol` | the threads' `ProtocolManager`s, folder and table, crashes |
| `BackupSystem` | all of them together, fairness, the properties |
| `TSQueue` | `TS_Circular_vector`: mutex, condition variables, notifications |
| `ClientThreads` | the client's two threads over it: watcher, `communicate`, flags, retries, end |
| `ServerThreads` | accept loop, socket queue, `single_server` threads, fatal errors, end |
| `Stream` | one direction of a connection: `sendString`, `recvString`, buffers, TLS records |
| `Upload` | `_sendFile` and `_storeFile` chunk by chunk over two `Stream`s |
| `Accounts` | the server's command line: users, rows and folders, step by step |
| `Retrieval` | `authenticate`, `_retrieveUserData` and `retrieveFiles`, while a session backs up; extends `Accounts` |
| `FileTreeProofs` | what the operations on trees preserve |
| `ProtocolProofs` | what each step of watcher, client, server and network preserves, and the theorems about messages, sessions and the table |
| `BackupProofs` | the theorems about the content of the backup, its last write times, the table and the client's database |
| `UploadProofs` | the inductive invariant of `Upload` and its theorems |
| `ClientThreadsProofs`, `ServerThreadsProofs` | the inductive invariants of the threads and their theorems |
| `RetrievalProofs` | the inductive invariant of `Accounts` and `Retrieval` together and their theorems |
| `MCCircularVector`, `MCBackup`, `MCUpload`, `MCRetrieval` | values of the constants for TLC |

Correspondence, in short (`PROJECT.json` gives the lines):

- `folder` is what is on the client's disk, `known` is `_paths`, `scan` the
  iterator's position. `VisitRecover`, `VisitDeleted` and `VisitPresent` are one
  iteration of the loops of `FileSystemWatcher`; `Report` is the `tryPush` of
  `main` with what the watcher does after it.
- `window` is `_waitingForResponse`; `pc`, `at` and `cur` say where in
  `communicate`, `recoverFromError` or `receive` the thread is. A step of the
  client is what happens between two looks at folder, socket or queue, so the
  user and the server act between the check of a file and its STOR, and between
  the STOR and the reading of the file.
- A directory tree is a function from paths to entries `[type, hash, lwt]` or
  `Absent`. `lwt` is the string of `get_time_from_file`, which has minutes: two
  writes in one minute have the same.
- A handler of the server is one step. `Probe` ... `RemoveDir` have one disjunct
  for each way out of the handler; `Fail` is an exception that ends the server,
  `Reject` one that is skipped without a reply. `CrashInHandler` is a crash
  in a handler that has begun to change the folder and has not changed the table: after
  some of the `create_directories` or of the `remove_all`, after the rename, after a new
  time was set on a directory that existed, before or after the parent's time was set again.
- `disk` changes by what the system calls do, `KeepParentTime` is the code's
  saving and setting of the parent's time. `elements[c]` is `_elements` of the
  thread that serves connection `c`; a connection is a thread of the server.
- DATA messages are a field of their STOR (`data`): what was read of the file. `Upload`
  has them one by one.
- `excused`, `flipped`, `outOfStep`, `doubtful` are history variables. They name
  what the code itself gives up: paths of events answered by an error or dropped
  with a connection; paths that changed and changed back before the watcher looked;
  a message that was not sent or not answered; paths of events without a reply when
  the client ended. Properties about content exempt
  exactly these, and the violation runs show that each exemption is needed or
  what it costs.

`BackupSystem` and the two thread modules look at the same program from two sides.
In the first the queue is a sequence and what is in the messages counts. In the
second a message is nothing but a place in the queue or the window, network and
peer may do anything, and what counts is who waits for whom:

- A method of the queue is one step where it has the mutex all the time. When its
  predicate is false, `GoToSleep` takes the mutex and a second step (`SleepOnPop`,
  `SleepOnPush`) releases it and sleeps: `notifyAll`, which does not take the mutex,
  fits in between and is lost. `Lock` needs the mutex to be free.
- `main` and `comm` (client), `main` and `at[w]` (server) are the places in the code.
  `WatcherThrows`, `OtherException`, `SelectError`, `Fatal` and `AcceptFails` are the
  catch clauses; flag and notification are steps of their own, in the code's order.
- `write` and `read` are the two sets of `select`. Between their making, the `select`
  and the use of what it returned the watcher runs.
- A connection of a client is in the listen queue (`backlog`), in `main`'s hands, in
  the socket queue or served by one thread. `Waker` is the connection a failing thread
  makes to end the accept.
- `unheard` is a history variable: a flag was set for a thread that was about to
  sleep, and no notification reached it.

`Upload` is one file and one session, seen from the sockets:

- A message is a length and the parts of its text, as `sendString` writes them.
  `outgoing` is what a `sendString` that has not returned still has to write,
  `buffer` what the two systems hold, `incoming` what a `recvString` has read. A
  program does nothing else while it writes or reads: that is all that `Free` and
  the guards on `Writing` say, and it is how both can wait for each other.
- `Asked` is the comparison of the file with its event in `receive`, `OpenFile` and
  `SendChunk` are `_sendFile`. `Edit` comes anywhere. It writes the file in place, and
  who has it open sees that, or puts another file in its place, and he does not. The
  file is never deleted here (`FileVanished` in `ClientProtocol` is that case), and
  every edit is a new version: times play no part, so the watcher reports whenever
  `file # seen`.
- `temp` is the temporary file of `_storeFile`, `copy` the file in the backup. A lost
  connection (`Lose`, `Cut`) leaves any prefix of what was on its way.
- Over TLS `recvString` calls `wolfSSL_read` once, which returns one record at most;
  `Refused` is a text that did not come whole and is taken for a broken connection.
  `Record` is the size of a record in blocks; where no chunk is longer the same
  module is TCP. `Uploaded` exempts longer chunks: with them the transfer fails every
  time it is tried.

`Retrieval` and `Accounts` are one user with several machines:

- A command line is a set of options. `StepsOf` has what `main` does for each, and
  `Options` the order in which `main` looks at them, whatever their order on the line.
  Between two steps the process can be killed.
- `Collect` takes the rows of the machines asked for, at once. `LookAt`, `Examine` and
  `OpenAndSend` are the three looks at the disk (exists, hash, open) for one
  row. `Forget` removes a row by its path. `Vanished` is the file that is gone between
  two looks: the exception ends the server.
- `Recover` ... `OtherRows` are what a session of the same machine does to disk and
  table meanwhile, the two in different steps, in the handlers' order; its requests are
  any store or removal of a file. `ServerProtocol` has the rest of that session.
- `MakeDir` and `StoreData` are the client's `_makeDir` and `_storeFile`, with the times
  they set again; times that `create_directories` gives are `Now`.
- `ReadBack` is `sqlite3_column_int`, which gives the low 32 bits of a size that was
  bound with 64. A file of 2 GB or more is announced with another size, and the client
  refuses it and ends: `FailsOnlyForCause` names this case, and TLC reaches it with
  `Width = 2` and a file of size 2.
- STOR and DATA are two messages.

Definitions whose comment begins with "Mutant" are plausible errors; nothing
uses them but the mutation test that `PROJECT.json` lists, which puts each in the
place of the definition that follows it and expects a property to fail.

## The runs

| run | instance | question |
| --- | --- | --- |
| `ring` | 3 places, 3 values | does the ring implement the queue at every position of head and tail |
| `file` | one file, 2 contents, 3 edits, 1 broken connection, a kill of the client | do window and replies correspond, does the copy follow, does everything settle |
| `folder` | a directory, a directory in it and a file in that, 2 contents, 2 times, queue of 1, 3 edits, no failure | do disk, table, session, client database and folder agree, times included; can a legal sequence end the server |
| `restarts` | directory and file, 3 edits, a crash of the server at any point, a kill of the client, retries used up | do the two `recoverFromDB` heal what a crash left |
| `exceptions` | paths change their type, 2 times, 2 server threads, 1 broken connection | do window and replies still correspond when handlers refuse or fail and sessions overlap |
| `threads` | queue and window of 2, passes of up to 3 elements, 2 retries, time-out after 2 rounds | do watcher and `communicate` lose a place or a wake-up or block over the event queue; does each end when the other does |
| `pool` | acceptor and 2 threads, 3 clients, socket queue of 2, listen queue of 1 | is each connection in one place, and does it get its turn; does a fatal error anywhere end the server |
| `upload` | contents of 0, 2, 2 and 3 blocks, chunks of 1 or 3, records of 2, a window of 2, buffers of 1 and 4 parts | is the copy a version; do messages stay apart; does anybody wait for ever |
| `retrieval` | 2 machines, a directory in a directory and a file in it, rows in two orders, file as its row, modified or removed, 6 command lines, 2 starts, 1 kill, 1 request of the other session | does the client get the backup; does it fail only for a cause and always end; is a removed user gone |
| `stale` (violation) | as `file` | the reply is for the head of the window (README.md:101) |
| `overlap` (violation) | 2 threads, 1 broken connection | what the client's database says saved is on the server (README.md:90) |
| `late` (violation) | one file, one content, 2 times, a window of 3, no failure | last write times are the same (README.md:121) |

What the violations show is in `findings`. Briefly: a stale STOR stays in the
window and shifts all replies; an abandoned session removes what its successor
stored; a STOR overtaken by a younger probe sets an old last write time last.

The properties about the end of the programs name the cases in which they do not end.
These are real and each is reached:

- `GuardJoins`: `~Thread_guard` of the client notifies nobody, `communicate` sleeps
  until the next event and there is no watcher any more: the client hangs when the
  watcher throws while nothing is to be sent. In `threads` this happens. Or a server that
  accepted the connection says nothing more: `authenticate` (client/ProtocolManager.cpp:73),
  the rest of a message and every write wait without a time-out, and the flag is not
  looked at meanwhile.
- `ClientEnds`: the watcher sleeps in the `push` of `recoverFromDB` on a full queue
  and is not notified, because `communicate` left by the select error, which only sets
  the flag, or because the notification came between the watcher's look at the flag
  and its sleep. At all other times the watcher polls and finds the flag.
- `ServerEnds`: main waits for a place in the socket queue with the `push` that knows
  no flag, while no thread takes connections any more; or the only thread in
  `tryGetUntil` missed the notification of `~Thread_guard`; or a client that connected and
  says nothing keeps its thread in `authenticate` (server/ProtocolManager.cpp:148) or in the
  rest of a message or of a file (604), and the join waits for it. A thread that heard the
  notification repeats it before it returns, so that with two in `tryGetUntil` none is left
  asleep: the mutant that drops this second notification shows it.
- `EachGetsItsTurn`: a connection in the socket queue waits for ever only if from some time
  on no thread looks into the queue: the others are kept, each by one silent client, or
  ended. Otherwise it is taken out, however many connections come after it.

`TimesKept` says what is left of README.md:121: the last write times on the server are
those of the client's database, and the times of directories are the folder's, whatever
failed. A file's time may be older, on both sides alike. The client writes a file
again while its first probe is under way, the STOR is put at the end of the
window behind the probe of a newer time, and is carried out last (`late`, with a window of three
and no failure; with a window of two it takes a broken connection, after which the
window is sent again in its own order). It is healed at the next start of the
client, which finds folder and database different. Two things are exempt:

- the directory in which the server was at work when it was killed in a handler:
  the time of the parent was read before the change and is not set again (hence
  `crashes = 0` for directories);
- a directory that holds directories with something in them (`HoldsFolders`). A STOR can
  arrive before the MKD of its directory, which found the event queue full; then
  `_storeFile` makes the directories that are missing and sets again only the time of the
  file's own parent, so the directory above the missing ones keeps the time of its
  making. With three levels and a queue of one TLC finds this without any failure
  (`folder` reaches it); it contradicts the same README.md:121 as the finding of `late`.

`InSyncUnlessExcused` and `RowsDescribeDisk` name what remains on the server though it is
not in the folder (`LeftOver`):

- a file whose STOR the server executed and whose OK the client did not live to note, if
  it is removed before the client starts again. The client's database does not know it, so
  no event will remove it; if the server was killed in the handler (`restarts`) there is
  a file without a row, which a retrieval does not find either. If the file is there
  again at the next start with another time or content, its event may be a modification,
  and `update` changes no row of the client's database as there is none (`file` reaches
  this): the file is on the server and not in the database;
- a directory that `_storeFile` made for a file and that is removed before its own MKD is
  answered: RMD looks for it in `_elements`, does not find it and answers "it was not
  there", for which the comment at server/ProtocolManager.cpp:1023 gives "the result is the
  same". It is not: the directory stays, without a row, and no later event is about
  it. This takes no failure but five edits on three levels (remove the tree, make its
  two directories and the file again while the queue has room for the file only, remove
  it), two more than the bounds of `folder` allow; TLC finds it when the edits are
  constrained to this order.

A path is also exempt from the properties about content (`flipped`) when it left the
state the watcher knows and came back to it before the watcher looked. If
`receive` looks just in between it drops the file, counting on the watcher
(client/ProtocolManager.cpp:339), and the watcher has nothing to report.

Bounds. `MaxEdits`, `MaxBreaks`, `MaxCrashes` and `MaxRestarts` cap counters that
exist for no other purpose. Three edits are write, remove, write again (or remove a
directory, make it, write into it): the shortest histories in which an element
returns while its removal is under way. Queue and window have two places, so both
are full in every run and a STOR is put behind a younger probe (`late` has three, the
least for which this happens without a resend). One break, crash or
restart at any step, with every suffix of the messages lost, reaches every point of
the resending; a second one meets the same states of window and server, as
`recoverFromError` starts from the window alone. Two contents tell old from new, two
times tell an update of the time from none. Deadlock is not checked in the
runs of the system because the client may end for good (an exception, or retries
used up) and the system then really stops; it is checked for the ring.

`folder` has three levels and a queue of one place, so that a directory's event is
put off while that of a file below it is sent. The backup is complete at the start, so
that three edits remove what is there, make it again and write into it. Where the
proofs do not reach (paths that change their kind, two sessions at once) and before they were
found, the properties were also checked with larger bounds than a run may take: four
edits here and with a broken connection, windows of three, three levels with a crash and a
kill, two contents with all failures at once.

The request that the server refuses without a reply (`Reject`) happens in no run: once
it happened the window never empties, and the properties speak of the time before
(`outOfStep`). The client can send one: `validatePath` refuses names that a Linux folder may hold (with one
of `< > " | ? *` or a colon in it, Validator.cpp), and then what `stale` shows happens
without any failure, as the reply to the next event is taken for this one. With one such
path among two TLC finds `ReplyIsForHead` violated; `NoReplyWithoutEvent`, which has no
exemption, still holds, and the proofs cover `Reject`. A STOR with such a path is never
sent: its PROB was skipped, so no SEND names it, and `receive` ends the client when a SEND
names another path than its event.

In `upload` the buffers for requests hold one part, fewer than any message has, so that
every write waits; those for replies hold what two replies take, the least that
`UploadAssumption` allows. Chunks of 1 give a file several messages and an empty last
one, chunks of 3 are longer than a record. In `retrieval` one request of the other
session can fall between any two of the retrieval's steps, on the file that it is about;
two starts are a removal and a new user of that name; the width of two bits makes a
file of size 2 what one of 2 GB is.

Fairness (`file`, `restarts`). Weak fairness of the watcher (its loop polls for
ever), of the client's thread (its select returns when there is something to do),
of connecting (`communicate` tries again; without `Persist` it may also give up),
of each thread of the server, and of somebody starting a stopped server again.
None for the user, for breaks and for crashes. `Settles` says that from some time
on everything is answered and the watcher knows the folder, unless the client
ended or a message was skipped without a word.

Fairness (`threads`, `pool`). Weak fairness of each thread where it does not wait for its
peer: the scheduler runs it, and a thread that wants the mutex gets it, as the others hold
it only for the length of a method. None for exceptions, select errors and fatal errors,
nor for clients that connect. A select is answered by a time-out at the latest, so it needs
no fairness of the network. A read or a write of a session does: no socket has a time-out
(Socket.cpp sets none), so a thread in one of the places `Blocking` goes on when the peer
lets it, and need never do so. There `Fairness` asks nothing, and `GuardJoins`, `ServerEnds`
and `EachGetsItsTurn` name what follows: a silent peer keeps the thread, and who joins
it. Spurious wake-ups are left out: a woken thread looks at its predicate and sleeps
again; they could only end the waits that are lost.

Fairness (`upload`, `retrieval`). Weak fairness of the client's thread and of the
server's: each goes on when it can, and a read or a write returns when there is
something to read or a place to write to, or the connection is gone. None for the user,
the network, the other session, the administrator or a kill. `Uploaded` therefore says
that a transfer ends once the user stops writing; `RetrievalEnds` needs no such thing.

The bounds of the threads: with a queue of 2 and passes of 3 the queue is full, empty
and in between at each place of the other thread; a window of 2 is full in between; 2
retries are a first, a last and one too many. Two threads of the server are one that fails
or is kept by a client and one that sleeps or is about to, and a third client is in the
queue behind two others; a listen queue of 1 makes connecting to it fail. (The safety
properties are proved for any number of threads.)
Deadlock is not checked: both programs end.

## The proofs

`CircularVectorProofs`, for every size and every set of elements:

- `RingInvariant`: the indices stay in the ring and every slot between head and
  tail holds an element. The two together are inductive; that the count which
  `size()` computes stays within the size follows from the arithmetic alone.
- `RingImplementsFifo`: the initial state maps to the empty queue, `Push` to the
  queue's push and `Pop` to its pop. The work is in the arithmetic of `%`, in
  lemmas about one step round the ring.
- `WalkIsComplete`: `WalkVisitsContents`. `Walk` is a recursive function of the index;
  `WalkIs` says that from an index in the window it gives the rest of the contents from
  there. An index for which it did not, with the shortest rest, has a next one with a
  shorter rest that fails too (`WFMin` of the library, on the naturals).

`ProtocolProofs` and `BackupProofs`, for every set of paths, hashes, times and connections,
every shape of the directory tree, all sizes of queue and window and all bounds on edits,
breaks, crashes and restarts:

- `RepliesHaveEvents`: `NoReplyWithoutEvent`, the property that makes the unchecked
  `front()` of `receive` right.
- `SystemTypeOK`: the types of all variables. It says more than types where the
  code has work to do: queue and window within their sizes, and `WellFormed`, no
  element of the user's folder or of the backup without its directories, whatever
  requests arrive in which order and wherever a handler is cut off by a crash.

Both follow from `Invariant`, `Spec => []IInv`. `IInv` is the types, the balance
of replies and events, and two things neither says by itself. `Control`: the
client is connected exactly when its place says so, the index of
`recoverFromError` points into the window (or behind its end), and a STOR about
to be sent still has its place in the window; without it a resend could count an
event that is not there, and `SendStor` could overfill the window. `VisitsKnown`:
the passes over `_paths` only meet paths that are in `_paths`; without it the
entry of a "deleted" event would be none.

The argument is split as the modules are. `FileTreeProofs` has what each operation
on trees keeps. `ProtocolProofs` has one lemma for each action of the watcher and of the
client; those on a connection go through `StepKeeps` and `Balance` (a step
that puts at most as many messages on the way as it counts events) or
`ConsumeKeeps` (a reply takes an event with it). It shows for each
handler, for the end of a session, a crash, a restart and a broken connection that
types are kept and that `NoMoreToCome` holds on every connection: a request that
leaves the queue becomes at most one reply. `ProtocolProofs` then puts the two sides
together for messages, sessions and table, and `BackupProofs` builds on it for the
content of the backup and the client's database.

- `RepliesAreInOrder`: `RepliesInOrder`, that what is on its way belongs, in its order,
  to the front of the window. `InOrder` says it pointwise: the n-th of the replies and
  then the requests on the connection (`Matches`) belongs to the n-th event. A client's
  step adds at the end (`SendingInOrder`), attaches data to the last STOR
  (`AttachingInOrder`), or takes the first reply and the first event
  (`ConsumingInOrder`). Every step of a server or of the network is `Orderly`: it leaves a
  connection alone, turns its first request into one answer that fits it, cuts off a
  suffix, or ends it. Needed are the balance of `IInv`, for the window is as long as what
  is under way, and `Control`, for the places that are already sent again.
- `SessionsAreRight`: `SessionKnowsDisk` where one thread serves the user; with two it is
  false (run `overlap`). The invariant is the property itself, with the types; the work
  is in the handlers' many ways out, where disk and `_elements` change or do not.
- `ServerGoesOn`: `ServerKeepsRunning`, where one thread serves the user and a path is
  only ever a file or only ever a directory (`KindsFixed`; the values of `folder` satisfy
  it). The kinds are kept from the edits to `_paths`, events, window, requests and the
  disk (`AllOfTheirKind`), and with `SessionKnowsDisk` no handler then meets what it
  cannot deal with (`NoHandlerFails`: a directory where `_elements` has a file, a file
  on the way to a path). `Silent` adds that nothing waits on a connection that was never
  made. Without the hypothesis it is false: a file is replaced by a directory, the
  watcher reports the old path as changed (a PROB, found) and then what was made in the
  directory, and `create_directories` throws at the file the server still has
  (server/ProtocolManager.cpp:947). TLC reaches this in `folder` with two paths of
  any kind and `Flat` to begin with, by three edits.

- `TableIsKnown`: with one session at a time no path has two rows in the table, and what a
  session's map holds is what the table lists (`KnowsRows`). `recoverFromDB` makes them
  agree, each handler changes both or none (`RecordLists`, `ForgetLists`), and no other
  process touches the table. Together with `SessionsAreRight` this is what the handlers
  rely on, and `Retrieval` starts from such a table.
- `NothingSavedIsLost`: `BackedUp`, under the same two hypotheses. The events of window,
  `cur` and queue are one line (`Coming`), of which the first `Replies` have their reply
  already. `EventsTold`: the last event of a path in that line says what `_paths` says, or
  the path changed since, was given up or flipped behind the watcher's back (`Out`).
  `RemovedAway`: what is below a directory whose RMD is in the line is gone from `_paths`
  too, or has an event after the RMD. A path is `Exposed` when the watcher has reported
  all there is and every event of it has its reply, and `Acknowledged` when the last of these
  replies, if there still is one, is one of the Ok codes. The invariant is `Backed`: an exposed
  and acknowledged path has on the disk the content it has in `_paths`, and in the table
  a row with that hash (`Fits`). No step of the client, the watcher or the user
  exposes or acknowledges anything (`Undisturbed`: pop and push, resending and hanging up
  only move what is in the line, `Follows`), unless it starts or ends the program
  (`Quiet`). What is left is the server: a handler changes, of what is on the disk and in
  the table, at most the path of its request and, for RMD, what is below it (`Leaves`), all of
  which is not exposed as long as the request is not answered (`NotYet`), also when the server
  still reads the requests of a connection the client gave up long ago (`Stale`); and what a
  handler calls found or created is on the disk with that type and hash, and in the table
  (`HandlersDo`). With two threads it is false (run `overlap`). With paths that change their
  kind, which no run has here, TLC finds this: a file is replaced by a directory of the same
  last write time, and MKD is answered "created" after a comparison of the times alone
  (server/ProtocolManager.cpp:918) while the backup still has the file.
- `BackupIsInSync`: `InSyncUnlessExcused`, and `TableIsInSync`: `RowsDescribeDisk`, under
  these hypotheses and a third, `NothingMore`: the server begins with nothing the client's
  database does not list (what was there before would never be removed). All three hold of the
  values of `file`, `folder` and `restarts`. What the folder has is `Backed`. The
  rest is about what it has not, and about the client's database:
  - `WindowTells`: what the server has of a path (`ServerHas`: a row, or a file without one)
    the client's database has too, or an event still in the window will bring it there
    (`HadIsKnown`); after a deletion that was answered already, such an event follows
    (`HadIsStored`); and a file without a row, left by a crash in `_storeFile`, belongs to a
    STOR without a reply, or with an error for one, in the window (`OrphansExpected`). The server's
    steps keep it because each request under way is of an event without a reply
    (`Foreseen`): on the open connection this is `InOrder`, on an abandoned one the
    window still holds what was sent on it. The client's keep it because a reply that takes an event from the
    window notes it in the database, gives the path up, or asks for the file (`Taken`).
  - The last is not true of a "modified" whose row `update` does not find. For a directory
    that must not happen, as its MKD makes a row on the server: `RenewedIsMade` says that
    before a "modified" of a directory the directory is in the database or will be by an
    event in between (`MadeBefore`), and `HeldIsMade` that this holds of an event that
    the watcher would report next.
  - `Agreed`: a path the watcher has reported and of which no event is in the line (`Rests`)
    is in the client's database as it is in `_paths`, or it is `doubtful` and not in it. The
    one hard case is again a "modified" that finds no row: its path is then exposed and
    acknowledged, so it has a row on the server (`Fits`), so the database has it
    (`HadIsKnown`) (`UpdateFinds`).

  When the system is settled the line is empty, every path rests, and the two meet: what
  `_paths` has is backed and agreed on, what it has not is not in the database either, so the
  server has no row and no file of it (`SettledIsInSync`). A directory without a row can be
  left, which is the second case of `LeftOver`.
- `TimesAreKept`: `TimesKept`, under the same three hypotheses, for breaks, crashes and
  kills alike. The time that is due of a path (`DueTime`) is that of its last event in the
  line, or, if none is coming, that of its row in the client's database. It is not always
  the time in `_paths`: a STOR that was put behind a newer probe makes an older time due,
  and the database gets the same one. The invariant has two halves. `Dated`: an exposed
  and acknowledged path has on the disk the time that is due. `DirsDated`: what `_paths`
  says of a directory is due, as no STOR of a directory is ever put at the end.
  - A step of the client, the watcher or the user keeps what is due and what `_paths`
    says, or it puts an event in the line that has no reply yet, so that the path is not
    acknowledged (`KeepsTimes`); `CurWaits` says this of the event between pop and push.
  - A reply of an Ok code shows that the time of its request is on the disk: a probe has
    compared or set it, a STOR and MKD have set it (`ReplyExposes`, with
    `SessionKnowsDisk` for what the handler compares).
  - A handler touches other times as well, those of the directory it works in, and sets them
    again (`HandlersKeepTimes`, all but `HoldsFolders`). If the server dies in between
    the times of files are untouched (`CrashKeepsFiles`), that of the directory is not, hence
    `crashes = 0` in `Dated`.

The assumptions are those the modules name (`TreeAssumption`, ...): the
directories above a path form a chain with the parent as its last element, the
initial trees are well formed, sizes and bounds are naturals, `NoConn` is no
connection.

`ClientThreadsProofs`, for every size of queue and window, all counts of retries and
elements, with and without `Persist`:

- `PromisesHold`: `SelectStillTrue`. `front()`, `pop()` and the push into the window are
  called without a second look, after a `select` during which the watcher ran.
- `NoLostWakeup`: `NoIdleSleeper`, that pushes and pops lose no notification.

`IInv` adds to these two and the types what makes them inductive: who sleeps or is about to sleep,
on which variable, and that its predicate was false (`Sleepers`: a thread between its look
and its sleep keeps the mutex, so nobody else can make the predicate true); that
at the select a wanted write means an element and a free place (`AtSelect`); and that
`tryPush` looks a second time only for an element of the pass (`AtRetry`).

`ServerThreadsProofs`, for any number of threads and clients and every size of the two
queues: `NoLostWakeup` as above, and `WakerNeverServed`. The last
needs `FlagFirst`: whoever made a connection to end the accept, or is about to, has
set `main_stop` before; so `main`, which looks at the flag after each accept, drops it.

`ConnectionsOnce` is `EachConnectionOnce`: `Once(c)` says of a connection that it occurs
in each of the two queues at one place at most, is served by one thread at most, and
that any two of listen queue, main's hands, socket queue and threads exclude each other.
That is inductive, and a set of places in which any two are equal has at most one.

`UploadProofs`, for all contents, windows, chunk sizes, records and buffers with
`UploadAssumption` (the buffers for replies hold the replies to a full window):

- `TransferFramed`: `StreamsFramed`. `Flow` says of each direction that what was read,
  what is on its way and what is to be written is one chain: each part is followed by the
  next of its message or by a length, and it is broken off only where writing goes on or
  was cut. The lemmas `FlowSend` ... `FlowCut` keep it for `Stream`'s operations.
- `RepliesFindRoom`: `NoCrossedWrites`. The invariant numbers the places of the window:
  each reply under way, and each request under way that will get a reply, has a place
  of its own, in order (`Owed`). So there are never more replies than `Window`, each
  takes two parts, and the server is never blocked.
- `NoMixture`: `CopyIsAVersion`. What STORs announce, under way or in `expected`, was in
  the file (`Announcements`), and the copy only becomes what was announced. It rests
  on the comparison of size and hash by the server; nothing the client does ensures it.
- `TempGoes`, `UploadTypeOK`: `NoTempLeft` and the types.

The default window is 1024 messages. Their replies are some tens of bytes each and fit
into the buffers that systems give a socket today; where a configuration asks for a window
that does not fit, `NoCrossedWrites` does not hold (the mutant that does not look
at the window shows how it ends).

`RetrievalProofs`, for all machines, paths, contents and times, every table and folder to
begin with that has a row for each path at most, and every command line:

- `RemovedUserIsGone`: `NoUserNoData`. While the rows of a removed user or a folder are
  left, the step that will take them is still to come (`Removing`), in the order
  of `CommandOrder`.
- `WhatIsRetrieved`: `RetrievedIsBackup`; `FailuresHaveCauses`: `FailsOnlyForCause`;
  `StaleRowsForgotten`: `ForgetsStaleRows`; `RetrievalTyped`: the types.

The invariant follows a row from the table to the destination. `RestOK`: what is still to
be looked at is the end of what was collected. `MessagesOK`: a message is about a row that
was looked at, in the order of the rows, a STOR is followed by its DATA, and an answer to
the request is last. `LooksOK`: what was found at the look still holds at the next step
if no other session touched the file in between. `DeliveryOK`: a row that was looked at and
is as the table says is under way or has arrived, and then nothing under way can undo
it. `RowsOK`: rows were forgotten exactly where the disk had not what they say. `CausesOK`: an
error under way has its cause. `AdministrationOK` and `SessionOK` are about the command line
and the other session, `Places` relates the places of the two programs.

`collected` is a concatenation over the requested machines, by a fold (`FlattenSeq`).
What it contains is proved by induction on the number of machines
(`FlattenLists`), as a set of numbers that holds 0 and with each its successor
(`SetInduction`).

The assumptions are of `Accounts` and `Retrieval`: tables have one row for a path, as
sessions one after the other leave them (`TableIsKnown`; the key of `savedFiles` is a
number and forbids nothing), folders and destinations are well-formed trees.

Only model-checked is liveness (`Settles`, `ClientEnds`, `GuardJoins`, `GivesUp`,
`EachGetsItsTurn`, `ServerEnds`, `Uploaded`, `RetrievalEnds`), which TLAPS does not reach.

## What is not modelled

- Another protocol version: both programs have one, and the branch for a second is never
  taken.
- In `BackupSystem` connecting and authenticating are one step that succeeds or fails;
  retries and time-outs are a choice there and counted in the thread modules.
- Two processes that use one database: the server administered while another serves, and
  SQLite's locks. `Accounts` precedes the retrieval, in one program after the other.
- Salts and hashes of passwords: a password is right or wrong. The view options only print.
- What a closed connection delivers: `TCP_Socket::closeConnection` says that it receives
  until the peer's FIN, but with `MSG_DONTWAIT` it reads what is there and closes. What
  the peer then misses is the suffix that `Cut` and `Break` lose.
- Other users: their folders and rows are disjoint.
- Errors of SQLite, of the hash and of the disk (full, permissions).
- Encoding, TLS, creation and acceptance of sockets, configuration, arguments, validation,
  logging, hash and random numbers: texts, output and calls of libraries, without state of
  the protocol. Their results are constants (`QueueSize`, `WindowSize`, `ChunkSizes`,
  `CommandLines`, `Unacceptable`, `Hash`).

## Plan

Done: the backup itself (`BackupSystem` and its parts), the ring, the queue and the
threads of both programs, the transfer in chunks, the retrieval and the administration;
their types and all their safety properties proved, some under the hypotheses named above.

Left:

1. That a step of `BackupSystem`'s client is one of `ClientThreads` (its window as the
   count `unanswered`, its queue as `items`), and that `Upload`'s transfer implements the
   single step of `ServerProtocol`'s `StoreFile`, so that the views are one.
