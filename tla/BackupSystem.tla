---------------------------- MODULE BackupSystem ----------------------------
(***************************************************************************)
(* The client, the network and the server together.                        *)
(***************************************************************************)
EXTENDS ClientProtocol, ServerProtocol

vars == <<watcherVars, clientVars, netVars, serverVars>>

Init == WatcherInit /\ ClientInit /\ NetInit /\ ServerInit

Users == User /\ UNCHANGED <<clientVars, netVars, serverVars>>
Watcher == Watch /\ UNCHANGED <<clientVars, netVars, serverVars>>
WatcherFails == /\ \E p \in Path, t \in Time : VanishUnderExamination(p, t)
                /\ Stop
                /\ UNCHANGED serverVars
Connect(c) == /\ ConnectTo(c) /\ Accept(c)
              /\ c2s' = [c2s EXCEPT ![c] = <<>>]
              /\ s2c' = [s2c EXCEPT ![c] = <<>>]
              /\ UNCHANGED <<breaks, outOfStep, serverUp, storeVars, crashes>>
Client == Communicate /\ UNCHANGED serverVars
Server(c) == Serve(c) /\ UNCHANGED <<watcherVars, clientVars>>
ServerDies == /\ Crash \/ \E c \in Conn : CrashInHandler(c)
              /\ UNCHANGED <<watcherVars, clientVars>>
ServerRestarts == Restart /\ UNCHANGED <<watcherVars, clientVars>>
ConnectionBreaks == /\ \E c \in Conn : Break(c)
                    /\ UNCHANGED <<watcherVars, clientVars, serverVars>>
ClientRestarts == (Kill \/ StartClient) /\ UNCHANGED serverVars
ClientGivesUp == GiveUp /\ ~serverUp /\ UNCHANGED serverVars

Next == \/ Users \/ Watcher \/ WatcherFails
        \/ Client \/ \E c \in Conn : Connect(c) \/ Server(c)
        \/ ServerDies \/ ServerRestarts \/ ConnectionBreaks
        \/ ClientRestarts \/ ClientGivesUp

Spec == Init /\ [][Next]_vars

\* Both programs' threads and the sockets keep going, the watcher polls for ever
\* and somebody starts the server again.  Nothing makes the user edit, a
\* connection break or a process die.
Fairness == /\ WF_vars(Watcher) /\ WF_vars(Client)
            /\ WF_vars(\E c \in Conn : Connect(c))
            /\ \A c \in Conn : WF_vars(Server(c))
            /\ WF_vars(ServerRestarts)

FairSpec == Spec /\ Fairness
-----------------------------------------------------------------------------
(* Requests and replies under way against the window.                       *)

\* How many events of the window were sent on this connection.
Sent == CASE pc = "resend" -> at - 1
          [] pc = "resendData" -> at
          [] OTHER -> Len(window)

Asked(request) == [request EXCEPT !.data = NoData]
Replied == [i \in DOMAIN s2c[conn] |-> Asked(s2c[conn][i].re)]
Waiting == IF link[conn] = "open" THEN [i \in DOMAIN c2s[conn] |-> Asked(c2s[conn][i])] ELSE <<>>
\* Replies that have arrived, or will arrive if the connection holds.
Outstanding == Len(s2c[conn]) + (IF link[conn] = "open" THEN Len(c2s[conn]) ELSE 0)
SentRequests == [i \in 1 .. Sent |-> RequestOf(window[i])]

\* The paths some event of which is to come, or on its way to the server or back.
Paths(events) == {events[i].path : i \in DOMAIN events}
ToRecover == IF scan.pass = "recover" THEN scan.todo ELSE {}
Pending == ToRecover \cup Paths(queue) \cup Paths(window) \cup Paths(cur)

\* Nothing is left to do: the watcher saw all there is and everything is answered.
Settled == /\ queue = <<>> /\ window = <<>> /\ pc \in {"off", "loop"}
           /\ known = folder /\ scan.pass # "recover"

\* What the properties speak about: paths of which no event was given up and that
\* did not change behind the watcher's back.
Kept == IF outOfStep THEN {} ELSE Path \ (excused \cup flipped)
SameContent(a, b, p) == IF Exists(a, p) THEN /\ Exists(b, p)
                                             /\ a[p].type = b[p].type /\ a[p].hash = b[p].hash
                                        ELSE ~Exists(b, p)

\* A directory in which directories are made: create_directories can make one of them
\* for a file (_storeFile), and only the time of the file's own parent is set again.
HoldsFolders(p) == \E q \in Below(p) : Below(q) # {}
SameEntry(a, b, p) == SameContent(a, b, p) /\ (HoldsFolders(p) \/ a[p] = b[p])
-----------------------------------------------------------------------------
TypeOK == WatcherTypeOK /\ ClientTypeOK /\ NetTypeOK /\ ServerTypeOK

\* receive() takes the front of the window without asking whether it is empty
\* (client/ProtocolManager.cpp:301): on every connection, however many messages
\* were skipped or sent again, there are no more replies to come than events
\* sent on it.
NoReplyWithoutEvent == conn # NoConn => Outstanding <= Sent

\* As long as nothing is skipped without a word, the replies answer the events of
\* the window one by one from its head, across reconnections, and on a
\* connection that holds the requests behind them are the rest of the window:
\* that is what makes pop() after a reply right (client/ProtocolManager.cpp:409).
RepliesInOrder ==
    conn # NoConn /\ ~outOfStep =>
        /\ Replied = SubSeq(SentRequests, 1, Len(Replied))
        /\ link[conn] = "open" => Replied \o Waiting = SentRequests

\* While the client runs: an element on which folder, watcher and client database
\* agree, and about which (and about whose parents) nothing is under way, is in the
\* backup with that content.  A file the database calls saved may not silently be
\* gone.
BackedUp ==
    pc # "down" => \A p \in Kept :
        /\ Exists(folder, p) /\ folder[p] = known[p] /\ folder[p] = clientDb[p]
        /\ ({p} \cup Ancestors[p]) \cap Pending = {}
        => SameContent(folder, disk, p)

\* What nothing will remove any more: not in the folder, and on the server what a
\* STOR left whose OK never came (the client was killed before it could note it),
\* or a directory that create_directories made for a file (_storeFile) and that RMD
\* does not look for, as no row tells the session of it.
LeftOver(p) == /\ ~Exists(folder, p)
               /\ p \in doubtful \/ (IsDir(disk, p) /\ rows[p] = <<>>)

\* When everything is answered the backup is the folder, and the client's database
\* says so, whatever broke, crashed or was killed on the way.  Only what is left
\* over can be too much on the server; and a file that the server stored without
\* the client's knowing, and that was modified since, is missing in the database,
\* because update finds no row to change.
InSyncUnlessExcused ==
    Settled => \A p \in Kept :
        /\ SameContent(folder, clientDb, p) \/ (p \in doubtful /\ ~Exists(clientDb, p))
        /\ SameContent(folder, disk, p) \/ LeftOver(p)

\* The last write times on the server are then those of the client's database, and
\* those of directories are the folder's, whatever order and however often PROB, STOR
\* and MKD of an element were sent.  A file's time can be an older one on both sides
\* (SameLastWriteTime), and a server that is killed in a handler leaves the time
\* of the directory in which it was at work.
TimesKept ==
    Settled => \A p \in Kept :
        /\ Exists(clientDb, p) /\ (crashes = 0 \/ IsFile(clientDb, p)) => SameEntry(clientDb, disk, p)
        /\ IsDir(folder, p) => clientDb[p] = folder[p] \/ (p \in doubtful /\ ~Exists(clientDb, p))

\* When everything is answered the server's table has one row for each element on
\* disk, with its hash, and no row for anything else: nothing is there that
\* recoverFromDB or a retrieve would not find, but for what is left over.
RowsDescribeDisk ==
    Settled => \A p \in Kept :
        \/ IF Exists(disk, p) THEN Len(rows[p]) = 1 /\ rows[p][1].hash = disk[p].hash
                              ELSE rows[p] = <<>>
        \/ LeftOver(p)

\* With one session at a time, what the session believes of an element is what
\* is on disk, its last write time included but for directories that hold others: the
\* handlers compare requests with _elements and never look at the disk again.
SessionKnowsDisk ==
    \A c \in Conn : serverUp /\ link[c] # "none" /\ recovered[c] =>
        \A p \in Path : Exists(elements[c], p) => SameEntry(elements[c], disk, p)

\* No sequence of the client's messages ends the server: every exception of a
\* handler other than those it skips would.
ServerKeepsRunning == crashes = 0 => serverUp

\* Everything settles for good, or the client ended, or it waits for a reply that
\* was never sent.
Settles == <>[](Settled \/ pc = "down" \/ outOfStep)
-----------------------------------------------------------------------------
(* What the documentation says of the program, and the code does not do.    *)

\* "I know, since the messages are always in order, that the first message of the
\* window has been confirmed" (README.md:101): the reply that receive() takes
\* answers the event at the head of the window.
ReplyIsForHead ==
    pc = "loop" /\ s2c[conn] # <<>> =>
        window # <<>> /\ Asked(Head(s2c[conn]).re) = RequestOf(Head(window))

\* "The files and directories on server side (the backed-up ones) must have the
\* same last write time of the original files on client side" (README.md:121).
SameLastWriteTime ==
    Settled => \A p \in Kept :
        SameContent(folder, disk, p) => disk[p] = folder[p]
=============================================================================
