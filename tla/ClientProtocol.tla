--------------------------- MODULE ClientProtocol ---------------------------
(***************************************************************************)
(* The client's communication thread (communicate in client/main.cpp) and  *)
(* its ProtocolManager: a window of messages without a reply, kept across  *)
(* connections and sent again on the next one.  A step is what happens     *)
(* between two looks at the folder, the socket or the queue.               *)
(***************************************************************************)
EXTENDS FileSystemWatcher, Network

CONSTANTS WindowSize,   \* config->getMaxResponseWaiting()
          Persist,      \* the option to retry a connection for ever
          MaxRestarts   \* bound: how often the client is killed and started again

ASSUME ClientAssumption == WindowSize \in Nat /\ MaxRestarts \in Nat

VARIABLES pc,        \* where communicate is
          at,        \* recoverFromError: the index of the next message to send again
          cur,       \* receive: the storeSent event between pop and push, or nothing
          window,    \* _waitingForResponse, the oldest event first
          clientDb,  \* the database of the client: what it knows to be backed up
          conn,      \* the connection in use
          restarts,  \* counts the starts after the first, up to MaxRestarts
          excused,   \* history: paths of which an event was given up
          doubtful   \* history: paths of events without a reply when the client ended

clientVars == <<pc, at, cur, window, clientDb, conn, restarts, excused, doubtful>>
positionVars == <<pc, at, cur>>
ownVars == <<clientDb, conn, restarts, doubtful>>

Place == {"off",         \* not connected
          "resend",      \* in recoverFromError, before the next message
          "resendData",  \* ... after a STOR, before its file is read
          "loop",        \* at the select
          "store",       \* in receive, before the STOR that was asked for
          "storeData",   \* ... after it, before its file is read
          "down"}        \* the program ended

ClientInit == /\ pc = "off" /\ at = 0 /\ cur = <<>>
              /\ window = <<>>
              /\ clientDb = Initial
              /\ conn = NoConn
              /\ restarts = 0
              /\ excused = {}
              /\ doubtful = {}

\* _composeMessage
OpOf(ev) == IF ev.entry.type = "file"
            THEN CASE ev.type = "deleted" -> "DELE"
                   [] ev.type = "storeSent" -> "STOR"
                   [] OTHER -> "PROB"
            ELSE IF ev.type = "deleted" THEN "RMD" ELSE "MKD"
RequestOf(ev) == [op |-> OpOf(ev), path |-> ev.path, entry |-> ev.entry, data |-> NoData]

\* The file is still there and its content is still that of the event.
Unchanged(ev) == Exists(folder, ev.path) /\ folder[ev.path].hash = ev.entry.hash

\* _sendFile, after the STOR went out; of a directory nothing can be read.
AttachData(p) ==
    c2s' = IF link[conn] = "open"
           THEN [c2s EXCEPT ![conn][Len(c2s[conn])].data = folder[p].hash]
           ELSE c2s

\* An exception that communicate does not handle, or a signal: the process ends,
\* and with it the watcher.  Events in the window are in doubt.
InDoubt == {window[i].path : i \in DOMAIN window} \cup {cur[i].path : i \in DOMAIN cur}
Stop == /\ pc' = "down" /\ at' = 0 /\ cur' = <<>> /\ window' = <<>>
        /\ conn' = NoConn
        /\ doubtful' = doubtful \cup InDoubt
        /\ link' = [c \in Conn |-> IF c = conn /\ link[c] = "open" THEN "broken" ELSE link[c]]
        /\ s2c' = [c \in Conn |-> IF c = conn THEN <<>> ELSE s2c[c]]
        /\ UNCHANGED <<c2s, breaks, outOfStep, clientDb, restarts, excused>>
StopAll == Stop /\ scan' = Begin("stopped", {}) /\ queue' = <<>> /\ UNCHANGED <<known, folderVars>>
-----------------------------------------------------------------------------
(* Connecting.  The reader's half of a broken connection is gone with it.   *)
\* (The definitions whose comment says Mutant are errors this code could have had;
\* each breaks a property of the run that PROJECT.json names.)

\* Mutant: the thread sleeps until the watcher reports something new.
ConnectToForNewEvents(c) ==
    /\ pc = "off" /\ queue # <<>>
    /\ pc' = "resend" /\ at' = 1 /\ conn' = c
    /\ UNCHANGED <<cur, window, clientDb, restarts, excused, doubtful, watcherVars>>

\* Mutant: recoverFromError starts behind the oldest message.
ConnectToBehindOldest(c) ==
    /\ pc = "off" /\ (window # <<>> \/ queue # <<>>)
    /\ pc' = "resend" /\ conn' = c
    /\ at' = IF window = <<>> THEN 1 ELSE 2
    /\ UNCHANGED <<cur, window, clientDb, restarts, excused, doubtful, watcherVars>>

ConnectTo(c) ==
    /\ pc = "off" /\ (window # <<>> \/ queue # <<>>)
    /\ pc' = "resend" /\ at' = 1 /\ conn' = c
    /\ UNCHANGED <<cur, window, clientDb, restarts, excused, doubtful, watcherVars>>

\* Mutant: a new window for each connection.
HangUpForgetting == /\ pc' = "off" /\ at' = 0 /\ cur' = <<>> /\ conn' = NoConn
                    /\ s2c' = [s2c EXCEPT ![conn] = <<>>]
                    /\ window' = <<>>
                    /\ UNCHANGED <<c2s, breaks, outOfStep, clientDb, restarts, doubtful, watcherVars>>

HangUp == /\ pc' = "off" /\ at' = 0 /\ cur' = <<>> /\ conn' = NoConn
          /\ s2c' = [s2c EXCEPT ![conn] = <<>>]
          /\ UNCHANGED <<c2s, breaks, outOfStep, window, clientDb, restarts, doubtful, watcherVars>>

\* Reading or writing throws: every place of the thread can be interrupted.
LoseConnection == /\ conn # NoConn /\ link[conn] # "open"
                  /\ HangUp
                  /\ excused' = excused \cup {cur[i].path : i \in DOMAIN cur}
                  /\ UNCHANGED link

\* TimeoutSeconds went by without an event and without a message.
Disconnect == /\ pc = "loop" /\ link[conn] = "open"
              /\ window = <<>> /\ queue = <<>> /\ s2c[conn] = <<>>
              /\ HangUp
              /\ link' = [link EXCEPT ![conn] = "broken"]
              /\ UNCHANGED excused

\* The retries are used up while nobody listens.
GiveUp == /\ ~Persist /\ pc = "off" /\ (window # <<>> \/ queue # <<>>)
          /\ StopAll
-----------------------------------------------------------------------------
(* recoverFromError.                                                        *)
Resent == /\ pc = "resend" /\ at > Len(window)
          /\ pc' = "loop" /\ at' = 0
          /\ UNCHANGED <<cur, window, ownVars, excused, netVars, watcherVars>>

\* The file of the event vanished or changed: nothing is sent for it, but it stays
\* in the window, so that no event can be told from its neighbours any more.
SkipStale == /\ pc = "resend" /\ at <= Len(window)
             /\ window[at].type = "storeSent" /\ ~Unchanged(window[at])
             /\ at' = at + 1
             /\ outOfStep' = TRUE
             /\ UNCHANGED <<pc, cur, window, ownVars, excused, link, c2s, s2c, breaks, watcherVars>>

ResendMessage == /\ pc = "resend" /\ at <= Len(window)
                 /\ window[at].type = "storeSent" => Unchanged(window[at])
                 /\ Transmit(conn, RequestOf(window[at]))
                 /\ IF window[at].type = "storeSent"
                    THEN pc' = "resendData" /\ UNCHANGED at
                    ELSE at' = at + 1 /\ UNCHANGED pc
                 /\ UNCHANGED <<cur, window, ownVars, excused, link, s2c, breaks, outOfStep, watcherVars>>

ResendData == /\ pc = "resendData"
              /\ Exists(folder, window[at].path)
              /\ AttachData(window[at].path)
              /\ pc' = "resend" /\ at' = at + 1
              /\ UNCHANGED <<cur, window, ownVars, excused, link, s2c, breaks, outOfStep, watcherVars>>
-----------------------------------------------------------------------------
(* The loop: send the next event of the queue, receive the next reply.      *)
\* Mutant: canSend is not asked.
SendEventUnchecked == /\ pc = "loop" /\ queue # <<>>
                      /\ Transmit(conn, RequestOf(Head(queue)))
                      /\ window' = Append(window, Head(queue))
                      /\ queue' = Tail(queue)
                      /\ UNCHANGED <<positionVars, ownVars, excused, link, s2c, breaks, outOfStep, known, scan, folderVars>>

SendEvent == /\ pc = "loop" /\ queue # <<>> /\ Len(window) < WindowSize
             /\ Transmit(conn, RequestOf(Head(queue)))
             /\ window' = Append(window, Head(queue))
             /\ queue' = Tail(queue)
             /\ UNCHANGED <<positionVars, ownVars, excused, link, s2c, breaks, outOfStep, known, scan, folderVars>>

\* A reply is about the oldest message of the window.
Receiving(kinds) == /\ pc = "loop" /\ s2c[conn] # <<>> /\ window # <<>>
                    /\ Head(s2c[conn]).kind \in kinds
Consume == /\ s2c' = [s2c EXCEPT ![conn] = Tail(@)]
           /\ window' = Tail(window)
           /\ UNCHANGED <<link, c2s, breaks, outOfStep, conn, restarts, doubtful, watcherVars>>

Wanted(ev, re) == /\ ev.entry.type = "file" /\ ev.type \in {"created", "modified"}
                  /\ ev.path = re.path /\ ev.entry.hash = re.entry.hash

ReceiveSend ==
    /\ Receiving({"SEND"}) /\ Wanted(Head(window), Head(s2c[conn]).re)
    /\ Consume
    /\ IF Unchanged(Head(window))
       THEN /\ pc' = "store"
            /\ cur' = <<Event("storeSent", Head(window).path, Head(window).entry)>>
       ELSE UNCHANGED <<pc, cur>>
    /\ UNCHANGED <<at, clientDb, excused>>

\* "Error in the server message": communicate ends the program.
ReceiveUnwantedSend == /\ Receiving({"SEND"}) /\ ~Wanted(Head(window), Head(s2c[conn]).re)
                       /\ StopAll

\* insert, update (which needs a row) or remove
Confirmed(ev) ==
    CASE ev.type \in {"created", "storeSent"} -> [clientDb EXCEPT ![ev.path] = ev.entry]
      [] ev.type = "modified" /\ Exists(clientDb, ev.path) -> [clientDb EXCEPT ![ev.path] = ev.entry]
      [] ev.type = "deleted" -> [clientDb EXCEPT ![ev.path] = Absent]
      [] OTHER -> clientDb

ReceiveOk == /\ Receiving(OkCode)
             /\ Consume
             /\ clientDb' = Confirmed(Head(window))
             /\ UNCHANGED <<positionVars, excused>>

\* "It will be skipped"
ReceiveErr == /\ Receiving(ErrCode \ {"exception"})
              /\ Consume
              /\ excused' = excused \cup {Head(window).path}
              /\ UNCHANGED <<positionVars, clientDb>>

ReceiveException == Receiving({"exception"}) /\ StopAll

\* Mutant: the STOR is not put into the window.
SendStorUnrecorded == /\ pc = "store"
                      /\ Transmit(conn, RequestOf(cur[1]))
                      /\ pc' = "storeData" /\ cur' = <<>>
                      /\ UNCHANGED <<at, window, ownVars, excused, link, s2c, breaks, outOfStep, watcherVars>>

\* Mutant: the STOR takes the place of its probe at the head of the window.
SendStorFirst == /\ pc = "store"
                 /\ Transmit(conn, RequestOf(cur[1]))
                 /\ window' = cur \o window
                 /\ pc' = "storeData" /\ cur' = <<>>
                 /\ UNCHANGED <<at, ownVars, excused, link, s2c, breaks, outOfStep, watcherVars>>

SendStor == /\ pc = "store"
            /\ Transmit(conn, RequestOf(cur[1]))
            /\ window' = Append(window, cur[1])
            /\ pc' = "storeData" /\ cur' = <<>>
            /\ UNCHANGED <<at, ownVars, excused, link, s2c, breaks, outOfStep, watcherVars>>

SendData == /\ pc = "storeData"
            /\ Exists(folder, window[Len(window)].path)
            /\ AttachData(window[Len(window)].path)
            /\ pc' = "loop"
            /\ UNCHANGED <<at, cur, window, ownVars, excused, link, s2c, breaks, outOfStep, watcherVars>>

\* The file vanished after the check that precedes the STOR: _sendFile throws.
FileVanished == /\ \/ pc = "resendData" /\ ~Exists(folder, window[at].path)
                   \/ pc = "storeData" /\ ~Exists(folder, window[Len(window)].path)
                /\ StopAll

Communicate == \/ LoseConnection \/ Resent \/ SkipStale \/ ResendMessage \/ ResendData
               \/ SendEvent \/ ReceiveSend \/ ReceiveUnwantedSend \/ ReceiveOk \/ ReceiveErr
               \/ ReceiveException \/ SendStor \/ SendData \/ FileVanished \/ Disconnect
-----------------------------------------------------------------------------
Kill == pc # "down" /\ restarts < MaxRestarts /\ StopAll

\* Mutant: the watcher starts from what the folder holds now.
StartClientFromFolder ==
    /\ pc = "down" /\ restarts < MaxRestarts
    /\ pc' = "off" /\ restarts' = restarts + 1
    /\ known' = folder
    /\ scan' = Begin("recover", Listed(clientDb))
    /\ UNCHANGED <<at, cur, window, clientDb, conn, excused, doubtful, queue, folderVars, netVars>>

\* Mutant: what the database lists is not offered to the server again.
StartClientTrusting ==
    /\ pc = "down" /\ restarts < MaxRestarts
    /\ pc' = "off" /\ restarts' = restarts + 1
    /\ known' = clientDb
    /\ scan' = Begin("deleted", Listed(clientDb))
    /\ UNCHANGED <<at, cur, window, clientDb, conn, excused, doubtful, queue, folderVars, netVars>>

StartClient == /\ pc = "down" /\ restarts < MaxRestarts
               /\ pc' = "off" /\ restarts' = restarts + 1
               /\ known' = clientDb
               /\ scan' = Begin("recover", Listed(clientDb))
               /\ UNCHANGED <<at, cur, window, clientDb, conn, excused, doubtful, queue, folderVars, netVars>>

ClientTypeOK == /\ pc \in Place
                /\ at \in Nat
                /\ cur \in Seq(Events) /\ Len(cur) <= 1
                /\ window \in Seq(Events) /\ Len(window) <= WindowSize
                /\ clientDb \in Tree
                /\ conn \in Conn \cup {NoConn}
                /\ restarts \in 0 .. MaxRestarts
                /\ excused \subseteq Path
                /\ doubtful \subseteq Path
=============================================================================
