--------------------------- MODULE ServerProtocol ---------------------------
(***************************************************************************)
(* The server for one user and machine: the threads of server/main.cpp,    *)
(* each with the ProtocolManager of its connection, over one backup folder *)
(* and one table of the database.  A handler is one step.                  *)
(***************************************************************************)
EXTENDS Network

CONSTANTS StartTree,   \* what is backed up at the start
          Unacceptable,\* paths that Validator::validatePath does not let through
          MaxCrashes   \* bound: how often the server is killed

ASSUME ServerAssumption == /\ StartTree \in Tree /\ WellFormed(StartTree)
                           /\ MaxCrashes \in Nat

VARIABLES serverUp,
          disk,       \* the user's backup folder
          rows,       \* the rows of each path: nothing makes a path unique in the table
          recovered,  \* _recovered of each thread's ProtocolManager
          elements,   \* _elements of each thread's ProtocolManager
          crashes     \* counts the kills, up to MaxCrashes

storeVars == <<disk, rows>>
sessionVars == <<recovered, elements>>
serverVars == <<serverUp, storeVars, sessionVars, crashes>>

ServerInit == /\ serverUp = TRUE
              /\ disk = StartTree
              /\ rows = [p \in Path |-> IF Exists(StartTree, p) THEN <<StartTree[p]>> ELSE <<>>]
              /\ recovered = [c \in Conn |-> FALSE]
              /\ elements = [c \in Conn |-> NoTree]
              /\ crashes = 0
-----------------------------------------------------------------------------
(* The table (server/Database.cpp).                                         *)
Inserted(p, e) == [rows EXCEPT ![p] = Append(@, e)]
Updated(p, e) == [rows EXCEPT ![p] = [i \in DOMAIN @ |-> e]]
Deleted(Q) == [p \in Path |-> IF p \in Q THEN <<>> ELSE rows[p]]

\* A thread takes a connection and authenticates its client.
Accept(c) == /\ serverUp /\ link[c] = "none"
             /\ link' = [link EXCEPT ![c] = "open"]
             /\ recovered' = [recovered EXCEPT ![c] = FALSE]
             /\ elements' = [elements EXCEPT ![c] = NoTree]

\* The thread notices that the client is gone and takes another connection.
EndSession(c) == /\ serverUp /\ link[c] = "broken"
                 /\ link' = [link EXCEPT ![c] = "none"]
                 /\ c2s' = [c2s EXCEPT ![c] = <<>>]
                 /\ UNCHANGED <<s2c, breaks, outOfStep, serverVars>>

\* The thread received message r and its handler sends the reply.  On a broken
\* connection the reply reaches nobody.
Handling(c, op) == /\ serverUp /\ c2s[c] # <<>> /\ recovered[c]
                   /\ Head(c2s[c]).op = op
                   /\ Head(c2s[c]).path \notin Unacceptable

Answer(c, kind) ==
    /\ c2s' = [c2s EXCEPT ![c] = Tail(@)]
    /\ s2c' = IF link[c] = "open"
              THEN [s2c EXCEPT ![c] = Append(@, [kind |-> kind, re |-> Head(c2s[c])])]
              ELSE s2c
    /\ UNCHANGED <<link, breaks, outOfStep, serverUp, recovered, crashes>>

JustAnswer(c, kind) == Answer(c, kind) /\ UNCHANGED <<storeVars, elements>>

\* Any other exception: the client is told and the server stops.
Fail(c) == /\ c2s' = [d \in Conn |-> <<>>]
           /\ s2c' = IF link[c] = "open"
                     THEN [s2c EXCEPT ![c] = Append(@, [kind |-> "exception", re |-> Head(c2s[c])])]
                     ELSE s2c
           /\ link' = [d \in Conn |-> IF link[d] = "open" THEN "broken" ELSE link[d]]
           /\ serverUp' = FALSE
           /\ UNCHANGED <<breaks, outOfStep, storeVars, sessionVars, crashes>>

\* Mutant: rows without an element on disk stay in the table.
RecoverFromDBKeepingRows(c) ==
    /\ serverUp /\ c2s[c] # <<>> /\ ~recovered[c]
    /\ rows' = [p \in Path |-> IF Exists(disk, p) THEN [i \in DOMAIN rows[p] |-> disk[p]] ELSE rows[p]]
    /\ elements' = [elements EXCEPT ![c] = [p \in Path |-> IF rows[p] = <<>> THEN Absent ELSE disk[p]]]
    /\ recovered' = [recovered EXCEPT ![c] = TRUE]
    /\ UNCHANGED <<netVars, serverUp, disk, crashes>>

\* recoverFromDB, at the first request of a session: rows without an element on
\* disk go, the others take its attributes.
RecoverFromDB(c) ==
    /\ serverUp /\ c2s[c] # <<>> /\ ~recovered[c]
    /\ rows' = [p \in Path |-> IF Exists(disk, p) THEN [i \in DOMAIN rows[p] |-> disk[p]] ELSE <<>>]
    /\ elements' = [elements EXCEPT ![c] = [p \in Path |-> IF rows[p] = <<>> THEN Absent ELSE disk[p]]]
    /\ recovered' = [recovered EXCEPT ![c] = TRUE]
    /\ UNCHANGED <<netVars, serverUp, disk, crashes>>

\* A message whose path does not pass the validation is skipped without a reply.  For a
\* file that is its PROB; no SEND names that path then, and receive() takes a SEND for no
\* other, so no STOR of it is ever sent.
Reject(c) == /\ serverUp /\ c2s[c] # <<>> /\ recovered[c]
             /\ Head(c2s[c]).path \in Unacceptable
             /\ Head(c2s[c]).op # "STOR"
             /\ c2s' = [c2s EXCEPT ![c] = Tail(@)]
             /\ outOfStep' = TRUE
             /\ UNCHANGED <<link, s2c, breaks, serverVars>>
-----------------------------------------------------------------------------
(* The handlers.  el is what the session believes of the path, disk[p] what *)
(* exists() and the system calls find.                                      *)
Probe(c) ==
    /\ Handling(c, "PROB")
    /\ LET p == Head(c2s[c]).path
           e == Head(c2s[c]).entry
           el == elements[c][p]
       IN  \/ /\ el = Absent
              /\ JustAnswer(c, "SEND")
           \/ /\ IsDir(elements[c], p)
              /\ JustAnswer(c, "notAFile")
           \/ /\ IsFile(elements[c], p) /\ el.hash # e.hash
              /\ JustAnswer(c, "SEND")
           \/ /\ IsFile(elements[c], p) /\ el = e
              /\ JustAnswer(c, "found")
           \/ /\ IsFile(elements[c], p) /\ el.hash = e.hash /\ el.lwt # e.lwt
              /\ IF Exists(disk, p)
                 THEN /\ disk' = [disk EXCEPT ![p].lwt = e.lwt]
                      /\ elements' = [elements EXCEPT ![c][p] = e]
                      /\ UNCHANGED rows
                      /\ Answer(c, "found")
                 ELSE Fail(c)

\* Mutant: always a new row.
RecordAlwaysNew(c, p, e) ==
    /\ rows' = Inserted(p, e)
    /\ elements' = [elements EXCEPT ![c][p] = e]

\* Where a session finds a new element: in a row of its own if it knew none.
Record(c, p, e) ==
    /\ rows' = IF Exists(elements[c], p) THEN Updated(p, e) ELSE Inserted(p, e)
    /\ elements' = [elements EXCEPT ![c][p] = e]

Forget(c, Q) == /\ rows' = Deleted(Q)
                /\ elements' = [elements EXCEPT ![c] = [q \in Path |->
                                    IF q \in Q THEN Absent ELSE elements[c][q]]]

\* The file is complete in the temporary folder: make its parents, rename it,
\* set the parent's time again.
WithParents(p, t) == IF \A q \in Parent(p) : Exists(disk, q) THEN disk
                     ELSE CreateDirectories(disk, Ancestors[p], t)
\* Mutant: the time of the parent is not set again.
StoredTouching(p, e, t) == Touch([WithParents(p, t) EXCEPT ![p] = e], Parent(p), t)

Stored(p, e, t) == [WithParents(p, t) EXCEPT ![p] = e]

StoreFile(c) ==
    /\ Handling(c, "STOR") /\ Head(c2s[c]).data # NoData
    /\ LET p == Head(c2s[c]).path
           e == Head(c2s[c]).entry
       IN  \/ /\ Head(c2s[c]).data # e.hash
              /\ JustAnswer(c, "store")
           \/ /\ Head(c2s[c]).data = e.hash
              /\ Reachable(disk, p) /\ ~IsDir(disk, p)
              /\ \E t \in Time : disk' = Stored(p, e, t)
              /\ Record(c, p, e)
              /\ Answer(c, "created")
           \/ /\ Head(c2s[c]).data = e.hash
              /\ ~Reachable(disk, p) \/ IsDir(disk, p)
              /\ Fail(c)

\* Mutant: what is not there needs no removal and gets no reply.
NothingThereSilently(c, p) ==
    /\ ~Exists(elements[c], p)
    /\ c2s' = [c2s EXCEPT ![c] = Tail(@)]
    /\ UNCHANGED <<link, s2c, breaks, outOfStep, serverVars>>

\* DELE and RMD of what the session does not know, or of what is not on disk.
NothingThere(c, p) ==
    \/ /\ ~Exists(elements[c], p)
       /\ JustAnswer(c, "notThere")
    \/ /\ Exists(elements[c], p) /\ ~Exists(disk, p)
       /\ Forget(c, {p})
       /\ Answer(c, "notThere")
       /\ UNCHANGED disk

RemoveFile(c) ==
    /\ Handling(c, "DELE")
    /\ LET p == Head(c2s[c]).path
           e == Head(c2s[c]).entry
           known == Exists(elements[c], p) /\ Exists(disk, p)
           same == IsFile(elements[c], p) /\ elements[c][p].hash = e.hash
           empty == \A q \in Below(p) : ~Exists(disk, q)
       IN  \/ NothingThere(c, p)
           \/ /\ known /\ ~same
              /\ JustAnswer(c, "remove")
           \/ /\ known /\ same /\ empty
              /\ disk' = [disk EXCEPT ![p] = Absent]
              /\ Forget(c, {p})
              /\ Answer(c, "removed")
           \/ /\ known /\ same /\ ~empty
              /\ Fail(c)

\* create_directories up to the path, then the times of the directory and, if it
\* was there before, of its parent.
Made(p, t) == IF Exists(disk, p) THEN disk ELSE CreateDirectories(disk, Ancestors[p] \cup {p}, t)
\* Mutant: a directory that is there keeps the time it has.
MadeDirOnce(p, e, t) == IF Exists(disk, p) THEN disk
                        ELSE [KeepParentTime(disk, Made(p, t), p) EXCEPT ![p] = e]

MadeDir(p, e, t) == [KeepParentTime(disk, Made(p, t), p) EXCEPT ![p] = e]

MakeDir(c) ==
    /\ Handling(c, "MKD")
    /\ LET p == Head(c2s[c]).path
           e == Head(c2s[c]).entry
           upToDate == Exists(elements[c], p) /\ Exists(disk, p) /\ elements[c][p].lwt = e.lwt
       IN  \/ /\ upToDate
              /\ JustAnswer(c, "created")
           \/ /\ ~upToDate /\ IsFile(disk, p)
              /\ JustAnswer(c, "notADir")
           \/ /\ ~upToDate /\ ~IsFile(disk, p) /\ Reachable(disk, p)
              /\ \E t \in Time : disk' = MadeDir(p, e, t)
              /\ Record(c, p, e)
              /\ Answer(c, "created")
           \/ /\ ~Reachable(disk, p)
              /\ Fail(c)

\* Mutant: what the directory contained is not forgotten.
RemoveDirOnly(c) ==
    /\ Handling(c, "RMD")
    /\ LET p == Head(c2s[c]).path
       IN  \/ NothingThere(c, p)
           \/ /\ IsDir(elements[c], p) /\ IsDir(disk, p)
              /\ disk' = RemoveAll(disk, p)
              /\ Forget(c, {p})
              /\ Answer(c, "removed")

RemoveDir(c) ==
    /\ Handling(c, "RMD")
    /\ LET p == Head(c2s[c]).path
           known == Exists(elements[c], p) /\ Exists(disk, p)
       IN  \/ NothingThere(c, p)
           \/ /\ known /\ ~IsDir(elements[c], p)
              /\ JustAnswer(c, "notADir")
           \/ /\ known /\ IsDir(elements[c], p) /\ IsDir(disk, p)
              /\ disk' = RemoveAll(disk, p)
              /\ Forget(c, {p} \cup (Below(p) \cap Listed(disk)))
              /\ Answer(c, "removed")
           \/ /\ known /\ IsDir(elements[c], p) /\ ~IsDir(disk, p)
              /\ Fail(c)

Serve(c) == \/ RecoverFromDB(c) \/ Reject(c) \/ EndSession(c)
            \/ Probe(c) \/ StoreFile(c) \/ RemoveFile(c) \/ MakeDir(c) \/ RemoveDir(c)
-----------------------------------------------------------------------------
(* The server is killed: folder and table stay, sessions and what the       *)
(* client sent go, and a part of the replies arrives.                       *)
Halt == /\ serverUp /\ crashes < MaxCrashes
        /\ serverUp' = FALSE
        /\ crashes' = crashes + 1
        /\ link' = [c \in Conn |-> IF link[c] = "open" THEN "broken" ELSE link[c]]
        /\ c2s' = [c \in Conn |-> <<>>]
        /\ UNCHANGED <<breaks, outOfStep, rows, sessionVars>>

Crash == Halt /\ UNCHANGED <<s2c, disk>>

\* The elements of R are gone.
Without(R, t) ==
    Touch([q \in Path |-> IF q \in R THEN Absent ELSE disk[q]], UNION {Parent(r) : r \in R}, t)

\* ... in the middle of a handler: the folder was changed, in part or entirely, the
\* table was not, and the time of the parent was perhaps not set again.
CrashInHandler(c) ==
    /\ Halt
    /\ UNCHANGED s2c
    /\ \E t \in Time, op \in {"STOR", "DELE", "MKD", "RMD"} :
          /\ Handling(c, op)
          /\ LET p == Head(c2s[c]).path
                 e == Head(c2s[c]).entry
                 known == Exists(elements[c], p) /\ Exists(disk, p)
             IN  \/ /\ op = "STOR" /\ Head(c2s[c]).data = e.hash
                    /\ Reachable(disk, p) /\ ~IsDir(disk, p)
                    /\ \/ \E a \in Ancestors[p] : disk' = Made(a, t)
                       \/ disk' \in {Stored(p, e, t), Touch(Stored(p, e, t), Parent(p), t)}
                 \/ /\ op = "DELE" /\ known
                    /\ IsFile(elements[c], p) /\ elements[c][p].hash = e.hash
                    /\ \A q \in Below(p) : ~Exists(disk, q)
                    /\ disk' = Without({p}, t)
                 \/ /\ op = "MKD" /\ Reachable(disk, p) /\ ~IsFile(disk, p)
                    /\ known => elements[c][p].lwt # e.lwt
                    /\ \/ \E a \in Ancestors[p] \cup {p} : disk' = Made(a, t)
                       \/ disk' \in {[Made(p, t) EXCEPT ![p] = e], MadeDir(p, e, t)}
                 \/ /\ op = "RMD" /\ IsDir(elements[c], p) /\ IsDir(disk, p)
                    /\ \E R \in SUBSET ({p} \cup (Below(p) \cap Listed(disk))) :
                          /\ \A r \in R : Below(r) \cap Listed(disk) \subseteq R
                          /\ disk' = Without(R, t)

Restart == /\ ~serverUp
           /\ serverUp' = TRUE
           /\ link' = [c \in Conn |-> "none"]
           /\ UNCHANGED <<c2s, s2c, breaks, outOfStep, storeVars, sessionVars, crashes>>

ServerTypeOK ==
    /\ serverUp \in BOOLEAN
    /\ disk \in Tree /\ WellFormed(disk)
    /\ rows \in [Path -> Seq(Entry)]
    /\ recovered \in [Conn -> BOOLEAN]
    /\ elements \in [Conn -> Tree]
    /\ crashes \in 0 .. MaxCrashes
=============================================================================
