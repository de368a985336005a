------------------------------- MODULE Retrieval -------------------------------
(***************************************************************************)
(* Getting a backup back.  The client's main authenticates, asks for the   *)
(* elements of one or of all machines and puts what it receives into a     *)
(* destination folder (client/ProtocolManager.cpp:67, 484, 903, 1115); the *)
(* server collects the rows and then looks at the disk for one row after   *)
(* the other (server/ProtocolManager.cpp:145, 1184, 1341), while another   *)
(* thread may serve the session that backs up one of these machines.  That *)
(* session is here only what it does to disk and rows; ServerProtocol has  *)
(* the rest.  A STOR and its DATA are two messages; Upload has the chunks. *)
(***************************************************************************)
EXTENDS Accounts

CONSTANTS Now,          \* the time at which directories are made
          SizeOf,       \* the size of the file with a hash
          Width,        \* the bits of an int
          Busy,         \* the machine that is being backed up
          MaxEdits,     \* bound: the requests of that session
          Destinations, \* what the destination folder can hold at the beginning
          NoRow, NoSession

ASSUME RetrievalAssumption ==
    /\ Now \in Time /\ SizeOf \in [Hash -> Nat] /\ Width \in Nat \ {0}
    /\ Busy \in Mac /\ MaxEdits \in Nat
    /\ Destinations \subseteq [Mac -> Tree]
    /\ \A x \in Destinations, m \in Mac : WellFormed(x[m])

VARIABLES phase,     \* the client: "idle", "auth", "receiving", "storing", "done", "failed"
          tried,     \* its password
          wanted,    \* the machines it asks for
          dest,      \* <destination>/<username>_<mac>
          request,   \* the request on its way: "none", "AUTH", "RETR"
          down,      \* the messages on their way to the client
          link,      \* "open", "lost", "closed" by the server
          sess,      \* the server: "none", "auth", "ready", "look", "examine", "open",
                     \* "forget": a row is about to be removed
          toSend,    \* the rows still to be looked at
          collected, \* history: all of them
          mine,      \* the paths in the other session's elements, or NoSession
          pending,   \* what that session still has to do in the table
          edits,     \* counts its requests, up to MaxEdits
          touched    \* history: what it changed since the rows were collected

clientVars == <<phase, tried, wanted, dest>>
netVars == <<request, down, link>>
sendVars == <<sess, toSend, collected>>
otherVars == <<mine, pending, edits, touched>>
vars == <<accountVars, clientVars, netVars, sendVars, otherVars>>

MacRow == [mac : Mac, path : Path, entry : Entry]
Msg(type, row) == [type |-> type, row |-> row]
Messages == [type : {"MKD", "STOR", "DATA"}, row : MacRow] \cup [type : {"OK", "ERR"}, row : {NoRow}]

\* sqlite3_column_int: the low 32 bits, signed; what was bound has 64.
ReadBack(n) == LET low == n % 2 ^ Width IN IF low < 2 ^ (Width - 1) THEN low ELSE low - 2 ^ Width
Keeps(hash) == ReadBack(SizeOf[hash]) = SizeOf[hash]

Init == /\ AccountsInit
        /\ phase = "idle" /\ tried \in Password /\ wanted = {} /\ dest \in Destinations
        /\ request = "none" /\ down = <<>> /\ link = "open"
        /\ sess = "none" /\ toSend = <<>> /\ collected = <<>>
        /\ mine = NoSession /\ pending = NoRow /\ edits = 0 /\ touched = {}
-----------------------------------------------------------------------------
(* The client.                                                              *)

\* Connect, and send AUTH; a thread of the server takes the connection.
Authenticate == /\ phase = "idle" /\ program = "serving"
                /\ phase' = "auth" /\ request' = "AUTH" /\ sess' = "auth"
                /\ wanted' \in SUBSET Mac \ {{}}
                /\ UNCHANGED <<accountVars, tried, dest, down, link, toSend, collected, otherVars>>

Receives(type) == down # <<>> /\ Head(down).type = type /\ down' = Tail(down)

RetrieveFiles == /\ phase = "auth" /\ Receives("OK")
                 /\ phase' = "receiving" /\ request' = "RETR"
                 /\ UNCHANGED <<accountVars, tried, wanted, dest, link, sendVars, otherVars>>

\* Mutant: the parent directory is expected to be there.
WithoutParent(tree, p) == tree

\* The directories above p are there, or create_directories makes them.
WithParent(tree, p) == IF \A q \in Parent(p) : Exists(tree, q)
                       THEN tree ELSE CreateDirectories(tree, Ancestors[p], Now)

\* Mutant: the time of a directory that was there already is left as it is.
MadeOnly(tree, p, t) ==
    IF Exists(tree, p) THEN tree
    ELSE KeepParentTime(tree, [CreateDirectories(tree, Ancestors[p] \cup {p}, Now) EXCEPT ![p] = Dir(t)], p)

\* The parent's time is set again if the parent was there.
Made(tree, p, t) ==
    LET made == IF Exists(tree, p) THEN tree
                ELSE CreateDirectories(tree, Ancestors[p] \cup {p}, Now)
    IN  KeepParentTime(tree, [made EXCEPT ![p] = Dir(t)], p)

\* Mutant: it is an error that the directory is there already.
MakeableAnew(tree, p) == Reachable(tree, p) /\ ~Exists(tree, p)

\* create_directories fails below a file.
Makeable(tree, p) == Reachable(tree, p) /\ ~IsFile(tree, p)

\* _makeDir
MakeDir == /\ phase = "receiving" /\ Receives("MKD")
           /\ LET row == Head(down).row
                  tree == dest[row.mac]
              IN  IF Makeable(tree, row.path)
                  THEN /\ dest' = [dest EXCEPT ![row.mac] = Made(tree, row.path, row.entry.lwt)]
                       /\ UNCHANGED phase
                  ELSE phase' = "failed" /\ UNCHANGED dest
           /\ UNCHANGED <<accountVars, tried, wanted, request, link, sendVars, otherVars>>

\* _storeFile, up to the first recvString of its loop
StoreFile == /\ phase = "receiving" /\ down # <<>> /\ Head(down).type = "STOR"
             /\ phase' = "storing"
             /\ UNCHANGED <<accountVars, tried, wanted, dest, netVars, sendVars, otherVars>>

\* The size of the STOR is the one that was read from the table.
AsExpected(row, data) == /\ data.entry.hash = row.entry.hash
                         /\ Keeps(row.entry.hash)

\* The rest of _storeFile.  The file's place may be below a file, or taken by a directory.
StoreData == /\ phase = "storing" /\ Len(down) > 1 /\ down[2].type = "DATA"
             /\ down' = Tail(Tail(down))
             /\ LET row == down[1].row
                    tree == dest[row.mac]
                IN  IF AsExpected(row, down[2].row) /\ Reachable(tree, row.path) /\ ~IsDir(tree, row.path)
                    THEN /\ dest' = [dest EXCEPT ![row.mac] =
                                        [WithParent(tree, row.path) EXCEPT ![row.path] = row.entry]]
                         /\ phase' = "receiving"
                    ELSE phase' = "failed" /\ UNCHANGED dest
             /\ UNCHANGED <<accountVars, tried, wanted, request, link, sendVars, otherVars>>

Retrieved == /\ phase = "receiving" /\ Receives("OK")
             /\ phase' = "done"
             /\ UNCHANGED <<accountVars, tried, wanted, dest, request, link, sendVars, otherVars>>

Active == phase \in {"auth", "receiving", "storing"}

\* An ERR, also instead of a DATA, or the end of the connection.
Fails == /\ Active
         /\ \/ link = "lost"
            \/ link = "closed" /\ Len(down) <= (IF phase = "storing" THEN 1 ELSE 0)
            \/ \E i \in DOMAIN down : down[i].type = "ERR" /\ i = (IF phase = "storing" THEN 2 ELSE 1)
         /\ phase' = "failed" /\ down' = <<>>
         /\ UNCHANGED <<accountVars, tried, wanted, dest, request, link, sendVars, otherVars>>

Client == RetrieveFiles \/ MakeDir \/ StoreFile \/ StoreData \/ Retrieved \/ Fails
-----------------------------------------------------------------------------
(* The server's thread that serves this client.                             *)

\* What is written on a lost connection goes nowhere.
Sends(messages) == down' = IF link = "lost" THEN down ELSE down \o messages
Closes == link' = IF link = "lost" THEN "lost" ELSE "closed"

\* authenticate: the hash of an unknown user equals no hash.
CheckPassword == /\ sess = "auth" /\ request = "AUTH"
                 /\ request' = "none"
                 /\ \/ /\ tried = password
                       /\ Sends(<<Msg("OK", NoRow)>>) /\ sess' = "ready"
                       /\ UNCHANGED link
                    \/ /\ tried # password
                       /\ Sends(<<Msg("ERR", NoRow)>>) /\ sess' = "none" /\ Closes
                 /\ UNCHANGED <<accountVars, clientVars, toSend, collected, otherVars>>

\* _retrieveUserData: forAll of each of the machines.
Collect == /\ sess = "ready" /\ request = "RETR"
           /\ request' = "none" /\ sess' = "look"
           /\ toSend' = FlattenSeq([i \in 1 .. Cardinality(wanted) |->
                           LET m == SetToSeq(wanted)[i]
                           IN  [j \in DOMAIN table[m] |->
                                  [mac |-> m, path |-> table[m][j].path, entry |-> table[m][j].entry]]])
           /\ collected' = toSend'
           /\ touched' = {}
           /\ UNCHANGED <<accountVars, clientVars, down, link, mine, pending, edits>>

Current == Head(toSend)
OnDisk == backup[Current.mac]
Unchanged == UNCHANGED <<accountVars, clientVars, request, link, collected, otherVars>>

\* The type is that of the row; the disk only has to have something there.
LookAt == /\ sess = "look" /\ toSend # <<>>
          /\ \/ /\ ~Exists(OnDisk, Current.path)
                /\ sess' = "forget" /\ UNCHANGED <<toSend, down>>
             \/ /\ Exists(OnDisk, Current.path) /\ Current.entry.type = "directory"
                /\ Sends(<<Msg("MKD", Current)>>)
                /\ toSend' = Tail(toSend) /\ UNCHANGED sess
             \/ /\ Exists(OnDisk, Current.path) /\ Current.entry.type = "file"
                /\ sess' = "examine" /\ UNCHANGED <<toSend, down>>
          /\ Unchanged

\* _sendFile: the file on the disk is the one of the row.
Examine == /\ sess = "examine" /\ Exists(OnDisk, Current.path)
           /\ IF OnDisk[Current.path].hash = Current.entry.hash
              THEN Sends(<<Msg("STOR", Current)>>) /\ sess' = "open"
              ELSE sess' = "forget" /\ UNCHANGED down
           /\ UNCHANGED toSend /\ Unchanged

\* _sendFile: whatever is opened there now is sent.
OpenAndSend == /\ sess = "open" /\ Exists(OnDisk, Current.path)
               /\ Sends(<<Msg("DATA", [Current EXCEPT !.entry = OnDisk[Current.path]])>>)
               /\ sess' = "look" /\ toSend' = Tail(toSend)
               /\ Unchanged

\* Mutant: nothing is removed.
WithAllRows(rows, p) == rows

\* The rows whose path is in Q, in their order.
RowsWith(rows, Q) ==
    FlattenSeq([i \in DOMAIN rows |-> IF rows[i].path \in Q THEN <<rows[i]>> ELSE <<>>])

WithoutRow(rows, p) == RowsWith(rows, Path \ {p})

\* _db->remove: the row was removed or modified offline.
Forget == /\ sess = "forget"
          /\ table' = [table EXCEPT ![Current.mac] = WithoutRow(@, Current.path)]
          /\ sess' = "look" /\ toSend' = Tail(toSend)
          /\ UNCHANGED <<programVars, backup>>
          /\ UNCHANGED <<clientVars, netVars, collected, otherVars>>

\* Mutant: the OK is not sent.
EndSilently == /\ sess = "look" /\ toSend = <<>>
               /\ sess' = "ready"
               /\ UNCHANGED <<toSend, down>> /\ Unchanged

EndOfData == /\ sess = "look" /\ toSend = <<>>
             /\ Sends(<<Msg("OK", NoRow)>>) /\ sess' = "ready"
             /\ UNCHANGED toSend /\ Unchanged

\* The file is gone between two looks at it: the exception ends the whole program,
\* after an ERR (Directory_entry throws) or without one (the file does not open).
Vanished == /\ sess \in {"examine", "open"} /\ ~Exists(OnDisk, Current.path)
            /\ IF sess = "examine" THEN Sends(<<Msg("ERR", NoRow)>>) ELSE UNCHANGED down
            /\ Closes
            /\ program' = "off" /\ sess' = "none" /\ mine' = NoSession /\ pending' = NoRow
            /\ UNCHANGED <<todo, macs, password, table, backup, starts, crashes, named, interrupted>>
            /\ UNCHANGED <<clientVars, request, toSend, collected, edits, touched>>

\* The connection is closed or lost.
Leave == /\ sess # "none" /\ (link = "lost" \/ phase \in {"done", "failed"})
         /\ sess' = "none"
         /\ UNCHANGED <<toSend, down>> /\ Unchanged

Server == CheckPassword \/ Collect \/ LookAt \/ Examine \/ OpenAndSend \/ Forget
             \/ EndOfData \/ Vanished \/ Leave
-----------------------------------------------------------------------------
(* The session that backs up Busy.                                          *)

Changed(p) == touched' = touched \cup {<<Busy, p>>}

\* recoverFromDB: rows of missing elements go, rows of modified ones are updated.
Recover == /\ program = "serving" /\ password # NoPassword /\ mine = NoSession
           /\ LET tree == backup[Busy]
                  there == RowsWith(table[Busy], Listed(tree))
              IN  /\ table' = [table EXCEPT ![Busy] =
                         [i \in DOMAIN there |-> [path |-> there[i].path, entry |-> tree[there[i].path]]]]
                  /\ mine' = {there[i].path : i \in DOMAIN there}
                  /\ touched' = touched \cup {<<Busy, table[Busy][i].path>> : i \in
                         {j \in DOMAIN table[Busy] : table[Busy][j].entry # tree[table[Busy][j].path]}}
           /\ UNCHANGED <<programVars, backup>>
           /\ UNCHANGED <<clientVars, netVars, sendVars, pending, edits>>

\* _storeFile of that session, up to the rename of the temporary file.
OtherStores == /\ mine # NoSession /\ pending = NoRow /\ edits < MaxEdits
               /\ \E p \in Path, h \in Hash :
                     /\ \A q \in Ancestors[p] : IsDir(backup[Busy], q)
                     /\ ~IsDir(backup[Busy], p)
                     /\ backup' = [backup EXCEPT ![Busy][p] = File(h, Now)]
                     /\ pending' = [path |-> p, entry |-> File(h, Now)]
                     /\ Changed(p)
               /\ edits' = edits + 1
               /\ UNCHANGED <<programVars, table>>
               /\ UNCHANGED <<clientVars, netVars, sendVars, mine>>

\* _removeFile, up to the removal of the file.
OtherRemoves == /\ mine # NoSession /\ pending = NoRow /\ edits < MaxEdits
                /\ \E p \in mine :
                      /\ IsFile(backup[Busy], p)
                      /\ backup' = [backup EXCEPT ![Busy][p] = Absent]
                      /\ pending' = [path |-> p, entry |-> Absent]
                      /\ Changed(p)
                /\ edits' = edits + 1
                /\ UNCHANGED <<programVars, table>>
                /\ UNCHANGED <<clientVars, netVars, sendVars, mine>>

\* The rest of these handlers: insert, if the path is not in its elements, update or remove.
OtherRows == /\ mine # NoSession /\ pending # NoRow
             /\ LET p == pending.path
                    rows == table[Busy]
                IN  /\ table' = [table EXCEPT ![Busy] =
                          IF pending.entry = Absent THEN WithoutRow(rows, p)
                          ELSE IF p \in mine
                          THEN [i \in DOMAIN rows |-> IF rows[i].path = p
                                   THEN [path |-> p, entry |-> pending.entry] ELSE rows[i]]
                          ELSE Append(rows, [path |-> p, entry |-> pending.entry])]
                    /\ mine' = IF pending.entry = Absent THEN mine \ {p} ELSE mine \cup {p}
                    /\ Changed(p)
             /\ pending' = NoRow
             /\ UNCHANGED <<programVars, backup>>
             /\ UNCHANGED <<clientVars, netVars, sendVars, edits>>

Other == Recover \/ OtherStores \/ OtherRemoves \/ OtherRows
-----------------------------------------------------------------------------
(* Failures, and the administration, which precedes the retrieval.          *)

Lose == /\ Active /\ link = "open" /\ link' = "lost" /\ down' = <<>>
        /\ UNCHANGED <<accountVars, clientVars, request, sendVars, otherVars>>

Killed == /\ Kill
          /\ sess' = "none" /\ mine' = NoSession /\ pending' = NoRow
          /\ link' = IF phase = "idle" THEN link ELSE "lost"
          /\ UNCHANGED <<clientVars, request, down, toSend, collected, edits, touched>>

Administers == /\ phase = "idle" /\ Administration
               /\ UNCHANGED <<clientVars, netVars, sendVars, otherVars>>

Next == Authenticate \/ Client \/ Server \/ Other \/ Lose \/ Killed \/ Administers

\* The client goes on when it can, and so does the thread that serves it.
Spec == Init /\ [][Next]_vars /\ WF_vars(Client) /\ WF_vars(Server)
-----------------------------------------------------------------------------
TypeOK == /\ AccountsTypeOK
          /\ phase \in {"idle", "auth", "receiving", "storing", "done", "failed"}
          /\ tried \in Password /\ wanted \subseteq Mac
          /\ dest \in [Mac -> Tree] /\ \A m \in Mac : WellFormed(dest[m])
          /\ request \in {"none", "AUTH", "RETR"}
          /\ down \in Seq(Messages) /\ link \in {"open", "lost", "closed"}
          /\ sess \in {"none", "auth", "ready", "look", "examine", "open", "forget"}
          /\ toSend \in Seq(MacRow) /\ collected \in Seq(MacRow)
          /\ mine = NoSession \/ mine \subseteq Path
          /\ pending = NoRow \/ pending \in [path : Path, entry : Entry \cup {Absent}]
          /\ edits \in 0 .. MaxEdits /\ touched \subseteq Mac \X Path

\* The disk still has what the row describes.
Matches(row) == /\ Exists(backup[row.mac], row.path)
                /\ row.entry.type = "file" => backup[row.mac][row.path].hash = row.entry.hash

Untouched(row) == <<row.mac, row.path>> \notin touched

\* No row after i makes directories below it that have rows of their own later, or none.
ParentsFirst(i) ==
    \A j \in i + 1 .. Len(collected) :
        collected[j].mac = collected[i].mac /\ collected[i].path \in Ancestors[collected[j].path]
          => \A q \in Ancestors[collected[j].path] :
                \E k \in 1 .. j - 1 : /\ collected[k].mac = collected[j].mac /\ collected[k].path = q
                                      /\ collected[k].entry.type = "directory"

\* After "Saved all your data": each element whose backup is as the table says, and
\* was left alone meanwhile, is in the destination folder, a file with its content
\* and last write time, a directory with its last write time if the rows of
\* directories came before those of what is in them.
RetrievedIsBackup ==
    phase = "done" =>
        \A i \in DOMAIN collected :
            LET row == collected[i]
            IN  Matches(row) /\ Untouched(row) =>
                    IF row.entry.type = "directory" /\ ~ParentsFirst(i)
                    THEN IsDir(dest[row.mac], row.path)
                    ELSE dest[row.mac][row.path] = row.entry

\* Something in the destination folder is in the way of the row's element.
Obstructed(row) == LET tree == dest[row.mac]
                   IN  \/ ~Reachable(tree, row.path)
                       \/ row.entry.type = "file" /\ IsDir(tree, row.path)
                       \/ row.entry.type = "directory" /\ IsFile(tree, row.path)

\* A retrieval fails only for a cause that is not the programs' own: the password, the
\* destination folder, the network, a crash, a change of one of its elements; or
\* because the size of a file does not fit into the int it is read into.
FailsOnlyForCause ==
    phase = "failed" =>
        \/ tried # password
        \/ link = "lost"
        \/ \E i \in DOMAIN collected : \/ ~Untouched(collected[i])
                                       \/ Obstructed(collected[i])
                                       \/ /\ collected[i].entry.type = "file"
                                          /\ ~Keeps(collected[i].entry.hash)

\* A retrieval forgets the rows whose element was removed or modified offline, and no
\* others: the next session of that machine stores again what they described.
ForgetsStaleRows ==
    phase = "done" =>
        \A i \in DOMAIN collected :
            LET row == collected[i]
            IN  Untouched(row) =>
                    (Matches(row) <=> \E j \in DOMAIN table[row.mac] : table[row.mac][j].path = row.path)

\* A retrieval ends, with success or without.
RetrievalEnds == phase = "auth" ~> phase \in {"done", "failed"}
=============================================================================
