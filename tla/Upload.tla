-------------------------------- MODULE Upload --------------------------------
(***************************************************************************)
(* The transfer of a file in chunks, over a connection with finite         *)
(* buffers.  ClientProtocol and ServerProtocol take a STOR and its DATA    *)
(* for one message that is sent and received in one step; here the client  *)
(* reads the file chunk by chunk (client/ProtocolManager.cpp:816) while    *)
(* its user goes on writing it, the server collects the chunks in a        *)
(* temporary file (server/ProtocolManager.cpp:552), and both programs wait *)
(* wherever a socket lets them wait.  One file, one session: what the      *)
(* client does after a lost connection is in BackupSystem.                 *)
(***************************************************************************)
EXTENDS Naturals, Sequences

CONSTANTS Block,       \* what a file is made of
          Version,     \* the contents the file can have
          None,        \* no such file
          Window,      \* max_response_waiting
          ChunkSizes,  \* the values of max_data_chunk_size, in blocks
          Record,      \* the blocks that a TLS record holds
          UpRoom,      \* the parts of requests that the sockets' buffers hold
          DownRoom     \* the parts of replies

\* The buffers hold the replies to a full window, each with its length.
ASSUME UploadAssumption ==
    /\ Version \subseteq Seq(Block) /\ None \notin Seq(Block)
    /\ Window \in Nat \ {0} /\ ChunkSizes \subseteq Nat \ {0}
    /\ Record \in Nat \ {0} /\ UpRoom \in Nat \ {0}
    /\ DownRoom \in Nat /\ DownRoom >= 2 * Window

Request == [type : {"PROB", "STOR", "DATA"}, content : Seq(Block), last : BOOLEAN, size : Nat \ {0}]
Prob(v) == [type |-> "PROB", content |-> v, last |-> FALSE, size |-> 1]
Stor(v) == [type |-> "STOR", content |-> v, last |-> FALSE, size |-> 1]
Data(piece, last) == [type |-> "DATA", content |-> piece, last |-> last,
                      size |-> IF piece = <<>> THEN 1 ELSE Len(piece)]

Reply == [type : {"SEND", "OK", "ERR"}, size : {1}]
Answer(type) == [type |-> type, size |-> 1]

VARIABLES file,      \* the content of the file in the client's folder
          written,   \* history: the contents it ever had
          seen,      \* the content in the last event that was sent
          window,    \* the unanswered messages
          at,        \* where the client is: "loop", "stor": the STOR is on its way,
                     \* "data": in _sendFile, "off"
          open,      \* the content of the file that _sendFile has opened
          pos,       \* how much of it _sendFile has read
          chunk,     \* max_data_chunk_size
          sv,        \* where the server is: "loop", "recv": in _storeFile, "off"
          expected,  \* what the STOR announced
          temp,      \* the temporary file
          copy,      \* the file in the user's folder
          link,      \* "open", "lost", "closed" by the server
          upOut, up, upIn,        \* the requests' stream
          downOut, down, downIn   \* the replies' stream

Up == INSTANCE Stream WITH Message <- Request, Room <- UpRoom,
                           outgoing <- upOut, buffer <- up, incoming <- upIn
Down == INSTANCE Stream WITH Message <- Reply, Room <- DownRoom,
                             outgoing <- downOut, buffer <- down, incoming <- downIn

upVars == <<upOut, up, upIn>>
downVars == <<downOut, down, downIn>>
clientVars == <<seen, window, at, open, pos, chunk>>
serverVars == <<sv, expected, temp, copy>>
vars == <<file, written, clientVars, serverVars, link, upVars, downVars>>

Init == /\ file \in Version
        /\ written = {file}
        /\ seen = None /\ window = <<>> /\ at = "loop" /\ open = <<>> /\ pos = 0
        /\ chunk \in ChunkSizes
        /\ sv = "loop" /\ expected = <<>> /\ temp = None /\ copy = None
        /\ link = "open"
        /\ Up!Init /\ Down!Init
-----------------------------------------------------------------------------
(* The user of the folder.                                                  *)

\* The file is written anew: in place, so that a reader sees it, or as another
\* file with the same name.  Each version differs from the earlier ones.
Edit == /\ \E v \in Version \ written :
              /\ file' = v
              /\ written' = written \cup {v}
              /\ open' \in IF at = "data" THEN {open, v} ELSE {open}
        /\ UNCHANGED <<seen, window, at, pos, chunk, serverVars, link, upVars, downVars>>
-----------------------------------------------------------------------------
(* The client.                                                              *)

\* No call of the client waits for the network.
Free == link = "open" /\ ~Up!Writing /\ ~Down!Reading

\* Mutant: the window is not looked at.
HasPlaceAlways == TRUE

HasPlace == Len(window) < Window

\* The watcher reported the file, and the window has a place.
Probe == /\ at = "loop" /\ Free /\ HasPlace
         /\ file # seen
         /\ seen' = file
         /\ window' = Append(window, Prob(file))
         /\ Up!Send(Prob(file))
         /\ UNCHANGED <<file, written, at, open, pos, chunk, serverVars, link, downVars>>

\* receive: the reply to the head of the window, unless it asks for the file.
Answered == /\ at = "loop" /\ ~Up!Writing
            /\ \/ \E type \in {"OK", "ERR"} : Down!Deliver(Answer(type))
               \/ Down!Deliver(Answer("SEND")) /\ Head(window).content # file
            /\ window' = Tail(window)
            /\ UNCHANGED <<file, written, seen, at, open, pos, chunk, serverVars, link, upVars>>

\* receive, of a SEND: the file is still as announced.
Asked == /\ at = "loop" /\ link = "open" /\ ~Up!Writing
         /\ Down!Deliver(Answer("SEND"))
         /\ Head(window).content = file
         /\ window' = Append(Tail(window), Stor(file))
         /\ at' = "stor"
         /\ Up!Send(Stor(file))
         /\ UNCHANGED <<file, written, seen, open, pos, chunk, serverVars, link>>

\* _sendFile: file.open
OpenFile == /\ at = "stor" /\ Free
            /\ at' = "data" /\ open' = file /\ pos' = 0
            /\ UNCHANGED <<file, written, seen, window, chunk, serverVars, link, upVars, downVars>>

\* _sendFile: a chunk as long as the buffer may not be the last one.
Chunk == SubSeq(open, pos + 1, IF pos + chunk < Len(open) THEN pos + chunk ELSE Len(open))
SendChunk == /\ at = "data" /\ Free
             /\ LET last == Len(Chunk) < chunk
                IN  /\ Up!Send(Data(Chunk, last))
                    /\ at' = IF last THEN "loop" ELSE "data"
                    /\ open' = IF last THEN <<>> ELSE open
                    /\ pos' = IF last THEN 0 ELSE pos + chunk
             /\ UNCHANGED <<file, written, seen, window, chunk, serverVars, link, downVars>>

ClientWrites == /\ at # "off" /\ Up!Write
                /\ UNCHANGED <<file, written, clientVars, serverVars, link, downVars>>

\* select found the socket readable, or recvString goes on.
ClientReads == /\ at = "loop" /\ ~Up!Writing /\ Down!Read
               /\ UNCHANGED <<file, written, clientVars, serverVars, link, upVars>>

\* A call on the socket failed: communicate leaves the session.
ClientStops == /\ at # "off" /\ link # "open"
               /\ at' = "off" /\ open' = <<>> /\ pos' = 0
               /\ UNCHANGED <<file, written, seen, window, chunk, serverVars, link, upVars, downVars>>

Client == Probe \/ Answered \/ Asked \/ OpenFile \/ SendChunk \/ ClientWrites
             \/ ClientReads \/ ClientStops
-----------------------------------------------------------------------------
(* The server.                                                              *)

\* What is written on a lost connection goes nowhere.
Respond(reply) == IF link = "lost" THEN UNCHANGED downVars ELSE Down!Send(reply)

\* _probe
Probed == /\ sv = "loop" /\ ~Down!Writing
          /\ \E v \in Version :
                /\ Up!Deliver(Prob(v))
                /\ Respond(Answer(IF copy = v THEN "OK" ELSE "SEND"))
          /\ UNCHANGED <<file, written, clientVars, serverVars, link>>

\* _storeFile up to its first recvString: the temporary file is there.
Announced == /\ sv = "loop" /\ ~Down!Writing
             /\ \E v \in Version : Up!Deliver(Stor(v)) /\ expected' = v
             /\ temp' = <<>> /\ sv' = "recv"
             /\ UNCHANGED <<file, written, clientVars, copy, link, downVars>>

\* Mutant: only the size of the temporary file is compared.
AsExpectedSize(content) == Len(content) = Len(expected)

\* newFile.getSize() and getHash() against those of expected
AsExpected(content) == content = expected

\* _storeFile, one more DATA
Received(m) == /\ sv = "recv" /\ m.type = "DATA" /\ ~m.last
               /\ Up!Deliver(m)
               /\ temp' = temp \o m.content
               /\ UNCHANGED <<sv, expected, copy, downVars>>

\* _storeFile, the last DATA
Stored(m) == /\ sv = "recv" /\ m.type = "DATA" /\ m.last /\ AsExpected(temp \o m.content)
             /\ Up!Deliver(m)
             /\ copy' = temp \o m.content
             /\ temp' = None /\ expected' = <<>> /\ sv' = "loop"
             /\ Respond(Answer("OK"))

\* Mutant: the ERR is not sent.
NotStoredSilently(m) == /\ sv = "recv" /\ m.type = "DATA" /\ m.last /\ ~AsExpected(temp \o m.content)
                        /\ Up!Deliver(m)
                        /\ temp' = None /\ expected' = <<>> /\ sv' = "loop"
                        /\ UNCHANGED <<copy, downVars>>

NotStored(m) == /\ sv = "recv" /\ m.type = "DATA" /\ m.last /\ ~AsExpected(temp \o m.content)
                /\ Up!Deliver(m)
                /\ temp' = None /\ expected' = <<>> /\ sv' = "loop"
                /\ Respond(Answer("ERR"))
                /\ UNCHANGED copy

StoreFile == /\ Up!Complete
             /\ Received(Up!Arriving) \/ Stored(Up!Arriving) \/ NotStored(Up!Arriving)
             /\ UNCHANGED <<file, written, clientVars, link>>

ServerWrites == /\ sv # "off" /\ Down!Write
                /\ UNCHANGED <<file, written, clientVars, serverVars, link, upVars>>

ServerReads == /\ sv # "off" /\ ~Down!Writing /\ Up!Read
               /\ UNCHANGED <<file, written, clientVars, serverVars, link, downVars>>

\* Mutant: the handler of the SocketException is not there.
KeepTemp == temp

\* _storeFile's handler of a SocketException: the temporary file is removed.
DropTemp == None

\* recvString fails: the connection is lost, or the text is longer than a record.
\* single_server leaves the session and closes the connection.
ServerStops == /\ sv # "off"
               /\ link = "lost" \/ Up!Refused
               /\ sv' = "off" /\ temp' = DropTemp /\ expected' = <<>>
               /\ link' = IF link = "lost" THEN "lost" ELSE "closed"
               /\ upOut' = <<>> /\ up' = <<>> /\ upIn' = <<>>
               /\ Down!Cut
               /\ UNCHANGED <<file, written, clientVars, copy>>

Server == Probed \/ Announced \/ StoreFile \/ ServerWrites \/ ServerReads \/ ServerStops

\* The connection breaks.
Lose == /\ link = "open"
        /\ link' = "lost"
        /\ Up!Cut /\ Down!Cut
        /\ UNCHANGED <<file, written, clientVars, serverVars>>

Next == Edit \/ Client \/ Server \/ Lose

\* A program goes on when it can.
Spec == Init /\ [][Next]_vars /\ WF_vars(Client) /\ WF_vars(Server)
-----------------------------------------------------------------------------
TypeOK == /\ file \in Version /\ written \subseteq Version
          /\ seen \in Version \cup {None}
          /\ window \in Seq(Request)
          /\ at \in {"loop", "stor", "data", "off"}
          /\ open \in Seq(Block) /\ pos \in Nat /\ chunk \in ChunkSizes
          /\ sv \in {"loop", "recv", "off"}
          /\ expected \in Seq(Block)
          /\ temp \in Seq(Block) \cup {None} /\ copy \in Seq(Block) \cup {None}
          /\ link \in {"open", "lost", "closed"}
          /\ Up!TypeOK /\ Down!TypeOK

\* recvString and sendString agree on where messages begin, in both directions,
\* whatever the sizes of chunks, records and buffers are.
StreamsFramed == Up!Framed /\ Down!Framed

\* Client and server never both wait for the other to read: the client, which
\* does not read replies while it sends, always finds a server that reads requests
\* in the end, because the replies to a full window fit into the buffers.
NoCrossedWrites == ~(Up!Blocked /\ Down!Blocked)

\* What the user finds on the server is a version the file had, whatever was
\* written to the file while its chunks were read: never a mixture of two.
CopyIsAVersion == copy \in written \cup {None}

\* The temporary file lives no longer than the transfer, however that ends.
NoTempLeft == temp # None => sv = "recv"

\* A transfer ends: when the user stops writing, the server gets the last version,
\* unless the connection is lost or the chunks do not fit into a record.
Uploaded == <>[](\/ copy = file /\ window = <<>>
                 \/ link = "lost" \/ chunk > Record)
=============================================================================
