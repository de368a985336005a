------------------------------- MODULE Network -------------------------------
(***************************************************************************)
(* The connections between the client and the threads of the server, as    *)
(* the code uses the vendored TLS and TCP sockets: reliable and in order   *)
(* until the connection breaks.  What is under way then is lost from its   *)
(* end backwards, and neither side knows how much of it arrived.           *)
(***************************************************************************)
EXTENDS FileTree

CONSTANTS Conn,       \* the connections: one for each thread of the server (N_THREADS)
          NoConn,     \* the client is not connected
          NoData,     \* the DATA messages of a STOR were not sent (yet)
          MaxBreaks   \* bound: how many connections break

ASSUME NetAssumption == NoConn \notin Conn /\ MaxBreaks \in Nat

VARIABLES link,    \* "none": no session; "open"; "broken": one side cannot reach the other
          c2s,     \* client messages under way, DATA attached to its STOR
          s2c,     \* server messages under way
          breaks,  \* counts the broken connections, up to MaxBreaks
          outOfStep  \* history: a message of the window was not sent, or not answered

netVars == <<link, c2s, s2c, breaks, outOfStep>>

\* ClientMessage.  data: what was read of the file for the DATA messages.
Op == {"PROB", "STOR", "DELE", "MKD", "RMD"}
Request == {r \in [op : Op, path : Path, entry : Entry, data : Hash \cup {NoHash, NoData}] :
               r.op \in {"MKD", "RMD"} <=> r.entry.type = "directory"}

\* ServerMessage.  re: the request it answers; the message itself carries path
\* and hash of it only if it is a SEND.
OkCode == {"found", "created", "notThere", "removed"}
ErrCode == {"notAFile", "store", "remove", "notADir", "unexpected", "exception"}
Reply == [kind : {"SEND"} \cup OkCode \cup ErrCode, re : Request]

NetInit == /\ link = [c \in Conn |-> "none"]
           /\ c2s = [c \in Conn |-> <<>>]
           /\ s2c = [c \in Conn |-> <<>>]
           /\ breaks = 0
           /\ outOfStep = FALSE

Prefixes(s) == {SubSeq(s, 1, n) : n \in 0 .. Len(s)}

\* The connection c is cut.  The server may still find messages in its buffer
\* before it notices, and so may the client.
Break(c) == /\ breaks < MaxBreaks
            /\ link[c] = "open"
            /\ link' = [link EXCEPT ![c] = "broken"]
            /\ \E s \in Prefixes(c2s[c]) : c2s' = [c2s EXCEPT ![c] = s]
            /\ \E s \in Prefixes(s2c[c]) : s2c' = [s2c EXCEPT ![c] = s]
            /\ breaks' = breaks + 1
            /\ UNCHANGED outOfStep

\* A write on a broken connection may still succeed; its message is lost.
Transmit(c, request) ==
    c2s' = IF link[c] = "open" THEN [c2s EXCEPT ![c] = Append(@, request)] ELSE c2s

NetTypeOK == /\ link \in [Conn -> {"none", "open", "broken"}]
             /\ c2s \in [Conn -> Seq(Request)]
             /\ s2c \in [Conn -> Seq(Reply)]
             /\ breaks \in 0 .. MaxBreaks
             /\ outOfStep \in BOOLEAN
=============================================================================
