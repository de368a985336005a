---------------------------- MODULE ProtocolProofs ----------------------------
(***************************************************************************)
(* What the steps of the two sides preserve, and the theorems about what   *)
(* is under way between them.                                              *)
(*                                                                         *)
(* The server keeps its folder a tree without orphans, its table and its   *)
(* sessions well typed, and gives at most one reply to each request.       *)
(*                                                                         *)
(* The user and the watcher keep the folder, the map and the queue well    *)
(* typed.  VisitsKnown is what makes the entry of an event one: the passes *)
(* over _paths only meet paths that are in _paths.                         *)
(*                                                                         *)
(* The client's thread keeps its variables and the network well typed, and *)
(* never has more replies to come than events sent.  Control says what the *)
(* places of the thread (pc) promise of the other variables.               *)
(*                                                                         *)
(* Together they are the inductive invariant IInv, for every set of paths, *)
(* hashes, times and connections and all sizes of queue and window.  On    *)
(* top of it: replies and requests under way are in the order of the       *)
(* window (InOrder), what a session knows of the disk (Knows) and of the   *)
(* table (KnowsRows), and the kinds of the paths (AllOfTheirKind).         *)
(***************************************************************************)
EXTENDS BackupSystem, FileTreeProofs, SequenceTheorems

ServerOK == ServerTypeOK /\ NetTypeOK

\* Of the replies to come on c, counting the requests that can still get one, a
\* step leaves at most as many as there were.
NoMoreToCome(c) ==
    /\ link'[c] = "open" => /\ link[c] = "open"
                            /\ Len(s2c'[c]) + Len(c2s'[c]) <= Len(s2c[c]) + Len(c2s[c])
    /\ link'[c] # "open" =>
          Len(s2c'[c]) <= Len(s2c[c]) + (IF link[c] = "open" THEN Len(c2s[c]) ELSE 0)

LEMMA ServerBounds == MaxCrashes \in Nat /\ MaxBreaks \in Nat
  BY ServerAssumption, NetAssumption
-----------------------------------------------------------------------------
(* The folder.                                                              *)
LEMMA Entries ==
  ASSUME NEW tree \in Tree, NEW p \in Path
  PROVE  /\ Exists(tree, p) => tree[p] \in Entry
         /\ Exists(tree, p) => IsFile(tree, p) \/ IsDir(tree, p)
         /\ IsDir(tree, p) => Exists(tree, p) /\ ~IsFile(tree, p)
  BY EntryTypes DEF Tree, Exists, IsFile, IsDir

LEMMA AncestorsArePaths ==
  ASSUME NEW p \in Path
  PROVE  /\ Ancestors[p] \subseteq Path /\ Parent(p) \subseteq Ancestors[p]
         /\ \A q \in Ancestors[p] : Ancestors[q] \subseteq Ancestors[p]
         /\ p \notin Ancestors[p]
  BY TreeAssumption DEF Parent

\* Making the directories above p, where no file is in the way.
LEMMA WithParentsKeeps ==
  ASSUME disk \in Tree, WellFormed(disk), NEW p \in Path, NEW t \in Time, Reachable(disk, p)
  PROVE  /\ WithParents(p, t) \in Tree /\ WellFormed(WithParents(p, t))
         /\ \A a \in Ancestors[p] : IsDir(WithParents(p, t), a)
         /\ IsDir(WithParents(p, t), p) <=> IsDir(disk, p)
<1>1. \A a \in Ancestors[p] : a \in Path /\ (Exists(disk, a) => IsDir(disk, a))
  BY AncestorsArePaths, Entries DEF Reachable
<1>2. CASE \A q \in Parent(p) : Exists(disk, q)
  <2>1. WithParents(p, t) = disk
    BY <1>2 DEF WithParents
  <2>2. ASSUME NEW a \in Ancestors[p] PROVE IsDir(disk, a)
    <3>1. PICK q \in Parent(p) : TRUE
      BY <2>2, TreeAssumption
    <3>2. q \in Path /\ Exists(disk, q) /\ IsDir(disk, q) /\ (a = q \/ a \in Ancestors[q])
      BY <1>1, <1>2, <2>2, <3>1 DEF Parent
    <3> QED BY <3>2 DEF WellFormed
  <2> QED BY <2>1, <2>2
<1>3. CASE ~ \A q \in Parent(p) : Exists(disk, q)
  <2>1. WithParents(p, t) = CreateDirectories(disk, Ancestors[p], t)
    BY <1>3, Zenon DEF WithParents
  <2>2. Ancestors[p] \in SUBSET Path /\ p \notin Ancestors[p]
    BY AncestorsArePaths
  <2>3. \A q \in Ancestors[p] : \A a \in Ancestors[q] :
           IsDir(disk, a) \/ (a \in Ancestors[p] /\ ~Exists(disk, a))
    BY <1>1, AncestorsArePaths
  <2>4. WellFormed(WithParents(p, t))
    BY <2>1, <2>2, <2>3, CreateWellFormed
  <2> QED BY <1>1, <2>1, <2>2, <2>4, CreateKeeps
<1> QED BY <1>2, <1>3

LEMMA StoredKeeps ==
  ASSUME disk \in Tree, WellFormed(disk), NEW p \in Path, NEW e \in Entry, NEW t \in Time,
         Reachable(disk, p), ~IsDir(disk, p)
  PROVE  Stored(p, e, t) \in Tree /\ WellFormed(Stored(p, e, t))
<1> DEFINE tree == WithParents(p, t)
<1>1. tree \in Tree /\ WellFormed(tree) /\ ~IsDir(tree, p) /\ \A a \in Ancestors[p] : IsDir(tree, a)
  BY WithParentsKeeps
<1>2. Stored(p, e, t) = [tree EXCEPT ![p] = e]
  BY DEF Stored
<1> HIDE DEF tree
<1> QED BY <1>1, <1>2, PutWellFormed

LEMMA MadeKeeps ==
  ASSUME disk \in Tree, WellFormed(disk), NEW p \in Path, NEW t \in Time,
         Reachable(disk, p), ~IsFile(disk, p)
  PROVE  /\ Made(p, t) \in Tree /\ WellFormed(Made(p, t))
         /\ IsDir(Made(p, t), p)
         /\ \A q \in Path : IsDir(disk, q) => IsDir(Made(p, t), q)
<1>1. CASE Exists(disk, p)
  <2>1. Made(p, t) = disk
    BY <1>1 DEF Made
  <2> QED BY <1>1, <2>1, Entries
<1>2. CASE ~Exists(disk, p)
  <2> DEFINE Q == Ancestors[p] \cup {p}
  <2>1. Made(p, t) = CreateDirectories(disk, Q, t)
    BY <1>2 DEF Made
  <2>2. Q \in SUBSET Path
    BY AncestorsArePaths
  <2>3. \A q \in Q : \A a \in Ancestors[q] : IsDir(disk, a) \/ (a \in Q /\ ~Exists(disk, a))
    BY AncestorsArePaths, Entries DEF Reachable
  <2>4. p \in Q
    OBVIOUS
  <2> HIDE DEF Q
  <2>5. WellFormed(Made(p, t))
    BY <2>1, <2>2, <2>3, CreateWellFormed
  <2> QED BY <1>2, <2>1, <2>2, <2>4, <2>5, CreateKeeps
<1> QED BY <1>1, <1>2

LEMMA MadeDirKeeps ==
  ASSUME disk \in Tree, WellFormed(disk), NEW p \in Path, NEW e \in Entry, NEW t \in Time,
         e.type = "directory", Reachable(disk, p), ~IsFile(disk, p)
  PROVE  MadeDir(p, e, t) \in Tree /\ WellFormed(MadeDir(p, e, t))
<1> DEFINE tree == KeepParentTime(disk, Made(p, t), p)
<1>1. /\ tree \in Tree
      /\ \A q \in Path : /\ Exists(tree, q) <=> Exists(Made(p, t), q)
                         /\ IsDir(tree, q) <=> IsDir(Made(p, t), q)
  BY MadeKeeps, KeepTimeKeeps
<1>2. MadeDir(p, e, t) = [tree EXCEPT ![p] = e]
  BY DEF MadeDir
<1> HIDE DEF tree
<1>3. WellFormed(tree)
  BY <1>1, MadeKeeps, AncestorsArePaths DEF WellFormed
<1>4. \A a \in Ancestors[p] : IsDir(tree, a)
  <2>1. Exists(tree, p)
    BY <1>1, MadeKeeps, Entries
  <2> QED BY <1>3, <2>1 DEF WellFormed
<1> QED BY <1>1, <1>2, <1>3, <1>4, PutWellFormed

\* Removing something that contains nothing.
LEMMA LeafKeeps ==
  ASSUME disk \in Tree, WellFormed(disk), NEW p \in Path, \A q \in Below(p) : ~Exists(disk, q)
  PROVE  /\ [disk EXCEPT ![p] = Absent] \in Tree
         /\ WellFormed([disk EXCEPT ![p] = Absent])
<1>1. RemoveAll(disk, p) = [disk EXCEPT ![p] = Absent]
  BY DEF RemoveAll, Tree, Below, Exists
<1> QED BY <1>1, RemoveKeeps

-----------------------------------------------------------------------------
(* Requests and replies.                                                    *)
LEMMA HeadRequest ==
  ASSUME NetTypeOK, NEW c \in Conn, c2s[c] # <<>>
  PROVE  /\ Head(c2s[c]) \in Request
         /\ Head(c2s[c]).path \in Path /\ Head(c2s[c]).entry \in Entry
         /\ Head(c2s[c]).op \in {"MKD", "RMD"} <=> Head(c2s[c]).entry.type = "directory"
         /\ Tail(c2s[c]) \in Seq(Request) /\ Len(Tail(c2s[c])) = Len(c2s[c]) - 1
         /\ Len(c2s[c]) \in Nat /\ Len(c2s[c]) >= 1
<1>1. c2s[c] \in Seq(Request)
  BY DEF NetTypeOK
<1>2. /\ Head(c2s[c]) \in Request
      /\ Tail(c2s[c]) \in Seq(Request) /\ Len(Tail(c2s[c])) = Len(c2s[c]) - 1
      /\ Len(c2s[c]) \in Nat /\ Len(c2s[c]) >= 1
  BY <1>1
<1> QED BY <1>2 DEF Request

LEMMA Lengths ==
  ASSUME NetTypeOK
  PROVE  \A c \in Conn : Len(s2c[c]) \in Nat /\ Len(c2s[c]) \in Nat
  BY DEF NetTypeOK

LEMMA ReplySent ==
  ASSUME NetTypeOK, NEW c \in Conn, NEW r \in Reply, s2c' = [s2c EXCEPT ![c] = Append(@, r)]
  PROVE  /\ s2c' \in [Conn -> Seq(Reply)]
         /\ Len(s2c'[c]) = Len(s2c[c]) + 1
         /\ \A d \in Conn \ {c} : s2c'[d] = s2c[d]
<1>1. s2c \in [Conn -> Seq(Reply)] /\ s2c[c] \in Seq(Reply)
  BY DEF NetTypeOK
<1>2. Append(s2c[c], r) \in Seq(Reply) /\ Len(Append(s2c[c], r)) = Len(s2c[c]) + 1
  BY <1>1
<1> QED BY <1>1, <1>2

\* The balance of one connection, in numbers.
LEMMA InNumbers ==
  ASSUME NEW d \in Conn,
         Len(s2c[d]) \in Nat, Len(c2s[d]) \in Nat, Len(s2c'[d]) \in Nat, Len(c2s'[d]) \in Nat,
         \/ link'[d] = link[d] /\ Len(s2c'[d]) = Len(s2c[d]) /\ Len(c2s'[d]) <= Len(c2s[d])
         \/ /\ link'[d] = link[d] /\ link[d] = "open"
            /\ Len(s2c'[d]) = Len(s2c[d]) + 1 /\ Len(c2s'[d]) + 1 <= Len(c2s[d])
         \/ link'[d] # "open" /\ Len(s2c'[d]) <= Len(s2c[d])
         \/ /\ link'[d] # "open" /\ link[d] = "open"
            /\ Len(s2c'[d]) = Len(s2c[d]) + 1 /\ 1 <= Len(c2s[d])
  PROVE  NoMoreToCome(d)
<1> DEFINE r == Len(s2c[d])
           q == Len(c2s[d])
           R == Len(s2c'[d])
           Q == Len(c2s'[d])
<1>1. r \in Nat /\ q \in Nat /\ R \in Nat /\ Q \in Nat
  OBVIOUS
<1>2. \/ link'[d] = link[d] /\ R = r /\ Q <= q
      \/ link'[d] = link[d] /\ link[d] = "open" /\ R = r + 1 /\ Q + 1 <= q
      \/ link'[d] # "open" /\ R <= r
      \/ link'[d] # "open" /\ link[d] = "open" /\ R = r + 1 /\ 1 <= q
  OBVIOUS
<1> HIDE DEF r, q, R, Q
<1>3. /\ link'[d] = "open" => link[d] = "open" /\ R + Q <= r + q
      /\ link'[d] # "open" => R <= r + (IF link[d] = "open" THEN q ELSE 0)
  BY <1>1, <1>2
<1> QED BY <1>3, Zenon DEF NoMoreToCome, r, q, R, Q

\* The first request leaves, and with it the promise of its reply; on an open
\* connection the reply may take its place.
LEMMA TakeRequest ==
  ASSUME NetTypeOK, NEW c \in Conn, c2s[c] # <<>>,
         c2s' = [c2s EXCEPT ![c] = Tail(@)],
         \/ s2c' = s2c
         \/ link[c] = "open" /\ \E r \in Reply : s2c' = [s2c EXCEPT ![c] = Append(@, r)],
         link' = link, breaks' = breaks, outOfStep' \in BOOLEAN
  PROVE  NetTypeOK' /\ \A d \in Conn : NoMoreToCome(d)
<1>1. c2s' \in [Conn -> Seq(Request)]
  BY HeadRequest DEF NetTypeOK
<1>2. s2c' \in [Conn -> Seq(Reply)]
  BY ReplySent DEF NetTypeOK
<1>3. NetTypeOK'
  BY <1>1, <1>2, Zenon DEF NetTypeOK
<1>4. /\ Len(c2s'[c]) = Len(c2s[c]) - 1 /\ Len(c2s[c]) >= 1
      /\ \/ Len(s2c'[c]) = Len(s2c[c])
         \/ link[c] = "open" /\ Len(s2c'[c]) = Len(s2c[c]) + 1
  BY HeadRequest, ReplySent DEF NetTypeOK
<1>5. \A d \in Conn \ {c} : c2s'[d] = c2s[d] /\ s2c'[d] = s2c[d]
  BY ReplySent DEF NetTypeOK
<1>6. ASSUME NEW d \in Conn PROVE NoMoreToCome(d)
  <2>1. /\ Len(s2c'[d]) \in Nat /\ Len(c2s'[d]) \in Nat
        /\ Len(s2c[d]) \in Nat /\ Len(c2s[d]) \in Nat
    BY <1>1, <1>2, Lengths
  <2> DEFINE r == Len(s2c[d])
             q == Len(c2s[d])
             R == Len(s2c'[d])
             Q == Len(c2s'[d])
  <2>2. CASE d = c
    <3>1. (R = r /\ Q = q - 1 /\ q >= 1) \/ (link[d] = "open" /\ R = r + 1 /\ Q = q - 1 /\ q >= 1)
      BY <1>4, <2>2
    <3>2. R \in Nat /\ Q \in Nat /\ r \in Nat /\ q \in Nat
      BY <2>1
    <3> HIDE DEF r, q, R, Q
    <3>3. (R = r /\ Q <= q) \/ (link[d] = "open" /\ R = r + 1 /\ Q + 1 <= q)
      BY <3>1, <3>2
    <3> QED BY <2>1, <3>3, InNumbers DEF r, q, R, Q
  <2>3. CASE d # c
    <3>1. R = r /\ Q = q
      BY <1>5, <2>3
    <3> QED BY <2>1, <3>1, InNumbers
  <2> QED BY <2>2, <2>3
<1> QED BY <1>3, <1>6

LEMMA AnswerKeeps ==
  ASSUME NetTypeOK, NEW c \in Conn, c2s[c] # <<>>, NEW kind \in {"SEND"} \cup OkCode \cup ErrCode,
         Answer(c, kind)
  PROVE  NetTypeOK' /\ \A d \in Conn : NoMoreToCome(d)
<1> DEFINE r == [kind |-> kind, re |-> Head(c2s[c])]
<1>1. r \in Reply
  BY HeadRequest DEF Reply
<1>2. s2c' = s2c \/ (link[c] = "open" /\ s2c' = [s2c EXCEPT ![c] = Append(@, r)])
  BY DEF Answer
<1>3. /\ c2s' = [c2s EXCEPT ![c] = Tail(@)]
      /\ link' = link /\ breaks' = breaks /\ outOfStep' = outOfStep
  BY DEF Answer
<1>4. outOfStep' \in BOOLEAN
  BY <1>3, Zenon DEF NetTypeOK
<1> HIDE DEF r
<1> QED BY <1>1, <1>2, <1>3, <1>4, TakeRequest

LEMMA StoresStay ==
  ASSUME ServerTypeOK, UNCHANGED <<storeVars, sessionVars>>,
         serverUp' \in BOOLEAN, crashes' \in 0 .. MaxCrashes
  PROVE  ServerTypeOK'
<1>1. disk' = disk /\ rows' = rows /\ recovered' = recovered /\ elements' = elements
  BY DEF storeVars, sessionVars
<1>2. WellFormed(disk')
  BY <1>1 DEF ServerTypeOK
<1> QED BY <1>1, <1>2, Zenon DEF ServerTypeOK

\* What a handler changes besides the connection.
LEMMA HandlerKeeps ==
  ASSUME ServerTypeOK, disk' \in Tree, WellFormed(disk'), rows' \in [Path -> Seq(Entry)],
         elements' \in [Conn -> Tree],
         UNCHANGED <<serverUp, recovered, crashes>>
  PROVE  ServerTypeOK'
<1>1. serverUp' = serverUp /\ recovered' = recovered /\ crashes' = crashes
  OBVIOUS
<1> QED BY <1>1, Zenon DEF ServerTypeOK

LEMMA JustAnswerKeeps ==
  ASSUME ServerOK, NEW c \in Conn, c2s[c] # <<>>, NEW kind \in {"SEND"} \cup OkCode \cup ErrCode,
         JustAnswer(c, kind)
  PROVE  ServerOK' /\ \A d \in Conn : NoMoreToCome(d)
<1>1. NetTypeOK' /\ \A d \in Conn : NoMoreToCome(d)
  BY AnswerKeeps DEF JustAnswer, ServerOK
<1>2. ServerTypeOK'
  <2>1. UNCHANGED <<storeVars, sessionVars>> /\ serverUp' = serverUp /\ crashes' = crashes
    BY DEF JustAnswer, Answer, sessionVars
  <2>2. serverUp' \in BOOLEAN /\ crashes' \in 0 .. MaxCrashes
    BY <2>1, Zenon DEF ServerOK, ServerTypeOK
  <2> QED BY <2>1, <2>2, StoresStay DEF ServerOK
<1> QED BY <1>1, <1>2 DEF ServerOK

LEMMA FailKeeps ==
  ASSUME ServerOK, NEW c \in Conn, c2s[c] # <<>>, Fail(c)
  PROVE  ServerOK' /\ \A d \in Conn : NoMoreToCome(d)
<1> DEFINE r == [kind |-> "exception", re |-> Head(c2s[c])]
<1>1. r \in Reply
  BY HeadRequest DEF Reply, ErrCode, ServerOK
<1>2. /\ c2s' = [d \in Conn |-> <<>>] /\ breaks' = breaks /\ outOfStep' = outOfStep
      /\ s2c' = s2c \/ (link[c] = "open" /\ s2c' = [s2c EXCEPT ![c] = Append(@, r)])
      /\ link' = [d \in Conn |-> IF link[d] = "open" THEN "broken" ELSE link[d]]
      /\ serverUp' = FALSE /\ crashes' = crashes /\ UNCHANGED <<storeVars, sessionVars>>
  BY DEF Fail
<1> HIDE DEF r
<1>3. /\ c2s' \in [Conn -> Seq(Request)] /\ s2c' \in [Conn -> Seq(Reply)]
      /\ link' \in [Conn -> {"none", "open", "broken"}]
  <2>1. s2c' \in [Conn -> Seq(Reply)]
    BY <1>1, <1>2, ReplySent DEF ServerOK, NetTypeOK
  <2>2. link' \in [Conn -> {"none", "open", "broken"}]
    BY <1>2 DEF ServerOK, NetTypeOK
  <2> QED BY <1>2, <2>1, <2>2
<1>4. NetTypeOK'
  BY <1>2, <1>3, Zenon DEF ServerOK, NetTypeOK
<1>5. ServerTypeOK'
  <2>1. serverUp' \in BOOLEAN /\ crashes' \in 0 .. MaxCrashes
    BY <1>2 DEF ServerOK, ServerTypeOK
  <2> QED BY <1>2, <2>1, StoresStay DEF ServerOK
<1>6. ASSUME NEW d \in Conn PROVE NoMoreToCome(d)
  <2>1. link'[d] # "open"
    BY <1>2 DEF ServerOK, NetTypeOK
  <2>2. /\ Len(s2c[d]) \in Nat /\ Len(c2s[d]) \in Nat
        /\ Len(s2c'[d]) \in Nat /\ Len(c2s'[d]) \in Nat /\ Len(c2s[c]) >= 1
    BY <1>3, Lengths, HeadRequest DEF ServerOK
  <2>3. \/ Len(s2c'[d]) = Len(s2c[d])
        \/ d = c /\ link[c] = "open" /\ Len(s2c'[d]) = Len(s2c[d]) + 1
    BY <1>1, <1>2, ReplySent DEF ServerOK
  <2> QED BY <2>1, <2>2, <2>3, InNumbers
<1> QED BY <1>4, <1>5, <1>6 DEF ServerOK

-----------------------------------------------------------------------------
(* The handlers.                                                            *)
LEMMA RecordKeeps ==
  ASSUME ServerTypeOK, NEW c \in Conn, NEW p \in Path, NEW e \in Entry, Record(c, p, e)
  PROVE  rows' \in [Path -> Seq(Entry)] /\ elements' \in [Conn -> Tree]
<1>1. rows \in [Path -> Seq(Entry)] /\ elements \in [Conn -> Tree] /\ rows[p] \in Seq(Entry)
  BY DEF ServerTypeOK
<1>2. Inserted(p, e) \in [Path -> Seq(Entry)]
  BY <1>1 DEF Inserted
<1>3. Updated(p, e) \in [Path -> Seq(Entry)]
  <2>1. [i \in DOMAIN rows[p] |-> e] \in Seq(Entry)
    BY <1>1
  <2> QED BY <1>1, <2>1 DEF Updated
<1>4. elements' \in [Conn -> Tree]
  <2>1. elements' = [elements EXCEPT ![c] = [elements[c] EXCEPT ![p] = e]]
    BY <1>1 DEF Record
  <2>2. [elements[c] EXCEPT ![p] = e] \in Tree
    BY <1>1 DEF Tree
  <2> QED BY <1>1, <2>1, <2>2
<1> QED BY <1>2, <1>3, <1>4 DEF Record

LEMMA ForgetKeeps ==
  ASSUME ServerTypeOK, NEW c \in Conn, NEW Q \in SUBSET Path, Forget(c, Q)
  PROVE  rows' \in [Path -> Seq(Entry)] /\ elements' \in [Conn -> Tree]
<1>1. rows' \in [Path -> Seq(Entry)]
  BY DEF ServerTypeOK, Forget, Deleted
<1>2. [q \in Path |-> IF q \in Q THEN Absent ELSE elements[c][q]] \in Tree
  BY DEF ServerTypeOK, Tree
<1> QED BY <1>1, <1>2 DEF ServerTypeOK, Forget

\* A handler that changes the folder, the table or the session, and answers.
LEMMA AnsweredKeeps ==
  ASSUME ServerOK, NEW c \in Conn, c2s[c] # <<>>, NEW kind \in {"SEND"} \cup OkCode \cup ErrCode,
         Answer(c, kind), disk' \in Tree, WellFormed(disk'), rows' \in [Path -> Seq(Entry)],
         elements' \in [Conn -> Tree]
  PROVE  ServerOK' /\ \A d \in Conn : NoMoreToCome(d)
<1>1. NetTypeOK' /\ \A d \in Conn : NoMoreToCome(d)
  BY AnswerKeeps DEF ServerOK
<1>2. UNCHANGED <<serverUp, recovered, crashes>>
  BY DEF Answer
<1> QED BY <1>1, <1>2, HandlerKeeps DEF ServerOK

LEMMA ServerFacts ==
  ASSUME ServerOK
  PROVE  /\ disk \in Tree /\ WellFormed(disk) /\ rows \in [Path -> Seq(Entry)]
         /\ elements \in [Conn -> Tree] /\ NetTypeOK /\ ServerTypeOK
         /\ \A c \in Conn : elements[c] \in Tree
  BY DEF ServerOK, ServerTypeOK

LEMMA ReplyKinds ==
  {"SEND", "found", "created", "notThere", "removed", "notAFile", "store", "remove", "notADir"}
     \subseteq {"SEND"} \cup OkCode \cup ErrCode
  BY DEF OkCode, ErrCode

LEMMA ProbeKeeps ==
  ASSUME ServerOK, NEW c \in Conn, Probe(c)
  PROVE  ServerOK' /\ \A d \in Conn : NoMoreToCome(d)
<1> DEFINE p == Head(c2s[c]).path
           e == Head(c2s[c]).entry
<1>1. c2s[c] # <<>>
  BY DEF Probe, Handling
<1>2. p \in Path /\ e \in Entry
  BY <1>1, HeadRequest, ServerFacts
<1>3. ASSUME NEW kind \in {"SEND", "notAFile", "found"}, JustAnswer(c, kind) PROVE ServerOK' /\ \A d \in Conn : NoMoreToCome(d)
  BY <1>1, <1>3, ReplyKinds, JustAnswerKeeps
<1>4. CASE Fail(c)
  BY <1>1, <1>4, FailKeeps
<1>5. CASE /\ Exists(disk, p)
           /\ disk' = [disk EXCEPT ![p].lwt = e.lwt]
           /\ elements' = [elements EXCEPT ![c][p] = e]
           /\ UNCHANGED rows
           /\ Answer(c, "found")
  <2>1. disk' \in Tree /\ WellFormed(disk')
    <3>1. disk' = [disk EXCEPT ![p] = [disk[p] EXCEPT !.lwt = e.lwt]]
      BY <1>5
    <3>2. disk[p] \in Entry /\ e.lwt \in Time
      BY <1>2, <1>5, Entries, EntryTypes, ServerFacts
    <3>3. /\ [disk[p] EXCEPT !.lwt = e.lwt] \in Entry
          /\ [disk[p] EXCEPT !.lwt = e.lwt].type = disk[p].type
      BY <3>2 DEF Entry
    <3>4. \A a \in Ancestors[p] : IsDir(disk, a)
      BY <1>2, <1>5, ServerFacts DEF WellFormed
    <3>5. [disk[p] EXCEPT !.lwt = e.lwt].type = "directory" \/ ~IsDir(disk, p)
      BY <3>3 DEF IsDir
    <3> QED BY <1>2, <3>1, <3>3, <3>4, <3>5, ServerFacts, PutWellFormed
  <2>2. elements' \in [Conn -> Tree]
    <3>1. [elements[c] EXCEPT ![p] = e] \in Tree
      BY <1>2, ServerFacts DEF Tree
    <3> QED BY <1>5, <3>1, ServerFacts
  <2>3. rows' \in [Path -> Seq(Entry)]
    BY <1>5, ServerFacts
  <2> QED BY <1>1, <1>5, <2>1, <2>2, <2>3, ReplyKinds, AnsweredKeeps
<1> QED BY <1>3, <1>4, <1>5 DEF Probe

LEMMA StoreFileKeeps ==
  ASSUME ServerOK, NEW c \in Conn, StoreFile(c)
  PROVE  ServerOK' /\ \A d \in Conn : NoMoreToCome(d)
<1> DEFINE p == Head(c2s[c]).path
           e == Head(c2s[c]).entry
<1>1. c2s[c] # <<>>
  BY DEF StoreFile, Handling
<1>2. p \in Path /\ e \in Entry
  BY <1>1, HeadRequest, ServerFacts
<1>3. CASE JustAnswer(c, "store")
  BY <1>1, <1>3, ReplyKinds, JustAnswerKeeps
<1>4. CASE Fail(c)
  BY <1>1, <1>4, FailKeeps
<1>5. ASSUME Reachable(disk, p), ~IsDir(disk, p), NEW t \in Time, disk' = Stored(p, e, t),
             Record(c, p, e), Answer(c, "created")
      PROVE  ServerOK' /\ \A d \in Conn : NoMoreToCome(d)
  <2>1. disk' \in Tree /\ WellFormed(disk')
    BY <1>2, <1>5, ServerFacts, StoredKeeps
  <2>2. rows' \in [Path -> Seq(Entry)] /\ elements' \in [Conn -> Tree]
    BY <1>2, <1>5, ServerFacts, RecordKeeps
  <2> QED BY <1>1, <1>5, <2>1, <2>2, ReplyKinds, AnsweredKeeps
<1> QED BY <1>3, <1>4, <1>5 DEF StoreFile

LEMMA NothingThereKeeps ==
  ASSUME ServerOK, NEW c \in Conn, c2s[c] # <<>>, NEW p \in Path, NothingThere(c, p)
  PROVE  ServerOK' /\ \A d \in Conn : NoMoreToCome(d)
<1>1. CASE JustAnswer(c, "notThere")
  BY <1>1, ReplyKinds, JustAnswerKeeps
<1>2. CASE Forget(c, {p}) /\ Answer(c, "notThere") /\ UNCHANGED disk
  <2>1. rows' \in [Path -> Seq(Entry)] /\ elements' \in [Conn -> Tree]
    BY <1>2, ServerFacts, ForgetKeeps
  <2>2. disk' \in Tree /\ WellFormed(disk')
    BY <1>2, ServerFacts
  <2> QED BY <1>2, <2>1, <2>2, ReplyKinds, AnsweredKeeps
<1> QED BY <1>1, <1>2 DEF NothingThere

LEMMA RemoveFileKeeps ==
  ASSUME ServerOK, NEW c \in Conn, RemoveFile(c)
  PROVE  ServerOK' /\ \A d \in Conn : NoMoreToCome(d)
<1> DEFINE p == Head(c2s[c]).path
<1>1. c2s[c] # <<>>
  BY DEF RemoveFile, Handling
<1>2. p \in Path
  BY <1>1, HeadRequest, ServerFacts
<1>3. CASE NothingThere(c, p)
  BY <1>1, <1>2, <1>3, NothingThereKeeps
<1>4. CASE JustAnswer(c, "remove")
  BY <1>1, <1>4, ReplyKinds, JustAnswerKeeps
<1>5. CASE Fail(c)
  BY <1>1, <1>5, FailKeeps
<1>6. CASE /\ \A q \in Below(p) : ~Exists(disk, q)
           /\ disk' = [disk EXCEPT ![p] = Absent]
           /\ Forget(c, {p})
           /\ Answer(c, "removed")
  <2>1. disk' \in Tree /\ WellFormed(disk')
    BY <1>2, <1>6, ServerFacts, LeafKeeps
  <2>2. rows' \in [Path -> Seq(Entry)] /\ elements' \in [Conn -> Tree]
    BY <1>2, <1>6, ServerFacts, ForgetKeeps
  <2> QED BY <1>1, <1>6, <2>1, <2>2, ReplyKinds, AnsweredKeeps
<1> QED BY <1>3, <1>4, <1>5, <1>6 DEF RemoveFile

LEMMA MakeDirKeeps ==
  ASSUME ServerOK, NEW c \in Conn, MakeDir(c)
  PROVE  ServerOK' /\ \A d \in Conn : NoMoreToCome(d)
<1> DEFINE p == Head(c2s[c]).path
           e == Head(c2s[c]).entry
<1>1. c2s[c] # <<>> /\ Head(c2s[c]).op = "MKD"
  BY DEF MakeDir, Handling
<1>2. p \in Path /\ e \in Entry /\ e.type = "directory"
  BY <1>1, HeadRequest, ServerFacts
<1>3. ASSUME NEW kind \in {"created", "notADir"}, JustAnswer(c, kind) PROVE ServerOK' /\ \A d \in Conn : NoMoreToCome(d)
  BY <1>1, <1>3, ReplyKinds, JustAnswerKeeps
<1>4. CASE Fail(c)
  BY <1>1, <1>4, FailKeeps
<1>5. ASSUME ~IsFile(disk, p), Reachable(disk, p), NEW t \in Time, disk' = MadeDir(p, e, t),
             Record(c, p, e), Answer(c, "created")
      PROVE  ServerOK' /\ \A d \in Conn : NoMoreToCome(d)
  <2>1. disk' \in Tree /\ WellFormed(disk')
    BY <1>2, <1>5, ServerFacts, MadeDirKeeps
  <2>2. rows' \in [Path -> Seq(Entry)] /\ elements' \in [Conn -> Tree]
    BY <1>2, <1>5, ServerFacts, RecordKeeps
  <2> QED BY <1>1, <1>5, <2>1, <2>2, ReplyKinds, AnsweredKeeps
<1> QED BY <1>3, <1>4, <1>5 DEF MakeDir

LEMMA RemoveDirKeeps ==
  ASSUME ServerOK, NEW c \in Conn, RemoveDir(c)
  PROVE  ServerOK' /\ \A d \in Conn : NoMoreToCome(d)
<1> DEFINE p == Head(c2s[c]).path
           Q == {p} \cup (Below(p) \cap Listed(disk))
<1>1. c2s[c] # <<>>
  BY DEF RemoveDir, Handling
<1>2. p \in Path
  BY <1>1, HeadRequest, ServerFacts
<1>3. Q \in SUBSET Path
  BY <1>2 DEF Listed
<1>4. CASE NothingThere(c, p)
  BY <1>1, <1>2, <1>4, NothingThereKeeps
<1>5. CASE JustAnswer(c, "notADir")
  BY <1>1, <1>5, ReplyKinds, JustAnswerKeeps
<1>6. CASE Fail(c)
  BY <1>1, <1>6, FailKeeps
<1>7. CASE disk' = RemoveAll(disk, p) /\ Forget(c, Q) /\ Answer(c, "removed")
  <2>1. disk' \in Tree /\ WellFormed(disk')
    BY <1>2, <1>7, ServerFacts, RemoveKeeps
  <2>2. rows' \in [Path -> Seq(Entry)] /\ elements' \in [Conn -> Tree]
    BY <1>3, <1>7, ServerFacts, ForgetKeeps
  <2> QED BY <1>1, <1>7, <2>1, <2>2, ReplyKinds, AnsweredKeeps
<1> QED BY <1>4, <1>5, <1>6, <1>7 DEF RemoveDir

LEMMA RejectKeeps ==
  ASSUME ServerOK, NEW c \in Conn, Reject(c)
  PROVE  ServerOK' /\ \A d \in Conn : NoMoreToCome(d)
<1>1. /\ c2s[c] # <<>> /\ c2s' = [c2s EXCEPT ![c] = Tail(@)]
      /\ link' = link /\ s2c' = s2c /\ breaks' = breaks /\ outOfStep' = TRUE
      /\ serverUp' = serverUp /\ crashes' = crashes /\ UNCHANGED <<storeVars, sessionVars>>
  BY DEF Reject, serverVars
<1>2. NetTypeOK' /\ \A d \in Conn : NoMoreToCome(d)
  <2>1. outOfStep' \in BOOLEAN
    BY <1>1
  <2> QED BY <1>1, <2>1, ServerFacts, TakeRequest
<1>3. ServerTypeOK'
  <2>1. serverUp' \in BOOLEAN /\ crashes' \in 0 .. MaxCrashes
    BY <1>1, Zenon DEF ServerOK, ServerTypeOK
  <2> QED BY <1>1, <2>1, ServerFacts, StoresStay
<1> QED BY <1>2, <1>3 DEF ServerOK

LEMMA SameMessages ==
  ASSUME NetTypeOK, UNCHANGED netVars
  PROVE  NetTypeOK' /\ \A d \in Conn : NoMoreToCome(d)
<1>1. link' = link /\ c2s' = c2s /\ s2c' = s2c /\ breaks' = breaks /\ outOfStep' = outOfStep
  BY DEF netVars
<1>2. NetTypeOK'
  BY <1>1, Zenon DEF NetTypeOK
<1>3. \A d \in Conn : NoMoreToCome(d)
  BY <1>1, Lengths, InNumbers
<1> QED BY <1>2, <1>3

LEMMA RecoverFromDBKeeps ==
  ASSUME ServerOK, NEW c \in Conn, RecoverFromDB(c)
  PROVE  ServerOK' /\ \A d \in Conn : NoMoreToCome(d)
<1>1. NetTypeOK' /\ \A d \in Conn : NoMoreToCome(d)
  BY ServerFacts, SameMessages DEF RecoverFromDB
<1>2. \A p \in Path : (IF Exists(disk, p) THEN [i \in DOMAIN rows[p] |-> disk[p]] ELSE <<>>) \in Seq(Entry)
  <2> TAKE p \in Path
  <2>1. CASE Exists(disk, p)
    <3>1. rows[p] \in Seq(Entry) /\ disk[p] \in Entry
      BY <2>1, ServerFacts, Entries
    <3> QED BY <2>1, <3>1
  <2> QED BY <2>1
<1>3. rows' \in [Path -> Seq(Entry)]
  BY <1>2 DEF RecoverFromDB
<1>4. [p \in Path |-> IF rows[p] = <<>> THEN Absent ELSE disk[p]] \in Tree
  BY ServerFacts DEF Tree
<1>5. elements' \in [Conn -> Tree]
  BY <1>4, ServerFacts DEF RecoverFromDB
<1>6. /\ serverUp' = serverUp /\ disk' = disk /\ crashes' = crashes
      /\ recovered' = [recovered EXCEPT ![c] = TRUE]
  BY DEF RecoverFromDB
<1>7. recovered' \in [Conn -> BOOLEAN]
  BY <1>6 DEF ServerOK, ServerTypeOK
<1>8. WellFormed(disk')
  BY <1>6, ServerFacts
<1>9. ServerTypeOK'
  BY <1>3, <1>5, <1>6, <1>7, <1>8, Zenon DEF ServerOK, ServerTypeOK
<1> QED BY <1>1, <1>9 DEF ServerOK

\* Connections are closed, and what the client sent on them is dropped.
LEMMA ClosingKeeps ==
  ASSUME NetTypeOK, link' \in [Conn -> {"none", "open", "broken"}], c2s' \in [Conn -> Seq(Request)],
         UNCHANGED <<s2c, breaks, outOfStep>>,
         \A d \in Conn : \/ link'[d] # "open"
                         \/ link'[d] = link[d] /\ c2s'[d] = c2s[d]
  PROVE  NetTypeOK' /\ \A d \in Conn : NoMoreToCome(d)
<1>1. s2c' = s2c /\ breaks' = breaks /\ outOfStep' = outOfStep
  OBVIOUS
<1>2. NetTypeOK'
  BY <1>1, Zenon DEF NetTypeOK
<1>3. ASSUME NEW d \in Conn PROVE NoMoreToCome(d)
  <2>1. /\ Len(s2c[d]) \in Nat /\ Len(c2s[d]) \in Nat /\ Len(s2c'[d]) = Len(s2c[d])
        /\ Len(s2c'[d]) \in Nat /\ Len(c2s'[d]) \in Nat
    BY <1>1, Lengths
  <2>2. CASE link'[d] # "open"
    <3>1. Len(s2c'[d]) <= Len(s2c[d])
      BY <2>1
    <3> QED BY <2>1, <2>2, <3>1, InNumbers
  <2>3. CASE link'[d] = link[d] /\ c2s'[d] = c2s[d]
    <3>1. Len(c2s'[d]) <= Len(c2s[d])
      BY <2>1, <2>3
    <3> QED BY <2>1, <2>3, <3>1, InNumbers
  <2> QED BY <2>2, <2>3
<1> QED BY <1>2, <1>3

LEMMA EndSessionKeeps ==
  ASSUME ServerOK, NEW c \in Conn, EndSession(c)
  PROVE  ServerOK' /\ \A d \in Conn : NoMoreToCome(d)
<1>1. /\ link' = [link EXCEPT ![c] = "none"] /\ c2s' = [c2s EXCEPT ![c] = <<>>]
      /\ UNCHANGED <<s2c, breaks, outOfStep>>
      /\ serverUp' = serverUp /\ crashes' = crashes /\ UNCHANGED <<storeVars, sessionVars>>
  BY DEF EndSession, serverVars
<1>2. NetTypeOK' /\ \A d \in Conn : NoMoreToCome(d)
  <2>1. link' \in [Conn -> {"none", "open", "broken"}] /\ c2s' \in [Conn -> Seq(Request)]
    BY <1>1, ServerFacts DEF NetTypeOK
  <2>2. \A d \in Conn : link'[d] # "open" \/ (link'[d] = link[d] /\ c2s'[d] = c2s[d])
    BY <1>1, ServerFacts DEF NetTypeOK
  <2> QED BY <1>1, <2>1, <2>2, ServerFacts, ClosingKeeps
<1>3. ServerTypeOK'
  <2>1. serverUp' \in BOOLEAN /\ crashes' \in 0 .. MaxCrashes
    BY <1>1, Zenon DEF ServerOK, ServerTypeOK
  <2> QED BY <1>1, <2>1, ServerFacts, StoresStay
<1> QED BY <1>2, <1>3 DEF ServerOK

LEMMA ServeKeeps ==
  ASSUME ServerOK, NEW c \in Conn, Serve(c)
  PROVE  ServerOK' /\ \A d \in Conn : NoMoreToCome(d)
<1>1. CASE RecoverFromDB(c)
  BY <1>1, RecoverFromDBKeeps
<1>2. CASE Reject(c)
  BY <1>2, RejectKeeps
<1>3. CASE EndSession(c)
  BY <1>3, EndSessionKeeps
<1>4. CASE Probe(c)
  BY <1>4, ProbeKeeps
<1>5. CASE StoreFile(c)
  BY <1>5, StoreFileKeeps
<1>6. CASE RemoveFile(c)
  BY <1>6, RemoveFileKeeps
<1>7. CASE MakeDir(c)
  BY <1>7, MakeDirKeeps
<1>8. CASE RemoveDir(c)
  BY <1>8, RemoveDirKeeps
<1> QED BY <1>1, <1>2, <1>3, <1>4, <1>5, <1>6, <1>7, <1>8 DEF Serve
-----------------------------------------------------------------------------
(* Crashes, restarts and broken connections.                                *)
LEMMA HaltKeeps ==
  ASSUME ServerOK, Halt, UNCHANGED s2c, disk' \in Tree, WellFormed(disk')
  PROVE  ServerOK' /\ \A d \in Conn : NoMoreToCome(d)
<1>1. /\ crashes < MaxCrashes /\ serverUp' = FALSE /\ crashes' = crashes + 1
      /\ link' = [d \in Conn |-> IF link[d] = "open" THEN "broken" ELSE link[d]]
      /\ c2s' = [d \in Conn |-> <<>>] /\ UNCHANGED <<s2c, breaks, outOfStep>>
      /\ rows' = rows /\ recovered' = recovered /\ elements' = elements
  BY DEF Halt, sessionVars
<1>2. NetTypeOK' /\ \A d \in Conn : NoMoreToCome(d)
  <2>1. link' \in [Conn -> {"none", "open", "broken"}] /\ c2s' \in [Conn -> Seq(Request)]
    BY <1>1, ServerFacts DEF NetTypeOK
  <2>2. \A d \in Conn : link'[d] # "open"
    BY <1>1, ServerFacts DEF NetTypeOK
  <2> QED BY <1>1, <2>1, <2>2, ServerFacts, ClosingKeeps
<1>3. serverUp' \in BOOLEAN /\ crashes' \in 0 .. MaxCrashes
  <2>1. crashes \in 0 .. MaxCrashes
    BY Zenon DEF ServerOK, ServerTypeOK
  <2>2. crashes' \in 0 .. MaxCrashes
    BY <1>1, <2>1, ServerBounds
  <2>3. serverUp' \in BOOLEAN
    BY <1>1
  <2> QED BY <2>2, <2>3
<1>4. ServerTypeOK'
  BY <1>1, <1>3, Zenon DEF ServerOK, ServerTypeOK
<1> QED BY <1>2, <1>4 DEF ServerOK

LEMMA CrashKeeps ==
  ASSUME ServerOK, Crash
  PROVE  ServerOK' /\ \A d \in Conn : NoMoreToCome(d)
<1>1. disk' \in Tree /\ WellFormed(disk')
  BY ServerFacts DEF Crash
<1> QED BY <1>1, HaltKeeps DEF Crash

\* How a handler that is cut off leaves the folder: the file moved in, directories made
\* up to some point, a directory made and perhaps dated, elements removed.
CutOff(c) ==
    LET p == Head(c2s[c]).path
        e == Head(c2s[c]).entry
        op == Head(c2s[c]).op
    IN  /\ c2s[c] # <<>>
        /\ \E t \in Time :
              \/ /\ op = "STOR" /\ Reachable(disk, p) /\ ~IsDir(disk, p)
                 /\ disk' \in {Stored(p, e, t), Touch(Stored(p, e, t), Parent(p), t)}
              \/ /\ op \in {"STOR", "MKD"}
                 /\ \E a \in Ancestors[p] \cup {p} :
                       /\ a = p => op = "MKD"
                       /\ Reachable(disk, a) /\ ~IsFile(disk, a)
                       /\ disk' = Made(a, t)
              \/ /\ op = "MKD" /\ Reachable(disk, p) /\ ~IsFile(disk, p)
                 /\ disk' \in {[Made(p, t) EXCEPT ![p] = e], MadeDir(p, e, t)}
              \/ /\ op \in {"DELE", "RMD"}
                 /\ \E R \in SUBSET ({p} \cup Below(p)) :
                       /\ op = "DELE" => R = {p}
                       /\ \A r \in R : Below(r) \cap Listed(disk) \subseteq R
                       /\ disk' = Without(R, t)

LEMMA CrashCuts ==
  ASSUME ServerOK, NEW c \in Conn, CrashInHandler(c)
  PROVE  CutOff(c)
<1> DEFINE p == Head(c2s[c]).path
           e == Head(c2s[c]).entry
<1>1. PICK t \in Time, op \in {"STOR", "DELE", "MKD", "RMD"} :
         /\ Handling(c, op)
         /\ \/ /\ op = "STOR" /\ Reachable(disk, p) /\ ~IsDir(disk, p)
               /\ \/ \E a \in Ancestors[p] : disk' = Made(a, t)
                  \/ disk' \in {Stored(p, e, t), Touch(Stored(p, e, t), Parent(p), t)}
            \/ /\ op = "DELE" /\ \A q \in Below(p) : ~Exists(disk, q)
               /\ disk' = Without({p}, t)
            \/ /\ op = "MKD" /\ Reachable(disk, p) /\ ~IsFile(disk, p)
               /\ \/ \E a \in Ancestors[p] \cup {p} : disk' = Made(a, t)
                  \/ disk' \in {[Made(p, t) EXCEPT ![p] = e], MadeDir(p, e, t)}
            \/ /\ op = "RMD"
               /\ \E R \in SUBSET ({p} \cup (Below(p) \cap Listed(disk))) :
                     /\ \A r \in R : Below(r) \cap Listed(disk) \subseteq R
                     /\ disk' = Without(R, t)
  BY Zenon DEF CrashInHandler
<1>2. c2s[c] # <<>> /\ Head(c2s[c]).op = op
  BY <1>1 DEF Handling
<1>3. p \in Path
  BY <1>2, HeadRequest, ServerFacts
<1>4. CASE op = "STOR"
  <2>1. CASE disk' \in {Stored(p, e, t), Touch(Stored(p, e, t), Parent(p), t)}
    BY <1>1, <1>2, <1>4, <2>1 DEF CutOff
  <2>2. ASSUME NEW a \in Ancestors[p], disk' = Made(a, t) PROVE CutOff(c)
    <3>1. a # p /\ Reachable(disk, a) /\ ~IsFile(disk, a)
      BY <1>1, <1>3, <1>4, AncestorsArePaths DEF Reachable
    <3> QED BY <1>2, <1>4, <2>2, <3>1 DEF CutOff
  <2> QED BY <1>1, <1>4, <2>1, <2>2
<1>5. CASE op = "DELE"
  <2>1. \A r \in {p} : Below(r) \cap Listed(disk) \subseteq {p}
    BY <1>1, <1>5 DEF Listed
  <2> QED BY <1>1, <1>2, <1>5, <2>1 DEF CutOff
<1>6. CASE op = "MKD"
  <2>1. CASE disk' \in {[Made(p, t) EXCEPT ![p] = e], MadeDir(p, e, t)}
    BY <1>1, <1>2, <1>6, <2>1 DEF CutOff
  <2>2. ASSUME NEW a \in Ancestors[p] \cup {p}, disk' = Made(a, t) PROVE CutOff(c)
    <3>1. Reachable(disk, a) /\ ~IsFile(disk, a)
      BY <1>1, <1>3, <1>6, AncestorsArePaths DEF Reachable
    <3> QED BY <1>2, <1>6, <2>2, <3>1 DEF CutOff
  <2> QED BY <1>1, <1>6, <2>1, <2>2
<1>7. CASE op = "RMD"
  <2>1. PICK R \in SUBSET ({p} \cup (Below(p) \cap Listed(disk))) :
           (\A r \in R : Below(r) \cap Listed(disk) \subseteq R) /\ disk' = Without(R, t)
    BY <1>1, <1>7
  <2>2. R \in SUBSET ({p} \cup Below(p))
    BY <2>1
  <2> QED BY <1>2, <1>7, <2>1, <2>2 DEF CutOff
<1> QED BY <1>1, <1>4, <1>5, <1>6, <1>7

LEMMA WithoutKeeps ==
  ASSUME disk \in Tree, WellFormed(disk), NEW R \in SUBSET Path, NEW t \in Time,
         \A r \in R : Below(r) \cap Listed(disk) \subseteq R
  PROVE  Without(R, t) \in Tree /\ WellFormed(Without(R, t))
<1> DEFINE tree == [q \in Path |-> IF q \in R THEN Absent ELSE disk[q]]
<1>1. tree \in Tree
  BY DEF Tree
<1>2. ASSUME NEW q \in Path, Exists(tree, q), NEW a \in Ancestors[q] PROVE IsDir(tree, a)
  <2>1. Exists(disk, q) /\ q \notin R /\ a \in Path
    BY <1>2, AncestorsArePaths DEF Exists
  <2>2. IsDir(disk, a) /\ a \notin R
    BY <1>2, <2>1 DEF WellFormed, Below, Listed
  <2> QED BY <2>1, <2>2 DEF IsDir, Exists
<1>3. WellFormed(tree)
  BY <1>2 DEF WellFormed
<1> HIDE DEF tree
<1>4. Touch(tree, UNION {Parent(r) : r \in R}, t) \in Tree /\ WellFormed(Touch(tree, UNION {Parent(r) : r \in R}, t))
  BY <1>1, <1>3, TouchKeeps
<1> QED BY <1>4 DEF Without, tree

LEMMA CrashInHandlerKeeps ==
  ASSUME ServerOK, NEW c \in Conn, CrashInHandler(c)
  PROVE  ServerOK' /\ \A d \in Conn : NoMoreToCome(d)
<1> DEFINE p == Head(c2s[c]).path
           e == Head(c2s[c]).entry
           op == Head(c2s[c]).op
<1>1. Halt /\ UNCHANGED s2c
  BY DEF CrashInHandler
<1>2. c2s[c] # <<>> /\ CutOff(c)
  BY CrashCuts DEF CutOff
<1>3. p \in Path /\ e \in Entry /\ (op = "MKD" => e.type = "directory")
  BY <1>2, HeadRequest, ServerFacts
<1>4. disk' \in Tree /\ WellFormed(disk')
  <2>1. ASSUME NEW t \in Time, Reachable(disk, p), ~IsDir(disk, p),
               disk' \in {Stored(p, e, t), Touch(Stored(p, e, t), Parent(p), t)}
        PROVE  disk' \in Tree /\ WellFormed(disk')
    <3> HIDE DEF p, e
    <3>1. Stored(p, e, t) \in Tree /\ WellFormed(Stored(p, e, t))
      BY <1>3, <2>1, ServerFacts, StoredKeeps
    <3> QED BY <2>1, <3>1, TouchKeeps
  <2>2. ASSUME NEW t \in Time, NEW a \in Ancestors[p] \cup {p}, Reachable(disk, a), ~IsFile(disk, a),
               disk' = Made(a, t)
        PROVE  disk' \in Tree /\ WellFormed(disk')
    <3>1. a \in Path
      BY <1>3, AncestorsArePaths
    <3> QED BY <2>2, <3>1, ServerFacts, MadeKeeps
  <2>3. ASSUME NEW t \in Time, op = "MKD", Reachable(disk, p), ~IsFile(disk, p),
               disk' \in {[Made(p, t) EXCEPT ![p] = e], MadeDir(p, e, t)}
        PROVE  disk' \in Tree /\ WellFormed(disk')
    <3>0. e.type = "directory"
      BY <1>3, <2>3
    <3> HIDE DEF p, e
    <3>1. Made(p, t) \in Tree /\ WellFormed(Made(p, t)) /\ IsDir(Made(p, t), p)
      BY <1>3, <2>3, ServerFacts, MadeKeeps
    <3>2. MadeDir(p, e, t) \in Tree /\ WellFormed(MadeDir(p, e, t))
      BY <1>3, <2>3, <3>0, ServerFacts, MadeDirKeeps
    <3>3. [Made(p, t) EXCEPT ![p] = e] \in Tree
      BY <1>3, <3>1 DEF Tree
    <3>4. \A q \in Path : /\ Exists([Made(p, t) EXCEPT ![p] = e], q) => Exists(Made(p, t), q)
                          /\ IsDir(Made(p, t), q) => IsDir([Made(p, t) EXCEPT ![p] = e], q)
      BY <1>3, <3>0, <3>1, EntryTypes DEF IsDir, Exists, Tree
    <3>5. WellFormed([Made(p, t) EXCEPT ![p] = e])
      BY <3>1, <3>4, TreeAssumption DEF WellFormed
    <3> QED BY <2>3, <3>2, <3>3, <3>5
  <2>4. ASSUME NEW t \in Time, NEW R \in SUBSET ({p} \cup Below(p)),
               \A r \in R : Below(r) \cap Listed(disk) \subseteq R, disk' = Without(R, t)
        PROVE  disk' \in Tree /\ WellFormed(disk')
    <3>1. R \in SUBSET Path
      BY <1>3 DEF Below
    <3> QED BY <2>4, <3>1, ServerFacts, WithoutKeeps
  <2> QED BY <1>2, <2>1, <2>2, <2>3, <2>4 DEF CutOff
<1> QED BY <1>1, <1>4, HaltKeeps

LEMMA RestartKeeps ==
  ASSUME ServerOK, Restart
  PROVE  ServerOK' /\ \A d \in Conn : NoMoreToCome(d)
<1>1. /\ serverUp' = TRUE /\ crashes' = crashes /\ link' = [d \in Conn |-> "none"]
      /\ c2s' = c2s /\ UNCHANGED <<s2c, breaks, outOfStep>> /\ UNCHANGED <<storeVars, sessionVars>>
  BY DEF Restart
<1>2. NetTypeOK' /\ \A d \in Conn : NoMoreToCome(d)
  <2>1. link' \in [Conn -> {"none", "open", "broken"}] /\ c2s' \in [Conn -> Seq(Request)]
    BY <1>1, ServerFacts DEF NetTypeOK
  <2>2. \A d \in Conn : link'[d] # "open"
    BY <1>1
  <2> QED BY <1>1, <2>1, <2>2, ServerFacts, ClosingKeeps
<1>3. ServerTypeOK'
  <2>1. serverUp' \in BOOLEAN /\ crashes' \in 0 .. MaxCrashes
    BY <1>1 DEF ServerOK, ServerTypeOK
  <2> QED BY <1>1, <2>1, ServerFacts, StoresStay
<1> QED BY <1>2, <1>3 DEF ServerOK

LEMMA PrefixesOf ==
  ASSUME NEW S, NEW s \in Seq(S), NEW u \in Prefixes(s)
  PROVE  u \in Seq(S) /\ Len(u) <= Len(s)
<1>1. PICK n \in 0 .. Len(s) : u = SubSeq(s, 1, n)
  BY DEF Prefixes
<1> QED BY <1>1

LEMMA BreakKeeps ==
  ASSUME NetTypeOK, NEW c \in Conn, Break(c)
  PROVE  NetTypeOK' /\ \A d \in Conn : NoMoreToCome(d)
<1>1. c2s[c] \in Seq(Request) /\ s2c[c] \in Seq(Reply)
  BY DEF NetTypeOK
<1>2. PICK s \in Seq(Request), u \in Seq(Reply) :
         /\ c2s' = [c2s EXCEPT ![c] = s] /\ s2c' = [s2c EXCEPT ![c] = u] /\ Len(u) <= Len(s2c[c])
  BY <1>1, PrefixesOf DEF Break
<1>3. /\ breaks < MaxBreaks /\ breaks' = breaks + 1 /\ outOfStep' = outOfStep
      /\ link' = [link EXCEPT ![c] = "broken"]
  BY DEF Break
<1>4. /\ c2s' \in [Conn -> Seq(Request)] /\ s2c' \in [Conn -> Seq(Reply)]
      /\ link' \in [Conn -> {"none", "open", "broken"}] /\ breaks' \in 0 .. MaxBreaks
  BY <1>2, <1>3, ServerBounds DEF NetTypeOK
<1>5. NetTypeOK'
  BY <1>3, <1>4, Zenon DEF NetTypeOK
<1>6. ASSUME NEW d \in Conn PROVE NoMoreToCome(d)
  <2>1. /\ Len(s2c[d]) \in Nat /\ Len(c2s[d]) \in Nat
        /\ Len(s2c'[d]) \in Nat /\ Len(c2s'[d]) \in Nat
    BY <1>4, Lengths
  <2>2. CASE d = c
    <3>1. link'[d] # "open" /\ s2c'[d] = u
      BY <1>2, <1>3, <2>2 DEF NetTypeOK
    <3>2. Len(s2c'[d]) <= Len(s2c[d])
      BY <1>2, <2>2, <3>1
    <3> QED BY <2>1, <3>1, <3>2, InNumbers
  <2>3. CASE d # c
    <3>1. link'[d] = link[d] /\ s2c'[d] = s2c[d] /\ c2s'[d] = c2s[d]
      BY <1>2, <1>3, <2>3 DEF NetTypeOK
    <3>2. Len(c2s'[d]) <= Len(c2s[d]) /\ Len(s2c'[d]) = Len(s2c[d])
      BY <2>1, <3>1
    <3> QED BY <2>1, <3>1, <3>2, InNumbers
  <2> QED BY <2>2, <2>3
<1> QED BY <1>5, <1>6
-----------------------------------------------------------------------------
LEMMA WatcherBounds == QueueSize \in Nat /\ MaxEdits \in Nat
  BY WatcherAssumption

\* The first two passes only visit what the watcher knows.
VisitsKnown == scan.pass \in {"recover", "deleted"} => \A p \in scan.todo : Exists(known, p)
WatcherOK == WatcherTypeOK /\ VisitsKnown
-----------------------------------------------------------------------------
(* The user and the watcher.                                                *)
LEMMA EventTypes ==
  \A type \in EventType, p \in Path, e \in Entry : Event(type, p, e) \in Events
  BY DEF Event, Events

LEMMA WriteKeeps ==
  ASSUME WatcherTypeOK, NEW p \in Path, NEW h \in Hash, NEW t \in Time, WriteFile(p, h, t)
  PROVE  folder' \in Tree /\ WellFormed(folder')
<1> DEFINE written == [folder EXCEPT ![p] = File(h, t)]
<1>1. File(h, t) \in Entry /\ folder \in Tree /\ WellFormed(folder)
  BY EntryTypes DEF WatcherTypeOK
<1>2. written \in Tree /\ WellFormed(written)
  BY <1>1, PutWellFormed DEF WriteFile
<1>3. folder' = IF Exists(folder, p) THEN written ELSE Touch(written, Parent(p), t)
  BY DEF WriteFile, Edit
<1> HIDE DEF written
<1> QED BY <1>2, <1>3, TouchKeeps

LEMMA MakeDirectoryKeeps ==
  ASSUME WatcherTypeOK, NEW p \in Path, NEW t \in Time, MakeDirectory(p, t)
  PROVE  folder' \in Tree /\ WellFormed(folder')
<1>1. folder \in Tree /\ WellFormed(folder)
  BY DEF WatcherTypeOK
<1>2. folder' = IF Exists(folder, p) THEN Touch(folder, {p}, t)
                                     ELSE CreateDirectories(folder, {p}, t)
  BY DEF MakeDirectory, Edit
<1>3. CreateDirectories(folder, {p}, t) \in Tree
  <2>1. {p} \in SUBSET Path
    OBVIOUS
  <2> QED BY <1>1, <2>1, CreateKeeps, Zenon
<1>4. WellFormed(CreateDirectories(folder, {p}, t))
  BY <1>1, CreateWellFormed DEF MakeDirectory
<1> QED BY <1>1, <1>2, <1>3, <1>4, TouchKeeps

LEMMA RemovalKeeps ==
  ASSUME WatcherTypeOK, NEW p \in Path, NEW t \in Time
  PROVE  Removal(p, t) \in Tree /\ WellFormed(Removal(p, t))
<1>1. RemoveAll(folder, p) \in Tree /\ WellFormed(RemoveAll(folder, p))
  BY RemoveKeeps DEF WatcherTypeOK
<1> QED BY <1>1, TouchKeeps DEF Removal

LEMMA UserKeeps ==
  ASSUME WatcherTypeOK, User
  PROVE  WatcherTypeOK'
<1>1. folder' \in Tree /\ WellFormed(folder')
  <2>1. CASE \E p \in Path, t \in Time, h \in Hash : WriteFile(p, h, t)
    BY <2>1, WriteKeeps
  <2>2. CASE \E p \in Path, t \in Time : MakeDirectory(p, t)
    BY <2>2, MakeDirectoryKeeps
  <2>3. CASE \E p \in Path, t \in Time : Remove(p, t)
    BY <2>3, RemovalKeeps DEF Remove, Edit
  <2> QED BY <2>1, <2>2, <2>3 DEF User
<1>2. WellFormed(folder)' = WellFormed(folder')
  BY DEF WellFormed, Exists, IsDir
<1>3. /\ edits' \in 0 .. MaxEdits /\ flipped' \subseteq Path
      /\ known' = known /\ scan' = scan /\ queue' = queue
  <2>1. \E tree \in Tree : Edit(tree)
    <3>1. \E tree : Edit(tree)
      BY Zenon DEF User, WriteFile, MakeDirectory, Remove
    <3> QED BY <1>1, <3>1 DEF Edit
  <2>2. edits' \in 0 .. MaxEdits /\ flipped' \subseteq Path
    BY <2>1, WatcherBounds DEF WatcherTypeOK, Edit
  <2> QED BY <2>2 DEF User, WriteFile, MakeDirectory, Remove
<1>4. /\ known' \in Tree /\ scan' \in [pass : Pass, todo : SUBSET Path]
      /\ queue' \in Seq(Events) /\ Len(queue') <= QueueSize
  BY <1>3, Zenon DEF WatcherTypeOK
<1> QED BY <1>1, <1>2, <1>3, <1>4, Zenon DEF WatcherTypeOK

LEMMA VanishKeeps ==
  ASSUME WatcherTypeOK, NEW p \in Path, NEW t \in Time, VanishUnderExamination(p, t)
  PROVE  WatcherTypeOK'
<1>1. folder' \in Tree /\ WellFormed(folder')
  BY RemovalKeeps DEF VanishUnderExamination, Edit
<1>2. WellFormed(folder)' = WellFormed(folder')
  BY DEF WellFormed, Exists, IsDir
<1>3. scan' \in [pass : Pass, todo : SUBSET Path]
  BY DEF VanishUnderExamination, Begin, Pass
<1>4. queue' \in Seq(Events) /\ Len(queue') <= QueueSize
  BY WatcherBounds DEF VanishUnderExamination
<1>5. edits' \in 0 .. MaxEdits /\ flipped' \subseteq Path /\ known' \in Tree
  BY WatcherBounds DEF WatcherTypeOK, VanishUnderExamination, Edit
<1> QED BY <1>1, <1>2, <1>3, <1>4, <1>5 DEF WatcherTypeOK

LEMMA ReportKeeps ==
  ASSUME WatcherTypeOK, NEW type \in EventType, NEW p \in Path, NEW e \in Entry,
         NEW k \in Entry \cup {Absent}, Report(type, p, e, k)
  PROVE  known' \in Tree /\ queue' \in Seq(Events) /\ Len(queue') <= QueueSize
<1>1. CASE HasRoom
  <2>1. queue' = Append(queue, Event(type, p, e)) /\ known' = [known EXCEPT ![p] = k]
    BY <1>1 DEF Report
  <2> QED BY <1>1, <2>1, EventTypes, WatcherBounds DEF WatcherTypeOK, HasRoom, Tree
<1>2. CASE ~HasRoom
  BY <1>2 DEF Report, WatcherTypeOK
<1> QED BY <1>1, <1>2

LEMMA WatchKeeps ==
  ASSUME WatcherOK, Watch
  PROVE  WatcherOK'
<1> DEFINE QueueOK == known' \in Tree /\ queue' \in Seq(Events) /\ Len(queue') <= QueueSize
           ScanOK == scan' \in [pass : Pass, todo : SUBSET Path]
           FolderSame == folder' = folder /\ edits' = edits /\ flipped' = flipped
<1>1. ASSUME NEW Q, Done(Q)
      PROVE  ScanOK /\ scan'.pass = scan.pass /\ scan'.todo = scan.todo \ Q
  BY <1>1 DEF WatcherOK, WatcherTypeOK, Done
<1>2. /\ \A p \in Path : Exists(known, p) => known[p] \in Entry
      /\ \A p \in Path : Exists(folder, p) => folder[p] \in Entry
      /\ queue \in Seq(Events) /\ Len(queue) <= QueueSize /\ known \in Tree
      /\ WatcherTypeOK /\ VisitsKnown
  BY DEF WatcherOK, WatcherTypeOK, Tree, Exists
<1>3. {"created", "modified", "deleted"} \subseteq EventType
  BY DEF EventType
<1> HIDE DEF QueueOK, ScanOK, FolderSame
<1>4. ASSUME NEW p \in Path, VisitRecover(p)
      PROVE  QueueOK /\ ScanOK /\ FolderSame /\ VisitsKnown'
  <2>1. ScanOK /\ known' = known /\ scan'.pass = scan.pass /\ scan'.todo \subseteq scan.todo
    BY <1>1, <1>4 DEF VisitRecover
  <2>2. FolderSame /\ VisitsKnown'
    BY <1>2, <1>4, <2>1 DEF VisitRecover, folderVars, FolderSame, VisitsKnown, Exists
  <2>3. Exists(known, p)
    BY <1>2, <1>4 DEF VisitRecover, Turn, VisitsKnown
  <2>4. CASE queue' = queue
    BY <1>2, <2>1, <2>2, <2>4 DEF QueueOK
  <2>5. CASE HasRoom /\ queue' = Append(queue, Event("modified", p, known[p]))
    <3>1. Event("modified", p, known[p]) \in Events
      BY <1>2, <1>3, <2>3, EventTypes
    <3> QED BY <1>2, <2>1, <2>2, <2>5, <3>1, WatcherBounds DEF HasRoom, QueueOK
  <2> QED BY <1>4, <2>1, <2>2, <2>4, <2>5 DEF VisitRecover
<1>5. ASSUME NEW p \in Path, VisitDeleted(p)
      PROVE  QueueOK /\ ScanOK /\ FolderSame /\ VisitsKnown'
  <2>1. ScanOK /\ FolderSame /\ scan'.pass = scan.pass /\ scan'.todo = scan.todo \ {p}
    BY <1>1, <1>5 DEF VisitDeleted, folderVars, FolderSame
  <2>2. Exists(known, p)
    BY <1>2, <1>5 DEF VisitDeleted, Turn, VisitsKnown
  <2>3. CASE known' = known /\ queue' = queue
    BY <1>2, <2>1, <2>3 DEF QueueOK, VisitsKnown, Exists
  <2>4. CASE Report("deleted", p, known[p], Absent)
    <3>1. QueueOK
      BY <1>2, <1>3, <2>2, <2>4, ReportKeeps DEF QueueOK
    <3>2. \A q \in Path \ {p} : known'[q] = known[q]
      BY <1>2, <2>4 DEF Report, Tree
    <3>3. VisitsKnown'
      BY <1>2, <2>1, <3>2 DEF VisitsKnown, Exists, WatcherTypeOK
    <3> QED BY <2>1, <3>1, <3>3
  <2> QED BY <1>5, <2>3, <2>4 DEF VisitDeleted
<1>6. ASSUME NEW p \in Path, VisitPresent(p)
      PROVE  QueueOK /\ ScanOK /\ FolderSame /\ VisitsKnown'
  <2>1. ScanOK /\ scan'.pass = "present"
    <3>1. PICK Q : Done(Q)
      BY <1>6 DEF VisitPresent
    <3> QED BY <1>1, <1>6, <3>1 DEF VisitPresent, Turn
  <2>2. FolderSame /\ VisitsKnown'
    BY <1>6, <2>1 DEF VisitPresent, folderVars, FolderSame, VisitsKnown
  <2>3. CASE known' = known /\ queue' = queue
    BY <1>2, <2>1, <2>2, <2>3 DEF QueueOK
  <2>4. CASE Report(IF Exists(known, p) THEN "modified" ELSE "created", p, folder[p], folder[p])
             /\ Exists(folder, p)
    BY <1>2, <1>3, <2>1, <2>2, <2>4, ReportKeeps DEF QueueOK
  <2> QED BY <1>6, <2>3, <2>4 DEF VisitPresent, Exists
<1>7. ASSUME NextPass
      PROVE  QueueOK /\ ScanOK /\ FolderSame /\ VisitsKnown'
  <2>1. ScanOK /\ FolderSame /\ known' = known /\ queue' = queue
    BY <1>2, <1>7 DEF NextPass, Begin, Pass, Listed, folderVars, ScanOK, FolderSame
  <2>2. VisitsKnown'
    BY <1>7, <2>1 DEF NextPass, Begin, Listed, VisitsKnown, Exists
  <2> QED BY <1>2, <2>1, <2>2 DEF QueueOK
<1>8. QueueOK /\ ScanOK /\ FolderSame /\ VisitsKnown'
  BY <1>4, <1>5, <1>6, <1>7 DEF Watch
<1>9. WellFormed(folder')
  BY <1>2, <1>8 DEF FolderSame, WatcherTypeOK
<1> QED BY <1>2, <1>8, <1>9 DEF WatcherOK, WatcherTypeOK, QueueOK, ScanOK, FolderSame

LEMMA UserKeepsOK ==
  ASSUME WatcherOK, User
  PROVE  WatcherOK'
<1>1. scan' = scan /\ known' = known
  BY DEF User, WriteFile, MakeDirectory, Remove
<1> QED BY <1>1, UserKeeps, Zenon DEF WatcherOK, VisitsKnown, Exists

LEMMA WatcherStays ==
  ASSUME WatcherOK, UNCHANGED watcherVars
  PROVE  WatcherOK'
<1>1. /\ folder' = folder /\ known' = known /\ scan' = scan /\ queue' = queue
      /\ edits' = edits /\ flipped' = flipped
  BY DEF watcherVars
<1> QED BY <1>1, Zenon DEF WatcherOK, WatcherTypeOK, VisitsKnown, Exists, WellFormed, IsDir

\* What happens to the watcher when the process ends, and when it starts again.
LEMMA WatcherEnds ==
  ASSUME WatcherOK, scan' = Begin("stopped", {}), queue' = <<>>, UNCHANGED <<known, folderVars>>
  PROVE  WatcherOK'
<1>1. folder' = folder /\ known' = known /\ edits' = edits /\ flipped' = flipped
  BY DEF folderVars
<1>2. scan' \in [pass : Pass, todo : SUBSET Path] /\ scan'.pass = "stopped"
  BY DEF Begin, Pass
<1>3. queue' \in Seq(Events) /\ Len(queue') <= QueueSize
  BY WatcherBounds
<1>4. WellFormed(folder')
  BY <1>1 DEF WatcherOK, WatcherTypeOK
<1> QED BY <1>1, <1>2, <1>3, <1>4 DEF WatcherOK, WatcherTypeOK, VisitsKnown

LEMMA WatcherStarts ==
  ASSUME WatcherOK, NEW tree \in Tree, known' = tree,
         scan' = Begin("recover", Listed(tree)), UNCHANGED <<queue, folderVars>>
  PROVE  WatcherOK'
<1>1. folder' = folder /\ queue' = queue /\ edits' = edits /\ flipped' = flipped
  BY DEF folderVars
<1>2. scan' \in [pass : Pass, todo : SUBSET Path] /\ scan'.todo = Listed(tree)
  BY DEF Begin, Pass, Listed
<1>3. WellFormed(folder')
  BY <1>1 DEF WatcherOK, WatcherTypeOK
<1>4. VisitsKnown'
  BY <1>2 DEF VisitsKnown, Listed, Exists
<1> QED BY <1>1, <1>2, <1>3, <1>4, Zenon DEF WatcherOK, WatcherTypeOK

LEMMA VanishKeepsOK ==
  ASSUME WatcherOK, NEW p \in Path, NEW t \in Time, VanishUnderExamination(p, t)
  PROVE  WatcherOK'
<1>1. scan'.pass = "stopped"
  BY DEF VanishUnderExamination, Begin
<1> QED BY <1>1, VanishKeeps DEF WatcherOK, VisitsKnown

LEMMA WatcherStartsWell == WatcherInit => WatcherOK
<1> SUFFICES ASSUME WatcherInit PROVE WatcherOK
  OBVIOUS
<1>1. WatcherTypeOK
  <2>1. scan \in [pass : Pass, todo : SUBSET Path]
    BY DEF WatcherInit, Begin, Pass, Listed
  <2> QED BY <2>1, WatcherAssumption DEF WatcherInit, WatcherTypeOK
<1>2. VisitsKnown
  BY DEF WatcherInit, VisitsKnown, Begin, Listed
<1> QED BY <1>1, <1>2 DEF WatcherOK
-----------------------------------------------------------------------------
(* The client's thread.                                                     *)

Control == /\ conn = NoConn <=> pc \in {"off", "down"}
           /\ pc = "resend" => at \in 1 .. Len(window) + 1
           /\ pc = "resendData" => at \in 1 .. Len(window)
           /\ pc = "store" => Len(cur) = 1 /\ Len(window) < WindowSize
           /\ pc = "storeData" => window # <<>>

\* All that the client and the network are part of.
ClientOK == WatcherOK /\ ClientTypeOK /\ Control /\ NetTypeOK /\ NoReplyWithoutEvent

LEMMA ClientBounds == /\ WindowSize \in Nat /\ MaxRestarts \in Nat /\ MaxBreaks \in Nat
                      /\ NoConn \notin Conn
  BY NetAssumption, ClientAssumption
-----------------------------------------------------------------------------
(* Messages.                                                                *)
LEMMA RequestTypes ==
  ASSUME NEW ev \in Events
  PROVE  RequestOf(ev) \in Request
<1>1. ev.entry \in Entry /\ ev.path \in Path
  BY DEF Events
<1>2. ev.entry.type \in {"file", "directory"}
  BY <1>1, EntryTypes
<1>3. OpOf(ev) \in Op /\ (OpOf(ev) \in {"MKD", "RMD"} <=> ev.entry.type = "directory")
  BY <1>2 DEF OpOf, Op
<1> QED BY <1>1, <1>3 DEF RequestOf, Request

LEMMA AnyRequest ==
  ASSUME NEW r \in Request
  PROVE  /\ r.op \in Op /\ r.path \in Path /\ r.entry \in Entry
         /\ r.op \in {"MKD", "RMD"} <=> r.entry.type = "directory"
  BY DEF Request

LEMMA TransmitKeeps ==
  ASSUME NetTypeOK, NEW c \in Conn, NEW r \in Request, Transmit(c, r)
  PROVE  /\ c2s' \in [Conn -> Seq(Request)]
         /\ Len(c2s'[c]) \in Nat /\ Len(c2s[c]) \in Nat
         /\ link[c] = "open" => Len(c2s'[c]) = Len(c2s[c]) + 1
  BY DEF NetTypeOK, Transmit

LEMMA AttachKeeps ==
  ASSUME NetTypeOK, WatcherOK, conn \in Conn, NEW p \in Path, Exists(folder, p), AttachData(p)
  PROVE  /\ c2s' \in [Conn -> Seq(Request)]
         /\ Len(c2s'[conn]) \in Nat
         /\ Len(c2s'[conn]) = Len(c2s[conn])
<1>1. folder[p].hash \in Hash \cup {NoHash}
  BY EntryTypes DEF WatcherOK, WatcherTypeOK, Tree, Exists
<1> DEFINE s == c2s[conn]
           n == Len(s)
           h == folder[p].hash
           with == [s EXCEPT ![n].data = h]
<1>2. s \in Seq(Request) /\ n \in Nat
  BY DEF NetTypeOK
<1>3. \A r \in Request : [r EXCEPT !.data = h] \in Request
  BY <1>1 DEF Request
<1> HIDE DEF h, s
<1>4. with \in Seq(Request) /\ Len(with) = n
  <2>1. with = [i \in 1 .. n |-> IF i = n THEN [s[n] EXCEPT !.data = h] ELSE s[i]]
    BY <1>2
  <2>2. \A i \in 1 .. n : (IF i = n THEN [s[n] EXCEPT !.data = h] ELSE s[i]) \in Request
    BY <1>2, <1>3
  <2> HIDE DEF with
  <2> QED BY <1>2, <2>1, <2>2
<1>5. c2s' = IF link[conn] = "open" THEN [c2s EXCEPT ![conn] = with] ELSE c2s
  BY DEF AttachData, s, h
<1> HIDE DEF with, n
<1> QED BY <1>2, <1>4, <1>5 DEF NetTypeOK, s, n

LEMMA PathsOfEvents ==
  ASSUME NEW s \in Seq(Events)
  PROVE  \A i \in DOMAIN s : s[i] \in Events /\ s[i].path \in Path
<1>1. \A i \in DOMAIN s : s[i] \in Events
  OBVIOUS
<1> QED BY <1>1 DEF Events

\* What ClientOK says, for the leaves below.
LEMMA ClientFacts ==
  ASSUME ClientOK
  PROVE  /\ window \in Seq(Events) /\ Len(window) \in Nat /\ Len(window) <= WindowSize
         /\ cur \in Seq(Events) /\ Len(cur) <= 1
         /\ queue \in Seq(Events) /\ Len(queue) <= QueueSize
         /\ at \in Nat /\ pc \in Place
         /\ clientDb \in Tree /\ excused \subseteq Path /\ doubtful \subseteq Path
         /\ restarts \in 0 .. MaxRestarts
         /\ conn \in Conn \cup {NoConn}
         /\ conn # NoConn => conn \in Conn
         /\ pc \notin {"off", "down"} => conn # NoConn
         /\ s2c \in [Conn -> Seq(Reply)] /\ c2s \in [Conn -> Seq(Request)]
         /\ link \in [Conn -> {"none", "open", "broken"}]
         /\ \A c \in Conn : Len(s2c[c]) \in Nat /\ Len(c2s[c]) \in Nat
         /\ breaks \in 0 .. MaxBreaks /\ outOfStep \in BOOLEAN
<1> USE DEF ClientOK
<1>1. \A c \in Conn : Len(s2c[c]) \in Nat /\ Len(c2s[c]) \in Nat
  BY DEF NetTypeOK
<1> QED BY <1>1, ClientBounds DEF ClientTypeOK, NetTypeOK, Control, WatcherOK, WatcherTypeOK

-----------------------------------------------------------------------------
(* Without a connection.                                                    *)
LEMMA HangUpKeeps ==
  ASSUME ClientOK, conn # NoConn, HangUp,
         link' \in [Conn -> {"none", "open", "broken"}], excused' \subseteq Path
  PROVE  ClientOK'
<1>1. WatcherOK'
  BY WatcherStays DEF HangUp, ClientOK
<1>2. s2c' \in [Conn -> Seq(Reply)]
  BY ClientFacts DEF HangUp
<1>3. NetTypeOK'
  BY <1>2, ClientFacts, Zenon DEF HangUp, NetTypeOK
<1>4. ClientTypeOK'
  <2>1. cur' \in Seq(Events) /\ Len(cur') <= 1 /\ at' \in Nat /\ pc' \in Place
    BY DEF HangUp, Place
  <2> QED BY <2>1, ClientFacts, Zenon DEF HangUp, ClientTypeOK
<1>5. Control' /\ NoReplyWithoutEvent'
  BY DEF HangUp, Control, NoReplyWithoutEvent
<1> QED BY <1>1, <1>3, <1>4, <1>5 DEF ClientOK

LEMMA LoseConnectionKeeps ==
  ASSUME ClientOK, LoseConnection
  PROVE  ClientOK'
<1>1. link' \in [Conn -> {"none", "open", "broken"}]
  BY ClientFacts DEF LoseConnection
<1>2. excused' \subseteq Path
  BY ClientFacts, PathsOfEvents DEF LoseConnection
<1> QED BY <1>1, <1>2, HangUpKeeps DEF LoseConnection

LEMMA DisconnectKeeps ==
  ASSUME ClientOK, Disconnect
  PROVE  ClientOK'
<1>1. link' \in [Conn -> {"none", "open", "broken"}]
  BY ClientFacts DEF Disconnect
<1>2. excused' \subseteq Path /\ conn # NoConn
  BY ClientFacts DEF Disconnect
<1> QED BY <1>1, <1>2, HangUpKeeps DEF Disconnect

LEMMA StopKeeps ==
  ASSUME ClientOK, WatcherOK', Stop
  PROVE  ClientOK'
<1>1. NetTypeOK'
  <2>1. link' \in [Conn -> {"none", "open", "broken"}]
    BY ClientFacts DEF Stop
  <2>2. s2c' \in [Conn -> Seq(Reply)]
    BY ClientFacts DEF Stop
  <2> QED BY <2>1, <2>2, ClientFacts, Zenon DEF Stop, NetTypeOK
<1>2. ClientTypeOK'
  <2>1. InDoubt \subseteq Path
    BY ClientFacts, PathsOfEvents DEF InDoubt
  <2>2. cur' \in Seq(Events) /\ Len(cur') <= 1 /\ at' \in Nat /\ pc' \in Place
    BY DEF Stop, Place
  <2>3. window' \in Seq(Events) /\ Len(window') <= WindowSize
    BY ClientBounds DEF Stop
  <2>4. doubtful' \subseteq Path
    BY <2>1, ClientFacts DEF Stop
  <2> QED BY <2>2, <2>3, <2>4, ClientFacts, Zenon DEF Stop, ClientTypeOK
<1>3. Control' /\ NoReplyWithoutEvent'
  BY DEF Stop, Control, NoReplyWithoutEvent
<1> QED BY <1>1, <1>2, <1>3 DEF ClientOK

LEMMA StopAllKeeps ==
  ASSUME ClientOK, StopAll
  PROVE  ClientOK'
<1>1. WatcherOK'
  BY WatcherEnds DEF StopAll, ClientOK
<1> QED BY <1>1, StopKeeps DEF StopAll

LEMMA StartClientKeeps ==
  ASSUME ClientOK, StartClient
  PROVE  ClientOK'
<1>1. WatcherOK'
  BY ClientFacts, WatcherStarts DEF StartClient, ClientOK
<1>2. NetTypeOK'
  BY ClientFacts, Zenon DEF StartClient, netVars, NetTypeOK
<1>3. ClientTypeOK'
  <2>1. pc' \in Place /\ restarts' \in 0 .. MaxRestarts
    BY ClientFacts, ClientBounds DEF StartClient, Place
  <2> QED BY <2>1, ClientFacts, Zenon DEF StartClient, ClientTypeOK
<1>4. conn' = NoConn /\ pc' = "off"
  BY DEF StartClient, ClientOK, Control
<1>5. Control' /\ NoReplyWithoutEvent'
  BY <1>4 DEF Control, NoReplyWithoutEvent
<1> QED BY <1>1, <1>2, <1>3, <1>5 DEF ClientOK

LEMMA ConnectKeeps ==
  ASSUME ClientOK, NEW c \in Conn, Connect(c)
  PROVE  ClientOK'
<1>1. WatcherOK'
  BY WatcherStays DEF Connect, ConnectTo, ClientOK
<1>2. NetTypeOK'
  <2>1. /\ link' \in [Conn -> {"none", "open", "broken"}]
        /\ c2s' \in [Conn -> Seq(Request)] /\ s2c' \in [Conn -> Seq(Reply)]
    BY ClientFacts DEF Connect, Accept
  <2> QED BY <2>1, ClientFacts, Zenon DEF Connect, NetTypeOK
<1>3. ClientTypeOK'
  <2>1. pc' \in Place /\ at' \in Nat /\ conn' \in Conn \cup {NoConn}
    BY DEF Connect, ConnectTo, Place
  <2> QED BY <2>1, ClientFacts, Zenon DEF Connect, ConnectTo, ClientTypeOK
<1>4. conn' = c /\ pc' = "resend" /\ at' = 1 /\ window' = window
      /\ s2c'[c] = <<>> /\ c2s'[c] = <<>>
  BY ClientFacts DEF Connect, ConnectTo
<1>5. Control'
  BY <1>4, ClientFacts, ClientBounds DEF Control
<1>6. NoReplyWithoutEvent'
  BY <1>4 DEF NoReplyWithoutEvent, Outstanding, Sent
<1> QED BY <1>1, <1>2, <1>3, <1>5, <1>6 DEF ClientOK

-----------------------------------------------------------------------------
(* On a connection: what a step has to show.                                *)
LEMMA StepKeeps ==
  ASSUME ClientOK, WatcherOK', conn # NoConn,
         conn' = conn, link' = link, breaks' = breaks, outOfStep' \in BOOLEAN,
         restarts' = restarts, doubtful' = doubtful, clientDb' \in Tree, excused' \subseteq Path,
         c2s' \in [Conn -> Seq(Request)], s2c' \in [Conn -> Seq(Reply)],
         pc' \in Place \ {"off", "down"}, at' \in Nat,
         cur' \in Seq(Events), Len(cur') <= 1,
         window' \in Seq(Events), Len(window') <= WindowSize,
         pc' = "resend" => at' \in 1 .. Len(window') + 1,
         pc' = "resendData" => at' \in 1 .. Len(window'),
         pc' = "store" => Len(cur') = 1 /\ Len(window') < WindowSize,
         pc' = "storeData" => window' # <<>>,
         Outstanding' <= Sent'
  PROVE  ClientOK'
<1>1. NetTypeOK'
  BY ClientFacts, Zenon DEF NetTypeOK
<1>2. ClientTypeOK'
  BY ClientFacts, Zenon DEF ClientTypeOK
<1>3. Control'
  BY Zenon DEF Control
<1>4. NoReplyWithoutEvent'
  BY Zenon DEF NoReplyWithoutEvent
<1> QED BY <1>1, <1>2, <1>3, <1>4 DEF ClientOK

\* The events sent and the replies to come, before the step.
LEMMA OnConnection ==
  ASSUME ClientOK, pc \notin {"off", "down"}
  PROVE  /\ conn # NoConn /\ conn \in Conn
         /\ Len(s2c[conn]) \in Nat /\ Len(c2s[conn]) \in Nat
         /\ Sent = CASE pc = "resend" -> at - 1 [] pc = "resendData" -> at [] OTHER -> Len(window)
         /\ link[conn] = "open" => Len(s2c[conn]) + Len(c2s[conn]) <= Sent
         /\ link[conn] # "open" => Len(s2c[conn]) <= Sent
<1>1. conn # NoConn /\ conn \in Conn
  BY ClientFacts
<1>2. Outstanding <= Sent
  BY <1>1 DEF ClientOK, NoReplyWithoutEvent
<1> QED BY <1>1, <1>2, ClientFacts DEF Outstanding, Sent
\* A step that puts d messages on the way, if the connection holds.
LEMMA Balance ==
  ASSUME ClientOK, pc \notin {"off", "down"}, NEW d \in {0, 1},
         conn' = conn, link' = link, s2c' = s2c,
         link[conn] = "open" => Len(c2s'[conn]) = Len(c2s[conn]) + d
  PROVE  Outstanding' <= Sent + d
<1> DEFINE r == Len(s2c[conn])
           q == Len(c2s[conn])
<1>1. r \in Nat /\ q \in Nat /\ d \in Nat /\ Sent \in Nat
  <2>1. pc = "resend" => at - 1 \in Nat
    BY ClientFacts DEF ClientOK, Control
  <2> QED BY <2>1, OnConnection, ClientFacts
<1>2. link[conn] = "open" => r + q <= Sent
  BY OnConnection
<1>3. link[conn] # "open" => r <= Sent
  BY OnConnection
<1>4. CASE link[conn] = "open"
  <2>1. Outstanding' = r + (q + d)
    BY <1>4 DEF Outstanding
  <2> HIDE DEF r, q
  <2> QED BY <1>1, <1>2, <1>4, <2>1
<1>5. CASE link[conn] # "open"
  <2>1. Outstanding' = r + 0
    BY <1>5 DEF Outstanding
  <2> HIDE DEF r, q
  <2> QED BY <1>1, <1>3, <1>5, <2>1
<1> QED BY <1>4, <1>5
-----------------------------------------------------------------------------
(* recoverFromError.                                                        *)
LEMMA ResentKeeps ==
  ASSUME ClientOK, Resent
  PROVE  ClientOK'
<1>1. WatcherOK'
  BY WatcherStays DEF Resent, ClientOK
<1>2. /\ pc = "resend" /\ at > Len(window) /\ pc' = "loop" /\ at' = 0 /\ cur' = cur
      /\ window' = window /\ clientDb' = clientDb /\ conn' = conn /\ restarts' = restarts
      /\ doubtful' = doubtful /\ excused' = excused /\ link' = link /\ c2s' = c2s
      /\ s2c' = s2c /\ breaks' = breaks /\ outOfStep' = outOfStep
  BY DEF Resent, ownVars, netVars
<1>3. at - 1 = Len(window)
  BY <1>2, ClientFacts DEF ClientOK, Control
<1>4. Outstanding' <= Sent'
  BY <1>2, <1>3, ClientFacts, OnConnection DEF Outstanding, Sent
<1>5. pc' \in Place \ {"off", "down"} /\ at' \in Nat /\ pc' \notin {"resend", "resendData", "store", "storeData"}
  BY <1>2 DEF Place
<1>6. conn # NoConn
  BY <1>2, OnConnection
<1> QED BY <1>1, <1>2, <1>4, <1>5, <1>6, ClientFacts, StepKeeps

LEMMA SkipStaleKeeps ==
  ASSUME ClientOK, SkipStale
  PROVE  ClientOK'
<1>1. WatcherOK'
  BY WatcherStays DEF SkipStale, ClientOK
<1>2. /\ pc = "resend" /\ at <= Len(window) /\ pc' = pc /\ at' = at + 1 /\ cur' = cur
      /\ window' = window /\ clientDb' = clientDb /\ conn' = conn /\ restarts' = restarts
      /\ doubtful' = doubtful /\ excused' = excused /\ link' = link /\ c2s' = c2s
      /\ s2c' = s2c /\ breaks' = breaks /\ outOfStep' \in BOOLEAN
  BY DEF SkipStale, ownVars
<1>3. at' \in 1 .. Len(window') + 1 /\ at' \in Nat
  BY <1>2, ClientFacts
<1>4. Outstanding' <= Sent'
  BY <1>2, ClientFacts, OnConnection DEF Outstanding, Sent
<1>5. pc' \in Place \ {"off", "down"} /\ pc' \notin {"resendData", "store", "storeData"}
  BY <1>2 DEF Place
<1>6. conn # NoConn
  BY <1>2, OnConnection
<1> QED BY <1>1, <1>2, <1>3, <1>4, <1>5, <1>6, ClientFacts, StepKeeps

LEMMA ResendMessageKeeps ==
  ASSUME ClientOK, ResendMessage
  PROVE  ClientOK'
<1>1. WatcherOK'
  BY WatcherStays DEF ResendMessage, ClientOK
<1>2. /\ pc = "resend" /\ at <= Len(window) /\ cur' = cur
      /\ window' = window /\ clientDb' = clientDb /\ conn' = conn /\ restarts' = restarts
      /\ doubtful' = doubtful /\ excused' = excused /\ link' = link
      /\ s2c' = s2c /\ breaks' = breaks /\ outOfStep' = outOfStep
      /\ Transmit(conn, RequestOf(window[at]))
      /\ \/ pc' = "resendData" /\ at' = at
         \/ pc' = "resend" /\ at' = at + 1
  BY DEF ResendMessage, ownVars
<1>3. at \in 1 .. Len(window)
  BY <1>2, ClientFacts DEF ClientOK, Control
<1>4. conn # NoConn /\ conn \in Conn
  BY <1>2, OnConnection
<1>5. RequestOf(window[at]) \in Request
  BY <1>3, ClientFacts, PathsOfEvents, RequestTypes
<1>6. /\ c2s' \in [Conn -> Seq(Request)] /\ Len(c2s'[conn]) \in Nat
      /\ link[conn] = "open" => Len(c2s'[conn]) = Len(c2s[conn]) + 1
  BY <1>2, <1>4, <1>5, TransmitKeeps DEF ClientOK
<1>7. Outstanding' <= Sent'
  <2>1. Sent = at - 1
    BY <1>2, OnConnection
  <2>3. Sent' = at
    BY <1>2, ClientFacts DEF Sent
  <2>2. Outstanding' <= Sent + 1
    BY <1>2, <1>6, Balance
  <2> QED BY <2>1, <2>2, <2>3, ClientFacts
<1>8. pc' \in Place \ {"off", "down"} /\ pc' \notin {"store", "storeData"}
  BY <1>2 DEF Place
<1>9. /\ at' \in Nat /\ pc' = "resend" => at' \in 1 .. Len(window') + 1
      /\ pc' = "resendData" => at' \in 1 .. Len(window')
  BY <1>2, <1>3, ClientFacts
<1> QED BY <1>1, <1>2, <1>4, <1>6, <1>7, <1>8, <1>9, ClientFacts, StepKeeps

LEMMA ResendDataKeeps ==
  ASSUME ClientOK, ResendData
  PROVE  ClientOK'
<1>1. WatcherOK'
  BY WatcherStays DEF ResendData, ClientOK
<1>2. /\ pc = "resendData" /\ pc' = "resend" /\ at' = at + 1 /\ cur' = cur
      /\ window' = window /\ clientDb' = clientDb /\ conn' = conn /\ restarts' = restarts
      /\ doubtful' = doubtful /\ excused' = excused /\ link' = link
      /\ s2c' = s2c /\ breaks' = breaks /\ outOfStep' = outOfStep
      /\ AttachData(window[at].path) /\ Exists(folder, window[at].path)
  BY DEF ResendData, ownVars
<1>3. at \in 1 .. Len(window)
  BY <1>2, ClientFacts DEF ClientOK, Control
<1>4. conn # NoConn /\ conn \in Conn
  BY <1>2, OnConnection
<1>5. window[at].path \in Path
  BY <1>3, ClientFacts, PathsOfEvents
<1>6. c2s' \in [Conn -> Seq(Request)] /\ Len(c2s'[conn]) = Len(c2s[conn])
  BY <1>2, <1>4, <1>5, AttachKeeps DEF ClientOK
<1>7. Outstanding' <= Sent'
  <2>1. Sent = at
    BY <1>2, OnConnection
  <2>3. Sent' = at
    BY <1>2, ClientFacts DEF Sent
  <2>2. Outstanding' <= Sent + 0
    BY <1>2, <1>6, Balance
  <2> QED BY <2>1, <2>2, <2>3, ClientFacts
<1>8. pc' \in Place \ {"off", "down"} /\ pc' \notin {"resendData", "store", "storeData"}
  BY <1>2 DEF Place
<1>9. at' \in Nat /\ at' \in 1 .. Len(window') + 1
  BY <1>2, <1>3, ClientFacts
<1> QED BY <1>1, <1>2, <1>4, <1>6, <1>7, <1>8, <1>9, ClientFacts, StepKeeps

-----------------------------------------------------------------------------
(* The loop.                                                                *)
LEMMA QueueShrinks ==
  ASSUME WatcherOK, queue # <<>>, queue' = Tail(queue), UNCHANGED <<known, scan, folderVars>>
  PROVE  WatcherOK' /\ Head(queue) \in Events
<1>1. /\ folder' = folder /\ known' = known /\ scan' = scan
      /\ edits' = edits /\ flipped' = flipped
  BY DEF folderVars
<1>2. queue \in Seq(Events) /\ Len(queue) <= QueueSize
  BY DEF WatcherOK, WatcherTypeOK
<1>3. queue' \in Seq(Events) /\ Len(queue') <= QueueSize /\ Head(queue) \in Events
  BY <1>2, WatcherBounds
<1>4. WellFormed(folder') /\ VisitsKnown'
  BY <1>1, Zenon DEF WatcherOK, WatcherTypeOK, VisitsKnown, Exists
<1> QED BY <1>1, <1>3, <1>4, Zenon DEF WatcherOK, WatcherTypeOK

LEMMA SendEventKeeps ==
  ASSUME ClientOK, SendEvent
  PROVE  ClientOK'
<1>1. WatcherOK' /\ Head(queue) \in Events
  BY QueueShrinks DEF SendEvent, ClientOK
<1>2. /\ pc = "loop" /\ pc' = pc /\ at' = at /\ cur' = cur
      /\ window' = Append(window, Head(queue)) /\ Len(window) < WindowSize
      /\ clientDb' = clientDb /\ conn' = conn /\ restarts' = restarts
      /\ doubtful' = doubtful /\ excused' = excused /\ link' = link
      /\ s2c' = s2c /\ breaks' = breaks /\ outOfStep' = outOfStep
      /\ Transmit(conn, RequestOf(Head(queue)))
  BY DEF SendEvent, ownVars, positionVars
<1>3. window' \in Seq(Events) /\ Len(window') <= WindowSize /\ Len(window') = Len(window) + 1
  BY <1>1, <1>2, ClientFacts, ClientBounds
<1>4. conn # NoConn /\ conn \in Conn
  BY <1>2, OnConnection
<1>5. RequestOf(Head(queue)) \in Request
  BY <1>1, RequestTypes
<1>6. /\ c2s' \in [Conn -> Seq(Request)]
      /\ link[conn] = "open" => Len(c2s'[conn]) = Len(c2s[conn]) + 1
  BY <1>2, <1>4, <1>5, TransmitKeeps DEF ClientOK
<1>7. Outstanding' <= Sent'
  <2>1. Outstanding' <= Sent + 1
    BY <1>2, <1>6, Balance
  <2>2. Sent = Len(window) /\ Sent' = Len(window')
    BY <1>2 DEF Sent
  <2> QED BY <1>3, <2>1, <2>2
<1>8. pc' \in Place \ {"off", "down"} /\ pc' \notin {"resend", "resendData", "store", "storeData"}
  BY <1>2 DEF Place
<1> QED BY <1>1, <1>2, <1>3, <1>4, <1>6, <1>7, <1>8, ClientFacts, StepKeeps

LEMMA SendStorKeeps ==
  ASSUME ClientOK, SendStor
  PROVE  ClientOK'
<1>1. WatcherOK'
  BY WatcherStays DEF SendStor, ClientOK
<1>2. /\ pc = "store" /\ pc' = "storeData" /\ at' = at /\ cur' = <<>>
      /\ window' = Append(window, cur[1])
      /\ clientDb' = clientDb /\ conn' = conn /\ restarts' = restarts
      /\ doubtful' = doubtful /\ excused' = excused /\ link' = link
      /\ s2c' = s2c /\ breaks' = breaks /\ outOfStep' = outOfStep
      /\ Transmit(conn, RequestOf(cur[1]))
  BY DEF SendStor, ownVars
<1>3. Len(cur) = 1 /\ Len(window) < WindowSize /\ cur[1] \in Events
  <2>1. Len(cur) = 1 /\ Len(window) < WindowSize
    BY <1>2 DEF ClientOK, Control
  <2>2. cur \in Seq(Events)
    BY ClientFacts
  <2> QED BY <2>1, <2>2
<1>4. /\ window' \in Seq(Events) /\ Len(window') <= WindowSize /\ Len(window') = Len(window) + 1
      /\ window' # <<>>
  BY <1>2, <1>3, ClientFacts, ClientBounds
<1>5. conn # NoConn /\ conn \in Conn
  BY <1>2, OnConnection
<1>6. /\ c2s' \in [Conn -> Seq(Request)]
      /\ link[conn] = "open" => Len(c2s'[conn]) = Len(c2s[conn]) + 1
  <2>1. RequestOf(cur[1]) \in Request
    BY <1>3, RequestTypes
  <2> QED BY <1>2, <1>5, <2>1, TransmitKeeps DEF ClientOK
<1>7. Outstanding' <= Sent'
  <2>1. Outstanding' <= Sent + 1
    BY <1>2, <1>6, Balance
  <2>2. Sent = Len(window) /\ Sent' = Len(window')
    BY <1>2 DEF Sent
  <2> QED BY <1>4, <2>1, <2>2
<1>8. pc' \in Place \ {"off", "down"} /\ pc' \notin {"resend", "resendData", "store"}
      /\ cur' \in Seq(Events) /\ Len(cur') <= 1
  BY <1>2 DEF Place
<1> QED BY <1>1, <1>2, <1>4, <1>5, <1>6, <1>7, <1>8, ClientFacts, StepKeeps

LEMMA SendDataKeeps ==
  ASSUME ClientOK, SendData
  PROVE  ClientOK'
<1>1. WatcherOK'
  BY WatcherStays DEF SendData, ClientOK
<1> DEFINE p == window[Len(window)].path
<1>2. /\ pc = "storeData" /\ pc' = "loop" /\ at' = at /\ cur' = cur
      /\ window' = window /\ clientDb' = clientDb /\ conn' = conn /\ restarts' = restarts
      /\ doubtful' = doubtful /\ excused' = excused /\ link' = link
      /\ s2c' = s2c /\ breaks' = breaks /\ outOfStep' = outOfStep
      /\ AttachData(p) /\ Exists(folder, p)
  BY DEF SendData, ownVars
<1>3. p \in Path
  <2>1. window # <<>>
    BY <1>2 DEF ClientOK, Control
  <2>2. Len(window) \in DOMAIN window
    BY <2>1, ClientFacts
  <2> QED BY <2>2, ClientFacts, PathsOfEvents
<1>4. conn # NoConn /\ conn \in Conn
  BY <1>2, OnConnection
<1>5. c2s' \in [Conn -> Seq(Request)] /\ Len(c2s'[conn]) = Len(c2s[conn])
  BY <1>2, <1>3, <1>4, AttachKeeps DEF ClientOK
<1>6. Outstanding' <= Sent'
  <2>1. Outstanding' <= Sent + 0 /\ Len(c2s[conn]) \in Nat
    BY <1>2, <1>4, <1>5, Balance, ClientFacts
  <2>2. Sent = Len(window) /\ Sent' = Len(window)
    BY <1>2 DEF Sent
  <2> QED BY <2>1, <2>2, ClientFacts
<1>7. pc' \in Place \ {"off", "down"} /\ pc' \notin {"resend", "resendData", "store", "storeData"}
  BY <1>2 DEF Place
<1> QED BY <1>1, <1>2, <1>4, <1>5, <1>6, <1>7, ClientFacts, StepKeeps

\* A reply takes an event with it: the window is not empty when there is one.
LEMMA ConsumeKeeps ==
  ASSUME ClientOK, pc = "loop", s2c[conn] # <<>>, Consume,
         at' = at, pc' \in {"loop", "store"}, clientDb' \in Tree, excused' \subseteq Path,
         cur' \in Seq(Events), Len(cur') <= 1, pc' = "store" => Len(cur') = 1
  PROVE  ClientOK'
<1>1. WatcherOK'
  BY WatcherStays DEF Consume, ClientOK
<1>2. /\ s2c' = [s2c EXCEPT ![conn] = Tail(@)] /\ window' = Tail(window) /\ conn' = conn
      /\ link' = link /\ c2s' = c2s /\ breaks' = breaks /\ outOfStep' = outOfStep
      /\ restarts' = restarts /\ doubtful' = doubtful
  BY DEF Consume
<1> DEFINE r == Len(s2c[conn])
           q == Len(c2s[conn])
           n == Len(window)
<1>3. /\ conn # NoConn /\ conn \in Conn /\ r \in Nat /\ q \in Nat /\ n \in Nat
      /\ link[conn] = "open" => r + q <= n
      /\ link[conn] # "open" => r <= n
  BY OnConnection, ClientFacts
<1>4. s2c' \in [Conn -> Seq(Reply)] /\ Len(s2c'[conn]) = r - 1 /\ r >= 1
  <2>1. s2c[conn] \in Seq(Reply)
    BY <1>3, ClientFacts
  <2>2. Tail(s2c[conn]) \in Seq(Reply) /\ Len(Tail(s2c[conn])) = r - 1 /\ r >= 1
    BY <2>1
  <2> QED BY <1>2, <1>3, <2>2, ClientFacts
<1>5. window # <<>> /\ n >= 1
  <2>1. n >= 1
    <3>1. r <= n
      <4> HIDE DEF r, q, n
      <4> QED BY <1>3
    <3> HIDE DEF r, q, n
    <3> QED BY <1>3, <1>4, <3>1
  <2> QED BY <2>1
<1>6. window' \in Seq(Events) /\ Len(window') = n - 1 /\ Len(window') < WindowSize
  BY <1>2, <1>5, ClientFacts, ClientBounds
<1>7. Outstanding' <= Sent'
  <2>1. Sent' = n - 1
    BY <1>6 DEF Sent
  <2>2. Outstanding' = (r - 1) + (IF link[conn] = "open" THEN q ELSE 0)
    BY <1>2, <1>4 DEF Outstanding
  <2> HIDE DEF r, q, n
  <2> QED BY <1>3, <1>4, <1>5, <2>1, <2>2
<1>8. /\ pc' \in Place \ {"off", "down"} /\ pc' \notin {"resend", "resendData", "storeData"}
      /\ Len(window') <= WindowSize /\ at' \in Nat
  BY <1>6, ClientFacts, ClientBounds DEF Place
<1> QED BY <1>1, <1>2, <1>3, <1>4, <1>6, <1>7, <1>8, ClientFacts, StepKeeps

LEMMA WindowHead ==
  ASSUME ClientOK, window # <<>>
  PROVE  Head(window) \in Events /\ Head(window).path \in Path /\ Head(window).entry \in Entry
<1>1. Head(window) \in Events
  BY ClientFacts
<1> QED BY <1>1 DEF Events

LEMMA ReceiveSendKeeps ==
  ASSUME ClientOK, ReceiveSend
  PROVE  ClientOK'
<1>1. /\ pc = "loop" /\ s2c[conn] # <<>> /\ window # <<>> /\ Consume
      /\ at' = at /\ clientDb' = clientDb /\ excused' = excused
  BY DEF ReceiveSend, Receiving
<1>2. CASE pc' = pc /\ cur' = cur
  BY <1>1, <1>2, ClientFacts, ConsumeKeeps
<1>3. CASE /\ pc' = "store"
           /\ cur' = <<Event("storeSent", Head(window).path, Head(window).entry)>>
  <2>1. Event("storeSent", Head(window).path, Head(window).entry) \in Events
    BY <1>1, WindowHead, EventTypes DEF EventType
  <2>2. cur' \in Seq(Events) /\ Len(cur') = 1
    BY <1>3, <2>1
  <2> QED BY <1>1, <1>3, <2>2, ClientFacts, ConsumeKeeps
<1> QED BY <1>2, <1>3 DEF ReceiveSend

LEMMA ReceiveOkKeeps ==
  ASSUME ClientOK, ReceiveOk
  PROVE  ClientOK'
<1>1. /\ pc = "loop" /\ s2c[conn] # <<>> /\ window # <<>> /\ Consume
      /\ at' = at /\ pc' = pc /\ cur' = cur /\ excused' = excused
      /\ clientDb' = Confirmed(Head(window))
  BY DEF ReceiveOk, Receiving, positionVars
<1>2. clientDb' \in Tree
  BY <1>1, WindowHead, ClientFacts DEF Confirmed, Tree
<1> QED BY <1>1, <1>2, ClientFacts, ConsumeKeeps

LEMMA ReceiveErrKeeps ==
  ASSUME ClientOK, ReceiveErr
  PROVE  ClientOK'
<1>1. /\ pc = "loop" /\ s2c[conn] # <<>> /\ window # <<>> /\ Consume
      /\ at' = at /\ pc' = pc /\ cur' = cur /\ clientDb' = clientDb
      /\ excused' = excused \cup {Head(window).path}
  BY DEF ReceiveErr, Receiving, positionVars
<1>2. excused' \subseteq Path
  BY <1>1, WindowHead, ClientFacts
<1> QED BY <1>1, <1>2, ClientFacts, ConsumeKeeps

LEMMA ClientKeeps ==
  ASSUME ClientOK, Client
  PROVE  ClientOK'
<1>1. CASE LoseConnection
  BY <1>1, LoseConnectionKeeps
<1>2. CASE Resent
  BY <1>2, ResentKeeps
<1>3. CASE SkipStale
  BY <1>3, SkipStaleKeeps
<1>4. CASE ResendMessage
  BY <1>4, ResendMessageKeeps
<1>5. CASE ResendData
  BY <1>5, ResendDataKeeps
<1>6. CASE SendEvent
  BY <1>6, SendEventKeeps
<1>7. CASE ReceiveSend
  BY <1>7, ReceiveSendKeeps
<1>8. CASE ReceiveUnwantedSend
  BY <1>8, StopAllKeeps DEF ReceiveUnwantedSend
<1>9. CASE ReceiveOk
  BY <1>9, ReceiveOkKeeps
<1>10. CASE ReceiveErr
  BY <1>10, ReceiveErrKeeps
<1>11. CASE ReceiveException
  BY <1>11, StopAllKeeps DEF ReceiveException
<1>12. CASE SendStor
  BY <1>12, SendStorKeeps
<1>13. CASE SendData
  BY <1>13, SendDataKeeps
<1>14. CASE FileVanished
  BY <1>14, StopAllKeeps DEF FileVanished
<1>15. CASE Disconnect
  BY <1>15, DisconnectKeeps
<1> QED BY <1>1, <1>2, <1>3, <1>4, <1>5, <1>6, <1>7, <1>8, <1>9, <1>10, <1>11, <1>12,
           <1>13, <1>14, <1>15 DEF Client, Communicate
-----------------------------------------------------------------------------
(* Both sides together.                                                     *)

IInv == ClientOK /\ ServerTypeOK

LEMMA InvariantParts == IInv <=> ClientOK /\ ServerOK
  BY DEF IInv, ClientOK, ServerOK
-----------------------------------------------------------------------------
(* The other processes leave the client's thread alone.                     *)
LEMMA NetworkStepKeeps ==
  ASSUME ClientOK, WatcherOK', UNCHANGED clientVars, NetTypeOK',
         \A c \in Conn : NoMoreToCome(c)
  PROVE  ClientOK'
<1>1. /\ pc' = pc /\ at' = at /\ cur' = cur /\ window' = window /\ clientDb' = clientDb
      /\ conn' = conn /\ restarts' = restarts /\ excused' = excused /\ doubtful' = doubtful
  BY DEF clientVars
<1>2. ClientTypeOK' /\ Control'
  BY <1>1, Zenon DEF ClientOK, ClientTypeOK, Control
<1>3. Sent' = Sent
  BY <1>1 DEF Sent
<1>4. NoReplyWithoutEvent'
  <2> SUFFICES ASSUME conn # NoConn PROVE Outstanding' <= Sent
    BY <1>1, <1>3 DEF NoReplyWithoutEvent
  <2>1. conn \in Conn /\ Outstanding <= Sent
    BY ClientFacts DEF ClientOK, NoReplyWithoutEvent
  <2>2. Len(s2c'[conn]) \in Nat /\ Len(c2s'[conn]) \in Nat
    BY <2>1 DEF NetTypeOK
  <2>3. Outstanding' <= Outstanding /\ Outstanding' \in Nat /\ Outstanding \in Nat
    <3> DEFINE r == Len(s2c[conn])
               q == Len(c2s[conn])
               R == Len(s2c'[conn])
               Q == Len(c2s'[conn])
    <3>1. Outstanding = r + (IF link[conn] = "open" THEN q ELSE 0)
      BY DEF Outstanding
    <3>2. Outstanding' = R + (IF link'[conn] = "open" THEN Q ELSE 0)
      BY <1>1 DEF Outstanding
    <3>3. r \in Nat /\ q \in Nat
      BY <2>1, ClientFacts
    <3>4. /\ link'[conn] = "open" => link[conn] = "open" /\ R + Q <= r + q
          /\ link'[conn] # "open" => R <= r + (IF link[conn] = "open" THEN q ELSE 0)
      BY <2>1 DEF NoMoreToCome
    <3> HIDE DEF r, q, R, Q
    <3>5. R \in Nat /\ Q \in Nat
      BY <2>2 DEF R, Q
    <3> QED BY <3>1, <3>2, <3>3, <3>4, <3>5
  <2>4. Sent \in Nat
    <3>1. pc = "resend" => at - 1 \in Nat
      BY ClientFacts DEF ClientOK, Control
    <3> QED BY <3>1, ClientFacts DEF Sent
  <2> QED BY <2>1, <2>3, <2>4
<1> QED BY <1>2, <1>4 DEF ClientOK
-----------------------------------------------------------------------------
(* The steps of the system.                                                 *)
LEMMA ServerStays ==
  ASSUME ServerTypeOK, UNCHANGED serverVars
  PROVE  ServerTypeOK'
<1>1. UNCHANGED <<storeVars, sessionVars>> /\ serverUp' = serverUp /\ crashes' = crashes
  BY DEF serverVars
<1>2. serverUp' \in BOOLEAN /\ crashes' \in 0 .. MaxCrashes
  BY <1>1, Zenon DEF ServerTypeOK
<1> QED BY <1>1, <1>2, StoresStay

LEMMA InitEstablishes == Init => IInv
<1> SUFFICES ASSUME Init PROVE IInv
  OBVIOUS
<1>1. WatcherOK
  BY WatcherStartsWell DEF Init
<1>2. ClientTypeOK
  BY ClientBounds, WatcherAssumption DEF Init, ClientInit, ClientTypeOK, Place
<1>3. NetTypeOK
  <2>1. /\ link \in [Conn -> {"none", "open", "broken"}]
        /\ c2s \in [Conn -> Seq(Request)] /\ s2c \in [Conn -> Seq(Reply)]
    BY DEF Init, NetInit
  <2>2. breaks \in 0 .. MaxBreaks
    BY ClientBounds DEF Init, NetInit
  <2>3. outOfStep \in BOOLEAN
    BY DEF Init, NetInit
  <2> QED BY <2>1, <2>2, <2>3, Zenon DEF NetTypeOK
<1>4. Control /\ NoReplyWithoutEvent
  BY DEF Init, ClientInit, Control, NoReplyWithoutEvent
<1>5. ServerTypeOK
  <2>1. disk \in Tree /\ WellFormed(disk)
    BY ServerAssumption DEF Init, ServerInit
  <2>2. rows \in [Path -> Seq(Entry)]
    <3>1. \A p \in Path : Exists(StartTree, p) => StartTree[p] \in Entry
      BY ServerAssumption, Entries
    <3> QED BY <3>1 DEF Init, ServerInit
  <2>3. recovered \in [Conn -> BOOLEAN] /\ elements \in [Conn -> Tree]
    BY DEF Init, ServerInit, NoTree, Tree
  <2>4. serverUp \in BOOLEAN /\ crashes \in 0 .. MaxCrashes
    BY ServerBounds DEF Init, ServerInit
  <2> QED BY <2>1, <2>2, <2>3, <2>4, Zenon DEF ServerTypeOK
<1> QED BY <1>1, <1>2, <1>3, <1>4, <1>5 DEF IInv, ClientOK

\* The client's side stands still while the server or the network moves.
LEMMA ServerSideKeeps ==
  ASSUME IInv, UNCHANGED <<watcherVars, clientVars>>, ServerOK',
         \A c \in Conn : NoMoreToCome(c)
  PROVE  IInv'
<1>1. WatcherOK'
  BY WatcherStays DEF IInv, ClientOK
<1>2. ClientOK'
  BY <1>1, NetworkStepKeeps DEF IInv, ServerOK
<1> QED BY <1>2 DEF IInv, ServerOK

LEMMA ConnectServerKeeps ==
  ASSUME ServerTypeOK, NEW c \in Conn, Connect(c)
  PROVE  ServerTypeOK'
<1>1. /\ serverUp' = serverUp /\ disk' = disk /\ rows' = rows /\ crashes' = crashes
      /\ recovered' = [recovered EXCEPT ![c] = FALSE]
      /\ elements' = [elements EXCEPT ![c] = NoTree]
  BY DEF Connect, Accept, storeVars
<1>2. recovered' \in [Conn -> BOOLEAN]
  BY <1>1 DEF ServerTypeOK
<1>3. elements' \in [Conn -> Tree]
  BY <1>1 DEF ServerTypeOK, NoTree, Tree
<1>4. WellFormed(disk')
  BY <1>1 DEF ServerTypeOK
<1> QED BY <1>1, <1>2, <1>3, <1>4, Zenon DEF ServerTypeOK

LEMMA StepsPreserve == IInv /\ [Next]_vars => IInv'
<1> SUFFICES ASSUME IInv, [Next]_vars PROVE IInv'
  OBVIOUS
<1>1. ClientOK /\ WatcherOK /\ ServerOK /\ ServerTypeOK /\ NetTypeOK
  BY InvariantParts DEF IInv, ClientOK
<1>2. ASSUME ClientOK', UNCHANGED serverVars PROVE IInv'
  BY <1>1, <1>2, ServerStays DEF IInv
<1>3. ASSUME WatcherOK', UNCHANGED <<clientVars, netVars, serverVars>> PROVE IInv'
  <2>1. NetTypeOK' /\ \A c \in Conn : NoMoreToCome(c)
    BY <1>1, <1>3, SameMessages
  <2>2. ClientOK'
    BY <1>1, <1>3, <2>1, NetworkStepKeeps
  <2> QED BY <1>2, <1>3, <2>2
<1>4. CASE Users
  BY <1>1, <1>3, <1>4, UserKeepsOK DEF Users
<1>5. CASE Watcher
  BY <1>1, <1>3, <1>5, WatchKeeps DEF Watcher
<1>6. CASE WatcherFails
  BY <1>1, <1>2, <1>6, VanishKeepsOK, StopKeeps DEF WatcherFails
<1>7. CASE Client
  <2>1. UNCHANGED serverVars
    BY <1>7 DEF Client
  <2> QED BY <1>1, <1>2, <1>7, <2>1, ClientKeeps
<1>8. ASSUME NEW c \in Conn, Connect(c) PROVE IInv'
  BY <1>1, <1>8, ConnectKeeps, ConnectServerKeeps DEF IInv
<1>9. ASSUME NEW c \in Conn, Server(c) PROVE IInv'
  BY <1>1, <1>9, ServeKeeps, ServerSideKeeps DEF Server
<1>10. CASE ServerDies
  BY <1>1, <1>10, CrashKeeps, CrashInHandlerKeeps, ServerSideKeeps DEF ServerDies
<1>11. CASE ServerRestarts
  BY <1>1, <1>11, RestartKeeps, ServerSideKeeps DEF ServerRestarts
<1>12. CASE ConnectionBreaks
  <2>1. UNCHANGED <<watcherVars, clientVars>> /\ UNCHANGED serverVars
    BY <1>12 DEF ConnectionBreaks
  <2>2. NetTypeOK' /\ \A c \in Conn : NoMoreToCome(c)
    BY <1>1, <1>12, BreakKeeps DEF ConnectionBreaks
  <2>3. ServerTypeOK'
    BY <1>1, <2>1, ServerStays
  <2> QED BY <2>1, <2>2, <2>3, ServerSideKeeps DEF ServerOK
<1>13. CASE ClientRestarts
  <2>1. ClientOK'
    BY <1>1, <1>13, StopAllKeeps, StartClientKeeps DEF ClientRestarts, Kill
  <2> QED BY <1>2, <1>13, <2>1 DEF ClientRestarts
<1>14. CASE ClientGivesUp
  <2>1. ClientOK'
    BY <1>1, <1>14, StopAllKeeps DEF ClientGivesUp, GiveUp
  <2> QED BY <1>2, <1>14, <2>1 DEF ClientGivesUp
<1>15. CASE UNCHANGED vars
  <2>1. UNCHANGED watcherVars /\ UNCHANGED <<clientVars, netVars, serverVars>>
    BY <1>15 DEF vars
  <2> QED BY <1>1, <1>3, <2>1, WatcherStays
<1> QED BY <1>4, <1>5, <1>6, <1>7, <1>8, <1>9, <1>10, <1>11, <1>12, <1>13, <1>14, <1>15 DEF Next

\* The invariant the two theorems below follow from.
THEOREM Invariant == Spec => []IInv
<1>1. Init => IInv
  BY InitEstablishes
<1>2. IInv /\ [Next]_vars => IInv'
  BY StepsPreserve
<1> QED BY <1>1, <1>2, PTL DEF Spec

\* Type correctness.  Part of it is that no step of the user or of the server
\* leaves an element of the folder or of the backup without the directories above
\* it (create_directories, rename and remove_all in the handlers,
\* server/ProtocolManager.cpp:703, 938, 1078), and that window and queue stay
\* within the sizes of the configuration.
THEOREM SystemTypeOK == Spec => []TypeOK
<1>1. IInv => TypeOK
  BY DEF IInv, ClientOK, WatcherOK, TypeOK
<1> QED BY <1>1, Invariant, PTL

\* receive() takes the front of the window without looking whether there is one
\* (client/ProtocolManager.cpp:301): however often connections break, either side
\* dies or messages are skipped and sent again, there are no more replies to come
\* on a connection than events were sent on it.
THEOREM RepliesHaveEvents == Spec => []NoReplyWithoutEvent
<1>1. IInv => NoReplyWithoutEvent
  BY DEF IInv, ClientOK
<1> QED BY <1>1, Invariant, PTL
-----------------------------------------------------------------------------
(* What a session knows, where there is one session at a time.              *)
Knows(el, tree) == \A p \in Path : Exists(el, p) => SameEntry(el, tree, p)

LEMMA SameIsSame == \A tree, p : SameEntry(tree, tree, p)
  BY DEF SameEntry, SameContent

\* An entry that is put where it is known.
LEMMA PutKnown ==
  ASSUME NEW el \in Tree, NEW tree \in Tree, NEW p \in Path, NEW e \in Entry,
         \A q \in Path \ {p} : Exists(el, q) => SameEntry(el, tree, q)
  PROVE  Knows([el EXCEPT ![p] = e], [tree EXCEPT ![p] = e])
<1> DEFINE el2 == [el EXCEPT ![p] = e]
           tree2 == [tree EXCEPT ![p] = e]
<1>1. el2[p] = e /\ tree2[p] = e /\ \A q \in Path \ {p} : el2[q] = el[q] /\ tree2[q] = tree[q]
  BY DEF Tree
<1> HIDE DEF el2, tree2
<1> SUFFICES ASSUME NEW q \in Path, Exists(el2, q) PROVE SameEntry(el2, tree2, q)
  BY DEF Knows, el2, tree2
<1>2. CASE q = p
  BY <1>1, <1>2 DEF SameEntry, SameContent, Exists
<1>3. CASE q # p
  BY <1>1, <1>3 DEF SameEntry, SameContent, Exists
<1> QED BY <1>2, <1>3

\* What goes from the disk is forgotten.
LEMMA ForgottenKnown ==
  ASSUME NEW el \in Tree, NEW before, NEW after, NEW Q \in SUBSET Path, Knows(el, before),
         \A q \in Path \ Q : Exists(el, q) => after[q] = before[q]
  PROVE  Knows([q \in Path |-> IF q \in Q THEN Absent ELSE el[q]], after)
<1> DEFINE left == [q \in Path |-> IF q \in Q THEN Absent ELSE el[q]]
<1>1. \A q \in Path : Exists(left, q) => q \notin Q /\ left[q] = el[q] /\ Exists(el, q)
  BY DEF Exists
<1> HIDE DEF left
<1> SUFFICES ASSUME NEW q \in Path, Exists(left, q) PROVE SameEntry(left, after, q)
  BY DEF Knows, left
<1>2. SameEntry(el, before, q) /\ after[q] = before[q] /\ left[q] = el[q]
  BY <1>1 DEF Knows
<1> QED BY <1>2 DEF SameEntry, SameContent, Exists

\* create_directories changes of what was there only the times of the directories in
\* which it makes others.
LEMMA OnlyTouched ==
  ASSUME NEW tree \in Tree, NEW Q \in SUBSET Path, NEW t \in Time, NEW q \in Path, Exists(tree, q)
  PROVE  \/ CreateDirectories(tree, Q, t)[q] = tree[q]
         \/ /\ CreateDirectories(tree, Q, t)[q] = Dir(t) /\ IsDir(tree, q)
            /\ \E m \in Q : ~Exists(tree, m) /\ q \in Parent(m)
<1> DEFINE missing == {m \in Q : ~Exists(tree, m)}
           made == [r \in Path |-> IF r \in missing THEN Dir(t) ELSE tree[r]]
<1>1. CreateDirectories(tree, Q, t) = Touch(made, UNION {Parent(m) : m \in missing}, t)
  BY DEF CreateDirectories
<1>2. made[q] = tree[q]
  OBVIOUS
<1> HIDE DEF made
<1>3. CreateDirectories(tree, Q, t)[q] =
         IF q \in UNION {Parent(m) : m \in missing} /\ IsDir(made, q) THEN Dir(t) ELSE made[q]
  BY <1>1 DEF Touch
<1>4. IsDir(made, q) <=> IsDir(tree, q)
  BY <1>2 DEF IsDir, Exists
<1> QED BY <1>2, <1>3, <1>4

\* ... so that what is known of them stays true.
LEMMA TouchedKnown ==
  ASSUME NEW el \in Tree, Knows(el, disk), disk \in Tree, NEW tree, NEW t \in Time, NEW q \in Path,
         Exists(el, q),
         tree[q] = disk[q] \/ (tree[q] = Dir(t) /\ IsDir(disk, q) /\ HoldsFolders(q))
  PROVE  SameEntry(el, tree, q) /\ Exists(disk, q)
<1>1. SameEntry(el, disk, q) /\ Exists(disk, q)
  BY DEF Knows, SameEntry, SameContent
<1>2. CASE tree[q] = disk[q]
  BY <1>1, <1>2 DEF SameEntry, SameContent, Exists
<1>3. CASE tree[q] = Dir(t) /\ IsDir(disk, q) /\ HoldsFolders(q)
  <2>1. disk[q] \in Entry /\ disk[q].type = "directory" /\ disk[q].hash = NoHash
    BY <1>3, Entries DEF IsDir, Entry
  <2>2. Dir(t) # Absent /\ Dir(t).type = "directory" /\ Dir(t).hash = NoHash
    BY EntryTypes DEF Dir
  <2> QED BY <1>1, <1>3, <2>1, <2>2 DEF SameEntry, SameContent, Exists
<1> QED BY <1>1, <1>2, <1>3

LEMMA HoldsWhatIsMade ==
  ASSUME NEW p \in Path, NEW m \in Ancestors[p], NEW q \in Parent(m)
  PROVE  HoldsFolders(q)
<1>1. m \in Path /\ q \in Ancestors[m] /\ p \in Below(m)
  BY AncestorsArePaths DEF Below, Parent
<1> QED BY <1>1 DEF HoldsFolders, Below

LEMMA StoredKnown ==
  ASSUME disk \in Tree, WellFormed(disk), NEW el \in Tree, Knows(el, disk), NEW p \in Path,
         NEW e \in Entry, NEW t \in Time, Reachable(disk, p)
  PROVE  Knows([el EXCEPT ![p] = e], Stored(p, e, t))
<1> DEFINE tree == WithParents(p, t)
<1>1. tree \in Tree
  BY WithParentsKeeps
<1>2. ASSUME NEW q \in Path, Exists(el, q) PROVE SameEntry(el, tree, q)
  <2>1. Exists(disk, q)
    BY <1>2 DEF Knows, SameEntry, SameContent
  <2>2. CASE tree = disk
    BY <1>2, <2>2 DEF Knows
  <2>3. CASE tree = CreateDirectories(disk, Ancestors[p], t)
    <3>1. Ancestors[p] \in SUBSET Path
      BY AncestorsArePaths
    <3>2. \/ tree[q] = disk[q]
          \/ tree[q] = Dir(t) /\ IsDir(disk, q) /\ \E m \in Ancestors[p] : q \in Parent(m)
      BY <2>1, <2>3, <3>1, OnlyTouched
    <3> HIDE DEF tree
    <3> QED BY <1>2, <3>2, HoldsWhatIsMade, TouchedKnown
  <2> QED BY <2>2, <2>3 DEF WithParents
<1>3. Stored(p, e, t) = [tree EXCEPT ![p] = e]
  BY DEF Stored
<1> HIDE DEF tree
<1>4. \A q \in Path \ {p} : Exists(el, q) => SameEntry(el, tree, q)
  BY <1>2
<1>5. Knows([el EXCEPT ![p] = e], [tree EXCEPT ![p] = e])
  BY ONLY el \in Tree, p \in Path, e \in Entry, <1>1, <1>4, PutKnown
<1> QED BY <1>3, <1>5

LEMMA MadeDirKnown ==
  ASSUME disk \in Tree, WellFormed(disk), NEW el \in Tree, Knows(el, disk), NEW p \in Path,
         NEW e \in Entry, NEW t \in Time, Reachable(disk, p), ~IsFile(disk, p)
  PROVE  Knows([el EXCEPT ![p] = e], MadeDir(p, e, t))
<1> DEFINE made == Made(p, t)
           tree == KeepParentTime(disk, made, p)
           Q == Ancestors[p] \cup {p}
<1>1. tree \in Tree
  BY MadeKeeps, KeepTimeKeeps
<1>2. ASSUME NEW q \in Path, Exists(el, q), q # p PROVE SameEntry(el, tree, q)
  <2>1. Exists(disk, q)
    BY <1>2 DEF Knows, SameEntry, SameContent
  <2>2. tree[q] = IF q \in Parent(p) /\ IsDir(disk, q) THEN disk[q] ELSE made[q]
    BY DEF KeepParentTime
  <2>3. \/ made[q] = disk[q]
        \/ made[q] = Dir(t) /\ IsDir(disk, q) /\ \E m \in Q : q \in Parent(m)
    <3>1. CASE made = disk
      BY <3>1
    <3>2. CASE made = CreateDirectories(disk, Q, t)
      <4>1. Q \in SUBSET Path
        BY AncestorsArePaths
      <4> QED BY <2>1, <3>2, <4>1, OnlyTouched
    <3> QED BY <3>1, <3>2 DEF Made
  <2> HIDE DEF tree, made
  <2>4. \/ tree[q] = disk[q]
        \/ tree[q] = Dir(t) /\ IsDir(disk, q) /\ \E m \in Ancestors[p] : q \in Parent(m)
    BY <2>2, <2>3
  <2> QED BY <1>2, <2>4, HoldsWhatIsMade, TouchedKnown
<1>3. MadeDir(p, e, t) = [tree EXCEPT ![p] = e]
  BY DEF MadeDir
<1> HIDE DEF tree
<1>4. \A q \in Path \ {p} : Exists(el, q) => SameEntry(el, tree, q)
  BY <1>2
<1>5. Knows([el EXCEPT ![p] = e], [tree EXCEPT ![p] = e])
  BY ONLY el \in Tree, p \in Path, e \in Entry, <1>1, <1>4, PutKnown
<1> QED BY <1>3, <1>5

\* The handlers of the session c.
LEMMA HandlersKnow ==
  ASSUME ServerOK, NEW c \in Conn, Serve(c), Knows(elements[c], disk), serverUp', recovered[c]
  PROVE  Knows(elements'[c], disk')
<1> DEFINE p == Head(c2s[c]).path
           e == Head(c2s[c]).entry
           el == elements[c]
<1>1. /\ disk \in Tree /\ WellFormed(disk) /\ el \in Tree /\ elements \in [Conn -> Tree]
      /\ NetTypeOK
  BY ServerFacts
<1>2. c2s[c] # <<>> => p \in Path /\ e \in Entry
  BY <1>1, HeadRequest
<1>0. Knows(el, disk)
  OBVIOUS
<1> HIDE DEF p, e, el
<1>3. CASE UNCHANGED <<disk, elements>>
  BY <1>3
<1>4. ~Fail(c)
  BY DEF Fail
<1>5. ASSUME NEW kind, JustAnswer(c, kind) PROVE UNCHANGED <<disk, elements>>
  BY <1>5 DEF JustAnswer, storeVars
<1>6. ASSUME c2s[c] # <<>>, Record(c, p, e) PROVE elements'[c] = [el EXCEPT ![p] = e]
  BY <1>1, <1>6 DEF Record, el
<1>7. ASSUME NEW Q, Forget(c, Q)
      PROVE  elements'[c] = [q \in Path |-> IF q \in Q THEN Absent ELSE el[q]]
  BY <1>1, <1>7 DEF Forget, el
<1>8. ASSUME NEW q \in Path, NothingThere(c, q) PROVE Knows(elements'[c], disk')
  <2>1. CASE JustAnswer(c, "notThere")
    BY <1>3, <1>5, <2>1
  <2>2. CASE Forget(c, {q}) /\ UNCHANGED disk
    <3>1. {q} \in SUBSET Path
      BY <1>8
    <3>2. \A r \in Path \ {q} : Exists(el, r) => disk'[r] = disk[r]
      BY <2>2
    <3>3. Knows([r \in Path |-> IF r \in {q} THEN Absent ELSE el[r]], disk')
      BY ONLY <1>0, <1>1, <3>1, <3>2, ForgottenKnown
    <3> QED BY <1>7, <2>2, <3>3
  <2> QED BY <1>8, <2>1, <2>2 DEF NothingThere
<1>9. CASE Reject(c) \/ EndSession(c)
  BY <1>3, <1>9 DEF Reject, EndSession, serverVars, storeVars, sessionVars
<1>10. CASE RecoverFromDB(c)
  BY <1>10 DEF RecoverFromDB
<1>11. CASE Probe(c)
  <2>1. c2s[c] # <<>> /\ e.type = "file"
    <3>1. c2s[c] # <<>> /\ Head(c2s[c]).op = "PROB"
      BY <1>11 DEF Probe, Handling
    <3>2. e.type # "directory"
      BY <1>1, <3>1, HeadRequest DEF e
    <3> QED BY <1>2, <3>1, <3>2, EntryTypes
  <2>2. CASE /\ IsFile(el, p) /\ el[p].hash = e.hash
             /\ disk' = [disk EXCEPT ![p].lwt = e.lwt]
             /\ elements' = [elements EXCEPT ![c][p] = e]
    <3>1. SameEntry(el, disk, p) /\ disk[p] \in Entry /\ disk[p].type = "file" /\ disk[p].hash = e.hash
      BY <1>1, <1>2, <2>1, <2>2, Entries DEF Knows, SameEntry, SameContent, IsFile, el
    <3>2. [disk[p] EXCEPT !.lwt = e.lwt] = e
      BY <1>2, <2>1, <3>1 DEF Entry
    <3>3. disk' = [disk EXCEPT ![p] = e]
      <4>1. disk' = [disk EXCEPT ![p] = [disk[p] EXCEPT !.lwt = e.lwt]]
        BY <2>2
      <4> QED BY <3>2, <4>1
    <3>4. elements'[c] = [el EXCEPT ![p] = e]
      BY <1>1, <2>2 DEF el
    <3>5. \A q \in Path \ {p} : Exists(el, q) => SameEntry(el, disk, q)
      BY DEF Knows, el
    <3>6. Knows([el EXCEPT ![p] = e], [disk EXCEPT ![p] = e])
      BY <1>1, <1>2, <2>1, <3>5, PutKnown
    <3> QED BY <3>3, <3>4, <3>6
  <2> QED BY <1>3, <1>4, <1>5, <1>11, <2>2 DEF Probe, p, e, el
<1>12. CASE StoreFile(c)
  <2>1. c2s[c] # <<>>
    BY <1>12 DEF StoreFile, Handling
  <2>2. ASSUME Reachable(disk, p), NEW t \in Time, disk' = Stored(p, e, t), Record(c, p, e)
        PROVE  Knows(elements'[c], disk')
    BY <1>1, <1>2, <1>6, <2>1, <2>2, StoredKnown DEF el
  <2> QED BY <1>3, <1>4, <1>5, <1>12, <2>2 DEF StoreFile, p, e
<1>13. CASE RemoveFile(c)
  <2>1. c2s[c] # <<>>
    BY <1>13 DEF RemoveFile, Handling
  <2>2. CASE disk' = [disk EXCEPT ![p] = Absent] /\ Forget(c, {p})
    <3>1. {p} \in SUBSET Path /\ \A q \in Path \ {p} : Exists(el, q) => disk'[q] = disk[q]
      BY <1>1, <1>2, <2>1, <2>2 DEF Tree
    <3>2. Knows([r \in Path |-> IF r \in {p} THEN Absent ELSE el[r]], disk')
      BY ONLY <1>0, <1>1, <3>1, ForgottenKnown
    <3> QED BY <1>7, <2>2, <3>2
  <2> QED BY <1>2, <1>3, <1>4, <1>5, <1>8, <1>13, <2>1, <2>2 DEF RemoveFile, p
<1>14. CASE MakeDir(c)
  <2>1. c2s[c] # <<>>
    BY <1>14 DEF MakeDir, Handling
  <2>2. ASSUME Reachable(disk, p), ~IsFile(disk, p), NEW t \in Time, disk' = MadeDir(p, e, t),
               Record(c, p, e)
        PROVE  Knows(elements'[c], disk')
    BY <1>1, <1>2, <1>6, <2>1, <2>2, MadeDirKnown DEF el
  <2> QED BY <1>3, <1>4, <1>5, <1>14, <2>2 DEF MakeDir, p, e
<1>15. CASE RemoveDir(c)
  <2> DEFINE Q == {p} \cup (Below(p) \cap Listed(disk))
  <2>1. c2s[c] # <<>>
    BY <1>15 DEF RemoveDir, Handling
  <2>2. CASE disk' = RemoveAll(disk, p) /\ Forget(c, Q)
    <3>1. Q \in SUBSET Path
      BY <1>2, <2>1 DEF Listed
    <3>2. \A q \in Path \ Q : Exists(el, q) => disk'[q] = disk[q]
      BY <2>2 DEF Knows, SameEntry, SameContent, RemoveAll, Listed, el
    <3> HIDE DEF Q
    <3>3. Knows([r \in Path |-> IF r \in Q THEN Absent ELSE el[r]], disk')
      BY ONLY <1>0, <1>1, <3>1, <3>2, ForgottenKnown
    <3> QED BY <1>7, <2>2, <3>3
  <2> QED BY <1>2, <1>3, <1>4, <1>5, <1>8, <1>15, <2>1, <2>2 DEF RemoveDir, p
<1> QED BY <1>9, <1>10, <1>11, <1>12, <1>13, <1>14, <1>15 DEF Serve

\* Nothing but Connect begins a session.
LEMMA SessionsGoOn ==
  ASSUME IInv, NEW c \in Conn, Next, link'[c] # "none", \A d \in Conn : ~Connect(d)
  PROVE  link[c] # "none" \/ ~serverUp'
<1>1. link \in [Conn -> {"none", "open", "broken"}]
  BY DEF IInv, ClientOK, NetTypeOK
<1>2. CASE Users \/ Watcher
  BY <1>2 DEF Users, Watcher, netVars
<1>3. CASE WatcherFails
  BY <1>1, <1>3 DEF WatcherFails, Stop
<1>4. ASSUME StopAll PROVE link[c] # "none"
  BY <1>1, <1>4 DEF StopAll, Stop
<1>5. CASE Client
  <2>1. CASE FileVanished \/ LoseConnection \/ Disconnect
    BY <1>1, <1>4, <2>1 DEF FileVanished, LoseConnection, Disconnect
  <2>2. CASE Resent \/ SkipStale \/ ResendMessage \/ ResendData \/ SendEvent
    BY <1>1, <2>2 DEF Resent, SkipStale, ResendMessage, ResendData, SendEvent, netVars
  <2>3. CASE ReceiveSend \/ ReceiveOk \/ ReceiveErr
    <3>1. link' = link
      BY <2>3 DEF ReceiveSend, ReceiveOk, ReceiveErr, Consume
    <3> QED BY ONLY <3>1, link'[c] # "none"
  <2>4. CASE ReceiveUnwantedSend \/ ReceiveException
    BY <1>4, <2>4 DEF ReceiveUnwantedSend, ReceiveException
  <2>5. CASE SendStor \/ SendData
    BY <1>1, <2>5, SMTT(20) DEF SendStor, SendData, netVars
  <2> QED BY <1>5, <2>1, <2>2, <2>3, <2>4, <2>5 DEF Client, Communicate
<1>6. ASSUME NEW d \in Conn, Server(d) PROVE link[c] # "none" \/ ~serverUp'
  <2>1. ASSUME NEW kind, Answer(d, kind) PROVE link' = link
    BY <2>1 DEF Answer
  <2>2. ~Fail(d) \/ ~serverUp'
    BY DEF Fail
  <2> QED BY <1>1, <1>6, <2>1, <2>2 DEF Server, Serve, RecoverFromDB, Reject, EndSession, Probe,
        StoreFile, RemoveFile, MakeDir, RemoveDir, JustAnswer, NothingThere, netVars
<1>7. CASE ServerDies
  BY <1>7 DEF ServerDies, Crash, CrashInHandler, Halt
<1>8. CASE ServerRestarts
  BY <1>8 DEF ServerRestarts, Restart
<1>9. CASE ConnectionBreaks
  BY <1>1, <1>9 DEF ConnectionBreaks, Break
<1>10. CASE ClientRestarts \/ ClientGivesUp
  BY <1>4, <1>10 DEF ClientRestarts, Kill, StartClient, ClientGivesUp, GiveUp, netVars
<1> QED BY <1>2, <1>3, <1>5, <1>6, <1>7, <1>8, <1>9, <1>10 DEF Next

\* Only the thread of a session changes the folder, while the server is up.
LEMMA OthersLeaveIt ==
  ASSUME Next, \A d \in Conn : ~Connect(d) /\ ~Server(d), serverUp'
  PROVE  ServerRestarts \/ UNCHANGED serverVars
<1>1. ~ServerDies
  BY DEF ServerDies, Crash, CrashInHandler, Halt
<1> QED BY <1>1 DEF Next, Users, Watcher, WatcherFails, Client, ConnectionBreaks, ClientRestarts,
                    ClientGivesUp

\* Where one thread serves the user (with several, run overlap shows the contrary), the
\* session's map of the backup stays true to the disk through every handler, crash,
\* restart and reconnection: what the handlers decide from it alone is right.
THEOREM SessionsAreRight ==
  ASSUME NEW s, Conn = {s}
  PROVE  Spec => []SessionKnowsDisk
<1> DEFINE Right == serverUp /\ link[s] # "none" /\ recovered[s] => Knows(elements[s], disk)
<1>1. SessionKnowsDisk <=> Right
  BY DEF SessionKnowsDisk, Knows
<1>2. Init => Right
  BY DEF Init, ServerInit
<1>3. IInv /\ Right /\ [Next]_vars => Right'
  <2> SUFFICES ASSUME IInv, Right, [Next]_vars, serverUp', link'[s] # "none", recovered'[s]
               PROVE  Knows(elements'[s], disk')
    BY DEF Knows
  <2>1. s \in Conn /\ ServerOK /\ elements \in [Conn -> Tree] /\ recovered \in [Conn -> BOOLEAN]
    BY InvariantParts DEF ServerOK, ServerTypeOK
  <2>2. CASE UNCHANGED vars
    BY <2>2 DEF vars, netVars, serverVars, storeVars, sessionVars
  <2>3. CASE Connect(s)
    BY <2>1, <2>3 DEF Connect, Accept
  <2>4. CASE Next /\ ~Connect(s)
    <3>1. link[s] # "none"
      BY <2>1, <2>4, SessionsGoOn
    <3>2. CASE Server(s)
      <4>1. Serve(s) /\ serverUp
        BY <3>2, Zenon DEF Server, Serve, RecoverFromDB, Reject, EndSession, Probe, StoreFile,
                           RemoveFile, MakeDir, RemoveDir, Handling
      <4>2. CASE recovered[s]
        BY <2>1, <3>1, <4>1, <4>2, HandlersKnow
      <4>3. CASE ~recovered[s]
        <5>1. RecoverFromDB(s)
          <6>1. ~Reject(s)
            BY <4>3 DEF Reject
          <6>2. ~EndSession(s)
            BY <2>1, <4>3 DEF EndSession, serverVars, sessionVars
          <6>3. ~Probe(s) /\ ~StoreFile(s) /\ ~RemoveFile(s) /\ ~MakeDir(s) /\ ~RemoveDir(s)
            BY <4>3 DEF Probe, StoreFile, RemoveFile, MakeDir, RemoveDir, Handling
          <6> QED BY <4>1, <6>1, <6>2, <6>3 DEF Serve
        <5>2. /\ disk' = disk
              /\ elements'[s] = [p \in Path |-> IF rows[p] = <<>> THEN Absent ELSE disk[p]]
          BY <2>1, <5>1 DEF RecoverFromDB
        <5>3. SUFFICES ASSUME NEW p \in Path, Exists(elements'[s], p)
                       PROVE  SameEntry(elements'[s], disk', p)
          BY DEF Knows
        <5>4. elements'[s][p] = disk'[p]
          BY <5>2, <5>3 DEF Exists
        <5> QED BY ONLY <5>3, <5>4 DEF SameEntry, SameContent, Exists
      <4> QED BY ONLY <4>2, <4>3
    <3>3. CASE ~Server(s)
      <4>1. ServerRestarts \/ UNCHANGED serverVars
        BY <2>4, <3>3, OthersLeaveIt
      <4>2. CASE ServerRestarts
        BY <2>1, <4>2 DEF ServerRestarts, Restart
      <4>3. CASE UNCHANGED serverVars
        BY <3>1, <4>3 DEF serverVars, storeVars, sessionVars
      <4> QED BY <4>1, <4>2, <4>3
    <3> QED BY <3>2, <3>3
  <2> QED BY <2>2, <2>3, <2>4
<1> QED BY Invariant, <1>1, <1>2, <1>3, PTL DEF Spec
-----------------------------------------------------------------------------
(* Replies and requests under way against the window, element by element.   *)
\* The replies r and, on a connection that holds, the requests q behind them
\* correspond to the first n events of the window w.
Matches(r, q, open, w, n) ==
    /\ Len(r) <= n
    /\ \A i \in 1 .. Len(r) : Asked(r[i].re) = RequestOf(w[i])
    /\ open => /\ Len(r) + Len(q) = n
               /\ \A i \in 1 .. Len(q) : Asked(q[i]) = RequestOf(w[Len(r) + i])

InOrder == conn # NoConn /\ ~outOfStep =>
               Matches(s2c[conn], c2s[conn], link[conn] = "open", window, Sent)

\* The next event of the window is sent; on a broken connection its message is lost.
LEMMA NextMatches ==
  ASSUME NEW r \in Seq(Reply), NEW q \in Seq(Request), NEW q2, NEW open \in BOOLEAN,
         NEW w, NEW w2, NEW n \in Nat, NEW x \in Request,
         Matches(r, q, open, w, n), \A i \in 1 .. n : w2[i] = w[i],
         Asked(x) = RequestOf(w2[n + 1]), open => q2 = Append(q, x)
  PROVE  Matches(r, q2, open, w2, n + 1)
<1>1. Len(r) \in Nat /\ Len(q) \in Nat /\ Len(r) <= n
  BY DEF Matches
<1>2. \A i \in 1 .. Len(r) : Asked(r[i].re) = RequestOf(w2[i])
  BY <1>1 DEF Matches
<1>3. ASSUME open
      PROVE  /\ Len(r) + Len(q2) = n + 1
             /\ \A i \in 1 .. Len(q2) : Asked(q2[i]) = RequestOf(w2[Len(r) + i])
  <2>1. Len(r) + Len(q) = n /\ Len(q2) = Len(q) + 1
    BY <1>3 DEF Matches
  <2> SUFFICES ASSUME NEW i \in 1 .. Len(q) + 1 PROVE Asked(q2[i]) = RequestOf(w2[Len(r) + i])
    BY <1>1, <2>1, SMTT(20)
  <2>2. CASE i = Len(q) + 1
    <3>1. q2[i] = x /\ Len(r) + i = n + 1
      BY <1>1, <1>3, <2>1, <2>2
    <3> QED BY <3>1
  <2>3. CASE i \in 1 .. Len(q)
    <3>1. q2[i] = q[i] /\ Len(r) + i \in 1 .. n
      BY <1>1, <1>3, <2>1, <2>3
    <3>2. Asked(q[i]) = RequestOf(w[Len(r) + i])
      BY <1>3, <2>3 DEF Matches
    <3> QED BY <3>1, <3>2
  <2> QED BY <1>1, <2>2, <2>3
<1> QED BY <1>1, <1>2, <1>3 DEF Matches

\* The next request is answered.
LEMMA AnswerMatches ==
  ASSUME NEW r \in Seq(Reply), NEW q \in Seq(Request), NEW w, NEW n \in Nat, NEW x \in Reply,
         Matches(r, q, TRUE, w, n), q # <<>>, x.re = Head(q)
  PROVE  Matches(Append(r, x), Tail(q), TRUE, w, n)
<1> DEFINE r2 == Append(r, x)
           q2 == Tail(q)
<1>1. /\ Len(r) \in Nat /\ Len(q) \in Nat /\ Len(q) >= 1 /\ Len(r) + Len(q) = n
      /\ Len(r2) = Len(r) + 1 /\ Len(q2) = Len(q) - 1
  BY DEF Matches
<1>2. /\ \A i \in 1 .. Len(r) : r2[i] = r[i]
      /\ r2[Len(r) + 1] = x
      /\ \A i \in 1 .. Len(q) - 1 : q2[i] = q[i + 1]
      /\ x.re = q[1]
  BY <1>1
<1>3. /\ \A i \in 1 .. Len(r) : Asked(r[i].re) = RequestOf(w[i])
      /\ \A i \in 1 .. Len(q) : Asked(q[i]) = RequestOf(w[Len(r) + i])
  BY DEF Matches
<1> HIDE DEF r2, q2
<1>4. ASSUME NEW i \in 1 .. Len(r) + 1 PROVE Asked(r2[i].re) = RequestOf(w[i])
  <2>1. CASE i = Len(r) + 1
    <3>1. 1 \in 1 .. Len(q)
      BY <1>1
    <3> QED BY <1>1, <1>2, <1>3, <2>1, <3>1
  <2>2. CASE i \in 1 .. Len(r)
    BY <1>2, <1>3, <2>2
  <2> QED BY <1>1, <2>1, <2>2
<1>5. ASSUME NEW i \in 1 .. Len(q) - 1 PROVE Asked(q2[i]) = RequestOf(w[Len(r) + 1 + i])
  <2>1. PICK j \in 1 .. Len(q) : j = i + 1 /\ Len(r) + j = Len(r) + 1 + i
    BY <1>1
  <2>2. Asked(q[j]) = RequestOf(w[Len(r) + j])
    BY <1>3
  <2>3. q2[i] = q[j]
    BY <1>2, <2>1
  <2> QED BY <2>1, <2>2, <2>3
<1>6. /\ Len(r2) <= n /\ Len(r2) + Len(q2) = n
  BY ONLY <1>1
<1>7. \A i \in 1 .. Len(r2) : Asked(r2[i].re) = RequestOf(w[i])
  BY <1>1, <1>4
<1>8. \A i \in 1 .. Len(q2) : Asked(q2[i]) = RequestOf(w[Len(r2) + i])
  BY <1>1, <1>5
<1>9. Matches(r2, q2, TRUE, w, n)
  BY <1>6, <1>8, <1>7 DEF Matches
<1> QED BY <1>9 DEF r2, q2

\* The first reply is taken and its event with it.
LEMMA TakenMatches ==
  ASSUME NEW r \in Seq(Reply), NEW q \in Seq(Request), NEW open \in BOOLEAN, NEW w \in Seq(Events),
         Matches(r, q, open, w, Len(w)), r # <<>>
  PROVE  Matches(Tail(r), q, open, Tail(w), Len(Tail(w)))
<1> DEFINE r2 == Tail(r)
           w2 == Tail(w)
<1>1. /\ Len(r) \in Nat /\ Len(q) \in Nat /\ Len(w) \in Nat /\ Len(r) >= 1 /\ Len(r) <= Len(w)
  BY DEF Matches
<1>2. w # <<>>
  BY <1>1
<1>3. /\ Len(r2) = Len(r) - 1 /\ Len(w2) = Len(w) - 1
      /\ \A i \in 1 .. Len(r) - 1 : r2[i] = r[i + 1]
      /\ \A i \in 1 .. Len(w) - 1 : w2[i] = w[i + 1]
  BY <1>1, <1>2
<1> HIDE DEF r2, w2
<1>4. ASSUME NEW i \in 1 .. Len(r) - 1 PROVE Asked(r2[i].re) = RequestOf(w2[i])
  <2>1. i + 1 \in 1 .. Len(r) /\ i \in 1 .. Len(w) - 1
    BY <1>1
  <2>2. Asked(r[i + 1].re) = RequestOf(w[i + 1])
    BY <2>1 DEF Matches
  <2> QED BY <1>3, <2>1, <2>2
<1>5. ASSUME open
      PROVE  /\ Len(r) - 1 + Len(q) = Len(w) - 1
             /\ \A i \in 1 .. Len(q) : Asked(q[i]) = RequestOf(w2[Len(r) - 1 + i])
  <2>1. Len(r) + Len(q) = Len(w)
    BY <1>5 DEF Matches
  <2>2. ASSUME NEW i \in 1 .. Len(q) PROVE Asked(q[i]) = RequestOf(w2[Len(r) - 1 + i])
    <3>1. Len(r) - 1 + i \in 1 .. Len(w) - 1 /\ (Len(r) - 1 + i) + 1 = Len(r) + i
      BY <1>1, <2>1
    <3>2. w2[Len(r) - 1 + i] = w[Len(r) + i]
      BY <1>3, <3>1
    <3>3. Asked(q[i]) = RequestOf(w[Len(r) + i])
      BY <1>5 DEF Matches
    <3> QED BY <3>2, <3>3
  <2> QED BY <1>1, <2>1, <2>2
<1> QED BY <1>1, <1>3, <1>4, <1>5 DEF Matches, r2, w2

\* The connection breaks: requests are lost, and some of the last replies.
LEMMA CutMatches ==
  ASSUME NEW r \in Seq(Reply), NEW q, NEW r2 \in Seq(Reply), NEW q2, NEW open, NEW w, NEW n \in Nat,
         Matches(r, q, open, w, n), Len(r2) <= Len(r), \A i \in 1 .. Len(r2) : r2[i] = r[i]
  PROVE  Matches(r2, q2, FALSE, w, n)
  BY DEF Matches

\* What was asked does not say what data went with it.
LEMMA DataMatches ==
  ASSUME NEW r \in Seq(Reply), NEW q \in Seq(Request), NEW q2 \in Seq(Request),
         NEW open, NEW w, NEW n \in Nat,
         Matches(r, q, open, w, n), Len(q2) = Len(q), \A i \in 1 .. Len(q) : Asked(q2[i]) = Asked(q[i])
  PROVE  Matches(r, q2, open, w, n)
  BY DEF Matches

-----------------------------------------------------------------------------
(* The steps of the client.                                                 *)
LEMMA AskedRequest ==
  ASSUME NEW ev \in Events
  PROVE  Asked(RequestOf(ev)) = RequestOf(ev)
  BY DEF Asked, RequestOf

LEMMA AskedType ==
  ASSUME NEW x \in Request
  PROVE  Asked(x) \in Request
  BY DEF Asked, Request

LEMMA ReplyAnswers ==
  ASSUME NEW x \in Reply
  PROVE  x.re \in Request
  BY DEF Reply

LEMMA SentIsInWindow ==
  ASSUME ClientOK, pc \notin {"off", "down"}
  PROVE  Sent \in Nat /\ Sent <= Len(window)
<1>1. /\ pc = "resend" => at \in 1 .. Len(window) + 1
      /\ pc = "resendData" => at \in 1 .. Len(window)
  BY DEF ClientOK, Control
<1> QED BY <1>1, ClientFacts, OnConnection

\* A step that sends the event n + 1 of the window.
LEMMA SendingInOrder ==
  ASSUME ClientOK, InOrder, pc \notin {"off", "down"}, NEW ev \in Events, Transmit(conn, RequestOf(ev)),
         UNCHANGED <<conn, link, s2c, outOfStep>>, \A i \in 1 .. Sent : window'[i] = window[i],
         Sent' = Sent + 1, window'[Sent + 1] = ev
  PROVE  InOrder'
<1> SUFFICES ASSUME ~outOfStep
             PROVE  Matches(s2c[conn], c2s'[conn], link[conn] = "open", window', Sent + 1)
  BY DEF InOrder
<1>1. conn \in Conn /\ conn # NoConn /\ s2c[conn] \in Seq(Reply) /\ c2s[conn] \in Seq(Request)
  BY OnConnection, ClientFacts
<1>2. RequestOf(ev) \in Request /\ Asked(RequestOf(ev)) = RequestOf(ev)
  BY RequestTypes, AskedRequest
<1>3. link[conn] = "open" => c2s'[conn] = Append(c2s[conn], RequestOf(ev))
  BY <1>1, ClientFacts DEF Transmit
<1>4. Matches(s2c[conn], c2s[conn], link[conn] = "open", window, Sent)
  BY <1>1 DEF InOrder
<1>5. Sent \in Nat
  BY SentIsInWindow
<1> DEFINE open == link[conn] = "open"
<1>6. open \in BOOLEAN
  OBVIOUS
<1> DEFINE x == RequestOf(ev)
           q2 == c2s'[conn]
           w2 == window'
           n == Sent
<1>7. Asked(x) = RequestOf(w2[n + 1]) /\ \A i \in 1 .. n : w2[i] = window[i]
  BY <1>2
<1>8. Matches(s2c[conn], c2s[conn], open, window, n) /\ n \in Nat /\ x \in Request
      /\ (open => q2 = Append(c2s[conn], x))
  BY <1>2, <1>3, <1>4, <1>5
<1> HIDE DEF open, x, q2, w2, n
<1>9. Matches(s2c[conn], q2, open, w2, n + 1)
  BY <1>1, <1>6, <1>7, <1>8, NextMatches
<1> QED BY <1>9 DEF open, q2, w2, n

\* Reading the file for a STOR that is under way.
LEMMA AttachingInOrder ==
  ASSUME ClientOK, ClientOK', InOrder, pc \notin {"off", "down"}, NEW p \in Path, AttachData(p),
         Exists(folder, p), UNCHANGED <<conn, link, s2c, outOfStep, window>>, Sent' = Sent
  PROVE  InOrder'
<1> SUFFICES ASSUME ~outOfStep
             PROVE  Matches(s2c[conn], c2s'[conn], link[conn] = "open", window, Sent)
  BY DEF InOrder
<1>1. conn \in Conn /\ conn # NoConn /\ s2c[conn] \in Seq(Reply) /\ c2s[conn] \in Seq(Request)
  BY OnConnection, ClientFacts
<1>2. Len(c2s'[conn]) = Len(c2s[conn]) /\ c2s'[conn] \in Seq(Request)
  BY <1>1, AttachKeeps DEF ClientOK
<1> DEFINE q == c2s[conn]
           n == Len(q)
           h == folder[p].hash
<1>3. c2s'[conn] = q \/ c2s'[conn] = [q EXCEPT ![n].data = h]
  BY <1>1, ClientFacts DEF AttachData
<1>4. \A i \in 1 .. Len(q) : Asked(c2s'[conn][i]) = Asked(q[i])
  <2> SUFFICES ASSUME NEW i \in 1 .. Len(q), c2s'[conn] = [q EXCEPT ![n].data = h]
               PROVE  Asked(c2s'[conn][i]) = Asked(q[i])
    BY <1>3
  <2>1. c2s'[conn][i] = q[i] \/ c2s'[conn][i] = [q[i] EXCEPT !.data = h]
    BY <1>1
  <2>2. q[i] \in Request
    BY <1>1
  <2>3. Asked([q[i] EXCEPT !.data = h]) = Asked(q[i])
    BY <2>2 DEF Asked, Request
  <2> QED BY <2>1, <2>3
<1>5. Matches(s2c[conn], c2s[conn], link[conn] = "open", window, Sent)
  BY <1>1 DEF InOrder
<1>6. Sent \in Nat
  BY SentIsInWindow
<1> DEFINE open == link[conn] = "open"
<1> HIDE DEF n, h, open
<1>7. Matches(s2c[conn], c2s'[conn], open, window, Sent)
  BY <1>1, <1>2, <1>4, <1>5, <1>6, DataMatches DEF open
<1> QED BY <1>7 DEF open

LEMMA ConsumingInOrder ==
  ASSUME ClientOK, InOrder, pc = "loop", pc' \in {"loop", "store"}, s2c[conn] # <<>>, Consume
  PROVE  InOrder'
<1>1. conn \in Conn /\ conn # NoConn /\ s2c[conn] \in Seq(Reply) /\ c2s[conn] \in Seq(Request)
      /\ window \in Seq(Events)
  BY OnConnection, ClientFacts
<1>2. /\ s2c'[conn] = Tail(s2c[conn]) /\ window' = Tail(window) /\ conn' = conn
      /\ link' = link /\ c2s' = c2s /\ outOfStep' = outOfStep
  BY <1>1, ClientFacts DEF Consume
<1>3. Sent = Len(window) /\ Sent' = Len(Tail(window))
  BY <1>2 DEF Sent
<1> SUFFICES ASSUME ~outOfStep
             PROVE  Matches(Tail(s2c[conn]), c2s[conn], link[conn] = "open", Tail(window), Len(Tail(window)))
  BY <1>2, <1>3 DEF InOrder
<1>4. Matches(s2c[conn], c2s[conn], link[conn] = "open", window, Len(window))
  BY <1>1, <1>3 DEF InOrder
<1> DEFINE open == link[conn] = "open"
<1>5. open \in BOOLEAN
  OBVIOUS
<1> HIDE DEF open
<1>6. Matches(Tail(s2c[conn]), c2s[conn], open, Tail(window), Len(Tail(window)))
  BY <1>1, <1>4, <1>5, TakenMatches DEF open
<1> QED BY <1>6 DEF open

LEMMA ClientInOrder ==
  ASSUME ClientOK, ClientOK', InOrder, Communicate
  PROVE  InOrder'
<1>1. ASSUME conn' = NoConn \/ outOfStep' PROVE InOrder'
  BY <1>1 DEF InOrder
<1>2. CASE LoseConnection \/ Disconnect
  BY <1>1, <1>2 DEF LoseConnection, Disconnect, HangUp
<1>3. CASE ReceiveUnwantedSend \/ ReceiveException \/ FileVanished
  BY <1>1, <1>3 DEF ReceiveUnwantedSend, ReceiveException, FileVanished, StopAll, Stop
<1>4. CASE SkipStale
  BY <1>1, <1>4 DEF SkipStale
<1>5. CASE Resent
  <2>1. Sent' = Sent
    <3>1. pc = "resend" /\ at > Len(window) /\ pc' = "loop" /\ window' = window
      BY <1>5 DEF Resent
    <3>2. at - 1 = Len(window)
      BY <3>1, ClientFacts DEF ClientOK, Control
    <3> QED BY <3>1, <3>2 DEF Sent
  <2> QED BY <1>5, <2>1 DEF Resent, InOrder, ownVars, netVars
<1>6. CASE ResendMessage
  <2>1. /\ pc = "resend" /\ at <= Len(window) /\ Transmit(conn, RequestOf(window[at]))
        /\ UNCHANGED <<conn, link, s2c, outOfStep, window>>
        /\ \/ pc' = "resendData" /\ at' = at
           \/ at' = at + 1 /\ pc' = pc
    BY <1>6 DEF ResendMessage, ownVars
  <2>2. at \in 1 .. Len(window) /\ window[at] \in Events
    BY <2>1, ClientFacts DEF ClientOK, Control
  <2>3. Sent = at - 1 /\ Sent' = at
    BY <2>1, <2>2 DEF Sent
  <2>4. Sent + 1 = at /\ Sent' = Sent + 1
    BY <2>2, <2>3
  <2> QED BY <2>1, <2>2, <2>4, SendingInOrder
<1>7. CASE ResendData
  <2>1. /\ pc = "resendData" /\ pc' = "resend" /\ at' = at + 1 /\ AttachData(window[at].path)
        /\ Exists(folder, window[at].path) /\ UNCHANGED <<conn, link, s2c, outOfStep, window>>
    BY <1>7 DEF ResendData, ownVars
  <2>2. at \in 1 .. Len(window) /\ window[at].path \in Path
    BY <2>1, ClientFacts, PathsOfEvents DEF ClientOK, Control
  <2>3. Sent' = Sent
    BY <2>1, <2>2 DEF Sent
  <2> QED BY <2>1, <2>2, <2>3, AttachingInOrder
<1>8. CASE SendEvent
  <2>1. /\ pc = "loop" /\ pc' = pc /\ window' = Append(window, Head(queue)) /\ queue # <<>>
        /\ Transmit(conn, RequestOf(Head(queue))) /\ UNCHANGED <<conn, link, s2c, outOfStep>>
    BY <1>8 DEF SendEvent, ownVars, positionVars
  <2>2. Head(queue) \in Events /\ window \in Seq(Events)
    BY <2>1, ClientFacts
  <2>3. Sent = Len(window) /\ Sent' = Len(window')
    BY <2>1 DEF Sent
  <2> QED BY <2>1, <2>2, <2>3, SendingInOrder
<1>9. CASE SendStor
  <2>1. /\ pc = "store" /\ pc' = "storeData" /\ window' = Append(window, cur[1])
        /\ Transmit(conn, RequestOf(cur[1])) /\ UNCHANGED <<conn, link, s2c, outOfStep>>
    BY <1>9 DEF SendStor, ownVars
  <2>2. Len(cur) = 1 /\ cur \in Seq(Events) /\ window \in Seq(Events)
    BY <2>1, ClientFacts DEF ClientOK, Control
  <2>3. cur[1] \in Events
    BY <2>2
  <2>4. Sent = Len(window) /\ Sent' = Len(window')
    BY <2>1 DEF Sent
  <2> QED BY <2>1, <2>2, <2>3, <2>4, SendingInOrder
<1>10. CASE SendData
  <2> DEFINE p == window[Len(window)].path
  <2>1. /\ pc = "storeData" /\ pc' = "loop" /\ AttachData(p) /\ Exists(folder, p)
        /\ UNCHANGED <<conn, link, s2c, outOfStep, window>>
    BY <1>10 DEF SendData, ownVars
  <2>2. window # <<>>
    BY <2>1 DEF ClientOK, Control
  <2>3. p \in Path
    BY <2>2, ClientFacts, PathsOfEvents
  <2>4. Sent' = Sent
    BY <2>1 DEF Sent
  <2> HIDE DEF p
  <2> QED BY <2>1, <2>3, <2>4, AttachingInOrder
<1>11. CASE ReceiveSend \/ ReceiveOk \/ ReceiveErr
  BY <1>11, ConsumingInOrder DEF ReceiveSend, ReceiveOk, ReceiveErr, Receiving, positionVars
<1> QED BY <1>2, <1>3, <1>4, <1>5, <1>6, <1>7, <1>8, <1>9, <1>10, <1>11 DEF Communicate

-----------------------------------------------------------------------------
(* The steps of the server and of the network.                              *)
\* What a step does to the connection c: nothing, or it ends and at most loses the last
\* replies, or a request is answered.
LeavesAlone(c) == link'[c] = link[c] /\ c2s'[c] = c2s[c] /\ s2c'[c] = s2c[c]
Ends(c) == /\ link'[c] # "open"
           /\ Len(s2c'[c]) <= Len(s2c[c])
           /\ \A i \in 1 .. Len(s2c'[c]) : s2c'[c][i] = s2c[c][i]
Answers(c) == /\ link[c] = "open" /\ c2s[c] # <<>>
              /\ \E x \in Reply : x.re = Head(c2s[c]) /\ s2c'[c] = Append(s2c[c], x)
              /\ link'[c] = "open" => c2s'[c] = Tail(c2s[c])
Orderly(c) == LeavesAlone(c) \/ Ends(c) \/ Answers(c)

LEMMA OrderlyKeeps ==
  ASSUME ClientOK, NetTypeOK', InOrder, UNCHANGED clientVars,
         ~outOfStep' => ~outOfStep /\ \A c \in Conn : Orderly(c)
  PROVE  InOrder'
<1> DEFINE r == s2c[conn]
           q == c2s[conn]
           r2 == s2c'[conn]
           q2 == c2s'[conn]
           n == Sent
<1> SUFFICES ASSUME conn # NoConn, ~outOfStep'
             PROVE  Matches(r2, q2, link'[conn] = "open", window, n)
  <2>1. Sent' = Sent /\ conn' = conn /\ window' = window
    BY DEF clientVars, Sent
  <2> QED BY <2>1 DEF InOrder
<1>1. /\ conn \in Conn /\ r \in Seq(Reply) /\ q \in Seq(Request) /\ Orderly(conn)
      /\ r2 \in Seq(Reply) /\ q2 \in Seq(Request)
      /\ Matches(r, q, link[conn] = "open", window, n)
  BY ClientFacts DEF NetTypeOK, InOrder
<1>2. n \in Nat
  BY SentIsInWindow, ClientFacts DEF ClientOK, Control
<1>3. CASE LeavesAlone(conn)
  BY <1>1, <1>3 DEF LeavesAlone
<1>4. CASE Ends(conn)
  <2>1. /\ link'[conn] # "open" /\ Len(r2) <= Len(r)
        /\ \A i \in 1 .. Len(r2) : r2[i] = r[i]
    BY <1>4 DEF Ends
  <2> HIDE DEF r, q, r2, q2, n
  <2>2. Matches(r2, q2, FALSE, window, n)
    BY <1>1, <1>2, <2>1, CutMatches
  <2> QED BY <2>1, <2>2
<1>5. CASE Answers(conn)
  <2>1. PICK x \in Reply : x.re = Head(q) /\ r2 = Append(r, x)
    BY <1>5 DEF Answers
  <2>2. link[conn] = "open" /\ q # <<>> /\ (link'[conn] = "open" => q2 = Tail(q))
    BY <1>5 DEF Answers
  <2>3. Matches(r, q, TRUE, window, n)
    BY <1>1, <2>2
  <2> HIDE DEF r, q, r2, q2, n
  <2>4. Matches(r2, Tail(q), TRUE, window, n)
    BY <1>1, <1>2, <2>1, <2>2, <2>3, AnswerMatches
  <2>5. CASE link'[conn] = "open"
    BY <2>2, <2>4, <2>5
  <2>6. CASE link'[conn] # "open"
    <3>1. Matches(r2, q2, FALSE, window, n)
      BY <2>4 DEF Matches
    <3> QED BY <2>6, <3>1
  <2> QED BY <2>5, <2>6
<1> QED BY <1>1, <1>3, <1>4, <1>5 DEF Orderly

LEMMA AnswerOrderly ==
  ASSUME NetTypeOK, NEW c \in Conn, c2s[c] # <<>>, NEW kind \in {"SEND"} \cup OkCode \cup ErrCode,
         Answer(c, kind)
  PROVE  \A d \in Conn : Orderly(d)
<1>1. /\ link \in [Conn -> {"none", "open", "broken"}]
      /\ c2s \in [Conn -> Seq(Request)] /\ s2c \in [Conn -> Seq(Reply)]
  BY DEF NetTypeOK
<1> DEFINE x == [kind |-> kind, re |-> Head(c2s[c])]
<1>2. x \in Reply /\ x.re = Head(c2s[c])
  BY HeadRequest DEF Reply
<1>3. link' = link /\ c2s' = [c2s EXCEPT ![c] = Tail(@)]
      /\ s2c' = IF link[c] = "open" THEN [s2c EXCEPT ![c] = Append(@, x)] ELSE s2c
  BY DEF Answer
<1> HIDE DEF x
<1> TAKE d \in Conn
<1>4. CASE d # c
  BY <1>1, <1>3, <1>4 DEF Orderly, LeavesAlone
<1>5. CASE d = c /\ link[c] = "open"
  BY <1>1, <1>2, <1>3, <1>5 DEF Orderly, Answers
<1>6. CASE d = c /\ link[c] # "open"
  BY <1>1, <1>3, <1>6 DEF Orderly, Ends
<1> QED BY <1>4, <1>5, <1>6

LEMMA FailOrderly ==
  ASSUME NetTypeOK, NEW c \in Conn, c2s[c] # <<>>, Fail(c)
  PROVE  \A d \in Conn : Orderly(d)
<1>1. /\ link \in [Conn -> {"none", "open", "broken"}]
      /\ c2s \in [Conn -> Seq(Request)] /\ s2c \in [Conn -> Seq(Reply)]
  BY DEF NetTypeOK
<1> DEFINE x == [kind |-> "exception", re |-> Head(c2s[c])]
<1>2. x \in Reply /\ x.re = Head(c2s[c])
  BY HeadRequest DEF Reply, ErrCode
<1>3. /\ link' = [d \in Conn |-> IF link[d] = "open" THEN "broken" ELSE link[d]]
      /\ s2c' = IF link[c] = "open" THEN [s2c EXCEPT ![c] = Append(@, x)] ELSE s2c
  BY DEF Fail
<1> HIDE DEF x
<1> TAKE d \in Conn
<1>4. link'[d] # "open"
  BY <1>1, <1>3
<1>5. CASE d = c /\ link[c] = "open"
  BY <1>1, <1>2, <1>3, <1>4, <1>5 DEF Orderly, Answers
<1>6. CASE d # c \/ link[c] # "open"
  BY <1>1, <1>3, <1>4, <1>6 DEF Orderly, Ends
<1> QED BY <1>5, <1>6

LEMMA ServeOrderly ==
  ASSUME ServerOK, NEW c \in Conn, Serve(c), ~outOfStep'
  PROVE  ~outOfStep /\ \A d \in Conn : Orderly(d)
<1>1. NetTypeOK
  BY DEF ServerOK
<1>2. ASSUME c2s[c] # <<>>, NEW kind \in {"SEND"} \cup OkCode \cup ErrCode, Answer(c, kind)
      PROVE  ~outOfStep /\ \A d \in Conn : Orderly(d)
  <2>1. outOfStep' = outOfStep
    BY <1>2 DEF Answer
  <2> QED BY <1>1, <1>2, <2>1, AnswerOrderly
<1>3. ASSUME c2s[c] # <<>>, Fail(c) PROVE ~outOfStep /\ \A d \in Conn : Orderly(d)
  <2>1. outOfStep' = outOfStep
    BY <1>3 DEF Fail
  <2> QED BY <1>1, <1>3, <2>1, FailOrderly
<1>4. CASE RecoverFromDB(c)
  BY <1>4 DEF RecoverFromDB, netVars, Orderly, LeavesAlone
<1>5. CASE Reject(c)
  BY <1>5 DEF Reject
<1>6. CASE EndSession(c)
  <2>1. /\ link' = [link EXCEPT ![c] = "none"] /\ c2s' = [c2s EXCEPT ![c] = <<>>]
        /\ s2c' = s2c /\ outOfStep' = outOfStep
    BY <1>6 DEF EndSession
  <2>2. ASSUME NEW d \in Conn PROVE Orderly(d)
    <3>1. Len(s2c[d]) \in Nat
      BY <1>1, Lengths
    <3>2. CASE d = c
      BY <1>1, <2>1, <3>1, <3>2 DEF Orderly, Ends, NetTypeOK
    <3>3. CASE d # c
      BY <1>1, <2>1, <3>3 DEF Orderly, LeavesAlone, NetTypeOK
    <3> QED BY <3>2, <3>3
  <2> QED BY <2>1, <2>2
<1>7. ASSUME c2s[c] # <<>>, NEW kind \in {"SEND"} \cup OkCode \cup ErrCode, JustAnswer(c, kind)
      PROVE  ~outOfStep /\ \A d \in Conn : Orderly(d)
  BY <1>2, <1>7 DEF JustAnswer
<1>8. CASE Probe(c)
  <2>1. c2s[c] # <<>>
    BY <1>8 DEF Probe, Handling
  <2> QED BY <1>2, <1>3, <1>7, <1>8, <2>1, ReplyKinds DEF Probe
<1>9. CASE StoreFile(c)
  <2>1. c2s[c] # <<>>
    BY <1>9 DEF StoreFile, Handling
  <2> QED BY <1>2, <1>3, <1>7, <1>9, <2>1, ReplyKinds DEF StoreFile
<1>10. CASE RemoveFile(c)
  <2>1. c2s[c] # <<>>
    BY <1>10 DEF RemoveFile, Handling
  <2> QED BY <1>2, <1>3, <1>7, <1>10, <2>1, ReplyKinds DEF RemoveFile, NothingThere
<1>11. CASE MakeDir(c)
  <2>1. c2s[c] # <<>>
    BY <1>11 DEF MakeDir, Handling
  <2> QED BY <1>2, <1>3, <1>7, <1>11, <2>1, ReplyKinds DEF MakeDir
<1>12. CASE RemoveDir(c)
  <2>1. c2s[c] # <<>>
    BY <1>12 DEF RemoveDir, Handling
  <2> QED BY <1>2, <1>3, <1>7, <1>12, <2>1, ReplyKinds DEF RemoveDir, NothingThere
<1> QED BY <1>4, <1>5, <1>6, <1>8, <1>9, <1>10, <1>11, <1>12 DEF Serve

\* The network, and the server's end and start.
LEMMA BreakdownOrderly ==
  ASSUME NetTypeOK, ServerDies \/ ServerRestarts \/ ConnectionBreaks
  PROVE  outOfStep' = outOfStep /\ \A d \in Conn : Orderly(d)
<1>1. /\ link \in [Conn -> {"none", "open", "broken"}]
      /\ c2s \in [Conn -> Seq(Request)] /\ s2c \in [Conn -> Seq(Reply)]
      /\ \A d \in Conn : Len(s2c[d]) \in Nat
  BY DEF NetTypeOK
<1>2. CASE ServerDies
  <2>1. /\ link' = [d \in Conn |-> IF link[d] = "open" THEN "broken" ELSE link[d]]
        /\ s2c' = s2c /\ outOfStep' = outOfStep
    BY <1>2 DEF ServerDies, Crash, CrashInHandler, Halt
  <2>2. ASSUME NEW d \in Conn PROVE link'[d] # "open" /\ s2c'[d] = s2c[d] /\ Len(s2c[d]) \in Nat
    BY ONLY <1>1, <2>1
  <2>3. \A d \in Conn : Ends(d)
    <3>1. SUFFICES ASSUME NEW d \in Conn PROVE Ends(d)
      OBVIOUS
    <3>2. Len(s2c'[d]) <= Len(s2c[d]) /\ \A i \in 1 .. Len(s2c'[d]) : s2c'[d][i] = s2c[d][i]
      BY ONLY <2>2
    <3> QED BY ONLY <2>2, <3>2 DEF Ends
  <2> QED BY ONLY <2>1, <2>3, ZenonT(30) DEF Orderly
<1>3. CASE ServerRestarts
  <2>1. link' = [d \in Conn |-> "none"] /\ s2c' = s2c /\ outOfStep' = outOfStep
    BY <1>3 DEF ServerRestarts, Restart
  <2>2. ASSUME NEW d \in Conn PROVE Ends(d)
    <3>1. link'[d] # "open" /\ s2c'[d] = s2c[d] /\ Len(s2c[d]) \in Nat
      BY ONLY <1>1, <2>1
    <3> QED BY ONLY <3>1 DEF Ends
  <2> QED BY ONLY <2>1, <2>2 DEF Orderly
<1>4. CASE ConnectionBreaks
  <2>1. PICK c \in Conn : Break(c)
    BY <1>4 DEF ConnectionBreaks
  <2>2. PICK s \in Prefixes(c2s[c]), u \in Prefixes(s2c[c]) :
           /\ link' = [link EXCEPT ![c] = "broken"]
           /\ c2s' = [c2s EXCEPT ![c] = s] /\ s2c' = [s2c EXCEPT ![c] = u]
           /\ outOfStep' = outOfStep
    BY <2>1 DEF Break
  <2>3. Len(u) <= Len(s2c[c]) /\ \A i \in 1 .. Len(u) : u[i] = s2c[c][i]
    <3>1. PICK n \in 0 .. Len(s2c[c]) : u = SubSeq(s2c[c], 1, n)
      BY DEF Prefixes
    <3> QED BY <1>1, <3>1
  <2>4. ASSUME NEW d \in Conn PROVE Orderly(d)
    <3>1. CASE d = c
      BY <1>1, <2>2, <2>3, <3>1 DEF Orderly, Ends
    <3>2. CASE d # c
      BY <1>1, <2>2, <3>2 DEF Orderly, LeavesAlone
    <3> QED BY <3>1, <3>2
  <2> QED BY <2>2, <2>4
<1> QED BY <1>2, <1>3, <1>4

LEMMA OrderPreserved == IInv /\ IInv' /\ InOrder /\ [Next]_vars => InOrder'
<1> SUFFICES ASSUME IInv, IInv', InOrder, [Next]_vars PROVE InOrder'
  OBVIOUS
<1>1. ClientOK /\ ClientOK' /\ ServerOK /\ NetTypeOK /\ NetTypeOK'
  BY InvariantParts DEF IInv, ClientOK
<1>2. ASSUME UNCHANGED <<clientVars, netVars>> PROVE InOrder'
  BY <1>1, <1>2, OrderlyKeeps DEF netVars, Orderly, LeavesAlone
<1>3. ASSUME conn' = NoConn PROVE InOrder'
  BY <1>3 DEF InOrder
<1>4. ASSUME Stop \/ StopAll PROVE InOrder'
  BY <1>3, <1>4 DEF StopAll, Stop
<1>5. CASE Users \/ Watcher \/ UNCHANGED vars
  BY <1>2, <1>5 DEF Users, Watcher, vars
<1>6. CASE WatcherFails
  BY <1>4, <1>6 DEF WatcherFails
<1>7. CASE Client
  BY <1>1, <1>7, ClientInOrder DEF Client
<1>8. ASSUME NEW c \in Conn, Connect(c) PROVE InOrder'
  <2>1. /\ conn' = c /\ pc' = "resend" /\ at' = 1 /\ s2c'[c] = <<>> /\ c2s'[c] = <<>>
    BY <1>1, <1>8, ClientFacts DEF Connect, ConnectTo
  <2>2. Sent' = 0
    BY <2>1 DEF Sent
  <2> QED BY <2>1, <2>2 DEF InOrder, Matches
<1>9. ASSUME NEW c \in Conn, Server(c) PROVE InOrder'
  BY <1>1, <1>9, ServeOrderly, OrderlyKeeps DEF Server
<1>10. CASE ServerDies \/ ServerRestarts \/ ConnectionBreaks
  <2>1. UNCHANGED clientVars
    BY <1>10 DEF ServerDies, ServerRestarts, ConnectionBreaks
  <2> QED BY <1>1, <1>10, <2>1, BreakdownOrderly, OrderlyKeeps
<1>11. CASE ClientRestarts
  <2>1. CASE StartClient
    BY <1>3, <1>1, <2>1 DEF StartClient, ClientOK, Control
  <2> QED BY <1>4, <1>11, <2>1 DEF ClientRestarts, Kill
<1>12. CASE ClientGivesUp
  BY <1>4, <1>12 DEF ClientGivesUp, GiveUp
<1> QED BY <1>5, <1>6, <1>7, <1>8, <1>9, <1>10, <1>11, <1>12 DEF Next

\* As long as nothing is skipped without a word, replies and requests under way are those
\* of the window's events one by one from its head (client/ProtocolManager.cpp:301, 409):
\* pop() after a reply takes the event that was answered, however often connections
\* break, the window is sent again, files change or either side dies.
THEOREM RepliesAreInOrder == Spec => []RepliesInOrder
<1>1. Init => InOrder
  BY DEF Init, ClientInit, InOrder
<1>2. IInv /\ InOrder => RepliesInOrder
  <2> SUFFICES ASSUME IInv, InOrder, conn # NoConn, ~outOfStep
               PROVE  /\ Replied = SubSeq(SentRequests, 1, Len(Replied))
                      /\ link[conn] = "open" => Replied \o Waiting = SentRequests
    BY DEF RepliesInOrder
  <2> DEFINE r == s2c[conn]
             q == c2s[conn]
             n == Sent
             asked == [i \in 1 .. n |-> RequestOf(window[i])]
  <2>1. /\ conn \in Conn /\ r \in Seq(Reply) /\ q \in Seq(Request) /\ window \in Seq(Events)
        /\ Len(r) \in Nat /\ Len(q) \in Nat /\ n \in Nat /\ n <= Len(window)
    BY ClientFacts, SentIsInWindow DEF IInv, ClientOK, Control
  <2>2. Matches(r, q, link[conn] = "open", window, n)
    BY DEF InOrder
  <2>3. SentRequests = asked /\ asked \in Seq(Request) /\ Len(asked) = n
    <3>1. \A i \in 1 .. n : RequestOf(window[i]) \in Request
      BY <2>1, RequestTypes
    <3>2. SentRequests = asked
      BY DEF SentRequests
    <3> HIDE DEF n
    <3> QED BY <2>1, <3>1, <3>2, IsASeq, LenProperties
  <2>4. /\ Replied \in Seq(Request) /\ Len(Replied) = Len(r)
        /\ \A i \in 1 .. Len(r) : Replied[i] = Asked(r[i].re)
    <3> DEFINE s == [i \in 1 .. Len(r) |-> Asked(r[i].re)]
    <3>1. ASSUME NEW i \in 1 .. Len(r) PROVE Asked(r[i].re) \in Request
      <4>1. r[i] \in Reply
        BY <2>1
      <4> QED BY <4>1, ReplyAnswers, AskedType
    <3>2. s \in Seq(Request) /\ Len(s) = Len(r)
      BY <2>1, <3>1
    <3>3. Replied = s
      BY <2>1 DEF Replied
    <3>4. \A i \in 1 .. Len(r) : s[i] = Asked(r[i].re)
      OBVIOUS
    <3> HIDE DEF s
    <3> QED BY <3>2, <3>3, <3>4
  <2>5. SentRequests = asked /\ \A i \in 1 .. n : asked[i] = RequestOf(window[i])
    BY <2>3
  <2>6. \A i \in 1 .. Len(r) : Asked(r[i].re) = RequestOf(window[i])
    BY <2>2 DEF Matches
  <2>7. Len(r) <= n
    BY <2>2 DEF Matches
  <2>8. ASSUME link[conn] = "open" PROVE Replied \o Waiting = asked
    <3> DEFINE s == [i \in 1 .. Len(q) |-> Asked(q[i])]
    <3>1. ASSUME NEW i \in 1 .. Len(q) PROVE Asked(q[i]) \in Request
      <4>1. q[i] \in Request
        BY <2>1
      <4> QED BY <4>1, AskedType
    <3>2. s \in Seq(Request) /\ Len(s) = Len(q)
      BY <2>1, <3>1
    <3>3. Waiting = s
      BY <2>1, <2>8 DEF Waiting
    <3>4. \A i \in 1 .. Len(q) : s[i] = RequestOf(window[Len(r) + i])
      BY <2>2, <2>8 DEF Matches
    <3>5. Len(r) + Len(q) = n
      BY <2>2, <2>8 DEF Matches
    <3> HIDE DEF s, asked, r, q, n
    <3>6. /\ Replied \o s \in Seq(Request) /\ Len(Replied \o s) = Len(Replied) + Len(s)
          /\ \A i \in 1 .. Len(Replied) + Len(s) :
                (Replied \o s)[i] = IF i <= Len(Replied) THEN Replied[i] ELSE s[i - Len(Replied)]
      <4>1. Replied \in Seq(Request)
        BY <2>4
      <4>2. s \in Seq(Request)
        BY <3>2
      <4> QED BY <4>1, <4>2, ConcatProperties, Zenon
    <3>7. ASSUME NEW i \in 1 .. n PROVE (Replied \o s)[i] = asked[i]
      <4>1. i \in 1 .. Len(Replied) + Len(s)
        BY <2>4, <3>2, <3>5
      <4>2. CASE i <= Len(r)
        <5>1. i \in 1 .. Len(r)
          BY <2>1, <4>2
        <5> QED BY <2>4, <2>5, <2>6, <3>6, <4>1, <5>1
      <4>3. CASE i > Len(r)
        <5>1. PICK j \in 1 .. Len(q) : j = i - Len(r) /\ Len(r) + j = i
          <6>1. i - Len(r) \in 1 .. Len(q) /\ Len(r) + (i - Len(r)) = i
            BY <2>1, <3>5, <4>3
          <6> QED BY <6>1
        <5>2. (Replied \o s)[i] = s[j]
          BY <2>1, <2>4, <3>6, <4>1, <4>3, <5>1
        <5>3. s[j] = RequestOf(window[i])
          BY <3>4, <5>1
        <5>4. asked[i] = RequestOf(window[i])
          BY <2>5
        <5> QED BY <5>2, <5>3, <5>4
      <4>4. i \in Int /\ Len(r) \in Int
        BY <2>1
      <4>5. i <= Len(r) \/ i > Len(r)
        BY ONLY <4>4
      <4> QED BY <4>2, <4>3, <4>5
    <3>8. Len(Replied \o s) = n
      BY <2>4, <3>2, <3>5, <3>6
    <3> QED BY <2>3, <3>3, <3>6, <3>7, <3>8, SeqEqual
  <2>9. Replied = SubSeq(asked, 1, Len(r))
    <3> HIDE DEF asked, r, q, n
    <3>1. \A i \in 1 .. Len(r) : asked[i] \in Request
      BY <2>1, <2>3, <2>7, ElementOfSeq
    <3>2. /\ SubSeq(asked, 1, Len(r)) \in Seq(Request)
          /\ Len(SubSeq(asked, 1, Len(r))) = IF 1 <= Len(r) THEN Len(r) - 1 + 1 ELSE 0
          /\ \A i \in 1 .. Len(r) - 1 + 1 : SubSeq(asked, 1, Len(r))[i] = asked[1 + i - 1]
      BY <2>1, <3>1, SubSeqProperties
    <3>3. Len(SubSeq(asked, 1, Len(r))) = Len(r)
      BY <2>1, <3>2
    <3>4. ASSUME NEW i \in 1 .. Len(r) PROVE SubSeq(asked, 1, Len(r))[i] = Replied[i]
      <4>1. i \in 1 .. n /\ 1 + i - 1 = i /\ i \in 1 .. Len(r) - 1 + 1
        BY <2>1, <2>7
      <4> QED BY <2>4, <2>5, <2>6, <3>2, <4>1
    <3> QED BY <2>4, <3>2, <3>3, <3>4, SeqEqual
  <2> QED BY <2>4, <2>5, <2>8, <2>9
<1>3. Spec => []InOrder
  BY Invariant, <1>1, OrderPreserved, PTL DEF Spec
<1> QED BY Invariant, <1>2, <1>3, PTL
-----------------------------------------------------------------------------
(* Where each path is only ever a file or only ever a directory, no request *)
(* ends the server.  The kinds are kept from the user's edits through       *)
(* events and requests to the backup; then the handlers find what they      *)
(* expect on the way to a path, at it and below it.                         *)
OfItsKind(tree) == \A p \in Path : Exists(tree, p) => tree[p].type \in Kinds[p]
KindsFixed ==
    /\ \A p \in Path : Kinds[p] = {"file"} \/ Kinds[p] = {"directory"}
    /\ \A p \in Path : \A q \in Ancestors[p] : Kinds[q] = {"directory"}
    /\ OfItsKind(Initial) /\ OfItsKind(StartTree)

KindEvents == {ev \in Events : ev.entry.type \in Kinds[ev.path]}
KindRequests == {r \in Request : r.entry.type \in Kinds[r.path]}

LEMMA TouchOfKind ==
  ASSUME KindsFixed, NEW tree \in Tree, OfItsKind(tree), NEW Q, NEW t \in Time
  PROVE  OfItsKind(Touch(tree, Q, t))
<1> SUFFICES ASSUME NEW p \in Path, Exists(Touch(tree, Q, t), p)
             PROVE  Touch(tree, Q, t)[p].type \in Kinds[p]
  BY DEF OfItsKind
<1>1. Touch(tree, Q, t)[p] = IF p \in Q /\ IsDir(tree, p) THEN Dir(t) ELSE tree[p]
  BY DEF Touch
<1>2. Exists(tree, p)
  BY TouchKeeps
<1> QED BY <1>1, <1>2, DirIsDir DEF OfItsKind, IsDir

LEMMA CreateOfKind ==
  ASSUME KindsFixed, NEW tree \in Tree, OfItsKind(tree), NEW Q \in SUBSET Path, NEW t \in Time,
         \A q \in Q : Kinds[q] = {"directory"}
  PROVE  OfItsKind(CreateDirectories(tree, Q, t))
<1> DEFINE missing == {q \in Q : ~Exists(tree, q)}
           made == [q \in Path |-> IF q \in missing THEN Dir(t) ELSE tree[q]]
<1>1. made \in Tree
  BY EntryTypes DEF Tree
<1>2. OfItsKind(made)
  BY DirIsDir DEF OfItsKind, Exists
<1>3. CreateDirectories(tree, Q, t) = Touch(made, UNION {Parent(q) : q \in missing}, t)
  BY DEF CreateDirectories
<1> HIDE DEF made, missing
<1> QED BY <1>1, <1>2, <1>3, TouchOfKind

LEMMA RemoveOfKind ==
  ASSUME NEW tree \in Tree, OfItsKind(tree), NEW p \in Path
  PROVE  OfItsKind(RemoveAll(tree, p))
BY DEF OfItsKind, RemoveAll, Exists

LEMMA PutOfKind ==
  ASSUME NEW tree \in Tree, OfItsKind(tree), NEW p \in Path, NEW e \in Entry \cup {Absent},
         e # Absent => e.type \in Kinds[p]
  PROVE  OfItsKind([tree EXCEPT ![p] = e])
BY DEF OfItsKind, Exists, Tree

LEMMA KeepTimeOfKind ==
  ASSUME NEW before \in Tree, NEW after \in Tree, NEW p \in Path,
         OfItsKind(before), OfItsKind(after)
  PROVE  OfItsKind(KeepParentTime(before, after, p))
BY DEF OfItsKind, KeepParentTime, Exists, IsDir

\* What the handlers make of the backup.
LEMMA StoredOfKind ==
  ASSUME KindsFixed, disk \in Tree, WellFormed(disk), OfItsKind(disk), NEW p \in Path,
         NEW e \in Entry, e.type \in Kinds[p], NEW t \in Time, Reachable(disk, p)
  PROVE  OfItsKind(Stored(p, e, t))
<1>1. WithParents(p, t) \in Tree
  BY WithParentsKeeps
<1>2. Ancestors[p] \in SUBSET Path /\ \A q \in Ancestors[p] : Kinds[q] = {"directory"}
  BY AncestorsArePaths DEF KindsFixed
<1>3. OfItsKind(WithParents(p, t))
  BY <1>2, CreateOfKind, Zenon DEF WithParents
<1> QED BY <1>1, <1>3, PutOfKind, Zenon DEF Stored

LEMMA MadeOfKind ==
  ASSUME KindsFixed, disk \in Tree, WellFormed(disk), OfItsKind(disk), NEW p \in Path,
         Kinds[p] = {"directory"}, NEW t \in Time
  PROVE  OfItsKind(Made(p, t))
<1>1. Ancestors[p] \cup {p} \in SUBSET Path /\ \A q \in Ancestors[p] \cup {p} : Kinds[q] = {"directory"}
  BY AncestorsArePaths DEF KindsFixed
<1> QED BY <1>1, CreateOfKind, Zenon DEF Made

LEMMA MadeDirOfKind ==
  ASSUME KindsFixed, disk \in Tree, WellFormed(disk), OfItsKind(disk), NEW p \in Path,
         Kinds[p] = {"directory"}, NEW e \in Entry, e.type = "directory", NEW t \in Time,
         Reachable(disk, p), ~IsFile(disk, p)
  PROVE  OfItsKind(MadeDir(p, e, t))
<1>1. Made(p, t) \in Tree /\ KeepParentTime(disk, Made(p, t), p) \in Tree
  BY MadeKeeps, KeepTimeKeeps
<1>2. OfItsKind(KeepParentTime(disk, Made(p, t), p))
  BY <1>1, MadeOfKind, KeepTimeOfKind
<1> QED BY <1>1, <1>2, PutOfKind DEF MadeDir

\* The user and the watcher.
WatcherKinds == /\ OfItsKind(folder) /\ OfItsKind(known)
                /\ queue \in Seq(KindEvents)

LEMMA UserOfKind ==
  ASSUME KindsFixed, WatcherOK, WatcherKinds, User
  PROVE  OfItsKind(folder')
<1>1. folder \in Tree /\ OfItsKind(folder)
  BY DEF WatcherOK, WatcherTypeOK, WatcherKinds
<1>2. ASSUME NEW p \in Path, NEW t \in Time, NEW h \in Hash, WriteFile(p, h, t)
      PROVE  OfItsKind(folder')
  <2> DEFINE written == [folder EXCEPT ![p] = File(h, t)]
  <2>1. written \in Tree /\ OfItsKind(written)
    <3>1. File(h, t) \in Entry /\ File(h, t).type \in Kinds[p]
      BY <1>2, EntryTypes DEF WriteFile, File
    <3> QED BY <1>1, <3>1, PutOfKind DEF Tree
  <2>2. folder' = IF Exists(folder, p) THEN written ELSE Touch(written, Parent(p), t)
    BY <1>2 DEF WriteFile, Edit
  <2> HIDE DEF written
  <2> QED BY <2>1, <2>2, TouchOfKind
<1>3. ASSUME NEW p \in Path, NEW t \in Time, MakeDirectory(p, t) PROVE OfItsKind(folder')
  <2>1. Kinds[p] = {"directory"}
    BY <1>3 DEF MakeDirectory, KindsFixed
  <2>2. folder' = IF Exists(folder, p) THEN Touch(folder, {p}, t)
                                       ELSE CreateDirectories(folder, {p}, t)
    BY <1>3 DEF MakeDirectory, Edit
  <2> QED BY <1>1, <2>1, <2>2, TouchOfKind, CreateOfKind
<1>4. ASSUME NEW p \in Path, NEW t \in Time, folder' = Removal(p, t) PROVE OfItsKind(folder')
  BY <1>1, <1>4, RemoveOfKind, RemoveKeeps, TouchOfKind DEF Removal
<1> QED BY <1>2, <1>3, <1>4 DEF User, Remove, Edit

LEMMA RemovalOfKind ==
  ASSUME KindsFixed, WatcherOK, WatcherKinds, NEW p \in Path, NEW t \in Time
  PROVE  OfItsKind(Removal(p, t))
<1>1. folder \in Tree /\ OfItsKind(folder)
  BY DEF WatcherOK, WatcherTypeOK, WatcherKinds
<1> QED BY <1>1, RemoveOfKind, RemoveKeeps, TouchOfKind DEF Removal

LEMMA ReportOfKind ==
  ASSUME WatcherOK, WatcherKinds, NEW p \in Path, NEW type \in EventType, NEW e \in Entry,
         NEW now \in Entry \cup {Absent}, e.type \in Kinds[p], now # Absent => now.type \in Kinds[p],
         Report(type, p, e, now)
  PROVE  OfItsKind(known') /\ queue' \in Seq(KindEvents)
<1>1. Event(type, p, e) \in KindEvents
  BY DEF Event, Events, KindEvents
<1>2. known \in Tree /\ OfItsKind(known) /\ queue \in Seq(KindEvents)
  BY DEF WatcherOK, WatcherTypeOK, WatcherKinds
<1>3. CASE HasRoom
  <2>1. queue' = Append(queue, Event(type, p, e)) /\ known' = [known EXCEPT ![p] = now]
    BY <1>3 DEF Report
  <2>2. OfItsKind(known')
    BY <1>2, <2>1, PutOfKind
  <2>3. queue' \in Seq(KindEvents)
    BY <1>1, <1>2, <2>1
  <2> QED BY <2>2, <2>3
<1>4. CASE ~HasRoom
  BY <1>2, <1>4 DEF Report
<1> QED BY <1>3, <1>4

LEMMA WatchOfKind ==
  ASSUME WatcherOK, WatcherKinds, Watch
  PROVE  OfItsKind(known') /\ queue' \in Seq(KindEvents) /\ folder' = folder
<1>1. /\ known \in Tree /\ folder \in Tree /\ OfItsKind(known) /\ OfItsKind(folder)
      /\ queue \in Seq(KindEvents) /\ VisitsKnown
  BY DEF WatcherOK, WatcherTypeOK, WatcherKinds
<1>2. folder' = folder
  BY Zenon DEF Watch, NextPass, VisitRecover, VisitDeleted, VisitPresent, folderVars
<1>3. CASE UNCHANGED <<known, queue>>
  BY <1>1, <1>2, <1>3
<1>4. CASE NextPass
  BY <1>3, <1>4 DEF NextPass
<1>5. ASSUME NEW p \in Path, VisitRecover(p) PROVE OfItsKind(known') /\ queue' \in Seq(KindEvents)
  <2>1. known[p] \in Entry /\ known[p].type \in Kinds[p]
    BY <1>1, <1>5 DEF VisitRecover, Turn, VisitsKnown, Exists, OfItsKind, Tree
  <2>2. Event("modified", p, known[p]) \in KindEvents
    BY <2>1 DEF Event, Events, KindEvents, EventType
  <2>3. known' = known /\ (queue' = queue \/ queue' = Append(queue, Event("modified", p, known[p])))
    BY <1>5 DEF VisitRecover
  <2> QED BY <1>1, <2>2, <2>3
<1>6. ASSUME NEW p \in Path, VisitDeleted(p) PROVE OfItsKind(known') /\ queue' \in Seq(KindEvents)
  <2>1. known[p] \in Entry /\ known[p].type \in Kinds[p]
    BY <1>1, <1>6 DEF VisitDeleted, Turn, VisitsKnown, Exists, OfItsKind, Tree
  <2>2. UNCHANGED <<known, queue>> \/ Report("deleted", p, known[p], Absent)
    BY <1>6 DEF VisitDeleted
  <2>3. "deleted" \in EventType
    BY DEF EventType
  <2> QED BY <1>3, <2>1, <2>2, <2>3, ReportOfKind
<1>7. ASSUME NEW p \in Path, VisitPresent(p) PROVE OfItsKind(known') /\ queue' \in Seq(KindEvents)
  <2>1. \/ UNCHANGED <<known, queue>>
        \/ /\ folder[p] # Absent
           /\ \E type \in {"modified", "created"} : Report(type, p, folder[p], folder[p])
    BY <1>7, Zenon DEF VisitPresent
  <2>2. folder[p] # Absent => folder[p] \in Entry /\ folder[p].type \in Kinds[p]
    BY <1>1 DEF Exists, OfItsKind, Tree
  <2>3. {"modified", "created"} \subseteq EventType
    BY DEF EventType
  <2> QED BY <1>3, <2>1, <2>2, <2>3, ReportOfKind
<1> QED BY <1>2, <1>4, <1>5, <1>6, <1>7, <1>3, Zenon DEF Watch

\* The client: its events, and the requests it makes of them.
ClientKinds == /\ OfItsKind(clientDb)
               /\ window \in Seq(KindEvents) /\ cur \in Seq(KindEvents)
RequestKinds == c2s \in [Conn -> Seq(KindRequests)]

LEMMA RequestOfKind ==
  ASSUME NEW ev \in KindEvents
  PROVE  RequestOf(ev) \in KindRequests
<1>1. ev \in Events /\ ev.entry.type \in Kinds[ev.path]
  BY DEF KindEvents
<1>2. RequestOf(ev).entry = ev.entry /\ RequestOf(ev).path = ev.path
  BY DEF RequestOf
<1> QED BY <1>1, <1>2, RequestTypes DEF KindRequests

LEMMA TransmitOfKind ==
  ASSUME conn \in Conn, RequestKinds, NEW ev \in KindEvents, Transmit(conn, RequestOf(ev))
  PROVE  RequestKinds'
<1> DEFINE r == RequestOf(ev)
<1>1. r \in KindRequests
  BY RequestOfKind
<1>2. c2s' = IF link[conn] = "open" THEN [c2s EXCEPT ![conn] = Append(@, r)] ELSE c2s
  BY DEF Transmit
<1>3. c2s[conn] \in Seq(KindRequests)
  BY DEF RequestKinds
<1> HIDE DEF r
<1>4. Append(c2s[conn], r) \in Seq(KindRequests)
  BY <1>1, <1>3
<1> QED BY <1>2, <1>4 DEF RequestKinds

LEMMA AttachOfKind ==
  ASSUME ClientOK, pc \notin {"off", "down"}, RequestKinds, NEW p \in Path, Exists(folder, p), AttachData(p)
  PROVE  RequestKinds'
<1>1. folder[p].hash \in Hash \cup {NoHash}
  BY EntryTypes DEF ClientOK, WatcherOK, WatcherTypeOK, Tree, Exists
<1> DEFINE s == c2s[conn]
           n == Len(s)
           h == folder[p].hash
           with == [s EXCEPT ![n].data = h]
<1>2. conn \in Conn /\ s \in Seq(KindRequests) /\ n \in Nat
  BY OnConnection, ClientFacts DEF RequestKinds
<1>3. \A r \in KindRequests : [r EXCEPT !.data = h] \in KindRequests
  BY <1>1 DEF Request, KindRequests
<1> HIDE DEF h, s
<1>4. with \in Seq(KindRequests)
  <2>1. with = [i \in 1 .. n |-> IF i = n THEN [s[n] EXCEPT !.data = h] ELSE s[i]]
    BY <1>2
  <2>2. \A i \in 1 .. n : (IF i = n THEN [s[n] EXCEPT !.data = h] ELSE s[i]) \in KindRequests
    BY <1>2, <1>3
  <2> HIDE DEF with
  <2> QED BY <1>2, <2>1, <2>2
<1>5. c2s' = IF link[conn] = "open" THEN [c2s EXCEPT ![conn] = with] ELSE c2s
  BY DEF AttachData, s, h
<1> HIDE DEF with, n
<1> QED BY <1>2, <1>4, <1>5 DEF RequestKinds

LEMMA StopOfKind ==
  ASSUME WatcherKinds, ClientKinds, RequestKinds, Stop
  PROVE  ClientKinds' /\ RequestKinds'
<1>1. clientDb' = clientDb /\ window' = <<>> /\ cur' = <<>> /\ c2s' = c2s
  BY DEF Stop
<1> QED BY <1>1 DEF ClientKinds, RequestKinds, OfItsKind, Exists

LEMMA StopAllOfKind ==
  ASSUME WatcherKinds, ClientKinds, RequestKinds, StopAll
  PROVE  WatcherKinds' /\ ClientKinds' /\ RequestKinds'
<1>1. folder' = folder /\ known' = known /\ queue' = <<>>
  BY DEF StopAll, folderVars
<1>2. WatcherKinds'
  BY <1>1 DEF WatcherKinds, OfItsKind, Exists
<1> QED BY <1>2, StopOfKind DEF StopAll

LEMMA WatcherKindsStay ==
  ASSUME WatcherKinds, UNCHANGED watcherVars
  PROVE  WatcherKinds'
BY DEF WatcherKinds, watcherVars, OfItsKind, Exists

LEMMA HeadOfKind ==
  ASSUME NEW s \in Seq(KindEvents), s # <<>>
  PROVE  /\ Head(s) \in KindEvents /\ Tail(s) \in Seq(KindEvents)
         /\ \A i \in 1 .. Len(s) : s[i] \in KindEvents
  OBVIOUS

LEMMA ClientOfKind ==
  ASSUME ClientOK, WatcherKinds, ClientKinds, RequestKinds, Communicate
  PROVE  WatcherKinds' /\ ClientKinds' /\ RequestKinds'
<1>1. /\ window \in Seq(KindEvents) /\ cur \in Seq(KindEvents) /\ queue \in Seq(KindEvents)
      /\ clientDb \in Tree /\ OfItsKind(clientDb)
  BY ClientFacts DEF WatcherKinds, ClientKinds
<1>2. ASSUME UNCHANGED watcherVars, clientDb' = clientDb, window' = window, cur' = cur \/ cur' = <<>>
      PROVE  WatcherKinds' /\ ClientKinds'
  <2>1. cur' \in Seq(KindEvents)
    <3>1. <<>> \in Seq(KindEvents)
      OBVIOUS
    <3> QED BY ONLY <1>1, <1>2, <3>1
  <2> QED BY <1>1, <1>2, <2>1, WatcherKindsStay DEF ClientKinds
<1>3. ASSUME c2s' = c2s PROVE RequestKinds'
  BY <1>3 DEF RequestKinds
<1>13. pc \in {"resend", "loop", "store"} => conn \in Conn
  BY ClientFacts
<1>4. CASE LoseConnection \/ Disconnect
  <2>1. HangUp
    BY <1>4 DEF LoseConnection, Disconnect
  <2>2. UNCHANGED watcherVars /\ clientDb' = clientDb /\ window' = window /\ cur' = <<>> /\ c2s' = c2s
    BY <2>1 DEF HangUp
  <2> QED BY <1>2, <1>3, <2>2
<1>5. CASE Resent \/ SkipStale
  <2>1. UNCHANGED watcherVars /\ clientDb' = clientDb /\ window' = window /\ cur' = cur /\ c2s' = c2s
    BY <1>5 DEF Resent, SkipStale, ownVars, netVars
  <2> QED BY <1>2, <1>3, <2>1
<1>6. CASE ResendMessage
  <2>1. /\ UNCHANGED watcherVars /\ clientDb' = clientDb /\ window' = window /\ cur' = cur
        /\ Transmit(conn, RequestOf(window[at])) /\ at <= Len(window) /\ pc = "resend"
    BY <1>6 DEF ResendMessage, ownVars
  <2>2. at \in 1 .. Len(window)
    BY <2>1, ClientFacts DEF ClientOK, Control
  <2>3. window[at] \in KindEvents
    BY <1>1, <2>2
  <2>4. RequestKinds'
    BY <1>13, <2>1, <2>3, TransmitOfKind
  <2> QED BY <1>2, <2>1, <2>4
<1>7. CASE ResendData \/ SendData
  <2>1. /\ UNCHANGED watcherVars /\ clientDb' = clientDb /\ window' = window /\ cur' = cur
        /\ pc \in {"resendData", "storeData"}
        /\ \E i \in {at, Len(window)} : /\ pc = "storeData" => i = Len(window)
                                        /\ pc = "resendData" => i = at
                                        /\ Exists(folder, window[i].path) /\ AttachData(window[i].path)
    BY <1>7 DEF ResendData, SendData, ownVars
  <2>2. PICK i \in 1 .. Len(window) : Exists(folder, window[i].path) /\ AttachData(window[i].path)
    <3>1. /\ pc = "resendData" => at \in 1 .. Len(window)
          /\ pc = "storeData" => Len(window) \in 1 .. Len(window)
      BY ClientFacts DEF ClientOK, Control
    <3> QED BY <2>1, <3>1
  <2>3. window[i].path \in Path
    <3>1. window[i] \in Events
      BY ClientFacts
    <3> QED BY <3>1 DEF Events
  <2>4. RequestKinds'
    BY <2>1, <2>2, <2>3, AttachOfKind
  <2> QED BY <1>2, <2>1, <2>4
<1>8. CASE SendEvent
  <2>1. /\ pc = "loop" /\ queue # <<>> /\ Transmit(conn, RequestOf(Head(queue)))
        /\ window' = Append(window, Head(queue)) /\ queue' = Tail(queue)
        /\ cur' = cur /\ clientDb' = clientDb /\ known' = known /\ folder' = folder
    BY <1>8 DEF SendEvent, positionVars, ownVars, folderVars
  <2>2. Head(queue) \in KindEvents /\ Tail(queue) \in Seq(KindEvents)
    BY <1>1, <2>1, HeadOfKind
  <2>3. RequestKinds'
    BY <1>13, <2>1, <2>2, TransmitOfKind
  <2>4. window' \in Seq(KindEvents)
    BY <1>1, <2>1, <2>2
  <2> QED BY <1>1, <2>1, <2>2, <2>3, <2>4 DEF WatcherKinds, ClientKinds
<1>9. CASE ReceiveSend
  <2>1. /\ window # <<>> /\ window' = Tail(window) /\ c2s' = c2s /\ UNCHANGED watcherVars
        /\ clientDb' = clientDb
        /\ cur' = cur \/ cur' = <<Event("storeSent", Head(window).path, Head(window).entry)>>
    BY <1>9 DEF ReceiveSend, Receiving, Consume
  <2>2. Head(window) \in KindEvents /\ Tail(window) \in Seq(KindEvents)
    BY <1>1, <2>1, HeadOfKind
  <2>3. Event("storeSent", Head(window).path, Head(window).entry) \in KindEvents
    BY <2>2 DEF KindEvents, Events, Event, EventType
  <2>4. cur' \in Seq(KindEvents)
    <3> DEFINE ev == Event("storeSent", Head(window).path, Head(window).entry)
    <3>1. ev \in KindEvents /\ (cur' = cur \/ cur' = <<ev>>)
      BY <2>1, <2>3
    <3> HIDE DEF ev
    <3>2. cur \in Seq(KindEvents)
      BY <1>1
    <3>3. <<ev>> \in Seq(KindEvents)
      BY ONLY <3>1
    <3> QED BY ONLY <3>1, <3>2, <3>3
  <2> QED BY <1>1, <1>3, <2>1, <2>2, <2>4, WatcherKindsStay DEF ClientKinds
<1>10. CASE ReceiveOk \/ ReceiveErr
  <2>1. /\ window # <<>> /\ window' = Tail(window) /\ c2s' = c2s /\ UNCHANGED watcherVars
        /\ cur' = cur /\ clientDb' \in {clientDb, Confirmed(Head(window))}
    BY <1>10 DEF ReceiveOk, ReceiveErr, Receiving, Consume, positionVars
  <2>2. Head(window) \in KindEvents /\ Tail(window) \in Seq(KindEvents)
    BY <1>1, <2>1, HeadOfKind
  <2>3. OfItsKind(Confirmed(Head(window)))
    <3>1. /\ Head(window).path \in Path /\ Head(window).entry \in Entry
          /\ Head(window).entry.type \in Kinds[Head(window).path]
      BY <2>2 DEF KindEvents, Events
    <3>2. Confirmed(Head(window)) \in {clientDb, [clientDb EXCEPT ![Head(window).path] = Head(window).entry],
                                       [clientDb EXCEPT ![Head(window).path] = Absent]}
      BY DEF Confirmed
    <3>3. OfItsKind([clientDb EXCEPT ![Head(window).path] = Head(window).entry])
      BY <1>1, <3>1, PutOfKind
    <3>4. OfItsKind([clientDb EXCEPT ![Head(window).path] = Absent])
      BY <1>1, <3>1, PutOfKind
    <3> QED BY ONLY <1>1, <3>2, <3>3, <3>4
  <2>4. OfItsKind(clientDb')
    BY <1>1, <2>1, <2>3
  <2> QED BY <1>1, <1>3, <2>1, <2>2, <2>4, WatcherKindsStay DEF ClientKinds
<1>11. CASE ReceiveUnwantedSend \/ ReceiveException \/ FileVanished
  BY <1>11, StopAllOfKind DEF ReceiveUnwantedSend, ReceiveException, FileVanished
<1>12. CASE SendStor
  <2>1. /\ pc = "store" /\ Transmit(conn, RequestOf(cur[1])) /\ window' = Append(window, cur[1])
        /\ cur' = <<>> /\ UNCHANGED watcherVars /\ clientDb' = clientDb
    BY <1>12 DEF SendStor, ownVars
  <2>2. cur[1] \in KindEvents
    <3>1. Len(cur) = 1
      BY <2>1 DEF ClientOK, Control
    <3>2. cur \in Seq(KindEvents)
      BY <1>1
    <3> QED BY ONLY <3>1, <3>2, ElementOfSeq
  <2>3. RequestKinds'
    BY <1>13, <2>1, <2>2, TransmitOfKind
  <2>4. window' \in Seq(KindEvents) /\ cur' \in Seq(KindEvents)
    BY <1>1, <2>1, <2>2
  <2> QED BY <1>1, <2>1, <2>3, <2>4, WatcherKindsStay DEF ClientKinds
<1> QED BY <1>4, <1>5, <1>6, <1>7, <1>8, <1>9, <1>10, <1>11, <1>12, Zenon DEF Communicate

\* The server: what a request asks for is of the path's kind.
LEMMA AskedOfKind ==
  ASSUME KindsFixed, NetTypeOK, RequestKinds, NEW c \in Conn, c2s[c] # <<>>
  PROVE  LET r == Head(c2s[c])
         IN  /\ r.path \in Path /\ r.entry \in Entry /\ Kinds[r.path] = {r.entry.type}
             /\ r.op \in {"PROB", "STOR", "DELE"} => r.entry.type = "file"
             /\ r.op \in {"MKD", "RMD"} => r.entry.type = "directory"
             /\ Tail(c2s[c]) \in Seq(KindRequests)
<1> DEFINE r == Head(c2s[c])
<1>1. c2s[c] \in Seq(KindRequests)
  BY DEF RequestKinds
<1>2. r \in KindRequests /\ Tail(c2s[c]) \in Seq(KindRequests)
  BY <1>1
<1> HIDE DEF r
<1>3. r \in Request /\ r.entry.type \in Kinds[r.path]
  BY <1>2 DEF KindRequests
<1>4. r.op \in Op /\ r.path \in Path /\ r.entry \in Entry
      /\ (r.op \in {"MKD", "RMD"} <=> r.entry.type = "directory")
  BY <1>3, AnyRequest
<1>5. r.entry.type \in {"file", "directory"}
  BY <1>4, EntryTypes
<1>6. Kinds[r.path] = {r.entry.type}
  BY <1>3, <1>4, <1>5 DEF KindsFixed
<1> QED BY <1>2, <1>4, <1>5, <1>6 DEF r

LEMMA ServeOfKind ==
  ASSUME KindsFixed, ServerOK, RequestKinds, OfItsKind(disk), NEW c \in Conn, Serve(c)
  PROVE  OfItsKind(disk') /\ RequestKinds'
<1> DEFINE p == Head(c2s[c]).path
           e == Head(c2s[c]).entry
<1>1. NetTypeOK /\ disk \in Tree /\ WellFormed(disk)
  BY DEF ServerOK, ServerTypeOK
<1>2. ASSUME c2s[c] # <<>>
      PROVE  /\ p \in Path /\ e \in Entry /\ Kinds[p] = {e.type}
             /\ Head(c2s[c]).op \in {"MKD", "RMD"} => e.type = "directory"
             /\ Tail(c2s[c]) \in Seq(KindRequests)
  BY <1>1, <1>2, AskedOfKind
<1>3. ASSUME c2s[c] # <<>>, c2s' = [c2s EXCEPT ![c] = Tail(@)] PROVE RequestKinds'
  <2>1. Tail(c2s[c]) \in Seq(KindRequests)
    BY <1>2, <1>3
  <2> QED BY ONLY <1>3, <2>1, RequestKinds DEF RequestKinds
<1>4. ASSUME c2s' = c2s \/ c2s' = [c2s EXCEPT ![c] = <<>>] \/ c2s' = [d \in Conn |-> <<>>]
      PROVE  RequestKinds'
  <2>1. <<>> \in Seq(KindRequests)
    OBVIOUS
  <2> QED BY ONLY <1>4, <2>1, RequestKinds DEF RequestKinds
<1> HIDE DEF p, e
<1>5. ASSUME c2s[c] # <<>>, NEW kind, Answer(c, kind) PROVE RequestKinds'
  BY <1>3, <1>5 DEF Answer
<1>6. ASSUME c2s[c] # <<>>, NEW kind, JustAnswer(c, kind) PROVE OfItsKind(disk') /\ RequestKinds'
  <2>1. disk' = disk
    BY <1>6 DEF JustAnswer, storeVars
  <2> QED BY <1>5, <1>6, <2>1 DEF JustAnswer
<1>7. ASSUME Fail(c) PROVE OfItsKind(disk') /\ RequestKinds'
  <2>1. disk' = disk
    BY <1>7 DEF Fail, storeVars
  <2> QED BY <1>4, <1>7, <2>1 DEF Fail
<1>8. CASE RecoverFromDB(c) \/ EndSession(c)
  <2>1. disk' = disk /\ (c2s' = c2s \/ c2s' = [c2s EXCEPT ![c] = <<>>])
    BY <1>8 DEF RecoverFromDB, EndSession, netVars, serverVars, storeVars
  <2> QED BY <1>4, <2>1
<1>9. CASE Reject(c)
  <2>1. disk' = disk /\ c2s[c] # <<>> /\ c2s' = [c2s EXCEPT ![c] = Tail(@)]
    BY <1>9 DEF Reject, serverVars, storeVars
  <2> QED BY <1>3, <2>1
<1>10. CASE Probe(c)
  <2>1. c2s[c] # <<>>
    BY <1>10 DEF Probe, Handling
  <2>2. ASSUME disk' = [disk EXCEPT ![p].lwt = e.lwt], Exists(disk, p) PROVE OfItsKind(disk')
    <3>1. disk' = [disk EXCEPT ![p] = [disk[p] EXCEPT !.lwt = e.lwt]]
      BY <2>2
    <3>2. disk[p] \in Entry /\ e.lwt \in Time /\ disk[p].type \in Kinds[p]
      BY <1>1, <1>2, <2>1, <2>2, EntryTypes DEF Exists, Tree, OfItsKind
    <3>3. [disk[p] EXCEPT !.lwt = e.lwt] \in Entry /\ [disk[p] EXCEPT !.lwt = e.lwt].type = disk[p].type
      BY <3>2 DEF Entry
    <3> QED BY <1>1, <1>2, <2>1, <3>1, <3>2, <3>3, PutOfKind
  <2>3. \/ \E kind : JustAnswer(c, kind)
        \/ Fail(c)
        \/ Exists(disk, p) /\ disk' = [disk EXCEPT ![p].lwt = e.lwt] /\ \E kind : Answer(c, kind)
    BY <1>10, Zenon DEF Probe, p, e
  <2> QED BY <1>5, <1>6, <1>7, <2>1, <2>2, <2>3
<1>11. CASE StoreFile(c)
  <2>1. c2s[c] # <<>>
    BY <1>11 DEF StoreFile, Handling
  <2>2. \/ \E kind : JustAnswer(c, kind)
        \/ Fail(c)
        \/ /\ Reachable(disk, p) /\ \E t \in Time : disk' = Stored(p, e, t)
           /\ \E kind : Answer(c, kind)
    BY <1>11, Zenon DEF StoreFile, p, e
  <2>3. ASSUME Reachable(disk, p), NEW t \in Time, disk' = Stored(p, e, t) PROVE OfItsKind(disk')
    BY <1>1, <1>2, <2>1, <2>3, StoredOfKind
  <2> QED BY <1>5, <1>6, <1>7, <2>1, <2>2, <2>3
<1>12. ASSUME c2s[c] # <<>>, NothingThere(c, p) PROVE OfItsKind(disk') /\ RequestKinds'
  <2>1. \E kind : JustAnswer(c, kind) \/ (Answer(c, kind) /\ disk' = disk)
    BY <1>12 DEF NothingThere
  <2> QED BY <1>5, <1>6, <1>12, <2>1
<1>13. CASE RemoveFile(c)
  <2>1. c2s[c] # <<>>
    BY <1>13 DEF RemoveFile, Handling
  <2>2. \/ NothingThere(c, p)
        \/ \E kind : JustAnswer(c, kind)
        \/ Fail(c)
        \/ disk' = [disk EXCEPT ![p] = Absent] /\ \E kind : Answer(c, kind)
    BY <1>13, Zenon DEF RemoveFile, p
  <2>3. ASSUME disk' = [disk EXCEPT ![p] = Absent] PROVE OfItsKind(disk')
    BY <1>1, <1>2, <2>1, <2>3, PutOfKind
  <2> QED BY <1>5, <1>6, <1>7, <1>12, <2>1, <2>2, <2>3
<1>14. CASE MakeDir(c)
  <2>1. c2s[c] # <<>> /\ Head(c2s[c]).op = "MKD"
    BY <1>14 DEF MakeDir, Handling
  <2>2. \/ \E kind : JustAnswer(c, kind)
        \/ Fail(c)
        \/ /\ Reachable(disk, p) /\ ~IsFile(disk, p) /\ \E t \in Time : disk' = MadeDir(p, e, t)
           /\ \E kind : Answer(c, kind)
    BY <1>14, Zenon DEF MakeDir, p, e
  <2>3. ASSUME Reachable(disk, p), ~IsFile(disk, p), NEW t \in Time, disk' = MadeDir(p, e, t)
        PROVE  OfItsKind(disk')
    BY <1>1, <1>2, <2>1, <2>3, MadeDirOfKind
  <2> QED BY <1>5, <1>6, <1>7, <2>1, <2>2, <2>3
<1>15. CASE RemoveDir(c)
  <2>1. c2s[c] # <<>>
    BY <1>15 DEF RemoveDir, Handling
  <2>2. \/ NothingThere(c, p)
        \/ \E kind : JustAnswer(c, kind)
        \/ Fail(c)
        \/ disk' = RemoveAll(disk, p) /\ \E kind : Answer(c, kind)
    BY <1>15, Zenon DEF RemoveDir, p
  <2>3. ASSUME disk' = RemoveAll(disk, p) PROVE OfItsKind(disk')
    BY <1>1, <1>2, <2>1, <2>3, RemoveOfKind
  <2> QED BY <1>5, <1>6, <1>7, <1>12, <2>1, <2>2, <2>3
<1> QED BY <1>8, <1>9, <1>10, <1>11, <1>13, <1>14, <1>15 DEF Serve

LEMMA CrashOfKind ==
  ASSUME KindsFixed, ServerOK, RequestKinds, OfItsKind(disk), NEW c \in Conn, CrashInHandler(c)
  PROVE  OfItsKind(disk')
<1> DEFINE p == Head(c2s[c]).path
           e == Head(c2s[c]).entry
           op == Head(c2s[c]).op
<1>1. NetTypeOK /\ disk \in Tree /\ WellFormed(disk)
  BY DEF ServerOK, ServerTypeOK
<1>2. c2s[c] # <<>> /\ CutOff(c)
  BY CrashCuts DEF CutOff
<1>3. p \in Path /\ e \in Entry /\ Kinds[p] = {e.type}
      /\ (op \in {"MKD", "RMD"} => e.type = "directory")
  BY <1>1, <1>2, AskedOfKind
<1>4. ASSUME NEW t \in Time, Reachable(disk, p),
             disk' \in {Stored(p, e, t), Touch(Stored(p, e, t), Parent(p), t)}
      PROVE  OfItsKind(disk')
  <2> HIDE DEF p, e
  <2>1. OfItsKind(Stored(p, e, t))
    BY <1>1, <1>3, <1>4, StoredOfKind
  <2>2. Stored(p, e, t) \in Tree
    <3>1. WithParents(p, t) \in Tree
      BY <1>1, <1>3, <1>4, WithParentsKeeps
    <3> QED BY <1>3, <3>1 DEF Stored, Tree
  <2> QED BY <1>4, <2>1, <2>2, TouchOfKind
<1>5. ASSUME NEW t \in Time, NEW a \in Ancestors[p] \cup {p}, a = p => op = "MKD", disk' = Made(a, t)
      PROVE  OfItsKind(disk')
  <2>1. a \in Path /\ Kinds[a] = {"directory"}
    BY <1>3, <1>5, AncestorsArePaths DEF KindsFixed
  <2> QED BY <1>1, <1>5, <2>1, MadeOfKind
<1>6. ASSUME NEW t \in Time, op = "MKD", Reachable(disk, p), ~IsFile(disk, p),
             disk' \in {[Made(p, t) EXCEPT ![p] = e], MadeDir(p, e, t)}
      PROVE  OfItsKind(disk')
  <2>1. Kinds[p] = {"directory"} /\ e.type = "directory"
    BY <1>3, <1>6
  <2> HIDE DEF p, e
  <2>2. OfItsKind(Made(p, t)) /\ Made(p, t) \in Tree
    BY <1>1, <1>3, <1>6, <2>1, MadeOfKind, MadeKeeps
  <2>3. OfItsKind(MadeDir(p, e, t))
    BY <1>1, <1>3, <1>6, <2>1, MadeDirOfKind
  <2>4. OfItsKind([Made(p, t) EXCEPT ![p] = e])
    BY <1>3, <2>1, <2>2, PutOfKind
  <2> QED BY <1>6, <2>3, <2>4
<1>7. ASSUME NEW t \in Time, NEW R \in SUBSET Path, disk' = Without(R, t) PROVE OfItsKind(disk')
  <2> DEFINE tree == [q \in Path |-> IF q \in R THEN Absent ELSE disk[q]]
  <2>1. tree \in Tree /\ OfItsKind(tree)
    BY <1>1 DEF Tree, OfItsKind, Exists
  <2> HIDE DEF tree
  <2>2. OfItsKind(Touch(tree, UNION {Parent(r) : r \in R}, t))
    BY <2>1, TouchOfKind
  <2> QED BY <1>7, <2>2 DEF Without, tree
<1>8. \A R \in SUBSET ({p} \cup Below(p)) : R \in SUBSET Path
  BY <1>3 DEF Below
<1> QED BY <1>2, <1>4, <1>5, <1>6, <1>7, <1>8 DEF CutOff

AllOfTheirKind == WatcherKinds /\ ClientKinds /\ RequestKinds /\ OfItsKind(disk)

LEMMA KindsInit ==
  ASSUME KindsFixed, Init
  PROVE  AllOfTheirKind
<1>1. /\ folder = Initial /\ known = Initial /\ clientDb = Initial /\ disk = StartTree
      /\ queue = <<>> /\ window = <<>> /\ cur = <<>> /\ c2s = [c \in Conn |-> <<>>]
  BY DEF Init, WatcherInit, ClientInit, NetInit, ServerInit
<1>2. <<>> \in Seq(KindEvents) /\ <<>> \in Seq(KindRequests)
  OBVIOUS
<1>3. RequestKinds
  BY ONLY <1>1, <1>2 DEF RequestKinds
<1> QED BY <1>1, <1>2, <1>3 DEF KindsFixed, AllOfTheirKind, WatcherKinds, ClientKinds

LEMMA KindsStay ==
  ASSUME KindsFixed, IInv, AllOfTheirKind, [Next]_vars
  PROVE  AllOfTheirKind'
<1>1. /\ WatcherOK /\ ClientOK /\ ServerOK
      /\ WatcherKinds /\ ClientKinds /\ RequestKinds /\ OfItsKind(disk)
  BY InvariantParts DEF ClientOK, AllOfTheirKind
<1>2. ASSUME UNCHANGED clientVars PROVE ClientKinds'
  BY <1>1, <1>2 DEF ClientKinds, clientVars, OfItsKind, Exists
<1>3. ASSUME c2s' = c2s PROVE RequestKinds'
  BY <1>1, <1>3 DEF RequestKinds
<1>4. ASSUME UNCHANGED watcherVars PROVE WatcherKinds'
  BY <1>1, <1>4, WatcherKindsStay
<1>5. ASSUME UNCHANGED serverVars PROVE OfItsKind(disk)'
  BY <1>1, <1>5 DEF serverVars, storeVars, OfItsKind, Exists
<1>6. ASSUME OfItsKind(disk') PROVE OfItsKind(disk)'
  BY <1>6 DEF OfItsKind, Exists
<1>7. ASSUME c2s' = [c \in Conn |-> <<>>] PROVE RequestKinds'
  <2>1. <<>> \in Seq(KindRequests)
    OBVIOUS
  <2> QED BY ONLY <1>7, <2>1 DEF RequestKinds
<1>8. CASE UNCHANGED vars
  BY <1>2, <1>3, <1>4, <1>5, <1>8 DEF vars, netVars, AllOfTheirKind
<1>9. CASE Users
  <2>1. /\ UNCHANGED <<clientVars, netVars, serverVars>> /\ known' = known /\ queue' = queue
        /\ OfItsKind(folder')
    BY <1>1, <1>9, UserOfKind DEF Users, User, WriteFile, MakeDirectory, Remove
  <2>2. WatcherKinds'
    BY <1>1, <2>1 DEF WatcherKinds, OfItsKind, Exists
  <2> QED BY <1>2, <1>3, <1>5, <2>1, <2>2 DEF AllOfTheirKind, netVars
<1>10. CASE Watcher
  <2>1. /\ UNCHANGED <<clientVars, netVars, serverVars>> /\ folder' = folder
        /\ OfItsKind(known') /\ queue' \in Seq(KindEvents)
    BY <1>1, <1>10, WatchOfKind DEF Watcher
  <2>2. WatcherKinds'
    BY <1>1, <2>1 DEF WatcherKinds, OfItsKind, Exists
  <2> QED BY <1>2, <1>3, <1>5, <2>1, <2>2 DEF AllOfTheirKind, netVars
<1>11. CASE WatcherFails
  <2>1. PICK p \in Path, t \in Time : folder' = Removal(p, t) /\ queue' = <<>> /\ known' = known
    BY <1>11 DEF WatcherFails, VanishUnderExamination, Edit
  <2>2. OfItsKind(folder')
    BY <1>1, <2>1, RemovalOfKind
  <2>3. WatcherKinds'
    BY <1>1, <2>1, <2>2 DEF WatcherKinds, OfItsKind, Exists
  <2>4. ClientKinds' /\ RequestKinds'
    BY <1>1, <1>11, StopOfKind DEF WatcherFails
  <2> QED BY <1>5, <1>11, <2>3, <2>4 DEF AllOfTheirKind, WatcherFails
<1>12. CASE Client
  BY <1>1, <1>5, <1>12, ClientOfKind DEF Client, AllOfTheirKind
<1>13. ASSUME NEW c \in Conn, Connect(c) PROVE AllOfTheirKind'
  <2>1. /\ UNCHANGED watcherVars /\ clientDb' = clientDb /\ window' = window /\ cur' = cur
        /\ disk' = disk /\ c2s' = [c2s EXCEPT ![c] = <<>>]
    BY <1>13 DEF Connect, ConnectTo, storeVars
  <2>2. ClientKinds'
    BY <1>1, <2>1 DEF ClientKinds, OfItsKind, Exists
  <2>3. RequestKinds'
    <3>1. <<>> \in Seq(KindRequests)
      OBVIOUS
    <3> QED BY ONLY <1>1, <2>1, <3>1 DEF RequestKinds
  <2>4. OfItsKind(disk)'
    BY <1>1, <1>6, <2>1
  <2> QED BY <1>4, <2>1, <2>2, <2>3, <2>4 DEF AllOfTheirKind
<1>14. ASSUME NEW c \in Conn, Server(c) PROVE AllOfTheirKind'
  <2>1. OfItsKind(disk') /\ RequestKinds'
    BY <1>1, <1>14, ServeOfKind DEF Server
  <2> QED BY <1>2, <1>4, <1>6, <1>14, <2>1 DEF AllOfTheirKind, Server
<1>15. CASE ServerDies
  <2>1. UNCHANGED <<watcherVars, clientVars>> /\ c2s' = [c \in Conn |-> <<>>]
    BY <1>15 DEF ServerDies, Crash, CrashInHandler, Halt
  <2>2. OfItsKind(disk')
    <3>1. CASE Crash
      BY <1>1, <3>1 DEF Crash
    <3>2. CASE \E c \in Conn : CrashInHandler(c)
      BY <1>1, <3>2, CrashOfKind
    <3> QED BY <1>15, <3>1, <3>2 DEF ServerDies
  <2> QED BY <1>2, <1>4, <1>6, <1>7, <2>1, <2>2 DEF AllOfTheirKind
<1>16. CASE ServerRestarts
  <2>1. UNCHANGED <<watcherVars, clientVars>> /\ c2s' = c2s /\ disk' = disk
    BY <1>16 DEF ServerRestarts, Restart, storeVars
  <2> QED BY <1>1, <1>2, <1>3, <1>4, <1>6, <2>1 DEF AllOfTheirKind
<1>17. CASE ConnectionBreaks
  <2>1. PICK c \in Conn : Break(c)
    BY <1>17 DEF ConnectionBreaks
  <2>2. c2s[c] \in Seq(KindRequests)
    BY <1>1 DEF RequestKinds
  <2>3. PICK s \in Prefixes(c2s[c]) : c2s' = [c2s EXCEPT ![c] = s]
    BY <2>1 DEF Break
  <2>4. s \in Seq(KindRequests)
    BY <2>2, <2>3, PrefixesOf
  <2>5. RequestKinds'
    BY ONLY <1>1, <2>3, <2>4 DEF RequestKinds
  <2> QED BY <1>2, <1>4, <1>5, <1>17, <2>5 DEF AllOfTheirKind, ConnectionBreaks
<1>18. CASE (Kill /\ UNCHANGED serverVars) \/ ClientGivesUp
  <2>1. StopAll /\ UNCHANGED serverVars
    BY <1>18 DEF Kill, ClientGivesUp, GiveUp
  <2> QED BY <1>1, <1>5, <2>1, StopAllOfKind DEF AllOfTheirKind
<1>19. CASE StartClient /\ UNCHANGED serverVars
  <2>1. /\ known' = clientDb /\ queue' = queue /\ folder' = folder /\ clientDb' = clientDb
        /\ window' = window /\ cur' = cur /\ c2s' = c2s
    BY <1>19 DEF StartClient, folderVars, netVars
  <2>2. WatcherKinds' /\ ClientKinds'
    BY <1>1, <2>1 DEF WatcherKinds, ClientKinds, OfItsKind, Exists
  <2> QED BY <1>3, <1>5, <1>19, <2>1, <2>2 DEF AllOfTheirKind
<1> QED BY <1>8, <1>9, <1>10, <1>11, <1>12, <1>13, <1>14, <1>15, <1>16, <1>17, <1>18, <1>19
        DEF Next, ClientRestarts

\* Where no session is, and while the server is down, nothing is to be read.
Silent == /\ \A c \in Conn : link[c] = "none" => c2s[c] = <<>>
          /\ ~serverUp => \A c \in Conn : link[c] # "open" /\ c2s[c] = <<>>

\* Nothing is written where no session is open.
NothingNew ==
    \A c \in Conn : /\ link'[c] = "open" => link[c] = "open"
                    /\ link'[c] = "none" => link[c] = "none" \/ c2s'[c] = <<>>
                    /\ c2s'[c] # <<>> => c2s[c] # <<>> \/ link[c] = "open"

LEMMA SilentAsBefore ==
  ASSUME Silent, NothingNew, ~serverUp' => ~serverUp
  PROVE  Silent'
BY DEF Silent, NothingNew

LEMMA WritingIsHeard ==
  ASSUME ClientOK, \/ \E r : Transmit(conn, r)
                   \/ \E p : AttachData(p)
                   \/ c2s' = c2s,
         \A c \in Conn : link'[c] = link[c] \/ (link[c] = "open" /\ link'[c] = "broken")
  PROVE  NothingNew
<1> SUFFICES ASSUME NEW c \in Conn, c2s'[c] # <<>> PROVE c2s[c] # <<>> \/ link[c] = "open"
  BY DEF NothingNew
<1>1. c2s \in [Conn -> Seq(Request)]
  BY ClientFacts
<1>2. c2s'[c] = c2s[c] \/ link[c] = "open"
  BY <1>1 DEF Transmit, AttachData
<1> QED BY <1>2

LEMMA ClientIsHeard ==
  ASSUME ClientOK, Communicate
  PROVE  NothingNew
<1>1. link \in [Conn -> {"none", "open", "broken"}]
  BY ClientFacts
<1>2. ASSUME c2s' = c2s, Stop PROVE NothingNew
  BY <1>1, <1>2, WritingIsHeard DEF Stop
<1>3. CASE LoseConnection \/ Disconnect
  <2>1. c2s' = c2s
    BY <1>3 DEF LoseConnection, Disconnect, HangUp
  <2>2. \A c \in Conn : link'[c] = link[c] \/ (link[c] = "open" /\ link'[c] = "broken")
    BY <1>1, <1>3 DEF LoseConnection, Disconnect
  <2> QED BY <2>1, <2>2, WritingIsHeard
<1>4. CASE Resent \/ SkipStale \/ ReceiveSend \/ ReceiveOk \/ ReceiveErr
  <2>1. c2s' = c2s /\ link' = link
    BY <1>4 DEF Resent, SkipStale, ReceiveSend, ReceiveOk, ReceiveErr, Consume, netVars
  <2> QED BY <2>1, WritingIsHeard
<1>5. CASE ResendMessage \/ ResendData \/ SendEvent \/ SendStor \/ SendData
  <2>1. link' = link
    BY <1>5 DEF ResendMessage, ResendData, SendEvent, SendStor, SendData
  <2>2. (\E r : Transmit(conn, r)) \/ (\E p : AttachData(p))
    BY <1>5, Zenon DEF ResendMessage, ResendData, SendEvent, SendStor, SendData
  <2> QED BY <2>1, <2>2, WritingIsHeard
<1>6. CASE ReceiveUnwantedSend \/ ReceiveException \/ FileVanished
  <2>1. Stop
    BY <1>6 DEF ReceiveUnwantedSend, ReceiveException, FileVanished, StopAll
  <2> QED BY <1>2, <2>1 DEF Stop
<1> QED BY <1>3, <1>4, <1>5, <1>6 DEF Communicate

LEMMA HandlingIsHeard ==
  ASSUME ServerOK, NEW c \in Conn, Serve(c), serverUp'
  PROVE  NothingNew
<1>1. link \in [Conn -> {"none", "open", "broken"}] /\ c2s \in [Conn -> Seq(Request)]
  BY DEF ServerOK, NetTypeOK
<1>2. ASSUME c2s[c] # <<>>, c2s' = [c2s EXCEPT ![c] = Tail(@)], link' = link PROVE NothingNew
  BY <1>1, <1>2 DEF NothingNew
<1>3. ASSUME c2s' = c2s, link' = link PROVE NothingNew
  BY <1>1, <1>3 DEF NothingNew
<1>4. ASSUME c2s' = [c2s EXCEPT ![c] = <<>>], link' = [link EXCEPT ![c] = "none"] PROVE NothingNew
  BY <1>1, <1>4 DEF NothingNew
<1>5. CASE RecoverFromDB(c)
  BY <1>3, <1>5 DEF RecoverFromDB, netVars
<1>6. CASE EndSession(c)
  BY <1>4, <1>6 DEF EndSession
<1>7. CASE Reject(c)
  BY <1>2, <1>7 DEF Reject
<1>8. CASE Probe(c) \/ StoreFile(c) \/ RemoveFile(c) \/ MakeDir(c) \/ RemoveDir(c)
  <2>1. c2s[c] # <<>>
    BY <1>8 DEF Probe, StoreFile, RemoveFile, MakeDir, RemoveDir, Handling
  <2>2. ~Fail(c)
    BY DEF Fail
  <2>3. \E kind : Answer(c, kind)
    BY <1>8, <2>2, Zenon DEF Probe, StoreFile, RemoveFile, MakeDir, RemoveDir, NothingThere, JustAnswer
  <2> QED BY <1>2, <2>1, <2>3, SMTT(20) DEF Answer
<1> QED BY <1>5, <1>6, <1>7, <1>8 DEF Serve

LEMMA StaysSilent ==
  ASSUME IInv, Silent, [Next]_vars
  PROVE  Silent'
<1>1. ClientOK /\ ServerOK /\ link \in [Conn -> {"none", "open", "broken"}] /\ c2s \in [Conn -> Seq(Request)]
  BY InvariantParts, ClientFacts
<1>2. ASSUME c2s' = c2s, link' = link, serverUp' = serverUp PROVE Silent'
  BY <1>2 DEF Silent
<1>3. ASSUME Stop, UNCHANGED serverVars PROVE Silent'
  <2>1. NothingNew
    BY <1>1, <1>3, WritingIsHeard DEF Stop
  <2> QED BY <1>3, <2>1, SilentAsBefore DEF serverVars
<1>4. ASSUME c2s' = [c \in Conn |-> <<>>], \A c \in Conn : link'[c] # "open" PROVE Silent'
  BY <1>4 DEF Silent
<1>5. CASE UNCHANGED vars \/ Users \/ Watcher \/ (StartClient /\ UNCHANGED serverVars)
  <2>1. c2s' = c2s /\ link' = link /\ serverUp' = serverUp
    BY <1>5 DEF vars, Users, Watcher, StartClient, netVars, serverVars
  <2> QED BY <1>2, <2>1
<1>6. CASE WatcherFails \/ ClientGivesUp \/ (Kill /\ UNCHANGED serverVars)
  BY <1>3, <1>6 DEF WatcherFails, ClientGivesUp, GiveUp, Kill, StopAll
<1>7. CASE Client
  <2>1. NothingNew /\ serverUp' = serverUp
    BY <1>1, <1>7, ClientIsHeard DEF Client, serverVars
  <2> QED BY <2>1, SilentAsBefore
<1>8. ASSUME NEW c \in Conn, Connect(c) PROVE Silent'
  <2>1. /\ serverUp /\ serverUp' = serverUp /\ c2s' = [c2s EXCEPT ![c] = <<>>]
        /\ link' = [link EXCEPT ![c] = "open"]
    BY <1>8 DEF Connect, Accept
  <2> QED BY <1>1, <2>1 DEF Silent
<1>9. ASSUME NEW c \in Conn, Server(c) PROVE Silent'
  <2>1. CASE serverUp'
    BY <1>1, <1>9, <2>1, HandlingIsHeard, SilentAsBefore DEF Server
  <2>2. CASE ~serverUp'
    <3>1. serverUp
      BY <1>9, Zenon DEF Server, Serve, RecoverFromDB, Reject, EndSession, Probe, StoreFile,
                         RemoveFile, MakeDir, RemoveDir, Handling
    <3>2. Fail(c)
      <4>1. \A kind : ~Answer(c, kind)
        BY <2>2, <3>1 DEF Answer
      <4>2. ~RecoverFromDB(c) /\ ~EndSession(c) /\ ~Reject(c)
        BY <2>2, <3>1 DEF RecoverFromDB, EndSession, Reject, serverVars
      <4> QED BY <1>9, <4>1, <4>2, Zenon DEF Server, Serve, Probe, StoreFile, RemoveFile, MakeDir,
                                             RemoveDir, NothingThere, JustAnswer
    <3>3. c2s' = [d \in Conn |-> <<>>] /\ \A d \in Conn : link'[d] # "open"
      BY <3>2 DEF Fail
    <3> QED BY <1>4, <3>3
  <2> QED BY <2>1, <2>2
<1>10. CASE ServerDies
  <2>1. c2s' = [c \in Conn |-> <<>>] /\ \A c \in Conn : link'[c] # "open"
    BY <1>10 DEF ServerDies, Crash, CrashInHandler, Halt
  <2> QED BY <1>4, <2>1
<1>11. CASE ServerRestarts
  <2>1. ~serverUp /\ serverUp' /\ c2s' = c2s /\ link' = [c \in Conn |-> "none"]
    BY <1>11 DEF ServerRestarts, Restart
  <2> QED BY <1>1, <2>1 DEF Silent
<1>12. CASE ConnectionBreaks
  <2>1. PICK c \in Conn : Break(c) /\ serverUp' = serverUp
    BY <1>12 DEF ConnectionBreaks, serverVars
  <2>2. /\ link[c] = "open" /\ link' = [link EXCEPT ![c] = "broken"]
        /\ \E s : c2s' = [c2s EXCEPT ![c] = s]
    BY <2>1 DEF Break
  <2>3. NothingNew
    BY <1>1, <2>2 DEF NothingNew
  <2> QED BY <2>1, <2>3, SilentAsBefore
<1> QED BY <1>5, <1>6, <1>7, <1>8, <1>9, <1>10, <1>11, <1>12 DEF Next, ClientRestarts

\* A handler only fails where a path has changed its kind, or the session believes in a
\* file that is gone.
LEMMA NoHandlerFails ==
  ASSUME KindsFixed, ServerOK, RequestKinds, OfItsKind(disk), NEW c \in Conn, Serve(c), serverUp,
         recovered[c] => Knows(elements[c], disk)
  PROVE  serverUp'
<1> DEFINE p == Head(c2s[c]).path
           e == Head(c2s[c]).entry
<1>1. NetTypeOK /\ disk \in Tree /\ WellFormed(disk)
  BY DEF ServerOK, ServerTypeOK
<1>2. ASSUME c2s[c] # <<>>
      PROVE  /\ p \in Path /\ Kinds[p] = {e.type}
             /\ Head(c2s[c]).op \in {"PROB", "STOR", "DELE"} => e.type = "file"
             /\ Head(c2s[c]).op \in {"MKD", "RMD"} => e.type = "directory"
  BY <1>1, <1>2, AskedOfKind
<1>3. ASSUME c2s[c] # <<>>
      PROVE  /\ Reachable(disk, p)
             /\ Head(c2s[c]).op \in {"PROB", "STOR", "DELE"} => ~IsDir(disk, p)
             /\ Head(c2s[c]).op \in {"MKD", "RMD"} => ~IsFile(disk, p)
  <2>1. /\ \A q \in Ancestors[p] : q \in Path /\ Kinds[q] = {"directory"}
        /\ p \in Path
    BY <1>2, <1>3, AncestorsArePaths DEF KindsFixed
  <2>2. Reachable(disk, p)
    BY <2>1 DEF OfItsKind, Reachable, IsFile
  <2>3. IsDir(disk, p) => "directory" \in Kinds[p]
    BY <2>1 DEF OfItsKind, IsDir
  <2>4. IsFile(disk, p) => "file" \in Kinds[p]
    BY <2>1 DEF OfItsKind, IsFile
  <2> HIDE DEF p, e
  <2> QED BY <1>2, <1>3, <2>2, <2>3, <2>4
<1> HIDE DEF p, e
<1>4. ASSUME NEW kind, Answer(c, kind) PROVE serverUp'
  BY <1>4 DEF Answer
<1>5. ASSUME NEW kind, JustAnswer(c, kind) PROVE serverUp'
  BY <1>4, <1>5 DEF JustAnswer
<1>6. ASSUME NothingThere(c, p) PROVE serverUp'
  BY <1>4, <1>5, <1>6 DEF NothingThere
<1>7. CASE RecoverFromDB(c) \/ EndSession(c) \/ Reject(c)
  BY <1>7 DEF RecoverFromDB, EndSession, Reject, serverVars
<1>8. CASE Probe(c)
  <2>1. c2s[c] # <<>> /\ recovered[c]
    BY <1>8 DEF Probe, Handling
  <2>2. \/ \E kind : JustAnswer(c, kind) \/ Answer(c, kind)
        \/ IsFile(elements[c], p) /\ ~Exists(disk, p)
    BY <1>8, Zenon DEF Probe, p
  <2>3. IsFile(elements[c], p) => Exists(disk, p)
    BY <1>2, <2>1 DEF Knows, SameEntry, SameContent, IsFile
  <2> QED BY <1>4, <1>5, <2>2, <2>3
<1>9. CASE StoreFile(c)
  <2>1. c2s[c] # <<>> /\ Head(c2s[c]).op = "STOR"
    BY <1>9 DEF StoreFile, Handling
  <2>2. \/ \E kind : JustAnswer(c, kind) \/ Answer(c, kind)
        \/ ~Reachable(disk, p) \/ IsDir(disk, p)
    BY <1>9, Zenon DEF StoreFile, p
  <2> QED BY <1>3, <1>4, <1>5, <2>1, <2>2
<1>10. CASE RemoveFile(c)
  <2>1. c2s[c] # <<>> /\ Head(c2s[c]).op = "DELE"
    BY <1>10 DEF RemoveFile, Handling
  <2>2. \/ NothingThere(c, p)
        \/ \E kind : JustAnswer(c, kind) \/ Answer(c, kind)
        \/ \E q \in Below(p) : Exists(disk, q)
    BY <1>10, Zenon DEF RemoveFile, p
  <2>3. \A q \in Below(p) : ~Exists(disk, q)
    BY <1>1, <1>3, <2>1 DEF Below, WellFormed
  <2> QED BY <1>4, <1>5, <1>6, <2>2, <2>3
<1>11. CASE MakeDir(c)
  <2>1. c2s[c] # <<>>
    BY <1>11 DEF MakeDir, Handling
  <2>2. \/ \E kind : JustAnswer(c, kind) \/ Answer(c, kind)
        \/ ~Reachable(disk, p)
    BY <1>11, Zenon DEF MakeDir, p
  <2> QED BY <1>3, <1>4, <1>5, <2>1, <2>2
<1>12. CASE RemoveDir(c)
  <2>1. c2s[c] # <<>> /\ Head(c2s[c]).op = "RMD"
    BY <1>12 DEF RemoveDir, Handling
  <2>2. \/ NothingThere(c, p)
        \/ \E kind : JustAnswer(c, kind) \/ Answer(c, kind)
        \/ Exists(disk, p) /\ ~IsDir(disk, p)
    BY <1>12, Zenon DEF RemoveDir, p
  <2>3. Exists(disk, p) => IsDir(disk, p)
    <3>1. Exists(disk, p) => disk[p] \in Entry
      BY <1>1, <1>2, <2>1 DEF Exists, Tree
    <3>2. Exists(disk, p) => disk[p].type \in {"file", "directory"}
      BY <3>1, EntryTypes
    <3> QED BY <1>3, <2>1, <3>2 DEF IsFile, IsDir
  <2> QED BY <1>4, <1>5, <1>6, <2>2, <2>3
<1> QED BY <1>7, <1>8, <1>9, <1>10, <1>11, <1>12 DEF Serve

\* With one session at a time, and where no path is now a file and then a directory
\* (KindsFixed), no sequence of the client's requests ends the server, across edits,
\* reconnections, resent windows, and restarts of both sides: no handler meets what it
\* does not expect (server/ProtocolManager.cpp:521, 727, 840, 945, 1078).
THEOREM ServerGoesOn ==
  ASSUME NEW s, Conn = {s}, KindsFixed
  PROVE  Spec => []ServerKeepsRunning
<1> DEFINE Going == AllOfTheirKind /\ Silent /\ ServerKeepsRunning
<1>1. Init => Going
  <2> SUFFICES ASSUME Init PROVE Going
    OBVIOUS
  <2>1. Silent /\ ServerKeepsRunning
    BY DEF Init, NetInit, ServerInit, Silent, ServerKeepsRunning
  <2> QED BY <2>1, KindsInit
<1>2. IInv /\ SessionKnowsDisk /\ Going /\ [Next]_vars => Going'
  <2> SUFFICES ASSUME IInv, SessionKnowsDisk, AllOfTheirKind, Silent, ServerKeepsRunning, [Next]_vars
               PROVE  Going'
    OBVIOUS
  <2>1. AllOfTheirKind' /\ Silent'
    BY KindsStay, StaysSilent
  <2>2. ASSUME serverUp' = serverUp, crashes' = crashes PROVE ServerKeepsRunning'
    BY <2>2 DEF ServerKeepsRunning
  <2>3. ServerOK /\ RequestKinds /\ OfItsKind(disk)
    BY InvariantParts DEF AllOfTheirKind
  <2>4. ASSUME NEW c \in Conn, Server(c) PROVE ServerKeepsRunning'
    <3>1. Serve(c) /\ serverUp
      BY <2>4, Zenon DEF Server, Serve, RecoverFromDB, Reject, EndSession, Probe, StoreFile,
                         RemoveFile, MakeDir, RemoveDir, Handling
    <3>2. CASE link[c] = "none"
      <4>1. c2s[c] = <<>> /\ link[c] # "broken"
        BY <3>2 DEF Silent
      <4> QED BY <3>1, <4>1, Zenon DEF Serve, RecoverFromDB, Reject, EndSession, Probe, StoreFile,
                                       RemoveFile, MakeDir, RemoveDir, Handling
    <3>3. CASE link[c] # "none"
      <4>1. recovered[c] => Knows(elements[c], disk)
        BY <3>1, <3>3 DEF SessionKnowsDisk, Knows
      <4>2. serverUp'
        BY <2>3, <3>1, <4>1, NoHandlerFails
      <4> QED BY <4>2 DEF ServerKeepsRunning
    <3> QED BY <3>2, <3>3
  <2>5. ASSUME ServerDies PROVE ServerKeepsRunning'
    <3>1. crashes' = crashes + 1 /\ crashes \in Nat
      BY <2>3, <2>5 DEF ServerDies, Crash, CrashInHandler, Halt, ServerOK, ServerTypeOK
    <3> QED BY <3>1 DEF ServerKeepsRunning
  <2>6. ASSUME ServerRestarts PROVE ServerKeepsRunning'
    BY <2>6 DEF ServerRestarts, Restart, ServerKeepsRunning
  <2>7. ASSUME \E c \in Conn : Connect(c) PROVE ServerKeepsRunning'
    BY <2>2, <2>7 DEF Connect
  <2>8. ASSUME \/ UNCHANGED vars \/ Users \/ Watcher \/ WatcherFails \/ Client
               \/ ConnectionBreaks \/ ClientRestarts \/ ClientGivesUp
        PROVE  ServerKeepsRunning'
    <3>1. UNCHANGED serverVars
      BY <2>8 DEF vars, Users, Watcher, WatcherFails, Client, ConnectionBreaks, ClientRestarts, ClientGivesUp
    <3> QED BY <2>2, <3>1 DEF serverVars
  <2>9. ServerKeepsRunning'
    BY <2>4, <2>5, <2>6, <2>7, <2>8 DEF Next
  <2> QED BY <2>1, <2>9
<1>3. Going => ServerKeepsRunning
  OBVIOUS
<1>4. Spec => []SessionKnowsDisk
  BY SessionsAreRight
<1> QED BY Invariant, <1>1, <1>2, <1>3, <1>4, PTL DEF Spec
-----------------------------------------------------------------------------
(* What a session knows of the table.                                       *)
Lists(tab, el, p) == IF Exists(el, p) THEN Len(tab[p]) = 1 /\ tab[p][1].hash = el[p].hash
                                      ELSE tab[p] = <<>>
\* The table lists what the session's map holds, each element in one row.
KnowsRows(el, tab) == \A p \in Path : Lists(tab, el, p)
OneRowEach == \A p \in Path : Len(rows[p]) <= 1
SessionKnowsTable ==
    \A c \in Conn : serverUp /\ link[c] # "none" /\ recovered[c] => KnowsRows(elements[c], rows)

\* The handlers change a map and the table alike.
LEMMA RecordLists ==
  ASSUME ServerOK, NEW c \in Conn, NEW p \in Path, NEW e \in Entry, Record(c, p, e),
         KnowsRows(elements[c], rows)
  PROVE  KnowsRows(elements'[c], rows')
<1>1. /\ rows \in [Path -> Seq(Entry)] /\ elements \in [Conn -> Tree] /\ elements[c] \in Tree
  BY ServerFacts DEF ServerOK, ServerTypeOK
<1>2. elements'[c] = [elements[c] EXCEPT ![p] = e]
  BY <1>1 DEF Record
<1>3. elements'[c][p] = e /\ \A q \in Path \ {p} : elements'[c][q] = elements[c][q]
  BY <1>1, <1>2 DEF Tree
<1>4. Len(rows'[p]) = 1 /\ rows'[p][1] = e
  <2>1. CASE Exists(elements[c], p)
    <3>1. Len(rows[p]) = 1 /\ rows[p] \in Seq(Entry) /\ DOMAIN rows[p] = 1 .. Len(rows[p])
      BY <1>1, <2>1 DEF KnowsRows, Lists
    <3>2. rows' = Updated(p, e)
      BY <2>1 DEF Record
    <3>3. rows'[p] = [i \in DOMAIN rows[p] |-> e]
      BY <1>1, <3>2 DEF Updated
    <3>4. DOMAIN rows[p] = 1 .. 1
      BY <3>1
    <3> QED BY <3>3, <3>4
  <2>2. CASE ~Exists(elements[c], p)
    <3>1. rows[p] = <<>>
      BY <2>2 DEF KnowsRows, Lists
    <3>2. rows' = Inserted(p, e)
      BY <2>2 DEF Record
    <3>3. rows'[p] = Append(<<>>, e)
      BY <1>1, <3>1, <3>2 DEF Inserted
    <3> QED BY <3>3
  <2> QED BY <2>1, <2>2
<1>5. \A q \in Path \ {p} : rows'[q] = rows[q]
  BY <1>1 DEF Record, Updated, Inserted
<1>6. Exists(elements'[c], p)
  BY <1>3, EntryTypes DEF Exists
<1> SUFFICES ASSUME NEW q \in Path PROVE Lists(rows', elements'[c], q)
  BY DEF KnowsRows
<1>7. CASE q = p
  BY <1>3, <1>4, <1>6, <1>7 DEF Lists
<1>8. CASE q # p
  BY <1>3, <1>5, <1>8 DEF Lists, KnowsRows, Exists
<1> QED BY <1>7, <1>8

LEMMA ForgetLists ==
  ASSUME ServerOK, NEW c \in Conn, NEW Q, Forget(c, Q), KnowsRows(elements[c], rows)
  PROVE  KnowsRows(elements'[c], rows')
<1>1. elements'[c] = [q \in Path |-> IF q \in Q THEN Absent ELSE elements[c][q]]
  BY ServerFacts DEF Forget, ServerOK, ServerTypeOK
<1>2. rows' = [q \in Path |-> IF q \in Q THEN <<>> ELSE rows[q]]
  BY DEF Forget, Deleted
<1> SUFFICES ASSUME NEW q \in Path PROVE Lists(rows', elements'[c], q)
  BY DEF KnowsRows
<1>3. CASE q \in Q
  BY <1>1, <1>2, <1>3 DEF Lists, Exists
<1>4. CASE q \notin Q
  BY <1>1, <1>2, <1>4 DEF Lists, KnowsRows, Exists
<1> QED BY <1>3, <1>4

LEMMA HandlersKnowRows ==
  ASSUME ServerOK, NEW c \in Conn, Serve(c), KnowsRows(elements[c], rows), serverUp', recovered[c]
  PROVE  KnowsRows(elements'[c], rows')
<1> DEFINE p == Head(c2s[c]).path
           e == Head(c2s[c]).entry
           el == elements[c]
<1>1. /\ elements \in [Conn -> Tree] /\ el \in Tree /\ NetTypeOK
  BY ServerFacts DEF ServerOK, ServerTypeOK
<1>2. c2s[c] # <<>> => p \in Path /\ e \in Entry
  BY <1>1, HeadRequest
<1> HIDE DEF p, e
<1>3. CASE UNCHANGED <<rows, elements>>
  BY <1>3
<1>4. ~Fail(c)
  BY DEF Fail
<1>5. ASSUME NEW kind, JustAnswer(c, kind) PROVE UNCHANGED <<rows, elements>>
  BY <1>5 DEF JustAnswer, storeVars
<1>6. ASSUME NEW Q, Forget(c, Q) PROVE KnowsRows(elements'[c], rows')
  BY <1>6, ForgetLists
<1>7. ASSUME c2s[c] # <<>>, Record(c, p, e) PROVE KnowsRows(elements'[c], rows')
  BY <1>2, <1>7, RecordLists
<1>8. ASSUME NEW q, NothingThere(c, q) PROVE KnowsRows(elements'[c], rows')
  BY <1>3, <1>5, <1>6, <1>8 DEF NothingThere
<1>9. CASE Reject(c) \/ EndSession(c)
  BY <1>3, <1>9 DEF Reject, EndSession, serverVars, storeVars, sessionVars
<1>10. CASE RecoverFromDB(c)
  BY <1>10 DEF RecoverFromDB
<1>11. CASE Probe(c)
  <2>1. c2s[c] # <<>>
    BY <1>11 DEF Probe, Handling
  <2>2. CASE IsFile(el, p) /\ el[p].hash = e.hash /\ elements' = [elements EXCEPT ![c][p] = e] /\ rows' = rows
    <3>1. elements'[c][p] = e /\ \A q \in Path \ {p} : elements'[c][q] = el[q]
      BY <1>1, <1>2, <2>1, <2>2 DEF Tree
    <3>2. Exists(el, p) /\ Exists(elements'[c], p)
      BY <1>1, <1>2, <2>1, <2>2, <3>1, EntryTypes, Entries DEF Exists, IsFile
    <3> SUFFICES ASSUME NEW q \in Path PROVE Lists(rows', elements'[c], q)
      BY DEF KnowsRows
    <3>3. Lists(rows, el, q)
      BY DEF KnowsRows
    <3> QED BY <2>2, <3>1, <3>2, <3>3 DEF Lists, Exists
  <2> QED BY <1>3, <1>4, <1>5, <1>11, <2>2 DEF Probe, p, e
<1>12. CASE StoreFile(c)
  <2>1. c2s[c] # <<>>
    BY <1>12 DEF StoreFile, Handling
  <2> QED BY <1>3, <1>4, <1>5, <1>7, <1>12, <2>1 DEF StoreFile, p, e
<1>13. CASE RemoveFile(c)
  BY <1>3, <1>4, <1>5, <1>6, <1>8, <1>13 DEF RemoveFile
<1>14. CASE MakeDir(c)
  <2>1. c2s[c] # <<>>
    BY <1>14 DEF MakeDir, Handling
  <2> QED BY <1>3, <1>4, <1>5, <1>7, <1>14, <2>1 DEF MakeDir, p, e
<1>15. CASE RemoveDir(c)
  BY <1>3, <1>4, <1>5, <1>6, <1>8, <1>15 DEF RemoveDir
<1> QED BY <1>9, <1>10, <1>11, <1>12, <1>13, <1>14, <1>15 DEF Serve

LEMMA KnownRowsAreOne ==
  ASSUME NEW el, NEW tab, KnowsRows(el, tab)
  PROVE  \A p \in Path : Len(tab[p]) <= 1
<1>1. Len(<<>>) <= 1 /\ 1 <= 1
  OBVIOUS
<1> QED BY <1>1, Zenon DEF KnowsRows, Lists

\* The first request of a session: map and table say the same from then on.
LEMMA RecoveredKnowsRows ==
  ASSUME ServerOK, NEW c \in Conn, RecoverFromDB(c), OneRowEach
  PROVE  KnowsRows(elements'[c], rows')
<1>1. /\ rows \in [Path -> Seq(Entry)] /\ elements \in [Conn -> Tree] /\ disk \in Tree
  BY ServerFacts DEF ServerOK, ServerTypeOK
<1>2. /\ rows' = [p \in Path |-> IF Exists(disk, p) THEN [i \in DOMAIN rows[p] |-> disk[p]] ELSE <<>>]
      /\ elements'[c] = [p \in Path |-> IF rows[p] = <<>> THEN Absent ELSE disk[p]]
  BY <1>1 DEF RecoverFromDB
<1> SUFFICES ASSUME NEW p \in Path PROVE Lists(rows', elements'[c], p)
  BY DEF KnowsRows
<1>3. rows[p] \in Seq(Entry) /\ Len(rows[p]) <= 1 /\ DOMAIN rows[p] = 1 .. Len(rows[p]) /\ Len(rows[p]) \in Nat
  BY <1>1 DEF OneRowEach
<1>4. CASE rows[p] = <<>>
  <2>1. [i \in DOMAIN rows[p] |-> disk[p]] = <<>>
    BY <1>4
  <2> QED BY <1>2, <1>4, <2>1 DEF Lists, Exists
<1>5. CASE rows[p] # <<>> /\ ~Exists(disk, p)
  BY <1>2, <1>5 DEF Lists, Exists
<1>6. CASE rows[p] # <<>> /\ Exists(disk, p)
  <2>1. Len(rows[p]) = 1
    <3>1. Len(rows[p]) # 0
      BY <1>3, <1>6, EmptySeq
    <3>2. \A n \in Nat : n <= 1 /\ n # 0 => n = 1
      OBVIOUS
    <3> QED BY <1>3, <3>1, <3>2, Zenon
  <2>2. DOMAIN rows[p] = 1 .. 1
    BY <1>3, <2>1
  <2>3. rows'[p] = [i \in 1 .. 1 |-> disk[p]] /\ elements'[c][p] = disk[p]
    BY <1>2, <1>6, <2>2
  <2> QED BY <1>6, <2>3 DEF Lists, Exists
<1> QED BY <1>4, <1>5, <1>6

\* Another thread than that of the session cannot be: nobody else changes the table.
LEMMA OthersLeaveRows ==
  ASSUME Next, \A c \in Conn : ~Server(c)
  PROVE  rows' = rows
  BY Zenon DEF Next, Users, Watcher, WatcherFails, Client, ConnectionBreaks, ClientRestarts, ClientGivesUp,
         ServerDies, Crash, CrashInHandler, Halt, ServerRestarts, Restart, Connect,
         serverVars, storeVars
\* A handler that ends the server left the table alone.
LEMMA FailingLeavesRows ==
  ASSUME NEW c \in Conn, Serve(c), ~serverUp'
  PROVE  rows' = rows
<1>1. Fail(c) => rows' = rows
  BY DEF Fail, storeVars
<1>2. ASSUME NEW kind, Answer(c, kind) PROVE serverUp' = serverUp
  BY <1>2 DEF Answer
<1>3. serverUp
  BY Zenon DEF Serve, RecoverFromDB, Reject, EndSession, Probe, StoreFile, RemoveFile, MakeDir, RemoveDir, Handling
<1>4. \A kind : ~Answer(c, kind) /\ ~JustAnswer(c, kind)
  BY <1>2, <1>3 DEF JustAnswer
<1>5. ~RecoverFromDB(c) /\ ~Reject(c) /\ ~EndSession(c)
  BY <1>3 DEF RecoverFromDB, Reject, EndSession, serverVars
<1>6. \A p : ~NothingThere(c, p)
  BY <1>4 DEF NothingThere
<1> QED BY <1>1, <1>4, <1>5, <1>6, Zenon DEF Serve, Probe, StoreFile, RemoveFile, MakeDir, RemoveDir

\* A step of the session's thread.
LEMMA SessionKeepsRows ==
  ASSUME IInv, Silent, NEW c \in Conn, Serve(c), OneRowEach,
         serverUp /\ link[c] # "none" /\ recovered[c] => KnowsRows(elements[c], rows)
  PROVE  \/ rows' = rows /\ (~serverUp' \/ link'[c] = "none")
         \/ KnowsRows(elements'[c], rows')
<1>1. ServerOK /\ link \in [Conn -> {"none", "open", "broken"}] /\ recovered \in [Conn -> BOOLEAN]
  BY InvariantParts DEF IInv, ClientOK, NetTypeOK, ServerTypeOK
<1>2. CASE EndSession(c)
  BY <1>1, <1>2 DEF EndSession, serverVars, storeVars
<1>3. CASE ~serverUp'
  BY <1>3, FailingLeavesRows
<1>4. CASE serverUp' /\ ~EndSession(c)
  <2>1. c2s[c] # <<>> /\ serverUp
    BY <1>4, Zenon DEF Serve, RecoverFromDB, Reject, Probe, StoreFile, RemoveFile, MakeDir, RemoveDir, Handling
  <2>2. link[c] # "none"
    BY <2>1 DEF Silent
  <2>3. CASE recovered[c]
    <3>1. KnowsRows(elements[c], rows)
      BY <2>1, <2>2, <2>3
    <3> QED BY <1>1, <1>4, <2>3, <3>1, HandlersKnowRows
  <2>4. CASE ~recovered[c]
    <3>1. RecoverFromDB(c)
      BY <1>4, <2>4, Zenon DEF Serve, Reject, Probe, StoreFile, RemoveFile, MakeDir, RemoveDir, Handling
    <3> QED BY <1>1, <3>1, RecoveredKnowsRows
  <2> QED BY <2>3, <2>4
<1> QED BY <1>2, <1>3, <1>4

\* Where one thread serves the user: no path has two rows in the table, and a session's
\* map holds what the table lists, with the same hash, through every handler, crash and
\* restart.  A retrieval therefore meets each path once (it assumes so), and the
\* handlers update the row that is there.
THEOREM TableIsKnown ==
  ASSUME NEW s, Conn = {s}
  PROVE  Spec => [](OneRowEach /\ SessionKnowsTable)
<1> DEFINE Right == serverUp /\ link[s] # "none" /\ recovered[s] => KnowsRows(elements[s], rows)
<1>1. Init => OneRowEach /\ Right
  <2> SUFFICES ASSUME Init PROVE OneRowEach /\ Right
    OBVIOUS
  <2>1. rows = [p \in Path |-> IF Exists(StartTree, p) THEN <<StartTree[p]>> ELSE <<>>]
    BY DEF Init, ServerInit
  <2>2. OneRowEach
    BY <2>1 DEF OneRowEach
  <2>3. ~recovered[s]
    BY DEF Init, ServerInit
  <2> QED BY <2>2, <2>3
<1>2. IInv /\ Silent /\ OneRowEach /\ Right /\ [Next]_vars => OneRowEach' /\ Right'
  <2> SUFFICES ASSUME IInv, Silent, OneRowEach, Right, [Next]_vars
               PROVE  OneRowEach' /\ Right'
    OBVIOUS
  <2>1. s \in Conn /\ ServerOK /\ elements \in [Conn -> Tree] /\ recovered \in [Conn -> BOOLEAN]
    BY InvariantParts DEF ServerOK, ServerTypeOK
  <2>2. CASE UNCHANGED vars
    BY <2>2 DEF vars, netVars, serverVars, storeVars, sessionVars, OneRowEach
  <2>3. CASE Connect(s)
    <3>1. rows' = rows /\ ~recovered'[s]
      BY <2>1, <2>3 DEF Connect, Accept, storeVars
    <3> QED BY <3>1 DEF OneRowEach
  <2>4. CASE Next /\ ~Connect(s)
    <3>1. CASE Server(s)
      <4>1. Serve(s)
        BY <3>1 DEF Server
      <4>2. CASE rows' = rows /\ (~serverUp' \/ link'[s] = "none")
        BY <4>2 DEF OneRowEach
      <4>3. CASE KnowsRows(elements'[s], rows')
        <5>1. OneRowEach'
          BY <4>3, KnownRowsAreOne DEF OneRowEach
        <5> QED BY <4>3, <5>1
      <4> QED BY <2>1, <4>1, <4>2, <4>3, SessionKeepsRows
    <3>2. CASE ~Server(s)
      <4>1. rows' = rows
        BY <2>1, <2>4, <3>2, OthersLeaveRows
      <4>2. OneRowEach'
        BY <4>1 DEF OneRowEach
      <4>3. ASSUME serverUp', link'[s] # "none", recovered'[s] PROVE KnowsRows(elements'[s], rows')
        <5>1. link[s] # "none"
          BY <2>1, <2>4, <4>3, SessionsGoOn
        <5>2. ServerRestarts \/ UNCHANGED serverVars
          BY <2>1, <2>4, <3>2, <4>3, OthersLeaveIt
        <5>3. ~ServerRestarts
          BY <2>1, <4>3 DEF ServerRestarts, Restart
        <5> QED BY <4>1, <4>3, <5>1, <5>2, <5>3 DEF serverVars, sessionVars
      <4> QED BY <4>2, <4>3
    <3> QED BY <3>1, <3>2
  <2> QED BY <2>2, <2>3, <2>4
<1>3. Init => Silent
  BY DEF Init, ServerInit, NetInit, Silent
<1>4. IInv /\ Silent /\ [Next]_vars => Silent'
  BY StaysSilent
<1>5. Right => SessionKnowsTable
  BY DEF SessionKnowsTable
<1> QED BY Invariant, <1>1, <1>2, <1>3, <1>4, <1>5, PTL DEF Spec
=============================================================================
