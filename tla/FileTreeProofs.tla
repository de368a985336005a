---------------------------- MODULE FileTreeProofs ----------------------------
(***************************************************************************)
(* The operations on trees keep them trees, and keep every element below a *)
(* directory (WellFormed), as the system calls they stand for do.          *)
(***************************************************************************)
EXTENDS FileTree, TLAPS

LEMMA EntryTypes ==
  /\ \A t \in Time : Dir(t) \in Entry
  /\ \A h \in Hash, t \in Time : File(h, t) \in Entry
  /\ \A e \in Entry : /\ e # Absent /\ e.type \in {"file", "directory"}
                      /\ e.hash \in Hash \cup {NoHash} /\ e.lwt \in Time
                      /\ e.type = "file" => e.hash \in Hash
  BY TreeAssumption DEF Dir, File, Entry

LEMMA DirIsDir == \A t : Dir(t).type = "directory"
  BY DEF Dir

\* Only the times of directories change.
LEMMA TouchKeeps ==
  ASSUME NEW tree \in Tree, NEW Q, NEW t \in Time
  PROVE  /\ Touch(tree, Q, t) \in Tree
         /\ \A p \in Path : /\ Exists(Touch(tree, Q, t), p) <=> Exists(tree, p)
                            /\ IsDir(Touch(tree, Q, t), p) <=> IsDir(tree, p)
         /\ WellFormed(tree) => WellFormed(Touch(tree, Q, t))
<1> DEFINE touched == Touch(tree, Q, t)
<1>1. touched \in Tree
  BY EntryTypes DEF Touch, Tree
<1>2. \A p \in Path : /\ Exists(touched, p) <=> Exists(tree, p)
                      /\ IsDir(touched, p) <=> IsDir(tree, p)
  BY EntryTypes, DirIsDir DEF Touch, Exists, IsDir
<1>3. WellFormed(tree) => WellFormed(touched)
  BY TreeAssumption, <1>2 DEF WellFormed
<1> QED BY <1>1, <1>2, <1>3

\* Directories appear where nothing was, and nothing disappears.
LEMMA CreateKeeps ==
  ASSUME NEW tree \in Tree, NEW Q \in SUBSET Path, NEW t \in Time
  PROVE  /\ CreateDirectories(tree, Q, t) \in Tree
         /\ \A p \in Path :
               /\ Exists(CreateDirectories(tree, Q, t), p) <=> Exists(tree, p) \/ p \in Q
               /\ IsDir(CreateDirectories(tree, Q, t), p) <=>
                     IsDir(tree, p) \/ (p \in Q /\ ~Exists(tree, p))
<1> DEFINE missing == {q \in Q : ~Exists(tree, q)}
           made == [q \in Path |-> IF q \in missing THEN Dir(t) ELSE tree[q]]
<1>1. made \in Tree
  BY EntryTypes DEF Tree
<1>2. \A p \in Path : /\ Exists(made, p) <=> Exists(tree, p) \/ p \in Q
                      /\ IsDir(made, p) <=> IsDir(tree, p) \/ (p \in Q /\ ~Exists(tree, p))
  BY EntryTypes, DirIsDir DEF Exists, IsDir
<1>3. CreateDirectories(tree, Q, t) = Touch(made, UNION {Parent(q) : q \in missing}, t)
  BY DEF CreateDirectories
<1> HIDE DEF made, missing
<1> QED BY <1>1, <1>2, <1>3, TouchKeeps

\* Directories made up to their first ancestor, where no file is in the way.
LEMMA CreateWellFormed ==
  ASSUME NEW tree \in Tree, NEW Q \in SUBSET Path, NEW t \in Time, WellFormed(tree),
         \A q \in Q : \A a \in Ancestors[q] : IsDir(tree, a) \/ (a \in Q /\ ~Exists(tree, a))
  PROVE  WellFormed(CreateDirectories(tree, Q, t))
  BY TreeAssumption, CreateKeeps DEF WellFormed

LEMMA RemoveKeeps ==
  ASSUME NEW tree \in Tree, NEW p \in Path
  PROVE  /\ RemoveAll(tree, p) \in Tree
         /\ WellFormed(tree) => WellFormed(RemoveAll(tree, p))
<1> DEFINE removed == RemoveAll(tree, p)
<1>1. removed \in Tree
  BY DEF RemoveAll, Tree
<1>2. ASSUME WellFormed(tree), NEW q \in Path, Exists(removed, q), NEW a \in Ancestors[q]
      PROVE  IsDir(removed, a)
  <2>1. q # p /\ q \notin Below(p) /\ Exists(tree, q)
    BY <1>2 DEF RemoveAll, Exists
  <2>2. a \in Path /\ a # p
    BY TreeAssumption, <1>2, <2>1 DEF Below
  <2>3. a \notin Below(p)
    BY TreeAssumption, <1>2, <2>1 DEF Below
  <2>4. IsDir(tree, a)
    BY <1>2, <2>1 DEF WellFormed
  <2> QED BY <2>2, <2>3, <2>4 DEF RemoveAll, IsDir, Exists
<1> QED BY <1>1, <1>2 DEF WellFormed

LEMMA KeepTimeKeeps ==
  ASSUME NEW before \in Tree, NEW after \in Tree, NEW p \in Path,
         \A q \in Path : IsDir(before, q) => IsDir(after, q)
  PROVE  /\ KeepParentTime(before, after, p) \in Tree
         /\ \A q \in Path :
               /\ Exists(KeepParentTime(before, after, p), q) <=> Exists(after, q)
               /\ IsDir(KeepParentTime(before, after, p), q) <=> IsDir(after, q)
  BY DEF KeepParentTime, Tree, IsDir, Exists

\* Putting an entry where its parents are, and no directory is replaced by a file.
LEMMA PutWellFormed ==
  ASSUME NEW tree \in Tree, NEW p \in Path, NEW e \in Entry, WellFormed(tree),
         \A a \in Ancestors[p] : IsDir(tree, a),
         e.type = "directory" \/ ~IsDir(tree, p)
  PROVE  /\ [tree EXCEPT ![p] = e] \in Tree
         /\ WellFormed([tree EXCEPT ![p] = e])
<1> DEFINE put == [tree EXCEPT ![p] = e]
<1>1. put \in Tree
  BY DEF Tree
<1>2. ASSUME NEW q \in Path, Exists(put, q), NEW a \in Ancestors[q]
      PROVE  IsDir(put, a)
  <2>1. a \in Path /\ IsDir(tree, a)
    BY TreeAssumption, <1>2 DEF WellFormed, Exists, Tree
  <2>2. CASE a = p
    BY <2>1, <2>2, EntryTypes DEF IsDir, Exists, Tree
  <2>3. CASE a # p
    BY <2>1, <2>3 DEF IsDir, Exists, Tree
  <2> QED BY <2>2, <2>3
<1> QED BY <1>1, <1>2 DEF WellFormed
=============================================================================
