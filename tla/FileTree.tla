------------------------------- MODULE FileTree -------------------------------
(***************************************************************************)
(* What client and server share: directory trees, the entries that         *)
(* describe their elements (myLibraries/Directory_entry) and the events    *)
(* that the client turns into messages (client/Event).  A tree is a total  *)
(* function on the relative paths.  A last write time is the string that   *)
(* get_time_from_file makes of it: two writes in one minute have the same. *)
(***************************************************************************)
EXTENDS Naturals, Sequences, FiniteSets

CONSTANTS Path,       \* the relative paths that can occur
          Ancestors,  \* Ancestors[p]: the directories above p, without the base folder
          Hash,       \* the hashes of the contents a file can have
          Time,       \* the last write times, in minutes
          NoHash,     \* the default Hash of a directory
          Absent      \* no such element

File(h, t) == [type |-> "file", hash |-> h, lwt |-> t]
Dir(t) == [type |-> "directory", hash |-> NoHash, lwt |-> t]

Entry == [type : {"file"}, hash : Hash, lwt : Time]
            \cup [type : {"directory"}, hash : {NoHash}, lwt : Time]
Tree == [Path -> Entry \cup {Absent}]
NoTree == [p \in Path |-> Absent]

Below(p) == {q \in Path : p \in Ancestors[q]}
Parent(p) == {q \in Ancestors[p] : Ancestors[p] \subseteq Ancestors[q] \cup {q}}

\* The innermost directory above p lies below all the others.
ASSUME TreeAssumption ==
    /\ Ancestors \in [Path -> SUBSET Path]
    /\ \A p \in Path : /\ p \notin Ancestors[p]
                       /\ \A q \in Ancestors[p] : Ancestors[q] \subseteq Ancestors[p]
    /\ \A p \in Path : Ancestors[p] # {} => Parent(p) # {}
    /\ Absent \notin Entry
    /\ NoHash \notin Hash

Exists(tree, p) == tree[p] # Absent
Listed(tree) == {p \in Path : Exists(tree, p)}
IsFile(tree, p) == Exists(tree, p) /\ tree[p].type = "file"
IsDir(tree, p) == Exists(tree, p) /\ tree[p].type = "directory"

\* The system calls of both programs keep their trees like this.
WellFormed(tree) == \A p \in Path : Exists(tree, p) => \A q \in Ancestors[p] : IsDir(tree, q)

\* No component of the way to p is something else than a directory.
Reachable(tree, p) == \A q \in Ancestors[p] : ~IsFile(tree, q)

\* Creating, removing or renaming an entry of the directories Q at time t.
Touch(tree, Q, t) ==
    [q \in Path |-> IF q \in Q /\ IsDir(tree, q) THEN Dir(t) ELSE tree[q]]

\* std::filesystem::create_directories: make the directories of Q that are
\* missing; the directories in which they are made are touched.
CreateDirectories(tree, Q, t) ==
    LET missing == {q \in Q : ~Exists(tree, q)}
        made == [q \in Path |-> IF q \in missing THEN Dir(t) ELSE tree[q]]
    IN  Touch(made, UNION {Parent(q) : q \in missing}, t)

\* std::filesystem::remove_all
RemoveAll(tree, p) == [q \in Path |-> IF q = p \/ q \in Below(p) THEN Absent ELSE tree[q]]

\* Saving the last write time of p's parent in a Directory_entry, changing
\* something in the directory and setting the saved time again.
KeepParentTime(before, after, p) ==
    [q \in Path |-> IF q \in Parent(p) /\ IsDir(before, q) THEN before[q] ELSE after[q]]
-----------------------------------------------------------------------------
(* Events.  A file is first probed and then, if the server asks for it,     *)
(* stored: storeSent is the event of the second message (client/Event.h).   *)
EventType == {"created", "modified", "deleted", "storeSent"}
Event(type, p, e) == [type |-> type, path |-> p, entry |-> e]
Events == [type : EventType, path : Path, entry : Entry]
=============================================================================
