-------------------------- MODULE FileSystemWatcher --------------------------
(***************************************************************************)
(* The client's main thread: FileSystemWatcher polls the folder, compares  *)
(* it with the map of what it knows and pushes an event for each           *)
(* difference (client/FileSystemWatcher.cpp, client/main.cpp:125-157).     *)
(* The user edits the folder between any two steps of a scan.              *)
(***************************************************************************)
EXTENDS FileTree

CONSTANTS Initial,    \* the tree at the start: in the folder, backed up and in the db
          Kinds,      \* Kinds[p]: what the user makes of p, a "file", a "directory"
          QueueSize,  \* config->getEventQueueSize()
          MaxEdits    \* bound: how often the user changes the folder

ASSUME WatcherAssumption == /\ Initial \in Tree /\ WellFormed(Initial)
                            /\ Kinds \in [Path -> SUBSET {"file", "directory"}]
                            /\ QueueSize \in Nat /\ MaxEdits \in Nat

VARIABLES folder,   \* the path to watch
          known,    \* _paths
          scan,     \* the pass over _paths or over the folder, and the paths it still visits
          queue,    \* eventQueue, the oldest event first
          edits,    \* counts the changes of the user, up to MaxEdits
          flipped   \* history: paths that left and regained the entry the watcher knows

folderVars == <<folder, edits, flipped>>
watcherVars == <<folder, known, scan, queue, edits, flipped>>

Pass == {"recover", "deleted", "present", "stopped"}
Begin(pass, todo) == [pass |-> pass, todo |-> todo]

WatcherInit == /\ folder = Initial
               /\ known = Initial
               /\ scan = Begin("recover", Listed(Initial))
               /\ queue = <<>>
               /\ edits = 0
               /\ flipped = {}
-----------------------------------------------------------------------------
(* The user.                                                                *)
Edit(tree) == /\ edits < MaxEdits
              /\ tree # folder
              /\ folder' = tree
              /\ edits' = edits + 1
              /\ flipped' = flipped \cup {p \in Path : tree[p] = known[p] /\ folder[p] # known[p]}

Removal(p, t) == Touch(RemoveAll(folder, p), Parent(p), t)

WriteFile(p, h, t) ==
    /\ "file" \in Kinds[p] /\ ~IsDir(folder, p)
    /\ \A q \in Ancestors[p] : IsDir(folder, q)
    /\ LET written == [folder EXCEPT ![p] = File(h, t)]
       IN  Edit(IF Exists(folder, p) THEN written ELSE Touch(written, Parent(p), t))
    /\ UNCHANGED <<known, scan, queue>>

MakeDirectory(p, t) ==
    /\ "directory" \in Kinds[p] /\ ~IsFile(folder, p)
    /\ \A q \in Ancestors[p] : IsDir(folder, q)
    /\ Edit(IF Exists(folder, p) THEN Touch(folder, {p}, t)
                                 ELSE CreateDirectories(folder, {p}, t))
    /\ UNCHANGED <<known, scan, queue>>

Remove(p, t) == /\ Exists(folder, p)
                /\ Edit(Removal(p, t))
                /\ UNCHANGED <<known, scan, queue>>

User == \E p \in Path, t \in Time : \/ \E h \in Hash : WriteFile(p, h, t)
                                    \/ MakeDirectory(p, t)
                                    \/ Remove(p, t)
-----------------------------------------------------------------------------
(* The watcher.  A directory comes before what it contains, in the order of *)
(* std::map<std::string> and of the recursive iterator alike.               *)
Turn(pass, p) == /\ scan.pass = pass
                 /\ p \in scan.todo
                 /\ Ancestors[p] \cap scan.todo = {}
Done(Q) == scan' = [scan EXCEPT !.todo = @ \ Q]

HasRoom == Len(queue) < QueueSize

\* recoverFromDB: the entry of the db, not the one of the folder, is sent,
\* and push waits for room in the queue.
VisitRecover(p) ==
    /\ Turn("recover", p) /\ Done({p})
    /\ IF Exists(folder, p)
       THEN HasRoom /\ queue' = Append(queue, Event("modified", p, known[p]))
       ELSE UNCHANGED queue
    /\ UNCHANGED <<known, folderVars>>

\* Mutant: the element counts as reported although the queue was full.
ReportRegardless(type, p, e, nowKnown) ==
    /\ queue' = IF HasRoom THEN Append(queue, Event(type, p, e)) ELSE queue
    /\ known' = [known EXCEPT ![p] = nowKnown]

\* tryPush: without room the element is looked at again in the next scan.
Report(type, p, e, nowKnown) ==
    IF HasRoom THEN /\ queue' = Append(queue, Event(type, p, e))
                    /\ known' = [known EXCEPT ![p] = nowKnown]
               ELSE UNCHANGED <<known, queue>>

VisitDeleted(p) ==
    /\ Turn("deleted", p) /\ Done({p})
    /\ IF Exists(folder, p) THEN UNCHANGED <<known, queue>>
                            ELSE Report("deleted", p, known[p], Absent)
    /\ UNCHANGED folderVars

\* recursive_directory_iterator only descends into what is a directory when it
\* gets there.
VisitPresent(p) ==
    /\ Turn("present", p)
    /\ Done({p} \cup IF IsDir(folder, p) THEN {} ELSE Below(p))
    /\ IF folder[p] \in {Absent, known[p]} THEN UNCHANGED <<known, queue>>
       ELSE Report(IF Exists(known, p) THEN "modified" ELSE "created", p, folder[p], folder[p])
    /\ UNCHANGED folderVars

NextPass == /\ scan.pass # "stopped" /\ scan.todo = {}
            /\ scan' = IF scan.pass = "deleted" THEN Begin("present", Path)
                                                ELSE Begin("deleted", Listed(known))
            /\ UNCHANGED <<known, queue, folderVars>>

\* The element is removed after the iterator found it and before Directory_entry
\* reads its time: the exception ends main (client/main.cpp:279).
VanishUnderExamination(p, t) ==
    /\ Turn("present", p) /\ Exists(folder, p)
    /\ Edit(Removal(p, t))
    /\ scan' = Begin("stopped", {})
    /\ queue' = <<>>
    /\ UNCHANGED known

Watch == NextPass \/ \E p \in Path : VisitRecover(p) \/ VisitDeleted(p) \/ VisitPresent(p)
-----------------------------------------------------------------------------
WatcherTypeOK == /\ folder \in Tree /\ WellFormed(folder)
                 /\ known \in Tree
                 /\ scan \in [pass : Pass, todo : SUBSET Path]
                 /\ queue \in Seq(Events) /\ Len(queue) <= QueueSize
                 /\ edits \in 0 .. MaxEdits
                 /\ flipped \subseteq Path
=============================================================================
