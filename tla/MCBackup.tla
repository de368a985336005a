------------------------------- MODULE MCBackup -------------------------------
(* The values of the constants for model checking BackupSystem: the paths are  *)
(* a directory d, a directory b in it, and a file f in b, in d or in the base  *)
(* folder.                                                                     *)
EXTENDS BackupSystem

CONSTANTS d, b, f, h1, h2, t1, t2, c1, c2

Alone == {f}
Nested == {d, f}
Deep == {d, b, f}

NoAncestors == [p \in Path |-> {}]
InD == [p \in Path |-> IF p = f THEN {d} ELSE {}]
InDB == [p \in Path |-> IF p = f THEN {d, b} ELSE IF p = b THEN {d} ELSE {}]

Files == [p \in Path |-> {"file"}]
DirsAndFile == [p \in Path |-> IF p \in {d, b} THEN {"directory"} ELSE {"file"}]
AnyKind == [p \in Path |-> {"file", "directory"}]

Empty == [p \in Path |-> Absent]
Full == [p \in Path |-> IF p \in {d, b} THEN Dir(t1) ELSE File(h1, t1)]
Flat == [p \in Path |-> IF p = d THEN File(h1, t1) ELSE Absent]
=============================================================================
