------------------------------- MODULE Accounts -------------------------------
(***************************************************************************)
(* The server's administration: main (server/main.cpp:49-183) carries out  *)
(* the options of the command line, one after the other, before it serves. *)
(* They change the password database (server/Database_pwd), the table of   *)
(* backed-up elements (server/Database) and the backup folders.  One user, *)
(* with several machines; the rows of a machine are in the order in which  *)
(* they were inserted, which is the order of a SELECT.                     *)
(***************************************************************************)
EXTENDS FileTree, SequencesExt

CONSTANTS Mac,          \* the user's machines
          Password,
          NoPassword,   \* the user is not registered
          CommandLines, \* the sets of options the administrator uses
          ServerData,   \* what table and folders can be at the beginning
          MaxStarts,    \* bound: how often the program is started
          MaxCrashes    \* bound: how often it is killed

Row == [path : Path, entry : Entry]
OneRowEach(rows) == \A i, j \in DOMAIN rows : rows[i].path = rows[j].path => i = j

\* The table has no UNIQUE path, but a session inserts a row only for a path that
\* is not in its elements.
ASSUME AccountsAssumption ==
    /\ NoPassword \notin Password /\ MaxStarts \in Nat /\ MaxCrashes \in Nat
    /\ IsFiniteSet(Mac)
    /\ \A data \in ServerData : /\ data.table \in [Mac -> Seq(Row)]
                               /\ data.backup \in [Mac -> Tree]
                               /\ \A m \in Mac : /\ OneRowEach(data.table[m])
                                                /\ WellFormed(data.backup[m])

VARIABLES program,     \* "off", "options", "serving"
          todo,        \* the steps of the command line still to be done
          macs,        \* the machines whose folders are to be erased
          password,    \* the user's row of the passwords table
          table,       \* the user's rows of savedFiles, for each machine
          backup,      \* the backup folder of each machine
          starts,      \* counts the starts, up to MaxStarts
          crashes,     \* counts the kills, up to MaxCrashes
          named,       \* history: the machines with rows when the program started
          interrupted  \* history: a command line was not finished

programVars == <<program, todo, macs, password, starts, crashes, named, interrupted>>
accountVars == <<programVars, table, backup>>

AccountsInit == /\ program = "off" /\ todo = <<>> /\ macs = {}
                /\ password \in Password
                /\ \E data \in ServerData : table = data.table /\ backup = data.backup
                /\ starts = 0 /\ crashes = 0 /\ named = {} /\ interrupted = FALSE

WithRows == {m \in Mac : table[m] # <<>>}

StepNames == {"add", "update", "removeUser", "getAllMacAddresses", "removeAll",
              "removeAllOfMac", "erase", "start"}

Options == <<"add", "update", "remove", "delete", "deleteMac", "start">>

\* Mutant: the machines are asked for when their rows are gone.
StepsRowsFirst(option) ==
    CASE option = "remove" -> <<"removeUser", "removeAll", "getAllMacAddresses", "erase">>
      [] option = "delete" -> <<"removeAll", "getAllMacAddresses", "erase">>
      [] option = "deleteMac" -> <<"removeAllOfMac", "erase">>
      [] OTHER -> <<option>>

StepsOf(option) ==
    CASE option = "remove" -> <<"removeUser", "getAllMacAddresses", "removeAll", "erase">>
      [] option = "delete" -> <<"getAllMacAddresses", "removeAll", "erase">>
      [] option = "deleteMac" -> <<"removeAllOfMac", "erase">>
      [] OTHER -> <<option>>

\* ArgumentsManager: the options come in any order, main takes them in its own.
Start == /\ program = "off" /\ starts < MaxStarts
         /\ \E options \in CommandLines :
               todo' = FlattenSeq([i \in 1 .. Len(Options) |->
                          IF Options[i] \in options THEN StepsOf(Options[i]) ELSE <<>>])
         /\ program' = "options" /\ macs' = {}
         /\ starts' = starts + 1
         /\ named' = WithRows
         /\ UNCHANGED <<password, table, backup, crashes, interrupted>>

\* The next step of the command line is done.
Step(name) == program = "options" /\ todo # <<>> /\ Head(todo) = name
Done == todo' = Tail(todo) /\ UNCHANGED <<starts, crashes, named, interrupted>>

\* The username is UNIQUE: adding it again ends the program with an exception.
AddUser == /\ Step("add")
           /\ \/ /\ password = NoPassword
                 /\ password' \in Password
                 /\ Done /\ UNCHANGED program
              \/ /\ password # NoPassword
                 /\ program' = "off" /\ todo' = <<>>
                 /\ UNCHANGED <<password, starts, crashes, named, interrupted>>
           /\ UNCHANGED <<macs, table, backup>>

\* UPDATE ... WHERE username=?: of no row, if there is none.
UpdateUser == /\ Step("update") /\ Done
              /\ IF password = NoPassword THEN UNCHANGED password ELSE password' \in Password
              /\ UNCHANGED <<program, macs, table, backup>>

RemoveUser == /\ Step("removeUser") /\ Done
              /\ password' = NoPassword
              /\ UNCHANGED <<program, macs, table, backup>>

GetAllMacAddresses == /\ Step("getAllMacAddresses") /\ Done
                      /\ macs' = WithRows
                      /\ UNCHANGED <<program, password, table, backup>>

RemoveRows(forgotten) == table' = [m \in Mac |-> IF m \in forgotten THEN <<>> ELSE table[m]]

RemoveAllRows == /\ Step("removeAll") /\ Done
                 /\ RemoveRows(Mac)
                 /\ UNCHANGED <<program, macs, password, backup>>

RemoveAllOfMac == /\ Step("removeAllOfMac") /\ Done
                  /\ \E m \in Mac : RemoveRows({m}) /\ macs' = {m}
                  /\ UNCHANGED <<program, password, backup>>

\* remove_all of one backup folder after the other.
Erase == /\ Step("erase")
         /\ IF macs = {}
            THEN Done /\ UNCHANGED <<macs, backup>>
            ELSE /\ \E m \in macs : macs' = macs \ {m} /\ backup' = [backup EXCEPT ![m] = NoTree]
                 /\ UNCHANGED <<todo, starts, crashes, named, interrupted>>
         /\ UNCHANGED <<program, password, table>>

\* The end of main, or its accept loop if the start option is set.
Serve == /\ Step("start") /\ Done
         /\ program' = "serving"
         /\ UNCHANGED <<macs, password, table, backup>>
Exit == /\ program = "options" /\ todo = <<>>
        /\ program' = "off"
        /\ UNCHANGED <<todo, macs, password, table, backup, starts, crashes, named, interrupted>>

\* The process is killed; SQLite keeps what its transactions finished.
Kill == /\ program # "off" /\ crashes < MaxCrashes
        /\ program' = "off" /\ todo' = <<>> /\ macs' = {}
        /\ crashes' = crashes + 1
        /\ interrupted' = (interrupted \/ todo # <<>>)
        /\ UNCHANGED <<password, table, backup, starts, named>>

Administration == \/ Start \/ AddUser \/ UpdateUser \/ RemoveUser \/ GetAllMacAddresses
                  \/ RemoveAllRows \/ RemoveAllOfMac \/ Erase \/ Serve \/ Exit
-----------------------------------------------------------------------------
AccountsTypeOK == /\ program \in {"off", "options", "serving"}
                  /\ todo \in Seq(StepNames) /\ macs \subseteq Mac
                  /\ password \in Password \cup {NoPassword}
                  /\ table \in [Mac -> Seq(Row)]
                  /\ backup \in [Mac -> Tree] /\ \A m \in Mac : WellFormed(backup[m])
                  /\ starts \in 0 .. MaxStarts /\ crashes \in 0 .. MaxCrashes
                  /\ named \subseteq Mac /\ interrupted \in BOOLEAN

\* When a user was removed nothing of his is left, neither rows nor the folders of
\* the machines that rows named: the next user of that name finds an empty backup.
\* Only a command line that was cut short leaves some.
NoUserNoData ==
    password = NoPassword /\ todo = <<>> /\ ~interrupted =>
        \A m \in Mac : table[m] = <<>> /\ (m \in named => backup[m] = NoTree)
=============================================================================
