----------------------------- MODULE Persistence -----------------------------
(***************************************************************************)
(* Conversations across restarts: load() at the start of the server and    *)
(* persist() at its end (src/src/conversation_store.py, src/main.py), and  *)
(* the operator's migrate.py with the migrations there are.  Any process   *)
(* may be killed between two operations on files.                          *)
(*                                                                         *)
(* A file has been written whole or is torn; a temporary file counts once  *)
(* it is renamed.  The loss of what the operating system has accepted is   *)
(* not modelled.                                                           *)
(***************************************************************************)
EXTENDS Naturals, Sequences, FiniteSets

CONSTANTS Convs,
          None,
          MaxSaves,        \* bound: saves completed
          MaxFailures,     \* bound: file operations that fail
          MaxMigrations    \* bound: runs of migrate.py

Names == {"main", "bak", "bak1", "bak2", "bak3", "pre"}

\* migrations/002 gives every conversation a field that Conversation(**d) refuses.
\* save: history, the save it comes from.
Content == [convs : SUBSET Convs, migrated : BOOLEAN, whole : BOOLEAN, save : 0 .. MaxSaves]

ASSUME PersistenceAssumption == /\ MaxSaves \in Nat /\ MaxFailures \in Nat
                                /\ MaxMigrations \in Nat
                                /\ None \notin Content

Torn(f) == [f EXCEPT !.whole = FALSE]

VARIABLES pc,          \* of the server
          step,        \* the step of the rotation
          memory,      \* the conversations of the store
          expired,     \* those older than CONVERSATION_TTL
          file,
          migrator,    \* the place of migrate.py
          moved,       \* the content it has read
          saves, saved,    \* history: number of saves, content of the last
          mishaps,     \* history: what has gone wrong
          failures, migrations

serverVars  == <<pc, step, memory>>
migrateVars == <<migrator, moved, migrations>>
savedVars   == <<saves, saved>>
vars == <<serverVars, expired, file, migrateVars, savedVars, mishaps, failures>>

Init == /\ pc = "down"
        /\ step = 0
        /\ memory = {}
        /\ expired = {}
        /\ file = [n \in Names |-> None]
        /\ migrator = "off"
        /\ moved = None
        /\ saves = 0
        /\ saved = {}
        /\ mishaps = {}
        /\ failures = 0
        /\ migrations = 0

FailWith(kind) == /\ failures < MaxFailures
                  /\ failures' = failures + 1
                  /\ mishaps' = mishaps \cup {kind}

-----------------------------------------------------------------------------
(* load().                                                                 *)

\* Slip: the rotated versions come before the newest backup.
CandidatesUnsorted == <<"main", "bak1", "bak2", "bak3", "bak">>

\* No file is ever called .bak.1: the rotation leaves it out.
Candidates == <<"main", "bak", "bak1", "bak2", "bak3">>

Loadable(n) == /\ file[n] # None
               /\ file[n].whole
               /\ file[n].migrated => file[n].convs = {}

Takes(i) == /\ Loadable(Candidates[i])
            /\ \A j \in 1 .. i - 1 : ~Loadable(Candidates[j])

Restored == (UNION {file[Candidates[i]].convs : i \in {j \in 1 .. 5 : Takes(j)}}) \ expired

Start == /\ pc = "down"
         /\ pc' = "up"
         /\ memory' = Restored
         /\ UNCHANGED <<step, expired, file, migrateVars, savedVars, mishaps, failures>>

Turn(c) == /\ pc = "up"
           /\ c \notin expired
           /\ memory' = memory \cup {c}
           /\ UNCHANGED <<pc, step, expired, file, migrateVars, savedVars, mishaps, failures>>

Expire(c) == /\ expired' = expired \cup {c}
             /\ UNCHANGED <<serverVars, file, migrateVars, savedVars, mishaps, failures>>

-----------------------------------------------------------------------------
(* persist().  Nothing is suspended in it once the data are taken.         *)

Shutdown == /\ pc = "up"
            /\ saves < MaxSaves
            /\ IF file["main"] = None
               THEN pc' = "write" /\ UNCHANGED step
               ELSE pc' = "rotate" /\ step' = 1
            /\ UNCHANGED <<memory, expired, file, migrateVars, savedVars, mishaps, failures>>

Backups == <<"bak", "bak2", "bak3">>

\* Slip: oldest last.
IndicesAscending == <<1, 2, 3>>

Indices == <<3, 2, 1>>

Moved(i) == IF i = 3 THEN [file EXCEPT !["bak3"] = None]
            ELSE [file EXCEPT ![Backups[i + 1]] = file[Backups[i]], ![Backups[i]] = None]

\* One step of the rotation.  An error is passed over.
Rotate ==
  /\ pc = "rotate"
  /\ LET i == Indices[step]
     IN  \/ /\ file' = IF file[Backups[i]] = None THEN file ELSE Moved(i)
            /\ UNCHANGED <<mishaps, failures>>
         \/ /\ file[Backups[i]] # None
            /\ FailWith("interrupted")
            /\ UNCHANGED file
  /\ IF step = 3 THEN pc' = "copy" /\ step' = 0 ELSE step' = step + 1 /\ UNCHANGED pc
  /\ UNCHANGED <<memory, expired, migrateVars, savedVars>>

\* copy2() truncates the copy before it writes it.
CopyBegins == /\ pc = "copy"
              /\ file' = [file EXCEPT !["bak"] = Torn(file["main"])]
              /\ pc' = "copying"
              /\ UNCHANGED <<step, memory, expired, migrateVars, savedVars, mishaps, failures>>

CopyEnds == /\ pc = "copying"
            /\ file' = [file EXCEPT !["bak"] = file["main"]]
            /\ pc' = "write"
            /\ UNCHANGED <<step, memory, expired, migrateVars, savedVars, mishaps, failures>>

\* The save goes on without the backup.
CopyFails == /\ pc \in {"copy", "copying"}
             /\ pc' = "write"
             /\ FailWith("interrupted")
             /\ UNCHANGED <<step, memory, expired, file, migrateVars, savedVars>>

SaveDone == /\ pc' = "down"
            /\ memory' = {}
            /\ saves' = saves + 1
            /\ saved' = memory
            /\ mishaps' = IF migrator = "off" THEN mishaps ELSE mishaps \cup {"overlapped"}

New == [convs |-> memory, migrated |-> FALSE, whole |-> TRUE, save |-> saves + 1]

\* Slip: the file is truncated and written in place.
WriteInPlace ==
  /\ pc = "write"
  /\ \/ /\ file["main"] # None /\ file["main"].whole
        /\ file' = [file EXCEPT !["main"] = Torn(file["main"])]
        /\ UNCHANGED <<pc, memory, savedVars, mishaps>>
     \/ file' = [file EXCEPT !["main"] = New] /\ SaveDone
  /\ UNCHANGED <<step, expired, migrateVars, failures>>

Replace == /\ pc = "write"
           /\ file' = [file EXCEPT !["main"] = New]
           /\ SaveDone
           /\ UNCHANGED <<step, expired, migrateVars, failures>>

WriteFails == /\ pc = "write"
              /\ pc' = "down"
              /\ memory' = {}
              /\ FailWith("interrupted")
              /\ UNCHANGED <<step, expired, file, migrateVars, savedVars>>

Killed == /\ pc # "down"
          /\ pc' = "down"
          /\ step' = 0
          /\ memory' = {}
          /\ mishaps' = IF pc = "up" THEN mishaps ELSE mishaps \cup {"interrupted"}
          /\ UNCHANGED <<expired, file, migrateVars, savedVars, failures>>

-----------------------------------------------------------------------------
(* migrate.py.                                                             *)

MigrateReads == /\ migrator = "off"
                /\ migrations < MaxMigrations
                /\ file["main"] # None
                /\ file["main"].whole
                /\ migrator' = "read"
                /\ moved' = file["main"]
                /\ migrations' = migrations + 1
                /\ UNCHANGED <<serverVars, expired, file, savedVars, mishaps, failures>>

MigrateCopies == /\ migrator = "read"
                 /\ file' = [file EXCEPT !["pre"] = Torn(file["main"])]
                 /\ migrator' = "copying"
                 /\ UNCHANGED <<serverVars, expired, moved, migrations, savedVars, mishaps,
                                failures>>

MigrateCopied == /\ migrator = "copying"
                 /\ file' = [file EXCEPT !["pre"] = file["main"]]
                 /\ migrator' = "copied"
                 /\ UNCHANGED <<serverVars, expired, moved, migrations, savedVars, mishaps,
                                failures>>

\* A warning; the store file is written all the same.
MigrateCopyFails == /\ migrator = "copying"
                    /\ migrator' = "copied"
                    /\ FailWith("unbacked")
                    /\ UNCHANGED <<serverVars, expired, file, moved, migrations, savedVars>>

Truncate == /\ file' = [file EXCEPT !["main"] = Torn(file["main"])]
            /\ migrator' = "writing"
            /\ mishaps' = mishaps \cup {"migrated"}
            /\ UNCHANGED <<serverVars, expired, moved, migrations, savedVars, failures>>

\* Slip: the file is opened before the backup is complete.
TruncateEarly == migrator \in {"copying", "copied"} /\ Truncate

MigrateTruncates == migrator = "copied" /\ Truncate

\* If the server has replaced the file meanwhile, what is written is a file
\* without a name.
MigrateWrites ==
  /\ migrator = "writing"
  /\ file' = IF file["main"].whole THEN file
             ELSE [file EXCEPT !["main"] = [moved EXCEPT !.migrated = TRUE]]
  /\ migrator' = "off"
  /\ moved' = None
  /\ UNCHANGED <<serverVars, expired, migrations, savedVars, mishaps, failures>>

\* Killed, or the disk is full.
MigrateEnds == /\ migrator # "off"
               /\ migrator' = "off"
               /\ moved' = None
               /\ UNCHANGED <<serverVars, expired, file, migrations, savedVars, mishaps, failures>>

Next == \/ Start \/ Shutdown \/ Rotate \/ CopyBegins \/ CopyEnds \/ CopyFails
        \/ Replace \/ WriteFails \/ Killed
        \/ MigrateReads \/ MigrateCopies \/ MigrateCopied \/ MigrateCopyFails
        \/ MigrateTruncates \/ MigrateWrites \/ MigrateEnds
        \/ \E c \in Convs : Turn(c) \/ Expire(c)

Spec == Init /\ [][Next]_vars

-----------------------------------------------------------------------------
(* Properties.                                                             *)

\* Every variable has its type; .bak.1 is never written, and only a migration
\* under way or one that was stopped leaves the store file torn.
TypeOK == /\ pc \in {"down", "up", "rotate", "copy", "copying", "write"}
          /\ step \in 0 .. 3 /\ (pc = "rotate" <=> step > 0)
          /\ memory \subseteq Convs /\ expired \subseteq Convs /\ saved \subseteq Convs
          /\ file \in [Names -> Content \cup {None}]
          /\ file["bak1"] = None
          /\ migrator \in {"off", "read", "copying", "copied", "writing"}
          /\ moved \in Content \cup {None}
          /\ saves \in 0 .. MaxSaves
          /\ mishaps \subseteq {"interrupted", "unbacked", "overlapped", "migrated"}
          /\ failures \in 0 .. MaxFailures /\ migrations \in 0 .. MaxMigrations
          /\ file["main"] # None /\ ~file["main"].whole => "migrated" \in mishaps

\* Whatever fails and wherever the server is killed, load() finds what the last
\* persist() saved, unless the file was migrated.
SavedSurvives == "migrated" \notin mishaps => saved \ expired \subseteq Restored

\* What load() takes is the newest version that can be loaded, unless the server
\* saved while migrate.py held an older one.
NewestIsTaken ==
  "overlapped" \notin mishaps =>
    \A i, j \in 1 .. 5 : Takes(i) /\ Loadable(Candidates[j]) =>
                           file[Candidates[j]].save <= file[Candidates[i]].save

\* As long as nothing went wrong the last four versions are all there.
HistoryKept ==
  mishaps = {} /\ pc \in {"down", "up"} =>
    \A k \in 1 .. saves : k + 4 > saves =>
      \E n \in {"main", "bak", "bak2", "bak3"} : /\ Loadable(n)
                                                 /\ file[n].save = k

\* A migration that stops half-way leaves the version it destroyed in its own
\* backup, if that could be made and the server did not save meanwhile.
DestroyedIsBackedUp ==
  /\ file["main"] # None
  /\ ~file["main"].whole
  /\ mishaps \cap {"unbacked", "overlapped"} = {}
  => /\ file["pre"] # None
     /\ file["pre"] = [file["main"] EXCEPT !.whole = TRUE]
=============================================================================
