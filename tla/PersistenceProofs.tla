-------------------------- MODULE PersistenceProofs --------------------------
(***************************************************************************)
(* What the files keep, for any number of conversations, saves, failures   *)
(* and migrations, wherever the server or migrate.py is stopped.  Nobody   *)
(* but migrate.py ever opens the store file for writing, so everything     *)
(* turns on how far it has come.                                           *)
(***************************************************************************)
EXTENDS Persistence, TLAPS

Store == file["main"]

\* A save that was begun can be counted.
RoomToSave == pc \notin {"down", "up"} => saves < MaxSaves

\* Whoever copies or writes the store file has found it there.
StoreThere == /\ pc \in {"rotate", "copy", "copying"} => Store # None
              /\ migrator # "off" => Store # None /\ moved # None
              /\ moved # None => moved.whole

\* Only migrate.py truncates.
TornByMigration == migrator = "writing" => "migrated" \in mishaps

\* Until it does, the store file is the last save.
StoreIsSaved ==
  "migrated" \notin mishaps => IF Store = None THEN saved = {}
                               ELSE Store.whole /\ ~Store.migrated /\ Store.convs = saved

\* What migrate.py is about to destroy is whole, and backed up when it begins.
BackedUp ==
  mishaps \cap {"unbacked", "overlapped"} = {} =>
    /\ migrator \in {"read", "copying", "copied"} => Store.whole
    /\ migrator = "copied" => file["pre"] = Store

FileInv == /\ TypeOK
           /\ RoomToSave
           /\ StoreThere
           /\ TornByMigration
           /\ StoreIsSaved
           /\ BackedUp
           /\ DestroyedIsBackedUp

USE PersistenceAssumption DEF PersistenceAssumption

-----------------------------------------------------------------------------
(* Contents.                                                               *)

LEMMA TornContent ==
  ASSUME NEW f \in Content
  PROVE  /\ Torn(f) \in Content
         /\ ~Torn(f).whole
         /\ f.whole => [Torn(f) EXCEPT !.whole = TRUE] = f
BY DEF Torn, Content

LEMMA MigratedContent ==
  ASSUME NEW f \in Content
  PROVE  /\ [f EXCEPT !.migrated = TRUE] \in Content
         /\ [f EXCEPT !.migrated = TRUE].whole = f.whole
BY DEF Content

LEMMA NewContent ==
  ASSUME TypeOK, saves < MaxSaves
  PROVE  New \in Content /\ New.whole /\ ~New.migrated /\ New.convs = memory
BY DEF TypeOK, New, Content

\* load() brings back what is in one of the files.
LEMMA RestoredConvs ==
  ASSUME TypeOK
  PROVE  Restored \subseteq Convs
<1>1. \A i \in 1 .. 5 : Candidates[i] \in Names
  BY DEF Candidates, Names
<1>2. \A i \in 1 .. 5 : Takes(i) => file[Candidates[i]] \in Content
  BY <1>1 DEF TypeOK, Takes, Loadable
<1>3. \A f \in Content : f.convs \subseteq Convs
  BY DEF Content
<1>4. QED
  BY <1>2, <1>3 DEF Restored

-----------------------------------------------------------------------------
(* The invariant.  The steps are grouped by what they do to files.         *)

LEMMA FileInit == Init => FileInv
BY DEF Init, FileInv, TypeOK, RoomToSave, StoreThere, TornByMigration, StoreIsSaved, BackedUp,
       DestroyedIsBackedUp, Names, Store

\* Steps that leave the files and migrate.py alone.
LEMMA ServerStep ==
  ASSUME FileInv,
         \/ Start \/ Shutdown \/ CopyFails \/ WriteFails \/ Killed
         \/ \E c \in Convs : Turn(c) \/ Expire(c)
  PROVE  FileInv'
<1> USE DEF FileInv
<1>1. /\ UNCHANGED <<file, migrator, moved, migrations, saves, saved>>
      /\ mishaps \subseteq mishaps' /\ ("migrated" \in mishaps' => "migrated" \in mishaps)
      /\ mishaps' \subseteq mishaps \cup {"interrupted"}
  BY DEF Start, Shutdown, CopyFails, WriteFails, Killed, Turn, Expire, FailWith, migrateVars,
         savedVars, serverVars
<1>2. TypeOK'
  <2>1. memory' \subseteq Convs /\ expired' \subseteq Convs
    BY RestoredConvs
    DEF TypeOK, Start, Shutdown, CopyFails, WriteFails, Killed, Turn, Expire, serverVars
  <2>2. /\ pc' \in {"down", "up", "rotate", "copy", "copying", "write"}
        /\ step' \in 0 .. 3 /\ (pc' = "rotate" <=> step' > 0)
    BY DEF TypeOK, Start, Shutdown, CopyFails, WriteFails, Killed, Turn, Expire, serverVars
  <2>3. failures' \in 0 .. MaxFailures
    BY DEF TypeOK, Start, Shutdown, CopyFails, WriteFails, Killed, Turn, Expire, serverVars, FailWith
  <2>4. QED
    BY <1>1, <2>1, <2>2, <2>3 DEF TypeOK
<1>3. RoomToSave'
  BY <1>1 DEF RoomToSave, Start, Shutdown, CopyFails, WriteFails, Killed, Turn, Expire, serverVars
<1>4. StoreThere'
  BY <1>1 DEF StoreThere, Store, Start, Shutdown, CopyFails, WriteFails, Killed, Turn, Expire,
              serverVars
<1>5. TornByMigration' /\ StoreIsSaved' /\ BackedUp' /\ DestroyedIsBackedUp'
  BY <1>1 DEF TornByMigration, StoreIsSaved, BackedUp, DestroyedIsBackedUp, Store
<1>6. QED
  BY <1>2, <1>3, <1>4, <1>5

\* The rotation and the copy write backups only.
LEMMA BackupStep ==
  ASSUME FileInv, Rotate \/ CopyBegins \/ CopyEnds
  PROVE  FileInv'
<1> USE DEF FileInv
<1>1. /\ UNCHANGED <<memory, expired, migrator, moved, migrations, saves, saved>>
      /\ "migrated" \in mishaps' <=> "migrated" \in mishaps
      /\ mishaps' \subseteq mishaps \cup {"interrupted"} /\ mishaps \subseteq mishaps'
      /\ failures' \in 0 .. MaxFailures
  BY DEF Rotate, CopyBegins, CopyEnds, FailWith, migrateVars, savedVars, TypeOK
<1>2. /\ pc' \in {"rotate", "copy", "copying", "write"}
      /\ step' \in 0 .. 3 /\ (pc' = "rotate" <=> step' > 0)
      /\ pc \notin {"down", "up"}
  BY DEF Rotate, CopyBegins, CopyEnds, TypeOK
<1>3. Store # None /\ Store \in Content
  BY DEF Rotate, CopyBegins, CopyEnds, StoreThere, TypeOK, Store, Names
<1>4. /\ file' \in [Names -> Content \cup {None}]
      /\ Store' = Store /\ file'["pre"] = file["pre"] /\ file'["bak1"] = None
  <2>1. CASE CopyBegins \/ CopyEnds
    BY <1>3, <2>1, TornContent DEF CopyBegins, CopyEnds, TypeOK, Names, Store
  <2>2. CASE Rotate
    <3>1. step \in 1 .. 3
      BY <2>2 DEF Rotate, TypeOK
    <3>2. PICK i \in 1 .. 3 : file' = file \/ file' = Moved(i)
      <4>1. Indices[step] \in 1 .. 3
        BY <3>1 DEF Indices
      <4>2. QED
        BY <2>2, <4>1 DEF Rotate
    <3>3. CASE i = 3
      BY <3>2, <3>3 DEF Moved, TypeOK, Names, Store
    <3>4. CASE i = 2
      BY <3>2, <3>4 DEF Moved, Backups, TypeOK, Names, Store
    <3>5. CASE i = 1
      BY <3>2, <3>5 DEF Moved, Backups, TypeOK, Names, Store
    <3>6. QED
      BY <3>3, <3>4, <3>5
  <2>3. QED
    BY <2>1, <2>2
<1>5. TypeOK'
  BY <1>1, <1>2, <1>4 DEF TypeOK, Store
<1>6. RoomToSave' /\ StoreThere'
  BY <1>1, <1>2, <1>3, <1>4 DEF RoomToSave, StoreThere
<1>7. TornByMigration' /\ StoreIsSaved' /\ BackedUp' /\ DestroyedIsBackedUp'
  BY <1>1, <1>4 DEF TornByMigration, StoreIsSaved, BackedUp, DestroyedIsBackedUp, Store
<1>8. QED
  BY <1>5, <1>6, <1>7

\* The save.
LEMMA SaveStep ==
  ASSUME FileInv, Replace
  PROVE  FileInv'
<1> USE DEF FileInv
<1>1. /\ New \in Content /\ New.whole /\ ~New.migrated /\ New.convs = memory
      /\ saves' \in 0 .. MaxSaves
  BY NewContent DEF RoomToSave, Replace, TypeOK, SaveDone
<1>2. /\ file' \in [Names -> Content \cup {None}]
      /\ Store' = New /\ file'["pre"] = file["pre"] /\ file'["bak1"] = None
  BY <1>1 DEF Replace, TypeOK, Names, Store
<1>3. /\ UNCHANGED <<migrator, moved, migrations, expired, failures, step>>
      /\ pc = "write" /\ pc' = "down" /\ memory' = {} /\ saved' = memory
      /\ "migrated" \in mishaps' <=> "migrated" \in mishaps
      /\ mishaps' \subseteq mishaps \cup {"overlapped"} /\ mishaps \subseteq mishaps'
      /\ migrator # "off" => "overlapped" \in mishaps'
  BY DEF Replace, SaveDone, migrateVars
<1>4. TypeOK'
  BY <1>1, <1>2, <1>3 DEF TypeOK, Store
<1>5. RoomToSave' /\ StoreThere' /\ TornByMigration' /\ StoreIsSaved'
  BY <1>1, <1>2, <1>3 DEF RoomToSave, StoreThere, TornByMigration, StoreIsSaved
<1>6. BackedUp' /\ DestroyedIsBackedUp'
  BY <1>1, <1>2, <1>3 DEF BackedUp, DestroyedIsBackedUp, Store
<1>7. QED
  BY <1>4, <1>5, <1>6

\* migrate.py up to the backup, and where it is stopped.
LEMMA PrepareStep ==
  ASSUME FileInv,
         MigrateReads \/ MigrateCopies \/ MigrateCopied \/ MigrateCopyFails \/ MigrateEnds
  PROVE  FileInv'
<1> USE DEF FileInv
<1>1. UNCHANGED <<pc, step, memory, expired, saves, saved>>
  BY DEF MigrateReads, MigrateCopies, MigrateCopied, MigrateCopyFails, MigrateEnds, FailWith,
         serverVars, savedVars
<1>2. /\ "migrated" \in mishaps' <=> "migrated" \in mishaps
      /\ mishaps' \subseteq mishaps \cup {"unbacked"} /\ mishaps \subseteq mishaps'
      /\ MigrateCopyFails => "unbacked" \in mishaps'
      /\ failures' \in 0 .. MaxFailures /\ migrations' \in 0 .. MaxMigrations
  BY DEF MigrateReads, MigrateCopies, MigrateCopied, MigrateCopyFails, MigrateEnds, FailWith, TypeOK
<1>3. Store' # None <=> Store # None
  BY DEF MigrateReads, MigrateCopies, MigrateCopied, MigrateCopyFails, MigrateEnds, FailWith, Store,
         TypeOK, Names
<1>4. migrator # "off" \/ MigrateReads => Store # None /\ Store \in Content
  BY DEF MigrateReads, StoreThere, TypeOK, Store, Names
<1>5. /\ file' \in [Names -> Content \cup {None}]
      /\ Store' = Store /\ file'["bak1"] = None
      /\ file'["pre"] # file["pre"] => migrator \in {"read", "copying"}
      /\ MigrateCopied => file'["pre"] = Store
  BY <1>4, TornContent
  DEF MigrateReads, MigrateCopies, MigrateCopied, MigrateCopyFails, MigrateEnds, FailWith, TypeOK,
      Names, Store
<1>6. /\ migrator' \in {"off", "read", "copying", "copied"}
      /\ migrator' # "off" => Store # None /\ moved' # None
      /\ moved' # None => moved'.whole
      /\ moved' \in Content \cup {None}
      /\ migrator' = "read" => Store.whole
      /\ migrator' = "copying" => migrator = "read"
      /\ migrator' = "copied" => migrator = "copying" /\ (MigrateCopied \/ MigrateCopyFails)
  BY <1>4 DEF MigrateReads, MigrateCopies, MigrateCopied, MigrateCopyFails, MigrateEnds, FailWith,
              TypeOK, StoreThere, Store
<1>7. TypeOK'
  BY <1>1, <1>2, <1>5, <1>6 DEF TypeOK, Store
<1>8. RoomToSave' /\ StoreThere' /\ TornByMigration' /\ StoreIsSaved'
  BY <1>1, <1>2, <1>3, <1>5, <1>6 DEF RoomToSave, StoreThere, TornByMigration, StoreIsSaved
<1>9. BackedUp' /\ DestroyedIsBackedUp'
  BY <1>2, <1>5, <1>6 DEF BackedUp, DestroyedIsBackedUp, Store
<1>10. QED
  BY <1>7, <1>8, <1>9

\* migrate.py opens the store file and writes it.
LEMMA OverwriteStep ==
  ASSUME FileInv, MigrateTruncates \/ MigrateWrites
  PROVE  FileInv'
<1> USE DEF FileInv
<1>1. /\ UNCHANGED <<pc, step, memory, expired, saves, saved, failures, migrations>>
      /\ "migrated" \in mishaps' /\ mishaps' \subseteq mishaps \cup {"migrated"}
      /\ mishaps \subseteq mishaps'
  BY DEF MigrateTruncates, MigrateWrites, Truncate, serverVars, savedVars, TornByMigration
<1>2. Store \in Content /\ Store # None /\ moved \in Content
  BY DEF MigrateTruncates, MigrateWrites, StoreThere, TypeOK, Store, Names
<1>3. CASE MigrateTruncates
  <2>1. /\ file' \in [Names -> Content \cup {None}]
        /\ Store' = Torn(Store) /\ Store' \in Content /\ Store' # None
        /\ file'["pre"] = file["pre"] /\ file'["bak1"] = None
    BY <1>2, <1>3, TornContent DEF MigrateTruncates, Truncate, TypeOK, Names, Store
  <2>2. migrator = "copied" /\ migrator' = "writing" /\ moved' = moved
    BY <1>3 DEF MigrateTruncates, Truncate
  <2>3. TypeOK' /\ RoomToSave' /\ StoreThere' /\ TornByMigration' /\ StoreIsSaved' /\ BackedUp'
    BY <1>1, <1>2, <2>1, <2>2
    DEF TypeOK, RoomToSave, StoreThere, TornByMigration, StoreIsSaved, BackedUp, Store
  <2>4. DestroyedIsBackedUp'
    <3>1. ASSUME mishaps' \cap {"unbacked", "overlapped"} = {}
          PROVE  file'["pre"] # None /\ file'["pre"] = [Store' EXCEPT !.whole = TRUE]
      <4>1. Store.whole /\ file["pre"] = Store
        BY <1>1, <2>2, <3>1 DEF BackedUp
      <4>2. [Torn(Store) EXCEPT !.whole = TRUE] = Store
        BY <1>2, <4>1, TornContent
      <4>3. QED
        BY <1>2, <2>1, <4>1, <4>2
    <3>2. QED
      BY <3>1 DEF DestroyedIsBackedUp, Store
  <2>5. QED
    BY <2>3, <2>4
<1>4. CASE MigrateWrites
  <2>1. moved.whole => [moved EXCEPT !.migrated = TRUE].whole
    BY <1>2, MigratedContent
  <2>2. /\ file' \in [Names -> Content \cup {None}]
        /\ Store' \in Content /\ Store' # None
        /\ Store' = Store \/ Store' = [moved EXCEPT !.migrated = TRUE]
        /\ file'["pre"] = file["pre"] /\ file'["bak1"] = None
    BY <1>2, <1>4, MigratedContent DEF MigrateWrites, TypeOK, Names, Store
  <2>3. migrator' = "off" /\ moved' = None
    BY <1>4 DEF MigrateWrites
  <2>4. TypeOK' /\ RoomToSave' /\ StoreThere' /\ TornByMigration' /\ StoreIsSaved' /\ BackedUp'
    BY <1>1, <2>2, <2>3
    DEF TypeOK, RoomToSave, StoreThere, TornByMigration, StoreIsSaved, BackedUp, Store
  <2>5. Store'.whole
    <3>1. moved # None /\ moved.whole
      BY <1>4 DEF MigrateWrites, StoreThere
    <3>2. CASE Store.whole
      BY <1>4, <3>2 DEF MigrateWrites, Store
    <3>3. CASE ~Store.whole
      BY <1>2, <1>4, <2>1, <3>1, <3>3 DEF MigrateWrites, Store, TypeOK, Names
    <3>4. QED
      BY <3>2, <3>3
  <2>6. QED
    BY <2>4, <2>5 DEF DestroyedIsBackedUp, Store
<1>5. QED
  BY <1>3, <1>4

LEMMA FileStep == FileInv /\ [Next]_vars => FileInv'
<1> SUFFICES ASSUME FileInv, [Next]_vars
             PROVE  FileInv'
  OBVIOUS
<1>1. CASE Next
  BY <1>1, ServerStep, BackupStep, SaveStep, PrepareStep, OverwriteStep DEF Next
<1>2. CASE UNCHANGED vars
  BY <1>2
  DEF vars, serverVars, migrateVars, savedVars, FileInv, TypeOK, RoomToSave, StoreThere,
      TornByMigration, StoreIsSaved, BackedUp, DestroyedIsBackedUp, Store, Content, New
<1>3. QED
  BY <1>1, <1>2

THEOREM FilesInvariant == Spec => []FileInv
<1>1. QED
  BY FileInit, FileStep, PTL DEF Spec

-----------------------------------------------------------------------------
(* The properties.                                                         *)

\* Every variable has its type; in particular no file is ever called .bak.1 and
\* only a migration leaves the store file torn: persist() replaces it whole.
THEOREM TypesHold == Spec => []TypeOK
<1>1. FileInv => TypeOK
  BY DEF FileInv
<1>2. QED
  BY <1>1, FilesInvariant, PTL

LEMMA SavedIsRestored == FileInv => SavedSurvives
<1> SUFFICES ASSUME FileInv, "migrated" \notin mishaps
             PROVE  saved \ expired \subseteq Restored
  BY DEF SavedSurvives
<1>1. CASE Store = None
  BY <1>1 DEF FileInv, StoreIsSaved
<1>2. CASE Store # None
  <2>1. Candidates[1] = "main"
    BY DEF Candidates
  <2>2. Takes(1)
    <3>1. Loadable(Candidates[1])
      BY <1>2, <2>1 DEF FileInv, StoreIsSaved, Loadable, Store
    <3>2. \A j \in 1 .. 1 - 1 : FALSE
      OBVIOUS
    <3>3. QED
      BY <3>1, <3>2 DEF Takes
  <2>3. file[Candidates[1]].convs = saved
    BY <1>2, <2>1 DEF FileInv, StoreIsSaved, Store
  <2>4. QED
    BY <2>2, <2>3 DEF Restored
<1>3. QED
  BY <1>1, <1>2

\* Whatever fails and wherever the server is killed, load() brings back all that
\* the last completed persist() saved, as long as migrate.py has not begun to write.
THEOREM SavedConversationsSurvive == Spec => []SavedSurvives
<1>1. QED
  BY FilesInvariant, SavedIsRestored, PTL

\* What migrate.py has destroyed when it stops is in its backup, if the backup
\* could be made and the server did not save meanwhile.
THEOREM MigrationIsBackedUp == Spec => []DestroyedIsBackedUp
<1>1. FileInv => DestroyedIsBackedUp
  BY DEF FileInv
<1>2. QED
  BY <1>1, FilesInvariant, PTL

-----------------------------------------------------------------------------
(* The order of the versions.  Every way a version takes is down the list  *)
(* of candidates, and what comes in at its head is the newest.             *)

NotBefore(f, g) == f # None /\ g # None => g.save <= f.save

Ordered == /\ NotBefore(Store, file["bak"])
           /\ NotBefore(Store, file["bak2"])
           /\ NotBefore(Store, file["bak3"])
           /\ NotBefore(file["bak"], file["bak2"])
           /\ NotBefore(file["bak"], file["bak3"])
           /\ NotBefore(file["bak2"], file["bak3"])

\* What migrate.py holds is the version in the store file.
HoldsStore == migrator # "off" => moved.save = Store.save

Versions == {"main", "bak", "bak2", "bak3"}
Counted == /\ \A n \in Versions : file[n] # None => file[n].save <= saves
           /\ moved # None => moved.save <= saves

OrderInv == Counted /\ ("overlapped" \notin mishaps => Ordered /\ HoldsStore)

LEMMA SavesKept ==
  ASSUME NEW f \in Content
  PROVE  /\ f.save \in Nat
         /\ Torn(f).save = f.save
         /\ [f EXCEPT !.migrated = TRUE].save = f.save
BY DEF Torn, Content

LEMMA FilesAreContent ==
  ASSUME TypeOK, NEW n \in Names, file[n] # None
  PROVE  file[n] \in Content /\ file[n].save \in Nat
BY DEF TypeOK, Content

\* Steps that leave the versions alone; migrate.py reads, copies and stops.
LEMMA OrderKept ==
  ASSUME FileInv, OrderInv,
         \/ Start \/ Shutdown \/ CopyFails \/ WriteFails \/ Killed
         \/ MigrateReads \/ MigrateCopies \/ MigrateCopied \/ MigrateCopyFails \/ MigrateEnds
         \/ \E c \in Convs : Turn(c) \/ Expire(c)
  PROVE  OrderInv'
<1>1. /\ \A n \in Versions : file'[n] = file[n]
      /\ saves' = saves
      /\ mishaps \subseteq mishaps'
  BY DEF Start, Shutdown, CopyFails, WriteFails, Killed, Turn, Expire, MigrateReads, MigrateCopies,
         MigrateCopied, MigrateCopyFails, MigrateEnds, FailWith, migrateVars, savedVars, serverVars,
         FileInv, TypeOK, Names, Versions
<1>2. \/ moved' = None /\ migrator' = "off"
      \/ moved' = moved /\ (migrator' # "off" => migrator # "off")
      \/ moved' = Store /\ Store # None
  BY DEF Start, Shutdown, CopyFails, WriteFails, Killed, Turn, Expire, MigrateReads, MigrateCopies,
         MigrateCopied, MigrateCopyFails, MigrateEnds, FailWith, migrateVars, Store, FileInv, TypeOK
<1>3. Counted'
  BY <1>1, <1>2 DEF OrderInv, Counted, Versions, Store
<1>4. ASSUME "overlapped" \notin mishaps'
      PROVE  Ordered' /\ HoldsStore'
  BY <1>1, <1>2, <1>4 DEF OrderInv, Ordered, HoldsStore, NotBefore, Store, Versions
<1>5. QED
  BY <1>3, <1>4 DEF OrderInv

\* The rotation moves a version down the list, or deletes the last.
LEMMA OrderRotated ==
  ASSUME FileInv, OrderInv, Rotate
  PROVE  OrderInv'
<1>1. /\ UNCHANGED <<migrator, moved, saves>>
      /\ mishaps \subseteq mishaps'
  BY DEF Rotate, FailWith, migrateVars, savedVars
<1>2. step \in 1 .. 3
  BY DEF Rotate, FileInv, TypeOK
<1>3. PICK i \in 1 .. 3 : file' = file \/ file' = Moved(i)
  <2>1. Indices[step] \in 1 .. 3
    BY <1>2 DEF Indices
  <2>2. QED
    BY <2>1 DEF Rotate
<1>4. file \in [Names -> Content \cup {None}]
  BY DEF FileInv, TypeOK
<1>5. /\ Store' = Store
      /\ \/ UNCHANGED <<file["bak"], file["bak2"], file["bak3"]>>
         \/ file'["bak3"] = None /\ UNCHANGED <<file["bak"], file["bak2"]>>
         \/ file'["bak3"] = file["bak2"] /\ file'["bak2"] = None /\ UNCHANGED file["bak"]
         \/ file'["bak2"] = file["bak"] /\ file'["bak"] = None /\ UNCHANGED file["bak3"]
  <2>1. CASE file' = file
    BY <2>1 DEF Store
  <2>2. CASE i = 3 /\ file' = Moved(i)
    BY <1>4, <2>2 DEF Moved, Names, Store
  <2>3. CASE i = 2 /\ file' = Moved(i)
    BY <1>4, <2>3 DEF Moved, Backups, Names, Store
  <2>4. CASE i = 1 /\ file' = Moved(i)
    BY <1>4, <2>4 DEF Moved, Backups, Names, Store
  <2>5. QED
    BY <1>3, <2>1, <2>2, <2>3, <2>4
<1>6. Counted'
  BY <1>1, <1>5 DEF OrderInv, Counted, Versions, Store
<1>7. ASSUME "overlapped" \notin mishaps'
      PROVE  Ordered' /\ HoldsStore'
  <2>1. Ordered /\ HoldsStore
    BY <1>1, <1>7 DEF OrderInv
  <2>2. Ordered'
    BY <1>5, <2>1 DEF Ordered, NotBefore
  <2>3. HoldsStore'
    BY <1>1, <1>5, <2>1 DEF HoldsStore
  <2>4. QED
    BY <2>2, <2>3
<1>8. QED
  BY <1>6, <1>7 DEF OrderInv

\* The copy puts the store file's version next to it.
LEMMA OrderCopied ==
  ASSUME FileInv, OrderInv, CopyBegins \/ CopyEnds
  PROVE  OrderInv'
<1>1. UNCHANGED <<migrator, moved, saves, mishaps>>
  BY DEF CopyBegins, CopyEnds, migrateVars, savedVars
<1>2. Store \in Content /\ Store # None /\ Store.save \in Nat
  BY FilesAreContent DEF CopyBegins, CopyEnds, FileInv, StoreThere, Store, Names
<1>3. file \in [Names -> Content \cup {None}]
  BY DEF FileInv, TypeOK
<1>4. /\ UNCHANGED <<Store, file["bak2"], file["bak3"]>>
      /\ file'["bak"] # None /\ file'["bak"].save = Store.save
  <2>1. CASE CopyBegins
    BY <1>2, <1>3, <2>1, TornContent, SavesKept DEF CopyBegins, Names, Store
  <2>2. CASE CopyEnds
    BY <1>2, <1>3, <2>2 DEF CopyEnds, Names, Store
  <2>3. QED
    BY <2>1, <2>2
<1>5. Counted'
  BY <1>1, <1>2, <1>4 DEF OrderInv, Counted, Versions, Store
<1>6. ASSUME "overlapped" \notin mishaps'
      PROVE  Ordered' /\ HoldsStore'
  BY <1>1, <1>2, <1>4, <1>6 DEF OrderInv, Ordered, HoldsStore, NotBefore
<1>7. QED
  BY <1>5, <1>6 DEF OrderInv

\* The save is newer than everything.
LEMMA OrderSaved ==
  ASSUME FileInv, OrderInv, Replace
  PROVE  OrderInv'
<1>1. /\ saves' = saves + 1 /\ saves \in Nat /\ moved' = moved
      /\ mishaps \subseteq mishaps'
      /\ "overlapped" \notin mishaps' => migrator' = "off"
  BY DEF Replace, SaveDone, migrateVars, FileInv, TypeOK
<1>2. file \in [Names -> Content \cup {None}]
  BY DEF FileInv, TypeOK
<1>3. /\ UNCHANGED <<file["bak"], file["bak2"], file["bak3"]>>
      /\ Store' = New /\ New.save = saves + 1
  BY <1>2 DEF Replace, Names, Store, New
<1>4. \A n \in Versions : file[n] # None => file[n].save \in Nat
  BY FilesAreContent DEF FileInv, Versions, Names
<1>5. Counted'
  <2>0. moved' # None => moved'.save <= saves'
    BY <1>1 DEF OrderInv, Counted, FileInv, TypeOK, Content
  <2>1. SUFFICES ASSUME NEW n \in Versions, file'[n] # None
                 PROVE  file'[n].save <= saves'
    BY <2>0 DEF Counted
  <2>2. CASE n = "main"
    BY <1>1, <1>3, <2>2 DEF Store
  <2>3. CASE n # "main"
    BY <1>1, <1>3, <1>4, <2>1, <2>3 DEF OrderInv, Counted, Versions
  <2>4. QED
    BY <2>2, <2>3
<1>6. ASSUME "overlapped" \notin mishaps'
      PROVE  Ordered' /\ HoldsStore'
  <2>1. HoldsStore'
    BY <1>1, <1>6 DEF HoldsStore
  <2>2. \A n \in {"bak", "bak2", "bak3"} : NotBefore(Store', file'[n])
    BY <1>1, <1>3, <1>4 DEF OrderInv, Counted, NotBefore, Versions
  <2>3. Ordered
    BY <1>1, <1>6 DEF OrderInv
  <2>4. QED
    BY <1>3, <2>1, <2>2, <2>3 DEF Ordered
<1>7. QED
  BY <1>5, <1>6 DEF OrderInv

\* migrate.py opens the store file and writes what it holds.
LEMMA OrderMigrated ==
  ASSUME FileInv, OrderInv, MigrateTruncates \/ MigrateWrites
  PROVE  OrderInv'
<1>1. saves' = saves /\ mishaps \subseteq mishaps' /\ mishaps' \subseteq mishaps \cup {"migrated"}
  BY DEF MigrateTruncates, MigrateWrites, Truncate, savedVars
<1>2. Store \in Content /\ Store # None /\ moved \in Content
  BY DEF MigrateTruncates, MigrateWrites, FileInv, StoreThere, TypeOK, Store, Names
<1>3. file \in [Names -> Content \cup {None}]
  BY DEF FileInv, TypeOK
<1>4. UNCHANGED <<file["bak"], file["bak2"], file["bak3"]>>
  BY <1>3 DEF MigrateTruncates, MigrateWrites, Truncate, Names
<1>5. CASE MigrateTruncates
  <2>1. /\ Store' # None /\ Store'.save = Store.save
        /\ migrator # "off" /\ moved' = moved
    BY <1>2, <1>3, <1>5, TornContent, SavesKept DEF MigrateTruncates, Truncate, Names, Store
  <2>2. Counted'
    BY <1>1, <1>2, <1>4, <2>1 DEF OrderInv, Counted, Versions, Store
  <2>3. QED
    BY <1>1, <1>2, <1>4, <2>1, <2>2 DEF OrderInv, Ordered, HoldsStore, NotBefore
<1>6. CASE MigrateWrites
  <2>1. /\ migrator # "off" /\ migrator' = "off" /\ mishaps' = mishaps
        /\ moved # None /\ moved' = None
    BY <1>6 DEF MigrateWrites, FileInv, StoreThere
  <2>2. Store' # None
    BY <1>2, <1>3, <1>6, MigratedContent DEF MigrateWrites, Names, Store
  <2>3. Store'.save = Store.save \/ Store'.save = moved.save
    BY <1>2, <1>3, <1>6, SavesKept DEF MigrateWrites, Names, Store
  <2>4. Counted'
    BY <1>1, <1>2, <1>4, <2>1, <2>2, <2>3 DEF OrderInv, Counted, Versions, Store
  <2>5. QED
    BY <1>1, <1>2, <1>4, <2>1, <2>2, <2>3, <2>4 DEF OrderInv, Ordered, HoldsStore, NotBefore
<1>7. QED
  BY <1>5, <1>6

LEMMA OrderStep == FileInv /\ OrderInv /\ [Next]_vars => OrderInv'
<1> SUFFICES ASSUME FileInv, OrderInv, [Next]_vars
             PROVE  OrderInv'
  OBVIOUS
<1>1. CASE Next
  BY <1>1, OrderKept, OrderRotated, OrderCopied, OrderSaved, OrderMigrated DEF Next
<1>2. CASE UNCHANGED vars
  BY <1>2
  DEF vars, serverVars, migrateVars, savedVars, OrderInv, Counted, Ordered, HoldsStore, NotBefore,
      Store
<1>3. QED
  BY <1>1, <1>2

LEMMA OrderIsTaken == FileInv /\ OrderInv => NewestIsTaken
<1> SUFFICES ASSUME FileInv, OrderInv, "overlapped" \notin mishaps,
                    NEW i \in 1 .. 5, NEW j \in 1 .. 5,
                    Takes(i), Loadable(Candidates[j])
             PROVE  file[Candidates[j]].save <= file[Candidates[i]].save
  BY DEF NewestIsTaken
<1>1. i <= j
  BY DEF Takes
<1>2. file[Candidates[i]] # None /\ file[Candidates[j]] # None
  BY DEF Takes, Loadable
<1>3. Candidates[i] # "bak1" /\ Candidates[j] # "bak1"
  BY <1>2 DEF FileInv, TypeOK
<1>4. CASE i = j
  <2>1. Candidates[i] \in Names
    BY DEF Candidates, Names
  <2>2. file[Candidates[i]].save \in Nat
    BY <1>2, <2>1, FilesAreContent DEF FileInv
  <2>3. QED
    BY <1>4, <2>2
<1>5. CASE i < j
  <2>1. Ordered
    BY DEF OrderInv
  <2>2. \/ Candidates[i] = "main" /\ Candidates[j] \in {"bak", "bak2", "bak3"}
        \/ Candidates[i] = "bak" /\ Candidates[j] \in {"bak2", "bak3"}
        \/ Candidates[i] = "bak2" /\ Candidates[j] = "bak3"
    BY <1>3, <1>5 DEF Candidates
  <2>3. QED
    BY <1>2, <2>1, <2>2 DEF Ordered, NotBefore, Store
<1>6. QED
  BY <1>1, <1>4, <1>5

\* What load() takes is the newest version that can be loaded, through any number of
\* saves, kills and failing file operations, unless the server saved while migrate.py
\* held an older version.
THEOREM NewestVersionIsTaken == Spec => []NewestIsTaken
<1>1. Init => OrderInv
  BY DEF Init, OrderInv, Counted, Ordered, HoldsStore, NotBefore, Store, Versions, Names
<1>2. Spec => []OrderInv
  BY <1>1, OrderStep, FilesInvariant, PTL DEF Spec
<1>3. QED
  BY <1>2, OrderIsTaken, FilesInvariant, PTL

-----------------------------------------------------------------------------
(* The four versions.  As long as nothing goes wrong the rotation, the     *)
(* copy and the save are one after the other, and each leaves the versions *)
(* where the next needs them.                                              *)

Is(n, k) == k >= 1 => Loadable(n) /\ file[n].save = k

AtRest == Is("bak", saves - 1) /\ Is("bak2", saves - 2) /\ Is("bak3", saves - 3)

History ==
  /\ Is("main", saves)
  /\ pc \in {"down", "up"} => AtRest
  /\ pc = "rotate" /\ step = 1 => AtRest
  /\ pc = "rotate" /\ step = 2 => Is("bak", saves - 1) /\ Is("bak2", saves - 2)
  /\ pc = "rotate" /\ step = 3 => Is("bak", saves - 1) /\ Is("bak3", saves - 2)
  /\ pc \in {"copy", "copying"} => Is("bak2", saves - 1) /\ Is("bak3", saves - 2)
  /\ pc = "write" => Is("bak", saves) /\ Is("bak2", saves - 1) /\ Is("bak3", saves - 2)

HistoryInv == mishaps = {} => History

\* Steps that leave the versions alone.
LEMMA HistoryLeft ==
  ASSUME FileInv, HistoryInv, mishaps' = {},
         \/ Start \/ Killed
         \/ MigrateReads \/ MigrateCopies \/ MigrateCopied \/ MigrateEnds
         \/ \E c \in Convs : Turn(c) \/ Expire(c)
  PROVE  History'
<1>1. /\ mishaps = {}
      /\ saves' = saves
      /\ \A n \in Versions : file'[n] = file[n]
      /\ \/ pc' = pc /\ step' = step
         \/ pc \in {"down", "up"} /\ pc' \in {"down", "up"}
  BY DEF Start, Killed, Turn, Expire, MigrateReads, MigrateCopies, MigrateCopied, MigrateEnds,
         migrateVars, savedVars, serverVars, FileInv, TypeOK, Names, Versions
<1>2. /\ Is("main", saves) => Is("main", saves)'
      /\ AtRest => AtRest'
      /\ Is("bak", saves - 1) => Is("bak", saves - 1)'
      /\ Is("bak2", saves - 2) => Is("bak2", saves - 2)'
      /\ Is("bak3", saves - 2) => Is("bak3", saves - 2)'
      /\ Is("bak2", saves - 1) => Is("bak2", saves - 1)'
      /\ Is("bak", saves) => Is("bak", saves)'
  BY <1>1 DEF AtRest, Is, Loadable, Versions
<1>3. History
  BY <1>1 DEF HistoryInv
<1>4. QED
  BY <1>1, <1>2, <1>3 DEF History

\* The server sets out to save: there is no store file only before the first save.
LEMMA HistoryShutdown ==
  ASSUME FileInv, HistoryInv, mishaps' = {}, Shutdown
  PROVE  History'
<1>1. /\ mishaps = {} /\ saves' = saves /\ file' = file /\ saves \in Nat
      /\ pc = "up"
      /\ \/ pc' = "rotate" /\ step' = 1
         \/ pc' = "write" /\ Store = None
  BY DEF Shutdown, savedVars, FileInv, TypeOK, Store
<1>2. Is("main", saves) /\ AtRest
  BY <1>1 DEF HistoryInv, History
<1>3. Is("main", saves)' /\ AtRest'
  BY <1>1, <1>2 DEF AtRest, Is, Loadable
<1>4. pc' = "write" => saves = 0
  BY <1>1, <1>2 DEF Is, Loadable, Store
<1>5. QED
  BY <1>1, <1>3, <1>4 DEF History, Is

\* A step of the rotation that succeeds.
LEMMA HistoryRotated ==
  ASSUME FileInv, HistoryInv, mishaps' = {}, Rotate
  PROVE  History'
<1>1. /\ mishaps = {} /\ saves' = saves /\ saves \in Nat
      /\ pc = "rotate" /\ step \in 1 .. 3
      /\ file' = IF file[Backups[Indices[step]]] = None THEN file ELSE Moved(Indices[step])
  BY DEF Rotate, FailWith, savedVars, FileInv, TypeOK
<1>2. History
  BY <1>1 DEF HistoryInv
<1>3. file \in [Names -> Content \cup {None}]
  BY DEF FileInv, TypeOK
<1>4. CASE step = 1
  <2>1. pc' = "rotate" /\ step' = 2
    BY <1>4 DEF Rotate
  <2>2. UNCHANGED <<file["main"], file["bak"], file["bak2"]>>
    BY <1>1, <1>3, <1>4 DEF Indices, Backups, Moved, Names
  <2>3. Is("main", saves)' /\ Is("bak", saves - 1)' /\ Is("bak2", saves - 2)'
    BY <1>1, <1>2, <1>4, <2>2 DEF History, AtRest, Is, Loadable
  <2>4. QED
    BY <2>1, <2>3 DEF History
<1>5. CASE step = 2
  <2>1. pc' = "rotate" /\ step' = 3
    BY <1>5 DEF Rotate
  <2>2. /\ UNCHANGED <<file["main"], file["bak"]>>
        /\ file["bak2"] # None => file'["bak3"] = file["bak2"]
    BY <1>1, <1>3, <1>5 DEF Indices, Backups, Moved, Names
  <2>3. Is("main", saves)' /\ Is("bak", saves - 1)' /\ Is("bak3", saves - 2)'
    BY <1>1, <1>2, <1>5, <2>2 DEF History, Is, Loadable
  <2>4. QED
    BY <2>1, <2>3 DEF History
<1>6. CASE step = 3
  <2>1. pc' = "copy"
    BY <1>6 DEF Rotate
  <2>2. /\ UNCHANGED <<file["main"], file["bak3"]>>
        /\ file["bak"] # None => file'["bak2"] = file["bak"]
    BY <1>1, <1>3, <1>6 DEF Indices, Backups, Moved, Names
  <2>3. Is("main", saves)' /\ Is("bak2", saves - 1)' /\ Is("bak3", saves - 2)'
    BY <1>1, <1>2, <1>6, <2>2 DEF History, Is, Loadable
  <2>4. QED
    BY <2>1, <2>3 DEF History
<1>7. QED
  BY <1>1, <1>4, <1>5, <1>6

LEMMA HistoryCopied ==
  ASSUME FileInv, HistoryInv, mishaps' = {}, CopyBegins \/ CopyEnds
  PROVE  History'
<1>1. /\ mishaps = {} /\ saves' = saves /\ saves \in Nat
      /\ pc \in {"copy", "copying"}
      /\ \/ pc' = "copying"
         \/ pc' = "write" /\ CopyEnds
  BY DEF CopyBegins, CopyEnds, savedVars, FileInv, TypeOK
<1>2. History
  BY <1>1 DEF HistoryInv
<1>3. file \in [Names -> Content \cup {None}]
  BY DEF FileInv, TypeOK
<1>4. /\ UNCHANGED <<file["main"], file["bak2"], file["bak3"]>>
      /\ CopyEnds => file'["bak"] = file["main"]
  BY <1>3 DEF CopyBegins, CopyEnds, Names
<1>5. /\ Is("main", saves)' /\ Is("bak2", saves - 1)' /\ Is("bak3", saves - 2)'
      /\ CopyEnds => Is("bak", saves)'
  BY <1>1, <1>2, <1>4 DEF History, Is, Loadable
<1>6. QED
  BY <1>1, <1>5 DEF History

LEMMA HistorySaved ==
  ASSUME FileInv, HistoryInv, mishaps' = {}, Replace
  PROVE  History'
<1>1. /\ mishaps = {} /\ saves' = saves + 1 /\ saves \in Nat
      /\ pc = "write" /\ pc' = "down"
  BY DEF Replace, SaveDone, FileInv, TypeOK
<1>2. History
  BY <1>1 DEF HistoryInv
<1>3. file \in [Names -> Content \cup {None}]
  BY DEF FileInv, TypeOK
<1>4. /\ UNCHANGED <<file["bak"], file["bak2"], file["bak3"]>>
      /\ file'["main"] = New
  BY <1>3 DEF Replace, Names
<1>5. /\ New \in Content /\ New.whole /\ ~New.migrated
      /\ New.save = saves + 1
  <2>1. saves < MaxSaves
    BY <1>1 DEF FileInv, RoomToSave
  <2>2. New.save = saves + 1
    BY DEF New
  <2>3. QED
    BY <2>1, <2>2, NewContent DEF FileInv
<1>6. Is("main", saves)'
  BY <1>1, <1>4, <1>5 DEF Is, Loadable
<1>7. AtRest'
  BY <1>1, <1>2, <1>4 DEF History, AtRest, Is, Loadable
<1>8. QED
  BY <1>1, <1>6, <1>7 DEF History

LEMMA HistoryStep == FileInv /\ HistoryInv /\ [Next]_vars => HistoryInv'
<1> SUFFICES ASSUME FileInv, HistoryInv, [Next]_vars, mishaps' = {}
             PROVE  History'
  BY DEF HistoryInv
<1>1. CASE Next
  <2>1. ~(CopyFails \/ WriteFails \/ MigrateCopyFails \/ MigrateTruncates)
    BY DEF CopyFails, WriteFails, MigrateCopyFails, MigrateTruncates, Truncate, FailWith
  <2>2. ~MigrateWrites
    BY DEF MigrateWrites, FileInv, TornByMigration
  <2>3. QED
    BY <1>1, <2>1, <2>2, HistoryLeft, HistoryShutdown, HistoryRotated, HistoryCopied, HistorySaved
    DEF Next
<1>2. CASE UNCHANGED vars
  BY <1>2
  DEF vars, serverVars, migrateVars, savedVars, HistoryInv, History, AtRest, Is, Loadable
<1>3. QED
  BY <1>1, <1>2

LEMMA HistoryIsKept == FileInv /\ HistoryInv => HistoryKept
<1> SUFFICES ASSUME FileInv, HistoryInv, mishaps = {}, pc \in {"down", "up"},
                    NEW k \in 1 .. saves, k + 4 > saves
             PROVE  \E n \in {"main", "bak", "bak2", "bak3"} : Loadable(n) /\ file[n].save = k
  BY DEF HistoryKept
<1>1. Is("main", saves) /\ AtRest
  BY DEF HistoryInv, History
<1>2. saves \in Nat
  BY DEF FileInv, TypeOK
<1>3. k \in {saves, saves - 1, saves - 2, saves - 3}
  BY <1>2
<1>4. QED
  BY <1>1, <1>2, <1>3 DEF AtRest, Is

\* As long as nothing is interrupted and nothing migrated, the last four saves are
\* all on disk and can be loaded.
THEOREM LastFourAreKept == Spec => []HistoryKept
<1>1. Init => HistoryInv
  BY DEF Init, HistoryInv, History, AtRest, Is
<1>2. Spec => []HistoryInv
  BY <1>1, HistoryStep, FilesInvariant, PTL DEF Spec
<1>3. QED
  BY <1>2, HistoryIsKept, FilesInvariant, PTL
=============================================================================
