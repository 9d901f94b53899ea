----------------------- MODULE DuplicateConsolidation -----------------------
(***************************************************************************)
(* Merging duplicates: several rows and files become one, under a recovery *)
(* journal of its own (app_runtime/src/duplicate_consolidation.rs), on the *)
(* metadata writer's thread, while the online scheduler may still fill     *)
(* rows.                                                                   *)
(*                                                                         *)
(* A file is an identity and the version of the tags it carries; a row has *)
(* the version it should carry and an intent to mirror it.  A directory    *)
(* entry and its directory sync are one step; a commit survives the        *)
(* process at once and a power failure after a checkpoint or flush.        *)
(***************************************************************************)
EXTENDS Naturals, FiniteSets, FiniteSetsExt

CONSTANTS
    Tracks,             \* track ids; a merge's entries are taken in id order
    NoFile, NoRow, NoMerge,
    MaxEdits,           \* bound: edits and fills of rows
    MaxMerges,          \* bound: merges requested
    MaxFaults,          \* bound: failing calls
    MaxCrashes,         \* bound: deaths of the process
    MaxPowerFailures    \* bound: power failures

\* The file the journal recorded, the staged survivor, or a later file.
Identities == {"orig", "stage", "new"}
File  == [id : Identities, tags : Nat]
Row   == [tags : Nat, intent : BOOLEAN]
Merge == [survivor : Tracks, selected : SUBSET Tracks, tags : Nat]

ASSUME DuplicateAssumption ==
    /\ Tracks \subseteq Nat /\ IsFiniteSet(Tracks)
    /\ NoFile \notin File /\ NoRow \notin Row /\ NoMerge \notin Merge
    /\ {MaxEdits, MaxMerges, MaxFaults, MaxCrashes, MaxPowerFailures} \subseteq Nat

VARIABLES
    src,      \* [Tracks -> File or NoFile]: what each track's path names
    dir,      \* the recovery directory exists
    bak,      \* [Tracks -> File or NoFile]: its backup-<i> links
    stage,    \* File or NoFile: its stage
    junk,     \* a removal left its handoff name in it
    journal,  \* Merge or NoMerge: the published journal
    db,       \* [Tracks -> Row or NoRow]: rows of the running database
    durable,  \* [Tracks -> Row or NoRow]: rows a power failure leaves
    app,      \* "stopped", "running", or "refused": startup failed and exited
    op,       \* what runs: "none", "startup" or "merge"
    phase,    \* "recovery", "merging" or "committed"
    plan,     \* Merge or NoMerge: the merge under way
    todo,     \* entries the current loop has not reached
    pc,       \* the next step
    edits, merges, faults, crashes, outages

recdir == <<dir, bak, stage, junk>>
disk   == <<src, recdir, journal>>
rows   == <<db, durable>>
bounds == <<edits, merges, faults, crashes, outages>>
vars   == <<disk, rows, app, op, phase, plan, todo, pc, bounds>>

Init ==
    /\ db = [t \in Tracks |-> [tags |-> 0, intent |-> FALSE]] /\ durable = db
    /\ src = [t \in Tracks |-> [id |-> "orig", tags |-> 0]]
    /\ dir = FALSE /\ bak = [t \in Tracks |-> NoFile] /\ stage = NoFile /\ junk = FALSE
    /\ journal = NoMerge /\ plan = NoMerge
    /\ app = "stopped" /\ op = "none" /\ phase = "recovery" /\ todo = {} /\ pc = "idle"
    /\ edits = 0 /\ merges = 0 /\ faults = 0 /\ crashes = 0 /\ outages = 0

Go(next)   == pc' = next /\ UNCHANGED <<app, op>>
Loop(next) == Go(next) /\ UNCHANGED <<phase, plan>>
Fault      == faults < MaxFaults /\ faults' = faults + 1
              /\ UNCHANGED <<edits, merges, crashes, outages>>

Survivor    == journal.survivor
Duplicates  == journal.selected \ {Survivor}
Head(t)     == t \in todo /\ t = Min(todo)
SameFile(f, g) == f # NoFile /\ g # NoFile /\ f.id = g.id
Present(f)     == f # NoFile

-----------------------------------------------------------------------------
(* recover_duplicate_consolidation_journal, on every start before the rows *)
(* are loaded and at the start of every merge.                             *)

Begin(kind) ==
    /\ op = "none" /\ op' = kind /\ phase' = "recovery" /\ pc' = "recover"
    /\ UNCHANGED <<disk, rows, app, plan, todo>>

SetLibraryServices ==
    /\ app # "running" /\ Begin("startup")
    /\ UNCHANGED bounds

\* The guards admit one merge at a time.
ConsolidateDuplicates ==
    /\ app = "running" /\ merges < MaxMerges /\ Begin("merge")
    /\ merges' = merges + 1
    /\ UNCHANGED <<edits, faults, crashes, outages>>

Exist(tracks) == \A t \in tracks : db[t] # NoRow
Gone(tracks)  == \A t \in tracks : db[t] = NoRow

\* Mutant of Recover: committed rows are not made durable again.
RecoverUnflushed ==
    /\ pc = "recover" /\ journal # NoMerge
    /\ \/ /\ Exist({Survivor}) /\ Gone(Duplicates)
          /\ UNCHANGED durable
          /\ todo' = Duplicates /\ Loop("cleanup")
       \/ /\ Exist(journal.selected)
          /\ todo' = journal.selected /\ Loop("rollback") /\ UNCHANGED durable
    /\ UNCHANGED <<disk, db, bounds>>

\* Committed rows are made durable and the files follow; uncommitted ones get
\* their files back; any other rows refuse recovery (the commit is one
\* transaction, so no run of this model finds them).
Recover ==
    /\ pc = "recover" /\ journal # NoMerge
    /\ IF Exist({Survivor}) /\ Gone(Duplicates)
       THEN durable' = db /\ todo' = Duplicates /\ Loop("cleanup")
       ELSE /\ UNCHANGED durable
            /\ IF Exist(journal.selected)
               THEN todo' = journal.selected /\ Loop("rollback")
               ELSE UNCHANGED todo /\ Loop("fail")
    /\ UNCHANGED <<disk, db, bounds>>

Recovered ==
    /\ pc = "recover" /\ journal = NoMerge
    /\ Loop(IF op = "startup" THEN "done" ELSE "plan")
    /\ UNCHANGED <<disk, rows, todo, bounds>>

-----------------------------------------------------------------------------
(* rollback_pre_commit and cleanup_committed.                              *)

\* Mutant of RollBack: an entry without a file is passed over.
RollBackPresent(t) ==
    /\ pc = "rollback" /\ Head(t)
    /\ IF ~Present(bak[t]) \/ SameFile(src[t], bak[t]) \/ ~Present(src[t])
       THEN todo' = todo \ {t} /\ Loop("rollback") /\ UNCHANGED src
       ELSE IF t = Survivor /\ SameFile(src[t], stage)
       THEN src' = [src EXCEPT ![t] = NoFile] /\ Loop("rollback") /\ UNCHANGED todo
       ELSE Loop("fail") /\ UNCHANGED <<src, todo>>
    /\ UNCHANGED <<recdir, journal, rows, bounds>>

\* An entry without a backup still has its source; one with its source in place
\* is left; a missing source is linked back; the survivor's staged replacement
\* is removed first.  Any other file stops the rollback.
RollBack(t) ==
    /\ pc = "rollback" /\ Head(t)
    /\ \/ /\ IF Present(bak[t]) THEN SameFile(src[t], bak[t]) ELSE Present(src[t])
          /\ todo' = todo \ {t} /\ Loop("rollback") /\ UNCHANGED src
       \/ /\ Present(bak[t]) /\ ~Present(src[t])
          /\ src' = [src EXCEPT ![t] = bak[t]]
          /\ todo' = todo \ {t} /\ Loop("rollback")
       \/ /\ Present(bak[t]) /\ t = Survivor /\ SameFile(src[t], stage)
          /\ src' = [src EXCEPT ![t] = NoFile]
          /\ Loop("rollback") /\ UNCHANGED todo
       \/ /\ IF Present(bak[t])
             THEN /\ Present(src[t]) /\ ~SameFile(src[t], bak[t])
                  /\ ~(t = Survivor /\ SameFile(src[t], stage))
             ELSE ~Present(src[t])
          /\ Loop("fail") /\ UNCHANGED <<src, todo>>
    /\ UNCHANGED <<recdir, journal, rows, bounds>>

\* Each duplicate must still have its backup, and its source must be that file
\* or be gone; the survivor must have a file.
CleanUp(t) ==
    /\ pc = "cleanup" /\ Head(t)
    /\ IF /\ Present(src[Survivor]) /\ Present(bak[t])
          /\ Present(src[t]) => SameFile(src[t], bak[t])
       THEN /\ src' = [src EXCEPT ![t] = NoFile]
            /\ todo' = todo \ {t} /\ Loop("cleanup")
       ELSE Loop("fail") /\ UNCHANGED <<src, todo>>
    /\ UNCHANGED <<recdir, journal, rows, bounds>>

\* Mutant of Reconciled: the journal goes before its recovery directory.
ReconciledUnswept ==
    /\ pc \in {"rollback", "cleanup"} /\ todo = {}
    /\ Loop("unjournal")
    /\ UNCHANGED <<disk, rows, todo, bounds>>

Reconciled ==
    /\ pc \in {"rollback", "cleanup"} /\ todo = {}
    /\ Loop(IF dir THEN "sweep" ELSE "unjournal")
    /\ UNCHANGED <<disk, rows, todo, bounds>>

\* cleanup_recovery_files: the stage, each backup, then the directory, which
\* must be empty.
RemoveStage ==
    /\ pc = "sweep" /\ Present(stage)
    /\ stage' = NoFile
    /\ Loop("sweep")
    /\ UNCHANGED <<src, dir, bak, junk, journal, rows, todo, bounds>>

Backups == {t \in Tracks : Present(bak[t])}

RemoveBackup(t) ==
    /\ pc = "sweep" /\ ~Present(stage) /\ t \in Backups /\ t = Min(Backups)
    /\ bak' = [bak EXCEPT ![t] = NoFile]
    /\ Loop("sweep")
    /\ UNCHANGED <<src, dir, stage, junk, journal, rows, todo, bounds>>

RemoveDirectory ==
    /\ pc = "sweep" /\ ~Present(stage) /\ Backups = {}
    /\ dir' = junk
    /\ Loop(IF junk THEN "fail" ELSE "unjournal")
    /\ UNCHANGED <<src, bak, stage, junk, journal, rows, todo, bounds>>

\* A recovered merge is planned anew; a rolled back one returns its error.
\* Without a journal no file's identity is recorded any more.
RemoveJournal ==
    /\ pc = "unjournal"
    /\ journal' = NoMerge
    /\ src' = [t \in Tracks |-> IF src[t] = NoFile THEN NoFile
                                ELSE [src[t] EXCEPT !.id = "orig"]]
    /\ Loop(CASE phase = "recovery"  -> "recover"
              [] phase = "merging"   -> "fail"
              [] phase = "committed" -> "done")
    /\ UNCHANGED <<recdir, rows, todo, bounds>>

-----------------------------------------------------------------------------
(* consolidate_duplicate_tracks                                            *)

\* The rows are read once; two or more of them, whose files are all there, are
\* merged into one of them, each value being taken from one of them.
PlanMerge(s, selected, reference) ==
    /\ pc = "plan" /\ {s, reference} \subseteq selected /\ Cardinality(selected) >= 2
    /\ Exist(selected) /\ \A t \in selected : Present(src[t])
    /\ plan' = [survivor |-> s, selected |-> selected, tags |-> db[reference].tags]
    /\ phase' = "merging"
    /\ Go("journal")
    /\ UNCHANGED <<disk, rows, todo, bounds>>

PlanRejected ==
    /\ pc = "plan"
    /\ Loop("fail")
    /\ UNCHANGED <<disk, rows, todo, bounds>>

WriteJournal ==
    /\ pc = "journal"
    /\ journal' = plan /\ todo' = plan.selected
    /\ Loop("link")
    /\ UNCHANGED <<src, recdir, rows, bounds>>

\* run_pre_commit: every selected file gets a second name,
LinkBackup(t) ==
    /\ pc = "link" /\ Head(t)
    /\ dir' = TRUE /\ bak' = [bak EXCEPT ![t] = src[t]]
    /\ todo' = todo \ {t}
    /\ Loop("link")
    /\ UNCHANGED <<src, stage, junk, journal, rows, bounds>>

\* the survivor is copied, tagged and verified,
StageSurvivor ==
    /\ pc = "link" /\ todo = {}
    /\ stage' = [id |-> "stage", tags |-> journal.tags]
    /\ Loop("unlink")
    /\ UNCHANGED <<src, dir, bak, junk, journal, rows, todo, bounds>>

\* the survivor's path loses the original and gets the stage,
RemoveOriginal ==
    /\ pc = "unlink"
    /\ src' = [src EXCEPT ![Survivor] = NoFile]
    /\ Loop("replace")
    /\ UNCHANGED <<recdir, journal, rows, todo, bounds>>

LinkStage ==
    /\ pc = "replace"
    /\ src' = [src EXCEPT ![Survivor] = stage]
    /\ todo' = Duplicates
    /\ Loop("remove")
    /\ UNCHANGED <<recdir, journal, rows, bounds>>

\* the duplicates' paths go,
RemoveDuplicate(t) ==
    /\ pc = "remove" /\ Head(t)
    /\ src' = [src EXCEPT ![t] = NoFile]
    /\ todo' = todo \ {t}
    /\ Loop("remove")
    /\ UNCHANGED <<recdir, journal, rows, bounds>>

\* Mutant of Commit: the survivor keeps what its row has, its intent goes.
CommitKeeping ==
    /\ pc = "remove" /\ todo = {}
    /\ db' = [t \in Tracks |-> IF t = Survivor THEN [db[t] EXCEPT !.intent = FALSE]
                               ELSE IF t \in Duplicates THEN NoRow ELSE db[t]]
    /\ phase' = "committed" /\ Go("flush")
    /\ UNCHANGED <<disk, durable, plan, todo, bounds>>

\* and one transaction writes the survivor as planned, drops its intent to
\* mirror and deletes the other rows.
Commit ==
    /\ pc = "remove" /\ todo = {}
    /\ db' = [t \in Tracks |-> IF t = Survivor THEN [tags |-> journal.tags, intent |-> FALSE]
                               ELSE IF t \in Duplicates THEN NoRow ELSE db[t]]
    /\ phase' = "committed" /\ Go("flush")
    /\ UNCHANGED <<disk, durable, plan, todo, bounds>>

\* Mutant of FlushDurable: the barrier is skipped.
FlushNothing ==
    /\ pc = "flush"
    /\ todo' = Duplicates
    /\ Loop("cleanup")
    /\ UNCHANGED <<disk, rows, bounds>>

FlushDurable ==
    /\ pc = "flush"
    /\ durable' = db /\ todo' = Duplicates
    /\ Loop("cleanup")
    /\ UNCHANGED <<disk, db, bounds>>

-----------------------------------------------------------------------------
(* Failures.                                                               *)

\* A failure before the commit rolls the files back; any other ends the
\* operation, and the journal stays if it was published.
Failed ==
    IF phase = "merging" /\ pc \in {"link", "unlink", "replace", "remove"}
    THEN todo' = journal.selected /\ Loop("rollback")
    ELSE UNCHANGED todo /\ Loop("fail")

\* A call fails and changes nothing.
CallFails ==
    /\ pc \notin {"idle", "done", "fail"} /\ Fault
    /\ Failed
    /\ UNCHANGED <<disk, rows>>

\* The journal is published, and the sync after it fails.
JournalFails ==
    /\ pc = "journal" /\ Fault
    /\ journal' = plan
    /\ Loop("fail")
    /\ UNCHANGED <<src, recdir, rows, todo>>

Undo(t) == pc = "rollback" /\ t = Survivor /\ SameFile(src[t], stage)

\* The file whose name the current step takes away.
Removing ==
    [source |-> {t \in Tracks : \/ pc = "unlink" /\ t = Survivor
                                \/ pc = "remove" /\ Head(t)
                                \/ pc = "cleanup" /\ Head(t) /\ SameFile(src[t], bak[t])
                                \/ Head(t) /\ Undo(t)},
     backup |-> IF pc = "sweep" /\ ~Present(stage) /\ Backups # {} THEN {Min(Backups)} ELSE {},
     stage  |-> pc = "sweep" /\ Present(stage)]

\* remove_regular_file_matching_capability stops after the rename to its
\* handoff name, which stays.
HandOffLeft ==
    /\ src' = [t \in Tracks |-> IF t \in Removing.source THEN NoFile ELSE src[t]]
    /\ bak' = [t \in Tracks |-> IF t \in Removing.backup THEN NoFile ELSE bak[t]]
    /\ stage' = IF Removing.stage THEN NoFile ELSE stage
    /\ junk' = (junk \/ Removing.stage \/ Removing.backup # {})
    /\ UNCHANGED <<dir, journal>>

RemovalFails ==
    /\ Removing.source # {} \/ Removing.backup # {} \/ Removing.stage
    /\ Fault
    /\ HandOffLeft
    /\ Failed
    /\ UNCHANGED rows

\* The result's failure to clean up is only reported; a failed start ends the
\* process.
Finish ==
    /\ pc \in {"done", "fail"}
    /\ app' = IF op = "startup" THEN IF pc = "done" THEN "running" ELSE "refused" ELSE app
    /\ op' = "none" /\ pc' = "idle" /\ phase' = "recovery" /\ plan' = NoMerge /\ todo' = {}
    /\ UNCHANGED <<disk, rows, bounds>>

-----------------------------------------------------------------------------
(* The surroundings.                                                       *)

\* An edit between operations, or at any time a fill by the online scheduler.
EditRow(t) ==
    /\ app = "running" /\ edits < MaxEdits /\ db[t] # NoRow
    /\ edits' = edits + 1
    /\ db' = [db EXCEPT ![t] = [tags |-> edits', intent |-> TRUE]]
    /\ UNCHANGED <<disk, durable, app, op, phase, plan, todo, pc, merges, faults, crashes,
                   outages>>

\* The metadata writer, when no merge keeps its thread, rewrites the file.
MirrorTags(t) ==
    /\ app = "running" /\ op = "none" /\ db[t] # NoRow
    /\ db[t].intent /\ Present(src[t])
    /\ db' = [db EXCEPT ![t].intent = FALSE]
    /\ src' = [src EXCEPT ![t] = [id |-> IF journal = NoMerge THEN "orig" ELSE "new",
                                  tags |-> db[t].tags]]
    /\ UNCHANGED <<recdir, journal, durable, app, op, phase, plan, todo, pc, bounds>>

Checkpoint ==
    /\ durable # db
    /\ durable' = db
    /\ UNCHANGED <<disk, db, app, op, phase, plan, todo, pc, bounds>>

Stop ==
    /\ app = "running" \/ op = "startup"
    /\ app' = "stopped" /\ op' = "none" /\ pc' = "idle" /\ phase' = "recovery"
    /\ plan' = NoMerge /\ todo' = {}
    /\ HandOffLeft \/ UNCHANGED disk
    /\ UNCHANGED <<edits, merges, faults>>

\* The process dies, between two steps or within a removal.
Crash ==
    /\ crashes < MaxCrashes /\ Stop
    /\ crashes' = crashes + 1
    /\ UNCHANGED <<rows, outages>>

\* Power fails: the rows are those of the last checkpoint or flush.
PowerFailure ==
    /\ outages < MaxPowerFailures /\ Stop
    /\ outages' = outages + 1
    /\ db' = durable
    /\ UNCHANGED <<durable, crashes>>

Step ==
    \/ Recover \/ Recovered \/ Reconciled \/ RemoveStage \/ RemoveDirectory
    \/ RemoveJournal \/ PlanRejected \/ WriteJournal \/ StageSurvivor
    \/ RemoveOriginal \/ LinkStage \/ Commit \/ FlushDurable
    \/ CallFails \/ JournalFails \/ RemovalFails \/ Finish
    \/ \E t \in Tracks :
          \/ RollBack(t) \/ CleanUp(t) \/ RemoveBackup(t) \/ LinkBackup(t)
          \/ RemoveDuplicate(t)
          \/ \E selected \in SUBSET Tracks, reference \in Tracks :
                PlanMerge(t, selected, reference)

Next ==
    \/ SetLibraryServices \/ ConsolidateDuplicates
    \/ Step
    \/ \E t \in Tracks : EditRow(t) \/ MirrorTags(t)
    \/ Checkpoint \/ Crash \/ PowerFailure

Spec == Init /\ [][Next]_vars

-----------------------------------------------------------------------------
\* Every variable has its type; a recovery directory is always a journal's,
\* and a link or leftover in it is in a directory that exists.
TypeOK ==
    /\ {src, bak} \subseteq [Tracks -> File \union {NoFile}]
    /\ stage \in File \union {NoFile} /\ {dir, junk} \subseteq BOOLEAN
    /\ {db, durable} \subseteq [Tracks -> Row \union {NoRow}]
    /\ \A m \in {journal, plan} : m = NoMerge \/ m \in Merge
    /\ app \in {"stopped", "running", "refused"} /\ op \in {"none", "startup", "merge"}
    /\ phase \in {"recovery", "merging", "committed"} /\ todo \subseteq Tracks
    /\ pc \in {"idle", "recover", "rollback", "cleanup", "sweep", "unjournal", "plan",
               "journal", "link", "unlink", "replace", "remove", "flush", "done", "fail"}
    /\ {edits, merges, faults, crashes, outages} \subseteq Nat
    /\ dir => journal # NoMerge
    /\ Backups # {} \/ Present(stage) \/ junk => dir

\* Whatever fails, and whenever the process or the power does: each row there
\* is, or that a power failure would bring back, has its audio at its path or
\* under its backup's name (flush_durable before cleanup_committed).
NoAudioLost ==
    \A t \in Tracks : db[t] # NoRow \/ durable[t] # NoRow => Present(src[t]) \/ Present(bak[t])

\* A merge happens entirely or not at all: once its journal is gone, exactly
\* the tracks with a row have a file, also after a power failure, and no
\* recovery directory is left.
AllOrNothing ==
    journal = NoMerge /\ op = "none" =>
        /\ \A t \in Tracks, r \in {db, durable} : r[t] # NoRow <=> Present(src[t])
        /\ ~dir

\* After every merge, rollback and recovery a file carries its row's tags or
\* an intent says it will, whatever was filled meanwhile; a power failure,
\* which takes back rows but not tags, is left out.
MirrorConsistent ==
    journal = NoMerge /\ op = "none" /\ outages = 0 =>
        \A t \in Tracks : db[t] # NoRow /\ Present(src[t]) =>
            db[t].intent \/ src[t].tags = db[t].tags

\* "An interrupted merge is recovered before library hydration on the next
\* launch" (docs/features.md:214-215): a start never fails on its journal.
InterruptedMergeRecovered == app # "refused"
=============================================================================
