-------------------------- MODULE AudioPublication --------------------------
(***************************************************************************)
(* The two operations that publish a new audio file and then bind a row to *)
(* it, each under a journal of its own: the CD import, which adds a row    *)
(* (app_runtime/src/cd_import/{task,journal}.rs), and the replacement of a *)
(* track's audio from YouTube, which rebinds one                           *)
(* (app_runtime/src/youtube_audio_{replacement,journal}.rs).  The          *)
(* runtime's guards let one of them run at a time.                         *)
(*                                                                         *)
(* A file is the serial number of its creation or last rewriting, which    *)
(* stands for its inode and for its content; 0 is no file.  A directory    *)
(* entry and its directory sync are one step; a commit survives the        *)
(* process at once and a power failure after a checkpoint or flush.        *)
(***************************************************************************)
EXTENDS Naturals, FiniteSets, FiniteSetsExt

CONSTANTS
    Ids,             \* track ids: a finite set of positive numbers
    Paths,           \* places in the library
    NoPath, NoReplacement,
    MaxOperations,   \* bound: imports and replacements begun
    MaxPlans,        \* bound: tracks one import takes from the disc
    MaxRewrites,     \* bound: files rewritten by the tag mirror
    MaxRemovals,     \* bound: rows removed by the user
    MaxFaults,       \* bound: failing calls
    MaxStops         \* bound: crashes and power failures

Serial      == Nat
Replacement == [track : Ids, original : Serial, from : Paths, copy : Serial, to : Paths]

ASSUME PublicationAssumption ==
    /\ Ids \subseteq Nat \ {0} /\ IsFiniteSet(Ids) /\ 1 \in Ids
    /\ NoPath \notin Paths /\ NoReplacement \notin Replacement
    /\ {MaxOperations, MaxPlans, MaxRewrites, MaxRemovals, MaxFaults, MaxStops} \subseteq Nat

VARIABLES
    fs,        \* [Paths -> Serial]
    staging,   \* a rip's unpublished file exists
    cdj,       \* destination in .sustain-cd-import-journal, or NoPath
    ytj,       \* .sustain-youtube-replacement-journal, or NoReplacement
    db,        \* [Ids -> Paths or NoPath]: rows of the running database
    durable,   \* [Ids -> Paths or NoPath]: rows a power failure leaves
    app,       \* "stopped", "running", or "refused": startup failed and exited
    op,        \* "none", "startup", "cd" or "youtube"
    job,       \* the replacement under way, or NoReplacement
    cd,        \* [id, path, left]: the track being imported, and how many follow
    pc,        \* the next step
    left,      \* history: files left without a row on purpose
    serial,    \* the last file's number
    operations, rewrites, removals, faults, stops

disk   == <<fs, staging, cdj, ytj, serial>>
rows   == <<db, durable>>
bounds == <<operations, rewrites, removals, faults, stops>>
vars   == <<disk, rows, app, op, job, cd, pc, left, bounds>>

NoImport == [id |-> 0, path |-> NoPath, left |-> 0]
Rows     == {t \in Ids : db[t] # NoPath}
HasRow(p) == \E t \in Rows : db[t] = p
NextId   == Max({0} \union Rows) + 1

Init ==
    /\ \E p \in Paths :
          /\ db = [t \in Ids |-> IF t = 1 THEN p ELSE NoPath]
          /\ fs = [q \in Paths |-> IF q = p THEN 1 ELSE 0]
    /\ durable = db /\ staging = FALSE /\ cdj = NoPath /\ ytj = NoReplacement
    /\ app = "stopped" /\ op = "none" /\ job = NoReplacement /\ cd = NoImport /\ pc = "idle"
    /\ left = {} /\ serial = 1
    /\ operations = 0 /\ rewrites = 0 /\ removals = 0 /\ faults = 0 /\ stops = 0

Go(next) == pc' = next /\ UNCHANGED <<app, op>>
End      == Go("end")
Fault    == faults < MaxFaults /\ faults' = faults + 1
            /\ UNCHANGED <<operations, rewrites, removals, stops>>
Flush    == durable' = db /\ UNCHANGED db

\* A file that appears under a name; a name taken away.
Create(p) == serial' = serial + 1 /\ fs' = [fs EXCEPT ![p] = serial']
Without(p) == [fs EXCEPT ![p] = 0]

-----------------------------------------------------------------------------
(* Startup: recover_youtube_replacement_journal.  A CD import's journal is *)
(* left to the next import.                                                *)

SetLibraryServices ==
    /\ op = "none" /\ app # "running"
    /\ op' = "startup" /\ pc' = "recover"
    /\ UNCHANGED <<disk, rows, app, job, cd, left, bounds>>

\* Mutant of OriginalStands: the copy must have been published.
OriginalStandsWithCopy == /\ db[ytj.track] = ytj.from /\ fs[ytj.from] = ytj.original
                          /\ fs[ytj.to] = ytj.copy

\* What the row is bound to must be there, and nothing else at the copy's name.
OriginalStands == /\ db[ytj.track] = ytj.from /\ fs[ytj.from] = ytj.original
                  /\ fs[ytj.to] \in {0, ytj.copy}
CopyStands     == db[ytj.track] = ytj.to /\ fs[ytj.to] = ytj.copy

\* The row still has its original: the copy goes, if it was published.
RecoverOriginal ==
    /\ pc = "recover" /\ ytj # NoReplacement /\ OriginalStands
    /\ fs' = Without(ytj.to)
    /\ Flush /\ Go("unjournal")
    /\ UNCHANGED <<staging, cdj, ytj, serial, job, cd, left, bounds>>

\* The row has the copy: the original stays, if it is still there.
RecoverReplacement ==
    /\ pc = "recover" /\ ytj # NoReplacement /\ CopyStands
    /\ left' = left \union ({fs[ytj.from]} \ {0})
    /\ Flush /\ Go("unjournal")
    /\ UNCHANGED <<disk, job, cd, bounds>>

\* Anything else refuses the start.
RecoveryRefuses ==
    /\ pc = "recover" /\ ytj # NoReplacement /\ ~OriginalStands /\ ~CopyStands
    /\ Go("refuse")
    /\ UNCHANGED <<disk, rows, job, cd, left, bounds>>

NothingToRecover ==
    /\ pc = "recover" /\ ytj = NoReplacement
    /\ End
    /\ UNCHANGED <<disk, rows, job, cd, left, bounds>>

-----------------------------------------------------------------------------
(* The replacement: the download, then one command of the metadata writer. *)

\* request_youtube_audio_replacement; the guards see it until it ends.
RequestReplacement ==
    /\ app = "running" /\ op = "none" /\ operations < MaxOperations
    /\ operations' = operations + 1
    /\ op' = "youtube" /\ pc' = "download"
    /\ UNCHANGED <<disk, rows, app, job, cd, left, rewrites, removals, faults, stops>>

\* Places that no row has and where nothing is.
Free == {p \in Paths : fs[p] = 0 /\ ~HasRow(p)}

\* The original is opened, the staged audio tagged like it, and a place chosen.
PlanReplacement(t, p) ==
    /\ pc = "download" /\ t \in Rows /\ fs[db[t]] # 0 /\ p \in Free
    /\ job' = [track |-> t, original |-> fs[db[t]], from |-> db[t],
               copy |-> serial + 1, to |-> p]
    /\ Go("journal")
    /\ UNCHANGED <<disk, rows, cd, left, bounds>>

\* Mutant of WriteReplacement: the journal is not published.
WriteNoReplacement ==
    /\ pc = "journal"
    /\ Go("copy")
    /\ UNCHANGED <<disk, rows, job, cd, left, bounds>>

\* write_youtube_replacement_journal: refused while another journal is there.
WriteReplacement ==
    /\ pc = "journal"
    /\ IF ytj = NoReplacement /\ fs[job.from] = job.original /\ fs[job.to] = 0
       THEN ytj' = job /\ Go("copy")
       ELSE UNCHANGED ytj /\ End
    /\ UNCHANGED <<fs, staging, cdj, serial, rows, job, cd, left, bounds>>

CopyVerified ==
    /\ pc = "copy"
    /\ Create(job.to)
    /\ Go("rebind")
    /\ UNCHANGED <<staging, cdj, ytj, rows, job, cd, left, bounds>>

\* replace_track_audio
RebindRow ==
    /\ pc = "rebind"
    /\ db' = [db EXCEPT ![job.track] = job.to]
    /\ Go("flush")
    /\ UNCHANGED <<disk, durable, job, cd, left, bounds>>

\* Mutant of FlushRebound: the barrier is skipped.
FlushReboundNever ==
    /\ pc = "flush"
    /\ Go("trash")
    /\ UNCHANGED <<disk, rows, job, cd, left, bounds>>

FlushRebound ==
    /\ pc = "flush"
    /\ Flush /\ Go("trash")
    /\ UNCHANGED <<disk, job, cd, left, bounds>>

\* The original goes to the trash if it is still that file, or is retained.
TrashOriginal ==
    /\ pc = "trash"
    /\ \/ /\ fs[job.from] = job.original
          /\ fs' = Without(job.from)
          /\ UNCHANGED <<left, bounds>>
       \/ /\ fs[job.from] # job.original \/ faults < MaxFaults
          /\ left' = left \union ({fs[job.from]} \ {0})
          /\ faults' = IF fs[job.from] = job.original THEN faults + 1 ELSE faults
          /\ UNCHANGED <<fs, operations, rewrites, removals, stops>>
    /\ Go("unjournal")
    /\ UNCHANGED <<staging, cdj, ytj, serial, rows, job, cd>>

\* remove_youtube_replacement_journal_if_present
RemoveReplacement ==
    /\ pc = "unjournal"
    /\ ytj' = NoReplacement
    /\ End
    /\ UNCHANGED <<fs, staging, cdj, serial, rows, job, cd, left, bounds>>

\* A failing copy may have been published; the journal goes only if it was not.
CopyFails ==
    /\ pc = "copy" /\ Fault
    /\ \/ ytj' \in {ytj, NoReplacement} /\ UNCHANGED <<fs, serial>>
       \/ Create(job.to) /\ UNCHANGED ytj
    /\ End
    /\ UNCHANGED <<staging, cdj, rows, job, cd, left>>

\* Any other failure ends the operation, or the start; a journal stays.  Recovery
\* may have flushed the row by then, and removed the copy.
ReplacementFails ==
    /\ \/ pc = "download" /\ UNCHANGED <<fs, durable, bounds>>
       \/ /\ pc \in {"recover", "journal", "rebind", "flush", "unjournal"} /\ Fault
          /\ UNCHANGED <<fs, durable>>
       \/ /\ pc = "recover" /\ ytj # NoReplacement /\ (OriginalStands \/ CopyStands) /\ Fault
          /\ durable' = db
          /\ fs' = fs \/ (OriginalStands /\ fs' = Without(ytj.to))
    /\ Go(IF op = "startup" THEN "refuse" ELSE "end")
    /\ UNCHANGED <<staging, cdj, ytj, serial, db, job, cd, left>>

-----------------------------------------------------------------------------
(* run_cd_import_task                                                      *)

\* prepare_cd_import, from the rows the runtime has, for some of the disc.
PrepareCdImport(n) ==
    /\ app = "running" /\ op = "none" /\ operations < MaxOperations
    /\ operations' = operations + 1
    /\ op' = "cd" /\ pc' = "recovercd"
    /\ cd' = [id |-> NextId, path |-> NoPath, left |-> n]
    /\ UNCHANGED <<disk, rows, app, job, left, rewrites, removals, faults, stops>>

\* Mutant of RecoverCdImport: the published file stays.
RecoverCdImportKeeping ==
    /\ pc = "recovercd"
    /\ cdj' = NoPath /\ staging' = FALSE
    /\ Go("rip")
    /\ UNCHANGED <<fs, ytj, serial, rows, job, cd, left, bounds>>

\* journal::recover: a published file without a row is deleted.
RecoverCdImport ==
    /\ pc = "recovercd"
    /\ IF cdj = NoPath THEN UNCHANGED <<fs, staging, cdj>>
       ELSE /\ fs' = IF HasRow(cdj) THEN fs ELSE Without(cdj)
            /\ staging' = FALSE /\ cdj' = NoPath
    /\ Go("rip")
    /\ UNCHANGED <<ytj, serial, rows, job, cd, left, bounds>>

\* The disc is there, a place is chosen, the track encoded, tagged and read.
Rip(p) ==
    /\ pc = "rip" /\ cd.left > 0 /\ p \in Free /\ cd.id \in Ids
    /\ cd' = [cd EXCEPT !.path = p]
    /\ staging' = TRUE
    /\ Go("pending")
    /\ UNCHANGED <<fs, cdj, ytj, serial, rows, job, left, bounds>>

\* Nothing is left to rip, or a cancellation, a swapped disc or a failure in
\* ripping, which removes its staging file.
RipEnds ==
    /\ pc = "rip"
    /\ End
    /\ UNCHANGED <<disk, rows, job, cd, left, bounds>>

\* publish_and_commit: write_pending overwrites what journal there is,
WritePending ==
    /\ pc = "pending"
    /\ cdj' = cd.path
    /\ Go("move")
    /\ UNCHANGED <<fs, staging, ytj, serial, rows, job, cd, left, bounds>>

MoveStaging ==
    /\ pc = "move" /\ fs[cd.path] = 0
    /\ Create(cd.path) /\ staging' = FALSE
    /\ Go("save")
    /\ UNCHANGED <<cdj, ytj, rows, job, cd, left, bounds>>

SaveTrack ==
    /\ pc = "save"
    /\ db' = [db EXCEPT ![cd.id] = cd.path]
    /\ Go("sync")
    /\ UNCHANGED <<disk, durable, job, cd, left, bounds>>

FlushImported ==
    /\ pc = "sync"
    /\ Flush /\ Go("clear")
    /\ UNCHANGED <<disk, job, cd, left, bounds>>

\* clear_pending, whose failure is ignored, and the next track.
ClearPending ==
    /\ pc = "clear"
    /\ \/ cdj' = NoPath /\ UNCHANGED bounds
       \/ Fault /\ UNCHANGED cdj
    /\ cd' = [id |-> cd.id + 1, path |-> NoPath, left |-> cd.left - 1]
    /\ Go("rip")
    /\ UNCHANGED <<fs, staging, ytj, serial, rows, job, left>>

\* A failure before the file is published removes the staging file and clears
\* the journal, except that of write_pending; one after it deletes the row and
\* the file and clears the journal; failures in these are ignored.
ImportFails ==
    /\ Fault
    /\ \/ pc \in {"recovercd", "pending"} /\ UNCHANGED <<fs, staging, cdj, db>>
       \/ pc = "move" /\ staging' = FALSE /\ cdj' \in {NoPath, cdj} /\ UNCHANGED <<fs, db>>
       \/ /\ pc \in {"save", "sync"}
          /\ db' \in {db, [db EXCEPT ![cd.id] = NoPath]}
          /\ fs' \in {fs, Without(cd.path)}
          /\ cdj' \in {cdj, NoPath} /\ UNCHANGED staging
    /\ End
    /\ UNCHANGED <<ytj, serial, durable, job, cd, left>>

-----------------------------------------------------------------------------
(* The surroundings.                                                       *)

\* The operation's result is applied; a refused start ends the process.
Finish ==
    /\ pc \in {"end", "refuse"}
    /\ app' = IF pc = "refuse" THEN "refused" ELSE "running"
    /\ op' = "none" /\ pc' = "idle" /\ job' = NoReplacement /\ cd' = NoImport
    /\ UNCHANGED <<disk, rows, left, bounds>>

\* The tag mirror rewrites a row's file, unless its thread is replacing audio.
MirrorTags(t) ==
    /\ app = "running" /\ rewrites < MaxRewrites
    /\ op \in {"none", "cd"} \/ pc = "download"
    /\ t \in Rows /\ fs[db[t]] # 0
    /\ rewrites' = rewrites + 1
    /\ Create(db[t])
    /\ UNCHANGED <<staging, cdj, ytj, rows, app, op, job, cd, pc, left, operations, removals,
                   faults, stops>>

\* remove_track_from_library deletes the row and leaves the file.
RemoveTrackFromLibrary(t) ==
    /\ app = "running" /\ op = "none" /\ removals < MaxRemovals /\ t \in Rows
    /\ removals' = removals + 1
    /\ db' = [db EXCEPT ![t] = NoPath]
    /\ left' = left \union ({fs[db[t]]} \ {0})
    /\ UNCHANGED <<disk, durable, app, op, job, cd, pc, operations, rewrites, faults, stops>>

Checkpoint ==
    /\ durable # db
    /\ Flush
    /\ UNCHANGED <<disk, app, op, job, cd, pc, left, bounds>>

\* The process dies, or the power fails and takes back what no checkpoint had;
\* files whose row returns are a row's again.
Crash ==
    /\ stops < MaxStops /\ (app = "running" \/ op = "startup")
    /\ stops' = stops + 1
    /\ app' = "stopped" /\ op' = "none" /\ pc' = "idle"
    /\ job' = NoReplacement /\ cd' = NoImport
    /\ db' \in {db, durable}
    /\ left' = left \ {fs[db'[t]] : t \in {u \in Ids : db'[u] # NoPath}}
    /\ UNCHANGED <<disk, durable, operations, rewrites, removals, faults>>

Next ==
    \/ SetLibraryServices \/ RequestReplacement
    \/ RecoverOriginal \/ RecoverReplacement \/ RecoveryRefuses \/ NothingToRecover
    \/ \E t \in Ids : MirrorTags(t) \/ RemoveTrackFromLibrary(t)
                       \/ \E p \in Paths : PlanReplacement(t, p)
    \/ WriteReplacement \/ CopyVerified \/ RebindRow \/ FlushRebound \/ TrashOriginal
    \/ RemoveReplacement \/ CopyFails \/ ReplacementFails
    \/ \E n \in 1..MaxPlans : PrepareCdImport(n)
    \/ \E p \in Paths : Rip(p)
    \/ RecoverCdImport \/ RipEnds \/ WritePending \/ MoveStaging \/ SaveTrack
    \/ FlushImported \/ ClearPending \/ ImportFails
    \/ Finish \/ Checkpoint \/ Crash

Spec == Init /\ [][Next]_vars

-----------------------------------------------------------------------------
\* Every variable has its type, and each publication is under its journal
\* until its row is durable.
TypeOK ==
    /\ fs \in [Paths -> Serial] /\ serial \in Serial /\ staging \in BOOLEAN
    /\ cdj \in Paths \union {NoPath} /\ ytj \in Replacement \union {NoReplacement}
    /\ {db, durable} \subseteq [Ids -> Paths \union {NoPath}]
    /\ app \in {"stopped", "running", "refused"}
    /\ op \in {"none", "startup", "youtube", "cd"}
    /\ job \in Replacement \union {NoReplacement}
    /\ cd \in [id : Nat, path : Paths \union {NoPath}, left : Nat]
    /\ left \subseteq Serial
    /\ pc \in {"idle", "recover", "refuse", "download", "journal", "copy", "rebind", "flush",
               "trash", "unjournal", "recovercd", "rip", "pending", "move", "save", "sync",
               "clear", "end"}
    /\ {operations, rewrites, removals, faults, stops} \subseteq Nat
    /\ pc \in {"copy", "rebind", "flush", "trash"} => ytj = job
    /\ pc \in {"move", "save", "sync"} => cdj = cd.path

Unfailing == faults = 0
BoundTo(p, r) == \E t \in Ids : r[t] = p

\* While no call fails, wherever the process or the power stops: a row, as it is
\* and as a power failure would leave it, has its file.  (Rows the user removed
\* may come back without one.)
RowsFindFiles ==
    Unfailing /\ removals = 0 =>
        \A r \in {db, durable}, t \in Ids : r[t] # NoPath => fs[r[t]] # 0

\* While no call fails, and after one crash or power failure at most: between
\* operations, and without a journal that could still claim it, a file has a
\* row, or was left without one on purpose.  (A second stop finds a row that
\* journal::recover kept without flushing it.)
NoOrphans ==
    Unfailing /\ stops <= 1 /\ op = "none" /\ app = "running" /\ cdj = NoPath =>
        \A p \in Paths : fs[p] # 0 => HasRow(p) \/ fs[p] \in left

\* While no call fails, one crash or power failure within a replacement leaves no
\* state that its recovery refuses, whatever is imported, retagged or removed
\* around it.  (A second may take back the row itself, which nothing flushed
\* before the journal was written.)
ReplacementRecovers == Unfailing /\ stops <= 1 => app # "refused"

\* "A failure to clear the journal is self-healing: recovery will see the row
\* and keep the file" (cd_import/task.rs:240-241): a file that had its row, and
\* was left without one on purpose, is not deleted.
LeftFilesStay == \A f \in left : \E p \in Paths : fs[p] = f
=============================================================================
