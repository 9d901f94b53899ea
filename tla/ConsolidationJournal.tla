------------------------ MODULE ConsolidationJournal ------------------------
(***************************************************************************)
(* Managed-library moves: the consolidation of the whole library and the   *)
(* retarget of one track, both under the recovery journal                  *)
(* (app_runtime/src/managed_library/{consolidation,journal,file_ops}.rs).  *)
(*                                                                         *)
(* A file is an inode <<t, n>>: track t's audio, n rewrites old.  Its      *)
(* names are paths of the library, recovery links and removal handoffs.    *)
(* A directory entry and the directory sync that follows it are one step.  *)
(* SQLite commits survive the process at once, and a power failure only    *)
(* after a checkpoint (WAL, synchronous=NORMAL).                           *)
(***************************************************************************)
EXTENDS Naturals

CONSTANTS
    Tracks, Paths,
    NoFile, NoEntry, NoTrack,
    MaxRewrites,        \* bound: tag rewrites of one file
    MaxFaults,          \* bound: failing calls
    MaxCrashes,         \* bound: process deaths and power failures
    MaxConsolidations   \* bound: consolidations begun by one process

Inodes   == Tracks \X Nat
Files    == Inodes \union {NoFile}
Location == [path : Paths, missing : BOOLEAN]
Entry    == [src : Paths, dst : Paths, inode : Inodes]

ASSUME JournalAssumption ==
    /\ NoFile \notin Inodes /\ NoEntry \notin Entry /\ NoTrack \notin Tracks
    /\ MaxRewrites \in Nat /\ MaxFaults \in Nat /\ MaxCrashes \in Nat
    /\ MaxConsolidations \in Nat

VARIABLES
    fs,        \* [Paths -> Files]: the library's directory tree
    held,      \* the inode a removal has renamed to its handoff name
    stray,     \* inodes left under a handoff name in the library
    dir,       \* .sustain-consolidation-recovery exists
    backup,    \* [Tracks -> Files]: its track-<id>.backup links
    junk,      \* inodes left under a handoff name in it
    journal,   \* [Tracks -> Entry or NoEntry]: .sustain-consolidation-journal
    db,        \* [Tracks -> Location]: rows of the running database
    durable,   \* [Tracks -> Location]: rows a power failure leaves
    mem,       \* [Tracks -> Location]: the runtime's library_tracks
    app,       \* "stopped", "running", or "refused": startup failed and exited
    op,        \* what runs: "none", "startup", "consolidate", "retarget"
    known,     \* the track list the operation was given
    plan,      \* [Tracks -> Entry or NoEntry]: the planned moves
    todo,      \* tracks the current loop has not reached
    cur,       \* the track being moved or retargeted
    touched,   \* tracks the result will carry
    pc,        \* the next step
    after,     \* what follows the removal of the recovery directory
    faults, crashes, begun

names  == <<fs, held, stray>>
recdir == <<dir, backup, junk>>
rows   == <<db, durable>>
job    == <<op, known, plan, touched>>
bounds == <<faults, crashes, begun>>
vars   == <<names, recdir, journal, rows, mem, app, job, todo, cur, pc, after, bounds>>

NoEntries  == [t \in Tracks |-> NoEntry]
Journaled  == {t \in Tracks : journal[t] # NoEntry}
Moves      == {t \in Tracks : plan[t] # NoEntry}
Backups    == {t \in Tracks : backup[t] # NoFile}

Init ==
    /\ db \in {d \in [Tracks -> Location] :
                  \A t, u \in Tracks : d[t].path = d[u].path => t = u}
    /\ fs \in {f \in [Paths -> {<<t, 0>> : t \in Tracks} \union {NoFile}] :
                  /\ \A t \in Tracks : f[db[t].path] \in {<<t, 0>>, NoFile}
                  /\ \A t \in Tracks : db[t].missing => f[db[t].path] = NoFile
                  /\ \A p \in Paths : (\A t \in Tracks : db[t].path # p) => f[p] = NoFile}
    /\ held = NoFile /\ stray = {}
    /\ dir = FALSE /\ backup = [t \in Tracks |-> NoFile] /\ junk = {}
    /\ journal = NoEntries
    /\ durable = db /\ mem = db
    /\ app = "stopped"
    /\ op = "none" /\ known = db /\ plan = NoEntries /\ touched = {}
    /\ todo = {} /\ cur = NoTrack /\ pc = "idle" /\ after = "none"
    /\ faults = 0 /\ crashes = 0 /\ begun = 0

Fault == faults < MaxFaults /\ faults' = faults + 1 /\ UNCHANGED <<crashes, begun>>
Go(next)    == pc' = next /\ UNCHANGED after
Sweep(next) == pc' = "sweep" /\ after' = next
Fail        == Go("fail")
\* Mutant of Abandon: the recovery directory goes whatever was published.
AbandonAlways == Sweep("dropped")
\* An error drops PreparedConsolidationRecovery, which removes the recovery
\* directory unless a journal is published.
Abandon     == IF Journaled = {} THEN Sweep("dropped") ELSE Fail

-----------------------------------------------------------------------------
(* Starting an operation.  The journal has one owner at a time: startup is *)
(* synchronous, and the runtime's guards keep a consolidation and a        *)
(* pending retarget apart.                                                 *)

Begin(kind) ==
    /\ op = "none" /\ op' = kind
    /\ plan' = NoEntries /\ touched' = {}
    /\ Go("recover")
    /\ UNCHANGED <<names, recdir, journal, rows, mem, app, todo>>

\* set_library_services: the process starts, or is started again.
SetLibraryServices ==
    /\ app # "running" /\ Begin("startup")
    /\ begun' = 0
    /\ UNCHANGED <<known, cur, faults, crashes>>

\* prepare_library_consolidation hands over a copy of the list in memory.
PrepareLibraryConsolidation ==
    /\ app = "running" /\ begun < MaxConsolidations /\ Begin("consolidate")
    /\ begun' = begun + 1 /\ known' = mem
    /\ UNCHANGED <<cur, faults, crashes>>

\* update_metadata queues a retarget for the metadata writer's thread.
RetargetManagedMetadata(t) ==
    /\ app = "running" /\ ~mem[t].missing /\ Begin("retarget")
    /\ cur' = t
    /\ UNCHANGED <<known, bounds>>

-----------------------------------------------------------------------------
(* recover_library_consolidation_journal                                   *)

PathState(p, inode) == IF fs[p] = NoFile THEN "missing"
                       ELSE IF fs[p] = inode THEN "expected" ELSE "unexpected"
SourceState(t)      == PathState(journal[t].src, journal[t].inode)
DestinationState(t) == PathState(journal[t].dst, journal[t].inode)

\* What the recovery match accepts.
RollsForward(t) == DestinationState(t) = "expected"
RollsBack(t)    == SourceState(t) = "expected" /\ DestinationState(t) = "missing"
Recoverable(t)  == RollsForward(t) \/ RollsBack(t)

\* Mutant of RecoverJournal: the journal is removed without its entries.
RecoverJournalNothing ==
    /\ pc = "recover"
    /\ IF Journaled = {} THEN Sweep("recovered") ELSE Go("reconcile")
    /\ todo' = {}
    /\ UNCHANGED <<names, recdir, journal, rows, mem, app, job, cur, bounds>>

RecoverJournal ==
    /\ pc = "recover"
    /\ IF Journaled = {} THEN Sweep("recovered") /\ UNCHANGED todo
                         ELSE Go("reconcile") /\ todo' = Journaled
    /\ UNCHANGED <<names, recdir, journal, rows, mem, app, job, cur, bounds>>

\* Both names exist: the interrupted removal of the source is finished.
RemoveRecoveredSource(t) ==
    /\ pc = "reconcile" /\ t \in todo
    /\ RollsForward(t) /\ SourceState(t) = "expected"
    /\ fs' = [fs EXCEPT ![journal[t].src] = NoFile]
    /\ held' = journal[t].inode
    /\ Go("recoverunlink")
    /\ UNCHANGED <<stray, recdir, journal, rows, mem, app, job, todo, cur, bounds>>

SaveRecoveredTrack(t) ==
    /\ pc = "reconcile" /\ t \in todo
    /\ \/ RollsForward(t) /\ SourceState(t) # "expected"
       \/ RollsBack(t)
    /\ db' = [db EXCEPT ![t] = [path |-> IF RollsForward(t) THEN journal[t].dst
                                                            ELSE journal[t].src,
                                missing |-> FALSE]]
    /\ todo' = todo \ {t}
    /\ UNCHANGED <<names, recdir, journal, durable, mem, app, job, cur, pc, after, bounds>>

\* Neither pathname can prove where the managed inode lives.
RecoveryRefuses(t) ==
    /\ pc = "reconcile" /\ t \in todo /\ ~Recoverable(t)
    /\ Fail
    /\ UNCHANGED <<names, recdir, journal, rows, mem, app, job, todo, cur, bounds>>

\* Mutant of FlushDurable: the barrier is skipped.
FlushNothing ==
    /\ pc \in {"reconcile", "move"} /\ todo = {}
    /\ Go("unjournal")
    /\ UNCHANGED <<names, recdir, journal, rows, mem, app, job, todo, cur, bounds>>

\* flush_durable: the barrier before the journal goes.
FlushDurable ==
    /\ pc \in {"reconcile", "move"} /\ todo = {}
    /\ durable' = db
    /\ Go("unjournal")
    /\ UNCHANGED <<names, recdir, journal, db, mem, app, job, todo, cur, bounds>>

\* remove_consolidation_journal_if_present, at the end of a recovery (nothing
\* is planned yet) or of the moves.  An error may follow the removal.
RemoveJournal ==
    /\ pc = "unjournal"
    /\ journal' = NoEntries
    /\ LET recovering == Moves = {}
       IN  \/ Sweep(IF recovering THEN "links" ELSE "finished") /\ UNCHANGED bounds
           \/ Fault /\ IF recovering THEN Fail ELSE Sweep("dropped")
    /\ UNCHANGED <<names, recdir, rows, mem, app, job, todo, cur>>

-----------------------------------------------------------------------------
(* Removing the recovery directory: each link through a handoff name in    *)
(* the same directory, then the directory.  The cleanup of an orphaned     *)
(* directory must succeed; the one after a journal and the one that drops  *)
(* an abandoned plan are best effort.  All but the one after a journal     *)
(* refuse a directory with a name in it they do not know.                  *)

Strict  == after \in {"recovered", "nothing"}
Refused == after \notin {"links", "finished"} /\ junk # {}

SweepHandOff(t) ==
    /\ pc = "sweep" /\ t \in Backups /\ ~Refused
    /\ held' = backup[t]
    /\ backup' = [backup EXCEPT ![t] = NoFile]
    /\ Go("sweepunlink")
    /\ UNCHANGED <<fs, stray, dir, junk, journal, rows, mem, app, job, todo, cur, bounds>>

SweepUnlink ==
    /\ pc = "sweepunlink"
    /\ held' = NoFile
    /\ Go("sweep")
    /\ UNCHANGED <<fs, stray, recdir, journal, rows, mem, app, job, todo, cur, bounds>>

\* The operation goes on, ends well, or ends with its error.
Swept == Go(CASE after \in {"recovered", "links"} -> "recovered"
              [] after \in {"nothing", "finished"} -> "finished"
              [] OTHER -> "fail")

SweepDirectory ==
    /\ pc = "sweep" /\ Backups = {} /\ ~Refused
    /\ dir' = (dir /\ junk # {})
    /\ Swept
    /\ UNCHANGED <<names, backup, junk, journal, rows, mem, app, job, todo, cur, bounds>>

\* An unknown name, or a call that fails with nothing or a handoff left.  (The
\* best-effort loop goes on with the other links; their order covers that.)
SweepFails ==
    /\ \/ pc = "sweep" /\ Refused /\ UNCHANGED <<held, junk, bounds>>
       \/ pc \in {"sweep", "sweepunlink"} /\ Fault
          /\ junk' = junk \union ({held} \ {NoFile}) /\ held' = NoFile
    /\ IF Strict THEN Fail ELSE Swept
    /\ UNCHANGED <<fs, stray, dir, backup, journal, rows, mem, app, job, todo, cur>>

-----------------------------------------------------------------------------
(* Planning: plan_library_consolidation and plan_managed_track_retarget.   *)

Recovered ==
    /\ pc = "recovered"
    /\ IF op = "startup"
       THEN Go("finished") /\ UNCHANGED <<dir, job, todo>>
       ELSE IF dir \/ (op = "retarget" /\ db[cur].missing)
       THEN Fail /\ UNCHANGED <<dir, job, todo>>
       ELSE /\ dir' = TRUE
            /\ known' = IF op = "retarget" THEN db ELSE known
            /\ todo' = IF op = "retarget" THEN {cur} ELSE Tracks
            /\ Go("plan") /\ UNCHANGED <<op, plan, touched>>
    /\ UNCHANGED <<names, backup, junk, journal, rows, mem, app, cur, bounds>>

\* Mutant of Destinations: only the disk says what is occupied.
UnoccupiedDestinations(t) == {known[t].path} \union {p \in Paths : fs[p] = NoFile}

\* plan_consolidation_destination: the current path, or one that no track is
\* known to have, no other move takes and nothing on disk occupies.
Destinations(t) ==
    {known[t].path} \union
    {p \in Paths : /\ fs[p] = NoFile
                   /\ \A u \in Tracks : known[u].path # p
                   /\ \A u \in Moves : plan[u].dst # p}

\* Mutant of PlanMove: the source is not probed.
PlanMoveUnprobed(t, p) ==
    LET src == known[t].path IN
    /\ pc = "plan" /\ t \in todo /\ p \in Destinations(t) \ {src}
    /\ plan' = [plan EXCEPT ![t] = [src |-> src, dst |-> p, inode |-> fs[src]]]
    /\ backup' = [backup EXCEPT ![t] = fs[src]]
    /\ todo' = todo \ {t}
    /\ UNCHANGED <<names, dir, junk, journal, rows, mem, app, op, known, touched, cur,
                   pc, after, bounds>>

\* A file is found: pin_source links it into the recovery directory.
PlanMove(t, p) ==
    LET src == known[t].path IN
    /\ pc = "plan" /\ t \in todo
    /\ fs[src] # NoFile /\ p \in Destinations(t)
    /\ IF p = src THEN UNCHANGED <<plan, backup>>
       ELSE /\ plan' = [plan EXCEPT ![t] = [src |-> src, dst |-> p, inode |-> fs[src]]]
            /\ backup' = [backup EXCEPT ![t] = fs[src]]
    /\ todo' = todo \ {t}
    /\ UNCHANGED <<names, dir, junk, journal, rows, mem, app, op, known, touched, cur,
                   pc, after, bounds>>

\* No file: a consolidation notes a row to correct, a retarget gives up.
PlanMissing(t) ==
    /\ pc = "plan" /\ t \in todo /\ fs[known[t].path] = NoFile
    /\ IF op = "retarget" THEN Abandon /\ UNCHANGED <<touched, todo>>
       ELSE /\ touched' = IF known[t].missing THEN touched ELSE touched \union {t}
            /\ todo' = todo \ {t}
            /\ UNCHANGED <<pc, after>>
    /\ UNCHANGED <<names, recdir, journal, rows, mem, app, op, known, plan, cur, bounds>>

\* The rows to correct take the snapshot's path and become missing.
Planned ==
    /\ pc = "plan" /\ todo = {}
    /\ db' = [t \in Tracks |-> IF t \in touched
                               THEN [path |-> known[t].path, missing |-> TRUE] ELSE db[t]]
    /\ IF Moves # {} THEN Go("journal")
       ELSE Sweep(IF op = "retarget" THEN "finished" ELSE "nothing")
    /\ UNCHANGED <<names, recdir, journal, durable, mem, app, job, todo, cur, bounds>>

-----------------------------------------------------------------------------
(* The moves.                                                              *)

\* write_consolidation_journal: every source must still be the pinned file.
\* The journal may be published and the call fail all the same.
WriteJournal ==
    /\ pc = "journal"
    /\ IF \E t \in Moves : fs[plan[t].src] # plan[t].inode
       THEN Abandon /\ UNCHANGED <<journal, todo, bounds>>
       ELSE /\ journal' = plan
            /\ todo' = Moves
            /\ \/ Go("move") /\ UNCHANGED bounds
               \/ Fault /\ Fail
    /\ UNCHANGED <<names, recdir, rows, mem, app, job, cur>>

\* request_library_consolidation_cancellation
Cancel ==
    /\ pc = "move" /\ op = "consolidate" /\ todo # {}
    /\ todo' = {}
    /\ UNCHANGED <<names, recdir, journal, rows, mem, app, job, cur, pc, after, bounds>>

\* Mutant of LinkDestination: the source goes before the destination is linked.
HandOffFirst(t) ==
    /\ pc = "move" /\ t \in todo
    /\ cur' = t /\ todo' = todo \ {t}
    /\ fs' = [fs EXCEPT ![plan[t].src] = NoFile]
    /\ held' = plan[t].inode /\ Go("linked")
    /\ UNCHANGED <<stray, recdir, journal, rows, mem, app, job, bounds>>

\* move_file_without_copy_or_overwrite_matching_capability: link the pinned
\* file to its destination, which must not exist,
LinkDestination(t) ==
    /\ pc = "move" /\ t \in todo
    /\ cur' = t /\ todo' = todo \ {t}
    /\ IF fs[plan[t].src] = plan[t].inode /\ fs[plan[t].dst] = NoFile
       THEN fs' = [fs EXCEPT ![plan[t].dst] = plan[t].inode] /\ Go("linked")
       ELSE UNCHANGED fs /\ Abandon
    /\ UNCHANGED <<held, stray, recdir, journal, rows, mem, app, job, bounds>>

\* and remove the source through a handoff name if it is still that file.
HandOffSource ==
    LET move == plan[cur] IN
    /\ pc = "linked"
    /\ IF fs[move.src] = move.inode
       THEN /\ fs' = [fs EXCEPT ![move.src] = NoFile]
            /\ held' = move.inode /\ Go("unlink")
       ELSE /\ fs' = [fs EXCEPT ![move.dst] = NoFile]
            /\ UNCHANGED held /\ Abandon
    /\ UNCHANGED <<stray, recdir, journal, rows, mem, app, job, todo, cur, bounds>>

UnlinkSource ==
    /\ pc \in {"unlink", "recoverunlink"}
    /\ held' = NoFile
    /\ Go(IF pc = "unlink" THEN "persist" ELSE "reconcile")
    /\ UNCHANGED <<fs, stray, recdir, journal, rows, mem, app, job, todo, cur, bounds>>

\* update_track_location, or for a retarget the row and its outbox intent.
PersistLocation ==
    /\ pc = "persist"
    /\ db' = [db EXCEPT ![cur] = [path |-> plan[cur].dst, missing |-> FALSE]]
    /\ touched' = touched \union {cur}
    /\ Go("move")
    /\ UNCHANGED <<names, recdir, journal, durable, mem, app, op, known, plan, todo, cur, bounds>>

\* The removal of the source fails after any of its steps, its own rollback
\* too, and the destination is then removed as far as that succeeds.
RemoveSourceFails ==
    LET move == plan[cur] IN
    /\ pc \in {"linked", "unlink"} /\ fs[move.src] \in {move.inode, NoFile}
    /\ Fault /\ Abandon
    /\ \E d \in {move.inode, NoFile}, left \in SUBSET {move.inode} :
          /\ left # {} => pc = "unlink" \/ d = NoFile
          /\ fs' = [fs EXCEPT ![move.dst] = d]
          /\ stray' = stray \union left
    /\ held' = NoFile
    /\ UNCHANGED <<recdir, journal, rows, mem, app, job, todo, cur>>

\* rollback_file_move: back to the source, or as far as that succeeds; its own
\* failure to remove the destination removes the new source again.
PersistFails ==
    LET move == plan[cur] IN
    /\ pc = "persist" /\ Fault /\ Abandon
    /\ \E s, d \in {move.inode, NoFile}, left \in SUBSET {move.inode} :
          /\ fs' = [fs EXCEPT ![move.src] = s, ![move.dst] = d]
          /\ stray' = stray \union left
    /\ UNCHANGED <<held, recdir, journal, rows, mem, app, job, todo, cur>>

\* Any other call fails and changes nothing.
CallFails ==
    /\ Fault
    /\ \/ pc \in {"recover", "reconcile", "recovered", "unjournal"} /\ Moves = {}
          /\ Fail /\ UNCHANGED <<held, stray>>
       \/ pc \in {"plan", "journal", "move", "unjournal"} /\ todo \union Moves # {}
          /\ Abandon /\ UNCHANGED <<held, stray>>
       \/ pc = "recoverunlink" /\ Fail /\ stray' = stray \union {held} /\ held' = NoFile
    /\ UNCHANGED <<fs, recdir, journal, rows, mem, app, job, todo, cur>>

-----------------------------------------------------------------------------
(* Ending an operation.                                                    *)

End(list) ==
    /\ mem' = list /\ known' = list
    /\ op' = "none" /\ pc' = "idle" /\ after' = "none"
    /\ plan' = NoEntries /\ todo' = {} /\ cur' = NoTrack /\ touched' = {}

\* The result of a consolidation carries the rows it changed; a retarget's
\* row is read back from SQLite; startup loads them all.
Finish ==
    /\ pc = "finished"
    /\ End([t \in Tracks |-> IF op = "startup" \/ t \in touched \/ (op = "retarget" /\ t = cur)
                             THEN db[t] ELSE mem[t]])
    /\ app' = "running"
    /\ UNCHANGED <<names, recdir, journal, rows, bounds>>

\* fail_library_consolidation leaves the list in memory alone, a retarget
\* reads its row back, and a failed startup ends the process.
FailOperation ==
    /\ pc = "fail"
    /\ End(IF op = "retarget" THEN [mem EXCEPT ![cur] = db[cur]] ELSE mem)
    /\ app' = IF op = "startup" THEN "refused" ELSE app
    /\ UNCHANGED <<names, recdir, journal, rows, bounds>>

-----------------------------------------------------------------------------
(* The surroundings.                                                       *)

\* The metadata writer replaces the file at the row's path by a tagged copy,
\* also while a consolidation runs; a retarget keeps its thread busy.
MirrorTags(t) ==
    /\ app = "running" /\ op \in {"none", "consolidate"}
    /\ LET p == db[t].path IN
       /\ fs[p] # NoFile /\ fs[p][2] < MaxRewrites
       /\ fs' = [fs EXCEPT ![p] = <<fs[p][1], fs[p][2] + 1>>]
    /\ UNCHANGED <<held, stray, recdir, journal, rows, mem, app, job, todo, cur, pc,
                   after, bounds>>

\* SQLite checkpoints on its own when the WAL grows.
Checkpoint ==
    /\ durable # db
    /\ durable' = db
    /\ UNCHANGED <<names, recdir, journal, db, mem, app, job, todo, cur, pc, after, bounds>>

\* The process dies, or the machine loses power: the names stay as they were
\* last synced, a handoff name is left behind, and rows are what they were or
\* what the last checkpoint had.
Crash ==
    /\ crashes < MaxCrashes /\ (app = "running" \/ op = "startup")
    /\ crashes' = crashes + 1
    /\ LET sweeping == pc \in {"sweep", "sweepunlink"}
           left == {held} \ {NoFile}
       IN  /\ junk' = IF sweeping THEN junk \union left ELSE junk
           /\ stray' = IF sweeping THEN stray ELSE stray \union left
    /\ held' = NoFile
    /\ db' \in {db, durable}
    /\ app' = "stopped"
    /\ End(db')
    /\ UNCHANGED <<fs, dir, backup, journal, durable, faults, begun>>

OperationStep ==
    \/ RecoverJournal \/ FlushDurable \/ RemoveJournal
    \/ SweepUnlink \/ SweepDirectory \/ SweepFails
    \/ Recovered \/ Planned \/ WriteJournal \/ HandOffSource \/ UnlinkSource
    \/ PersistLocation \/ RemoveSourceFails \/ PersistFails \/ CallFails
    \/ Finish \/ FailOperation
    \/ \E t \in Tracks :
          \/ RemoveRecoveredSource(t) \/ SaveRecoveredTrack(t) \/ RecoveryRefuses(t)
          \/ SweepHandOff(t) \/ PlanMissing(t) \/ LinkDestination(t)
          \/ \E p \in Paths : PlanMove(t, p)

Next ==
    \/ SetLibraryServices \/ PrepareLibraryConsolidation
    \/ \E t \in Tracks : RetargetManagedMetadata(t) \/ MirrorTags(t)
    \/ OperationStep \/ Cancel
    \/ Checkpoint \/ Crash

Spec == Init /\ [][Next]_vars

-----------------------------------------------------------------------------
FileOf(t, i) == i # NoFile /\ i[1] = t
Held(t) == \/ \E p \in Paths : FileOf(t, fs[p])
           \/ \E u \in Tracks : FileOf(t, backup[u])
           \/ \E i \in stray \union junk \union {held} : FileOf(t, i)

\* Every variable has its type.
TypeOK ==
    /\ fs \in [Paths -> Files] /\ held \in Files
    /\ stray \subseteq Inodes /\ junk \subseteq Inodes
    /\ dir \in BOOLEAN /\ backup \in [Tracks -> Files]
    /\ journal \in [Tracks -> Entry \union {NoEntry}]
    /\ plan \in [Tracks -> Entry \union {NoEntry}]
    /\ db \in [Tracks -> Location] /\ durable \in [Tracks -> Location]
    /\ mem \in [Tracks -> Location] /\ known \in [Tracks -> Location]
    /\ app \in {"stopped", "running", "refused"}
    /\ op \in {"none", "startup", "consolidate", "retarget"}
    /\ todo \subseteq Tracks /\ touched \subseteq Tracks
    /\ cur \in Tracks \union {NoTrack}
    /\ pc \in {"idle", "recover", "reconcile", "recoverunlink", "unjournal", "sweep",
               "sweepunlink", "recovered", "plan", "journal", "move", "linked",
               "unlink", "persist", "finished", "fail"}
    /\ after \in {"none", "recovered", "nothing", "links", "finished", "dropped"}
    /\ faults \in Nat /\ crashes \in Nat /\ begun \in Nat

\* No interleaving of moves, rollbacks, recoveries and cleanups, and no failed
\* call or crash between them, takes the last name of a track's audio.
NoAudioLost == [][\A t \in Tracks : Held(t) => Held(t)']_vars

\* No call has failed, and no file has been rewritten: what is left to go wrong
\* are crashes, power failures, and operations in any order.
Unfailing == faults = 0
Unwritten == \A p \in Paths : fs[p] # NoFile => fs[p][2] = 0

\* A track whose file exists and that the journal does not list is found at
\* the path its row has, now and after a power failure: no row is ahead of its
\* file, and the journal never goes before the rows it guards are durable.
\* A failed call can break it: a list in memory that was not reloaded does.
RowsFindFiles ==
    \A t \in Tracks \ Journaled : Held(t) =>
        \A row \in {db[t], durable[t]} : FileOf(t, fs[row.path]) /\ ~row.missing
CrashesKeepRows == Unfailing => RowsFindFiles

\* While no call fails and no file is rewritten, a crash at any step leaves
\* each journaled move in a state that recovery can complete or undo.
JournalRecoverable == Unfailing /\ Unwritten => \A t \in Journaled : Recoverable(t)

\* Where a track is: where recovery would find it if it is journaled, else where
\* its row says.
Whereabouts == [t \in Tracks |-> IF t \notin Journaled THEN db[t].path
                                 ELSE IF RollsForward(t) THEN journal[t].dst
                                 ELSE journal[t].src]
Locations == INSTANCE LibraryLocations WITH where <- Whereabouts

\* Journaling makes each move atomic while no call fails: seen through the
\* journal, a track jumps from one free place to another, and crashes and
\* recoveries move nothing.
AtomicRelocation ==
    /\ Locations!Init
    /\ [][Unfailing' /\ Unwritten' => Locations!Next \/ UNCHANGED Whereabouts]_vars

\* A start of the application never fails on the journal or its links unless
\* a call fails.
StartupNeverRefused == app # "refused"
=============================================================================
