# Sustain in TLA+

Sustain is a desktop music library (Rust, GTK). Its database, SQLite, is the
source of truth; audio files carry courtesy copies of the tags; several worker
threads move files, write tags, fetch metadata and sync devices while the user
plays and edits music. This directory holds TLA+ models of the parts where
threads, the file system and crashes meet, TLC configurations that check them
on small instances, and TLAPS proofs.

Paths below are relative to `src/crates/`.

## 1. Inventory

| Component | State | Operations | Talks to | What is hard | What makes it correct |
|---|---|---|---|---|---|
| Tag mirror (`app_runtime/src/metadata_writer.rs`, `library_store/src/sqlite/tag_mirror.rs`) | table `tag_mirror_outbox` (kinds, artwork, generation, attempts, due time); the worker's batch | enqueue on every edit; due, complete, record_failure; mirror_one | edits from the UI and online threads, files, SQLite | rows are read long before they are completed; kinds coalesce; files move; retries; process death | no edit is lost, no tag goes back, every reachable file is eventually mirrored |
| Artwork blobs (`library_store/src/tag_mirror.rs`) | content-addressed files, temporary files, references in the outbox | publish, enqueue, collect | publishers on two threads, the writer, removals of tracks | no common lock; the age of a file decides; collections follow completed rows only | a pending picture has its payload; unreferenced payloads go |
| Managed library (`app_runtime/src/managed_library/`) | directory tree, recovery journal and hard links, rows, the runtime's copy of rows | consolidate, retarget one track, relocate a missing one, import, recover at start | SQLite durability, metadata writer | crash or failing call between any two file operations; WAL commits a power failure undoes | one place per track, rows agree with files, audio never loses its last name, startup succeeds |
| Playback queue (`domain/src/playback/queue.rs`) | source, pool, eager or lazy order, cursor, modes | play, next, previous, queue edits, shuffle, repeat, refresh, removal | runtime transport, availability of files, picker | long mixed sequences; tracks that occur twice; files that vanish | the cursor is on what plays; queued tracks survive |
| Listening statistics (`app_runtime/src/playback.rs`, `domain/src/playback_session.rs`) | the session of what plays, registrations that wait, counts in rows and in the runtime's copy | tick, play, pause, stop, seek, skip, reset, retry | merges and scans that rewrite the same rows | counts are written whole from a copy; failed writes are retried; a file that is not there | each play and skip is counted once and in the end |
| Duplicate consolidation (`app_runtime/src/duplicate_consolidation.rs`) | its own journal and staged copies | plan, replace, commit, roll back, recover | tag mirror, playlists, files | commit from a stale plan; crash between staging and commit | no audio or edit lost |
| YouTube replacement (`youtube_audio_*.rs`) | journal, published copy | download, publish, rebind, recover | metadata writer, trash | crash between publish and rebind | exactly one file owns the row |
| Online enrichment (`online_scheduler.rs`) | explicit queue, attempt stamps | explicit request, background sweep | HTTP, artwork publishing | rate limits, failed stamps, edits during a call | requested work is done once; users' values win |
| Analysis scheduler (`analysis_scheduler.rs`) | explicit queue, buffer, tracks in flight, attempt stamps | explicit request, sweep, dispatch, record | a pool of workers, rows that change or go underneath | commands that rearrange what is being dispatched; teardown of the pool; late outcomes; rejected writes | requested work is done, no track is analysed twice at once, the sweep ends |
| Smart-shuffle scheduler | an index in memory, a rerun flag | request, rebuild | rows | little: requests coalesce | the index follows the rows |
| Device sync (`device_sync`, `device_sync.rs`, two schedulers) | manifest, plan generation | plan, confirm, copy, remove, cancel | unplugged devices, edits of tags and playlists | cancellation and copy errors half way; paths that follow titles and playlists; contents that come back | the manifest lists what the device has |
| CD import | journal of one publish/row transition | rip, publish, commit, recover | managed moves | crash between publish and row | a file has a row or is removed |
| Import, scan, hydration | rows, availability flags | add, mark missing, refresh the queue | everything that reads rows | mostly I/O | rows follow the disk |
| Instance lock, settings, trash, notifications, desktop, UI, search, playlists, codecs, DSP, providers, Pioneer, MTP | | | | I/O, formats or pure functions with unit tests | |

`PROJECT.json` lists every component with its files and status, and every
hazard at its line.

How components interact: the runtime (`app_runtime/src/lib.rs`) owns the rows it
shows (`library_tracks`) and dispatches commands on the UI thread. Workers get
commands through channels, share the SQLite connection behind a mutex, and send
results back that the runtime applies. A consolidation, a duplicate
consolidation and an audio replacement exclude each other and the user's edits
(`library_mutation.rs` 433-452); the metadata writer, the analysis and the
online schedulers are *not* excluded and run beside all of them.

## 2. Modules

### TagMirrorOutbox, the core

One outbox row per track, with a generation that each upsert raises. Values are
version numbers: `canon[t][k]` is the version the user last asked for of kind
`k`, `tags[t][k]` the one in the file. Actions and code:

| Action | Code |
|---|---|
| `SetRating`, `UpdateMetadata`, `SetArtwork` | the handlers in `library_mutation.rs`: guard, row and outbox in one transaction |
| `FillMissingMetadata`, `EnqueueArtwork` | what the online thread commits |
| `StartBatch`, `NextItem`, `FinishBatch` | `worker_loop`, `drain_due_batch` |
| `ReadTrack`, `Probe`, `Reconcile`, `WriteTag`, `WriteTagNotFound`, `ItemFails` | `mirror_one`, cut where another thread can come between |
| `SettleItem` | `complete` or `record_failure`, both conditional on the generation |
| `RetryElapses` | the back-off ends |
| `MoveFile`, `UpdateTrackLocation` | a file is moved by a consolidation and its row follows |
| `RelocateMissingTrack`, `RetargetManagedMetadata` | commands the writer's own thread runs |
| `FileVanishes`, `FileReturns`, `Crash`, `Resume` | the world, process death, and the nudge after a start |

The user's edits are guarded as in the code; the online thread's are not.
A row with artwork keeps the artwork version of its last edit, since pictures,
unlike tags, are carried by the row and not read from the track.

Left out: the two long commands that also run on the writer's thread, duplicate
consolidation and audio replacement, which have modules of their own; BPM and key that analysis stores in SQLite without an outbox
row, the batch limit of 64, and the command-line backfill. Process death loses
nothing SQLite committed; power failures are the subject of the journal model.

### ArtworkOutbox

The same outbox, seen by its artwork payloads. Publishing is check, write
temporary file, rename, commit; collecting is snapshot, read references, visit
each directory entry. A file's modification time is what the collector asks of
it: older than the last snapshot or not. Whatever can fail may fail: publication
(`PublishFails`), the row after it (`EnqueueFails`), the mirror of a row
(`MirrorFails`: the file is gone or cannot be written), its completion
(`SettleFails`), a collection (`CollectionFails`). `RemoveTrack` takes a track with
its outbox row, as the cascade in the database does. Temporary files outlive
their process as `litter`, which the next collection removes. `overlap` and
`raced` are history variables that name publications a collection has
overlapped; `unswept` names the payloads that were let go of since the last
collection began, and, after a failed one, all it might have left.

### LibraryLocations and ConsolidationJournal

`LibraryLocations` is what managed moves promise: each track has one place, no
two share one, and a track jumps to a free place in a single step.
`ConsolidationJournal` is the code: plan, pin each file with a hard link, write
the journal, link the destination, rename and unlink the source, commit the row,
checkpoint, remove the journal, sweep the links; recovery of all that at startup
and before each operation; roll-back of each failing call; cancellation. Files are
inodes `<<track, rewrites>>`, so that a tag rewrite (which replaces the file) and
a hard link can be told apart. `db` survives a process, `durable` a power
failure, `mem` is the runtime's copy. The refinement mapping takes a journaled
track to where recovery would put it: `Locations!Spec` is checked as the
property `AtomicRelocation`.

A directory entry and the directory sync after it are one step. Destination
paths are any free path instead of the naming template.

### PlaybackQueue

`queue` is the Rust struct; the operations of `queue.rs` are operators from
queues to queues (or to sets of them where a shuffle or a pick chooses), and the
actions are the runtime's commands, each with the availability check of
`play_track` that can refresh the queue in the middle. Cursors count from 1. Where
the code looks a track up by its id, the model takes the first of its places
(`PlacesOf`, `Position`); filters (`Only`, `Without`) select a sequence's elements
at some positions (`Those`, in `Selections`, which `AnalysisScheduler` uses as
well). `doubled` is a history variable that no action reads: it says that a
reorder has moved a track which the order had twice, and becomes false with the
next queue. The properties say what holds until then, and `MCQueueCursor` shows
what may happen after it.

### ListeningStatistics

What `PlaybackQueue` leaves out of the transport: the session and the counts. A
command is cut where it calls SQLite, since a worker may come in there: `Request`,
`Advance`, `Removing` and `Tick` settle the session (`Settle`, `Account`,
`Freeze`: `settle_current_playing_session` and what it calls), `CommitPending`,
`RetryFails` and `RetryDone` are turns of `retry_pending_play_registrations`, and
the `Act...` actions do what was asked. `rows` is SQLite and `library` the
runtime's copy; `MutateStatistics` writes all counts of the copy into the row, as
`mutate_track_statistics` does. A merge (`MergeReads`, `MergeCommits`,
`FlushFails`, `ApplyMerge`) and a scan (`StartScan`, `ScanReconciles`,
`ScanReloads`, `ApplyScan`) are the other writers, seen by counts only; merging
itself is `DuplicateConsolidation`. Time is a choice: whenever a session is
accounted it may reach its threshold. A merge is of two tracks, and which track
comes next, and whether its file is there, is any. History variables: `due`
(what the listener has done, per row) and `raced` (tracks whose counts a task
has crossed, at the places `Crossed` names); `reached` and `skipped` of a session
say the same of it and are read by no step of the code.

### OnlineScheduler

The worker of `online_scheduler.rs` from command to stamp: `Drain`, `Receive`,
`GoIdle` and `BuildBatch` are the outer loop of `worker_loop`, `NextItem`,
`ReadTrack` and `ItemDone` the inner one, `AttemptFails`, `NoMatch`, `FillText`,
`SetArtwork` and `RateLimited` one attempt of `process_track`, `RecordAttempt`
and `RecordFails` the stamp. `row` is what the track had when it was read; between
`ReadTrack` and an attempt the user may edit or remove it. `Needs` is the SQL
that finds work. A scan commits on its own thread (`ScanCommit`) and the main loop
wakes the worker later (`ApplyScanResult`), unless the rows cannot be read back,
which wakes nobody (`ScanReloadFails`); `TrackArrives` is an import, a CD import or
the relocation of a missing track, none of which wakes the worker. History
variables: `owed` (capabilities that met a rate limit and were not attempted
since) and `unwoken` (tracks that became available without a command since).

### AnalysisScheduler

`DrainCommand`, `Prioritise` and `StopSweep` are the top of `supervisor_loop`,
`AwaitTail` and `GoIdle` its branch without work, `QueryFails`, `Refill` and
`FinishSweep` its third part, `TakeItem` with `SendItem`, `SkipItem`,
`ChannelFull` and `ReadFails` one turn of the dispatch loop, `Wait` and `Stall`
its fifth part. `TakeItem` copies the front of `pending` *before* it applies a
command, and `PopFront` removes whatever is in front afterwards, as the code
does. `TakeWork`, `RecordAnalysis`, `RecordFailure` and `RecordRejected` are a
worker. A step that shuts the pool down waits for `Quiet`, since the code joins
the workers. `explicit` is kept on items in the workers' hands for the
properties only. History variables: `owed` (tracks of explicit runs taken in),
`shadowed` (tracks that `PopFront` took for another's), `stale` (tracks whose
outcome outlived its pool) and `unwoken` (tracks that became available, or whose
audio was replaced, with no command since). Scans and other arrivals are as in
`OnlineScheduler`.

### DeviceSync

`content`, `title` and `selection` are the library, `device` and `index` the files
and playlist files on the device, `manifest` what the library remembers of it.
`selection` has the ticked lists (playlists, smart playlists, artists) with their
tracks. A path has the folder of a list, a number, a title and a tag. In the
deduplicated tree a track is placed once, where it comes first (`Placements`), and a
title that is taken is tagged (`Tag`); in a folder per playlist each list has its
own folder and its own numbers, which come from the previous manifest (`Prior`,
`Highest`, `Number`). A title stands for all a name is made of besides the number:
artist, album, title, the width of the number, the subfolder of a full folder.
Contents are what a fingerprint tells apart: they come from a finite set, may come
back and may be shared by two tracks. All have one size, the case in which the
comparison of sizes does not help.

`Start` begins a run and `Prepare` plans it (`Placed` is `plan_placements`,
`Unchanged` and `Removals` are `compute_diff`), the copies and removals are single
steps between which the cancellation flag is read, a copy by a transport without
atomic publication may leave a `Partial` file, `Finalize` writes the playlist files
of the ticked lists in order and leaves those of others, and `ApplyCompletion`
saves the manifest the run built and acknowledges it. History variables: `unsaved`
(paths written since the saved manifest last recorded them) and `interrupted`.

### DuplicateConsolidation

A merge step by step: recovery of an earlier one, recovery directory, staged
survivor, hard-linked backups, journal, publication of the stage, removal of the
losers' names, commit (rows, playlists and the mirror rows it deletes in one
transaction), durable flush, clean-up. Every call may fail, the process or the
power may end anywhere, recovery itself may be interrupted. `db` and `durable`
are as in the consolidation's journal.

### AudioPublication

The two operations that publish a file and then bind a row to it, with the two
journals: `cdj` (a CD track about to be published) and `ytj` (original and copy of
a replacement). A file is a serial number, so that a rewrite by the tag mirror
gives another file. Startup recovers `ytj` and may refuse to go on; `cdj` is
recovered by the next import.

### The proof modules

`TagMirrorOutboxProofs`, `ConsolidationJournalProofs`, `OnlineSchedulerProofs`,
`AnalysisSchedulerProofs`, `DeviceSyncProofs` and `DuplicateConsolidationProofs`
extend the module they are named after. `PublicationProofs` extends two,
`ArtworkOutbox` and `AudioPublication`, and `PlaybackProofs` extends `PlaybackQueue`
and `ListeningStatistics`; in each case the two share no state and no name, which is
why the specifications of the first are called `ArtworkSpec` and `QueueSpec`. See
section 5.

## 3. Runs

| Run | Instance | Result |
|---|---|---|
| `mirror` | 1 track, 2 paths, 1 edit per kind, 2 faults, 2 moves, fairness | `TypeOK`, `NoLostMirror`, `MirrorNeverRegresses`, `EventuallyMirrored` hold |
| `journal` | 2 tracks, 3 paths, 2 crashes or power failures, 2 failing calls, 1 rewrite, 2 consolidations per process | `TypeOK`, `JournalRecoverable`, `CrashesKeepRows`, `NoAudioLost` and the refinement `AtomicRelocation` hold |
| `artwork` | 2 publishers, 2 tracks, 1 picture, 3 edits, any failures and removals, 1 crash, fairness | `ArtworkTypeOK`, `DanglingOnlyIfRaced`, `NoBlobLeaks` hold |
| `queue` | 3 tracks, a playlist of 2, modes off, pure and smart, orders of up to 3 at a pick, 1 file gone | `QueueTypeOK`, `EagerOrderAnchored`, `CursorInOrder`, `CuratedSurvives` hold |
| `statistics` | 2 tracks, 2 plays or skips, 1 merge or scan, 1 fault, fairness | `TypeOK`, `CountsKept`, `PendingSaved` hold |
| `online` | 2 tracks, 2 capabilities, batches of 2, 1 command, 1 edit, scan or import, 1 fault, fairness | `TypeOK`, `IdleMeansDone`, `UserTextKept`, `SweepEnds` hold |
| `analysis` | 2 tracks, 1 worker, batches of 2, 1 command, 1 edit, scan or import, 1 fault, fairness | `TypeOK`, `IdleMeansDone`, `AnalysedOnce`, `SweepEnds` hold |
| `device_sync` | 2 tracks, 2 lists in 5 selections, 2 titles, 2 contents, numbers up to 3, both layouts and transports, 2 changes, 3 runs, 1 cancellation, 1 fault, fairness | `TypeOK`, `CompletedMatches`, `TrackedUnlessInterrupted`, `IndexNamesFiles`, `RunEnds` hold |
| `duplicates` | 3 tracks, 2 merges, 1 edit, 1 failing call, 1 crash, 1 power failure | `TypeOK`, `NoAudioLost`, `AllOrNothing`, `MirrorConsistent` hold |
| `publication` | 3 ids, 4 paths, 3 operations, 1 rewrite, 1 failing call, 2 crashes or power failures | `TypeOK`, `RowsFindFiles`, `NoOrphans`, `ReplacementRecovers` hold |
| `analysis_preempted` | 2 tracks, 1 command | `ExplicitRunsKept` is violated |
| `queue_cursor` | 3 tracks, a playlist of 2, orders of up to 4 at a pick | `CursorOnCurrent` is violated |

Further configurations are kept beside these. `MCAnalysisTeardown` (3 tracks, 1
worker, batches of 2, 2 commands, 1 fault) passes with `ExplicitKept`, and
`MCQueueTwice` (3 tracks, the library alone, every mode, orders of up to 4 at a pick)
with `EagerOrderAnchored` and `CursorInOrder`. Each of
the others checks one property that the code does not have (see below): `MCJournalStaleList`, `MCJournalCleanup`,
`MCArtworkRace`, `MCArtworkLeft`, `MCQueuePrevious`, `MCOnlineRateLimited`,
`MCOnlineArtwork`, `MCOnlineGrowth`, `MCAnalysisGrowth`, `MCDevicePositions`,
`MCDeviceReverted`, `MCDevicePlaylists`, `MCDuplicatesInterrupted`,
`MCPublicationLeft`, `MCStatisticsSummed`, `MCStatisticsScan` and
`MCStatisticsSkips`.

Bounds. One track is enough for the mirror: rows of different tracks interact
only through the order of the batch, which the model leaves open, and the proof
removes the bound. An edit from each origin lets one overtake the write of
another. In the journal, two tracks and three paths allow a swap-like chain (a destination that
another track has just left), a batch interrupted between its moves, and a second
crash during the recovery of the first. `JournalRecoverable` and
`CrashesKeepRows` are stated for histories without failing calls (the first also
without rewrites), because `MCJournalStaleList` and `MCJournalCleanup` show what
those do; `NoAudioLost` and the refinement are stated with them. In the queue, three tracks are a
current one, a queued one and one more; orders of Smart Shuffle grow by picks, so
picks stop at `MaxOrder`. A track that an order has twice can be moved only
from four entries on: in `queue` `doubled` stays false, and `MCQueueTwice`, which needs
no lost file and no playlist for it, checks what holds beside such moves; the proofs
have no bound. Symmetry is used only in
runs without liveness. In the two schedulers a command, an edit and a fault may
each fall anywhere in the loop, and two tracks are a batch; `MCAnalysisTeardown`
takes a third track because the channel of work (one place per worker and one
more) must be full while explicit work is still lined up, and a second command
because the first is the explicit run. Device sync needs three runs: one to put
files there, one that is interrupted, one that meets what it left; two changes, so
that a content, a title or a selection can be left and come back, and two lists, so
that one can be ticked while the other is not. In the artwork outbox three edits
let a picture be set, superseded and set again; failures and removals have no bound. For the counts, two
tracks are a survivor and its duplicate, and two plays are one saved before a task
and one across it; the proof removes these bounds. Two merges,
and three operations of publication, let one begin on what an interrupted one
left behind.

`CHECK_DEADLOCK FALSE` everywhere: with its edits, faults and crashes bounded,
each system comes to rest.

Each property of a passing run has a mutant in its module (a definition whose
comment begins with "Mutant of"), a plausible bug that breaks it: a completion
that ignores the generation, a checkpoint that is skipped, a removal that does
not clamp the cursor, and so on.

### What the code does against its own words

With a run of its own:

- **An explicit analysis run loses its first track** (`analysis_preempted`). The
  dispatch loop copies the front of its buffer, applies a command that replaces
  the background items by the explicit run, sends the copy and then removes the
  *new* front, unsent (`analysis_scheduler.rs` 781-835). `ExplicitKept` shows
  that this is the only place where an accepted request is lost without a failed
  write, a store error on its row or a restart. In the same way a track
  can be sent while it is in flight, as it can when an outcome of a pool torn down
  acknowledges the next dispatch of its track; `AnalysedOnce` shows that these
  are the only two ways.
- **Cursor off the current track** (`queue_cursor`). Smart Shuffle may pick a track
  that its order has already, and stepping back makes both entries upcoming. A reorder
  moves the first of them (`queue.rs` 878), so that the current track may later be
  queued as well; `remove_from_queue`, which is to refuse the playing track, then
  removes both entries (`queue.rs` 556-558 against 561-583). Once the order is emptied
  in this way, adding to the end of the queue inserts beyond its end (`queue.rs`
  502-503), which panics. `CursorInOrder` shows that such a reorder is the only way off
  the current track, and `EagerOrderAnchored` that it is the only way to an eager order
  that has a track twice.

With a further configuration:

- **Stale rows after a failed batch** (`MCJournalStaleList`). When a
  consolidation fails after moving a file, the runtime keeps the old rows; the next
  consolidation finds nothing at the old path and commits "missing, at the old
  path" over the row of the file it had moved.
- **Startup refused for good** (`MCJournalCleanup`, and for duplicates
  `MCDuplicatesInterrupted`). Recovery links are removed by rename and unlink; a
  crash between the two leaves a name that the sweep at startup does not
  recognise and treats as an error, at every start. The clean-up of a committed
  merge requires every backup (`duplicate_consolidation.rs` 718), so that a
  process that dies half way through it is refused likewise, where
  `docs/features.md` 214-215 promises recovery at the next launch. With a rewrite,
  the consolidation's recovery fails earlier: the metadata writer replaces a
  journaled file, the process dies before the journal is gone, and recovery finds
  an inode that matches neither side (`journal.rs` 265).
- **Dangling artwork** (`MCArtworkRace`). An existing blob is returned as
  published without renewing its age, and a running collection deletes it. The row
  then fails for ever. `DanglingOnlyIfRaced` shows that this overlap is the only
  way.
- **Artwork left behind** (`MCArtworkLeft`). A collection follows only a batch that
  completed an artwork row, and the start. A payload whose track is removed, whose row
  could not be written, or which a failed collection has passed over stays until the
  next one (`metadata_writer.rs` 469). `NoBlobLeaks` shows that these, and a row
  replaced by one that cannot be completed, are the only ways, and that rows which are
  retried for ever leave nothing else behind.
- **Previous goes forward** (`MCQueuePrevious`), when both neighbours of the
  cursor are the same track.
- **A rate-limited capability is not picked up again** (`MCOnlineRateLimited`):
  after a provider upgrade, the stamp of another capability renews the version of
  the whole row (`schema.rs` 777, against `online_scheduler.rs` 18-23).
- **A user's picture overwritten** (`MCOnlineArtwork`): the missing-only guard
  looks at the row read before the lookup (`online_scheduler.rs` 647-703).
- **Work nobody is told of** (`MCOnlineGrowth`, `MCAnalysisGrowth`): a scan that has
  committed its rows and cannot read them back (`library_scan.rs` 153-159, 121-133), an
  import, a CD import, the relocation of a missing track and a missing file found
  again (when it is played, mirrored or replaced) make tracks available
  and wake neither scheduler, where `online_scheduler.rs` 146-148 and
  `analysis_scheduler.rs` 188-190 say that a wake means that the library has grown.
  `IdleMeansDone` shows that these, and replaced audio for the analysis, are the only
  ways for a blocked worker to have something to do.
- **Positions reshuffled, files forgotten** (`MCDevicePositions`): a run that leaves
  copies out saves a manifest without them, so that the old file is no longer
  tracked (against `engine.rs` 293-294) and a later run gives the track a second
  number (`layout.rs` 199, against `docs/features.md` 981-986).
- **An interrupted copy not sent again** (`MCDeviceReverted`). A run copies a changed
  file and fails or dies before its manifest is saved; the file goes back to what it
  was, at the same size; the next run finds the recorded fingerprint, leaves the device
  alone and reports completion, with the other content on the device (`engine.rs` 64,
  against `docs/features.md` 1009-1011, where the comparison "catches" an interrupted
  copy). `CompletedMatches` shows that this is the only way.
- **A playlist file that names nothing** (`MCDevicePlaylists`): the `.m3u8` of a list
  that is no longer ticked is neither rewritten nor removed (`layout.rs` 320-344) and
  names files that a later run removes (`engine.rs` 276-291).
- **Counts lost in a merge** (`MCStatisticsSummed`). A play saved between the
  merge's reading of the rows and the arrival of its result is overwritten by the
  sum or by the stale copy, and one that waits for the removed track is dropped
  (`playback.rs` 714-739, against `docs/features.md` 202). `CountsKept` shows that
  this, the scan below, and a merge whose rows are not read back are the only ways.
- **A play forgotten after a scan** (`MCStatisticsScan`). The rows a scan has read
  back replace the runtime's copy when the main loop gets to them, and with it a play
  saved in between; the next count takes it from the row as well
  (`library_scan.rs` 86, against the comment at 149-150).
- **A skip counted twice** (`MCStatisticsSkips`). The skip is saved before the next
  track is tried, and a missing file leaves the session in place, so that pressing
  Next again counts another skip, which the test at `lib_tests.rs` 5992 calls a bug.
- **A published track left behind** (`MCPublicationLeft`): after a failed flush the
  import reports the file as left in place (`cd_import/task.rs` 240-241) and keeps
  its journal, whose recovery at the next import then removes the file if its row is
  not there (`cd_import/journal.rs` 84).

Without a configuration, each visible in a model: "Add to Queue" stops at the
first source entry and so does not always come after every queued track
(`queue.rs` 474-475 against 853-860); Smart Shuffle also applies to playlists
(`docs/features.md` 477-478 against `queue.rs` 25-27); a track whose row said
"missing" but whose file is back plays from a queue that was built without it
(`playback.rs` 192-237, 286-410); a merge removes the losers' names before the
durable barrier, and only their backups after it (`docs/features.md` 211-214);
a rate limit ends the batch, and the worker goes on with the next query at once
and not, as the comment says, at the next nudge (`online_scheduler.rs` 463-472);
a failing removal ends a device sync although `engine.rs` 319-320 calls it "best-effort";
a supervisor whose whole batch has vanished blocks without a new query and
without reporting that it is idle (`AnalysisScheduler.Stall`); replaced audio is
not analysed again before the next command (`AnalysisScheduler.ReplaceAudio`).

## 4. Fairness

`TagMirrorOutbox` assumes weak fairness of the worker's steps (its thread loops
until shutdown), of `RetryElapses` (waits are bounded by
`retry_delay`, at most 300 s), of `Resume` (the UI calls
`resume_pending_metadata_writes` after every start) and of
`UpdateTrackLocation` (a consolidation ends or is recovered).
Neither the user's edits nor the file's return is fair: `EventuallyMirrored`
speaks of tracks whose file stays where the row finds it.
`ArtworkOutbox` assumes the same of the writer and the publishers' steps, which
may be steps that fail: no row need ever complete.
`OnlineScheduler` and `AnalysisScheduler` assume weak fairness of the worker or
supervisor, of the pool (threads that loop until shutdown; an analysis or a
lookup ends, the provider clients have timeouts) and of the runtime, which
applies a scan's result or its failure. `DeviceSync` assumes it of the run's thread and of the
main loop. `ListeningStatistics` assumes it of the main loop, which runs a command
to its end, and of `Tick`, which a timer calls every second whether or not
anything plays. No user action, failure, crash or restart is fair. The other modules
state safety only.

## 5. What is proved

`TagMirrorOutboxProofs` proves, for all sets of tracks and locations and all
values of the bounds, from `OutboxAssumption` and `NoIntentAssumption` (the
markers for "none" are not real values; bounds are numbers):

- `TypeCorrect`: `Spec => []TypeOK`;
- `NothingLost`: `Spec => []NoLostMirror`;
- `NeverRegresses`: `Spec => MirrorNeverRegresses`.

`NoLostMirror` is not inductive: `Complete` deletes a row on the strength of what
the worker has held since the batch query, so the invariant must say what the
worker knows. `Inductive` adds, for each copy of a row in the batch or in the
worker's hands: the row still exists if the track does, its generation is at least
the copy's, its kinds include the copy's, and *if the generation is the same the
row is the copy*. Under the same generation the values read from the track are
current (`SnapCurrent`) and the kinds already written match them
(`WrittenCurrent`); in any case they are between the tag and the last edit, which
is why no write goes back. `ArtworkCurrent` says that a pending picture is the
last one asked for. There is one lemma per handler or worker step, with two frame
lemmas for steps that touch only locations or only rows. TLC checked `Inductive`
as an invariant first (one and two tracks).

`PublicationProofs` proves of `ArtworkOutbox`, from `ArtworkAssumption`,
`ArtworkTypeCorrect` (`ArtworkSpec => []ArtworkTypeOK`) and `OnlyRacedDangle`
(`ArtworkSpec => []DanglingOnlyIfRaced`). That
a row without a payload was raced is not inductive: while a collection runs, a row
is safe because the collection has read it (`RowsReferenced`); a publisher about
to commit has its blob unless it is marked (`PublishedStays`), and every publisher
a collection meets is marked (`CollectionOverlaps`). Failing calls and removals only take
rows and publications away (`EnqueueFailsKeeps`, `RemoveTrackKeeps`).

`ConsolidationJournalProofs` proves, from `JournalAssumption`, `TypeCorrect`,
`AudioKept` (`Spec => NoAudioLost`), `JournalStaysRecoverable`
(`Spec => []JournalRecoverable`), `RowsKept` (`Spec => []CrashesKeepRows`) and the
refinement `MovesAtomic` (`Spec => AtomicRelocation`). The invariant,
`TypeOK /\ Control /\ Safe /\ (Unfailing => Exact)`, has a part for every execution
and a part for those in which no call has failed. `Control` places the job of each
step: which maps are empty when, that a batch under way is what is journaled, and
that a file between its link and its unlink has both names or the new one. `Safe`
says why recovery links may be swept: whatever they hold has a name in the tree,
except behind a journaled move that failed calls have stripped of both, at which
recovery stops before it sweeps (`Stopped`). `NoAudioLost` needs more than that, since
names also move between the tree and handoff names; `NoNewAudio` and `HeldStep` are
about all of them. In `Exact`, `Apart` keeps tracks off each other's paths,
`RowsRight` has the row, old or new, name one of the two paths of a journaled move
and one of these be the file, `Pins` ties the file's inode to the one recorded,
`PlanRight` and `MovesRight` say of each move that it is to come or done, and
`ListRight` that the list in memory, from which plans are made, has the rows' paths
whenever a plan is made (a journal left by a running process may make it stale, and
then every further operation is refused). For the refinement, `Place(t)` is where
recovery would find a track; `PlaceStep` shows, action by action, that one place
changes at a time and to one no track had. The linking of the destination is where
a relocation happens; it is undone only if the source has changed hands meanwhile.

`OnlineSchedulerProofs` proves, from the module's assumptions, `TypeCorrect`
(`Spec => []TypeOK`), `NoWakeLost` (`Spec => []IdleMeansDone`) and `TextOfUserKept` (`Spec => UserTextKept`). A
blocked worker without a command has nothing to do *under the settings it has*;
that these are the user's needs the history of the channel: the last settings
command in it is the user's latest choice, and the worker's settings are when
there is none (`InForce`). `Blocked` says that what a blocked
worker without a command has to do is for tracks of a scan whose result is on the way,
or that came without a wake (`unwoken`). What a query
returns is described, not computed: `Ascending(S, most)` is the set of sequences
that list the least `most` elements of `S` in order, which TLC enumerates and a proof
uses by its definition (`AscendingElements`, `QueuedItems`).

`AnalysisSchedulerProofs` proves, from `AnalysisAssumption` and `NoItemAssumption`,
`TypeCorrect` (`Spec => []TypeOK`), `OneWorkerEach` (`Spec => []AnalysedOnce`),
`NoWakeLost` (`Spec => []IdleMeansDone`) and `ExplicitRequestsKept`
(`Spec => []ExplicitKept`). That no two workers have a track follows
from where a track can be: the channel of work, the workers, the outcomes still to be
read and what is lined up each have it once at most, none of the first three has it
with another, and all of these have only tracks in flight, of which nothing is lined
up (`Alone`, `LinedUp`); the tracks that a dispatch or a teardown has put out of the
books are exempt, and they are the only ones. `TypeOK` bounds the channel, and says
that nothing is at work without a pool; a dispatch needs one (`Pooled`). `InForce` and
`Blocked` are as in the online scheduler, over a channel that commands of three more
kinds pass through. Filters, the preemption of the buffer and the sweep's query all
select elements of a sequence at some of its positions (`Those`); one lemma says that
a selection takes each position once and in range (`Selection`), from the cardinality
of initial segments, and from it follows what every operation keeps of `Alone` and
`LinedUp` (`Drawn`, `DrawnKeeps`). The same lemma gives the elements of a selection
(`SelectionElements`), by which the explicit requests are followed from the queue
through the buffer and the channel to a worker (`Held`, `DebtsHeld`): a pass over the
queue drops an item only when explicit work of its track is lined up or stands further
in front (`ReadyHolds`, by the first item of each track), and a command, a preemption
and a teardown lose none (`CommandHolds`, `PrioritisedHolds`). An item that is not
sent has no row any more, which takes that explicit work asks for some capability, and
for a track whose row is or was there, from the moment it is sent to the supervisor
(`WorkProper`). So the dispatch of a track in another's place is, for every instance,
the only way by which a request is lost without an error or a restart.

`PlaybackProofs` proves of `ListeningStatistics`, from `StatisticsAssumption`, `TypeCorrect` and
`CountsCorrect` (`Spec => []CountsKept`). A count is written from the runtime's
copy, so the invariant must say where the copy agrees with the row: everywhere
but on raced tracks and on a survivor between the commit and the result
(`InSync`). What a task has read is what it will replace (`MergeCurrent`,
`ScanCurrent`: no track is inserted that the runtime has a count for), and a
session registers at most once (`Unregistered`). The registrations of a track are
the positions at which it waits, and two lemmas about sequences say that one is
added by `Append` and taken by `Tail` (`CountAppended`, `CountTaken`).

`PlaybackProofs` proves of `PlaybackQueue`, from `QueueAssumption`, `QueueTypeCorrect`
(`QueueSpec => []QueueTypeOK`), `CursorStaysInOrder` (`QueueSpec => []CursorInOrder`),
`EagerOrderStaysAnchored` (`QueueSpec => []EagerOrderAnchored`) and the action property
`QueuedTracksSurvive` (`QueueSpec => CuratedSurvives`). Neither invariant about orders is
inductive, because a change of mode turns a lazy order into an eager one and back. The
invariant, `QueueTypeOK /\ Sound /\ CurrentPlayable`, has the cursor in the range of the
order in every execution (`InRange`). Until `doubled`, the order is also `Anchored`: the
current track is at its place (`OnTrack`), an eager order has each track once, and of a
track that a lazy order has twice only the first entry may be a queued one
(`Ordered`): what is queued becomes, by a change of mode, part of an order in which
tracks are found by id. `CurrentPlayable` says that the current track has a row and that
its file was there when last looked for, so that the refresh in the middle of a play
does not take the current track away. A filter leaves a sequence whose entries are those
at some positions of the old one, in their order (`Thinned`, from `Selection`); that this
keeps `Ordered` is a fact about positions and needs no induction. There is one lemma per operation of `queue.rs`. It says
that the result is sound and which queued tracks it keeps; the second half is what
`CuratedSurvives` needs.

`DeviceSyncProofs` proves, from `DeviceAssumption` and `NoFileAssumption`,
`TypeCorrect`, `CompletionMatches` (`Spec => []CompletedMatches`), `IndexStays`
(`Spec => IndexNamesFiles`) and `FilesStayTracked` (`Spec => []TrackedUnlessInterrupted`).
A run leaves a file alone because the manifest has the library's fingerprint for it;
that the device then has this content is a fact about all runs before: what a manifest
records of a file is its content, unless a run has written the file since (`Records`,
for the saved manifest and for the one being built). Contents are any set, so nothing
rests on their being new. `NoneForgotten` and `StaleOrGone` say that a placement is
present, still to be written or dropped by a failed copy, and that what the manifest
listed is placed again, still to be removed or gone; `IndexPlaced` has the playlist
files of ticked lists name what is present. That the device has no file its manifest
does not list holds across runs because a path is dropped from the manifest only when
its file is gone (`Tracked`). That a folder gives each track one number needs more, since
one track may have several files there, under earlier titles: the manifest, and what
the run adds to it, are numbered (`Numbered`, `Merged`), and every file is of the track
its manifest says (`Owned`). A track placed again takes the number of its files
(`NumberKnown`) and new tracks are numbered above the highest, one after the other
(`FreshNumber`, `NumbersApart`). For this
the proof needs the maximum of a finite set; as induction is not available, it is
derived from the well-foundedness of the subset order (`FiniteMax`). For the proofs what is still
to be copied is a set, and `NextFile` picks the next in the order of placements.

`DuplicateConsolidationProofs` proves, from `DuplicateAssumption`, `TypeCorrect`,
`AudioKept` (`Spec => []NoAudioLost`), `EntirelyOrNot`
(`Spec => []AllOrNothing`) and `MirrorKeptConsistent` (`Spec => []MirrorConsistent`). Backups are what keeps audio safe, so the invariant
must say why they may go: by the time recovery files are swept every row, durable
or not, has its file (`Reconciling`). This follows from what a roll-back or a
clean-up has done so far (`RollingBack`, `CleaningUp`), from every backup being
there before a source goes (`Merging`, and `StageAfterLinks` for a roll-back after
a restart, which sees only the stage), and from power failures bringing rows back
but taking none away (`DurableCovers`). Tracks outside the journal are untouched
(`OthersSettled`), which is `AllOrNothing` once there is no journal.
`MirrorConsistent` is about tags and about executions without a power failure
(`TagsRight`): a backup has the tags its row asks for while a merge has not been
decided, so does the stage for the survivor (`MergeTagged`); a journal always finds
the one or the other (`JournalTagged`), and what recovery has given back needs no
mirror row beyond the one there is (`RecoveryTagged`). An edit or a mirror write
during the merge replaces the file under the journal, which recovery tells by its
identity.

`PublicationProofs` proves of `AudioPublication`, from `PublicationAssumption`, `TypeCorrect`,
`RowsHaveFiles` (`Spec => []RowsFindFiles`), `FilesAccountedFor`
(`Spec => []NoOrphans`) and `OneStopRecovers` (`Spec => []ReplacementRecovers`). Again a
part holds always (`Control`: where the operation under way has its row and its
files) and a part while no call has failed (`Exact`). The three properties differ in
how much history they bear: a row's file survives any number of stops while the
user removes no row, because all that a power failure takes back is the row of the
replacement whose original is then still there (`RowsKept`, `Taken`); files have an
owner up to the first stop's recovery only (`Unstopped`, `Answerable`, `FilesOwned`),
since a power failure after that recovery may take back the unflushed row by which
it has let the journal go.
The identifier of a new row is one more than the greatest, with the first one being
1 (`1 \in Ids`).

In each of these modules there is one lemma per action or group of alike actions;
TLC checked each inductive invariant first.

Only model-checked: every liveness property (`EventuallyMirrored`, `NoBlobLeaks`,
`SweepEnds` of both schedulers, `RunEnds`, `PendingSaved`), since liveness under
fairness and `ENABLED` are out of the prover's reach. `ExplicitKept` is proved, and
checked by `MCAnalysisTeardown` only, which is not in the list of runs.

## 6. Plan

1. Managed import, which shares the moves of `ConsolidationJournal` but not its
   journal, and the relocation of a missing track under it.
2. The plan preview of device sync (generations of plans that overlap).

## 7. Not modelled

Managed import and the smart-shuffle scheduler (section 6, or little state).
Changes of the library path while a worker runs. The command-line backfill, which
writes tags beside a running mirror, and power failures under the tag mirror. Dates
of plays and skips, and listened time as a number.

In device sync, two lists of one name (`unique_name` numbers their folders by the
order in which they are ticked), the size of a file as a second mark of a change, and
the splitting of a full folder, which is part of the title here. In the schedulers, a
file found missing during playback or by the mirror is not an action of its own: it
takes work away, as `ScanCommit` may.

Pure I/O and formats (codecs, decoding, encoding, HTTP, MTP, Pioneer, GStreamer,
D-Bus, GTK), numeric code (DSP, similarity), pure functions with exhaustive unit
tests (search, smart-playlist evaluation, totals of statistics), settings, translations,
build material. The picker and the shuffle are any choice; naming templates are
any free path; tag values are versions.

## Running

    tlc -workers 2 -config MCConsolidationJournal.cfg MCConsolidationJournal
    tlapm DuplicateConsolidationProofs.tla
