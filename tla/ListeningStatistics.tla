------------------------- MODULE ListeningStatistics -------------------------
(***************************************************************************)
(* Play and skip counts, from the session that measures listening to the   *)
(* row in SQLite (app_runtime/src/playback.rs,                             *)
(* domain/src/playback_session.rs).  A count is written whole, from the    *)
(* runtime's copy of the row, while the worker of a merge or of a library  *)
(* scan reads and writes the same rows and hands its result back later.    *)
(*                                                                         *)
(* A command runs on the main loop as a sequence of steps, since a worker  *)
(* may come in wherever SQLite is called.  Time is a choice: whenever a    *)
(* session is settled it may or may not have reached its threshold.        *)
(* Which track comes next, and whether its file is there, are choices too. *)
(***************************************************************************)
EXTENDS Naturals, Sequences, FiniteSets

CONSTANTS
    Tracks,        \* track ids
    NoTrack, NoRow, NoSession,
    MaxCounts,     \* bound: plays registered and skips counted
    MaxTasks,      \* bound: merges and scans
    MaxFaults      \* bound: failing calls

Counts     == [plays : Nat, skips : Nat]
SessionIds == 0 .. MaxCounts + 1
\* PlaybackSession; reached and skipped say what the listener did and are
\* read by no action.
Session ==
    [id : SessionIds, track : Tracks, anchored : BOOLEAN,
     status : {"listening", "pending", "registered"}, reached : BOOLEAN, skipped : BOOLEAN]

ASSUME StatisticsAssumption ==
    /\ Tracks \subseteq Nat /\ NoTrack \notin Tracks
    /\ NoRow \notin Counts /\ NoSession \notin Session
    /\ {MaxCounts, MaxTasks, MaxFaults} \subseteq Nat

VARIABLES
    rows,      \* [Tracks -> Counts or NoRow]: SQLite
    library,   \* [Tracks -> Counts or NoRow]: library_tracks
    player,    \* [state, track]: the playback service
    session,   \* Session or NoSession: playback_session
    pending,   \* pending_play_registrations
    ui,        \* where the main loop is: "idle", "retry", "act" or "advance"
    job,       \* the command it executes: [do, track, other]
    task,      \* "none", "merge" or "scan": background_task_status
    step,      \* how far the task's worker is
    pair,      \* of a merge: [survivor, duplicate]
    view,      \* rows as the worker has read them
    due,       \* history: [Tracks -> Counts], what the listener has done
    raced,     \* history: tracks whose counts a task has crossed
    counted, tasks, faults

store   == <<rows, library, raced>>
heard   == <<session, pending, due, counted>>
worker  == <<task, step, pair, view, tasks>>
loop    == <<ui, job>>
vars    == <<store, heard, player, loop, worker, faults>>

Stopped == [state |-> "stopped", track |-> NoTrack]
Nothing == [do |-> "none", track |-> NoTrack, other |-> NoTrack]
NoPair  == [survivor |-> NoTrack, duplicate |-> NoTrack]
Zero    == [plays |-> 0, skips |-> 0]
NoView  == [t \in Tracks |-> NoRow]

Init ==
    /\ rows = [t \in Tracks |-> Zero] /\ library = rows /\ due = rows /\ view = NoView
    /\ player = Stopped /\ session = NoSession /\ pending = <<>>
    /\ ui = "idle" /\ job = Nothing
    /\ task = "none" /\ step = "none" /\ pair = NoPair
    /\ raced = {} /\ counted = 0 /\ tasks = 0 /\ faults = 0

Fault == faults < MaxFaults /\ faults' = faults + 1

\* Registrations of t that are not yet in its row.
Waiting(t) == Cardinality({i \in DOMAIN pending : pending[i].track = t})

-----------------------------------------------------------------------------
(* The session.                                                            *)

SessionOf(t) ==
    LET used == {pending[i].session : i \in DOMAIN pending}
                  \union (IF session = NoSession THEN {} ELSE {session.id})
    IN  [id |-> CHOOSE id \in SessionIds : id \notin used \/ SessionIds \subseteq used,
         track |-> t, anchored |-> TRUE, status |-> "listening",
         reached |-> FALSE, skipped |-> FALSE]

StartSession(t) == session' = SessionOf(t) /\ UNCHANGED <<pending, due, counted>>

\* account_playing_until or freeze_accounting with what follows each of them,
\* enqueue_play_registration_if_needed: the reservation comes first.
ReachThreshold(anchor) ==
    /\ session # NoSession /\ session.anchored /\ session.status = "listening"
    /\ counted < MaxCounts /\ counted' = counted + 1
    /\ session' = [session EXCEPT !.anchored = anchor, !.status = "pending", !.reached = TRUE]
    /\ pending' = Append(pending, [session |-> session.id, track |-> session.track])
    /\ due' = IF session.reached THEN due ELSE [due EXCEPT ![session.track].plays = @ + 1]

Account(anchor) ==
    \/ ReachThreshold(anchor)
    \/ /\ session' = IF session = NoSession THEN session
                     ELSE [session EXCEPT !.anchored = anchor]
       /\ UNCHANGED <<pending, due, counted>>

\* freeze_current_playback_session_at: a baseline that is not set stays unset.
Freeze == Account(FALSE)

-----------------------------------------------------------------------------
(* One count.                                                              *)

\* Tracks whose counts go wrong if t's is written now: the sum of a merge was
\* read before, or the copy the count is taken from, or will be replaced by,
\* is older than the row.
Crossed(t) ==
    IF task = "merge" /\ step = "read" /\ t \in {pair.survivor, pair.duplicate}
    THEN {pair.survivor}
    ELSE IF \/ task = "merge" /\ step = "committed" /\ t = pair.survivor
            \/ task = "scan" /\ step = "reloaded"
         THEN {t} ELSE {}

\* mutate_track_statistics: the row gets all statistics of the copy, and the
\* copy follows.  A track the runtime does not have is passed over, even when a
\* scan has just inserted its row; a row that is gone takes the update without
\* an error.
MutateStatistics(t, counts) ==
    IF library[t] = NoRow
    THEN /\ UNCHANGED <<rows, library>>
         /\ raced' = IF rows[t] = NoRow THEN raced ELSE raced \union {t}
    ELSE /\ rows' = IF rows[t] = NoRow THEN rows ELSE [rows EXCEPT ![t] = counts]
         /\ library' = [library EXCEPT ![t] = counts]
         /\ raced' = raced \union Crossed(t)

Played(t)  == [library[t] EXCEPT !.plays = @ + 1]
Skipped(t) == [library[t] EXCEPT !.skips = @ + 1]

\* retry_pending_play_registrations, one turn of its loop.
CommitPending ==
    /\ ui = "retry" /\ pending # <<>>
    /\ LET first == Head(pending)
       IN  /\ MutateStatistics(first.track, Played(first.track))
           /\ session' = IF session # NoSession /\ session.id = first.session
                         THEN [session EXCEPT !.status = "registered"] ELSE session
    /\ pending' = Tail(pending)
    /\ UNCHANGED <<due, counted, player, loop, worker, faults>>

\* Nothing is left to retry.
RetryDone ==
    /\ ui = "retry" /\ pending = <<>>
    /\ ui' = "act" /\ UNCHANGED <<store, heard, player, job, worker, faults>>

\* The first error ends the loop; the entry stays and so does its reservation.
RetryFails ==
    /\ ui = "retry" /\ pending # <<>> /\ library[Head(pending).track] # NoRow /\ Fault
    /\ ui' = "act" /\ UNCHANGED <<store, heard, player, job, worker>>

-----------------------------------------------------------------------------
(* The transport.                                                          *)

Begin(command) == ui = "idle" /\ job' = command /\ ui' = "retry"
Plain(do) == [Nothing EXCEPT !.do = do]

\* settle_current_playing_session, before the loop of retries.
Settle ==
    IF player.state = "playing" THEN Account(TRUE) ELSE UNCHANGED heard

\* Mutant of Tick: plays are retried only while something plays.
TickWhilePlaying ==
    /\ player.state = "playing" /\ Begin(Nothing)
    /\ IF session = NoSession \/ session.track # player.track
       THEN StartSession(player.track) ELSE Account(TRUE)
    /\ UNCHANGED <<store, player, worker, faults>>

\* on_playback_tick
Tick ==
    /\ Begin(Nothing)
    /\ IF player.state # "playing" THEN Freeze
       ELSE IF session = NoSession \/ session.track # player.track
            THEN StartSession(player.track)
            ELSE Account(TRUE)
    /\ UNCHANGED <<store, player, worker, faults>>

\* pause_playback, stop_playback, seek_playback and skip_current_track settle first.
Request(do) ==
    /\ Begin(Plain(do)) /\ Settle
    /\ do = "skip" => counted < MaxCounts
    /\ UNCHANGED <<store, player, worker, faults>>

\* play_adjacent_track, and the commands that play a given track.  With no
\* track the queue has ended; a file that is not there changes no count.
Advance(t) ==
    /\ ui \in {"idle", "advance"}
    /\ t # NoTrack => library[t] # NoRow
    /\ job' = [Nothing EXCEPT !.do = "play", !.track = t] /\ ui' = "retry" /\ Settle
    /\ UNCHANGED <<store, player, worker, faults>>

\* play_track returns before anything else when the file is not there.
NextUnavailable ==
    /\ ui = "advance" /\ ui' = "idle" /\ job' = Nothing
    /\ UNCHANGED <<store, heard, player, worker, faults>>

Acting(do) == ui = "act" /\ job.do = do
Finish     == ui' = "idle" /\ job' = Nothing
Quietly    == UNCHANGED <<store, worker>>

\* The tick has nothing left to do, nor has a seek, whatever the service answers.
ActNothing ==
    /\ Acting("none") /\ Finish /\ Quietly /\ UNCHANGED <<heard, player, faults>>

\* Mutant of PausedPlayer: whatever it does, it is paused.
PausedAlways == [player EXCEPT !.state = "paused"]

PausedPlayer == IF player.state = "playing" THEN [player EXCEPT !.state = "paused"] ELSE player

\* pause_playback: what was heard until now is accounted, and no more after it.
ActPause ==
    /\ Acting("pause") /\ Finish /\ Quietly
    /\ \/ /\ player' = PausedPlayer /\ Freeze /\ UNCHANGED faults
       \/ Fault /\ UNCHANGED <<player, heard>>

\* A new session for what plays; the unfinished one ends uncounted.  A service
\* that fails keeps the session, and may already be loading the other track.
ActPlay ==
    /\ Acting("play") /\ job.track # NoTrack /\ Finish /\ Quietly
    /\ \/ /\ player' \in [state : {"loading", "playing"}, track : {job.track}]
          /\ StartSession(job.track) /\ UNCHANGED faults
       \/ /\ Fault /\ UNCHANGED heard
          /\ player' \in {player, [state |-> "loading", track |-> job.track]}

\* At the end of the queue the session ends, whether or not the service stops.
ActEnd ==
    /\ Acting("play") /\ job.track = NoTrack /\ Finish /\ Quietly
    /\ session' = NoSession /\ UNCHANGED <<pending, due, counted>>
    /\ \/ player' = Stopped /\ UNCHANGED faults
       \/ Fault /\ UNCHANGED player

\* stop_playback; a service that fails keeps the session.
StopService ==
    \/ /\ player' = Stopped /\ session' = NoSession
       /\ UNCHANGED <<pending, due, counted, faults>>
    \/ Fault /\ UNCHANGED <<player, heard>>

ActStop == Acting("stop") /\ Finish /\ Quietly /\ StopService

\* skip_current_track: a skip is counted unless the play is, and the next track
\* is tried only when the skip was saved.
Skippable == session # NoSession /\ session.status = "listening"

SkipUncounted ==
    /\ Acting("skip") /\ ~Skippable
    /\ ui' = "advance" /\ job' = Nothing /\ Quietly /\ UNCHANGED <<heard, player, faults>>

CountSkip ==
    /\ Acting("skip") /\ Skippable
    /\ MutateStatistics(session.track, Skipped(session.track))
    /\ counted' = counted + 1
    /\ due' = IF library[session.track] = NoRow THEN due
              ELSE [due EXCEPT ![session.track].skips = @ + 1]
    /\ session' = [session EXCEPT !.skipped = TRUE]
    /\ ui' = "advance" /\ job' = Nothing /\ UNCHANGED <<pending, player, worker, faults>>

SkipFails ==
    /\ Acting("skip") /\ Skippable /\ library[session.track] # NoRow /\ Finish /\ Fault
    /\ Quietly /\ UNCHANGED <<heard, player>>

\* resume_playback
Resume ==
    /\ ui = "idle" /\ player.state = "paused"
    /\ player' = [player EXCEPT !.state = "playing"]
    /\ session' = IF session = NoSession THEN session ELSE [session EXCEPT !.anchored = TRUE]
    /\ UNCHANGED <<store, pending, due, counted, loop, worker, faults>>

\* The service reports that the track it loads has started.
Started ==
    /\ ui = "idle" /\ player.state = "loading"
    /\ player' = [player EXCEPT !.state = "playing"]
    /\ UNCHANGED <<store, heard, loop, worker, faults>>

\* handle_playback_backend_error: the service has stopped by itself.
BackendError ==
    /\ ui = "idle" /\ player # Stopped /\ Fault
    /\ player' = Stopped /\ Freeze /\ ui' = "advance"
    /\ UNCHANGED <<store, job, worker>>

-----------------------------------------------------------------------------
(* Commands that stop a track they are about to remove.                    *)

Loaded(t) == player.track = t

\* stop_playback_if_playing settles when one of the tracks is loaded.
Removing(command, tracks) ==
    /\ ui = "idle" /\ task = "none" /\ job' = command
    /\ IF \E t \in tracks : Loaded(t) THEN ui' = "retry" /\ Settle
       ELSE ui' = "act" /\ UNCHANGED heard
    /\ UNCHANGED <<store, player, worker, faults>>

RemoveTrack(t) ==
    /\ library[t] # NoRow
    /\ Removing([Nothing EXCEPT !.do = "remove", !.track = t], {t})

StopAsked == job.track # NoTrack /\ (Loaded(job.track) \/ Loaded(job.other))
StopLoaded == IF StopAsked THEN StopService ELSE UNCHANGED <<player, heard, faults>>

ActRemove ==
    /\ Acting("remove") /\ Finish /\ StopLoaded
    /\ rows' = [rows EXCEPT ![job.track] = NoRow]
    /\ library' = [library EXCEPT ![job.track] = NoRow]
    /\ UNCHANGED <<raced, worker>>

RemoveFails ==
    /\ Acting("remove") /\ Finish /\ Fault
    /\ IF StopAsked
       THEN player' = Stopped /\ session' = NoSession /\ UNCHANGED <<pending, due, counted>>
       ELSE UNCHANGED <<player, heard>>
    /\ Quietly

\* reset_play_count: a registration still waiting is counted afterwards.
ResetPlayCount(t) ==
    /\ ui = "idle" /\ task = "none" /\ library[t] # NoRow
    /\ rows' = IF rows[t] = NoRow THEN rows ELSE [rows EXCEPT ![t] = Zero]
    /\ library' = [library EXCEPT ![t] = Zero]
    /\ due' = [due EXCEPT ![t] = [plays |-> Waiting(t), skips |-> 0]]
    /\ raced' = raced \ {t}
    /\ UNCHANGED <<session, pending, counted, player, loop, worker, faults>>

\* apply_track_updated, after an edit, an analysis or a lookup of t.
ReloadTrack(t) ==
    /\ ui = "idle" /\ rows[t] # NoRow
    /\ library' = [library EXCEPT ![t] = rows[t]]
    /\ UNCHANGED <<rows, raced, heard, player, loop, worker, faults>>

-----------------------------------------------------------------------------
(* A merge of two duplicates, on the metadata writer's thread.             *)

Goes(next) == step' = next /\ UNCHANGED <<task, pair, tasks>>
Beside     == UNCHANGED <<player, loop>>

\* consolidate_duplicate_tracks
MergeDuplicates(survivor, duplicate) ==
    /\ tasks < MaxTasks /\ survivor # duplicate
    /\ Removing([do |-> "merge", track |-> survivor, other |-> duplicate],
                {survivor, duplicate})

ActMerge ==
    /\ Acting("merge") /\ Finish /\ StopLoaded
    /\ task' = "merge" /\ step' = "started" /\ tasks' = tasks + 1
    /\ pair' = [survivor |-> job.track, duplicate |-> job.other]
    /\ UNCHANGED <<view, store>>

\* The worker reads the rows it plans the survivor's statistics from.
MergeReads ==
    /\ task = "merge" /\ step = "started"
    /\ rows[pair.survivor] # NoRow /\ rows[pair.duplicate] # NoRow
    /\ view' = rows /\ Goes("read")
    /\ UNCHANGED <<store, heard, faults>> /\ Beside

Sum(c, d) == [plays |-> c.plays + d.plays, skips |-> c.skips + d.skips]

\* commit_duplicate_consolidation: counts are summed (plan_duplicate_consolidation).
MergeCommits ==
    /\ task = "merge" /\ step = "read"
    /\ LET s == pair.survivor
           d == pair.duplicate
       IN  /\ rows' = [rows EXCEPT ![s] = Sum(view[s], view[d]), ![d] = NoRow]
           /\ due' = [due EXCEPT ![s] = Sum(@, due[d])]
           /\ raced' = IF d \in raced \/ Waiting(d) > 0 THEN raced \union {s} ELSE raced
    /\ view' = NoView /\ Goes("committed")
    /\ UNCHANGED <<library, session, pending, counted, faults>> /\ Beside

\* Any call before the commit may fail, and rows that are gone refuse the merge.
MergeFails ==
    /\ task = "merge" /\ step \in {"started", "read"}
    /\ \/ Fault
       \/ /\ step = "started" /\ NoRow \in {rows[pair.survivor], rows[pair.duplicate]}
          /\ UNCHANGED faults
    /\ view' = NoView /\ Goes("failed") /\ UNCHANGED <<store, heard>> /\ Beside

\* flush_durable fails after the commit: the merge counts as failed, and its
\* rows are not read back.
FlushFails ==
    /\ task = "merge" /\ step = "committed" /\ Fault
    /\ raced' = raced \union {pair.survivor}
    /\ Goes("failed") /\ UNCHANGED <<view, rows, library, heard>> /\ Beside

Ended == task' = "none" /\ step' = "none" /\ pair' = NoPair /\ view' = NoView /\ UNCHANGED tasks

\* Mutant of ApplyMerge: only the removed track leaves the runtime's copy.
ApplyMergeRemoving ==
    /\ ui = "idle" /\ task = "merge" /\ step = "committed" /\ Ended
    /\ library' = [library EXCEPT ![pair.duplicate] = NoRow]
    /\ UNCHANGED <<rows, raced, heard, faults>> /\ Beside

\* apply_duplicate_consolidation_result: all rows are read again.
ApplyMerge ==
    /\ ui = "idle" /\ task = "merge" /\ step = "committed" /\ Ended
    /\ library' = rows
    /\ UNCHANGED <<rows, raced, heard, faults>> /\ Beside

\* They cannot be read, and the copy stays as it is.
ApplyMergeUnread ==
    /\ ui = "idle" /\ task = "merge" /\ step = "committed" /\ Fault /\ Ended
    /\ raced' = raced \union {pair.survivor}
    /\ UNCHANGED <<rows, library, heard>> /\ Beside

-----------------------------------------------------------------------------
(* A library scan, on a thread of its own.                                 *)

\* prepare_library_scan
StartScan ==
    /\ ui = "idle" /\ task = "none" /\ tasks < MaxTasks
    /\ task' = "scan" /\ step' = "started" /\ tasks' = tasks + 1
    /\ view' = library
    /\ UNCHANGED <<pair, store, heard, faults>> /\ Beside

\* next_track_id: one more than the largest id the runtime had.
IsNextId(t) ==
    LET known == {u \in Tracks : view[u] # NoRow}
    IN  /\ \A u \in known : u < t
        /\ t = 1 \/ t - 1 \in known

\* reconcile_scanned_tracks: statistics of a row that is there are left alone,
\* and a track without a row is inserted, a file the scan found included.
ScanReconciles(found) ==
    /\ task = "scan" /\ step = "started" /\ \A t \in found : IsNextId(t)
    /\ LET scanned(t)  == IF t \in found THEN Zero ELSE view[t]
           inserted == {t \in Tracks : rows[t] = NoRow /\ scanned(t) # NoRow}
       IN  /\ rows' = [t \in Tracks |-> IF t \in inserted THEN scanned(t) ELSE rows[t]]
           /\ due' = [t \in Tracks |-> IF t \in inserted THEN scanned(t) ELSE due[t]]
           /\ raced' = raced \union {t \in inserted : t \notin found \/ Waiting(t) > 0}
    /\ view' = NoView /\ Goes("reconciled")
    /\ UNCHANGED <<library, session, pending, counted, faults>> /\ Beside

\* run_library_scan_task ends by reading the rows again.
ScanReloads ==
    /\ task = "scan" /\ step = "reconciled"
    /\ view' = rows /\ Goes("reloaded")
    /\ UNCHANGED <<store, heard, faults>> /\ Beside

ScanFails ==
    /\ task = "scan" /\ step \in {"started", "reconciled"} /\ Fault
    /\ view' = NoView /\ Goes("failed") /\ UNCHANGED <<store, heard>> /\ Beside

\* apply_library_scan_result
ApplyScan ==
    /\ ui = "idle" /\ task = "scan" /\ step = "reloaded" /\ Ended
    /\ library' = view
    /\ UNCHANGED <<rows, raced, heard, faults>> /\ Beside

\* fail_library_scan, and the outcome of a merge that failed.
ApplyFailure ==
    /\ ui = "idle" /\ step = "failed" /\ Ended
    /\ UNCHANGED <<store, heard, faults>> /\ Beside

\* The process ends and the next one reads the rows; what waits in memory is lost.
Restart ==
    /\ Fault
    /\ library' = rows /\ raced' = {}
    /\ due' = [t \in Tracks |-> IF rows[t] = NoRow THEN Zero ELSE rows[t]]
    /\ player' = Stopped /\ session' = NoSession /\ pending' = <<>>
    /\ Finish /\ Ended
    /\ UNCHANGED <<rows, counted>>

-----------------------------------------------------------------------------
MainLoop ==
    \/ CommitPending \/ RetryDone \/ RetryFails \/ NextUnavailable
    \/ ActNothing \/ ActPause \/ ActPlay \/ ActEnd \/ ActStop
    \/ SkipUncounted \/ CountSkip \/ SkipFails \/ ActRemove \/ RemoveFails \/ ActMerge

User ==
    \/ \E do \in {"pause", "stop", "skip"} : Request(do)
    \/ Request("none")  \* a seek
    \/ \E t \in Tracks \union {NoTrack} : Advance(t)
    \/ \E t \in Tracks : RemoveTrack(t) \/ ResetPlayCount(t) \/ ReloadTrack(t)
    \/ \E s, d \in Tracks : MergeDuplicates(s, d)
    \/ StartScan \/ Resume

Worker ==
    \/ MergeReads \/ MergeCommits \/ MergeFails \/ FlushFails
    \/ \E found \in SUBSET Tracks : ScanReconciles(found)
    \/ ScanReloads \/ ScanFails

Next ==
    \/ MainLoop \/ Tick \/ User \/ Worker
    \/ Started \/ BackendError
    \/ ApplyMerge \/ ApplyMergeUnread \/ ApplyScan \/ ApplyFailure
    \/ Restart

Spec == Init /\ [][Next]_vars

\* A command runs to its end, and the tick comes every second.
Fairness == WF_vars(MainLoop) /\ WF_vars(Tick)
FairSpec == Spec /\ Fairness

-----------------------------------------------------------------------------
(* Properties.                                                             *)

Transport ==
    [state : {"loading", "playing", "paused"}, track : Tracks] \union {Stopped}

\* The type of every variable.
TypeOK ==
    /\ rows \in [Tracks -> Counts \union {NoRow}]
    /\ library \in [Tracks -> Counts \union {NoRow}]
    /\ view \in [Tracks -> Counts \union {NoRow}]
    /\ due \in [Tracks -> Counts] /\ raced \subseteq Tracks
    /\ player \in Transport /\ session \in Session \union {NoSession}
    /\ pending \in Seq([session : SessionIds, track : Tracks])
    /\ ui \in {"idle", "retry", "act", "advance"}
    /\ task \in {"none", "merge", "scan"}
    /\ step \in {"none", "started", "read", "committed", "reconciled", "reloaded", "failed"}
    /\ task = "merge" => pair \in [survivor : Tracks, duplicate : Tracks]
    /\ counted \in 0 .. MaxCounts
    /\ tasks \in 0 .. MaxTasks /\ faults \in 0 .. MaxFaults

\* Safety: a row's counts and the registrations that wait for it (they are
\* retried until they are saved) are the plays and skips there were, for each
\* session one play at most, also after failed writes, resets, merges and
\* scans, unless a count was written in the middle of a merge or between the
\* end of a scan and its result (mutate_track_statistics).
CountsKept ==
    \A t \in Tracks \ raced : rows[t] # NoRow =>
        /\ rows[t].plays + Waiting(t) = due[t].plays
        /\ rows[t].skips = due[t].skips

\* Liveness: while failures are bounded no registration waits for good; the
\* tick retries whether or not anything plays (on_playback_tick).
PendingSaved == []<>(pending = <<>>)

\* What features.md 202 says of a merge: counts are summed.
CountsSummed ==
    \A t \in Tracks : rows[t] # NoRow => rows[t].plays + Waiting(t) >= due[t].plays

\* What library_scan.rs 149-150 says: plays committed during a scan survive in memory.
MemoryCurrent ==
    \A t \in Tracks : task = "none" /\ rows[t] # NoRow => library[t] = rows[t]

\* What the test at lib_tests.rs 5992 says of skips: no session counts twice.
SkipsEndSessions == ui = "idle" /\ session # NoSession => ~session.skipped
=============================================================================
