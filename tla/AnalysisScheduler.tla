--------------------------- MODULE AnalysisScheduler ---------------------------
(***************************************************************************)
(* The supervisor that analyses tracks in a pool of worker threads         *)
(* (app_runtime/src/analysis_scheduler.rs) with the table of attempts it   *)
(* keeps (track_analysis).  Commands reach it through a channel; work goes *)
(* to the workers through a bounded channel, and their outcomes come back  *)
(* through a third.  Explicit requests go before the background sweep.     *)
(*                                                                         *)
(* A resource preset or BPM range that changes tears the pool down: the    *)
(* supervisor closes the channel of work and joins the workers, which      *)
(* first do what it still holds.  Steps that join wait until Quiet.        *)
(***************************************************************************)
EXTENDS Naturals, Sequences, FiniteSets, FiniteSetsExt, SequencesExt, Selections

CONSTANTS
    Tracks,
    Caps,          \* capabilities: "bpm", "key", "audio"
    Requests,      \* explicit runs the user may ask for: [tracks, caps]
    Preferences,   \* values of AnalysisSettings the user may choose
    Workers,       \* size of the pool
    BatchSize,     \* BATCH_SIZE
    NoItem,
    MaxCommands,   \* bound: commands the user sends
    MaxEdits,      \* bound: scans, removals and replacements of audio
    MaxFaults      \* bound: store errors and process deaths

ASSUME AnalysisAssumption ==
    /\ Tracks \subseteq Nat /\ IsFiniteSet(Tracks)
    /\ Caps \subseteq {"bpm", "key", "audio"}
    /\ Preferences \subseteq SUBSET Caps
    /\ Requests \subseteq [tracks : Seq(Tracks), caps : (SUBSET Caps) \ {{}}]
    /\ Workers \in Nat \ {0} /\ BatchSize \in Nat \ {0}
    /\ MaxCommands \in Nat /\ MaxEdits \in Nat /\ MaxFaults \in Nat

Item == [track : Tracks, caps : SUBSET Caps, explicit : BOOLEAN]
ASSUME NoItemAssumption == NoItem \notin Item

Commands ==
    [kind : {"settings"}, caps : SUBSET Caps] \union [kind : {"wake", "respawn"}]
      \union [kind : {"explicit"}, tracks : Seq(Tracks), caps : SUBSET Caps]

VARIABLES
    state,      \* [Tracks -> {"new", "missing", "available", "removed"}]
    stamped,    \* [Tracks -> SUBSET Caps]: attempted_at columns not NULL
    current,    \* [Tracks -> BOOLEAN]: analyzer_version is this build's
    prefs,      \* the persisted AnalysisSettings
    scan,       \* tracks a scan has committed whose result is not yet applied
    channel,    \* commands sent and not yet received
    settings,   \* the supervisor's AnalysisSettings
    queue,      \* explicit_queue
    pending,    \* items lined up and not yet sent to a worker
    inFlight,   \* tracks sent and not acknowledged
    rejected,   \* pending_persistence_error is set
    pool,       \* a pool is alive
    torn,       \* a command drained at the top has torn the pool down
    pc,         \* where the supervisor is
    cur,        \* the item being dispatched
    work,       \* the bounded channel of work
    busy,       \* items the workers hold
    outcomes,   \* the channel of outcomes: [track, rejected]
    owed,       \* history: tracks of explicit runs taken in, not analysed for them since
    shadowed,   \* history: tracks that another item's dispatch took out of pending
    stale,      \* history: tracks whose outcome outlived the pool that made it
    unwoken,    \* history: tracks with new work and no command since
    commands, edits, faults

rows    == <<state, stamped, current>>
lined   == <<queue, pending>>
threads == <<work, busy, outcomes>>
super   == <<settings, lined, inFlight, rejected, pool, torn, pc, cur>>
history == <<owed, shadowed, stale, unwoken>>
bounds  == <<commands, edits, faults>>
vars == <<rows, prefs, scan, channel, super, threads, history, bounds>>

\* Rows and stamps an earlier build, with an older analyzer version, may have left.
Init ==
    /\ state \in [Tracks -> {"new", "available"}]
    /\ stamped \in [Tracks -> {{}, Caps}]
    /\ \A t \in Tracks : state[t] = "new" => stamped[t] = {}
    /\ current = [t \in Tracks |-> FALSE]
    /\ prefs \in Preferences /\ scan = {}
    /\ channel = <<>> /\ settings = prefs /\ queue = <<>> /\ pending = <<>>
    /\ inFlight = {} /\ rejected = FALSE /\ pool = FALSE /\ torn = FALSE
    /\ pc = "top" /\ cur = NoItem
    /\ work = <<>> /\ busy = <<>> /\ outcomes = <<>>
    /\ owed = {} /\ shadowed = {} /\ stale = {} /\ unwoken = {}
    /\ commands = 0 /\ edits = 0 /\ faults = 0

Fault == faults < MaxFaults /\ faults' = faults + 1
Send(command) == channel' = Append(channel, command)

-----------------------------------------------------------------------------
(* The store.                                                              *)

\* SELECT_TRACKS_NEEDING_ANALYSIS_SQL
Needs(t, c) == state[t] = "available" /\ (c \notin stamped[t] \/ ~current[t])
NeedsAny(t, caps) == \E c \in caps : Needs(t, c)
Needing(caps) == {t \in Tracks : NeedsAny(t, caps)}

\* UPSERT_TRACK_ANALYSIS_SQL: the columns of what was attempted, and the
\* analyzer version of the whole row.
Stamp(t, caps) ==
    /\ stamped' = [stamped EXCEPT ![t] = @ \union caps]
    /\ current' = [current EXCEPT ![t] = TRUE]

-----------------------------------------------------------------------------
(* The runtime, on the user-interface thread.                              *)

Command == commands < MaxCommands /\ commands' = commands + 1
Edit == edits < MaxEdits /\ edits' = edits + 1

ChangeSettings(caps) ==
    /\ Command /\ caps # prefs
    /\ prefs' = caps
    /\ Send([kind |-> "settings", caps |-> caps])
    /\ unwoken' = {}
    /\ UNCHANGED <<rows, scan, super, threads, owed, shadowed, stale, edits, faults>>

\* The resource preset, or the BPM range of the settings.
ChangePool ==
    /\ Command
    /\ Send([kind |-> "respawn"])
    /\ unwoken' = {}
    /\ UNCHANGED <<rows, prefs, scan, super, threads, owed, shadowed, stale, edits, faults>>

\* request_tracks_analysis_run: one capability is refused when the background
\* sweep has it on; tracks that need nothing are left out.
RequestExplicitRun(request) ==
    LET asked   == request.tracks
        needing == Those(asked, {i \in DOMAIN asked : NeedsAny(asked[i], request.caps)}) IN
    /\ Command
    /\ request.caps = Caps \/ request.caps \intersect prefs = {}
    /\ needing # <<>>
    /\ Send([kind |-> "explicit", tracks |-> needing, caps |-> request.caps])
    /\ unwoken' = {}
    /\ UNCHANGED <<rows, prefs, scan, super, threads, owed, shadowed, stale, edits, faults>>

\* The stamps of a removed row go with it (ON DELETE CASCADE).
RemoveTrack(t) ==
    /\ Edit /\ state[t] \in {"available", "missing"}
    /\ state' = [state EXCEPT ![t] = "removed"]
    /\ stamped' = [stamped EXCEPT ![t] = {}] /\ current' = [current EXCEPT ![t] = FALSE]
    /\ UNCHANGED <<prefs, scan, channel, super, threads, history, commands, faults>>

\* The row's audio is replaced and its analysis deleted; nobody wakes the supervisor.
ReplaceAudio(t) ==
    /\ Edit /\ state[t] \in {"available", "missing"}
    /\ state' = [state EXCEPT ![t] = "available"]
    /\ stamped' = [stamped EXCEPT ![t] = {}] /\ current' = [current EXCEPT ![t] = FALSE]
    /\ unwoken' = unwoken \union {t}
    /\ UNCHANGED <<prefs, scan, channel, super, threads, owed, shadowed, stale,
                   commands, faults>>

\* A track becomes available and nobody wakes the supervisor: an import or a CD
\* import adds it, or a missing one is relocated, or found again when it is played
\* or its tags are mirrored.
TrackArrives(t) ==
    /\ Edit /\ state[t] \in {"new", "missing"}
    /\ state' = [state EXCEPT ![t] = "available"]
    /\ unwoken' = unwoken \union {t}
    /\ UNCHANGED <<stamped, current, prefs, scan, channel, super, threads, owed, shadowed,
                   stale, commands, faults>>

\* A scan commits, on its own thread, files that appeared or went away.
ScanCommit(t, found) ==
    /\ scan = {} /\ Edit
    /\ state[t] \in IF found THEN {"new", "missing"} ELSE {"available"}
    /\ state' = [state EXCEPT ![t] = IF found THEN "available" ELSE "missing"]
    /\ scan' = {t}
    /\ UNCHANGED <<stamped, current, prefs, channel, super, threads, history,
                   commands, faults>>

\* Mutant of ApplyScanResult: the supervisor is not woken.
ApplyScanResultSilently ==
    /\ scan # {} /\ scan' = {}
    /\ UNCHANGED <<rows, prefs, channel, super, threads, history, bounds>>

\* apply_library_scan_result wakes the supervisor.
ApplyScanResult ==
    /\ scan # {} /\ scan' = {}
    /\ Send([kind |-> "wake"])
    /\ unwoken' = {}
    /\ UNCHANGED <<rows, prefs, super, threads, owed, shadowed, stale, bounds>>

\* The rows are committed and cannot be read back: fail_library_scan wakes nobody.
ScanReloadFails ==
    /\ scan # {} /\ Fault
    /\ scan' = {}
    /\ unwoken' = unwoken \union scan
    /\ UNCHANGED <<rows, prefs, channel, super, threads, owed, shadowed, stale,
                   commands, edits>>

-----------------------------------------------------------------------------
(* Commands and the order of the work.                                     *)

\* Everything handed to the workers is done.
Quiet == work = <<>> /\ busy = <<>>

\* Mutant of Join: the channel is closed and nobody is joined.
CloseOnly == pool' = FALSE

\* WorkerPool::shutdown
Join == Quiet /\ pool' = FALSE

\* A track already queued is not queued again, whatever was asked for it.
Queued(request) ==
    LET waiting == {queue[i].track : i \in DOMAIN queue}
        fresh == Those(request.tracks,
                       {i \in DOMAIN request.tracks : request.tracks[i] \notin waiting})
    IN [i \in DOMAIN fresh |->
            [track |-> fresh[i], caps |-> request.caps, explicit |-> TRUE]]

\* The queue and the debts once the next command is applied; a respawn joins.
AfterCommand ==
    LET command == IF channel = <<>> THEN [kind |-> "wake"] ELSE Head(channel)
        taken == IF command.kind = "explicit" THEN Queued(command) ELSE <<>>
    IN [settings |-> IF command.kind = "settings" THEN command.caps ELSE settings,
        queue    |-> queue \o taken,
        owed     |-> owed \union {taken[i].track : i \in DOMAIN taken},
        joins    |-> command.kind = "respawn" /\ pool]

ApplyCommand ==
    /\ channel' = IF channel = <<>> THEN <<>> ELSE Tail(channel)
    /\ settings' = AfterCommand.settings
    /\ owed' = AfterCommand.owed
    /\ IF AfterCommand.joins THEN Join ELSE UNCHANGED pool

Explicit(items) == Those(items, {i \in DOMAIN items : items[i].explicit})
TracksOf(items) == {items[i].track : i \in DOMAIN items}

\* drain_ready_explicit_work: one pass over the queue, until a batch is lined up.
\* A track in flight goes to the back, one lined up already is dropped.
Ready(waiting, lineup, flying) ==
    LET free   == {i \in DOMAIN waiting : waiting[i].track \notin flying}
        fresh  == {i \in free : /\ waiting[i].track \notin TracksOf(lineup)
                               /\ \A j \in DOMAIN waiting :
                                     j < i => waiting[j].track # waiting[i].track}
        passed == {i \in DOMAIN waiting :
                     Len(lineup) + Cardinality({j \in fresh : j < i}) < BatchSize}
    IN [queue   |-> Those(waiting, DOMAIN waiting \ passed) \o Those(waiting, passed \ free),
        pending |-> lineup \o Those(waiting, fresh \intersect passed)]

\* prioritize_explicit_work
Prioritised(waiting, lineup, flying) ==
    IF waiting = <<>> THEN [queue |-> waiting, pending |-> lineup]
    ELSE Ready(waiting, Explicit(lineup), flying)

LineUp(next) == queue' = next.queue /\ pending' = next.pending

-----------------------------------------------------------------------------
(* The supervisor.                                                         *)

DrainCommand ==
    /\ pc = "top" /\ channel # <<>>
    /\ ApplyCommand
    /\ queue' = AfterCommand.queue
    /\ torn' = (torn \/ AfterCommand.joins)
    /\ UNCHANGED <<rows, prefs, scan, pending, inFlight, rejected, pc, cur, threads,
                   shadowed, stale, unwoken, bounds>>

\* Mutant of Preserved: a teardown drops everything lined up.
PreservedNothing == queue

\* Explicit items lined up go back to the front of the queue.
Preserved == Explicit(pending) \o queue

\* After a teardown the bookkeeping starts afresh; then explicit work goes first.
Prioritise ==
    /\ pc = "top" /\ channel = <<>>
    /\ LineUp(IF torn THEN Prioritised(Preserved, <<>>, {})
              ELSE Prioritised(queue, pending, inFlight))
    /\ inFlight' = IF torn THEN {} ELSE inFlight
    /\ stale' = IF torn THEN stale \union TracksOf(outcomes) ELSE stale
    /\ torn' = FALSE
    /\ pc' = IF rejected THEN "reject" ELSE "plan"
    /\ UNCHANGED <<rows, prefs, scan, channel, settings, rejected, pool, cur, threads, owed,
                   shadowed, unwoken, bounds>>

\* A rejected write: join, discard the outcomes and wait for a command.
StopSweep ==
    /\ pc = "reject"
    /\ Join
    /\ outcomes' = <<>> /\ inFlight' = {} /\ rejected' = FALSE
    /\ pc' = "halted"
    /\ UNCHANGED <<rows, prefs, scan, channel, settings, lined, torn, cur, work, busy,
                   history, bounds>>

\* The tracks a sequence of outcomes acknowledges; a rejected one stays in flight.
Acknowledged(some) == {o.track : o \in {some[i] : i \in {j \in DOMAIN some : ~some[j].rejected}}}
AnyRejected(some) == \E i \in DOMAIN some : some[i].rejected

Unasked == settings = {} /\ queue = <<>> /\ pending = <<>>

\* Nothing is asked for: fold what has come in, then wait for the rest.
AwaitTail ==
    /\ pc = "plan" /\ Unasked
    /\ outcomes' = <<>>
    /\ inFlight' = inFlight \ Acknowledged(outcomes)
    /\ rejected' = (rejected \/ AnyRejected(outcomes))
    /\ inFlight' # {}
    /\ pc' = "wait"
    /\ UNCHANGED <<rows, prefs, scan, channel, settings, lined, pool, torn, cur, work, busy,
                   history, bounds>>

GoIdle ==
    /\ pc = "plan" /\ Unasked
    /\ inFlight \subseteq Acknowledged(outcomes)
    /\ Join
    /\ outcomes' = <<>> /\ inFlight' = {}
    /\ rejected' = (rejected \/ AnyRejected(outcomes))
    /\ pc' = "idle"
    /\ UNCHANGED <<rows, prefs, scan, channel, settings, lined, torn, cur, work, busy,
                   history, bounds>>

\* The count of the run's tracks, or the query below, fails.
QueryFails ==
    /\ pc = "plan" /\ ~Unasked /\ settings # {}
    /\ Fault
    /\ Join
    /\ pc' = "halted"
    /\ UNCHANGED <<rows, prefs, scan, channel, settings, lined, inFlight, rejected, torn,
                   cur, threads, history, commands, edits>>

\* Mutant of Fresh: tracks in flight are not filtered out.
FreshOrInFlight(found) == found

\* tracks_needing_analysis still reports the tracks in flight.
Fresh(found) == Those(found, {i \in DOMAIN found : found[i] \notin inFlight})

\* The sweep fills an empty buffer, by id, when no explicit work waits.
Swept ==
    LET found == Those([t \in Tracks |-> t], Needing(settings))
        limit == Min({Len(found), BatchSize + Cardinality(inFlight)})
        fresh == Fresh(SubSeq(found, 1, limit))
    IN [i \in DOMAIN fresh |->
            [track |-> fresh[i], caps |-> settings, explicit |-> FALSE]]

Refilled == IF pending = <<>> /\ queue = <<>> THEN Swept ELSE pending
CaughtUp == Refilled = <<>> /\ queue = <<>> /\ inFlight = {}

Refill ==
    /\ pc = "plan" /\ ~Unasked /\ ~CaughtUp
    /\ pool' = TRUE
    /\ pending' = Refilled
    /\ pc' = "dispatch"
    /\ UNCHANGED <<rows, prefs, scan, channel, settings, queue, inFlight, rejected, torn,
                   cur, threads, history, bounds>>

FinishSweep ==
    /\ pc = "plan" /\ ~Unasked /\ CaughtUp
    /\ Join
    /\ pc' = "idle"
    /\ UNCHANGED <<rows, prefs, scan, channel, settings, lined, inFlight, rejected, torn,
                   cur, threads, history, bounds>>

\* The front of pending is taken; then one command is applied, which may put
\* other items in its place.  Without a pool the dispatch ends.
TakeItem ==
    LET next == Prioritised(AfterCommand.queue, pending, inFlight) IN
    /\ pc = "dispatch" /\ pending # <<>>
    /\ ApplyCommand
    /\ IF pool' THEN LineUp(next) /\ cur' = Head(pending) /\ pc' = "send"
       ELSE queue' = AfterCommand.queue /\ pc' = "wait" /\ UNCHANGED <<pending, cur>>
    /\ UNCHANGED <<rows, prefs, scan, inFlight, rejected, torn, threads, shadowed, stale,
                   unwoken, bounds>>

DispatchCaps == IF cur.explicit THEN cur.caps ELSE settings

\* pending.pop_front(): whatever is in front by now.
PopFront ==
    /\ pending' = IF pending = <<>> THEN <<>> ELSE Tail(pending)
    /\ shadowed' = IF pending # <<>> /\ Head(pending) # cur
                   THEN shadowed \union {cur.track, Head(pending).track} ELSE shadowed
    /\ cur' = NoItem

\* The capability has been switched off, or the row is gone.
SkipItem ==
    /\ pc = "send"
    /\ DispatchCaps = {} \/ state[cur.track] \in {"new", "removed"}
    /\ PopFront
    /\ pc' = "dispatch"
    /\ UNCHANGED <<rows, prefs, scan, channel, settings, queue, inFlight, rejected, pool,
                   torn, threads, owed, stale, unwoken, bounds>>

\* A worker too few: what could not be sent stays lined up.
ChannelFull ==
    /\ pc = "send" /\ DispatchCaps # {} /\ Len(work) > Workers
    /\ cur' = NoItem /\ pc' = "wait"
    /\ UNCHANGED <<rows, prefs, scan, channel, settings, lined, inFlight, rejected, pool,
                   torn, threads, history, bounds>>

SendItem ==
    /\ pc = "send" /\ DispatchCaps # {} /\ Len(work) <= Workers
    /\ state[cur.track] \notin {"new", "removed"}
    /\ work' = Append(work, [cur EXCEPT !.caps = DispatchCaps])
    /\ inFlight' = inFlight \union {cur.track}
    /\ PopFront
    /\ pc' = "dispatch"
    /\ UNCHANGED <<rows, prefs, scan, channel, settings, queue, rejected, pool, torn, busy,
                   outcomes, owed, stale, unwoken, bounds>>

\* A store error on the row drops the item like a vanished one.
ReadFails ==
    /\ pc = "send" /\ DispatchCaps # {}
    /\ Fault
    /\ PopFront
    /\ owed' = IF cur.explicit THEN owed \ {cur.track} ELSE owed
    /\ pc' = "dispatch"
    /\ UNCHANGED <<rows, prefs, scan, channel, settings, queue, inFlight, rejected, pool,
                   torn, threads, stale, unwoken, commands, edits>>

DispatchDone ==
    /\ pc = "dispatch" /\ pending = <<>>
    /\ pc' = "wait"
    /\ UNCHANGED <<rows, prefs, scan, channel, settings, lined, inFlight, rejected, pool,
                   torn, cur, threads, history, bounds>>

\* Everything lined up has vanished: the supervisor blocks without a new query.
Stall ==
    /\ pc = "wait" /\ inFlight = {} /\ pending = <<>> /\ queue = <<>>
    /\ pc' = "stalled"
    /\ UNCHANGED <<rows, prefs, scan, channel, settings, lined, inFlight, rejected, pool,
                   torn, cur, threads, history, bounds>>

\* recv_timeout: one outcome, or none in time.
Wait ==
    LET some == SubSeq(outcomes, 1, Min({1, Len(outcomes)})) IN
    /\ pc = "wait" /\ ~(inFlight = {} /\ pending = <<>> /\ queue = <<>>)
    /\ outcomes' = SubSeq(outcomes, Len(some) + 1, Len(outcomes))
    /\ inFlight' = inFlight \ Acknowledged(some)
    /\ rejected' = (rejected \/ AnyRejected(some))
    /\ pc' = "top"
    /\ UNCHANGED <<rows, prefs, scan, channel, settings, lined, pool, torn, cur, work, busy,
                   history, bounds>>

\* block_for_next_command
Receive ==
    /\ pc \in {"idle", "halted", "stalled"} /\ channel # <<>>
    /\ ApplyCommand
    /\ queue' = AfterCommand.queue
    /\ pc' = "top"
    /\ UNCHANGED <<rows, prefs, scan, pending, inFlight, rejected, torn, cur, threads,
                   shadowed, stale, unwoken, bounds>>

-----------------------------------------------------------------------------
(* worker_loop: the analysis runs between TakeWork and the steps below.     *)

TakeWork ==
    /\ work # <<>> /\ Len(busy) < Workers
    /\ busy' = Append(busy, Head(work)) /\ work' = Tail(work)
    /\ UNCHANGED <<rows, prefs, scan, channel, super, outcomes, history, bounds>>

Report(i, refused) ==
    /\ busy' = RemoveAt(busy, i)
    /\ outcomes' = Append(outcomes, [track |-> busy[i].track, rejected |-> refused])
    /\ owed' = IF busy[i].explicit THEN owed \ {busy[i].track} ELSE owed
    /\ UNCHANGED <<state, prefs, scan, channel, super, work, shadowed, stale, unwoken,
                   commands, edits>>

\* record_analysis
RecordAnalysis(i) ==
    /\ state[busy[i].track] # "removed"
    /\ Stamp(busy[i].track, busy[i].caps)
    /\ Report(i, FALSE) /\ UNCHANGED faults

\* Mutant of RecordFailure: a failed analysis is not stamped.
RecordFailureUnstamped(i) ==
    /\ state[busy[i].track] # "removed"
    /\ UNCHANGED <<stamped, current>>
    /\ Report(i, FALSE) /\ UNCHANGED faults

\* record_analysis_attempt_failure
RecordFailure(i) ==
    /\ state[busy[i].track] # "removed"
    /\ Stamp(busy[i].track, busy[i].caps)
    /\ Report(i, FALSE) /\ UNCHANGED faults

\* The store refuses the write; it always does for a row that is gone (FOREIGN KEY).
RecordRejected(i) ==
    /\ IF state[busy[i].track] = "removed" THEN UNCHANGED faults ELSE Fault
    /\ UNCHANGED <<stamped, current>>
    /\ Report(i, TRUE)

\* The process ends, at any point, and the next one starts a new supervisor.
Restart ==
    /\ Fault
    /\ scan' = {} /\ channel' = <<>> /\ settings' = prefs
    /\ queue' = <<>> /\ pending' = <<>> /\ inFlight' = {} /\ rejected' = FALSE
    /\ pool' = FALSE /\ torn' = FALSE /\ pc' = "top" /\ cur' = NoItem
    /\ work' = <<>> /\ busy' = <<>> /\ outcomes' = <<>>
    /\ owed' = {} /\ shadowed' = {} /\ stale' = {} /\ unwoken' = {}
    /\ UNCHANGED <<rows, prefs, commands, edits>>

Supervisor ==
    \/ DrainCommand \/ Prioritise \/ StopSweep \/ AwaitTail \/ GoIdle \/ QueryFails
    \/ Refill \/ FinishSweep \/ TakeItem \/ SkipItem \/ ChannelFull \/ SendItem
    \/ ReadFails \/ DispatchDone \/ Stall \/ Wait \/ Receive

Worker ==
    \/ TakeWork
    \/ \E i \in DOMAIN busy : RecordAnalysis(i) \/ RecordFailure(i) \/ RecordRejected(i)

User ==
    \/ \E caps \in Preferences : ChangeSettings(caps)
    \/ ChangePool
    \/ \E request \in Requests : RequestExplicitRun(request)
    \/ \E t \in Tracks : RemoveTrack(t) \/ ReplaceAudio(t) \/ TrackArrives(t)
    \/ \E t \in Tracks, found \in BOOLEAN : ScanCommit(t, found)

Runtime == ApplyScanResult \/ ScanReloadFails

Next == Supervisor \/ Worker \/ User \/ Runtime \/ Restart

Spec == Init /\ [][Next]_vars

\* The supervisor and the workers are threads of their own and the main loop
\* applies results; the user need not do anything and nothing need fail.
Fairness == WF_vars(Supervisor) /\ WF_vars(Worker) /\ WF_vars(Runtime)
FairSpec == Spec /\ Fairness

-----------------------------------------------------------------------------
(* Properties.                                                             *)

\* The type of every variable; without a pool no item is at work or on its way.
TypeOK ==
    /\ state \in [Tracks -> {"new", "missing", "available", "removed"}]
    /\ stamped \in [Tracks -> SUBSET Caps] /\ current \in [Tracks -> BOOLEAN]
    /\ prefs \in SUBSET Caps /\ scan \subseteq Tracks
    /\ channel \in Seq(Commands) /\ settings \in SUBSET Caps
    /\ queue \in Seq(Item) /\ pending \in Seq(Item)
    /\ inFlight \subseteq Tracks /\ rejected \in BOOLEAN
    /\ pool \in BOOLEAN /\ torn \in BOOLEAN
    /\ pc \in {"top", "reject", "plan", "dispatch", "send", "wait", "idle", "halted",
               "stalled"}
    /\ cur \in Item \union {NoItem} /\ (cur = NoItem) = (pc # "send")
    /\ work \in Seq(Item) /\ Len(work) <= Workers + 1
    /\ busy \in Seq(Item) /\ Len(busy) <= Workers
    /\ ~pool => Quiet
    /\ outcomes \in Seq([track : Tracks, rejected : BOOLEAN])
    /\ owed \union shadowed \union stale \union unwoken \subseteq Tracks
    /\ commands \in 0 .. MaxCommands /\ edits \in 0 .. MaxEdits /\ faults \in 0 .. MaxFaults

\* Safety: a supervisor that reported Idle and blocks on an empty channel, with
\* no scan result still to be applied, has the user's settings and nothing to
\* do, except for tracks whose audio was replaced since the last command, or that
\* became available since by other ways than a scan, or by a scan whose rows could
\* not be read back (supervisor_loop, apply_library_scan_result).
IdleMeansDone ==
    pc = "idle" /\ channel = <<>> /\ scan = {} =>
        settings = prefs /\ queue = <<>> /\ Needing(prefs) \subseteq unwoken

Dispatched == work \o busy
Twice(t) == \E i, j \in DOMAIN Dispatched :
    i # j /\ Dispatched[i].track = t /\ Dispatched[j].track = t

\* Safety: no two workers have the same track, nor does one have it again in the
\* channel, unless the dispatch of another item took its place or an outcome
\* of an earlier pool acknowledged it (in_flight, analysis_scheduler.rs 328-332).
AnalysedOnce == \A t \in Tracks : Twice(t) => t \in shadowed \union stale

Waiting(t) == \E item \in ToSet(queue \o Explicit(pending \o Dispatched)) : item.track = t

\* Safety: what the user asked for is not forgotten, whatever the settings, the
\* pool and the sweep do: an explicit run taken in is still queued, lined up
\* or with a worker, unless another item's dispatch took it out of pending.
ExplicitKept ==
    \A t \in owed : state[t] # "removed" => Waiting(t) \/ t \in shadowed

\* Liveness: the sweep ends.  Once the user and the failures stop, the
\* supervisor blocks for good and analyses nothing again and again (a failed
\* analysis is stamped, a rejected write stops the sweep).
SweepEnds == <>[](pc \in {"idle", "halted", "stalled"} /\ channel = <<>>)

\* What analysis_scheduler.rs 188-190 says of Wake, the store may have grown: an
\* idle supervisor has nothing to do, however work has come up.
GrowthWakes ==
    pc = "idle" /\ channel = <<>> /\ scan = {} => Needing(prefs) = {}

\* What analysis_scheduler.rs 57-62 says of explicit runs: one that arrives while
\* background items are lined up goes before them.  It is not lost.
ExplicitRunsKept == \A t \in owed : state[t] # "removed" => Waiting(t)
=============================================================================
