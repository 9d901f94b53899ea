---------------------------- MODULE OnlineScheduler ----------------------------
(***************************************************************************)
(* The worker that enriches tracks from the network                        *)
(* (app_runtime/src/online_scheduler.rs) with the table of attempts it     *)
(* keeps (track_online_status).  Commands reach it through a channel; a    *)
(* batch is filled from the queue of explicit requests and then from a     *)
(* query for tracks that still need an attempt.  The user edits the same   *)
(* rows while a lookup is under way.                                       *)
(*                                                                         *)
(* Each capability stands for one value of a track.  Where the code looks  *)
(* at several (the tag fields, plain and synced lyrics), an attempt on a   *)
(* track that has the modelled one may still go to the network for others. *)
(***************************************************************************)
EXTENDS Naturals, Sequences, SequencesExt

CONSTANTS
    Tracks,
    Caps,          \* capabilities: "tags", "artwork", "lyrics"
    Requests,      \* explicit runs the user may ask for: [tracks, caps]
    Preferences,   \* values of OnlineSettings the user may choose
    BatchSize,     \* BATCH_SIZE
    NoItem,
    MaxCommands,   \* bound: commands the user sends
    MaxEdits,      \* bound: edits and removals by the user
    MaxFaults      \* bound: rate limits, store errors and process deaths

ASSUME OnlineAssumption ==
    /\ Caps \subseteq {"tags", "artwork", "lyrics"}
    /\ Preferences \subseteq SUBSET Caps
    /\ Requests \subseteq [tracks : Seq(Tracks), caps : SUBSET Caps \ {{}}]
    /\ BatchSize \in Nat \ {0}
    /\ MaxCommands \in Nat /\ MaxEdits \in Nat /\ MaxFaults \in Nat

Item == [track : Tracks, caps : SUBSET Caps, explicit : BOOLEAN]
ASSUME NoItemAssumption == NoItem \notin Item

Commands ==
    [kind : {"settings"}, caps : SUBSET Caps] \union [kind : {"wake"}]
      \union [kind : {"explicit"}, tracks : Seq(Tracks), caps : SUBSET Caps]

VARIABLES
    state,      \* [Tracks -> {"new", "missing", "available", "removed"}]
    value,      \* [Tracks -> [Caps -> {"none", "user", "fetched"}]]
    embedded,   \* [Tracks -> BOOLEAN]: has_embedded_artwork = 1
    stamped,    \* [Tracks -> SUBSET Caps]: attempted_at columns not NULL
    current,    \* [Tracks -> BOOLEAN]: provider_version is this build's
    prefs,      \* the persisted OnlineSettings
    scan,       \* tracks a scan has committed whose result is not yet applied
    channel,    \* commands sent and not yet received
    settings,   \* the worker's OnlineSettings
    queue,      \* the explicit queue
    batch,      \* items of the batch not yet tried
    pc,         \* where the worker is
    cur,        \* the item being processed
    row,        \* what the row of its track had when it was read
    todo,       \* capabilities still to attempt
    attempted,  \* ProcessReport.attempted
    limited,    \* a provider asked to back off
    owed,       \* history: [Tracks -> SUBSET Caps] rate-limited, not attempted since
    unwoken,    \* history: tracks that became available with no command since
    commands, edits, faults

rows    == <<state, value, embedded>>
stamps  == <<stamped, current>>
work    == <<cur, row, todo, attempted, limited>>
worker  == <<settings, queue, batch, pc, work>>
history == <<owed, unwoken>>
bounds  == <<commands, edits, faults>>
vars == <<rows, stamps, prefs, scan, channel, worker, history, bounds>>

NoWork ==
    /\ cur' = NoItem /\ todo' = {} /\ attempted' = {} /\ limited' = FALSE
    /\ row' = [c \in Caps |-> FALSE]

\* Rows and stamps an earlier build, with an older provider version, may have left.
Init ==
    /\ state \in [Tracks -> {"new", "available"}]
    /\ value = [t \in Tracks |-> [c \in Caps |-> "none"]]
    /\ embedded = [t \in Tracks |-> FALSE]
    /\ stamped \in [Tracks -> {{}, Caps}]
    /\ \A t \in Tracks : state[t] = "new" => stamped[t] = {}
    /\ current = [t \in Tracks |-> FALSE]
    /\ prefs \in Preferences /\ scan = {}
    /\ channel = <<>> /\ settings = prefs /\ queue = <<>> /\ batch = <<>>
    /\ pc = "top" /\ cur = NoItem /\ todo = {} /\ attempted = {} /\ limited = FALSE
    /\ row = [c \in Caps |-> FALSE]
    /\ owed = [t \in Tracks |-> {}] /\ unwoken = {}
    /\ commands = 0 /\ edits = 0 /\ faults = 0

Fault == faults < MaxFaults /\ faults' = faults + 1
NoFault == UNCHANGED faults
Send(command) == channel' = Append(channel, command)

-----------------------------------------------------------------------------
(* The runtime, on the user-interface thread.                              *)

Command == commands < MaxCommands /\ commands' = commands + 1
Edit == edits < MaxEdits /\ edits' = edits + 1

ChangeSettings(caps) ==
    /\ Command /\ caps # prefs
    /\ prefs' = caps
    /\ Send([kind |-> "settings", caps |-> caps])
    /\ unwoken' = {}
    /\ UNCHANGED <<rows, stamps, scan, worker, owed, edits, faults>>

RequestExplicitRun(request) ==
    /\ Command
    /\ Send([kind |-> "explicit", tracks |-> request.tracks, caps |-> request.caps])
    /\ unwoken' = {}
    /\ UNCHANGED <<rows, stamps, prefs, scan, worker, owed, edits, faults>>

\* The user sets a value or chooses a picture.
UserEdit(t, c) ==
    /\ Edit /\ state[t] \in {"available", "missing"} /\ value[t][c] # "user"
    /\ value' = [value EXCEPT ![t][c] = "user"]
    /\ UNCHANGED <<state, embedded, stamps, prefs, scan, channel, worker, history,
                   commands, faults>>

\* The stamps of a removed row go with it (ON DELETE CASCADE).
RemoveTrack(t) ==
    /\ Edit /\ state[t] \in {"available", "missing"}
    /\ state' = [state EXCEPT ![t] = "removed"]
    /\ stamped' = [stamped EXCEPT ![t] = {}] /\ current' = [current EXCEPT ![t] = FALSE]
    /\ owed' = [owed EXCEPT ![t] = {}]
    /\ UNCHANGED <<value, embedded, prefs, scan, channel, worker, unwoken, commands, faults>>

\* A track becomes available and nobody wakes the worker: an import or a CD import
\* adds it, or a missing one is relocated, or found again when it is played, its
\* tags are mirrored or its audio is replaced.
TrackArrives(t) ==
    /\ Edit /\ state[t] \in {"new", "missing"}
    /\ state' = [state EXCEPT ![t] = "available"]
    /\ unwoken' = unwoken \union {t}
    /\ UNCHANGED <<value, embedded, stamps, prefs, scan, channel, worker, owed,
                   commands, faults>>

\* A scan commits what it finds on its own thread: files that appeared or went
\* away, and whether a file it reads carries a picture.  One the mirror has not
\* written yet is not seen.
ScanCommit(t, found, seen) ==
    /\ scan = {} /\ Edit
    /\ state[t] # "removed" /\ (found \/ state[t] = "available")
    /\ seen => found /\ "artwork" \in Caps /\ value[t]["artwork"] # "none"
    /\ state' = [state EXCEPT ![t] = IF found THEN "available" ELSE "missing"]
    /\ embedded' = [embedded EXCEPT ![t] = IF found THEN seen ELSE @]
    /\ scan' = {t}
    /\ UNCHANGED <<value, stamps, prefs, channel, worker, history, commands, faults>>

\* Mutant of ApplyScanResult: the worker is not woken.
ApplyScanResultSilently ==
    /\ scan # {}
    /\ scan' = {}
    /\ UNCHANGED <<rows, stamps, prefs, channel, worker, history, bounds>>

\* apply_library_scan_result wakes the worker.
ApplyScanResult ==
    /\ scan # {}
    /\ scan' = {}
    /\ Send([kind |-> "wake"])
    /\ unwoken' = {}
    /\ UNCHANGED <<rows, stamps, prefs, worker, owed, bounds>>

\* The rows are committed and cannot be read back: fail_library_scan wakes nobody.
ScanReloadFails ==
    /\ scan # {} /\ Fault
    /\ scan' = {}
    /\ unwoken' = unwoken \union scan
    /\ UNCHANGED <<rows, stamps, prefs, channel, worker, owed, commands, edits>>

-----------------------------------------------------------------------------
(* Commands.                                                               *)

\* The lowest elements of a set of numbers in order, and at most so many.
Ascending(S, most) ==
    {s \in UNION {[1 .. n -> S] : n \in 0 .. most} :
        /\ \A i, j \in DOMAIN s : i < j => s[i] < s[j]
        /\ \A x \in S \ Range(s) : Len(s) = most /\ \A i \in DOMAIN s : s[i] < x}

\* A track already queued is not queued again, whatever was asked for it.
Queued(request) ==
    LET waiting == {queue[i].track : i \in DOMAIN queue}
        fresh == {i \in DOMAIN request.tracks : request.tracks[i] \notin waiting}
        Explicit(t) == [track |-> t, caps |-> request.caps, explicit |-> TRUE]
    IN {[i \in DOMAIN kept |-> Explicit(request.tracks[kept[i]])] :
           kept \in Ascending(fresh, Len(request.tracks))}

ApplyCommand ==
    LET command == Head(channel) IN
    /\ channel # <<>>
    /\ channel' = Tail(channel)
    /\ settings' = IF command.kind = "settings" THEN command.caps ELSE settings
    /\ IF command.kind = "explicit"
       THEN \E items \in Queued(command) : queue' = queue \o items
       ELSE UNCHANGED queue

-----------------------------------------------------------------------------
(* The worker.                                                             *)

\* The order of the attempts on a track.
Order == [tags |-> 1, artwork |-> 2, lyrics |-> 3]

\* SELECT_TRACKS_NEEDING_ONLINE_SQL
Needs(t, c) ==
    /\ state[t] = "available"
    /\ c = "artwork" => ~embedded[t]
    /\ c \notin stamped[t] \/ ~current[t]

Needing(caps) == {t \in Tracks : \E c \in caps : Needs(t, c)}

\* drain_commands
Drain ==
    /\ pc = "top"
    /\ ApplyCommand
    /\ UNCHANGED <<rows, stamps, prefs, scan, batch, pc, work, history, bounds>>

\* Nothing to do: block on the channel.
GoIdle ==
    /\ pc = "top" /\ channel = <<>>
    /\ queue = <<>> /\ Needing(settings) = {}
    /\ pc' = "idle"
    /\ UNCHANGED <<rows, stamps, prefs, scan, channel, settings, queue, batch, work, history,
                   bounds>>

\* Mutant of Room: the query is asked for a whole batch.
RoomOfBatch(popped) == BatchSize

Room(popped) == BatchSize - Len(popped)

\* The explicit queue first, then what the query finds, by id and up to BATCH_SIZE.
BuildBatch ==
    LET popped == SubSeq(queue, 1, Min({Len(queue), BatchSize}))
        Background(t) == [track |-> t, caps |-> settings, explicit |-> FALSE]
    IN /\ pc = "top" /\ channel = <<>>
       /\ \E found \in Ascending(Needing(settings), Room(popped)) :
             batch' = popped \o [i \in DOMAIN found |-> Background(found[i])]
       /\ batch' # <<>>
       /\ queue' = SubSeq(queue, Len(popped) + 1, Len(queue))
       /\ pc' = "next"
       /\ UNCHANGED <<rows, stamps, prefs, scan, channel, settings, work, history, bounds>>

\* The query fails: what was popped from the queue is dropped with the batch.
QueryFails ==
    /\ pc = "top" /\ channel = <<>> /\ settings # {}
    /\ Len(queue) < BatchSize
    /\ Fault
    /\ queue' = <<>>
    /\ pc' = "failed"
    /\ UNCHANGED <<rows, stamps, prefs, scan, channel, settings, batch, work, history,
                   commands, edits>>

\* recv returns the next command.
Receive ==
    /\ pc \in {"idle", "failed"}
    /\ ApplyCommand
    /\ pc' = "top"
    /\ UNCHANGED <<rows, stamps, prefs, scan, batch, work, history, bounds>>

BatchDone ==
    /\ pc = "next" /\ batch = <<>>
    /\ pc' = "top"
    /\ UNCHANGED <<rows, stamps, prefs, scan, channel, settings, queue, batch, work, history,
                   bounds>>

\* One command between two items, then the item: an explicit one keeps its
\* capabilities, a background one has the live settings.
NextItem ==
    /\ pc = "next" /\ batch # <<>>
    /\ IF channel # <<>> THEN ApplyCommand ELSE UNCHANGED <<channel, settings, queue>>
    /\ cur' = Head(batch) /\ batch' = Tail(batch)
    /\ pc' = "read"
    /\ UNCHANGED <<rows, stamps, prefs, scan, row, todo, attempted, limited, history, bounds>>

DispatchCaps == IF cur.explicit THEN cur.caps ELSE settings

\* The row is read; a missing row or no capability skips the item unstamped.
ReadTrack ==
    /\ pc = "read"
    /\ IF DispatchCaps = {} \/ state[cur.track] \in {"new", "removed"}
       THEN NoWork /\ pc' = "next"
       ELSE /\ row' = [c \in Caps |-> IF c = "artwork" THEN embedded[cur.track]
                                      ELSE value[cur.track][c] # "none"]
            /\ todo' = DispatchCaps
            /\ pc' = "attempt"
            /\ UNCHANGED <<cur, attempted, limited>>
    /\ UNCHANGED <<rows, stamps, prefs, scan, channel, settings, queue, batch, history, bounds>>

ReadFails ==
    /\ pc = "read" /\ Fault
    /\ NoWork /\ pc' = "next"
    /\ UNCHANGED <<rows, stamps, prefs, scan, channel, settings, queue, batch, history,
                   commands, edits>>

-----------------------------------------------------------------------------
(* process_track: one attempt per capability.  Between ReadTrack or an      *)
(* earlier attempt and the provider's answer other threads take their steps. *)

\* The provider is asked for c, the first capability that is left.
Trying(c) ==
    /\ pc = "attempt" /\ c \in todo
    /\ \A d \in todo : Order[c] <= Order[d]

\* An attempt ran to an end: succeeded, found nothing or failed.
Attempted(c) ==
    /\ attempted' = attempted \union {c}
    /\ todo' = todo \ {c}
    /\ UNCHANGED limited

\* Mutant of AttemptFails: a failed attempt is not stamped.
FailedUnstamped(c) ==
    /\ Trying(c)
    /\ c = "artwork" => ~row[c]
    /\ todo' = todo \ {c}
    /\ UNCHANGED <<rows, stamps, prefs, scan, channel, settings, queue, batch, pc, cur,
                   row, attempted, limited, history, bounds>>

\* The provider or the store refuses.
AttemptFails(c) ==
    /\ Trying(c)
    /\ c = "artwork" => ~row[c]
    /\ Attempted(c)
    /\ UNCHANGED <<rows, stamps, prefs, scan, channel, settings, queue, batch, pc, cur,
                   row, history, bounds>>

\* Nothing is missing, or the provider knows nothing.
NoMatch(c) ==
    /\ Trying(c)
    /\ Attempted(c)
    /\ UNCHANGED <<rows, stamps, prefs, scan, channel, settings, queue, batch, pc, cur,
                   row, history, bounds>>

\* Mutant of Filled: the fill trusts the row read before the lookup.
FilledFromSnapshot(t, c) ==
    [value EXCEPT ![t][c] = IF row[c] THEN @ ELSE "fetched"]

\* fill_missing_track_metadata_and_enqueue: the row is read again in the
\* transaction, and a value it has is kept.
Filled(t, c) ==
    [value EXCEPT ![t][c] = IF @ = "none" THEN "fetched" ELSE @]

FillText(c) ==
    /\ Trying(c) /\ c # "artwork"
    /\ value' = IF state[cur.track] = "removed" THEN value ELSE Filled(cur.track, c)
    /\ Attempted(c)
    /\ UNCHANGED <<state, embedded, stamps, prefs, scan, channel, settings, queue, batch,
                   pc, cur, row, history, bounds>>

\* The missing-only guard looks at the row read before the lookup; the picture
\* found replaces the one the outbox or the file has.
SetArtwork(c) ==
    /\ Trying(c) /\ c = "artwork"
    /\ ~row[c] /\ state[cur.track] # "removed"
    /\ value' = [value EXCEPT ![cur.track][c] = "fetched"]
    /\ Attempted(c)
    /\ UNCHANGED <<state, embedded, stamps, prefs, scan, channel, settings, queue, batch,
                   pc, cur, row, history, bounds>>

\* The provider asks to back off: this capability and the later ones are left.
RateLimited(c) ==
    /\ Trying(c)
    /\ c = "artwork" => ~row[c]
    /\ Fault
    /\ limited' = TRUE /\ todo' = {}
    /\ owed' = [owed EXCEPT ![cur.track] =
                   IF state[cur.track] = "removed" THEN {} ELSE @ \union {c}]
    /\ UNCHANGED <<rows, stamps, prefs, scan, channel, settings, queue, batch, pc, cur,
                   row, attempted, unwoken, commands, edits>>

\* The batch goes on, or stops at a rate limit; what it still held is dropped.
ItemDone ==
    /\ NoWork
    /\ batch' = IF limited THEN <<>> ELSE batch
    /\ pc' = "next"

\* UPSERT_TRACK_ONLINE_STATUS_SQL: the columns of what was attempted, and the
\* provider version of the whole row.
RecordAttempt ==
    /\ pc = "attempt" /\ todo = {}
    /\ attempted # {} => state[cur.track] # "removed"
    /\ IF attempted = {} THEN UNCHANGED stamps
       ELSE /\ stamped' = [stamped EXCEPT ![cur.track] = @ \union attempted]
            /\ current' = [current EXCEPT ![cur.track] = TRUE]
    /\ owed' = [owed EXCEPT ![cur.track] = @ \ attempted]
    /\ ItemDone
    /\ UNCHANGED <<rows, prefs, scan, channel, settings, queue, unwoken, bounds>>

\* The stamp is refused, by a failing store or because the row is gone: the
\* rest of the batch is dropped and the worker waits for a command.
RecordFails ==
    /\ pc = "attempt" /\ todo = {} /\ attempted # {}
    /\ IF state[cur.track] = "removed" THEN NoFault ELSE Fault
    /\ NoWork
    /\ batch' = <<>>
    /\ pc' = "failed"
    /\ UNCHANGED <<rows, stamps, prefs, scan, channel, settings, queue, history,
                   commands, edits>>

\* The process ends, at any point, and the next one starts a new worker.  A
\* shutdown stops it between two items.
Restart ==
    /\ Fault
    /\ channel' = <<>> /\ settings' = prefs /\ queue' = <<>> /\ batch' = <<>>
    /\ pc' = "top" /\ scan' = {} /\ unwoken' = {}
    /\ NoWork
    /\ UNCHANGED <<rows, stamps, prefs, owed, commands, edits>>

Attempt ==
    \E c \in Caps : AttemptFails(c) \/ NoMatch(c) \/ FillText(c) \/ SetArtwork(c) \/ RateLimited(c)

Worker ==
    \/ Drain \/ GoIdle \/ BuildBatch \/ QueryFails \/ Receive \/ BatchDone \/ NextItem
    \/ ReadTrack \/ ReadFails \/ Attempt \/ RecordAttempt \/ RecordFails

User ==
    \/ \E caps \in Preferences : ChangeSettings(caps)
    \/ \E request \in Requests : RequestExplicitRun(request)
    \/ \E t \in Tracks, c \in Caps : UserEdit(t, c)
    \/ \E t \in Tracks : RemoveTrack(t) \/ TrackArrives(t)
    \/ \E t \in Tracks, found, seen \in BOOLEAN : ScanCommit(t, found, seen)

Runtime == ApplyScanResult \/ ScanReloadFails

Next == Worker \/ User \/ Runtime \/ Restart

Spec == Init /\ [][Next]_vars

\* The worker is a thread of its own and the main loop applies results; the
\* user need not do anything and nothing need fail.
Fairness == WF_vars(Worker) /\ WF_vars(Runtime)
FairSpec == Spec /\ Fairness

-----------------------------------------------------------------------------
(* Properties.                                                             *)

\* The type of every variable.
TypeOK ==
    /\ state \in [Tracks -> {"new", "missing", "available", "removed"}]
    /\ value \in [Tracks -> [Caps -> {"none", "user", "fetched"}]]
    /\ embedded \in [Tracks -> BOOLEAN]
    /\ stamped \in [Tracks -> SUBSET Caps] /\ current \in [Tracks -> BOOLEAN]
    /\ prefs \in SUBSET Caps /\ scan \subseteq Tracks
    /\ channel \in Seq(Commands) /\ settings \in SUBSET Caps
    /\ queue \in Seq(Item) /\ batch \in Seq(Item) /\ Len(batch) <= BatchSize
    /\ pc \in {"top", "idle", "failed", "next", "read", "attempt"}
    /\ cur \in Item \union {NoItem} /\ (cur = NoItem) = (pc \notin {"read", "attempt"})
    /\ row \in [Caps -> BOOLEAN] /\ todo \in SUBSET Caps
    /\ attempted \in SUBSET Caps /\ limited \in BOOLEAN
    /\ owed \in [Tracks -> SUBSET Caps] /\ unwoken \subseteq Tracks
    /\ commands \in 0 .. MaxCommands /\ edits \in 0 .. MaxEdits /\ faults \in 0 .. MaxFaults

\* Safety: a worker blocked on an empty channel, with no scan result still to be
\* applied, has the user's settings and nothing to do, except for tracks that
\* became available since the last command by other ways than a scan, or by a scan
\* whose rows could not be read back: no wake is lost between its last query and
\* its blocking (worker_loop, apply_library_scan_result).
IdleMeansDone ==
    pc = "idle" /\ channel = <<>> /\ scan = {} =>
        settings = prefs /\ queue = <<>> /\ Needing(prefs) \subseteq unwoken

\* Action: no step of the worker replaces a tag or lyrics the user has set,
\* however long before the edit the row was read.
UserTextKept ==
    [][\A t \in Tracks, c \in Caps \ {"artwork"} :
          value[t][c] = "user" => value'[t][c] = "user"]_vars

\* Liveness: the sweep ends.  Once the user and the failures stop, the worker
\* blocks for good and does not ask the providers again and again for what
\* they do not have (online_scheduler.rs 8-16: every attempt is stamped).
SweepEnds == <>[](pc \in {"idle", "failed"} /\ channel = <<>>)

\* What online_scheduler.rs 146-148 says of Wake, the library has grown: a blocked
\* worker has nothing to do, however tracks became available.
GrowthWakes ==
    pc = "idle" /\ channel = <<>> /\ scan = {} => Needing(prefs) = {}

\* What online_scheduler.rs 18-23 says of a rate limit: the capability that hit
\* it is left unstamped, so that the next batch picks it up.
RateLimitedStaysEligible ==
    \A t \in Tracks : \A c \in owed[t] :
        state[t] = "available" /\ ~(c = "artwork" /\ embedded[t]) => Needs(t, c)

\* What online_scheduler.rs 656-664 says of the missing-only guard: a retrieval
\* does not overwrite a picture the track already has.
UserArtworkKept ==
    [][\A t \in Tracks, c \in Caps \intersect {"artwork"} :
          value[t][c] = "user" => value'[t][c] = "user"]_vars
=============================================================================
