--------------------------- MODULE TagMirrorOutbox ---------------------------
(***************************************************************************)
(* The durable file-tag mirror: SQLite is authoritative for metadata and   *)
(* ratings, every edit commits an intent row to an outbox in the same      *)
(* transaction, and one worker thread copies the current values into the   *)
(* audio file's tags (app_runtime/src/metadata_writer.rs over              *)
(* library_store/src/sqlite/tag_mirror.rs).                                *)
(*                                                                         *)
(* A value is represented by its version: the number of edits of that kind *)
(* the track has received.  Artwork has no column in SQLite, so            *)
(* canon[t]["artwork"] is a history variable, the version last asked for;  *)
(* the worker never reads it.                                              *)
(***************************************************************************)
EXTENDS Naturals

CONSTANTS
    Tracks,       \* track ids
    Locations,    \* relative paths a track's file can have
    NoIntent,     \* no outbox row
    NoTrack,      \* the worker holds no item
    Nowhere,      \* the track's file is at none of Locations
    Unchanged,    \* artwork_action 0
    MaxVersion,   \* bound: edits of one kind of one track
    MaxFaults,    \* bound: failed calls and crashes
    MaxMoves      \* bound: file disappearances, moves and relocations

ASSUME OutboxAssumption ==
    /\ NoTrack \notin Tracks
    /\ Nowhere \notin Locations
    /\ Unchanged \notin Nat
    /\ MaxVersion \in Nat /\ MaxFaults \in Nat /\ MaxMoves \in Nat

Kinds == {"metadata", "rating", "artwork"}
Versions == [Kinds -> Nat]

\* PendingTagMirror.  The retry clock is reduced to whether next_attempt_at
\* has passed; attempt_count only sets how far away it is.
Intent == [generation : Nat \ {0}, kinds : SUBSET Kinds,
           artwork : Nat \union {Unchanged}, due : BOOLEAN]

ASSUME NoIntentAssumption == NoIntent \notin Intent

VARIABLES
    exists,    \* [Tracks -> BOOLEAN]: the tracks row
    canon,     \* [Tracks -> Versions]: the values the user last asked for
    loc,       \* [Tracks -> Locations]: tracks.relative_path
    missing,   \* [Tracks -> BOOLEAN]: tracks.is_missing
    outbox,    \* [Tracks -> Intent or NoIntent]: tag_mirror_outbox
    at,        \* [Tracks -> Locations or Nowhere]: where the file really is
    tags,      \* [Tracks -> Versions]: the tags in the file
    moving,    \* the track a library consolidation has moved but not recorded
    active,    \* the worker's "active" flag, set by the first nudge
    pc,        \* where the worker is
    batch,     \* [Tracks -> Intent or NoIntent]: rows of the batch not yet tried
    cur,       \* the track being mirrored
    intent,    \* its row as the batch query returned it
    snap,      \* the track row as mirror_one read it
    left,      \* kinds still to write
    tries,     \* location reconcile attempts made
    present,   \* what the probe found
    outcome,   \* MirrorAttempt of the current item
    faults, moves

store  == <<exists, canon, loc, missing, outbox>>
disk   == <<at, tags>>
worker == <<pc, batch, cur, intent, snap, left, tries, present, outcome>>
vars   == <<store, disk, moving, active, worker, faults, moves>>

EmptyBatch == [t \in Tracks |-> NoIntent]
NoSnap == [values |-> [k \in Kinds |-> 0], path |-> Nowhere, missing |-> FALSE]
MAX_LOCATION_RECONCILE_ATTEMPTS == 3

Init ==
    /\ exists = [t \in Tracks |-> TRUE]
    /\ canon = [t \in Tracks |-> [k \in Kinds |-> 0]]
    /\ loc \in [Tracks -> Locations]
    /\ at = loc
    /\ missing = [t \in Tracks |-> FALSE]
    /\ outbox = EmptyBatch
    /\ tags = canon
    /\ moving = NoTrack
    /\ active = FALSE
    /\ pc = "wait" /\ batch = EmptyBatch /\ cur = NoTrack /\ intent = NoIntent
    /\ snap = NoSnap /\ left = {} /\ tries = 0 /\ present = FALSE /\ outcome = "none"
    /\ faults = 0 /\ moves = 0

Fault == faults < MaxFaults /\ faults' = faults + 1
Moved == moves < MaxMoves /\ moves' = moves + 1

-----------------------------------------------------------------------------
(* The store.  Each operator is one SQLite transaction.                    *)

\* Mutant of Enqueued: the row is inserted before its generation is counted.
EnqueuedFromZero(old, kinds, artwork) ==
    [generation |-> IF old = NoIntent THEN 0 ELSE old.generation + 1,
     kinds |-> IF old = NoIntent THEN kinds ELSE old.kinds \union kinds,
     artwork |-> artwork, due |-> TRUE]

\* INSERT ... ON CONFLICT DO UPDATE: kinds accumulate, an artwork action
\* replaces an earlier one, the generation grows and the retry state resets.
Enqueued(old, kinds, artwork) ==
    IF old = NoIntent
    THEN [generation |-> 1, kinds |-> kinds, artwork |-> artwork, due |-> TRUE]
    ELSE [generation |-> old.generation + 1,
          kinds |-> old.kinds \union kinds,
          artwork |-> IF artwork # Unchanged THEN artwork ELSE old.artwork,
          due |-> TRUE]

Enqueue(t, kinds, artwork) ==
    outbox' = [outbox EXCEPT ![t] = Enqueued(@, kinds, artwork)]

\* Mutant of Complete: the generation is not compared.
CompleteAny(t, generation) == outbox' = [outbox EXCEPT ![t] = NoIntent]

\* DELETE ... WHERE track_id = ? AND generation = ?
Complete(t, generation) ==
    outbox' = [outbox EXCEPT ![t] =
                  IF @ # NoIntent /\ @.generation = generation THEN NoIntent ELSE @]

\* UPDATE ... SET next_attempt_at_unix = ? WHERE track_id = ? AND generation = ?
RecordFailure(t, generation) ==
    outbox' = [outbox EXCEPT ![t] =
                  IF @ # NoIntent /\ @.generation = generation
                  THEN [@ EXCEPT !.due = FALSE] ELSE @]

-----------------------------------------------------------------------------
(* The runtime and the online scheduler.  The in-memory availability the   *)
(* edit commands consult is refreshed by worker events and may lag behind  *)
(* the row, so an edit of a missing track can be accepted or refused.      *)

Bump(t, k) ==
    /\ canon[t][k] < MaxVersion
    /\ canon' = [canon EXCEPT ![t][k] = @ + 1]

UserEdit(t, k) ==
    /\ exists[t] /\ moving = NoTrack
    /\ Bump(t, k)
    /\ Enqueue(t, {k}, IF k = "artwork" THEN canon'[t][k] ELSE Unchanged)
    /\ active' = TRUE
    /\ UNCHANGED <<exists, loc, missing, disk, moving, worker, faults, moves>>

\* set_rating; update_metadata without a rename; set_artwork
SetRating(t)      == UserEdit(t, "rating")
UpdateMetadata(t) == UserEdit(t, "metadata")
SetArtwork(t)     == UserEdit(t, "artwork")

\* The online scheduler's thread, which no background task holds back.
Enrich(t, k) ==
    /\ exists[t]
    /\ Bump(t, k)
    /\ Enqueue(t, {k}, IF k = "artwork" THEN canon'[t][k] ELSE Unchanged)
    /\ active' = TRUE
    /\ UNCHANGED <<exists, loc, missing, disk, moving, worker, faults, moves>>
FillMissingMetadata(t) == Enrich(t, "metadata")
EnqueueArtwork(t)      == Enrich(t, "artwork")

\* delete_track: the outbox row goes with it (ON DELETE CASCADE).
RemoveTrack(t) ==
    /\ exists[t] /\ moving = NoTrack
    /\ exists' = [exists EXCEPT ![t] = FALSE]
    /\ outbox' = [outbox EXCEPT ![t] = NoIntent]
    /\ UNCHANGED <<canon, loc, missing, disk, moving, active, worker, faults, moves>>

\* resume_pending_metadata_writes, the UI's first-idle hook.
Resume ==
    /\ ~active
    /\ active' = TRUE
    /\ UNCHANGED <<store, disk, moving, worker, faults, moves>>

\* A library consolidation on its own thread renames the file, then the row.
MoveFile(t, l) ==
    /\ exists[t] /\ moving = NoTrack /\ at[t] = loc[t] /\ l # loc[t]
    /\ Moved
    /\ at' = [at EXCEPT ![t] = l]
    /\ moving' = t
    /\ UNCHANGED <<store, tags, active, worker, faults>>

UpdateTrackLocation ==
    /\ moving # NoTrack /\ at[moving] # Nowhere
    /\ loc' = [loc EXCEPT ![moving] = at[moving]]
    /\ missing' = [missing EXCEPT ![moving] = FALSE]
    /\ moving' = NoTrack
    /\ UNCHANGED <<exists, canon, outbox, disk, active, worker, faults, moves>>

\* Volumes come and go and files are deleted or restored behind the library.
FileVanishes(t) ==
    /\ at[t] # Nowhere /\ moving # t
    /\ Moved
    /\ at' = [at EXCEPT ![t] = Nowhere]
    /\ UNCHANGED <<store, tags, moving, active, worker, faults>>

FileReturns(t) ==
    /\ at[t] = Nowhere
    /\ at' = [at EXCEPT ![t] = loc[t]]
    /\ UNCHANGED <<store, tags, moving, active, worker, faults, moves>>

-----------------------------------------------------------------------------
(* The worker thread.                                                      *)

\* apply_command RelocateMissingTrack, between batches: the row adopts a
\* replacement file, whose tags are nobody's, and mirrors metadata and rating
\* into it.  The replacement's artwork becomes the artwork last asked for
\* unless an artwork intent is still pending.
RelocateMissingTrack(t, l) ==
    /\ pc = "wait" /\ moving = NoTrack
    /\ exists[t] /\ missing[t]
    /\ Moved
    /\ loc' = [loc EXCEPT ![t] = l]
    /\ missing' = [missing EXCEPT ![t] = FALSE]
    /\ at' = [at EXCEPT ![t] = l]
    /\ tags' = [tags EXCEPT ![t] = [k \in Kinds |-> 0]]
    /\ canon' = IF outbox[t] # NoIntent /\ "artwork" \in outbox[t].kinds THEN canon
                ELSE [canon EXCEPT ![t]["artwork"] = 0]
    /\ Enqueue(t, {"metadata", "rating"}, Unchanged)
    /\ active' = TRUE
    /\ UNCHANGED <<exists, moving, worker, faults>>

\* apply_command RetargetManagedMetadata, between batches: file, row and
\* intent change together (ConsolidationJournal has the steps in between).
RetargetManagedMetadata(t, l) ==
    /\ pc = "wait" /\ moving = NoTrack
    /\ exists[t] /\ at[t] = loc[t]
    /\ Moved
    /\ Bump(t, "metadata")
    /\ loc' = [loc EXCEPT ![t] = l]
    /\ missing' = [missing EXCEPT ![t] = FALSE]
    /\ at' = [at EXCEPT ![t] = l]
    /\ Enqueue(t, {"metadata"}, Unchanged)
    /\ active' = TRUE
    /\ UNCHANGED <<exists, tags, moving, worker, faults>>

Due == {t \in Tracks : outbox[t] # NoIntent /\ outbox[t].due}

\* drain_due_batch: the query copies every due row.
StartBatch ==
    /\ active /\ pc = "wait" /\ Due # {}
    /\ batch' = [t \in Tracks |-> IF t \in Due THEN outbox[t] ELSE NoIntent]
    /\ pc' = "next"
    /\ UNCHANGED <<store, disk, moving, active, cur, intent, snap, left, tries,
                   present, outcome, faults, moves>>

NextItem(t) ==
    /\ pc = "next" /\ batch[t] # NoIntent
    /\ cur' = t /\ intent' = batch[t]
    /\ batch' = [batch EXCEPT ![t] = NoIntent]
    /\ tries' = 0 /\ pc' = "read"
    /\ UNCHANGED <<store, disk, moving, active, snap, left, present, outcome, faults, moves>>

FinishBatch ==
    /\ pc = "next" /\ batch = EmptyBatch
    /\ pc' = "wait"
    /\ UNCHANGED <<store, disk, moving, active, batch, cur, intent, snap, left, tries,
                   present, outcome, faults, moves>>

Settle(result) == pc' = "settle" /\ outcome' = result

\* mirror_one: load the current row, at most three times.
ReadTrack ==
    /\ pc = "read"
    /\ IF ~exists[cur] \/ tries = MAX_LOCATION_RECONCILE_ATTEMPTS
       THEN Settle("failed") /\ UNCHANGED <<snap, tries>>
       ELSE /\ snap' = [values |-> canon[cur], path |-> loc[cur], missing |-> missing[cur]]
            /\ tries' = tries + 1
            /\ pc' = "probe" /\ UNCHANGED outcome
    /\ UNCHANGED <<store, disk, moving, active, batch, cur, intent, left, present,
                   faults, moves>>

Probe ==
    /\ pc = "probe"
    /\ present' = (at[cur] = snap.path)
    /\ pc' = "reconcile"
    /\ UNCHANGED <<store, disk, moving, active, batch, cur, intent, snap, left, tries,
                   outcome, faults, moves>>

\* Mutant of Reconcile: a row marked missing is deferred without its probe.
ReconcileMissingFirst ==
    /\ pc = "reconcile"
    /\ IF snap.missing \/ ~present THEN Settle("deferred") /\ UNCHANGED left
       ELSE pc' = "write" /\ left' = intent.kinds /\ UNCHANGED outcome
    /\ missing' = [missing EXCEPT ![cur] = @ \/ ~present]
    /\ UNCHANGED <<exists, canon, loc, outbox, disk, moving, active, batch, cur,
                   intent, snap, tries, present, faults, moves>>

\* Availability goes to the row only if the probe contradicts what was read,
\* and only while the row still has the probed path.
Reconcile ==
    /\ pc = "reconcile"
    /\ LET matches == exists[cur] /\ loc[cur] = snap.path
           changed == snap.missing = present
       IN  /\ missing' = IF changed /\ matches
                         THEN [missing EXCEPT ![cur] = ~present] ELSE missing
           /\ CASE changed /\ ~matches -> pc' = "read" /\ UNCHANGED <<outcome, left>>
                [] ~(changed /\ ~matches) /\ present ->
                       pc' = "write" /\ left' = intent.kinds /\ UNCHANGED outcome
                [] OTHER -> Settle("deferred") /\ UNCHANGED left
    /\ UNCHANGED <<exists, canon, loc, outbox, disk, moving, active, batch, cur,
                   intent, snap, tries, present, faults, moves>>

\* Metadata, then rating, then artwork; the first two from the row that was
\* read, artwork from the intent.
NextKind ==
    CASE "metadata" \in left -> "metadata"
      [] "metadata" \notin left /\ "rating" \in left -> "rating"
      [] OTHER -> "artwork"

MirroredVersion(k) == IF k = "artwork" THEN intent.artwork ELSE snap.values[k]

\* Mutant of Publish: the file is written anew and an artwork the intent does
\* not carry is dropped.
PublishWhole(k) ==
    tags' = [tags EXCEPT ![cur] = [j \in Kinds |->
                IF j = k THEN MirroredVersion(k) ELSE IF j = "artwork" THEN 0 ELSE @[j]]]

Publish(k) == tags' = [tags EXCEPT ![cur][k] = MirroredVersion(k)]

\* One atomic replacement of the file (metadata/src/atomic_file.rs).
WriteTag ==
    /\ pc = "write" /\ left # {} /\ at[cur] = snap.path
    /\ Publish(NextKind)
    /\ left' = left \ {NextKind}
    /\ IF left = {NextKind} THEN Settle("succeeded") ELSE UNCHANGED <<pc, outcome>>
    /\ UNCHANGED <<store, at, moving, active, batch, cur, intent, snap, tries,
                   present, faults, moves>>

\* The file is gone from the path that was read.
WriteTagNotFound ==
    /\ pc = "write" /\ at[cur] # snap.path
    /\ Settle("failed")
    /\ UNCHANGED <<store, disk, moving, active, batch, cur, intent, snap, left, tries,
                   present, faults, moves>>

\* The item fails: the store, the probe or the tag write refuses, before or
\* after this kind reached the file (a failed directory sync is an error too).
ItemFails ==
    /\ pc \in {"read", "probe", "reconcile", "write"}
    /\ Fault
    /\ Settle("failed")
    /\ \/ UNCHANGED tags
       \/ pc = "write" /\ left # {} /\ at[cur] = snap.path /\ Publish(NextKind)
    /\ UNCHANGED <<store, at, moving, active, batch, cur, intent, snap, left, tries,
                   present, moves>>

\* complete_tag_mirror or record_tag_mirror_failure; the store may refuse
\* either, and the row then stays as it is.
SettleItem ==
    /\ pc = "settle"
    /\ \/ /\ IF outcome = "succeeded" THEN Complete(cur, intent.generation)
                                     ELSE RecordFailure(cur, intent.generation)
          /\ UNCHANGED faults
       \/ Fault /\ UNCHANGED outbox
    /\ pc' = "next"
    /\ cur' = NoTrack /\ intent' = NoIntent /\ snap' = NoSnap /\ left' = {}
    /\ tries' = 0 /\ present' = FALSE /\ outcome' = "none"
    /\ UNCHANGED <<exists, canon, loc, missing, disk, moving, active, batch, moves>>

\* next_attempt_at passes.
RetryElapses(t) ==
    /\ outbox[t] # NoIntent /\ ~outbox[t].due
    /\ outbox' = [outbox EXCEPT ![t].due = TRUE]
    /\ UNCHANGED <<exists, canon, loc, missing, disk, moving, active, worker, faults, moves>>

\* The process dies and starts again: SQLite, files and the consolidation
\* journal ("moving") remain, the worker starts inactive.
Crash ==
    /\ Fault
    /\ active' = FALSE
    /\ pc' = "wait" /\ batch' = EmptyBatch /\ cur' = NoTrack /\ intent' = NoIntent
    /\ snap' = NoSnap /\ left' = {} /\ tries' = 0 /\ present' = FALSE /\ outcome' = "none"
    /\ UNCHANGED <<store, disk, moving, moves>>

WorkerStep ==
    \/ StartBatch \/ FinishBatch \/ ReadTrack \/ Probe \/ Reconcile
    \/ WriteTag \/ WriteTagNotFound \/ ItemFails \/ SettleItem
    \/ \E t \in Tracks : NextItem(t)

Next ==
    \/ WorkerStep
    \/ \E t \in Tracks :
          \/ SetRating(t) \/ UpdateMetadata(t) \/ SetArtwork(t)
          \/ FillMissingMetadata(t) \/ EnqueueArtwork(t)
          \/ RemoveTrack(t) \/ RetryElapses(t)
          \/ FileVanishes(t) \/ FileReturns(t)
          \/ \E l \in Locations :
                \/ MoveFile(t, l) \/ RelocateMissingTrack(t, l)
                \/ RetargetManagedMetadata(t, l)
    \/ UpdateTrackLocation \/ Resume \/ Crash

Spec == Init /\ [][Next]_vars

\* The thread keeps running, its waits are bounded by the retry clock, the UI
\* resumes it after a start, and a consolidation ends or is recovered.
Fairness ==
    /\ WF_vars(WorkerStep)
    /\ WF_vars(Resume)
    /\ WF_vars(UpdateTrackLocation)
    /\ \A t \in Tracks : WF_vars(RetryElapses(t))

FairSpec == Spec /\ Fairness

-----------------------------------------------------------------------------
Intents == Intent \union {NoIntent}

\* Every variable has its type.
TypeOK ==
    /\ exists \in [Tracks -> BOOLEAN]
    /\ canon \in [Tracks -> Versions] /\ tags \in [Tracks -> Versions]
    /\ loc \in [Tracks -> Locations] /\ at \in [Tracks -> Locations \union {Nowhere}]
    /\ missing \in [Tracks -> BOOLEAN]
    /\ outbox \in [Tracks -> Intents] /\ batch \in [Tracks -> Intents]
    /\ moving \in Tracks \union {NoTrack} /\ active \in BOOLEAN
    /\ pc \in {"wait", "next", "read", "probe", "reconcile", "write", "settle"}
    /\ cur \in Tracks \union {NoTrack} /\ intent \in Intents
    /\ snap \in [values : Versions, path : Locations \union {Nowhere}, missing : BOOLEAN]
    /\ left \subseteq Kinds
    /\ tries \in 0..MAX_LOCATION_RECONCILE_ATTEMPTS /\ present \in BOOLEAN
    /\ outcome \in {"none", "succeeded", "failed", "deferred"}
    /\ faults \in Nat /\ moves \in Nat

\* The row of track t asks for kind k, and for artwork its latest version.
Pending(t, k) ==
    /\ outbox[t] # NoIntent /\ k \in outbox[t].kinds
    /\ k = "artwork" => outbox[t].artwork = canon[t][k]

\* No courtesy write is lost: a file whose tags differ from what the user last
\* asked for has an outbox row that asks for the difference, whatever
\* interleaving of edits, moves, failed writes, retries and process crashes.
NoLostMirror ==
    \A t \in Tracks, k \in Kinds :
        exists[t] /\ tags[t][k] # canon[t][k] => Pending(t, k)

\* A mirror write never takes a tag back to an older edit, although it reads
\* the row long before it replaces the file and edits keep arriving.
MirrorNeverRegresses ==
    [][pc = "write" => \A t \in Tracks, k \in Kinds : tags'[t][k] >= tags[t][k]]_vars

\* Once edits and failures stop, every file that can be reached has the tags
\* the user asked for and no row is left to retry.
EventuallyMirrored ==
    \A t \in Tracks :
        <>[](\/ ~exists[t]
             \/ at[t] # loc[t]
             \/ outbox[t] = NoIntent /\ tags[t] = canon[t])
=============================================================================
