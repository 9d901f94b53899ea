---------------------------- MODULE PlaybackQueue ----------------------------
(***************************************************************************)
(* The playback queue (domain/src/playback/queue.rs) under the runtime's   *)
(* transport commands (app_runtime/src/playback.rs).                       *)
(*                                                                         *)
(* An eager queue has its whole play order; a lazy one (Smart Shuffle) has *)
(* the tracks played so far, with a cursor, and picks the next one when    *)
(* the transport asks.  Shuffling and picking choose any outcome.  Cursors *)
(* count from 1.  RepeatMode::One is left out: no command sets it.         *)
(***************************************************************************)
EXTENDS Naturals, SequencesExt, Selections

CONSTANTS
    Library,     \* the track ids in library order
    Lists,       \* the lists a playlist, an album or a search can be
    Modes,       \* the shuffle modes the user chooses from
    NoId,        \* no track
    MaxOrder,    \* bound: entries of a lazy play order at a pick
    MaxGone      \* bound: files gone at the same time

Ids == ToSet(Library)

ASSUME QueueAssumption ==
    /\ Library \in Seq(Ids) /\ IsInjective(Library)
    /\ NoId \notin Ids /\ Modes \subseteq {"off", "pure", "smart"}
    /\ \A ids \in Lists : ids \in Seq(Ids) /\ IsInjective(ids)
    /\ MaxOrder \in Nat /\ MaxGone \in Nat

VARIABLES
    queue,     \* PlaybackQueue
    missing,   \* tracks whose row says is_missing
    gone,      \* tracks whose file is not on disk
    removed,   \* tracks deleted from the library
    playing,   \* the track the backend plays
    doubled    \* read by no action: a track the order had twice has been moved

queueVars == <<queue, missing, gone, removed, playing, doubled>>

ShuffleModes == {"off", "pure", "smart"}
Sources == {"library", "playlist", "selection"}
Entry   == [track : Ids, curated : BOOLEAN]
PlayQueue ==
    [source : Sources, pool : Seq(Ids), lazy : BOOLEAN, order : Seq(Entry), cursor : Nat,
     current : Ids \union {NoId}, mode : ShuffleModes, repeat : {"off", "all"}]

QueueInit ==
    /\ queue = [source |-> "library", pool |-> <<>>, lazy |-> FALSE, order |-> <<>>,
                cursor |-> 1, current |-> NoId, mode |-> "off", repeat |-> "off"]
    /\ missing = {} /\ gone = {} /\ removed = {} /\ playing = NoId /\ doubled = FALSE

-----------------------------------------------------------------------------
(* Play orders.                                                            *)

Entries(ids, curated) == [i \in DOMAIN ids |-> [track |-> ids[i], curated |-> curated]]
IdsOf(order)          == [i \in DOMAIN order |-> order[i].track]
PlacesOf(order, t)    == {i \in DOMAIN order : order[i].track = t}
First(S)              == IF S = {} THEN 0 ELSE Min(S)
Position(order, t)    == First(PlacesOf(order, t))
Only(ids, S)          == Those(ids, {i \in DOMAIN ids : ids[i] \in S})
Without(order, S)     == Those(order, {i \in DOMAIN order : order[i].track \notin S})
Splice(order, i, s)   == SubSeq(order, 1, i - 1) \o s \o SubSeq(order, i, Len(order))

At(q) == IF q.lazy THEN q.cursor ELSE Position(q.order, q.current)

\* upcoming_entries, by their places
Ahead(q) ==
    LET at == At(q)
    IN  IF q.current = NoId \/ at = 0 THEN {} ELSE {i \in DOMAIN q.order : i > at}
Queued(q)       == {i \in Ahead(q) : q.order[i].curated}
QueuedIds(q)    == {q.order[i].track : i \in Queued(q)}
CuratedAhead(q) == IdsOf(Those(q.order, Queued(q)))

\* Mutant of EagerOrder: what is queued is not taken out of the continuation.
EagerOrderTwice(ids, current, curated) ==
    LET whole == IF current = NoId \/ Contains(ids, current) THEN ids ELSE <<current>> \o ids
        order == Entries(whole, FALSE)
    IN  IF current = NoId THEN order
        ELSE Splice(order, Position(order, current) + 1, Entries(curated, TRUE))

\* eager_play_order: the continuation in its order, the curated tracks moved
\* to just after the current one.
EagerOrder(ids, current, curated) ==
    LET kept  == Only(ids, {current} \union (Ids \ ToSet(curated)))
        whole == IF current = NoId \/ Contains(kept, current) THEN kept
                 ELSE <<current>> \o kept
        order == Entries(whole, FALSE)
    IN  IF current = NoId THEN order
        ELSE Splice(order, Position(order, current) + 1, Entries(curated, TRUE))

\* build_pure_play_order: any order, rotated to start at the current track.
Shuffles(ids, current) ==
    {s \in SetToSeqs(ToSet(ids)) : Contains(ids, current) => s[1] = current}

SupportsSmartShuffle(source) == source # "selection"

\* build_layout
Layouts(q, curated) ==
    IF q.mode = "smart" /\ SupportsSmartShuffle(q.source)
    THEN LET head == IF q.current = NoId THEN <<>> ELSE <<q.current>>
             tail == Only(curated, Ids \ {q.current})
         IN  {[q EXCEPT !.lazy = TRUE, !.cursor = 1,
                        !.order = Entries(head, FALSE) \o Entries(tail, TRUE)]}
    ELSE {[q EXCEPT !.lazy = FALSE, !.cursor = 1,
                    !.order = EagerOrder(ids, q.current, curated)] :
              ids \in IF q.mode = "off" THEN {q.pool} ELSE Shuffles(q.pool, q.current)}

\* Mutant of Rebuilt: the curated tracks are not carried over.
RebuiltBare(q) == Layouts(q, <<>>)

\* rebuild_layout
Rebuilt(q) == Layouts(q, CuratedAhead(q))

\* replace_ordered_track_ids
Replaced(q, ids, playable) ==
    Layouts([q EXCEPT !.pool = ids, !.current = IF @ \in playable THEN @ ELSE NoId],
            Only(CuratedAhead(q), playable))

\* Mutant of WithoutAndReanchored: the cursor is not clamped to the order.
WithoutUnclamped(q, S) ==
    LET before == Cardinality({i \in DOMAIN q.order : i < q.cursor /\ q.order[i].track \in S})
    IN  [q EXCEPT !.order = Without(@, S),
                  !.cursor = IF q.lazy THEN @ - before ELSE @]

\* remove_entries, and for a lazy order remove_entries_and_reanchor_cursor
WithoutAndReanchored(q, S) ==
    LET order  == Without(q.order, S)
        before == Cardinality({i \in DOMAIN q.order : i < q.cursor /\ q.order[i].track \in S})
    IN  [q EXCEPT !.order = order,
                  !.cursor = IF q.lazy THEN Max({1, Min({@ - before, Len(order)})}) ELSE @]

\* adjacent_track_id
Adjacent(q, forward) ==
    LET at == At(q)
        i  == IF forward THEN at + 1 ELSE at - 1
    IN  IF q.current = NoId \/ at = 0 THEN NoId
        ELSE IF i \in DOMAIN q.order THEN q.order[i].track
        ELSE IF q.repeat = "off" \/ q.order = <<>> THEN NoId
        ELSE q.order[IF forward THEN 1 ELSE Len(q.order)].track

\* move_to_track: a lazy cursor goes to the next entry if that is the track,
\* else the previous one, else the last with it; else the track is appended
\* after the cursor.
MovedTo(q, t) ==
    LET has(i) == i \in DOMAIN q.order /\ q.order[i].track = t
        near   == {i \in {q.cursor + 1, q.cursor - 1} : has(i)}
        all    == PlacesOf(q.order, t)
        head   == Those(q.order, {i \in DOMAIN q.order : i <= q.cursor})
    IN  IF ~Contains(q.pool, t) /\ all = {} THEN q
        ELSE IF ~q.lazy THEN [q EXCEPT !.current = t]
        ELSE IF near # {} THEN [q EXCEPT !.current = t, !.cursor = Max(near)]
        ELSE IF all # {} THEN [q EXCEPT !.current = t, !.cursor = Max(all)]
        ELSE [q EXCEPT !.current = t, !.cursor = Len(head) + 1,
                       !.order = Append(head, [track |-> t, curated |-> FALSE])]

-----------------------------------------------------------------------------
(* The runtime.                                                            *)

Playable(lost)  == Ids \ (lost \union removed)
ListsOf(source) == IF source = "library" THEN {Library} ELSE Lists

\* refresh_playback_queue_track_ids: a playlist may have been edited since.
Refreshed(q, lost) ==
    LET playable == Playable(lost)
        lists == CASE q.source = "library"   -> {Library}
                   [] q.source = "playlist"  -> Lists
                   [] q.source = "selection" -> {q.pool}
    IN  UNION {Replaced(q, Only(ids, playable), playable) : ids \in lists}

\* play_track: the row is brought into agreement with the disk, which
\* refreshes the queue, before the audio starts.  After a success the queue
\* built for the play, if any, replaces it, or it moves to the track.
Play(q, t, built) ==
    /\ UNCHANGED <<gone, removed>>
    /\ \/ queue' = q /\ UNCHANGED <<missing, playing, doubled>>
       \/ /\ t \in gone \ removed
          /\ missing' = missing \union {t} /\ UNCHANGED <<playing, doubled>>
          /\ queue' \in IF t \in missing THEN {q} ELSE Refreshed(q, missing')
       \/ /\ t \notin gone \union removed
          /\ missing' = missing \ {t}
          /\ \E r \in IF t \in missing THEN Refreshed(q, missing') ELSE {q} :
                \/ queue' = r /\ UNCHANGED <<playing, doubled>>
                \/ /\ queue' \in IF built = {} THEN {MovedTo(r, t)} ELSE built
                   /\ playing' = t /\ doubled' = (built = {} /\ doubled)

\* PlaybackCommand::PlayTrack: the new queue is built first.
PlayTrack(t, source, ids) ==
    LET pool == Only(ids, Playable(missing))
    IN  \E new \in Layouts([queue EXCEPT !.source = source, !.pool = pool,
                               !.current = IF Contains(pool, t) THEN t ELSE NoId], <<>>) :
           Play(queue, t, {new})

StartQueue ==
    \E s \in Sources : \E ids \in ListsOf(s) : \E t \in ToSet(ids) : PlayTrack(t, s, ids)

PlayAndMove(q, t) == Play(q, t, {})

\* play_queue_track
PlayQueueTrack(t) ==
    /\ \E i \in Ahead(queue) : queue.order[i].track = t
    /\ PlayAndMove(queue, t)

\* play_adjacent_track: without a neighbour the audio stops and the queue stays.
PlayAdjacent(forward) ==
    LET t == Adjacent(queue, forward)
    IN  IF t # NoId THEN PlayAndMove(queue, t)
        ELSE playing' = NoId /\ UNCHANGED <<queue, missing, gone, removed, doubled>>

\* play_previous_track
PlayPreviousTrack == PlayAdjacent(FALSE)

NeedsLazyPick(q) ==
    q.lazy /\ q.cursor >= Len(q.order) /\ q.current # NoId /\ q.pool # <<>>

\* pick_smart_shuffle_next: any playable track of the pool but the seed, or
\* none (a guard may refuse them all); it is appended before it is played.
PickAndPlay(t) ==
    /\ NeedsLazyPick(queue) /\ Len(queue.order) < MaxOrder
    /\ t \in (ToSet(queue.pool) \intersect Playable(missing)) \ {queue.current}
    /\ PlayAndMove([queue EXCEPT !.order = Append(@, [track |-> t, curated |-> FALSE])], t)

\* play_next_track, also at the end of a track and after a backend error.
PlayNextTrack ==
    \/ \E t \in Ids : PickAndPlay(t)
    \/ PlayAdjacent(TRUE)

Edit(q) == queue' = q /\ UNCHANGED <<missing, gone, removed, playing, doubled>>

Candidates(ids) == Only(ids, Ids \ {queue.current})

\* enqueue_after_current
EnqueueNext(ids) ==
    LET some == Candidates(ids)
        q    == WithoutAndReanchored(queue, ToSet(some))
        at   == At(q)
    IN  /\ queue.current # NoId /\ some # <<>>
        /\ Edit(IF at = 0 THEN q
                ELSE [q EXCEPT !.order = Splice(@, Min({at, Len(@)}) + 1, Entries(some, TRUE))])

\* enqueue_at_end: after the run of curated entries that follows the current
\* one.  An insertion beyond the end, into an empty lazy order, panics.
EnqueueLast(ids) ==
    LET some == Candidates(ids)
        q    == WithoutAndReanchored(queue, ToSet(some))
        at   == At(q)
        end  == First({i \in DOMAIN q.order : i > at /\ ~q.order[i].curated})
        tail == IF end = 0 THEN Len(q.order) + 1 ELSE end
    IN  /\ queue.current # NoId /\ some # <<>> /\ at <= Len(q.order)
        /\ Edit(IF at = 0 THEN q
                ELSE [q EXCEPT !.order = Splice(@, tail, Entries(some, TRUE))])

\* remove_from_queue
RemoveFromQueue(t) ==
    /\ t \in QueuedIds(queue)
    /\ Edit(WithoutAndReanchored(queue, {t}))

\* move_within_queue and reposition_track: both act on first occurrences.
MoveWithinQueue(t, target, after) ==
    LET from  == Position(queue.order, t)
        rest  == RemoveAt(queue.order, from)
        to    == Position(rest, target) + IF after THEN 1 ELSE 0
    IN  /\ t # target /\ {t, target} \subseteq QueuedIds(queue)
        /\ queue' = [queue EXCEPT !.order = Splice(rest, to, <<queue.order[from]>>)]
        /\ doubled' = (doubled \/ PlacesOf(queue.order, t) # {from})
        /\ UNCHANGED <<missing, gone, removed, playing>>

\* cycle_shuffle_mode and set_shuffle_mode
SetShuffleMode(m) ==
    /\ queue.mode # m
    /\ queue' \in Rebuilt([queue EXCEPT !.mode = m])
    /\ UNCHANGED <<missing, gone, removed, playing, doubled>>

\* Mutant of ToggleRepeat: the button reaches RepeatMode::One.
ToggleRepeatOne ==
    Edit([queue EXCEPT !.repeat = IF @ = "off" THEN "all" ELSE IF @ = "all" THEN "one" ELSE "off"])

\* toggle_repeat_mode
ToggleRepeat == Edit([queue EXCEPT !.repeat = IF @ = "off" THEN "all" ELSE "off"])

\* repopulate_queue (the album no-op is left out: "selection" stands for it)
RepopulateQueue(source, ids) ==
    LET pool == Only(ids, Playable(missing))
    IN  /\ Contains(pool, queue.current)
        /\ source # queue.source \/ pool # queue.pool
        /\ queue' \in Replaced([queue EXCEPT !.source = source], pool, Playable(missing))
        /\ UNCHANGED <<missing, gone, removed, playing, doubled>>

\* remove_track_from_library; remove_track
RemoveFromLibrary(t) ==
    /\ t \notin removed
    /\ removed' = removed \union {t}
    /\ missing' = missing \ {t}
    /\ queue' = [WithoutAndReanchored(queue, {t}) EXCEPT
                    !.pool = Only(@, Ids \ {t}),
                    !.current = IF @ = t THEN NoId ELSE @]
    /\ playing' = IF playing = t THEN NoId ELSE playing
    /\ UNCHANGED <<gone, doubled>>

\* A scan finds what is on disk and refreshes the queue.
ScanLibrary ==
    /\ missing' = gone \ removed /\ missing' # missing
    /\ queue' \in Refreshed(queue, missing')
    /\ UNCHANGED <<gone, removed, playing, doubled>>

FilesChange(t) ==
    /\ gone' = IF t \in gone THEN gone \ {t} ELSE gone \union {t}
    /\ Cardinality(gone') <= MaxGone
    /\ UNCHANGED <<queue, missing, removed, playing, doubled>>

Requests == {ids \in UNION {SetToSeqs(S) : S \in SUBSET Ids} : Len(ids) \in 1..2}

QueueNext ==
    \/ StartQueue
    \/ \E t \in Ids :
          \/ PlayQueueTrack(t) \/ RemoveFromQueue(t) \/ RemoveFromLibrary(t) \/ FilesChange(t)
          \/ \E u \in Ids, after \in BOOLEAN : MoveWithinQueue(t, u, after)
    \/ PlayPreviousTrack \/ PlayNextTrack \/ ToggleRepeat \/ ScanLibrary
    \/ \E ids \in Requests : EnqueueNext(ids) \/ EnqueueLast(ids)
    \/ \E m \in Modes : SetShuffleMode(m)
    \/ \E s \in Sources : \E ids \in ListsOf(s) : RepopulateQueue(s, ids)

QueueSpec == QueueInit /\ [][QueueNext]_queueVars

-----------------------------------------------------------------------------
\* Every variable has its type.
QueueTypeOK ==
    /\ queue \in PlayQueue
    /\ missing \subseteq Ids /\ gone \subseteq Ids /\ removed \subseteq Ids
    /\ playing \in Ids \union {NoId} /\ doubled \in BOOLEAN

\* move_to_track indexes the history left of the cursor without a check: the
\* cursor stays inside the lazy order through every removal and rebuild, and on
\* the current track until a track the order has twice is moved.
CursorInOrder ==
    queue.lazy =>
        /\ queue.cursor \in 1..Max({1, Len(queue.order)})
        /\ queue.current # NoId /\ ~doubled => queue.order[queue.cursor].track = queue.current

\* Until a track the order has twice is moved, an eager order has no track
\* twice and has the current one, so that its neighbours can be found by id
\* whatever was enqueued, evicted or lost.
EagerOrderAnchored ==
    ~queue.lazy /\ ~doubled =>
        /\ IsInjective(IdsOf(queue.order))
        /\ queue.current # NoId => Contains(IdsOf(queue.order), queue.current)

\* Until a track the order has twice is moved, what the listener queued stays
\* queued as long as the same track plays: only a jump, a new queue, its own
\* eviction and the loss of its file take an entry out; no mode change, refresh,
\* reorder or widening of the source does.
CuratedSurvives ==
    [][\A t \in QueuedIds(queue) :
          \/ t \in QueuedIds(queue')
          \/ queue'.current # queue.current \/ queue'.order = queue.order
          \/ StartQueue \/ RemoveFromQueue(t)
          \/ t \in missing' \union removed' \/ doubled']_queueVars

\* Stepping back never takes the cursor forward.
PreviousGoesBack ==
    [][PlayPreviousTrack /\ queue.lazy /\ queue.repeat = "off"
          => queue'.cursor <= queue.cursor]_queueVars

\* The lazy cursor is on the current track.
CursorOnCurrent ==
    queue.lazy /\ queue.current # NoId =>
        queue.order[queue.cursor].track = queue.current

=============================================================================
