------------------------ MODULE TagMirrorOutboxProofs ------------------------
(***************************************************************************)
(* No courtesy write is lost and none takes a tag back, for any number of  *)
(* tracks, edits, faults and moves.                                        *)
(*                                                                         *)
(* NoLostMirror is not inductive: the dangerous step is Complete, which    *)
(* deletes a row on the strength of what the worker has been holding since *)
(* the batch query.  Inductive says what the generation comparison buys:   *)
(* a row of the same generation is the row that was read, the values read  *)
(* under it are still current, and the kinds written under it still match. *)
(***************************************************************************)
EXTENDS TagMirrorOutbox, TLAPS

RowKinds == {"metadata", "rating"}

\* The worker is between taking an item and settling it.
Busy == pc \in {"read", "probe", "reconcile", "write", "settle"}

\* It holds values of the current row.
HasSnap == pc \in {"probe", "reconcile", "write"}

\* Row t is still the one intent i was read from.
Same(t, i) == exists[t] /\ outbox[t] # NoIntent /\ outbox[t].generation = i.generation

\* A copy i of the row of t, taken by the batch query and still in use.
Held(t, i) ==
    /\ exists[t] =>
          /\ outbox[t] # NoIntent
          /\ i.generation <= outbox[t].generation
          /\ i.kinds \subseteq outbox[t].kinds
    /\ Same(t, i) => i.kinds = outbox[t].kinds /\ i.artwork = outbox[t].artwork
    /\ "artwork" \in i.kinds =>
          /\ i.artwork \in Nat
          /\ tags[t]["artwork"] <= i.artwork /\ i.artwork <= canon[t]["artwork"]

TagsBehind == \A t \in Tracks, k \in Kinds : tags[t][k] <= canon[t][k]

\* A pending artwork action is the latest one.
ArtworkCurrent ==
    \A t \in Tracks : outbox[t] # NoIntent /\ "artwork" \in outbox[t].kinds
                         => outbox[t].artwork = canon[t]["artwork"]

BatchHeld == \A t \in Tracks : batch[t] # NoIntent => Held(t, batch[t])

ItemHeld ==
    Busy => /\ cur \in Tracks /\ intent \in Intent
            /\ batch[cur] = NoIntent
            /\ Held(cur, intent)

SnapCurrent ==
    HasSnap => \A k \in RowKinds :
        /\ tags[cur][k] <= snap.values[k] /\ snap.values[k] <= canon[cur][k]
        /\ Same(cur, intent) => snap.values[k] = canon[cur][k]

\* Kinds of the current item that have reached the file.
Written == CASE pc = "write" -> intent.kinds \ left
             [] pc = "settle" /\ outcome = "succeeded" -> intent.kinds
             [] OTHER -> {}

WrittenCurrent ==
    /\ pc = "write" => left \subseteq intent.kinds
    /\ Busy /\ Same(cur, intent) => \A k \in Written : tags[cur][k] = canon[cur][k]

Inductive ==
    /\ TypeOK /\ NoLostMirror /\ TagsBehind /\ ArtworkCurrent
    /\ pc = "wait" => batch = EmptyBatch
    /\ BatchHeld /\ ItemHeld /\ SnapCurrent /\ WrittenCurrent

-----------------------------------------------------------------------------
(* The upsert, as the proofs use it.                                       *)

\* Row "new" is what an upsert asking for kinds ks makes of row "old".
Upserted(old, ks, a, new) ==
    /\ new \in Intent /\ new # NoIntent
    /\ ks \subseteq new.kinds
    /\ a # Unchanged => new.artwork = a
    /\ old = NoIntent => new.kinds = ks
    /\ old # NoIntent => /\ new.generation = old.generation + 1
                         /\ new.kinds = old.kinds \union ks
                         /\ a = Unchanged => new.artwork = old.artwork

\* An upsert leaves a row of a later generation that still asks for every kind
\* it asked for (tag_mirror.rs enqueue).
LEMMA EnqueuedRow ==
    \A old \in Intents, ks \in SUBSET Kinds, a \in Nat \union {Unchanged} :
        Upserted(old, ks, a, Enqueued(old, ks, a))
<1> SUFFICES ASSUME NEW old \in Intents, NEW ks \in SUBSET Kinds,
                    NEW a \in Nat \union {Unchanged}
             PROVE  Upserted(old, ks, a, Enqueued(old, ks, a))
  OBVIOUS
<1> USE DEF Upserted
<1>1. CASE old = NoIntent
  <2>1. Enqueued(old, ks, a) = [generation |-> 1, kinds |-> ks, artwork |-> a, due |-> TRUE]
    BY <1>1 DEF Enqueued
  <2>2. Enqueued(old, ks, a) \in Intent
    BY <2>1 DEF Intent
  <2>3. ks \subseteq Enqueued(old, ks, a).kinds /\ Enqueued(old, ks, a).kinds = ks
        /\ Enqueued(old, ks, a).artwork = a
    BY <2>1
  <2> QED
    BY <1>1, <2>2, <2>3, NoIntentAssumption
<1>2. CASE old # NoIntent
  <2>1. old \in Intent
    BY <1>2 DEF Intents
  <2>2. Enqueued(old, ks, a) =
          [generation |-> old.generation + 1, kinds |-> old.kinds \union ks,
           artwork |-> IF a # Unchanged THEN a ELSE old.artwork, due |-> TRUE]
    BY <1>2 DEF Enqueued
  <2>3. Enqueued(old, ks, a) \in Intent
    BY <2>1, <2>2 DEF Intent
  <2>4. /\ Enqueued(old, ks, a).generation = old.generation + 1
        /\ Enqueued(old, ks, a).kinds = old.kinds \union ks
        /\ a = Unchanged => Enqueued(old, ks, a).artwork = old.artwork
        /\ a # Unchanged => Enqueued(old, ks, a).artwork = a
    BY <2>2
  <2> QED
    BY <1>2, <2>3, <2>4, NoIntentAssumption
<1> QED
  BY <1>1, <1>2

-----------------------------------------------------------------------------
(* Every step preserves the invariant.                                     *)

\* Before the first row nothing is pending and every file has its tags
\* (metadata_writer.rs MetadataWriter::start).
LEMMA InitInductive == Init => Inductive
<1> SUFFICES ASSUME Init PROVE Inductive
  OBVIOUS
<1>1. TypeOK
  <2>1. EmptyBatch \in [Tracks -> Intents] /\ NoIntent \in Intents
    BY DEF EmptyBatch, Intents
  <2>2. [t \in Tracks |-> [k \in Kinds |-> 0]] \in [Tracks -> Versions]
    BY DEF Versions
  <2>3. NoSnap \in [values : Versions, path : Locations \union {Nowhere}, missing : BOOLEAN]
    BY DEF NoSnap, Versions
  <2>4. /\ exists \in [Tracks -> BOOLEAN] /\ missing \in [Tracks -> BOOLEAN]
        /\ loc \in [Tracks -> Locations] /\ at \in [Tracks -> Locations \union {Nowhere}]
    BY DEF Init
  <2>5. canon \in [Tracks -> Versions] /\ tags \in [Tracks -> Versions]
    BY <2>2 DEF Init
  <2>6. outbox \in [Tracks -> Intents] /\ batch \in [Tracks -> Intents] /\ intent \in Intents
        /\ snap \in [values : Versions, path : Locations \union {Nowhere}, missing : BOOLEAN]
    BY <2>1, <2>3 DEF Init
  <2>7. moving \in Tracks \union {NoTrack} /\ cur \in Tracks \union {NoTrack}
        /\ active \in BOOLEAN /\ present \in BOOLEAN
        /\ pc \in {"wait", "next", "read", "probe", "reconcile", "write", "settle"}
        /\ outcome \in {"none", "succeeded", "failed", "deferred"}
    BY DEF Init
  <2>8. left \subseteq Kinds /\ tries \in 0..MAX_LOCATION_RECONCILE_ATTEMPTS
        /\ faults \in Nat /\ moves \in Nat
    BY DEF Init, MAX_LOCATION_RECONCILE_ATTEMPTS
  <2> QED
    BY <2>4, <2>5, <2>6, <2>7, <2>8 DEF TypeOK
<1>2. NoLostMirror /\ TagsBehind /\ ArtworkCurrent
  BY DEF Init, NoLostMirror, TagsBehind, ArtworkCurrent, EmptyBatch, Kinds
<1>3. (pc = "wait" => batch = EmptyBatch) /\ BatchHeld
  BY DEF Init, BatchHeld, EmptyBatch
<1>4. ItemHeld /\ SnapCurrent /\ WrittenCurrent
  BY DEF Init, ItemHeld, SnapCurrent, WrittenCurrent, Busy, HasSnap
<1> QED
  BY <1>1, <1>2, <1>3, <1>4 DEF Inductive

\* A step that touches only locations, files' places and the counters.
LEMMA FrameInductive ==
    ASSUME Inductive, TypeOK', UNCHANGED <<exists, canon, outbox, tags, worker>>
    PROVE  Inductive'
<1> USE DEF Inductive, worker
<1>1. NoLostMirror' /\ TagsBehind' /\ ArtworkCurrent'
  BY DEF NoLostMirror, Pending, TagsBehind, ArtworkCurrent
<1>2. (pc = "wait" => batch = EmptyBatch)' /\ BatchHeld'
  BY DEF BatchHeld, Held, Same, EmptyBatch
<1>3. ItemHeld'
  BY DEF ItemHeld, Held, Same, Busy
<1>4. SnapCurrent'
  BY DEF SnapCurrent, Same, HasSnap
<1>5. WrittenCurrent'
  BY DEF WrittenCurrent, Written, Same, Busy
<1> QED
  BY <1>1, <1>2, <1>3, <1>4, <1>5

\* A step that leaves the store, the tags and the worker alone: files that
\* vanish, come back or move, and availability changes of tracks.rs.
LEMMA ElsewhereInductive ==
    ASSUME Inductive,
           \/ Resume \/ UpdateTrackLocation
           \/ \E t \in Tracks : \/ FileVanishes(t) \/ FileReturns(t)
                                \/ \E l \in Locations : MoveFile(t, l)
    PROVE  Inductive'
<1> USE DEF Inductive, TypeOK, store, disk, worker, Moved
<1>1. CASE Resume
  BY <1>1, FrameInductive DEF Resume
<1>2. CASE UpdateTrackLocation
  BY <1>2, FrameInductive DEF UpdateTrackLocation
<1>3. ASSUME NEW t \in Tracks, FileVanishes(t) PROVE Inductive'
  BY <1>3, FrameInductive DEF FileVanishes
<1>4. ASSUME NEW t \in Tracks, FileReturns(t) PROVE Inductive'
  BY <1>4, FrameInductive DEF FileReturns
<1>5. ASSUME NEW t \in Tracks, NEW l \in Locations, MoveFile(t, l) PROVE Inductive'
  BY <1>5, FrameInductive DEF MoveFile
<1> QED
  BY <1>1, <1>2, <1>3, <1>4, <1>5

-----------------------------------------------------------------------------
(* An edit of kind k of track t and the upsert of its intent.              *)

Edit(t, k) ==
    /\ exists[t] /\ Bump(t, k)
    /\ Enqueue(t, {k}, IF k = "artwork" THEN canon'[t][k] ELSE Unchanged)
    /\ active' = TRUE
    /\ UNCHANGED <<exists, loc, missing, disk, moving, worker, faults, moves>>

\* An edit makes every copy the worker holds an older generation
\* (library_mutation.rs set_rating, update_metadata, set_artwork).
LEMMA EditInductive ==
    ASSUME Inductive, NEW t \in Tracks, NEW k \in Kinds, Edit(t, k)
    PROVE  Inductive'
<1> USE DEF Inductive, worker, disk
<1> DEFINE a == IF k = "artwork" THEN canon'[t][k] ELSE Unchanged
<1>1. /\ canon' \in [Tracks -> Versions]
      /\ canon'[t][k] = canon[t][k] + 1
      /\ \A s \in Tracks, j \in Kinds : <<s, j>> # <<t, k>> => canon'[s][j] = canon[s][j]
      /\ \A s \in Tracks, j \in Kinds : canon[s][j] \in Nat /\ canon[s][j] <= canon'[s][j]
  BY DEF Edit, Bump, TypeOK, Versions
<1>2. a \in Nat \union {Unchanged} /\ (a = Unchanged <=> k # "artwork")
  BY <1>1, OutboxAssumption DEF Versions
<1>3. Enqueue(t, {k}, a) /\ (k = "artwork" => a = canon'[t][k])
  BY DEF Edit
<1> HIDE DEF a
<1> DEFINE row == Enqueued(outbox[t], {k}, a)
<1>4. outbox[t] \in Intents /\ {k} \in SUBSET Kinds
  BY DEF TypeOK
<1>5. Upserted(outbox[t], {k}, a, row)
  BY <1>2, <1>4, EnqueuedRow
<1>16. outbox' = [outbox EXCEPT ![t] = row]
  BY <1>3 DEF Enqueue
<1> HIDE DEF row
<1>17. /\ outbox' \in [Tracks -> Intents] /\ outbox'[t] = row
       /\ \A s \in Tracks : s # t => outbox'[s] = outbox[s]
       /\ outbox[t] # NoIntent => outbox[t] \in Intent
  BY <1>5, <1>16 DEF TypeOK, Intents, Upserted
<1> USE DEF Upserted
<1>6. TypeOK'
  BY <1>1, <1>17 DEF TypeOK, Edit
<1>7. UNCHANGED <<exists, tags, pc, batch, cur, intent, snap, left, outcome>>
  BY DEF Edit
<1>8. NoLostMirror'
  <2>1. ASSUME NEW s \in Tracks, NEW j \in Kinds, exists[s], tags[s][j] # canon'[s][j]
        PROVE  Pending(s, j)'
    <3>1. CASE s = t /\ j = k
      BY <1>2, <1>3, <1>5, <1>17, <3>1 DEF Pending
    <3>2. CASE s = t /\ j # k
      <4>1. Pending(t, j) /\ canon'[t]["artwork"] = (IF k = "artwork" THEN a ELSE canon[t]["artwork"])
        BY <1>1, <1>3, <2>1, <3>2 DEF NoLostMirror, Kinds
      <4> QED
        BY <1>1, <1>2, <1>5, <1>17, <3>2, <4>1 DEF Pending
    <3>3. CASE s # t
      BY <1>1, <1>17, <2>1, <3>3 DEF NoLostMirror, Pending
    <3> QED
      BY <3>1, <3>2, <3>3
  <2> QED
    BY <1>7, <2>1 DEF NoLostMirror
<1>9. TagsBehind'
  BY <1>1, <1>7 DEF TagsBehind, TypeOK, Versions
<1>10. ArtworkCurrent'
  BY <1>1, <1>2, <1>3, <1>5, <1>17 DEF ArtworkCurrent, Kinds
<1>11. ASSUME NEW s \in Tracks, NEW i \in Intent, Held(s, i)
       PROVE  Held(s, i)' /\ (Same(s, i)' => s # t /\ Same(s, i))
  <2>1. CASE s = t
    <3>1. exists[t] /\ exists'[t] = exists[t] /\ tags' = tags
      BY <1>7 DEF Edit
    <3>2. /\ outbox[t] # NoIntent /\ i.generation <= outbox[t].generation
          /\ i.kinds \subseteq outbox[t].kinds
      BY <1>11, <2>1, <3>1 DEF Held
    <3>3. /\ outbox'[t] # NoIntent /\ i.kinds \subseteq outbox'[t].kinds
          /\ i.generation <= outbox'[t].generation /\ i.generation # outbox'[t].generation
      <4>1. i.generation \in Nat /\ outbox[t].generation \in Nat
        BY <1>17, <3>2 DEF Intent
      <4> QED
        BY <1>5, <1>17, <3>2, <4>1
    <3>4. "artwork" \in i.kinds =>
             /\ i.artwork \in Nat
             /\ tags[t]["artwork"] <= i.artwork /\ i.artwork <= canon'[t]["artwork"]
      BY <1>1, <1>11, <2>1 DEF Held, Kinds
    <3> QED
      BY <2>1, <3>1, <3>3, <3>4 DEF Held, Same
  <2>2. CASE s # t
    BY <1>1, <1>17, <1>7, <1>11, <2>2 DEF Held, Same, Kinds
  <2> QED
    BY <2>1, <2>2
<1>12. (pc = "wait" => batch = EmptyBatch)' /\ BatchHeld'
  BY <1>7, <1>11 DEF BatchHeld, EmptyBatch, TypeOK, Intents
<1>13. ItemHeld'
  BY <1>7, <1>11 DEF ItemHeld, Busy
<1>14. SnapCurrent'
  BY <1>1, <1>7, <1>11 DEF SnapCurrent, ItemHeld, Busy, HasSnap, RowKinds, Kinds, TypeOK, Versions
<1>15. WrittenCurrent'
  BY <1>1, <1>7, <1>11 DEF WrittenCurrent, Written, ItemHeld, Busy, TypeOK, Intent
<1> QED
  BY <1>6, <1>8, <1>9, <1>10, <1>12, <1>13, <1>14, <1>15

-----------------------------------------------------------------------------
(* Steps taken between two batches.                                        *)

\* Between batches only the store and the files matter.
LEMMA IdleInductive ==
    ASSUME TypeOK', NoLostMirror', TagsBehind', ArtworkCurrent',
           pc' \in {"wait", "next"}, BatchHeld', (pc = "wait" => batch = EmptyBatch)'
    PROVE  Inductive'
BY DEF Inductive, ItemHeld, SnapCurrent, WrittenCurrent, Busy, HasSnap

\* A worker that holds no row holds none that is out of date.
LEMMA EmptyHeld == ASSUME (batch = EmptyBatch)' PROVE BatchHeld'
BY DEF BatchHeld, EmptyBatch

\* The replacement's artwork becomes the artwork last asked for, its other
\* tags are nobody's (metadata_writer.rs apply_command).
LEMMA RelocateInductive ==
    ASSUME Inductive, NEW t \in Tracks, NEW l \in Locations, RelocateMissingTrack(t, l)
    PROVE  Inductive'
<1> USE DEF Inductive
<1> DEFINE row == Enqueued(outbox[t], RowKinds, Unchanged)
           asked == outbox[t] # NoIntent /\ "artwork" \in outbox[t].kinds
<1>1. outbox[t] \in Intents /\ RowKinds \in SUBSET Kinds
  BY DEF TypeOK, RowKinds, Kinds
<1>2. Upserted(outbox[t], RowKinds, Unchanged, row)
  BY <1>1, EnqueuedRow
<1>3. /\ outbox' = [outbox EXCEPT ![t] = row]
      /\ tags' = [tags EXCEPT ![t] = [k \in Kinds |-> 0]]
      /\ canon' = IF asked THEN canon ELSE [canon EXCEPT ![t]["artwork"] = 0]
      /\ pc = "wait" /\ UNCHANGED <<exists, pc, batch>>
  BY DEF RelocateMissingTrack, Enqueue, RowKinds, worker
<1> HIDE DEF row
<1>4. /\ outbox' \in [Tracks -> Intents] /\ outbox'[t] = row
      /\ \A s \in Tracks : s # t => outbox'[s] = outbox[s]
  BY <1>2, <1>3 DEF TypeOK, Intents, Upserted
<1>5. /\ tags' \in [Tracks -> Versions]
      /\ \A k \in Kinds : tags'[t][k] = 0
      /\ \A s \in Tracks : s # t => tags'[s] = tags[s]
  BY <1>3 DEF TypeOK, Versions
<1>6. /\ canon' \in [Tracks -> Versions]
      /\ \A s \in Tracks : s # t => canon'[s] = canon[s]
      /\ asked => canon' = canon
      /\ ~asked => canon'[t]["artwork"] = 0
  <2>1. [canon EXCEPT ![t]["artwork"] = 0] \in [Tracks -> Versions]
    BY DEF TypeOK, Versions
  <2> QED
    BY <1>3, <2>1 DEF TypeOK, Versions, Kinds
<1>7. TypeOK'
  BY <1>3, <1>4, <1>5, <1>6 DEF TypeOK, RelocateMissingTrack, Moved, worker
<1>8. NoLostMirror'
  <2>1. ASSUME NEW s \in Tracks, NEW k \in Kinds, exists[s], tags'[s][k] # canon'[s][k]
        PROVE  Pending(s, k)'
    <3>1. CASE s # t
      BY <1>4, <1>5, <1>6, <2>1, <3>1 DEF NoLostMirror, Pending
    <3>2. CASE s = t /\ k \in RowKinds
      BY <1>2, <1>4, <3>2 DEF Pending, Upserted, RowKinds
    <3>3. CASE s = t /\ k = "artwork"
      <4>1. asked /\ canon' = canon /\ outbox[t].artwork = canon[t]["artwork"]
        BY <1>5, <1>6, <2>1, <3>3 DEF ArtworkCurrent
      <4> QED
        BY <1>2, <1>4, <3>3, <4>1 DEF Pending, Upserted
    <3> QED
      BY <3>1, <3>2, <3>3 DEF Kinds, RowKinds
  <2> QED
    BY <1>3, <2>1 DEF NoLostMirror
<1>9. TagsBehind'
  BY <1>5, <1>6 DEF TagsBehind, Versions
<1>10. ArtworkCurrent'
  BY <1>2, <1>4, <1>6 DEF ArtworkCurrent, Upserted, RowKinds
<1> QED
  BY <1>3, <1>7, <1>8, <1>9, <1>10, IdleInductive, EmptyHeld DEF EmptyBatch

\* A retarget is an edit of the metadata that moves the file as well
\* (metadata_writer.rs apply_command).
LEMMA RetargetInductive ==
    ASSUME Inductive, NEW t \in Tracks, NEW l \in Locations, RetargetManagedMetadata(t, l)
    PROVE  Inductive'
<1> USE DEF Inductive
<1> DEFINE row == Enqueued(outbox[t], {"metadata"}, Unchanged)
<1>1. outbox[t] \in Intents /\ {"metadata"} \in SUBSET Kinds
  BY DEF TypeOK, Kinds
<1>2. Upserted(outbox[t], {"metadata"}, Unchanged, row)
  BY <1>1, EnqueuedRow
<1>3. /\ outbox' = [outbox EXCEPT ![t] = row]
      /\ canon' = [canon EXCEPT ![t]["metadata"] = @ + 1]
      /\ pc = "wait" /\ UNCHANGED <<exists, tags, pc, batch>>
  BY DEF RetargetManagedMetadata, Enqueue, Bump, worker
<1> HIDE DEF row
<1>4. /\ outbox' \in [Tracks -> Intents] /\ outbox'[t] = row
      /\ \A s \in Tracks : s # t => outbox'[s] = outbox[s]
  BY <1>2, <1>3 DEF TypeOK, Intents, Upserted
<1>5. /\ canon' \in [Tracks -> Versions]
      /\ \A s \in Tracks : s # t => canon'[s] = canon[s]
      /\ \A k \in Kinds : k # "metadata" => canon'[t][k] = canon[t][k]
      /\ \A s \in Tracks, k \in Kinds : tags[s][k] \in Nat /\ canon[s][k] \in Nat
                                        /\ canon[s][k] <= canon'[s][k]
  BY <1>3 DEF TypeOK, Versions, Kinds
<1>6. TypeOK'
  BY <1>3, <1>4, <1>5 DEF TypeOK, RetargetManagedMetadata, Moved, worker
<1>7. NoLostMirror'
  <2>1. ASSUME NEW s \in Tracks, NEW k \in Kinds, exists[s], tags[s][k] # canon'[s][k]
        PROVE  Pending(s, k)'
    <3>1. CASE s # t
      BY <1>4, <1>5, <2>1, <3>1 DEF NoLostMirror, Pending
    <3>2. CASE s = t /\ k = "metadata"
      BY <1>2, <1>4, <3>2 DEF Pending, Upserted
    <3>3. CASE s = t /\ k # "metadata"
      <4>1. Pending(t, k) /\ canon'[t][k] = canon[t][k]
        BY <1>5, <2>1, <3>3 DEF NoLostMirror
      <4> QED
        BY <1>2, <1>4, <3>3, <4>1 DEF Pending, Upserted
    <3> QED
      BY <3>1, <3>2, <3>3
  <2> QED
    BY <1>3, <2>1 DEF NoLostMirror
<1>8. TagsBehind'
  BY <1>3, <1>5 DEF TagsBehind
<1>9. ArtworkCurrent'
  BY <1>2, <1>4, <1>5 DEF ArtworkCurrent, Upserted, Kinds
<1> QED
  BY <1>3, <1>6, <1>7, <1>8, <1>9, IdleInductive, EmptyHeld DEF EmptyBatch
-----------------------------------------------------------------------------
(* Steps that only weaken a row: deleting it with its track, or changing   *)
(* when it is due.                                                         *)

\* A row may go with its track, or keep what it asks for under another
\* attempt or deadline (sqlite/tag_mirror.rs).
LEMMA RowInductive ==
    ASSUME Inductive, TypeOK', NoLostMirror', ArtworkCurrent',
           UNCHANGED <<canon, tags, worker>>,
           \A s \in Tracks, i \in Intent :
               Held(s, i) => Held(s, i)' /\ (Same(s, i)' => Same(s, i))
    PROVE  Inductive'
<1> USE DEF Inductive, worker
<1>1. TagsBehind' /\ (pc = "wait" => batch = EmptyBatch)'
  BY DEF TagsBehind, EmptyBatch
<1>2. BatchHeld'
  BY DEF BatchHeld, TypeOK, Intents
<1>3. ItemHeld'
  BY DEF ItemHeld, Busy
<1>4. SnapCurrent'
  BY DEF SnapCurrent, ItemHeld, Busy, HasSnap
<1>5. WrittenCurrent'
  BY DEF WrittenCurrent, Written, ItemHeld, Busy
<1> QED
  BY <1>1, <1>2, <1>3, <1>4, <1>5

\* The track's row takes its intent with it (sqlite/tracks.rs delete_track).
LEMMA RemoveInductive ==
    ASSUME Inductive, NEW t \in Tracks, RemoveTrack(t)
    PROVE  Inductive'
<1> USE DEF Inductive, RemoveTrack, disk
<1>1. /\ exists' \in [Tracks -> BOOLEAN] /\ ~exists'[t]
      /\ outbox' \in [Tracks -> Intents] /\ outbox'[t] = NoIntent
      /\ \A s \in Tracks : s # t => exists'[s] = exists[s] /\ outbox'[s] = outbox[s]
  BY DEF TypeOK, Intents
<1>2. TypeOK'
  BY <1>1 DEF TypeOK, worker
<1>3. NoLostMirror' /\ ArtworkCurrent'
  BY <1>1 DEF NoLostMirror, Pending, ArtworkCurrent
<1>4. ASSUME NEW s \in Tracks, NEW i \in Intent, Held(s, i)
      PROVE  Held(s, i)' /\ (Same(s, i)' => Same(s, i))
  <2>1. CASE s = t
    BY <1>1, <1>4, <2>1 DEF Held, Same
  <2>2. CASE s # t
    BY <1>1, <1>4, <2>2 DEF Held, Same
  <2> QED
    BY <2>1, <2>2
<1> QED
  BY <1>2, <1>3, <1>4, RowInductive

\* Whether a row is due says nothing of what it asks for.
LEMMA DueInductive ==
    ASSUME Inductive, NEW t \in Tracks, NEW b \in BOOLEAN, outbox[t] # NoIntent,
           outbox' = [outbox EXCEPT ![t].due = b], TypeOK',
           UNCHANGED <<exists, canon, tags, worker>>
    PROVE  Inductive'
<1> USE DEF Inductive
<1>1. /\ outbox[t] \in Intent /\ outbox'[t] # NoIntent
      /\ outbox'[t].generation = outbox[t].generation
      /\ outbox'[t].kinds = outbox[t].kinds /\ outbox'[t].artwork = outbox[t].artwork
      /\ \A s \in Tracks : s # t => outbox'[s] = outbox[s]
  <2>1. outbox[t] \in Intent /\ outbox'[t] = [outbox[t] EXCEPT !.due = b]
    BY DEF TypeOK, Intents
  <2>2. outbox'[t] \in Intent
    BY <2>1 DEF Intent
  <2> QED
    BY <2>1, <2>2, NoIntentAssumption DEF Intent
<1>2. NoLostMirror'
  BY <1>1 DEF NoLostMirror, Pending
<1>3. ArtworkCurrent'
  BY <1>1 DEF ArtworkCurrent
<1>4. ASSUME NEW s \in Tracks, NEW i \in Intent, Held(s, i)
      PROVE  Held(s, i)' /\ (Same(s, i)' => Same(s, i))
  <2>1. CASE s = t
    BY <1>1, <1>4, <2>1 DEF Held, Same
  <2>2. CASE s # t
    BY <1>1, <1>4, <2>2 DEF Held, Same
  <2> QED
    BY <2>1, <2>2
<1> QED
  BY <1>2, <1>3, <1>4, RowInductive

\* The deadline of a failed row passes (metadata_writer.rs
\* wait_until_next_attempt).
LEMMA RetryInductive ==
    ASSUME Inductive, NEW t \in Tracks, RetryElapses(t)
    PROVE  Inductive'
<1> USE DEF Inductive, RetryElapses
<1>1. outbox'[t] \in Intent /\ outbox' \in [Tracks -> Intents]
  <2>1. outbox[t] \in Intent
    BY DEF TypeOK, Intents
  <2>2. [outbox[t] EXCEPT !.due = TRUE] \in Intent
    BY <2>1 DEF Intent
  <2> QED
    BY <2>2 DEF TypeOK, Intents
<1>2. TypeOK'
  BY <1>1 DEF TypeOK, disk, worker
<1> QED
  BY <1>2, DueInductive DEF disk

-----------------------------------------------------------------------------
(* The worker's steps.                                                     *)

\* The batch query copies rows as they are (metadata_writer.rs drain_due_batch).
LEMMA StartBatchInductive == ASSUME Inductive, StartBatch PROVE Inductive'
<1> USE DEF Inductive, StartBatch, store, disk
<1>1. batch' \in [Tracks -> Intents]
  BY DEF TypeOK, Intents, Due
<1>2. TypeOK'
  BY <1>1 DEF TypeOK
<1>3. NoLostMirror' /\ TagsBehind' /\ ArtworkCurrent'
  BY DEF NoLostMirror, Pending, TagsBehind, ArtworkCurrent
<1>4. BatchHeld'
  <2>1. ASSUME NEW t \in Tracks, outbox[t] # NoIntent
        PROVE  Held(t, outbox[t])'
    <3>1. outbox[t] \in Intent
      BY <2>1 DEF TypeOK, Intents
    <3>2. outbox[t].generation \in Nat
      BY <3>1 DEF Intent
    <3>3. "artwork" \in outbox[t].kinds =>
             /\ outbox[t].artwork = canon[t]["artwork"] /\ outbox[t].artwork \in Nat
             /\ tags[t]["artwork"] <= outbox[t].artwork
             /\ outbox[t].artwork <= canon[t]["artwork"]
      BY <2>1 DEF ArtworkCurrent, TagsBehind, Kinds, TypeOK, Versions
    <3> QED
      BY <2>1, <3>2, <3>3 DEF Held, Same
  <2> QED
    BY <2>1 DEF BatchHeld, Due
<1> QED
  BY <1>2, <1>3, <1>4, IdleInductive

\* Taking an item moves its copy from the batch to the worker's hands.
LEMMA NextItemInductive ==
    ASSUME Inductive, NEW t \in Tracks, NextItem(t)
    PROVE  Inductive'
<1> USE DEF Inductive, NextItem, store, disk
<1>1. batch[t] \in Intent /\ Held(t, batch[t])
  BY DEF TypeOK, Intents, BatchHeld
<1>2. /\ batch' \in [Tracks -> Intents] /\ batch'[t] = NoIntent
      /\ \A s \in Tracks : s # t => batch'[s] = batch[s]
  BY DEF TypeOK, Intents
<1>3. TypeOK'
  BY <1>1, <1>2 DEF TypeOK, Intents, MAX_LOCATION_RECONCILE_ATTEMPTS
<1>4. NoLostMirror' /\ TagsBehind' /\ ArtworkCurrent'
  BY DEF NoLostMirror, Pending, TagsBehind, ArtworkCurrent
<1>5. BatchHeld'
  BY <1>2 DEF BatchHeld, Held, Same
<1>6. ItemHeld'
  BY <1>1, <1>2 DEF ItemHeld, Held, Same
<1>7. SnapCurrent' /\ WrittenCurrent'
  BY DEF SnapCurrent, HasSnap, WrittenCurrent, Written
<1> QED
  BY <1>3, <1>4, <1>5, <1>6, <1>7

\* An exhausted batch leaves nothing in the worker's hands
\* (metadata_writer.rs worker_loop).
LEMMA FinishBatchInductive == ASSUME Inductive, FinishBatch PROVE Inductive'
<1> USE DEF Inductive, FinishBatch, store, disk
<1>1. TypeOK' /\ (batch = EmptyBatch)'
  BY DEF TypeOK, EmptyBatch
<1>2. NoLostMirror' /\ TagsBehind' /\ ArtworkCurrent'
  BY DEF NoLostMirror, Pending, TagsBehind, ArtworkCurrent
<1> QED
  BY <1>1, <1>2, IdleInductive, EmptyHeld

\* A crash forgets what the worker held; the store and the files remain.
LEMMA CrashInductive == ASSUME Inductive, Crash PROVE Inductive'
<1> USE DEF Inductive, Crash, Fault, store, disk
<1>1. (batch = EmptyBatch)' /\ EmptyBatch \in [Tracks -> Intents]
  BY DEF EmptyBatch, Intents
<1>2. NoSnap \in [values : Versions, path : Locations \union {Nowhere}, missing : BOOLEAN]
  BY DEF NoSnap, Versions
<1>3. intent' \in Intents /\ left' \subseteq Kinds /\ faults' \in Nat
      /\ tries' \in 0..MAX_LOCATION_RECONCILE_ATTEMPTS /\ cur' \in Tracks \union {NoTrack}
  BY DEF TypeOK, Intents, MAX_LOCATION_RECONCILE_ATTEMPTS
<1>4. TypeOK'
  BY <1>1, <1>2, <1>3 DEF TypeOK
<1>5. NoLostMirror' /\ TagsBehind' /\ ArtworkCurrent'
  BY DEF NoLostMirror, Pending, TagsBehind, ArtworkCurrent
<1> QED
  BY <1>1, <1>4, <1>5, IdleInductive, EmptyHeld

\* A step inside mirror_one that changes neither the row nor the file.
LEMMA ItemInductive ==
    ASSUME Inductive, TypeOK', Busy, Busy',
           UNCHANGED <<exists, canon, outbox, tags, batch, cur, intent>>,
           SnapCurrent', WrittenCurrent'
    PROVE  Inductive'
<1> USE DEF Inductive
<1>1. NoLostMirror' /\ TagsBehind' /\ ArtworkCurrent'
  BY DEF NoLostMirror, Pending, TagsBehind, ArtworkCurrent
<1>2. (pc = "wait" => batch = EmptyBatch)' /\ BatchHeld'
  BY DEF BatchHeld, Held, Same, Busy
<1>3. ItemHeld'
  BY DEF ItemHeld, Held, Same
<1> QED
  BY <1>1, <1>2, <1>3

\* The values are read after the row, so that a row still of the generation
\* that was read has them (metadata_writer.rs mirror_one).
LEMMA ReadInductive == ASSUME Inductive, ReadTrack PROVE Inductive'
<1> USE DEF Inductive, ReadTrack, store, disk, Settle
<1>1. Busy /\ Busy' /\ cur \in Tracks
  BY DEF Busy, ItemHeld
<1>2. snap' \in [values : Versions, path : Locations \union {Nowhere}, missing : BOOLEAN]
      /\ tries' \in 0..MAX_LOCATION_RECONCILE_ATTEMPTS
  BY <1>1 DEF TypeOK, MAX_LOCATION_RECONCILE_ATTEMPTS
<1>3. TypeOK'
  BY <1>2 DEF TypeOK
<1>4. SnapCurrent'
  BY <1>1 DEF SnapCurrent, HasSnap, RowKinds, Kinds, TagsBehind, TypeOK, Versions
<1>5. WrittenCurrent'
  BY DEF WrittenCurrent, Written
<1> QED
  BY <1>1, <1>3, <1>4, <1>5, ItemInductive

\* Looking for the file changes no value (metadata_writer.rs mirror_one).
LEMMA ProbeInductive == ASSUME Inductive, Probe PROVE Inductive'
<1> USE DEF Inductive, Probe, store, disk
<1>1. Busy /\ Busy' /\ TypeOK'
  BY DEF Busy, TypeOK
<1>2. SnapCurrent'
  BY DEF SnapCurrent, HasSnap, Same
<1>3. WrittenCurrent'
  BY DEF WrittenCurrent, Written
<1> QED
  BY <1>1, <1>2, <1>3, ItemInductive

\* Nothing has been written when writing starts.
LEMMA ReconcileInductive == ASSUME Inductive, Reconcile PROVE Inductive'
<1> USE DEF Inductive, Reconcile, disk
<1>1. /\ Busy /\ cur \in Tracks /\ intent \in Intent
      /\ pc' \in {"read", "write", "settle"}
      /\ outcome' \in {"none", "succeeded", "failed", "deferred"}
      /\ pc' = "settle" => outcome' = "deferred"
      /\ pc' = "write" => left' = intent.kinds
      /\ left' = left \/ left' = intent.kinds
  BY DEF Busy, ItemHeld, Settle, TypeOK
<1>2. Busy' /\ left' \subseteq Kinds
  BY <1>1 DEF Busy, TypeOK, Intent
<1>3. missing' \in [Tracks -> BOOLEAN]
  BY DEF TypeOK
<1>4. TypeOK'
  BY <1>1, <1>2, <1>3 DEF TypeOK
<1>5. SnapCurrent'
  BY DEF SnapCurrent, HasSnap, Same
<1>6. WrittenCurrent'
  BY <1>1 DEF WrittenCurrent, Written
<1> QED
  BY <1>1, <1>2, <1>4, <1>5, <1>6, ItemInductive

\* A failed item has written whatever it has written.
LEMMA FailInductive ==
    ASSUME Inductive, Busy, pc' = "settle", outcome' = "failed", faults' \in Nat,
           UNCHANGED <<store, disk, moving, active, batch, cur, intent, snap, left, tries,
                       present, moves>>
    PROVE  Inductive'
<1> USE DEF Inductive, store, disk
<1>1. Busy' /\ TypeOK'
  BY DEF Busy, TypeOK
<1>2. SnapCurrent' /\ WrittenCurrent'
  BY DEF SnapCurrent, HasSnap, WrittenCurrent, Written
<1> QED
  BY <1>1, <1>2, ItemInductive

-----------------------------------------------------------------------------
(* The tag write.                                                          *)

\* The value written is one the user asked for, never older than the tag it
\* replaces, and the latest if the row is still the one that was read.
LEMMA MirroredValue ==
    ASSUME Inductive, pc = "write", left # {}
    PROVE  /\ cur \in Tracks /\ NextKind \in left /\ NextKind \in Kinds
           /\ NextKind \in intent.kinds
           /\ MirroredVersion(NextKind) \in Nat
           /\ tags[cur][NextKind] <= MirroredVersion(NextKind)
           /\ MirroredVersion(NextKind) <= canon[cur][NextKind]
           /\ Same(cur, intent) => MirroredVersion(NextKind) = canon[cur][NextKind]
<1> USE DEF Inductive
<1>1. cur \in Tracks /\ intent \in Intent /\ Held(cur, intent)
  BY DEF ItemHeld, Busy
<1>2. NextKind \in left /\ NextKind \in Kinds /\ NextKind \in intent.kinds
  BY DEF NextKind, Kinds, TypeOK, WrittenCurrent
<1>3. CASE NextKind = "artwork"
  BY <1>1, <1>2, <1>3 DEF MirroredVersion, Held, Same, ArtworkCurrent
<1>4. CASE NextKind # "artwork"
  <2>1. NextKind \in RowKinds
    BY <1>2, <1>4 DEF Kinds, RowKinds
  <2>2. snap.values \in Versions
    BY DEF TypeOK
  <2> QED
    BY <1>1, <1>2, <1>4, <2>1, <2>2 DEF MirroredVersion, SnapCurrent, HasSnap, Versions
<1> QED
  BY <1>1, <1>2, <1>3, <1>4

\* The kind's value reaches the file, whether that is reported or not.
Published ==
    /\ pc = "write" /\ left # {} /\ Publish(NextKind)
    /\ left' \in {left, left \ {NextKind}}
    /\ pc' \in {"write", "settle"} /\ faults' \in Nat
    /\ outcome' \in {"none", "succeeded", "failed", "deferred"}
    /\ pc' = "settle" => outcome' = "failed" \/ left = {NextKind}
    /\ UNCHANGED <<store, at, moving, active, batch, cur, intent, snap, tries,
                   present, moves>>

\* A write that reaches the file, whether it is reported as done or not.
LEMMA PublishInductive == ASSUME Inductive, Published PROVE Inductive'
<1> USE DEF Inductive, Published, store
<1> DEFINE k == NextKind
           v == MirroredVersion(k)
<1>1. /\ cur \in Tracks /\ k \in Kinds /\ k \in left /\ k \in intent.kinds
      /\ v \in Nat /\ tags[cur][k] <= v /\ v <= canon[cur][k]
      /\ Same(cur, intent) => v = canon[cur][k]
      /\ intent \in Intent /\ Held(cur, intent)
  BY MirroredValue DEF ItemHeld, Busy
<1>2. tags' = [tags EXCEPT ![cur][k] = v]
  BY DEF Publish
<1> HIDE DEF k, v
<1>3. /\ tags' \in [Tracks -> Versions] /\ tags'[cur][k] = v
      /\ \A s \in Tracks, j \in Kinds : <<s, j>> # <<cur, k>> => tags'[s][j] = tags[s][j]
  BY <1>1, <1>2 DEF TypeOK, Versions
<1>4. left' \subseteq left /\ left' \subseteq Kinds
  BY DEF TypeOK
<1>5. TypeOK' /\ Busy /\ Busy'
  BY <1>3, <1>4 DEF TypeOK, Busy
<1>6. NoLostMirror'
  <2>1. ASSUME NEW s \in Tracks, NEW j \in Kinds, exists[s], tags'[s][j] # canon[s][j]
        PROVE  Pending(s, j)
    <3>1. CASE <<s, j>> # <<cur, k>>
      BY <1>3, <2>1, <3>1 DEF NoLostMirror
    <3>2. CASE s = cur /\ j = k
      BY <1>1, <2>1, <3>2 DEF Pending, Held, ArtworkCurrent
    <3> QED
      BY <3>1, <3>2
  <2> QED
    BY <2>1 DEF NoLostMirror, Pending
<1>7. TagsBehind' /\ ArtworkCurrent'
  BY <1>1, <1>3 DEF TagsBehind, ArtworkCurrent
<1>8. ASSUME NEW s \in Tracks, NEW i \in Intent, Held(s, i), s # cur \/ i = intent
      PROVE  Held(s, i)'
  <2>1. CASE s # cur
    BY <1>3, <1>8, <2>1 DEF Held, Same, Kinds
  <2>2. CASE s = cur /\ i = intent
    <3>1. "artwork" \in i.kinds => tags'[s]["artwork"] <= i.artwork
      <4>1. CASE k = "artwork"
        BY <1>1, <1>3, <2>2, <4>1 DEF k, v, MirroredVersion, Held, TypeOK
      <4>2. CASE k # "artwork"
        BY <1>3, <1>8, <2>2, <4>2 DEF Held, Kinds
      <4> QED
        BY <4>1, <4>2
    <3> QED
      BY <1>8, <3>1 DEF Held, Same
  <2> QED
    BY <1>8, <2>1, <2>2
<1>9. (pc = "wait" => batch = EmptyBatch)' /\ BatchHeld'
  BY <1>8 DEF BatchHeld, ItemHeld, Busy, TypeOK, Intents
<1>10. ItemHeld'
  BY <1>1, <1>5, <1>8 DEF ItemHeld
<1>11. SnapCurrent'
  BY <1>1, <1>3 DEF SnapCurrent, HasSnap, Same, RowKinds, Kinds, k, v, MirroredVersion
<1>12. WrittenCurrent'
  BY <1>1, <1>3, <1>4 DEF WrittenCurrent, Written, Same, Intent, k, Busy
<1> QED
  BY <1>5, <1>6, <1>7, <1>9, <1>10, <1>11, <1>12

\* A kind is written, or its write fails, one after the other
\* (metadata_writer.rs mirror_one).
LEMMA WriteInductive ==
    ASSUME Inductive, WriteTag \/ WriteTagNotFound \/ ItemFails
    PROVE  Inductive'
<1> USE DEF Settle
<1>1. faults \in Nat /\ outcome \in {"none", "succeeded", "failed", "deferred"}
  BY DEF Inductive, TypeOK
<1>2. CASE WriteTag
  <2>1. Published
    BY <1>1, <1>2 DEF WriteTag, Published
  <2> QED
    BY <2>1, PublishInductive
<1>3. CASE WriteTagNotFound
  BY <1>1, <1>3, FailInductive DEF WriteTagNotFound, Busy
<1>4. CASE ItemFails
  <2>1. faults' \in Nat
    BY <1>1, <1>4 DEF ItemFails, Fault
  <2>2. CASE UNCHANGED tags
    BY <1>4, <2>1, <2>2, FailInductive DEF ItemFails, Busy, disk
  <2>3. CASE pc = "write" /\ left # {} /\ Publish(NextKind)
    <3>1. Published
      BY <1>4, <2>1, <2>3 DEF ItemFails, Published
    <3> QED
      BY <3>1, PublishInductive
  <2> QED
    BY <1>4, <2>2, <2>3 DEF ItemFails
<1> QED
  BY <1>2, <1>3, <1>4

\* Deleting the row of the item that was written loses nothing: the same
\* generation means that what was written is what is asked for
\* (metadata_writer.rs drain_due_batch, tag_mirror.rs complete).
LEMMA SettleInductive == ASSUME Inductive, SettleItem PROVE Inductive'
<1> USE DEF Inductive, SettleItem, disk
<1> DEFINE g == intent.generation
           same == outbox[cur] # NoIntent /\ outbox[cur].generation = g
<1>1. /\ cur \in Tracks /\ intent \in Intent /\ Held(cur, intent)
      /\ batch[cur] = NoIntent /\ Busy
  BY DEF ItemHeld, Busy
<1>2. NoSnap \in [values : Versions, path : Locations \union {Nowhere}, missing : BOOLEAN]
  BY DEF NoSnap, Versions
<1>3. ASSUME outbox' \in [Tracks -> Intents] PROVE TypeOK'
  <2>1. /\ intent' \in Intents /\ cur' \in Tracks \union {NoTrack}
        /\ left' \subseteq Kinds /\ faults' \in Nat
        /\ tries' \in 0..MAX_LOCATION_RECONCILE_ATTEMPTS
    BY DEF TypeOK, Intents, Fault, MAX_LOCATION_RECONCILE_ATTEMPTS
  <2> QED
    BY <1>2, <1>3, <2>1 DEF TypeOK
<1>4. TagsBehind'
  BY DEF TagsBehind
<1>5. CASE UNCHANGED outbox
  <2>1. NoLostMirror' /\ ArtworkCurrent' /\ BatchHeld'
    BY <1>5 DEF NoLostMirror, Pending, ArtworkCurrent, BatchHeld, Held, Same
  <2>2. TypeOK'
    BY <1>3, <1>5 DEF TypeOK
  <2> QED
    BY <1>4, <2>1, <2>2, IdleInductive
<1>6. CASE outcome = "succeeded" /\ Complete(cur, g)
  <2>1. CASE ~same
    <3>1. outbox' = outbox
      BY <1>1, <1>6, <2>1 DEF Complete, TypeOK
    <3> QED
      BY <1>5, <3>1
  <2>2. CASE same
    <3>1. /\ outbox' \in [Tracks -> Intents] /\ outbox'[cur] = NoIntent
          /\ \A s \in Tracks : s # cur => outbox'[s] = outbox[s]
      BY <1>1, <1>6, <2>2 DEF Complete, TypeOK, Intents
    <3>2. exists[cur] => \A k \in Kinds : tags[cur][k] = canon[cur][k]
      <4>1. SUFFICES ASSUME exists[cur], NEW k \in Kinds
                     PROVE  tags[cur][k] = canon[cur][k]
        OBVIOUS
      <4>2. Same(cur, intent) /\ intent.kinds = outbox[cur].kinds
        BY <1>1, <2>2, <4>1 DEF Same, Held
      <4>3. Written = intent.kinds
        BY <1>6 DEF Written
      <4>4. CASE k \in intent.kinds
        BY <1>1, <4>2, <4>3, <4>4 DEF WrittenCurrent
      <4>5. CASE k \notin intent.kinds
        BY <1>1, <4>1, <4>2, <4>5 DEF NoLostMirror, Pending
      <4> QED
        BY <4>4, <4>5
    <3>3. NoLostMirror'
      BY <3>1, <3>2 DEF NoLostMirror, Pending
    <3>4. ArtworkCurrent' /\ BatchHeld'
      BY <1>1, <3>1 DEF ArtworkCurrent, BatchHeld, Held, Same
    <3> QED
      BY <1>3, <1>4, <3>1, <3>3, <3>4, IdleInductive
  <2> QED
    BY <2>1, <2>2
<1>7. CASE outcome # "succeeded" /\ RecordFailure(cur, g)
  <2>1. CASE ~same
    <3>1. outbox' = outbox
      BY <1>1, <1>7, <2>1 DEF RecordFailure, TypeOK
    <3> QED
      BY <1>5, <3>1
  <2>2. CASE same
    <3>1. /\ outbox[cur] \in Intent
          /\ outbox' = [outbox EXCEPT ![cur] = [outbox[cur] EXCEPT !.due = FALSE]]
      BY <1>1, <1>7, <2>2 DEF RecordFailure, TypeOK, Intents
    <3>2. [outbox[cur] EXCEPT !.due = FALSE] \in Intent
      BY <3>1 DEF Intent
    <3>3. /\ outbox' \in [Tracks -> Intents] /\ outbox'[cur] # NoIntent
          /\ outbox'[cur].kinds = outbox[cur].kinds
          /\ outbox'[cur].artwork = outbox[cur].artwork
          /\ \A s \in Tracks : s # cur => outbox'[s] = outbox[s]
      BY <1>1, <3>1, <3>2, NoIntentAssumption DEF TypeOK, Intents, Intent
    <3>4. NoLostMirror' /\ ArtworkCurrent'
      BY <1>1, <2>2, <3>3 DEF NoLostMirror, Pending, ArtworkCurrent
    <3>5. BatchHeld'
      BY <1>1, <3>3 DEF BatchHeld, Held, Same
    <3> QED
      BY <1>3, <1>4, <3>3, <3>4, <3>5, IdleInductive
  <2> QED
    BY <2>1, <2>2
<1> QED
  BY <1>5, <1>6, <1>7

-----------------------------------------------------------------------------
(* The theorems.                                                           *)

\* A step of another component preserves the invariant.
LEMMA StutterInductive == ASSUME Inductive, UNCHANGED vars PROVE Inductive'
<1>1. TypeOK'
  BY DEF Inductive, TypeOK, vars, store, disk, worker
<1> QED
  BY <1>1, FrameInductive DEF vars, store, disk

\* Every handler of the runtime and every step of the worker preserves the
\* invariant (library_mutation.rs, metadata_writer.rs, sqlite/tag_mirror.rs).
LEMMA NextInductive == Inductive /\ [Next]_vars => Inductive'
<1> SUFFICES ASSUME Inductive, [Next]_vars PROVE Inductive'
  OBVIOUS
<1>1. ASSUME WorkerStep PROVE Inductive'
  BY <1>1, StartBatchInductive, FinishBatchInductive, ReadInductive, ProbeInductive,
     ReconcileInductive, WriteInductive, SettleInductive, NextItemInductive DEF WorkerStep
<1>2. ASSUME NEW t \in Tracks,
             \/ SetRating(t) \/ UpdateMetadata(t) \/ SetArtwork(t)
             \/ FillMissingMetadata(t) \/ EnqueueArtwork(t)
      PROVE  Inductive'
  <2>1. \E k \in Kinds : Edit(t, k)
    BY <1>2 DEF SetRating, UpdateMetadata, SetArtwork, UserEdit, FillMissingMetadata,
       EnqueueArtwork, Enrich, Edit, Kinds
  <2> QED
    BY <2>1, EditInductive
<1>3. ASSUME NEW t \in Tracks, NEW l \in Locations,
             MoveFile(t, l) \/ RelocateMissingTrack(t, l) \/ RetargetManagedMetadata(t, l)
      PROVE  Inductive'
  BY <1>3, ElsewhereInductive, RelocateInductive, RetargetInductive
<1>4. ASSUME NEW t \in Tracks,
             RemoveTrack(t) \/ RetryElapses(t) \/ FileVanishes(t) \/ FileReturns(t)
      PROVE  Inductive'
  BY <1>4, RemoveInductive, RetryInductive, ElsewhereInductive
<1>5. CASE UpdateTrackLocation \/ Resume
  BY <1>5, ElsewhereInductive
<1>6. CASE Crash
  BY <1>6, CrashInductive
<1>7. CASE UNCHANGED vars
  BY <1>7, StutterInductive
<1> QED
  BY <1>1, <1>2, <1>3, <1>4, <1>5, <1>6, <1>7 DEF Next

\* The invariant holds at every step of the mirror of metadata_writer.rs,
\* whatever edits, moves, failures and crashes interleave with it.
THEOREM Invariance == Spec => []Inductive
BY InitInductive, NextInductive, PTL DEF Spec

\* Every reachable state is well typed.
THEOREM TypeCorrect == Spec => []TypeOK
<1>1. Inductive => TypeOK
  BY DEF Inductive
<1> QED
  BY <1>1, Invariance, PTL

\* Whatever the interleaving of edits, enrichment, moves, relocations, failed
\* writes, retries and crashes, a file that lacks an edit has a row asking for
\* it: the outbox of metadata_writer.rs and tag_mirror.rs loses no write.
THEOREM NothingLost == Spec => []NoLostMirror
<1>1. Inductive => NoLostMirror
  BY DEF Inductive
<1> QED
  BY <1>1, Invariance, PTL

\* A mirror write never replaces a tag by an older one.
THEOREM NeverRegresses == Spec => MirrorNeverRegresses
<1>1. Inductive /\ [Next]_vars =>
         [pc = "write" => \A t \in Tracks, k \in Kinds : tags'[t][k] >= tags[t][k]]_vars
  <2> SUFFICES ASSUME Inductive, Next, pc = "write", NEW t \in Tracks, NEW k \in Kinds
               PROVE  tags'[t][k] >= tags[t][k]
    OBVIOUS
  <2>1. \A s \in Tracks, j \in Kinds : tags[s][j] \in Nat
    BY DEF Inductive, TypeOK, Versions
  <2>2. CASE UNCHANGED tags
    BY <2>1, <2>2
  <2>3. CASE left # {} /\ Publish(NextKind)
    <3>1. tags' = [tags EXCEPT ![cur][NextKind] = MirroredVersion(NextKind)]
      BY <2>3 DEF Publish
    <3>2. /\ cur \in Tracks /\ NextKind \in Kinds /\ MirroredVersion(NextKind) \in Nat
          /\ tags[cur][NextKind] <= MirroredVersion(NextKind)
      BY <2>3, MirroredValue
    <3>3. CASE t = cur /\ k = NextKind
      BY <2>1, <3>1, <3>2, <3>3 DEF Inductive, TypeOK, Versions
    <3>4. CASE ~(t = cur /\ k = NextKind)
      BY <2>1, <3>1, <3>2, <3>4 DEF Inductive, TypeOK, Versions
    <3> QED
      BY <3>3, <3>4
  <2>4. UNCHANGED tags \/ (left # {} /\ Publish(NextKind))
    BY DEF Next, WorkerStep, StartBatch, FinishBatch, ReadTrack, Probe, Reconcile,
       WriteTag, WriteTagNotFound, ItemFails, SettleItem, NextItem, SetRating,
       UpdateMetadata, SetArtwork, UserEdit, FillMissingMetadata, EnqueueArtwork, Enrich,
       RemoveTrack, RetryElapses, FileVanishes, FileReturns, MoveFile,
       RelocateMissingTrack, RetargetManagedMetadata, UpdateTrackLocation, Resume, Crash,
       store, disk
  <2> QED
    BY <2>2, <2>3, <2>4
<1> QED
  BY <1>1, Invariance, PTL DEF Spec, MirrorNeverRegresses
=============================================================================
