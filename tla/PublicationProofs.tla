-------------------------- MODULE PublicationProofs --------------------------
(***************************************************************************)
(* Proofs about the two components that publish a file before the row that *)
(* points at it: the payloads of artwork (ArtworkOutbox) and the audio of  *)
(* replacements and imports (AudioPublication).  They share no state: each *)
(* has a section of its own, with its own inductive invariant.             *)
(*                                                                         *)
(* Artwork.  A collection takes the payload of a row only if it overlapped *)
(* the publication, for any number of publishers, tracks and pictures.     *)
(* DanglingOnlyIfRaced is not inductive: a row is safe from a collection   *)
(* that runs because the collection has read it (RowsReferenced), and a    *)
(* row committed later is not counted on because its publisher is marked   *)
(* (CollectionOverlaps).                                                   *)
(*                                                                         *)
(* Audio.  Rows find their files, files are accounted for, and one stop    *)
(* leaves a replacement recoverable.  The inductive invariant has a part   *)
(* for every execution (Control) and a part for the executions in which no *)
(* call has failed (Exact), whose conjuncts hold while the user has        *)
(* removed no row (RowsKept), before the first stop (Unstopped), or up to  *)
(* it (Answerable, FilesOwned).                                            *)
(***************************************************************************)
EXTENDS ArtworkOutbox, AudioPublication, FiniteSetTheorems, WellFoundedInduction, TLAPS

-----------------------------------------------------------------------------
(* ArtworkOutbox.                                                          *)

\* The row of t sets picture d and no collection overlapped its publication.
Owns(t, d) == outbox[t] # NoIntent /\ outbox[t].artwork = d /\ t \notin raced

\* A publisher at work knows its track and its picture.
PublishersTyped ==
    \A p \in Publishers : step[p] # "idle" => target[p] \in Tracks /\ digest[p] \in Digests

\* Every publisher at work while a collection runs is marked.
CollectionOverlaps ==
    Collecting => \A p \in Publishers : step[p] # "idle" => p \in overlap

\* A publisher that is not marked still has the blob it found or wrote.
PublishedStays ==
    \A p \in Publishers :
        step[p] = "enqueue" /\ p \notin overlap => blobs[digest[p]] # "absent"

\* The collection has read every row that counts on it.
RowsReferenced ==
    at = "scan" => \A t \in Tracks, d \in Digests : Owns(t, d) => d \in refs

RowsHavePayload == \A t \in Tracks, d \in Digests : Owns(t, d) => blobs[d] # "absent"

ArtworkInductive ==
    /\ ArtworkTypeOK /\ PublishersTyped
    /\ CollectionOverlaps /\ PublishedStays /\ RowsReferenced /\ RowsHavePayload

-----------------------------------------------------------------------------
\* Committing a row keeps the table's type (enqueue_artwork).
LEMMA EnqueueTyped ==
    ASSUME ArtworkTypeOK, NEW t, NEW artwork \in Artwork, Enqueue(t, artwork)
    PROVE  /\ outbox' \in [Tracks -> Intents] /\ active' \in BOOLEAN
           /\ unswept' \subseteq Digests \union {NoDigest}
<1> DEFINE row == [generation |-> IF outbox[t] = NoIntent THEN 1 ELSE outbox[t].generation + 1,
                   artwork |-> artwork]
<1>1. /\ outbox' = [outbox EXCEPT ![t] = row] /\ active' = TRUE
      /\ unswept' = unswept \union Payload(t)
  BY DEF Enqueue
<1>2. t \in Tracks => row \in Intents
  BY DEF ArtworkTypeOK, Intents, Intent
<1>3. Payload(t) \subseteq Digests  BY DEF Payload
<1> QED  BY <1>1, <1>2, <1>3 DEF ArtworkTypeOK

\* The initial state.
LEMMA Initially == ArtworkInit => ArtworkInductive
<1> SUFFICES ASSUME ArtworkInit PROVE ArtworkInductive
  OBVIOUS
<1> USE DEF ArtworkInit
<1>1. NoBatch \in [Tracks -> Intents]  BY DEF NoBatch, Intents
<1>2. /\ blobs \in [Digests -> Age] /\ temps \in [Publishers -> Age]
      /\ edits \in 0 .. MaxEdits
  BY ArtworkAssumption DEF Age
<1>3. ArtworkTypeOK  BY <1>1, <1>2 DEF ArtworkTypeOK
<1>4. \A t \in Tracks, d \in Digests : ~Owns(t, d)  BY DEF Owns, NoBatch
<1>5. PublishersTyped /\ CollectionOverlaps /\ PublishedStays
  BY DEF PublishersTyped, CollectionOverlaps, PublishedStays, Collecting
<1> QED  BY <1>3, <1>4, <1>5 DEF ArtworkInductive, RowsReferenced, RowsHavePayload

\* An edit begins: a publisher starts while a collection may run (set_artwork).
LEMMA SetArtworkKeeps ==
    ASSUME ArtworkInductive, NEW p \in Publishers, NEW t \in Tracks, NEW d \in Digests,
           SetArtwork(p, t, d)
    PROVE  ArtworkInductive'
<1> USE DEF ArtworkInductive, SetArtwork, files, writer
<1>1. ArtworkTypeOK'
  <2>1. edits \in 0 .. MaxEdits /\ Edit  BY DEF ArtworkTypeOK
  <2>2. edits' \in 0 .. MaxEdits  BY <2>1, ArtworkAssumption DEF Edit
  <2> QED  BY <2>2 DEF ArtworkTypeOK
<1>2. PublishersTyped'  BY DEF ArtworkTypeOK, PublishersTyped
<1>3. CollectionOverlaps'  BY DEF ArtworkTypeOK, CollectionOverlaps, Collecting
<1>4. PublishedStays'  BY DEF ArtworkTypeOK, PublishedStays
<1>5. RowsReferenced' /\ RowsHavePayload'  BY DEF RowsReferenced, RowsHavePayload, Owns
<1> QED  BY <1>1, <1>2, <1>3, <1>4, <1>5

\* The picture is removed (clear_artwork): the new row needs no payload.
LEMMA ClearArtworkKeeps ==
    ASSUME ArtworkInductive, NEW t \in Tracks, ClearArtwork(t)
    PROVE  ArtworkInductive'
<1> USE DEF ArtworkInductive, ClearArtwork, Edit, files, publisher
<1>1. edits' \in 0 .. MaxEdits /\ raced' \subseteq Tracks
  BY ArtworkAssumption DEF ArtworkTypeOK
<1>2. /\ outbox' \in [Tracks -> Intents] /\ active' \in BOOLEAN
      /\ unswept' \subseteq Digests \union {NoDigest}
  BY EnqueueTyped DEF Artwork
<1>3. ArtworkTypeOK'
  <2> HIDE DEF Edit
  <2> QED  BY <1>1, <1>2 DEF ArtworkTypeOK
<1>4. \A u \in Tracks, d \in Digests : Owns(u, d)' => Owns(u, d)
  BY ArtworkAssumption DEF Owns, Enqueue, ArtworkTypeOK
<1>5. PublishersTyped' /\ CollectionOverlaps' /\ PublishedStays'
  BY DEF PublishersTyped, CollectionOverlaps, Collecting, PublishedStays
<1>6. RowsReferenced' /\ RowsHavePayload'  BY <1>4 DEF RowsReferenced, RowsHavePayload
<1> QED  BY <1>3, <1>5, <1>6

\* A publisher goes on: it finds the blob, or writes and renames a file (publish).
LEMMA PublishKeeps ==
    ASSUME ArtworkInductive, NEW p \in Publishers,
           PublishExisting(p) \/ WriteTemporary(p) \/ RenameTemporary(p) \/ PublishFails(p)
    PROVE  ArtworkInductive'
<1> USE DEF ArtworkInductive, PublishExisting, WriteTemporary, RenameTemporary, PublishFails,
            EditOver, files, writer, history
<1>1. ArtworkTypeOK'  BY DEF ArtworkTypeOK, Age, PublishersTyped
<1>2. PublishersTyped'  BY DEF ArtworkTypeOK, PublishersTyped
<1>3. CollectionOverlaps'  BY DEF ArtworkTypeOK, CollectionOverlaps, Collecting
<1>4. \A d \in Digests : blobs[d] # "absent" => blobs'[d] # "absent"
  BY DEF ArtworkTypeOK, PublishersTyped
<1>5. step'[p] = "enqueue" => blobs'[digest[p]] # "absent"
  BY DEF ArtworkTypeOK, PublishersTyped
<1>6. PublishedStays'  BY <1>4, <1>5 DEF ArtworkTypeOK, PublishersTyped, PublishedStays
<1>7. RowsReferenced' /\ RowsHavePayload'
  BY <1>4 DEF RowsReferenced, RowsHavePayload, Owns
<1> QED  BY <1>1, <1>2, <1>3, <1>6, <1>7

\* The blob is stored and no row comes of it (enqueue_artwork).
LEMMA EnqueueFailsKeeps ==
    ASSUME ArtworkInductive, NEW p \in Publishers, EnqueueFails(p)
    PROVE  ArtworkInductive'
<1> USE DEF ArtworkInductive, EnqueueFails, EditOver, files, writer
<1>1. unswept' \subseteq Digests \union {NoDigest}  BY DEF ArtworkTypeOK, PublishersTyped
<1>2. ArtworkTypeOK'  BY <1>1 DEF ArtworkTypeOK
<1>3. PublishersTyped' /\ CollectionOverlaps' /\ PublishedStays'
  BY DEF ArtworkTypeOK, PublishersTyped, CollectionOverlaps, Collecting, PublishedStays
<1>4. RowsReferenced' /\ RowsHavePayload'  BY DEF RowsReferenced, RowsHavePayload, Owns
<1> QED  BY <1>2, <1>3, <1>4

\* The row goes with its track: fewer rows count on a payload (delete_track).
LEMMA RemoveTrackKeeps ==
    ASSUME ArtworkInductive, NEW t \in Tracks, RemoveTrack(t)
    PROVE  ArtworkInductive'
<1> USE DEF ArtworkInductive, RemoveTrack, files, publisher, writer
<1>1. /\ removed' \subseteq Tracks /\ outbox' \in [Tracks -> Intents]
      /\ unswept' \subseteq Digests \union {NoDigest}
  BY DEF ArtworkTypeOK, Intents, Payload
<1>2. ArtworkTypeOK'  BY <1>1 DEF ArtworkTypeOK
<1>3. \A u \in Tracks, d \in Digests : Owns(u, d)' => Owns(u, d)  BY DEF Owns, ArtworkTypeOK
<1>4. PublishersTyped' /\ CollectionOverlaps' /\ PublishedStays'
  BY DEF PublishersTyped, CollectionOverlaps, Collecting, PublishedStays
<1>5. RowsReferenced' /\ RowsHavePayload'  BY <1>3 DEF RowsReferenced, RowsHavePayload
<1> QED  BY <1>2, <1>4, <1>5

\* The row is committed (enqueue_tag_mirror_artwork): it counts on its payload
\* only if the publisher is not marked, and then no collection is under way.
LEMMA EnqueueArtworkKeeps ==
    ASSUME ArtworkInductive, NEW p \in Publishers, EnqueueArtwork(p)
    PROVE  ArtworkInductive'
<1> USE DEF ArtworkInductive, EnqueueArtwork, EditOver, files
<1>1. target[p] \in Tracks /\ digest[p] \in Digests  BY DEF PublishersTyped
<1>2. /\ outbox' \in [Tracks -> Intents] /\ active' \in BOOLEAN
      /\ unswept' \subseteq Digests \union {NoDigest}
  BY <1>1, EnqueueTyped DEF Artwork
<1>3. ArtworkTypeOK'  BY <1>1, <1>2 DEF ArtworkTypeOK
<1>4. PublishersTyped' /\ CollectionOverlaps' /\ PublishedStays'
  BY DEF ArtworkTypeOK, PublishersTyped, CollectionOverlaps, Collecting, PublishedStays
<1>5. \A t \in Tracks, d \in Digests :
          Owns(t, d)' => Owns(t, d) \/ (t = target[p] /\ d = digest[p] /\ p \notin overlap)
  BY <1>1 DEF Owns, Enqueue, ArtworkTypeOK
<1>6. RowsHavePayload'  BY <1>5 DEF RowsHavePayload, PublishedStays
<1>7. RowsReferenced'  BY <1>5 DEF RowsReferenced, CollectionOverlaps, Collecting
<1> QED  BY <1>3, <1>4, <1>6, <1>7

\* A collection begins: publishers at work are marked (TakeSnapshot).
LEMMA TakeSnapshotKeeps ==
    ASSUME ArtworkInductive, TakeSnapshot
    PROVE  ArtworkInductive'
<1> USE DEF ArtworkInductive, TakeSnapshot, publisher
<1>1. ArtworkTypeOK'  BY DEF ArtworkTypeOK, Age
<1>2. \A d \in Digests : blobs[d] # "absent" => blobs'[d] # "absent"  BY DEF ArtworkTypeOK
<1>3. PublishersTyped' /\ CollectionOverlaps'  BY DEF PublishersTyped, CollectionOverlaps
<1>4. PublishedStays'  BY <1>2 DEF PublishedStays, PublishersTyped
<1>5. RowsReferenced' /\ RowsHavePayload'
  BY <1>2 DEF RowsReferenced, RowsHavePayload, Owns
<1> QED  BY <1>1, <1>3, <1>4, <1>5

\* The collection reads the rows (tag_mirror_artwork_references).
LEMMA ReadReferencesKeeps ==
    ASSUME ArtworkInductive, ReadReferences
    PROVE  ArtworkInductive'
<1> USE DEF ArtworkInductive, ReadReferences, files, publisher, history
<1>1. ArtworkTypeOK'  BY DEF ArtworkTypeOK, Referenced
<1>2. PublishersTyped' /\ PublishedStays' /\ RowsHavePayload'
  BY DEF PublishersTyped, PublishedStays, RowsHavePayload, Owns
<1>3. CollectionOverlaps'  BY DEF CollectionOverlaps, Collecting
<1>4. RowsReferenced'  BY DEF RowsReferenced, Referenced, Owns
<1> QED  BY <1>1, <1>2, <1>3, <1>4

\* The collection deletes an old blob it has not read a reference to.
LEMMA VisitBlobKeeps ==
    ASSUME ArtworkInductive, NEW d \in Digests, VisitBlob(d)
    PROVE  ArtworkInductive'
<1> USE DEF ArtworkInductive, VisitBlob, publisher, history
<1>1. ArtworkTypeOK'  BY DEF ArtworkTypeOK, Age
<1>2. PublishersTyped' /\ CollectionOverlaps' /\ RowsReferenced'
  BY DEF PublishersTyped, CollectionOverlaps, Collecting, RowsReferenced, Owns
<1>3. PublishedStays'  BY DEF PublishedStays, CollectionOverlaps, Collecting
<1>4. RowsHavePayload'  BY DEF ArtworkTypeOK, RowsHavePayload, RowsReferenced, Owns
<1> QED  BY <1>1, <1>2, <1>3, <1>4

\* A row is settled: it goes if it is the one that was mirrored (complete).
LEMMA CompleteArtworkKeeps ==
    ASSUME ArtworkInductive, CompleteArtwork
    PROVE  ArtworkInductive'
<1> USE DEF ArtworkInductive, CompleteArtwork, files, publisher, history
<1>1. ArtworkTypeOK'  BY DEF ArtworkTypeOK, Intents
<1>2. \A t \in Tracks, d \in Digests : Owns(t, d)' => Owns(t, d)  BY DEF Owns, ArtworkTypeOK
<1>3. PublishersTyped' /\ CollectionOverlaps' /\ PublishedStays'
  BY DEF PublishersTyped, CollectionOverlaps, Collecting, PublishedStays
<1>4. RowsReferenced' /\ RowsHavePayload'  BY <1>2 DEF RowsReferenced, RowsHavePayload
<1> QED  BY <1>1, <1>3, <1>4

\* The rest of the writer's batch, and the nudge after a start.
LEMMA BatchKeeps ==
    ASSUME ArtworkInductive,
           \/ VisitLitter \/ EndCollection \/ CollectionFails \/ StartBatch \/ SettleFails
           \/ EndBatch \/ Resume
           \/ \E t \in Tracks : WriteArtwork(t) \/ MirrorFails(t)
           \/ \E p \in Publishers : VisitTemporary(p)
    PROVE  ArtworkInductive'
<1> USE DEF ArtworkInductive, VisitLitter, EndCollection, CollectionFails, StartBatch, EndBatch,
            SettleFails, Resume, WriteArtwork, MirrorFails, VisitTemporary, files, publisher,
            writer, history
<1>1. unswept' \subseteq Digests \union {NoDigest}  BY DEF ArtworkTypeOK, Unneeded
<1>2. batch' \in [Tracks -> Intents]  BY DEF ArtworkTypeOK, Intents
<1>3. temps' \in [Publishers -> Age]  BY DEF ArtworkTypeOK, Age
<1>4. ArtworkTypeOK'  BY <1>1, <1>2, <1>3 DEF ArtworkTypeOK
<1>5. PublishersTyped' /\ CollectionOverlaps' /\ PublishedStays'
  BY DEF PublishersTyped, CollectionOverlaps, Collecting, PublishedStays
<1>6. RowsReferenced' /\ RowsHavePayload'  BY DEF RowsReferenced, RowsHavePayload, Owns
<1> QED  BY <1>4, <1>5, <1>6

\* The process dies; files and rows stay.
LEMMA ProcessDiesKeeps ==
    ASSUME ArtworkInductive, ProcessDies
    PROVE  ArtworkInductive'
<1> USE DEF ArtworkInductive, ProcessDies, history
<1>1. /\ batch' \in [Tracks -> Intents] /\ temps' \in [Publishers -> Age]
      /\ litter' \in BOOLEAN
      /\ target' \in [Publishers -> Tracks \union {NoTrack}]
      /\ digest' \in [Publishers -> Digests \union {NoDigest}]
      /\ step' \in [Publishers -> {"idle", "publish", "rename", "enqueue"}]
  BY DEF ArtworkTypeOK, NoBatch, Intents, Age
<1>2. crashes' \in Nat  BY DEF ArtworkTypeOK
<1>3. ArtworkTypeOK'
  <2>1. /\ blobs' \in [Digests -> Age] /\ outbox' \in [Tracks -> Intents]
        /\ edits' \in 0 .. MaxEdits /\ removed' \subseteq Tracks
        /\ overlap' \subseteq Publishers /\ raced' \subseteq Tracks
        /\ unswept' \subseteq Digests \union {NoDigest}
    BY DEF ArtworkTypeOK
  <2>2. /\ active' = FALSE /\ completed' = FALSE /\ at' = "snapshot"
        /\ cur' = NoTrack /\ refs' = {} /\ scan' = {}
    OBVIOUS
  <2> QED  BY <1>1, <1>2, <2>1, <2>2, Zenon DEF ArtworkTypeOK
<1>4. PublishersTyped' /\ CollectionOverlaps' /\ PublishedStays'
  BY DEF PublishersTyped, CollectionOverlaps, Collecting, PublishedStays
<1>5. RowsReferenced' /\ RowsHavePayload'  BY DEF RowsReferenced, RowsHavePayload, Owns
<1> QED  BY <1>3, <1>4, <1>5

\* A step that changes nothing.
LEMMA StutterKeeps ==
    ASSUME ArtworkInductive, UNCHANGED artworkVars
    PROVE  ArtworkInductive'
  BY DEF ArtworkInductive, ArtworkTypeOK, PublishersTyped, CollectionOverlaps, Collecting,
         PublishedStays, RowsReferenced, RowsHavePayload, Owns, artworkVars, files, publisher,
         writer, history

-----------------------------------------------------------------------------
\* The inductive invariant of publishing, mirroring and collecting artwork.
THEOREM ArtworkInvariance == ArtworkSpec => []ArtworkInductive
<1>1. ArtworkInductive /\ [ArtworkNext]_artworkVars => ArtworkInductive'
  <2> SUFFICES ASSUME ArtworkInductive, [ArtworkNext]_artworkVars PROVE ArtworkInductive'
    OBVIOUS
  <2>1. CASE WriterStep
    BY <2>1, TakeSnapshotKeeps, ReadReferencesKeeps, VisitBlobKeeps, CompleteArtworkKeeps,
       BatchKeeps DEF WriterStep
  <2>2. CASE Resume  BY <2>2, BatchKeeps
  <2>3. CASE ProcessDies  BY <2>3, ProcessDiesKeeps
  <2>4. ASSUME NEW p \in Publishers, PublisherStep(p) PROVE ArtworkInductive'
    BY <2>4, PublishKeeps, EnqueueArtworkKeeps, EnqueueFailsKeeps DEF PublisherStep
  <2>5. ASSUME NEW p \in Publishers, NEW t \in Tracks, NEW d \in Digests, SetArtwork(p, t, d)
        PROVE ArtworkInductive'
    BY <2>5, SetArtworkKeeps
  <2>6. ASSUME NEW t \in Tracks, ClearArtwork(t) PROVE ArtworkInductive'
    BY <2>6, ClearArtworkKeeps
  <2>8. ASSUME NEW t \in Tracks, RemoveTrack(t) PROVE ArtworkInductive'
    BY <2>8, RemoveTrackKeeps
  <2>7. CASE UNCHANGED artworkVars  BY <2>7, StutterKeeps
  <2> QED  BY <2>1, <2>2, <2>3, <2>4, <2>5, <2>6, <2>7, <2>8 DEF ArtworkNext
<1> QED  BY <1>1, Initially, PTL DEF ArtworkSpec

\* Every variable has its type.
THEOREM ArtworkTypeCorrect == ArtworkSpec => []ArtworkTypeOK
<1>1. ArtworkInductive => ArtworkTypeOK  BY DEF ArtworkInductive
<1> QED  BY <1>1, ArtworkInvariance, PTL

\* A row loses its payload only to a collection that overlapped its publication:
\* no later collection, batch, retry or crash takes it (publish,
\* garbage_collect_tag_mirror_artwork).
THEOREM OnlyRacedDangle == ArtworkSpec => []DanglingOnlyIfRaced
<1>1. ArtworkInductive => DanglingOnlyIfRaced
  BY DEF ArtworkInductive, RowsHavePayload, DanglingOnlyIfRaced, Dangling, Owns
<1> QED  BY <1>1, ArtworkInvariance, PTL

-----------------------------------------------------------------------------
(* AudioPublication.                                                       *)

\* A finite set of numbers that is not empty has a greatest one: a least
\* counterexample would have one left after the loss of any of its elements.
LEMMA FiniteMax ==
    ASSUME NEW S \in SUBSET Nat, IsFiniteSet(S), S # {}
    PROVE  Max(S) \in S /\ \A y \in S : Max(S) >= y
  <1> DEFINE Bounded(T) == \E x \in T : \A y \in T : x >= y
             Bad == {T \in SUBSET Nat : IsFiniteSet(T) /\ T # {} /\ ~Bounded(T)}
  <1>1. SUFFICES Bounded(S)
    BY DEF Max
  <1>2. SUFFICES ASSUME S \in Bad PROVE FALSE
    OBVIOUS
  <1>3. PICK T \in Bad : \A U \in Bad : <<U, T>> \notin StrictSubsetOrdering(Nat)
    <2>1. Bad \subseteq FiniteSubsetsOf(Nat) /\ Bad # {}
      BY <1>2 DEF FiniteSubsetsOf
    <2>2. IsWellFoundedOn(StrictSubsetOrdering(Nat), FiniteSubsetsOf(Nat))
      BY FS_StrictSubsetOrderingWellFounded
    <2> HIDE DEF Bad
    <2> QED
      BY <2>1, <2>2, WFMin
  <1>4. PICK x \in T : TRUE
    OBVIOUS
  <1>5. T \ {x} \notin Bad
    BY <1>3, <1>4 DEF StrictSubsetOrdering
  <1>6. IsFiniteSet(T \ {x})
    BY FS_RemoveElement
  <1>7. CASE T \ {x} = {}
    BY <1>4, <1>7
  <1>8. CASE \E m \in T \ {x} : \A y \in T \ {x} : m >= y
    BY <1>4, <1>8
  <1> QED
    BY <1>5, <1>6, <1>7, <1>8

Injective(r) == \A t, u \in Ids : r[t] # NoPath /\ r[t] = r[u] => t = u

Replacing  == pc \in {"journal", "copy", "rebind", "flush", "trash"}
Publishing == pc \in {"copy", "rebind", "flush", "trash"}
Importing  == pc \in {"pending", "move", "save", "sync", "clear"}

-----------------------------------------------------------------------------
(* Every execution.                                                        *)

\* The program counter, the operation and the application agree.
Threads ==
    /\ op = "none" <=> pc = "idle"
    /\ op = "startup" => app # "running"
    /\ op = "startup" => pc \in {"recover", "unjournal", "refuse", "end"}
    /\ op = "youtube" => pc \in {"download", "unjournal", "end"} \/ Replacing
    /\ op = "cd" => pc \in {"recovercd", "rip", "end"} \/ Importing
    /\ op \in {"youtube", "cd"} => app = "running"

\* Rows and files keep apart: no two rows share a place, no two files a number.
Apart ==
    /\ Injective(db) /\ Injective(durable)
    /\ \A p \in Paths : fs[p] <= serial
    /\ \A p, q \in Paths : fs[p] = fs[q] /\ fs[p] # 0 => p = q

\* The replacement under way: where its row and its two files are.
Job ==
    /\ Replacing => /\ job \in Replacement /\ job.from # job.to
                    /\ fs[job.from] = job.original /\ job.original # 0 /\ job.copy # 0
    /\ Publishing => ytj = job
    /\ pc \in {"journal", "copy", "rebind"} => db[job.track] = job.from /\ ~HasRow(job.to)
    /\ pc \in {"journal", "copy"} => fs[job.to] = 0 /\ job.copy = serial + 1
    /\ pc \in {"rebind", "flush", "trash"} => fs[job.to] = job.copy
    /\ pc \in {"flush", "trash"} => db[job.track] = job.to
    /\ pc \in {"trash", "unjournal"} => durable = db

\* The import under way: its place is no row's and its id greater than any.
Disc ==
    /\ Importing => cd.id \in Ids /\ cd.path \in Paths /\ cd.left # 0
    /\ pc \in {"move", "save", "sync", "clear"} => cdj = cd.path
    /\ pc \in {"pending", "move", "save"} => ~HasRow(cd.path)
    /\ pc \in {"recovercd", "rip", "pending", "move", "save"} => \A t \in Rows : t < cd.id
    /\ pc \in {"sync", "clear"} => db[cd.id] = cd.path /\ \A t \in Rows : t <= cd.id
    /\ pc \in {"save", "sync", "clear"} => fs[cd.path] # 0

Control == Threads /\ Apart /\ Job /\ Disc

-----------------------------------------------------------------------------
(* Executions without failed calls.                                        *)

\* A replacement's journal is on disk.
Journaled == ytj # NoReplacement

\* A journal is there for the operation that published it, or for the next
\* start, and for nothing else.
Journals ==
    /\ Journaled => /\ ytj.from # ytj.to
                    /\ \/ op = "youtube" /\ (Publishing \/ (pc = "unjournal" /\ ytj = job))
                       \/ app # "running" /\ op \in {"none", "startup"}
                            /\ pc \in {"idle", "recover", "unjournal", "refuse"}
    /\ pc \in {"rip", "pending"} => cdj = NoPath

\* What a power failure would take back: only the row of a replacement that has
\* yet to flush it, whose original is then still there.
Taken == \A t \in Ids : durable[t] \in {NoPath, db[t]}
            \/ /\ Journaled /\ pc \notin {"trash", "unjournal"} /\ t = ytj.track
               /\ durable[t] = ytj.from /\ db[t] = ytj.to /\ fs[ytj.from] # 0
RowsKept ==
    removals = 0 =>
       /\ Taken
       /\ Journaled => \A u \in Ids : u # ytj.track => db[u] \notin {ytj.from, ytj.to}

\* Before the first stop, what no flush has reached is the row being written.
Unstopped ==
    stops = 0 =>
       /\ app # "refused"
       /\ cdj # NoPath => pc \in {"move", "save", "sync", "clear"}
       /\ Journaled => op = "youtube"
       /\ \A t \in Ids : db[t] = NoPath \/ db[t] = durable[t]
                            \/ (pc = "sync" /\ t = cd.id)
                            \/ (pc = "flush" /\ t = job.track /\ durable[t] = job.from)

\* After one stop at most, the next start finds one of the two rows it expects.
Answerable ==
    stops <= 1 =>
       /\ app # "refused" /\ pc # "refuse"
       /\ Journaled /\ pc \in {"idle", "recover"} => OriginalStands \/ CopyStands
       /\ op = "youtube" /\ pc = "unjournal" => CopyStands

\* ... and every file has a row, was left on purpose, or is in a journal.
Owned(p) == \/ HasRow(p) \/ fs[p] \in left \/ p = cdj
            \/ Journaled /\ pc # "unjournal" /\ p \in {ytj.from, ytj.to}
FilesOwned == stops <= 1 => \A p \in Paths : fs[p] # 0 => Owned(p)

Exact == Journals /\ RowsKept /\ Unstopped /\ Answerable /\ FilesOwned


\* What the constants are, without the bounds.
LEMMA Identifiers ==
    /\ Ids \subseteq Nat /\ 0 \notin Ids /\ 1 \in Ids
    /\ NoPath \notin Paths /\ NoReplacement \notin Replacement
  BY PublicationAssumption

\* The id of the next import is a number no row has reached.
LEMMA NextIdGreater ==
    ASSUME TypeOK
    PROVE  NextId \in Nat /\ \A t \in Rows : t < NextId
  <1>1. {0} \union Rows \in SUBSET Nat /\ Rows \subseteq Ids
    <2>1. Rows \subseteq Ids
      BY DEF Rows
    <2> QED
      BY <2>1, Identifiers
  <1>2. IsFiniteSet(Rows \union {0})
    BY <1>1, PublicationAssumption, FS_Subset, FS_AddElement
  <1>3. Rows \union {0} = {0} \union Rows
    OBVIOUS
  <1>4. /\ Max({0} \union Rows) \in {0} \union Rows
        /\ \A t \in {0} \union Rows : Max({0} \union Rows) >= t
    BY <1>1, <1>2, <1>3, FiniteMax
  <1> QED
    BY <1>1, <1>4 DEF NextId

\* The fields of a journal.
LEMMA ReplacementFields ==
    ASSUME NEW r \in Replacement
    PROVE  /\ r.track \in Ids /\ r.from \in Paths /\ r.to \in Paths
           /\ r.original \in Nat /\ r.copy \in Nat /\ r # NoReplacement
  BY PublicationAssumption DEF Replacement, Serial

\* A step keeps the types.
LEMMA TypeStep ==
    ASSUME TypeOK, Control, [Next]_vars
    PROVE  TypeOK'

  <1> USE Identifiers, ReplacementFields, NextIdGreater
      DEF TypeOK, Serial, disk, rows, bounds, Go, End, Fault, Flush, Create, Without, NoImport,
          Control, Threads, Job, Disc, Replacing, Publishing, Importing, Free
  <1>1. CASE SetLibraryServices
    BY <1>1 DEF SetLibraryServices
  <1>2. CASE RequestReplacement
    BY <1>2 DEF RequestReplacement
  <1>3. CASE RecoverOriginal
    BY <1>3 DEF RecoverOriginal
  <1>4. CASE RecoverReplacement
    BY <1>4 DEF RecoverReplacement
  <1>5. CASE RecoveryRefuses
    BY <1>5 DEF RecoveryRefuses
  <1>6. CASE NothingToRecover
    BY <1>6 DEF NothingToRecover
  <1>7. CASE WriteReplacement
    BY <1>7 DEF WriteReplacement
  <1>8. CASE CopyVerified
    BY <1>8 DEF CopyVerified
  <1>9. CASE RebindRow
    BY <1>9 DEF RebindRow
  <1>10. CASE FlushRebound
    BY <1>10 DEF FlushRebound
  <1>11. CASE TrashOriginal
    <2>1. job.from \in Paths /\ fs[job.from] \in Nat
      BY <1>11 DEF TrashOriginal
    <2>2. fs' \in [Paths -> Nat]
      BY <1>11, <2>1 DEF TrashOriginal
    <2>3. left' \subseteq Nat
      BY <1>11, <2>1 DEF TrashOriginal
    <2>4. faults' \in Nat
      BY <1>11, <2>1 DEF TrashOriginal
    <2> QED
      BY <1>11, <2>2, <2>3, <2>4 DEF TrashOriginal
  <1>12. CASE RemoveReplacement
    BY <1>12 DEF RemoveReplacement
  <1>13. CASE CopyFails
    BY <1>13 DEF CopyFails
  <1>14. CASE ReplacementFails
    BY <1>14 DEF ReplacementFails
  <1>15. CASE RecoverCdImport
    <2>1. fs' \in [Paths -> Nat]
      BY <1>15 DEF RecoverCdImport
    <2>2. cdj' \in Paths \union {NoPath} /\ staging' \in BOOLEAN
      BY <1>15 DEF RecoverCdImport
    <2> QED
      BY <1>15, <2>1, <2>2 DEF RecoverCdImport
  <1>16. CASE RipEnds
    BY <1>16 DEF RipEnds
  <1>17. CASE WritePending
    BY <1>17 DEF WritePending
  <1>18. CASE MoveStaging
    <2>1. fs' \in [Paths -> Nat] /\ serial' \in Nat
      BY <1>18 DEF MoveStaging
    <2> QED
      BY <1>18, <2>1 DEF MoveStaging
  <1>19. CASE SaveTrack
    BY <1>19 DEF SaveTrack
  <1>20. CASE FlushImported
    BY <1>20 DEF FlushImported
  <1>21. CASE ClearPending
    BY <1>21 DEF ClearPending
  <1>22. CASE ImportFails
    <2>1. fs' \in [Paths -> Nat]
      BY <1>22 DEF ImportFails
    <2>2. db' \in [Ids -> Paths \union {NoPath}]
      BY <1>22 DEF ImportFails
    <2>3. cdj' \in Paths \union {NoPath} /\ staging' \in BOOLEAN
      BY <1>22 DEF ImportFails
    <2>4. faults' \in Nat
      BY <1>22 DEF ImportFails
    <2> QED
      BY <1>22, <2>1, <2>2, <2>3, <2>4 DEF ImportFails
  <1>23. CASE Finish
    BY <1>23 DEF Finish
  <1>24. CASE Checkpoint
    BY <1>24 DEF Checkpoint
  <1>25. CASE Crash
    <2>1. db' \in [Ids -> Paths \union {NoPath}] 
      BY <1>25 DEF Crash
    <2>2. left' \subseteq Nat
      BY <1>25 DEF Crash
    <2>3. stops' \in Nat
      BY <1>25 DEF Crash
    <2> QED
      BY <1>25, <2>1, <2>2, <2>3 DEF Crash
  <1>26. CASE \E t \in Ids : MirrorTags(t)
    <2>1. PICK t \in Ids : MirrorTags(t)
      BY <1>26
    <2>2. db[t] \in Paths
      BY <2>1 DEF MirrorTags, Rows
    <2>3. fs' \in [Paths -> Nat] 
      BY <2>1, <2>2 DEF MirrorTags
    <2>4. serial' \in Nat /\ rewrites' \in Nat
      BY <2>1 DEF MirrorTags
    <2> QED
      BY <2>1, <2>3, <2>4 DEF MirrorTags
  <1>27. CASE \E t \in Ids : RemoveTrackFromLibrary(t)
    <2>1. PICK t \in Rows : RemoveTrackFromLibrary(t)
      BY <1>27 DEF RemoveTrackFromLibrary
    <2>2. t \in Ids /\ db[t] \in Paths /\ fs[db[t]] \in Nat
      BY DEF Rows
    <2>3. db' \in [Ids -> Paths \union {NoPath}] 
      BY <2>1, <2>2 DEF RemoveTrackFromLibrary
    <2>4. left' \subseteq Nat
      BY <2>1, <2>2 DEF RemoveTrackFromLibrary
    <2>5. removals' \in Nat
      BY <2>1, <2>2 DEF RemoveTrackFromLibrary
    <2> QED
      BY <2>1, <2>3, <2>4, <2>5 DEF RemoveTrackFromLibrary
  <1>28. CASE \E t \in Ids, p \in Paths : PlanReplacement(t, p)
    <2>1. PICK t \in Ids, p \in Paths : PlanReplacement(t, p)
      BY <1>28
    <2>2. /\ db[t] \in Paths /\ fs[db[t]] \in Nat /\ serial + 1 \in Nat
      BY <2>1 DEF PlanReplacement, Rows
    <2>3. job' \in Replacement
      BY <2>1, <2>2 DEF PlanReplacement, Replacement
    <2> QED
      BY <2>1, <2>3 DEF PlanReplacement
  <1>29. CASE \E n \in 1..MaxPlans : PrepareCdImport(n)
    BY <1>29 DEF PrepareCdImport
  <1>30. CASE \E p \in Paths : Rip(p)
    BY <1>30 DEF Rip
  <1>31. CASE UNCHANGED vars
    BY <1>31 DEF vars
  <1> QED
    BY <1>1, <1>2, <1>3, <1>4, <1>5, <1>6, <1>7, <1>8, <1>9, <1>10, <1>11, <1>12, <1>13, <1>14,
       <1>15, <1>16, <1>17, <1>18, <1>19, <1>20, <1>21, <1>22, <1>23, <1>24, <1>25, <1>26, <1>27,
       <1>28, <1>29, <1>30, <1>31 DEF Next


\* The library with one row is of the right types and well controlled.
LEMMA InitTyped == Init => TypeOK /\ Control
  <1> SUFFICES ASSUME Init PROVE TypeOK /\ Control
    OBVIOUS
  <1>1. TypeOK
    <2>1. PICK p \in Paths :
             /\ db = [t \in Ids |-> IF t = 1 THEN p ELSE NoPath]
             /\ fs = [q \in Paths |-> IF q = p THEN 1 ELSE 0]
      BY DEF Init
    <2>2. fs \in [Paths -> Nat] /\ db \in [Ids -> Paths \union {NoPath}]
      BY <2>1
    <2>3. cd \in [id : Nat, path : Paths \union {NoPath}, left : Nat]
      BY DEF Init, NoImport
    <2>4. {operations, rewrites, removals, faults, stops} \subseteq Nat
      BY DEF Init
    <2> QED
      BY <2>2, <2>3, <2>4 DEF Init, TypeOK, Serial
  <1>2. Threads /\ Job /\ Disc
    BY DEF Init, Threads, Job, Disc, Replacing, Publishing, Importing
  <1>3. Apart
    BY DEF Init, Apart, Injective
  <1> QED
    BY <1>1, <1>2, <1>3 DEF Control

\* A step keeps the program counter in its operation.
LEMMA ThreadsStep ==
    ASSUME TypeOK, TypeOK', Control, [Next]_vars
    PROVE  Threads'

  <1> USE Identifiers, ReplacementFields
      DEF TypeOK, Serial, disk, rows, bounds, Go, End, Fault, Flush, Create, Without, NoImport,
          Control, Threads, Replacing, Publishing, Importing
  <1>1. CASE SetLibraryServices
    BY <1>1 DEF SetLibraryServices
  <1>2. CASE RequestReplacement
    BY <1>2 DEF RequestReplacement
  <1>3. CASE RecoverOriginal
    BY <1>3 DEF RecoverOriginal
  <1>4. CASE RecoverReplacement
    BY <1>4 DEF RecoverReplacement
  <1>5. CASE RecoveryRefuses
    BY <1>5 DEF RecoveryRefuses
  <1>6. CASE NothingToRecover
    BY <1>6 DEF NothingToRecover
  <1>7. CASE WriteReplacement
    BY <1>7 DEF WriteReplacement
  <1>8. CASE CopyVerified
    BY <1>8 DEF CopyVerified
  <1>9. CASE RebindRow
    BY <1>9 DEF RebindRow
  <1>10. CASE FlushRebound
    BY <1>10 DEF FlushRebound
  <1>11. CASE TrashOriginal
    BY <1>11 DEF TrashOriginal
  <1>12. CASE RemoveReplacement
    BY <1>12 DEF RemoveReplacement
  <1>13. CASE CopyFails
    BY <1>13 DEF CopyFails
  <1>14. CASE ReplacementFails
    BY <1>14 DEF ReplacementFails
  <1>15. CASE RecoverCdImport
    BY <1>15 DEF RecoverCdImport
  <1>16. CASE RipEnds
    BY <1>16 DEF RipEnds
  <1>17. CASE WritePending
    BY <1>17 DEF WritePending
  <1>18. CASE MoveStaging
    BY <1>18 DEF MoveStaging
  <1>19. CASE SaveTrack
    BY <1>19 DEF SaveTrack
  <1>20. CASE FlushImported
    BY <1>20 DEF FlushImported
  <1>21. CASE ClearPending
    BY <1>21 DEF ClearPending
  <1>22. CASE ImportFails
    BY <1>22 DEF ImportFails
  <1>23. CASE Finish
    BY <1>23 DEF Finish
  <1>24. CASE Checkpoint
    BY <1>24 DEF Checkpoint
  <1>25. CASE Crash
    BY <1>25 DEF Crash
  <1>26. CASE \E t \in Ids : MirrorTags(t)
    BY <1>26 DEF MirrorTags
  <1>27. CASE \E t \in Ids : RemoveTrackFromLibrary(t)
    BY <1>27 DEF RemoveTrackFromLibrary
  <1>28. CASE \E t \in Ids, p \in Paths : PlanReplacement(t, p)
    BY <1>28 DEF PlanReplacement
  <1>29. CASE \E n \in 1..MaxPlans : PrepareCdImport(n)
    BY <1>29 DEF PrepareCdImport
  <1>30. CASE \E p \in Paths : Rip(p)
    BY <1>30 DEF Rip
  <1>31. CASE UNCHANGED vars
    BY <1>31 DEF vars
  <1> QED
    BY <1>1, <1>2, <1>3, <1>4, <1>5, <1>6, <1>7, <1>8, <1>9, <1>10, <1>11, <1>12, <1>13, <1>14,
       <1>15, <1>16, <1>17, <1>18, <1>19, <1>20, <1>21, <1>22, <1>23, <1>24, <1>25, <1>26, <1>27,
       <1>28, <1>29, <1>30, <1>31 DEF Next

\* A step shares no place between rows, and no number between files.
LEMMA ApartStep ==
    ASSUME TypeOK, TypeOK', Control, [Next]_vars
    PROVE  Apart'

  <1> USE Identifiers, ReplacementFields
      DEF TypeOK, Serial, disk, rows, bounds, Go, End, Fault, Flush, Create, Without, NoImport,
          Control, Threads, Replacing, Publishing, Importing, Apart, Injective, Job, Disc, HasRow,
             Rows
  <1>1. CASE SetLibraryServices
    BY <1>1 DEF SetLibraryServices
  <1>2. CASE RequestReplacement
    BY <1>2 DEF RequestReplacement
  <1>3. CASE RecoverOriginal
    BY <1>3 DEF RecoverOriginal
  <1>4. CASE RecoverReplacement
    BY <1>4 DEF RecoverReplacement
  <1>5. CASE RecoveryRefuses
    BY <1>5 DEF RecoveryRefuses
  <1>6. CASE NothingToRecover
    BY <1>6 DEF NothingToRecover
  <1>7. CASE WriteReplacement
    BY <1>7 DEF WriteReplacement
  <1>8. CASE CopyVerified
    BY <1>8 DEF CopyVerified
  <1>9. CASE RebindRow
    BY <1>9 DEF RebindRow
  <1>10. CASE FlushRebound
    BY <1>10 DEF FlushRebound
  <1>11. CASE TrashOriginal
    BY <1>11 DEF TrashOriginal
  <1>12. CASE RemoveReplacement
    BY <1>12 DEF RemoveReplacement
  <1>13. CASE CopyFails
    BY <1>13 DEF CopyFails
  <1>14. CASE ReplacementFails
    BY <1>14 DEF ReplacementFails
  <1>15. CASE RecoverCdImport
    BY <1>15 DEF RecoverCdImport
  <1>16. CASE RipEnds
    BY <1>16 DEF RipEnds
  <1>17. CASE WritePending
    BY <1>17 DEF WritePending
  <1>18. CASE MoveStaging
    BY <1>18 DEF MoveStaging
  <1>19. CASE SaveTrack
    BY <1>19 DEF SaveTrack
  <1>20. CASE FlushImported
    BY <1>20 DEF FlushImported
  <1>21. CASE ClearPending
    BY <1>21 DEF ClearPending
  <1>22. CASE ImportFails
    BY <1>22 DEF ImportFails
  <1>23. CASE Finish
    BY <1>23 DEF Finish
  <1>24. CASE Checkpoint
    BY <1>24 DEF Checkpoint
  <1>25. CASE Crash
    BY <1>25 DEF Crash
  <1>26. CASE \E t \in Ids : MirrorTags(t)
    BY <1>26 DEF MirrorTags
  <1>27. CASE \E t \in Ids : RemoveTrackFromLibrary(t)
    BY <1>27 DEF RemoveTrackFromLibrary
  <1>28. CASE \E t \in Ids, p \in Paths : PlanReplacement(t, p)
    BY <1>28 DEF PlanReplacement
  <1>29. CASE \E n \in 1..MaxPlans : PrepareCdImport(n)
    BY <1>29 DEF PrepareCdImport
  <1>30. CASE \E p \in Paths : Rip(p)
    BY <1>30 DEF Rip
  <1>31. CASE UNCHANGED vars
    BY <1>31 DEF vars
  <1> QED
    BY <1>1, <1>2, <1>3, <1>4, <1>5, <1>6, <1>7, <1>8, <1>9, <1>10, <1>11, <1>12, <1>13, <1>14,
       <1>15, <1>16, <1>17, <1>18, <1>19, <1>20, <1>21, <1>22, <1>23, <1>24, <1>25, <1>26, <1>27,
       <1>28, <1>29, <1>30, <1>31 DEF Next

\* A step knows where the row and the files of its replacement are.
LEMMA JobStep ==
    ASSUME TypeOK, TypeOK', Control, [Next]_vars
    PROVE  Job'

  <1> USE Identifiers, ReplacementFields
      DEF TypeOK, Serial, disk, rows, bounds, Go, End, Fault, Flush, Create, Without, NoImport,
          Control, Threads, Replacing, Publishing, Importing, Apart, Injective, Job, HasRow, Rows,
             Free
  <1>1. CASE SetLibraryServices
    BY <1>1 DEF SetLibraryServices
  <1>2. CASE RequestReplacement
    BY <1>2 DEF RequestReplacement
  <1>3. CASE RecoverOriginal
    BY <1>3 DEF RecoverOriginal
  <1>4. CASE RecoverReplacement
    BY <1>4 DEF RecoverReplacement
  <1>5. CASE RecoveryRefuses
    BY <1>5 DEF RecoveryRefuses
  <1>6. CASE NothingToRecover
    BY <1>6 DEF NothingToRecover
  <1>7. CASE WriteReplacement
    BY <1>7 DEF WriteReplacement
  <1>8. CASE CopyVerified
    BY <1>8 DEF CopyVerified
  <1>9. CASE RebindRow
    BY <1>9 DEF RebindRow
  <1>10. CASE FlushRebound
    BY <1>10 DEF FlushRebound
  <1>11. CASE TrashOriginal
    BY <1>11 DEF TrashOriginal
  <1>12. CASE RemoveReplacement
    BY <1>12 DEF RemoveReplacement
  <1>13. CASE CopyFails
    BY <1>13 DEF CopyFails
  <1>14. CASE ReplacementFails
    BY <1>14 DEF ReplacementFails
  <1>15. CASE RecoverCdImport
    BY <1>15 DEF RecoverCdImport
  <1>16. CASE RipEnds
    BY <1>16 DEF RipEnds
  <1>17. CASE WritePending
    BY <1>17 DEF WritePending
  <1>18. CASE MoveStaging
    BY <1>18 DEF MoveStaging
  <1>19. CASE SaveTrack
    BY <1>19 DEF SaveTrack
  <1>20. CASE FlushImported
    BY <1>20 DEF FlushImported
  <1>21. CASE ClearPending
    BY <1>21 DEF ClearPending
  <1>22. CASE ImportFails
    BY <1>22 DEF ImportFails
  <1>23. CASE Finish
    BY <1>23 DEF Finish
  <1>24. CASE Checkpoint
    BY <1>24 DEF Checkpoint
  <1>25. CASE Crash
    BY <1>25 DEF Crash
  <1>26. CASE \E t \in Ids : MirrorTags(t)
    BY <1>26 DEF MirrorTags
  <1>27. CASE \E t \in Ids : RemoveTrackFromLibrary(t)
    BY <1>27 DEF RemoveTrackFromLibrary
  <1>28. CASE \E t \in Ids, p \in Paths : PlanReplacement(t, p)
    <2>1. PICK t \in Ids, p \in Paths : PlanReplacement(t, p)
      BY <1>28
    <2>2. /\ db[t] \in Paths /\ fs[db[t]] \in Nat /\ fs[db[t]] # 0 /\ fs[p] = 0
          /\ ~HasRow(p) /\ p \in Paths
      BY <2>1 DEF PlanReplacement
    <2>3. /\ job'.track = t /\ job'.original = fs[db[t]] /\ job'.from = db[t]
          /\ job'.copy = serial + 1 /\ job'.to = p
      BY <2>1 DEF PlanReplacement
    <2>4. job' \in Replacement
      BY <2>1, <2>2 DEF PlanReplacement, Replacement
    <2> QED
      BY <2>1, <2>2, <2>3, <2>4 DEF PlanReplacement
  <1>29. CASE \E n \in 1..MaxPlans : PrepareCdImport(n)
    BY <1>29 DEF PrepareCdImport
  <1>30. CASE \E p \in Paths : Rip(p)
    BY <1>30 DEF Rip
  <1>31. CASE UNCHANGED vars
    BY <1>31 DEF vars
  <1> QED
    BY <1>1, <1>2, <1>3, <1>4, <1>5, <1>6, <1>7, <1>8, <1>9, <1>10, <1>11, <1>12, <1>13, <1>14,
       <1>15, <1>16, <1>17, <1>18, <1>19, <1>20, <1>21, <1>22, <1>23, <1>24, <1>25, <1>26, <1>27,
       <1>28, <1>29, <1>30, <1>31 DEF Next

\* A step imports into a place and under an id that no row has.
LEMMA DiscStep ==
    ASSUME TypeOK, TypeOK', Control, [Next]_vars
    PROVE  Disc'

  <1> USE Identifiers, ReplacementFields, NextIdGreater
      DEF TypeOK, Serial, disk, rows, bounds, Go, End, Fault, Flush, Create, Without, NoImport,
          Control, Threads, Replacing, Publishing, Importing, Disc, HasRow, Rows, Free
  <1>1. CASE SetLibraryServices
    BY <1>1 DEF SetLibraryServices
  <1>2. CASE RequestReplacement
    BY <1>2 DEF RequestReplacement
  <1>3. CASE RecoverOriginal
    BY <1>3 DEF RecoverOriginal
  <1>4. CASE RecoverReplacement
    BY <1>4 DEF RecoverReplacement
  <1>5. CASE RecoveryRefuses
    BY <1>5 DEF RecoveryRefuses
  <1>6. CASE NothingToRecover
    BY <1>6 DEF NothingToRecover
  <1>7. CASE WriteReplacement
    BY <1>7 DEF WriteReplacement
  <1>8. CASE CopyVerified
    BY <1>8 DEF CopyVerified
  <1>9. CASE RebindRow
    BY <1>9 DEF RebindRow
  <1>10. CASE FlushRebound
    BY <1>10 DEF FlushRebound
  <1>11. CASE TrashOriginal
    BY <1>11 DEF TrashOriginal
  <1>12. CASE RemoveReplacement
    BY <1>12 DEF RemoveReplacement
  <1>13. CASE CopyFails
    BY <1>13 DEF CopyFails
  <1>14. CASE ReplacementFails
    BY <1>14 DEF ReplacementFails
  <1>15. CASE RecoverCdImport
    BY <1>15 DEF RecoverCdImport
  <1>16. CASE RipEnds
    BY <1>16 DEF RipEnds
  <1>17. CASE WritePending
    BY <1>17 DEF WritePending
  <1>18. CASE MoveStaging
    BY <1>18 DEF MoveStaging
  <1>19. CASE SaveTrack
    BY <1>19 DEF SaveTrack
  <1>20. CASE FlushImported
    BY <1>20 DEF FlushImported
  <1>21. CASE ClearPending
    BY <1>21 DEF ClearPending
  <1>22. CASE ImportFails
    BY <1>22 DEF ImportFails
  <1>23. CASE Finish
    BY <1>23 DEF Finish
  <1>24. CASE Checkpoint
    BY <1>24 DEF Checkpoint
  <1>25. CASE Crash
    BY <1>25 DEF Crash
  <1>26. CASE \E t \in Ids : MirrorTags(t)
    BY <1>26 DEF MirrorTags
  <1>27. CASE \E t \in Ids : RemoveTrackFromLibrary(t)
    BY <1>27 DEF RemoveTrackFromLibrary
  <1>28. CASE \E t \in Ids, p \in Paths : PlanReplacement(t, p)
    BY <1>28 DEF PlanReplacement
  <1>29. CASE \E n \in 1..MaxPlans : PrepareCdImport(n)
    BY <1>29 DEF PrepareCdImport
  <1>30. CASE \E p \in Paths : Rip(p)
    BY <1>30 DEF Rip
  <1>31. CASE UNCHANGED vars
    BY <1>31 DEF vars
  <1> QED
    BY <1>1, <1>2, <1>3, <1>4, <1>5, <1>6, <1>7, <1>8, <1>9, <1>10, <1>11, <1>12, <1>13, <1>14,
       <1>15, <1>16, <1>17, <1>18, <1>19, <1>20, <1>21, <1>22, <1>23, <1>24, <1>25, <1>26, <1>27,
       <1>28, <1>29, <1>30, <1>31 DEF Next

\* A step leaves no journal behind in a running application.
LEMMA JournalsStep ==
    ASSUME TypeOK, TypeOK', Control, Control', [Next]_vars, Unfailing', Exact
    PROVE  Journals'

  <1> USE Identifiers, ReplacementFields
      DEF TypeOK, Serial, disk, rows, bounds, Go, End, Fault, Flush, Create, Without, NoImport,
          Control, Threads, Job, Disc, Replacing, Publishing, Importing, Journaled, Unfailing,
          Exact, Journals
  <1>1. CASE SetLibraryServices
    BY <1>1 DEF SetLibraryServices
  <1>2. CASE RequestReplacement
    BY <1>2 DEF RequestReplacement
  <1>3. CASE RecoverOriginal
    BY <1>3 DEF RecoverOriginal
  <1>4. CASE RecoverReplacement
    BY <1>4 DEF RecoverReplacement
  <1>5. CASE RecoveryRefuses
    BY <1>5 DEF RecoveryRefuses
  <1>6. CASE NothingToRecover
    BY <1>6 DEF NothingToRecover
  <1>7. CASE WriteReplacement
    BY <1>7 DEF WriteReplacement
  <1>8. CASE CopyVerified
    BY <1>8 DEF CopyVerified
  <1>9. CASE RebindRow
    BY <1>9 DEF RebindRow
  <1>10. CASE FlushRebound
    BY <1>10 DEF FlushRebound
  <1>11. CASE TrashOriginal
    BY <1>11 DEF TrashOriginal
  <1>12. CASE RemoveReplacement
    BY <1>12 DEF RemoveReplacement
  <1>13. CASE CopyFails
    BY <1>13 DEF CopyFails
  <1>14. CASE ReplacementFails
    BY <1>14 DEF ReplacementFails
  <1>15. CASE RecoverCdImport
    BY <1>15 DEF RecoverCdImport
  <1>16. CASE RipEnds
    BY <1>16 DEF RipEnds
  <1>17. CASE WritePending
    BY <1>17 DEF WritePending
  <1>18. CASE MoveStaging
    BY <1>18 DEF MoveStaging
  <1>19. CASE SaveTrack
    BY <1>19 DEF SaveTrack
  <1>20. CASE FlushImported
    BY <1>20 DEF FlushImported
  <1>21. CASE ClearPending
    BY <1>21 DEF ClearPending
  <1>22. CASE ImportFails
    BY <1>22 DEF ImportFails
  <1>23. CASE Finish
    BY <1>23 DEF Finish
  <1>24. CASE Checkpoint
    BY <1>24 DEF Checkpoint
  <1>25. CASE Crash
    BY <1>25 DEF Crash
  <1>26. CASE \E t \in Ids : MirrorTags(t)
    BY <1>26 DEF MirrorTags
  <1>27. CASE \E t \in Ids : RemoveTrackFromLibrary(t)
    BY <1>27 DEF RemoveTrackFromLibrary
  <1>28. CASE \E t \in Ids, p \in Paths : PlanReplacement(t, p)
    BY <1>28 DEF PlanReplacement
  <1>29. CASE \E n \in 1..MaxPlans : PrepareCdImport(n)
    BY <1>29 DEF PrepareCdImport
  <1>30. CASE \E p \in Paths : Rip(p)
    BY <1>30 DEF Rip
  <1>31. CASE UNCHANGED vars
    BY <1>31 DEF vars
  <1> QED
    BY <1>1, <1>2, <1>3, <1>4, <1>5, <1>6, <1>7, <1>8, <1>9, <1>10, <1>11, <1>12, <1>13, <1>14,
       <1>15, <1>16, <1>17, <1>18, <1>19, <1>20, <1>21, <1>22, <1>23, <1>24, <1>25, <1>26, <1>27,
       <1>28, <1>29, <1>30, <1>31 DEF Next

\* A step lets a power failure take back no row but the one being rebound.
LEMMA RowsKeptStep ==
    ASSUME TypeOK, TypeOK', Control, Control', [Next]_vars, Unfailing', Exact
    PROVE  RowsKept'

  <1> USE Identifiers, ReplacementFields
      DEF TypeOK, Serial, disk, rows, bounds, Go, End, Fault, Flush, Create, Without, NoImport,
          Control, Threads, Job, Disc, Replacing, Publishing, Importing, Journaled, Unfailing,
          Exact, Journals, RowsKept, Taken, Apart, Injective, HasRow, Rows, Free, OriginalStands,
             CopyStands
  <1>1. CASE SetLibraryServices
    BY <1>1 DEF SetLibraryServices
  <1>2. CASE RequestReplacement
    BY <1>2 DEF RequestReplacement
  <1>3. CASE RecoverOriginal
    BY <1>3 DEF RecoverOriginal
  <1>4. CASE RecoverReplacement
    BY <1>4 DEF RecoverReplacement
  <1>5. CASE RecoveryRefuses
    BY <1>5 DEF RecoveryRefuses
  <1>6. CASE NothingToRecover
    BY <1>6 DEF NothingToRecover
  <1>7. CASE WriteReplacement
    <2>1. CASE ytj' = ytj
      BY <1>7, <2>1 DEF WriteReplacement
    <2>2. CASE ytj' = job /\ ytj = NoReplacement
      <3>1. Replacing /\ job \in Replacement
        BY <1>7 DEF WriteReplacement
      <3>2. removals = 0 => \A t \in Ids : durable[t] \in {NoPath, db[t]}
        BY <2>2
      <3>3. \A u \in Ids : u # job.track => db[u] \notin {job.from, job.to}
        <4>1. job.from # NoPath /\ job.to # NoPath /\ job.track \in Ids
          BY <3>1
        <4>2. db[job.track] = job.from /\ ~HasRow(job.to)
          BY <1>7, <3>1 DEF WriteReplacement
        <4>3. \A u \in Ids : db[u] # job.to
          BY <4>1, <4>2
        <4>4. ASSUME NEW u \in Ids, db[u] = job.from PROVE u = job.track
          BY <4>1, <4>2, <4>4, db[u] = db[job.track] /\ db[u] # NoPath
        <4> QED
          BY <4>3, <4>4
      <3> QED
        BY <1>7, <2>2, <3>2, <3>3 DEF WriteReplacement
    <2> QED
      BY <1>7, <2>1, <2>2 DEF WriteReplacement
  <1>8. CASE CopyVerified
    BY <1>8 DEF CopyVerified
  <1>9. CASE RebindRow
    BY <1>9 DEF RebindRow
  <1>10. CASE FlushRebound
    BY <1>10 DEF FlushRebound
  <1>11. CASE TrashOriginal
    BY <1>11 DEF TrashOriginal
  <1>12. CASE RemoveReplacement
    BY <1>12 DEF RemoveReplacement
  <1>13. CASE CopyFails
    BY <1>13 DEF CopyFails
  <1>14. CASE ReplacementFails
    BY <1>14 DEF ReplacementFails
  <1>15. CASE RecoverCdImport
    BY <1>15 DEF RecoverCdImport
  <1>16. CASE RipEnds
    BY <1>16 DEF RipEnds
  <1>17. CASE WritePending
    BY <1>17 DEF WritePending
  <1>18. CASE MoveStaging
    BY <1>18 DEF MoveStaging
  <1>19. CASE SaveTrack
    BY <1>19 DEF SaveTrack
  <1>20. CASE FlushImported
    BY <1>20 DEF FlushImported
  <1>21. CASE ClearPending
    BY <1>21 DEF ClearPending
  <1>22. CASE ImportFails
    BY <1>22 DEF ImportFails
  <1>23. CASE Finish
    BY <1>23 DEF Finish
  <1>24. CASE Checkpoint
    BY <1>24 DEF Checkpoint
  <1>25. CASE Crash
    BY <1>25 DEF Crash
  <1>26. CASE \E t \in Ids : MirrorTags(t)
    BY <1>26 DEF MirrorTags
  <1>27. CASE \E t \in Ids : RemoveTrackFromLibrary(t)
    BY <1>27 DEF RemoveTrackFromLibrary
  <1>28. CASE \E t \in Ids, p \in Paths : PlanReplacement(t, p)
    BY <1>28 DEF PlanReplacement
  <1>29. CASE \E n \in 1..MaxPlans : PrepareCdImport(n)
    BY <1>29 DEF PrepareCdImport
  <1>30. CASE \E p \in Paths : Rip(p)
    BY <1>30 DEF Rip
  <1>31. CASE UNCHANGED vars
    BY <1>31 DEF vars
  <1> QED
    BY <1>1, <1>2, <1>3, <1>4, <1>5, <1>6, <1>7, <1>8, <1>9, <1>10, <1>11, <1>12, <1>13, <1>14,
       <1>15, <1>16, <1>17, <1>18, <1>19, <1>20, <1>21, <1>22, <1>23, <1>24, <1>25, <1>26, <1>27,
       <1>28, <1>29, <1>30, <1>31 DEF Next

\* Before the first stop, a step leaves only its own row unflushed.
LEMMA UnstoppedStep ==
    ASSUME TypeOK, TypeOK', Control, Control', [Next]_vars, Unfailing', Exact
    PROVE  Unstopped'

  <1> USE Identifiers, ReplacementFields
      DEF TypeOK, Serial, disk, rows, bounds, Go, End, Fault, Flush, Create, Without, NoImport,
          Control, Threads, Job, Disc, Replacing, Publishing, Importing, Journaled, Unfailing,
          Exact, Journals, Unstopped, HasRow, Rows
  <1>1. CASE SetLibraryServices
    BY <1>1 DEF SetLibraryServices
  <1>2. CASE RequestReplacement
    BY <1>2 DEF RequestReplacement
  <1>3. CASE RecoverOriginal
    BY <1>3 DEF RecoverOriginal
  <1>4. CASE RecoverReplacement
    BY <1>4 DEF RecoverReplacement
  <1>5. CASE RecoveryRefuses
    BY <1>5 DEF RecoveryRefuses
  <1>6. CASE NothingToRecover
    BY <1>6 DEF NothingToRecover
  <1>7. CASE WriteReplacement
    BY <1>7 DEF WriteReplacement
  <1>8. CASE CopyVerified
    BY <1>8 DEF CopyVerified
  <1>9. CASE RebindRow
    BY <1>9 DEF RebindRow
  <1>10. CASE FlushRebound
    BY <1>10 DEF FlushRebound
  <1>11. CASE TrashOriginal
    BY <1>11 DEF TrashOriginal
  <1>12. CASE RemoveReplacement
    BY <1>12 DEF RemoveReplacement
  <1>13. CASE CopyFails
    BY <1>13 DEF CopyFails
  <1>14. CASE ReplacementFails
    BY <1>14 DEF ReplacementFails
  <1>15. CASE RecoverCdImport
    BY <1>15 DEF RecoverCdImport
  <1>16. CASE RipEnds
    BY <1>16 DEF RipEnds
  <1>17. CASE WritePending
    BY <1>17 DEF WritePending
  <1>18. CASE MoveStaging
    BY <1>18 DEF MoveStaging
  <1>19. CASE SaveTrack
    BY <1>19 DEF SaveTrack
  <1>20. CASE FlushImported
    BY <1>20 DEF FlushImported
  <1>21. CASE ClearPending
    BY <1>21 DEF ClearPending
  <1>22. CASE ImportFails
    BY <1>22 DEF ImportFails
  <1>23. CASE Finish
    BY <1>23 DEF Finish, Answerable
  <1>24. CASE Checkpoint
    BY <1>24 DEF Checkpoint
  <1>25. CASE Crash
    BY <1>25 DEF Crash
  <1>26. CASE \E t \in Ids : MirrorTags(t)
    BY <1>26 DEF MirrorTags
  <1>27. CASE \E t \in Ids : RemoveTrackFromLibrary(t)
    BY <1>27 DEF RemoveTrackFromLibrary
  <1>28. CASE \E t \in Ids, p \in Paths : PlanReplacement(t, p)
    BY <1>28 DEF PlanReplacement
  <1>29. CASE \E n \in 1..MaxPlans : PrepareCdImport(n)
    BY <1>29 DEF PrepareCdImport
  <1>30. CASE \E p \in Paths : Rip(p)
    BY <1>30 DEF Rip
  <1>31. CASE UNCHANGED vars
    BY <1>31 DEF vars
  <1> QED
    BY <1>1, <1>2, <1>3, <1>4, <1>5, <1>6, <1>7, <1>8, <1>9, <1>10, <1>11, <1>12, <1>13, <1>14,
       <1>15, <1>16, <1>17, <1>18, <1>19, <1>20, <1>21, <1>22, <1>23, <1>24, <1>25, <1>26, <1>27,
       <1>28, <1>29, <1>30, <1>31 DEF Next

\* The first stop leaves a row that recovery knows.
LEMMA AnswerableStep ==
    ASSUME TypeOK, TypeOK', Control, Control', [Next]_vars, Unfailing', Exact
    PROVE  Answerable'

  <1> USE Identifiers, ReplacementFields
      DEF TypeOK, Serial, disk, rows, bounds, Go, End, Fault, Flush, Create, Without, NoImport,
          Control, Threads, Job, Disc, Replacing, Publishing, Importing, Journaled, Unfailing,
          Exact, Journals, Unstopped, Answerable, OriginalStands, CopyStands
  <1>1. CASE SetLibraryServices
    BY <1>1 DEF SetLibraryServices
  <1>2. CASE RequestReplacement
    BY <1>2 DEF RequestReplacement
  <1>3. CASE RecoverOriginal
    BY <1>3 DEF RecoverOriginal
  <1>4. CASE RecoverReplacement
    BY <1>4 DEF RecoverReplacement
  <1>5. CASE RecoveryRefuses
    BY <1>5 DEF RecoveryRefuses
  <1>6. CASE NothingToRecover
    BY <1>6 DEF NothingToRecover
  <1>7. CASE WriteReplacement
    BY <1>7 DEF WriteReplacement
  <1>8. CASE CopyVerified
    BY <1>8 DEF CopyVerified
  <1>9. CASE RebindRow
    BY <1>9 DEF RebindRow
  <1>10. CASE FlushRebound
    BY <1>10 DEF FlushRebound
  <1>11. CASE TrashOriginal
    BY <1>11 DEF TrashOriginal
  <1>12. CASE RemoveReplacement
    BY <1>12 DEF RemoveReplacement
  <1>13. CASE CopyFails
    BY <1>13 DEF CopyFails
  <1>14. CASE ReplacementFails
    BY <1>14 DEF ReplacementFails
  <1>15. CASE RecoverCdImport
    BY <1>15 DEF RecoverCdImport
  <1>16. CASE RipEnds
    BY <1>16 DEF RipEnds
  <1>17. CASE WritePending
    BY <1>17 DEF WritePending
  <1>18. CASE MoveStaging
    BY <1>18 DEF MoveStaging
  <1>19. CASE SaveTrack
    BY <1>19 DEF SaveTrack
  <1>20. CASE FlushImported
    BY <1>20 DEF FlushImported
  <1>21. CASE ClearPending
    BY <1>21 DEF ClearPending
  <1>22. CASE ImportFails
    BY <1>22 DEF ImportFails
  <1>23. CASE Finish
    BY <1>23 DEF Finish
  <1>24. CASE Checkpoint
    BY <1>24 DEF Checkpoint
  <1>25. CASE Crash
    <2>1. CASE stops' # 1
      BY <1>25, <2>1 DEF Crash
    <2>2. CASE stops' = 1 /\ ytj # NoReplacement
      <3>1. /\ stops = 0 /\ op = "youtube" /\ ytj = job /\ job \in Replacement
            /\ Publishing \/ pc = "unjournal"
        BY <1>25, <2>2 DEF Crash
      <3>2. CASE pc \in {"copy", "rebind"}
        <4>1. /\ db[job.track] = job.from /\ fs[job.from] = job.original
              /\ fs[job.to] \in {0, job.copy}
          BY <3>1, <3>2
        <4>2. durable[job.track] = job.from
          BY <3>1, <3>2, <4>1, db[job.track] # NoPath /\ job.track \in Ids
        <4>3. db'[job.track] = job.from
          BY <1>25, <4>1, <4>2 DEF Crash
        <4> QED
          BY <1>25, <3>1, <4>1, <4>3 DEF Crash
      <3>3. CASE pc = "flush"
        <4>1. /\ db[job.track] = job.to /\ fs[job.from] = job.original
              /\ fs[job.to] = job.copy
          BY <3>1, <3>3
        <4>2. durable[job.track] \in {job.from, job.to}
          BY <3>1, <3>3, <4>1, db[job.track] # NoPath /\ job.track \in Ids
        <4>3. db'[job.track] \in {job.from, job.to}
          BY <1>25, <4>1, <4>2 DEF Crash
        <4> QED
          BY <1>25, <3>1, <4>1, <4>3 DEF Crash
      <3>4. CASE pc \in {"trash", "unjournal"}
        <4>1. db'[job.track] = job.to /\ fs[job.to] = job.copy
          BY <1>25, <3>1, <3>4 DEF Crash
        <4> QED
          BY <1>25, <3>1, <3>4, <4>1 DEF Crash
      <3> QED
        BY <3>1, <3>2, <3>3, <3>4
    <2>3. CASE stops' = 1 /\ ytj = NoReplacement
      BY <1>25, <2>3 DEF Crash
    <2> QED
      BY <2>1, <2>2, <2>3
  <1>26. CASE \E t \in Ids : MirrorTags(t)
    BY <1>26 DEF MirrorTags
  <1>27. CASE \E t \in Ids : RemoveTrackFromLibrary(t)
    BY <1>27 DEF RemoveTrackFromLibrary
  <1>28. CASE \E t \in Ids, p \in Paths : PlanReplacement(t, p)
    BY <1>28 DEF PlanReplacement
  <1>29. CASE \E n \in 1..MaxPlans : PrepareCdImport(n)
    BY <1>29 DEF PrepareCdImport
  <1>30. CASE \E p \in Paths : Rip(p)
    BY <1>30 DEF Rip
  <1>31. CASE UNCHANGED vars
    BY <1>31 DEF vars
  <1> QED
    BY <1>1, <1>2, <1>3, <1>4, <1>5, <1>6, <1>7, <1>8, <1>9, <1>10, <1>11, <1>12, <1>13, <1>14,
       <1>15, <1>16, <1>17, <1>18, <1>19, <1>20, <1>21, <1>22, <1>23, <1>24, <1>25, <1>26, <1>27,
       <1>28, <1>29, <1>30, <1>31 DEF Next

\* A step loses track of no file.
LEMMA FilesOwnedStep ==
    ASSUME TypeOK, TypeOK', Control, Control', [Next]_vars, Unfailing', Exact
    PROVE  FilesOwned'

  <1> USE Identifiers, ReplacementFields
      DEF TypeOK, Serial, disk, rows, bounds, Go, End, Fault, Flush, Create, Without, NoImport,
          Control, Threads, Job, Disc, Replacing, Publishing, Importing, Journaled, Unfailing,
          Exact, Journals, Unstopped, Answerable, FilesOwned, Owned, Apart, Injective, HasRow, Rows,
             OriginalStands, CopyStands
  <1>1. CASE SetLibraryServices
    BY <1>1 DEF SetLibraryServices
  <1>2. CASE RequestReplacement
    BY <1>2 DEF RequestReplacement
  <1>3. CASE RecoverOriginal
    <2>1. /\ ytj \in Replacement /\ Journaled /\ fs' = [fs EXCEPT ![ytj.to] = 0]
          /\ db[ytj.track] = ytj.from /\ db' = db /\ left' = left /\ cdj' = cdj
          /\ stops' = stops /\ ytj' = ytj
      BY <1>3 DEF RecoverOriginal
    <2>2. HasRow(ytj.from)'
      <3>1. ytj.track \in Ids /\ ytj.from # NoPath
        BY <2>1
      <3> QED
        BY <2>1, <3>1
    <2>3. ASSUME NEW p \in Paths, fs'[p] # 0, stops' <= 1
          PROVE  HasRow(p)' \/ fs'[p] \in left' \/ p = cdj'
      <3>1. p # ytj.to /\ fs'[p] = fs[p]
        BY <2>1, <2>3
      <3>2. Owned(p)
        BY <2>1, <2>3, <3>1
      <3> QED
        BY <2>1, <2>2, <3>1, <3>2
    <2> QED
      BY <2>3
  <1>4. CASE RecoverReplacement
    <2>1. /\ ytj \in Replacement /\ Journaled /\ db[ytj.track] = ytj.to
          /\ left' = left \union ({fs[ytj.from]} \ {0})
          /\ fs' = fs /\ db' = db /\ cdj' = cdj /\ stops' = stops /\ ytj' = ytj
      BY <1>4 DEF RecoverReplacement
    <2>2. HasRow(ytj.to)' /\ (fs[ytj.from] # 0 => fs[ytj.from] \in left')
      <3>1. ytj.track \in Ids /\ ytj.to # NoPath
        BY <2>1
      <3> QED
        BY <2>1, <3>1
    <2>3. ASSUME NEW p \in Paths, fs'[p] # 0, stops' <= 1
          PROVE  HasRow(p)' \/ fs'[p] \in left' \/ p = cdj'
      <3>1. Owned(p)
        BY <2>1, <2>3
      <3> QED
        BY <2>1, <2>2, <2>3, <3>1
    <2> QED
      BY <2>3
  <1>5. CASE RecoveryRefuses
    BY <1>5 DEF RecoveryRefuses
  <1>6. CASE NothingToRecover
    BY <1>6 DEF NothingToRecover
  <1>7. CASE WriteReplacement
    BY <1>7 DEF WriteReplacement
  <1>8. CASE CopyVerified
    BY <1>8 DEF CopyVerified
  <1>9. CASE RebindRow
    BY <1>9 DEF RebindRow
  <1>10. CASE FlushRebound
    BY <1>10 DEF FlushRebound
  <1>11. CASE TrashOriginal
    <2>1. /\ job \in Replacement /\ ytj = job /\ Journaled /\ db[job.track] = job.to
          /\ db' = db /\ cdj' = cdj /\ stops' = stops /\ job' = job
          /\ \/ fs' = [fs EXCEPT ![job.from] = 0] /\ left' = left
             \/ fs' = fs /\ left' = left \union ({fs[job.from]} \ {0})
      BY <1>11 DEF TrashOriginal
    <2>2. HasRow(job.to)' /\ (fs'[job.from] = 0 \/ fs'[job.from] \in left')
      <3>1. job.track \in Ids /\ job.to # NoPath /\ job.from \in Paths
        BY <2>1
      <3> QED
        BY <2>1, <3>1
    <2>3. ASSUME NEW p \in Paths, fs'[p] # 0, stops' <= 1
          PROVE  HasRow(p)' \/ fs'[p] \in left' \/ p = cdj'
      <3>1. fs'[p] = fs[p]
        BY <2>1, <2>3
      <3>2. Owned(p)
        BY <2>1, <2>3, <3>1
      <3> QED
        BY <2>1, <2>2, <2>3, <3>1, <3>2
    <2> QED
      BY <2>3
  <1>12. CASE RemoveReplacement
    BY <1>12 DEF RemoveReplacement
  <1>13. CASE CopyFails
    BY <1>13 DEF CopyFails
  <1>14. CASE ReplacementFails
    BY <1>14 DEF ReplacementFails
  <1>15. CASE RecoverCdImport
    BY <1>15 DEF RecoverCdImport
  <1>16. CASE RipEnds
    BY <1>16 DEF RipEnds
  <1>17. CASE WritePending
    BY <1>17 DEF WritePending
  <1>18. CASE MoveStaging
    BY <1>18 DEF MoveStaging
  <1>19. CASE SaveTrack
    BY <1>19 DEF SaveTrack
  <1>20. CASE FlushImported
    BY <1>20 DEF FlushImported
  <1>21. CASE ClearPending
    BY <1>21 DEF ClearPending
  <1>22. CASE ImportFails
    BY <1>22 DEF ImportFails
  <1>23. CASE Finish
    BY <1>23 DEF Finish
  <1>24. CASE Checkpoint
    BY <1>24 DEF Checkpoint
  <1>25. CASE Crash
    BY <1>25 DEF Crash
  <1>26. CASE \E t \in Ids : MirrorTags(t)
    BY <1>26 DEF MirrorTags
  <1>27. CASE \E t \in Ids : RemoveTrackFromLibrary(t)
    BY <1>27 DEF RemoveTrackFromLibrary
  <1>28. CASE \E t \in Ids, p \in Paths : PlanReplacement(t, p)
    BY <1>28 DEF PlanReplacement
  <1>29. CASE \E n \in 1..MaxPlans : PrepareCdImport(n)
    BY <1>29 DEF PrepareCdImport
  <1>30. CASE \E p \in Paths : Rip(p)
    BY <1>30 DEF Rip
  <1>31. CASE UNCHANGED vars
    BY <1>31 DEF vars
  <1> QED
    BY <1>1, <1>2, <1>3, <1>4, <1>5, <1>6, <1>7, <1>8, <1>9, <1>10, <1>11, <1>12, <1>13, <1>14,
       <1>15, <1>16, <1>17, <1>18, <1>19, <1>20, <1>21, <1>22, <1>23, <1>24, <1>25, <1>26, <1>27,
       <1>28, <1>29, <1>30, <1>31 DEF Next

\* A step deletes the file of no row, and binds no row to a missing file.
LEMMA RowsFindFilesStep ==
    ASSUME TypeOK, TypeOK', Control, Control', [Next]_vars, Unfailing', Exact, RowsFindFiles
    PROVE  RowsFindFiles'

  <1> USE Identifiers, ReplacementFields
      DEF TypeOK, Serial, disk, rows, bounds, Go, End, Fault, Flush, Create, Without, NoImport,
          Control, Threads, Job, Disc, Replacing, Publishing, Importing, Journaled, Unfailing,
          Exact, Journals, RowsFindFiles, RowsKept, Taken, Apart, Injective, HasRow, Rows, Free,
             OriginalStands, CopyStands
  <1>1. CASE SetLibraryServices
    BY <1>1 DEF SetLibraryServices
  <1>2. CASE RequestReplacement
    BY <1>2 DEF RequestReplacement
  <1>3. CASE RecoverOriginal
    BY <1>3 DEF RecoverOriginal
  <1>4. CASE RecoverReplacement
    BY <1>4 DEF RecoverReplacement
  <1>5. CASE RecoveryRefuses
    BY <1>5 DEF RecoveryRefuses
  <1>6. CASE NothingToRecover
    BY <1>6 DEF NothingToRecover
  <1>7. CASE WriteReplacement
    BY <1>7 DEF WriteReplacement
  <1>8. CASE CopyVerified
    BY <1>8 DEF CopyVerified
  <1>9. CASE RebindRow
    BY <1>9 DEF RebindRow
  <1>10. CASE FlushRebound
    BY <1>10 DEF FlushRebound
  <1>11. CASE TrashOriginal
    BY <1>11 DEF TrashOriginal
  <1>12. CASE RemoveReplacement
    BY <1>12 DEF RemoveReplacement
  <1>13. CASE CopyFails
    BY <1>13 DEF CopyFails
  <1>14. CASE ReplacementFails
    BY <1>14 DEF ReplacementFails
  <1>15. CASE RecoverCdImport
    BY <1>15 DEF RecoverCdImport
  <1>16. CASE RipEnds
    BY <1>16 DEF RipEnds
  <1>17. CASE WritePending
    BY <1>17 DEF WritePending
  <1>18. CASE MoveStaging
    BY <1>18 DEF MoveStaging
  <1>19. CASE SaveTrack
    BY <1>19 DEF SaveTrack
  <1>20. CASE FlushImported
    BY <1>20 DEF FlushImported
  <1>21. CASE ClearPending
    BY <1>21 DEF ClearPending
  <1>22. CASE ImportFails
    BY <1>22 DEF ImportFails
  <1>23. CASE Finish
    BY <1>23 DEF Finish
  <1>24. CASE Checkpoint
    BY <1>24 DEF Checkpoint
  <1>25. CASE Crash
    BY <1>25 DEF Crash
  <1>26. CASE \E t \in Ids : MirrorTags(t)
    <2>1. PICK t \in Ids : MirrorTags(t)
      BY <1>26
    <2>2. /\ fs' = [fs EXCEPT ![db[t]] = serial + 1] /\ db[t] \in Paths
          /\ UNCHANGED <<db, durable, faults, removals>>
      BY <2>1 DEF MirrorTags
    <2>3. \A p \in Paths : fs[p] # 0 => fs'[p] # 0
      BY <2>2
    <2> QED
      BY <2>2, <2>3
  <1>27. CASE \E t \in Ids : RemoveTrackFromLibrary(t)
    BY <1>27 DEF RemoveTrackFromLibrary
  <1>28. CASE \E t \in Ids, p \in Paths : PlanReplacement(t, p)
    <2>1. UNCHANGED <<fs, db, durable, faults, removals>>
      BY <1>28 DEF PlanReplacement
    <2> QED
      BY <2>1
  <1>29. CASE \E n \in 1..MaxPlans : PrepareCdImport(n)
    BY <1>29 DEF PrepareCdImport
  <1>30. CASE \E p \in Paths : Rip(p)
    BY <1>30 DEF Rip
  <1>31. CASE UNCHANGED vars
    BY <1>31 DEF vars
  <1> QED
    BY <1>1, <1>2, <1>3, <1>4, <1>5, <1>6, <1>7, <1>8, <1>9, <1>10, <1>11, <1>12, <1>13, <1>14,
       <1>15, <1>16, <1>17, <1>18, <1>19, <1>20, <1>21, <1>22, <1>23, <1>24, <1>25, <1>26, <1>27,
       <1>28, <1>29, <1>30, <1>31 DEF Next


-----------------------------------------------------------------------------
(* The theorems.                                                           *)

\* A call that failed has failed.
LEMMA FaultsGrow ==
    ASSUME TypeOK, [Next]_vars
    PROVE  Unfailing' => Unfailing
    BY DEF TypeOK, Unfailing, Next, vars, bounds, Fault, SetLibraryServices, RequestReplacement,
     RecoverOriginal, RecoverReplacement, RecoveryRefuses, NothingToRecover, WriteReplacement,
     CopyVerified, RebindRow, FlushRebound, TrashOriginal, RemoveReplacement, CopyFails,
     ReplacementFails, RecoverCdImport, RipEnds, WritePending, MoveStaging, SaveTrack,
     FlushImported, ClearPending, ImportFails, Finish, Checkpoint, Crash, MirrorTags,
     RemoveTrackFromLibrary, PlanReplacement, PrepareCdImport, Rip

\* The inductive invariant.
Inductive == TypeOK /\ Control /\ (Unfailing => Exact /\ RowsFindFiles)

\* The invariant holds initially.
LEMMA InitInductive == Init => Inductive
  <1> SUFFICES ASSUME Init PROVE Exact /\ RowsFindFiles
    BY InitTyped DEF Inductive
  <1>1. PICK p \in Paths :
           /\ db = [t \in Ids |-> IF t = 1 THEN p ELSE NoPath]
           /\ fs = [q \in Paths |-> IF q = p THEN 1 ELSE 0]
    BY DEF Init
  <1>2. db[1] = p /\ 1 \in Rows /\ HasRow(p)
    BY <1>1, Identifiers DEF Rows, HasRow
  <1>3. FilesOwned
    BY <1>1, <1>2 DEF FilesOwned, Owned
  <1>4. RowsFindFiles
    BY <1>1 DEF Init, RowsFindFiles
  <1>5. Journals /\ RowsKept /\ Unstopped /\ Answerable
    BY DEF Init, Journals, RowsKept, Taken, Unstopped, Answerable, Journaled, Publishing
  <1> QED
    BY <1>3, <1>4, <1>5 DEF Exact

\* Every step preserves the invariant.
LEMMA StepInductive == Inductive /\ [Next]_vars => Inductive'
  <1> SUFFICES ASSUME Inductive, [Next]_vars PROVE Inductive'
    OBVIOUS
  <1>1. TypeOK /\ Control
    BY DEF Inductive
  <1>2. TypeOK'
    BY <1>1, TypeStep
  <1>3. Control'
    BY <1>1, <1>2, ThreadsStep, ApartStep, JobStep, DiscStep DEF Control
  <1>4. Unfailing' => Unfailing
    BY <1>1, FaultsGrow
  <1>5. Unfailing' => Exact'
    BY <1>1, <1>2, <1>3, <1>4, JournalsStep, RowsKeptStep, UnstoppedStep, AnswerableStep,
       FilesOwnedStep DEF Inductive, Exact
  <1>6. Unfailing' => RowsFindFiles'
    BY <1>1, <1>2, <1>3, <1>4, RowsFindFilesStep DEF Inductive
  <1> QED
    BY <1>2, <1>3, <1>5, <1>6 DEF Inductive

\* The inductive invariant holds in every state.
THEOREM Invariance == Spec => []Inductive
  BY InitInductive, StepInductive, PTL DEF Spec


\* Types, and each publication under its journal until its row is durable,
\* whatever fails and wherever the process or the power stops.
THEOREM TypeCorrect == Spec => []TypeOK
  <1>1. Inductive => TypeOK
    BY DEF Inductive
  <1> QED
    BY <1>1, Invariance, PTL

\* While no call fails and no row is removed, after any number of crashes and
\* power failures, a row has its file, in the database as it is and as a power
\* failure would leave it (recovery of both journals, and the flush before the
\* original goes to the trash).
THEOREM RowsHaveFiles == Spec => []RowsFindFiles
  <1>1. Inductive => RowsFindFiles
    BY DEF Inductive, RowsFindFiles
  <1> QED
    BY <1>1, Invariance, PTL

\* While no call fails, and after one stop at most: between operations every
\* file has a row, was left on purpose, or is in a journal that waits.
THEOREM FilesAccountedFor == Spec => []NoOrphans
  <1>1. Inductive => NoOrphans
    BY Identifiers DEF Inductive, NoOrphans, Exact, FilesOwned, Owned, Journals, Journaled
  <1> QED
    BY <1>1, Invariance, PTL

\* While no call fails, one stop leaves no state that the recovery of a
\* replacement refuses.
THEOREM OneStopRecovers == Spec => []ReplacementRecovers
  <1>1. Inductive => ReplacementRecovers
    BY DEF Inductive, ReplacementRecovers, Exact, Answerable
  <1> QED
    BY <1>1, Invariance, PTL

=============================================================================
