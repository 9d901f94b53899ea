---------------------------- MODULE ArtworkOutbox ----------------------------
(***************************************************************************)
(* Artwork payloads of the tag mirror: content-addressed blob files that   *)
(* outbox rows reference (library_store/src/tag_mirror.rs).  A publisher   *)
(* writes the blob and then commits the row; the metadata writer mirrors   *)
(* rows and collects blobs no row references.  The two share no lock.      *)
(*                                                                         *)
(* A file's modification time is reduced to what the collector asks of it: *)
(* whether it was written before the latest collection's snapshot.         *)
(* Whether the audio file is there and takes a picture is asked anew at    *)
(* each attempt (MirrorFails): a row may be tried for ever.                *)
(* The names of the specification begin with Artwork, so that a module of  *)
(* proofs can extend this one beside another.                              *)
(***************************************************************************)
EXTENDS Naturals

CONSTANTS
    Publishers,    \* threads: the runtime's and the online scheduler's
    Tracks,
    Digests,       \* contents of a picture
    Clear,         \* the intent to remove the picture
    NoIntent, NoTrack, NoDigest,
    MaxEdits,      \* bound: artwork edits
    MaxCrashes     \* bound: process deaths

ASSUME ArtworkAssumption ==
    /\ Clear \notin Digests /\ NoDigest \notin Digests /\ Clear # NoDigest
    /\ NoTrack \notin Tracks
    /\ MaxEdits \in Nat /\ MaxCrashes \in Nat

Artwork == Digests \union {Clear}
Age     == {"absent", "old", "new"}    \* against the last snapshot
Intent  == [generation : Nat \ {0}, artwork : Artwork]
Intents == Intent \union {NoIntent}

VARIABLES
    blobs,      \* [Digests -> Age]: sha256-<digest> files
    temps,      \* [Publishers -> Age]: the .tmp file a publisher writes
    litter,     \* temporary files of processes that died are on disk
    removed,    \* tracks without a row
    outbox,     \* [Tracks -> Intent or NoIntent]
    edits,
    step,       \* [Publishers -> {"idle", "publish", "rename", "enqueue"}]
    target,     \* [Publishers -> Tracks or NoTrack]
    digest,     \* [Publishers -> Digests or NoDigest]
    active,     \* the writer has been nudged
    at,         \* where the writer is
    batch,      \* rows the batch query returned
    cur,        \* the row being mirrored
    completed,  \* the batch completed an artwork row
    refs,       \* referenced digests as the collection read them
    scan,       \* directory entries it has not reached
    overlap,    \* history: publishers a collection has overlapped
    raced,      \* history: tracks whose row was published in an overlap
    unswept,    \* history: digests, or NoDigest for the litter, that no completed
                \* row has let go of and no collection has looked at since
    crashes

files     == <<blobs, temps, litter>>
publisher == <<step, target, digest>>
writer    == <<active, at, batch, cur, completed, refs, scan>>
history   == <<overlap, raced, unswept>>
artworkVars == <<files, removed, outbox, edits, publisher, writer, history, crashes>>

NoBatch == [t \in Tracks |-> NoIntent]
Collecting == at \in {"references", "scan"}

ArtworkInit ==
    /\ blobs = [d \in Digests |-> "absent"] /\ temps = [p \in Publishers |-> "absent"]
    /\ litter = FALSE /\ removed = {}
    /\ outbox = NoBatch /\ edits = 0
    /\ step = [p \in Publishers |-> "idle"]
    /\ target = [p \in Publishers |-> NoTrack] /\ digest = [p \in Publishers |-> NoDigest]
    /\ active = FALSE /\ at = "snapshot" /\ batch = NoBatch /\ cur = NoTrack
    /\ completed = FALSE /\ refs = {} /\ scan = {}
    /\ overlap = {} /\ raced = {} /\ unswept = {} /\ crashes = 0

-----------------------------------------------------------------------------
(* Publishers.                                                             *)

Edit == edits < MaxEdits /\ edits' = edits + 1

Referenced == {d \in Digests : \E t \in Tracks : outbox[t] # NoIntent /\ outbox[t].artwork = d}

\* What nothing needs: stored payloads and the litter.
Unneeded ==
    {d \in Digests : blobs[d] # "absent" /\ d \notin Referenced}
      \union IF litter THEN {NoDigest} ELSE {}

\* The picture the row of t sets.
Payload(t) == {d \in Digests : outbox[t] # NoIntent /\ outbox[t].artwork = d}

\* Mutant of Enqueue: the row is inserted before its generation is counted.
EnqueueFromZero(t, artwork) ==
    /\ outbox' = [outbox EXCEPT ![t] =
          [generation |-> IF @ = NoIntent THEN 0 ELSE @.generation + 1,
           artwork |-> artwork]]
    /\ active' = TRUE
    /\ unswept' = unswept \union Payload(t)

Enqueue(t, artwork) ==
    /\ outbox' = [outbox EXCEPT ![t] =
          [generation |-> IF @ = NoIntent THEN 1 ELSE @.generation + 1,
           artwork |-> artwork]]
    /\ active' = TRUE
    /\ unswept' = unswept \union Payload(t)

\* The edit is over, whether it was taken or refused.
EditOver(p) ==
    /\ step' = [step EXCEPT ![p] = "idle"]
    /\ target' = [target EXCEPT ![p] = NoTrack] /\ digest' = [digest EXCEPT ![p] = NoDigest]

SetArtwork(p, t, d) ==
    /\ step[p] = "idle" /\ t \notin removed /\ Edit
    /\ step' = [step EXCEPT ![p] = "publish"]
    /\ target' = [target EXCEPT ![p] = t] /\ digest' = [digest EXCEPT ![p] = d]
    /\ overlap' = IF Collecting THEN overlap \union {p} ELSE overlap \ {p}
    /\ UNCHANGED <<files, removed, outbox, writer, raced, unswept, crashes>>

ClearArtwork(t) ==
    /\ t \notin removed /\ Edit
    /\ Enqueue(t, Clear)
    /\ raced' = raced \ {t}
    /\ UNCHANGED <<files, removed, publisher, at, batch, cur, completed, refs, scan,
                   overlap, crashes>>

\* The track leaves the library; its outbox row goes with it (ON DELETE CASCADE).
RemoveTrack(t) ==
    /\ t \notin removed
    /\ removed' = removed \union {t}
    /\ outbox' = [outbox EXCEPT ![t] = NoIntent]
    /\ unswept' = unswept \union Payload(t)
    /\ UNCHANGED <<files, edits, publisher, writer, overlap, raced, crashes>>

\* publish: a blob that exists is read and returned as it is.
PublishExisting(p) ==
    /\ step[p] = "publish" /\ blobs[digest[p]] # "absent"
    /\ step' = [step EXCEPT ![p] = "enqueue"]
    /\ UNCHANGED <<files, removed, outbox, edits, target, digest, writer, history,
                   crashes>>

WriteTemporary(p) ==
    /\ step[p] = "publish" /\ blobs[digest[p]] = "absent"
    /\ temps' = [temps EXCEPT ![p] = "new"]
    /\ step' = [step EXCEPT ![p] = "rename"]
    /\ UNCHANGED <<blobs, litter, removed, outbox, edits, target, digest, writer,
                   history, crashes>>

\* The blob keeps the modification time of the file it is renamed from.
RenameTemporary(p) ==
    /\ step[p] = "rename" /\ temps[p] # "absent"
    /\ blobs' = [blobs EXCEPT ![digest[p]] = temps[p]]
    /\ step' = [step EXCEPT ![p] = "enqueue"]
    /\ temps' = [temps EXCEPT ![p] = "absent"]
    /\ UNCHANGED <<litter, removed, outbox, edits, target, digest, writer, history,
                   crashes>>

\* The blob that exists cannot be read, or the new one not be written or renamed (as
\* when a collection has removed its temporary file): the edit is refused.
PublishFails(p) ==
    /\ step[p] \in {"publish", "rename"}
    /\ EditOver(p)
    /\ temps' = [temps EXCEPT ![p] = "absent"]
    /\ UNCHANGED <<blobs, litter, removed, outbox, edits, writer, history, crashes>>

\* enqueue_tag_mirror_artwork
EnqueueArtwork(p) ==
    /\ step[p] = "enqueue" /\ target[p] \notin removed
    /\ Enqueue(target[p], digest[p])
    /\ raced' = IF p \in overlap THEN raced \union {target[p]} ELSE raced \ {target[p]}
    /\ EditOver(p)
    /\ UNCHANGED <<files, removed, edits, at, batch, cur, completed, refs, scan, overlap,
                   crashes>>

\* The blob is there, and its directory cannot be flushed or the row not be written
\* (as always for a removed track): the edit is refused.
EnqueueFails(p) ==
    /\ step[p] = "enqueue"
    /\ EditOver(p)
    /\ unswept' = unswept \union {digest[p]}
    /\ UNCHANGED <<files, removed, outbox, edits, writer, overlap, raced, crashes>>

Resume ==
    /\ ~active /\ active' = TRUE
    /\ UNCHANGED <<files, removed, outbox, edits, publisher, at, batch, cur,
                   completed, refs, scan, history, crashes>>

-----------------------------------------------------------------------------
(* garbage_collect_tag_mirror_artwork: once after the start, and after each *)
(* batch that completed an artwork row.                                    *)

\* Everything on disk is now older than the snapshot.
TakeSnapshot ==
    LET Aged(f) == [x \in DOMAIN f |-> IF f[x] = "new" THEN "old" ELSE f[x]] IN
    /\ active /\ at = "snapshot"
    /\ blobs' = Aged(blobs) /\ temps' = Aged(temps)
    /\ overlap' = overlap \union {p \in Publishers : step[p] # "idle"}
    /\ unswept' = {}
    /\ at' = "references"
    /\ UNCHANGED <<litter, removed, outbox, edits, publisher, active, batch, cur,
                   completed, refs, scan, raced, crashes>>

\* Mutant of ReadReferences: the rows of the last batch count, not the table's.
ReadBatchReferences ==
    /\ at = "references"
    /\ refs' = {d \in Digests : \E t \in Tracks : batch[t] # NoIntent /\ batch[t].artwork = d}
    /\ scan' = Digests \union Publishers
    /\ at' = "scan"
    /\ UNCHANGED <<files, removed, outbox, edits, publisher, active, batch, cur,
                   completed, history, crashes>>

ReadReferences ==
    /\ at = "references"
    /\ refs' = Referenced
    /\ scan' = Digests \union Publishers
    /\ at' = "scan"
    /\ UNCHANGED <<files, removed, outbox, edits, publisher, active, batch, cur,
                   completed, history, crashes>>

VisitBlob(d) ==
    /\ at = "scan" /\ d \in scan
    /\ blobs' = IF d \notin refs /\ blobs[d] = "old"
                THEN [blobs EXCEPT ![d] = "absent"] ELSE blobs
    /\ scan' = scan \ {d}
    /\ UNCHANGED <<temps, litter, removed, outbox, edits, publisher, active, at,
                   batch, cur, completed, refs, history, crashes>>

VisitTemporary(p) ==
    /\ at = "scan" /\ p \in scan
    /\ temps' = IF temps[p] = "old" THEN [temps EXCEPT ![p] = "absent"] ELSE temps
    /\ scan' = scan \ {p}
    /\ UNCHANGED <<blobs, litter, removed, outbox, edits, publisher, active, at,
                   batch, cur, completed, refs, history, crashes>>

\* What a dead process left behind is older than any snapshot of this one.
VisitLitter ==
    /\ at = "scan" /\ litter /\ litter' = FALSE
    /\ UNCHANGED <<blobs, temps, removed, outbox, edits, publisher, writer, history,
                   crashes>>

EndCollection ==
    /\ at = "scan" /\ scan = {} /\ ~litter
    /\ at' = "drain" /\ refs' = {} /\ completed' = FALSE
    /\ UNCHANGED <<files, removed, outbox, edits, publisher, active, batch, cur, scan,
                   history, crashes>>

\* The references, the directory or a file cannot be read or removed: this is only
\* printed.
CollectionFails ==
    /\ Collecting
    /\ at' = "drain" /\ refs' = {} /\ scan' = {} /\ completed' = FALSE
    /\ unswept' = unswept \union Unneeded
    /\ UNCHANGED <<files, removed, outbox, edits, publisher, active, batch, cur,
                   overlap, raced, crashes>>

-----------------------------------------------------------------------------
(* drain_due_batch, for rows that carry artwork.                           *)

StartBatch ==
    /\ active /\ at = "drain" /\ outbox # NoBatch
    /\ batch' = outbox
    /\ at' = "next"
    /\ UNCHANGED <<files, removed, outbox, edits, publisher, active, cur, completed,
                   refs, scan, history, crashes>>

\* mirror_one: the payload is read and written into the audio file.
WriteArtwork(t) ==
    /\ at = "next" /\ batch[t] # NoIntent /\ t \notin removed
    /\ batch[t].artwork \in Digests => blobs[batch[t].artwork] # "absent"
    /\ cur' = t /\ at' = "settle"
    /\ UNCHANGED <<files, removed, outbox, edits, publisher, active, batch, completed, refs,
                   scan, history, crashes>>

\* The track or its file is gone, the payload cannot be read or the file not be
\* written: a row that is still there stays for a retry.
MirrorFails(t) ==
    /\ at = "next" /\ batch[t] # NoIntent
    /\ batch' = [batch EXCEPT ![t] = NoIntent]
    /\ UNCHANGED <<files, removed, outbox, edits, publisher, active, at, cur,
                   completed, refs, scan, history, crashes>>

CompleteArtwork ==
    LET done == outbox[cur] # NoIntent /\ outbox[cur].generation = batch[cur].generation IN
    /\ at = "settle"
    /\ outbox' = IF done THEN [outbox EXCEPT ![cur] = NoIntent] ELSE outbox
    /\ completed' = (completed \/ done)
    /\ batch' = [batch EXCEPT ![cur] = NoIntent] /\ cur' = NoTrack
    /\ at' = "next"
    /\ UNCHANGED <<files, removed, edits, publisher, active, refs, scan, history,
                   crashes>>

\* The fingerprint of the file that was written cannot be dropped, or the completion
\* fails: the row stays.
SettleFails ==
    /\ at = "settle"
    /\ batch' = [batch EXCEPT ![cur] = NoIntent] /\ cur' = NoTrack
    /\ at' = "next"
    /\ UNCHANGED <<files, removed, outbox, edits, publisher, active, completed, refs,
                   scan, history, crashes>>

\* Mutant of EndBatch: the collection waits for the next start.
EndBatchUncollected ==
    /\ at = "next" /\ batch = NoBatch
    /\ at' = "drain" /\ completed' = FALSE
    /\ UNCHANGED <<files, removed, outbox, edits, publisher, active, batch, cur, refs,
                   scan, history, crashes>>

EndBatch ==
    /\ at = "next" /\ batch = NoBatch
    /\ at' = IF completed THEN "snapshot" ELSE "drain"
    /\ UNCHANGED <<files, removed, outbox, edits, publisher, active, batch, cur,
                   completed, refs, scan, history, crashes>>

\* Temporary files stay until a collection finds them.
ProcessDies ==
    /\ crashes < MaxCrashes /\ crashes' = crashes + 1
    /\ litter' = (litter \/ \E p \in Publishers : temps[p] # "absent")
    /\ temps' = [p \in Publishers |-> "absent"]
    /\ step' = [p \in Publishers |-> "idle"]
    /\ target' = [p \in Publishers |-> NoTrack] /\ digest' = [p \in Publishers |-> NoDigest]
    /\ active' = FALSE /\ at' = "snapshot" /\ batch' = NoBatch /\ cur' = NoTrack
    /\ completed' = FALSE /\ refs' = {} /\ scan' = {}
    /\ UNCHANGED <<blobs, removed, outbox, edits, history>>

WriterStep ==
    \/ TakeSnapshot \/ ReadReferences \/ VisitLitter \/ EndCollection \/ CollectionFails
    \/ \E d \in Digests : VisitBlob(d)
    \/ \E p \in Publishers : VisitTemporary(p)
    \/ StartBatch \/ CompleteArtwork \/ SettleFails \/ EndBatch
    \/ \E t \in Tracks : WriteArtwork(t) \/ MirrorFails(t)

PublisherStep(p) ==
    \/ PublishExisting(p) \/ WriteTemporary(p) \/ RenameTemporary(p) \/ PublishFails(p)
    \/ EnqueueArtwork(p) \/ EnqueueFails(p)

ArtworkNext ==
    \/ WriterStep \/ Resume \/ ProcessDies
    \/ \E p \in Publishers :
          PublisherStep(p) \/ \E t \in Tracks, d \in Digests : SetArtwork(p, t, d)
    \/ \E t \in Tracks : ClearArtwork(t) \/ RemoveTrack(t)

ArtworkSpec == ArtworkInit /\ [][ArtworkNext]_artworkVars

\* Both threads keep running, and the UI resumes the writer after a start.
FairArtworkSpec ==
    /\ ArtworkSpec /\ WF_artworkVars(WriterStep) /\ WF_artworkVars(Resume)
    /\ \A p \in Publishers : WF_artworkVars(PublisherStep(p))

-----------------------------------------------------------------------------
\* Every variable has its type.
ArtworkTypeOK ==
    /\ blobs \in [Digests -> Age] /\ temps \in [Publishers -> Age] /\ litter \in BOOLEAN
    /\ removed \subseteq Tracks
    /\ outbox \in [Tracks -> Intents] /\ batch \in [Tracks -> Intents]
    /\ edits \in 0 .. MaxEdits
    /\ step \in [Publishers -> {"idle", "publish", "rename", "enqueue"}]
    /\ target \in [Publishers -> Tracks \union {NoTrack}]
    /\ digest \in [Publishers -> Digests \union {NoDigest}]
    /\ active \in BOOLEAN /\ completed \in BOOLEAN
    /\ at \in {"snapshot", "references", "scan", "drain", "next", "settle"}
    /\ cur \in Tracks \union {NoTrack}
    /\ refs \subseteq Digests /\ scan \subseteq Digests \union Publishers
    /\ overlap \subseteq Publishers /\ raced \subseteq Tracks
    /\ unswept \subseteq Digests \union {NoDigest}
    /\ crashes \in Nat

Dangling(t) == outbox[t] # NoIntent /\ outbox[t].artwork \in Digests
               /\ blobs[outbox[t].artwork] = "absent"

\* "Set payloads must have already been published": a row that sets a picture
\* always has its payload on disk.
NoDanglingArtwork == \A t \in Tracks : ~Dangling(t)

\* The one way a row loses its payload is a collection that overlaps the
\* publication; no later collection, batch, retry or crash takes it.
DanglingOnlyIfRaced == \A t \in Tracks : Dangling(t) => t \in raced

\* Liveness: payloads and temporary files do not pile up.  Once edits stop, each
\* file that nothing needs is one that no completed row and no death has let go
\* of since the last collection that did not fail: its track was removed, its row
\* never written, or replaced by one that cannot be completed.  Rows that are
\* retried for ever keep their payload and hide no other (drain_due_batch,
\* garbage_collect).
NoBlobLeaks == <>[](Unneeded \subseteq unswept)

\* The same without the exceptions: what nothing needs goes.
UnneededGo == <>[](Unneeded = {})
=============================================================================
