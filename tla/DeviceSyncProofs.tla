--------------------------- MODULE DeviceSyncProofs ---------------------------
(***************************************************************************)
(* A completed sync has brought the device to what it planned, playlist    *)
(* files name files that are there, and the manifest keeps track of the    *)
(* device, for any number of tracks, contents, lists, numbers, runs,       *)
(* changes, cancellations and failures.                                    *)
(*                                                                         *)
(* CompletedMatches is not inductive: a run leaves a file alone because    *)
(* the manifest has its fingerprint, and that the device then has that     *)
(* content rests on all earlier runs: what the saved manifest records of a *)
(* file is its content, unless a run has written it since (Records).       *)
(***************************************************************************)
EXTENDS DeviceSync, FiniteSetTheorems, WellFoundedInduction, TLAPS

Working == phase \in {"copy", "finalize", "remove"}

\* What files records of a whole file on the device is its content, unless a run
\* wrote it, other than one of the paths recorded, without this being saved.
Records(files, recorded) ==
    \A p \in Paths : files[p] # NoFile /\ device[p] \in Copies
                       /\ (p \notin unsaved \/ p \in recorded)
                     => device[p].content = files[p].content

\* A run that has started finds room for its placements.
RoomToPlace == phase = "prepare" => Placed \subseteq Paths

\* A file that was not touched is the one the run fingerprinted.
SourceKept ==
    Working => \A p \in DOMAIN plan :
        plan[p].track \notin touched => content[plan[p].track] = plan[p].content

\* What a run counts as present is on the device and in the manifest it builds.
PresentWritten ==
    Working => /\ Listed(next) \subseteq present
               /\ \A p \in present : device[p] \in Copies /\ next[p] = plan[p]

\* A placement is present, still to be written, or was left out by a failed copy.
NoneForgotten ==
    /\ phase \in {"idle", "prepare"} => written = {}
    /\ Working => previous = manifest
    /\ Working /\ outcome # "partial" => DOMAIN plan \subseteq todo \union present
    /\ phase = "copy" => todo \intersect present = {}
    /\ phase \in {"finalize", "remove"} => todo = {}

\* What the run was given is placed again, still to be removed, or gone.
StaleOrGone ==
    Working => \A p \in Listed(previous) :
                  p \in DOMAIN plan \/ p \in stale \/ device[p] = NoFile

\* The playlist files of the ticked lists name what the run has placed for them.
IndexPlaced ==
    phase = "remove" /\ layout = "tree" =>
        \A l \in DOMAIN selection : index[l] = WrittenIndex(l)

\* A folder per playlist has no playlist files.
NoIndex == layout # "tree" => \A l \in Lists : index[l] = {}

Inductive ==
    /\ TypeOK
    /\ Records(manifest, {}) /\ Records(next, written)
    /\ RoomToPlace /\ SourceKept /\ PresentWritten /\ NoneForgotten /\ StaleOrGone
    /\ IndexPlaced /\ NoIndex
    /\ CompletedMatches

\* What IndexNamesFiles asks of a step.
IndexStep ==
    /\ \A l \in Lists : index'[l] # index[l] => index'[l] \subseteq Whole(device)
    /\ phase = "remove" => \A l \in DOMAIN selection :
          \A p \in index[l] : device[p] # NoFile => device'[p] # NoFile

-----------------------------------------------------------------------------
\* Where tracks go depends on the layout, the titles, the selection and the manifest.
LEMMA SamePlacement ==
    ASSUME UNCHANGED <<layout, title, selection, manifest>>
    PROVE  Placed' = Placed
<1>1. layout' = layout /\ title' = title /\ selection' = selection /\ manifest' = manifest
  OBVIOUS
<1>2. Entries' = Entries /\ \A e : TrackAt(e)' = TrackAt(e)
  BY <1>1, Zenon DEF Entries, TrackAt
<1>3. Placements' = Placements  BY <1>1, <1>2, Zenon DEF Placements
<1>4. \A l, t : Prior(l, t)' = Prior(l, t)  BY <1>1, Zenon DEF Prior, Listed
<1>5. \A l : Highest(l)' = Highest(l)  BY <1>1, Zenon DEF Highest, Listed
<1>6. \A e : Number(e)' = Number(e)  BY <1>1, <1>2, <1>4, <1>5, Zenon DEF Number
<1>7. \A e : Tag(e)' = Tag(e)  BY <1>1, <1>2, <1>3, Zenon DEF Tag
<1>8. \A e : PathOf(e)' = PathOf(e)  BY <1>1, <1>2, <1>6, <1>7, Zenon DEF PathOf
<1> QED  BY <1>3, <1>8, Zenon DEF Placed

\* A ticked list is one of the lists, and has tracks in order.
LEMMA Ticked ==
    ASSUME TypeOK
    PROVE  /\ DOMAIN selection \subseteq Lists
           /\ \A l \in DOMAIN selection : selection[l] \in Playlists
  BY DeviceAssumption DEF TypeOK, Selections

\* A placement has a track of the library.
LEMMA PlacedTrack ==
    ASSUME TypeOK, NEW e \in Placements
    PROVE  /\ e \in Entries /\ TrackAt(e) \in Tracks
           /\ e[1] \in DOMAIN selection /\ e[2] \in DOMAIN selection[e[1]]
<1>1. e \in Entries /\ e[1] \in DOMAIN selection /\ e[2] \in DOMAIN selection[e[1]]
  BY DEF Placements, Entries
<1>2. selection[e[1]] \in Playlists  BY <1>1, Ticked
<1>3. TrackAt(e) \in Tracks  BY <1>1, <1>2 DEF TrackAt, Playlists
<1> QED  BY <1>1, <1>3

\* A path the run places is that of a placement, with its track's content.
LEMMA CopyOfPlacement ==
    ASSUME TypeOK, NEW p \in Placed
    PROVE  \E e \in Placements :
              /\ PathOf(e) = p
              /\ CopyOf(p) = [track |-> TrackAt(e), content |-> content[TrackAt(e)]]
              /\ CopyOf(p) \in Copies
<1> DEFINE e == CHOOSE f \in Placements : PathOf(f) = p
<1>1. e \in Placements /\ PathOf(e) = p  BY DEF Placed
<1>2. CopyOf(p) = [track |-> TrackAt(e), content |-> content[TrackAt(e)]]  BY DEF CopyOf
<1> HIDE DEF e
<1>3. TrackAt(e) \in Tracks  BY <1>1, PlacedTrack
<1>4. CopyOf(p) \in Copies  BY <1>2, <1>3 DEF TypeOK, Copies
<1> QED  BY <1>1, <1>2, <1>4

\* The initial state.
LEMMA Initially == Init => Inductive
<1> SUFFICES ASSUME Init PROVE Inductive
  OBVIOUS
<1> USE DEF Init
<1>1. Nothing \in Files /\ DOMAIN plan = {} /\ Listed(Nothing) = {}
  BY DEF Nothing, Files, NoPlan, Listed
<1>2. device \in [Paths -> Copies \union {NoFile, Partial}]  BY DEF Nothing
<1>3. index \in [Lists -> SUBSET Paths] /\ \A l \in Lists : index[l] = {}
  OBVIOUS
<1>4. TypeOK
  <2>1. /\ edits \in 0 .. MaxEdits /\ runs \in 0 .. MaxRuns /\ cancels \in 0 .. MaxCancels
        /\ faults \in 0 .. MaxFaults
    BY DeviceAssumption
  <2>2. DOMAIN plan \subseteq Paths /\ (\A p \in DOMAIN plan : plan[p] \in Copies)
    BY <1>1
  <2>3. /\ stale \subseteq Paths \ DOMAIN plan /\ todo \subseteq DOMAIN plan
        /\ present \subseteq DOMAIN plan /\ written \subseteq present
        /\ touched \subseteq Tracks /\ unsaved \subseteq Paths
    OBVIOUS
  <2>4. removeStale \in BOOLEAN /\ cancel \in BOOLEAN /\ interrupted \in BOOLEAN
    OBVIOUS
  <2>5. manifest \in Files /\ previous \in Files /\ next \in Files
    BY <1>1
  <2> QED  BY <1>2, <1>3, <2>1, <2>2, <2>3, <2>4, <2>5, Zenon DEF TypeOK
<1>5. Records(manifest, {}) /\ Records(next, written)
  BY DEF Records, Nothing
<1> QED
  BY <1>3, <1>4, <1>5
  DEF Inductive, RoomToPlace, SourceKept, PresentWritten, NoneForgotten, StaleOrGone,
      IndexPlaced, NoIndex, CompletedMatches, Working

\* The library's files change (ChangeFile).
LEMMA ChangeFileKeeps ==
    ASSUME Inductive, NEW t \in Tracks, ChangeFile(t)
    PROVE  Inductive' /\ IndexStep
<1> USE DEF Inductive
<1>1. UNCHANGED <<layout, transport, title, selection, manifest, device, index, phase, plan,
                  previous, removeStale, todo, stale, present, written, next, outcome, cancel,
                  unsaved, interrupted, runs, cancels, faults>>
  BY DEF ChangeFile, config, history
<1>2. PICK c \in Contents : content' = [content EXCEPT ![t] = c]
  BY DEF ChangeFile
<1>3. edits' \in 0 .. MaxEdits  BY DeviceAssumption DEF ChangeFile, Edit, TypeOK
<1>4. touched' = IF Working THEN touched \union {t} ELSE touched
  BY DEF ChangeFile, Working
<1>5. TypeOK'  BY <1>1, <1>2, <1>3, <1>4 DEF TypeOK, Files
<1>6. Records(manifest, {})' /\ Records(next, written)'  BY <1>1 DEF Records
<1>7. SourceKept'
  BY <1>1, <1>2, <1>4 DEF SourceKept, Working, TypeOK, Copies
<1>8. RoomToPlace'  BY <1>1, SamePlacement DEF RoomToPlace
<1>9. /\ PresentWritten' /\ NoneForgotten' /\ StaleOrGone' /\ IndexPlaced' /\ NoIndex'
      /\ CompletedMatches'
  BY <1>1 DEF PresentWritten, NoneForgotten, StaleOrGone, IndexPlaced, NoIndex,
              CompletedMatches, Working, Listed, WrittenIndex, PlacedFor, Delivered
<1>10. IndexStep  BY <1>1 DEF IndexStep
<1> QED  BY <1>5, <1>6, <1>7, <1>8, <1>9, <1>10

\* Between runs: a title or the selection changes, a file is deleted, a run starts.
LEMMA IdleKeeps ==
    ASSUME Inductive,
           \/ \E t \in Tracks : ChangeTitle(t)
           \/ \E s \in Selectable : ChangeSelection(s)
           \/ \E p \in Paths : DeleteFile(p)
           \/ \E stalesGo \in BOOLEAN : Start(stalesGo)
    PROVE  Inductive' /\ IndexStep
<1> USE DEF Inductive
<1>1. /\ phase = "idle" /\ phase' \in {"idle", "prepare"}
      /\ UNCHANGED <<layout, transport, content, manifest, index, plan, previous, todo, stale,
                     present, written, touched, next, unsaved, interrupted, cancels>>
  BY DEF ChangeTitle, ChangeSelection, DeleteFile, Start, config, library, run, history
<1>2. /\ device' \in [Paths -> Copies \union {NoFile, Partial}]
      /\ \A p \in Paths : device'[p] \in {device[p], NoFile}
  BY DEF ChangeTitle, ChangeSelection, DeleteFile, Start, TypeOK
<1>3. /\ selection' \in Selectable /\ removeStale' \in BOOLEAN /\ cancel' \in BOOLEAN
      /\ outcome' \in {"none", "complete", "partial", "cancelled", "failed"}
      /\ title' \in [Tracks -> Titles]
  <2>1. CASE \E t \in Tracks : ChangeTitle(t)
    BY <2>1 DEF ChangeTitle, TypeOK, run
  <2>2. CASE \E s \in Selectable : ChangeSelection(s)
    BY <2>2 DEF ChangeSelection, TypeOK, run
  <2>3. CASE \E p \in Paths : DeleteFile(p)
    BY <2>3 DEF DeleteFile, TypeOK, run, library
  <2>4. CASE \E stalesGo \in BOOLEAN : Start(stalesGo)
    BY <2>4 DEF Start, TypeOK, library
  <2> QED  BY <2>1, <2>2, <2>3, <2>4
<1>4. /\ edits' \in 0 .. MaxEdits /\ runs' \in 0 .. MaxRuns
      /\ faults' \in 0 .. MaxFaults
  <2>1. /\ edits' = edits \/ (edits < MaxEdits /\ edits' = edits + 1)
        /\ runs' = runs \/ (runs < MaxRuns /\ runs' = runs + 1)
        /\ faults' = faults \/ (faults < MaxFaults /\ faults' = faults + 1)
    BY DEF ChangeTitle, ChangeSelection, DeleteFile, Start, Edit, Fault
  <2>2. /\ edits \in 0 .. MaxEdits /\ runs \in 0 .. MaxRuns
        /\ faults \in 0 .. MaxFaults
    BY DEF TypeOK
  <2> QED  BY <2>1, <2>2, DeviceAssumption
<1>5. TypeOK'  BY <1>1, <1>2, <1>3, <1>4 DEF TypeOK, Files
<1>6. Records(manifest, {})' /\ Records(next, written)'
  BY <1>1, <1>2, NoFileAssumption DEF Records
<1>7. RoomToPlace'
  <2>1. CASE \E stalesGo \in BOOLEAN : Start(stalesGo)
    BY <2>1, SamePlacement DEF RoomToPlace, Start, config, library
  <2> QED
    BY <2>1, <1>1 DEF RoomToPlace, ChangeTitle, ChangeSelection, DeleteFile
<1>8. /\ SourceKept' /\ PresentWritten' /\ NoneForgotten' /\ StaleOrGone' /\ IndexPlaced'
      /\ NoIndex' /\ CompletedMatches'
  BY <1>1 DEF SourceKept, PresentWritten, NoneForgotten, StaleOrGone, IndexPlaced, NoIndex,
              CompletedMatches, Working
<1>9. IndexStep  BY <1>1 DEF IndexStep
<1> QED  BY <1>5, <1>6, <1>7, <1>8, <1>9

\* The user cancels; nothing moves yet.
LEMMA CancelKeeps ==
    ASSUME Inductive, RequestCancellation
    PROVE  Inductive' /\ IndexStep
<1> USE DEF Inductive
<1>1. UNCHANGED <<layout, transport, content, title, selection, manifest, device, index,
                  phase, plan, previous, removeStale, todo, stale, present, written, touched,
                  next, outcome, unsaved, interrupted, edits, runs, faults>>
  BY DEF RequestCancellation, config, library, run, history
<1>2. cancel' \in BOOLEAN /\ cancels' \in 0 .. MaxCancels
  BY DeviceAssumption DEF RequestCancellation, TypeOK
<1>3. TypeOK'  BY <1>1, <1>2 DEF TypeOK, Files
<1>4. Records(manifest, {})' /\ Records(next, written)'  BY <1>1 DEF Records
<1>5. RoomToPlace'  BY <1>1, SamePlacement DEF RoomToPlace
<1>6. /\ SourceKept' /\ PresentWritten' /\ NoneForgotten' /\ StaleOrGone' /\ IndexPlaced'
      /\ NoIndex' /\ CompletedMatches'
  BY <1>1 DEF SourceKept, PresentWritten, NoneForgotten, StaleOrGone, IndexPlaced, NoIndex,
              CompletedMatches, Working, Listed, WrittenIndex, PlacedFor, Delivered
<1>7. IndexStep  BY <1>1 DEF IndexStep
<1> QED  BY <1>3, <1>4, <1>5, <1>6, <1>7

\* A run is planned: a placement is left alone because the manifest has the
\* library's fingerprint; unless it is a path whose last writing was not
\* saved, the device has it too (compute_diff).
LEMMA PrepareKeeps ==
    ASSUME Inductive, Prepare
    PROVE  Inductive' /\ IndexStep
<1> DEFINE same == {p \in Placed : Unchanged(p)}
<1> USE DEF Inductive
<1>1. /\ plan' = [p \in Placed |-> CopyOf(p)] /\ previous' = manifest
      /\ todo' = Placed \ same /\ present' = same /\ stale' = Removals
      /\ next' = [p \in Paths |-> IF p \in same THEN CopyOf(p) ELSE NoFile]
      /\ written' = {} /\ touched' = {}
      /\ phase = "prepare" /\ phase' = "copy"
  BY DEF Prepare
<1>2. UNCHANGED <<layout, transport, content, title, selection, manifest, device, index,
                  removeStale, outcome, cancel, unsaved, interrupted, edits, runs, cancels,
                  faults>>
  BY DEF Prepare, config, library, history, bounds
<1>3. Placed \subseteq Paths  BY <1>1 DEF RoomToPlace
<1>4. \A p \in Placed : /\ CopyOf(p) \in Copies /\ CopyOf(p).track \in Tracks
                        /\ CopyOf(p).content = content[CopyOf(p).track]
  BY CopyOfPlacement DEF Copies
<1>5. \A p \in same : /\ manifest[p] # NoFile /\ manifest[p].content = CopyOf(p).content
                      /\ device[p] \in Copies
  BY DEF Unchanged
<1>6. same \subseteq Placed
  OBVIOUS
<1>7. DOMAIN plan' = Placed /\ \A p \in Placed : plan'[p] = CopyOf(p)
  BY <1>1
<1> HIDE DEF same
<1>8. next' \in Files  BY <1>1, <1>4, <1>6 DEF TypeOK, Files
<1>9. TypeOK'
  BY <1>1, <1>2, <1>3, <1>4, <1>6, <1>7, <1>8 DEF TypeOK, Files, Removals, Listed
<1>10. Records(manifest, {})'  BY <1>2 DEF Records
<1>11. \A p \in Paths : next'[p] = IF p \in same THEN CopyOf(p) ELSE NoFile
  BY <1>1
<1>12. Records(next, written)'
  BY <1>1, <1>2, <1>5, <1>11 DEF Records
<1>13. SourceKept'  BY <1>2, <1>4, <1>7 DEF SourceKept
<1>14. PresentWritten'
  <2>1. \A p \in same : p \in Paths  BY <1>3, <1>6
  <2> QED  BY <1>1, <1>2, <1>5, <1>6, <1>7, <1>11, <2>1 DEF PresentWritten, Listed
<1>15. StaleOrGone'  BY <1>1, <1>2, <1>7 DEF StaleOrGone, Removals, Listed
<1>16. /\ RoomToPlace' /\ NoneForgotten' /\ IndexPlaced' /\ NoIndex' /\ CompletedMatches'
       /\ IndexStep
  BY <1>1, <1>2, <1>7
  DEF RoomToPlace, NoneForgotten, IndexPlaced, NoIndex, CompletedMatches, Working, IndexStep
<1> QED  BY <1>9, <1>10, <1>12, <1>13, <1>14, <1>15, <1>16

\* A placement is written; its source is the one fingerprinted.
LEMMA CopyKeeps ==
    ASSUME Inductive, NEW p \in Paths, Copy(p)
    PROVE  Inductive' /\ IndexStep
<1> USE DEF Inductive
<1>1. /\ phase = "copy" /\ p \in todo /\ plan[p].track \notin touched
      /\ device' = [device EXCEPT ![p] = Source(p)]
      /\ next' = [next EXCEPT ![p] = plan[p]]
      /\ present' = present \union {p} /\ written' = written \union {p}
      /\ todo' = todo \ {p} /\ unsaved' = unsaved \union {p}
  BY DEF Copy, NextFile
<1>2. UNCHANGED <<layout, transport, content, title, selection, manifest, index, phase, plan,
                  previous, removeStale, stale, touched, outcome, cancel, interrupted, edits,
                  runs, cancels, faults>>
  BY DEF Copy, config, library, bounds
<1>3. p \in DOMAIN plan /\ plan[p] \in Copies  BY <1>1 DEF TypeOK
<1>4. /\ plan[p].track \in Tracks /\ plan[p].content \in Contents
      /\ plan[p] = [track |-> plan[p].track, content |-> plan[p].content]
  BY <1>3 DEF Copies
<1>5. Source(p) = plan[p]
  BY <1>1, <1>3, <1>4 DEF Source, SourceKept, Working
<1>6. \A q \in Paths : /\ device'[q] = IF q = p THEN plan[p] ELSE device[q]
                       /\ next'[q] = IF q = p THEN plan[p] ELSE next[q]
  BY <1>1, <1>5 DEF TypeOK, Files
<1>7. TypeOK'  BY <1>1, <1>2, <1>3, <1>5 DEF TypeOK, Files
<1>8. Records(manifest, {})'  BY <1>1, <1>2, <1>6 DEF Records
<1>9. Records(next, written)'  BY <1>1, <1>2, <1>6 DEF Records
<1>10. PresentWritten'
  BY <1>1, <1>2, <1>3, <1>6 DEF PresentWritten, Working, TypeOK, Listed
<1>11. StaleOrGone'  BY <1>1, <1>2, <1>3, <1>6 DEF StaleOrGone, Working, Listed
<1>12. /\ RoomToPlace' /\ SourceKept' /\ NoneForgotten' /\ IndexPlaced' /\ NoIndex'
       /\ CompletedMatches' /\ IndexStep
  BY <1>1, <1>2
  DEF RoomToPlace, SourceKept, NoneForgotten, IndexPlaced, NoIndex, CompletedMatches,
      Working, IndexStep
<1> QED  BY <1>7, <1>8, <1>9, <1>10, <1>11, <1>12

\* A copy fails: the file is the old one, the new one, partial or gone, and the
\* run has failed or is partial.
LEMMA CopyFailsKeeps ==
    ASSUME Inductive, NEW p \in Paths, CopyFails(p)
    PROVE  Inductive' /\ IndexStep
<1> USE DEF Inductive
<1>1. /\ p \in todo /\ phase = "copy"
      /\ UNCHANGED <<layout, transport, content, title, selection, manifest, index, plan,
                     previous, removeStale, stale, present, written, touched, next, cancel,
                     interrupted, edits, runs, cancels>>
  BY DEF CopyFails, NextFile, config, library
<1>2. p \in DOMAIN plan /\ plan[p] \in Copies  BY <1>1 DEF TypeOK
<1>3. /\ todo' \subseteq todo
      /\ \/ phase' = "copy" /\ outcome' = "partial"
         \/ phase' = "finished" /\ outcome' = "failed"
  BY <1>1 DEF CopyFails, End
<1>4. faults' \in 0 .. MaxFaults  BY DeviceAssumption DEF CopyFails, Fault, TypeOK
<1>5. /\ device' \in [Paths -> Copies \union {NoFile, Partial}]
      /\ \A q \in Paths : q # p => device'[q] = device[q]
      /\ unsaved' \in {unsaved, unsaved \union {p}}
      /\ \/ device'[p] \in {device[p], NoFile, Partial} /\ unsaved' = unsaved
         \/ unsaved' = unsaved \union {p}
  <2>1. CASE UNCHANGED <<device, unsaved>>  BY <2>1 DEF TypeOK
  <2>2. CASE device' = [device EXCEPT ![p] = Source(p)] /\ unsaved' = unsaved \union {p}
    <3>1. Source(p) \in Copies  BY <1>2 DEF Source, Copies, TypeOK
    <3> QED  BY <2>2, <3>1 DEF TypeOK
  <2>3. CASE /\ \E file \in {NoFile, Partial} : device' = [device EXCEPT ![p] = file]
             /\ UNCHANGED unsaved
    BY <2>3 DEF TypeOK
  <2> QED  BY <2>1, <2>2, <2>3 DEF CopyFails
<1>6. TypeOK'  BY <1>1, <1>3, <1>4, <1>5 DEF TypeOK, Files
<1>7. next[p] = NoFile
  BY <1>1 DEF PresentWritten, NoneForgotten, Working, Listed
<1>8. Records(manifest, {})'  BY <1>1, <1>5, NoFileAssumption DEF Records
<1>9. Records(next, written)'  BY <1>1, <1>5, <1>7 DEF Records
<1>10. PresentWritten'
  BY <1>1, <1>3, <1>5 DEF PresentWritten, NoneForgotten, Working, TypeOK, Listed
<1>11. StaleOrGone'  BY <1>1, <1>2, <1>3, <1>5 DEF StaleOrGone, Working, Listed
<1>12. /\ RoomToPlace' /\ SourceKept' /\ NoneForgotten' /\ IndexPlaced' /\ NoIndex'
       /\ CompletedMatches' /\ IndexStep
  BY <1>1, <1>3
  DEF RoomToPlace, SourceKept, NoneForgotten, IndexPlaced, NoIndex, CompletedMatches,
      Working, IndexStep
<1> QED  BY <1>6, <1>8, <1>9, <1>10, <1>11, <1>12

\* All copies are made or given up.
LEMMA CopyDoneKeeps ==
    ASSUME Inductive, CopyDone
    PROVE  Inductive' /\ IndexStep
<1> USE DEF Inductive
<1>1. phase = "copy" /\ todo = {} /\ phase' = "finalize"  BY DEF CopyDone
<1>2. UNCHANGED <<layout, transport, content, title, selection, manifest, device, index, plan,
                  previous, removeStale, todo, stale, present, written, touched, next, outcome,
                  cancel, unsaved, interrupted, edits, runs, cancels, faults>>
  BY DEF CopyDone, config, library, run, history, bounds
<1>3. TypeOK'  BY <1>1, <1>2 DEF TypeOK, Files
<1>4. Records(manifest, {})' /\ Records(next, written)'  BY <1>2 DEF Records
<1>5. /\ RoomToPlace' /\ SourceKept' /\ PresentWritten' /\ NoneForgotten' /\ StaleOrGone'
      /\ IndexPlaced' /\ NoIndex' /\ CompletedMatches' /\ IndexStep
  BY <1>1, <1>2
  DEF RoomToPlace, SourceKept, PresentWritten, NoneForgotten, StaleOrGone, IndexPlaced,
      NoIndex, CompletedMatches, Working, IndexStep, Listed
<1> QED  BY <1>3, <1>4, <1>5

\* Only ticked lists get playlist files, which name what is present.
LEMMA IndexMoves ==
    ASSUME Inductive, phase = "finalize", NEW after,
           after = IndexWrittenBelow(MaxLists + 1)
             \/ \E k \in DOMAIN selection : after \in IndexCutAt(k)
    PROVE  /\ after \in [Lists -> SUBSET Paths]
           /\ \A l \in Lists : \/ after[l] = index[l]
                               \/ layout = "tree" /\ after[l] \subseteq Whole(device)
<1> USE DEF Inductive
<1>1. \A l : WrittenIndex(l) \subseteq Paths /\ WrittenIndex(l) \subseteq Whole(device)
  BY DEF WrittenIndex, PlacedFor, PresentWritten, Working, Whole, TypeOK
<1>2. ASSUME NEW k
      PROVE  /\ IndexWrittenBelow(k) \in [Lists -> SUBSET Paths]
             /\ \A l \in Lists :
                   \/ IndexWrittenBelow(k)[l] = index[l]
                   \/ layout = "tree" /\ IndexWrittenBelow(k)[l] \subseteq Whole(device)
  BY <1>1 DEF IndexWrittenBelow, TypeOK
<1>3. ASSUME NEW k \in DOMAIN selection, after \in IndexCutAt(k)
      PROVE  /\ after \in [Lists -> SUBSET Paths]
             /\ \A l \in Lists : \/ after[l] = index[l]
                                 \/ layout = "tree" /\ after[l] \subseteq Whole(device)
  <2>1. k \in Lists  BY Ticked
  <2>2. PICK names : /\ after = [IndexWrittenBelow(k) EXCEPT ![k] = names]
                     /\ \/ names = index[k]
                        \/ layout = "tree" /\ names \subseteq WrittenIndex(k)
    BY <1>3 DEF IndexCutAt
  <2>3. /\ names \subseteq Paths
        /\ names = index[k] \/ (layout = "tree" /\ names \subseteq Whole(device))
    <3>1. CASE names = index[k]  BY <2>1, <3>1 DEF TypeOK
    <3>2. CASE layout = "tree" /\ names \subseteq WrittenIndex(k)
      <4>1. WrittenIndex(k) \subseteq Paths /\ WrittenIndex(k) \subseteq Whole(device)
        BY <1>1
      <4> QED  BY <3>2, <4>1
    <3> QED  BY <2>2, <3>1, <3>2
  <2>4. \A l \in Lists : after[l] = IF l = k THEN names ELSE IndexWrittenBelow(k)[l]
    BY <1>2, <2>2
  <2>5. after \in [Lists -> SUBSET Paths]  BY <1>2, <2>2, <2>3
  <2> QED  BY <1>2, <2>3, <2>4, <2>5
<1>4. CASE after = IndexWrittenBelow(MaxLists + 1)
  <2>1. PICK k : k = MaxLists + 1
    OBVIOUS
  <2>2. after = IndexWrittenBelow(k)  BY <1>4, <2>1, Zenon
  <2> QED  BY <1>2, <2>2, Zenon
<1> QED  BY <1>3, <1>4

\* The playlist files are written.
LEMMA FinalizeKeeps ==
    ASSUME Inductive, Finalize
    PROVE  Inductive' /\ IndexStep
<1> USE DEF Inductive
<1>1. phase = "finalize" /\ phase' = "remove" /\ index' = IndexWrittenBelow(MaxLists + 1)
  BY DEF Finalize
<1>2. UNCHANGED <<layout, transport, content, title, selection, manifest, device, plan,
                  previous, removeStale, todo, stale, present, written, touched, next, outcome,
                  cancel, unsaved, interrupted, edits, runs, cancels, faults>>
  BY DEF Finalize, config, library, run, history, bounds
<1>3. /\ index' \in [Lists -> SUBSET Paths]
      /\ \A l \in Lists : \/ index'[l] = index[l]
                          \/ layout = "tree" /\ index'[l] \subseteq Whole(device)
  BY <1>1, IndexMoves
<1>4. TypeOK'  BY <1>1, <1>2, <1>3 DEF TypeOK, Files
<1>5. Records(manifest, {})' /\ Records(next, written)'  BY <1>2 DEF Records
<1>6. IndexPlaced'
  <2>1. \A l \in DOMAIN selection : l \in Lists /\ l < MaxLists + 1
    BY Ticked, DeviceAssumption DEF Lists
  <2>2. layout = "tree" => \A l \in DOMAIN selection : index'[l] = WrittenIndex(l)
    BY <1>1, <2>1 DEF IndexWrittenBelow
  <2> QED  BY <1>1, <1>2, <2>2 DEF IndexPlaced, WrittenIndex, PlacedFor
<1>7. /\ RoomToPlace' /\ SourceKept' /\ PresentWritten' /\ NoneForgotten' /\ StaleOrGone'
      /\ NoIndex' /\ CompletedMatches'
  BY <1>1, <1>2, <1>3
  DEF RoomToPlace, SourceKept, PresentWritten, NoneForgotten, StaleOrGone, NoIndex,
      CompletedMatches, Working, Listed
<1>8. IndexStep  BY <1>1, <1>2, <1>3 DEF IndexStep
<1> QED  BY <1>4, <1>5, <1>6, <1>7, <1>8

\* What playlist files name of the run's placements is never to be removed.
LEMMA IndexNotStale ==
    ASSUME Inductive, phase = "remove", NEW l \in DOMAIN selection
    PROVE  index[l] \intersect stale = {}
<1>1. l \in Lists  BY Ticked DEF Inductive
<1>2. CASE layout = "tree"
  BY <1>2 DEF Inductive, IndexPlaced, WrittenIndex, PlacedFor, TypeOK
<1>3. CASE layout # "tree"
  BY <1>1, <1>3 DEF Inductive, NoIndex
<1> QED  BY <1>2, <1>3

\* A confirmed removal: the file is not one of the run's (removals).
LEMMA RemoveFileKeeps ==
    ASSUME Inductive, NEW p \in Paths, RemoveFile(p)
    PROVE  Inductive' /\ IndexStep
<1> USE DEF Inductive
<1>1. /\ phase = "remove" /\ p \in stale /\ device' = [device EXCEPT ![p] = NoFile]
      /\ stale' = stale \ {p}
  BY DEF RemoveFile
<1>2. UNCHANGED <<layout, transport, content, title, selection, manifest, index, phase, plan,
                  previous, removeStale, todo, present, written, touched, next, outcome,
                  cancel, unsaved, interrupted, edits, runs, cancels, faults>>
  BY DEF RemoveFile, config, library, history, bounds
<1>3. p \notin DOMAIN plan /\ p \notin present  BY <1>1 DEF TypeOK
<1>4. TypeOK'  BY <1>1, <1>2 DEF TypeOK, Files
<1>5. \A q \in Paths : device'[q] = IF q = p THEN NoFile ELSE device[q]
  BY <1>1 DEF TypeOK
<1>6. Records(manifest, {})' /\ Records(next, written)'
  BY <1>2, <1>5, NoFileAssumption DEF Records
<1>7. PresentWritten'  BY <1>2, <1>3, <1>5 DEF PresentWritten, Working, TypeOK, Listed
<1>8. StaleOrGone'  BY <1>1, <1>2, <1>5 DEF StaleOrGone, Working, Listed
<1>9. /\ RoomToPlace' /\ SourceKept' /\ NoneForgotten' /\ IndexPlaced' /\ NoIndex'
      /\ CompletedMatches'
  BY <1>1, <1>2
  DEF RoomToPlace, SourceKept, NoneForgotten, IndexPlaced, NoIndex, CompletedMatches,
      Working, WrittenIndex, PlacedFor
<1>10. IndexStep
  <2>1. \A l \in DOMAIN selection : p \notin index[l] /\ index[l] \subseteq Paths
    BY <1>1, IndexNotStale, Ticked DEF TypeOK
  <2> QED  BY <1>2, <1>5, <2>1 DEF IndexStep
<1> QED  BY <1>4, <1>6, <1>7, <1>8, <1>9, <1>10

\* A removal fails, and the run with it.
LEMMA RemoveFailsKeeps ==
    ASSUME Inductive, NEW p \in Paths, RemoveFails(p)
    PROVE  Inductive' /\ IndexStep
<1> USE DEF Inductive
<1>1. /\ p \in stale /\ phase = "remove" /\ phase' = "finished" /\ outcome' = "failed"
      /\ UNCHANGED <<layout, transport, content, title, selection, manifest, index, plan,
                     previous, removeStale, todo, stale, present, written, touched, next,
                     cancel, unsaved, interrupted, edits, runs, cancels>>
  BY DEF RemoveFails, End, config, library, history
<1>2. PICK file \in {device[p], NoFile} : device' = [device EXCEPT ![p] = file]
  BY DEF RemoveFails
<1>3. faults' \in 0 .. MaxFaults  BY DeviceAssumption DEF RemoveFails, Fault, TypeOK
<1>4. device' \in [Paths -> Copies \union {NoFile, Partial}]  BY <1>2 DEF TypeOK
<1>5. TypeOK'  BY <1>1, <1>3, <1>4 DEF TypeOK, Files
<1>6. \A q \in Paths : device'[q] = device[q] \/ (q = p /\ device'[q] = NoFile)
  BY <1>2 DEF TypeOK
<1>7. Records(manifest, {})' /\ Records(next, written)'
  BY <1>1, <1>6, NoFileAssumption DEF Records
<1>8. /\ RoomToPlace' /\ SourceKept' /\ PresentWritten' /\ NoneForgotten' /\ StaleOrGone'
      /\ IndexPlaced' /\ NoIndex' /\ CompletedMatches'
  BY <1>1 DEF RoomToPlace, SourceKept, PresentWritten, NoneForgotten, StaleOrGone,
              IndexPlaced, NoIndex, CompletedMatches, Working
<1>9. IndexStep
  <2>1. \A l \in DOMAIN selection : p \notin index[l] /\ index[l] \subseteq Paths
    BY <1>1, IndexNotStale, Ticked DEF TypeOK
  <2> QED  BY <1>1, <1>6, <2>1 DEF IndexStep
<1> QED  BY <1>5, <1>7, <1>8, <1>9

\* What is kept of stale files is what the run was given of them.
LEMMA RetainedRecords ==
    ASSUME Inductive, phase = "remove"
    PROVE  Retained \in Files /\ Records(Retained, written)
<1>1. previous = manifest  BY DEF Inductive, NoneForgotten, Working
<1>2. Retained \in Files  BY DEF Inductive, Retained, Files, TypeOK
<1>3. \A p \in Paths : Retained[p] = IF p \in stale THEN manifest[p] ELSE next[p]
  BY <1>1 DEF Retained
<1>4. \A p \in stale : p \notin written  BY DEF Inductive, TypeOK
<1> QED  BY <1>2, <1>3, <1>4 DEF Inductive, Records

\* A run ends without completing; the manifest it returns is the saved one, the
\* one it has built, or that with the removals it did not make.
LEMMA EndKeeps ==
    ASSUME Inductive,
           PrepareCancelled \/ PrepareFails \/ CopyCancelled \/ FinalizeFails \/ RemoveCancelled
    PROVE  Inductive' /\ IndexStep
<1> USE DEF Inductive
<1>1. phase' = "finished" /\ outcome' \in {"cancelled", "failed"}
  BY DEF PrepareCancelled, PrepareFails, CopyCancelled, FinalizeFails, RemoveCancelled, End
<1>2. UNCHANGED <<layout, transport, content, title, selection, manifest, device, plan,
                  previous, removeStale, todo, stale, present, written, touched, cancel,
                  unsaved, interrupted, edits, runs, cancels>>
  BY DEF PrepareCancelled, PrepareFails, CopyCancelled, FinalizeFails, RemoveCancelled,
         config, library, history, bounds
<1>3. \/ next' = next
      \/ phase = "prepare" /\ next' = manifest
      \/ phase = "remove" /\ next' = Retained
  BY DEF PrepareCancelled, PrepareFails, CopyCancelled, FinalizeFails, RemoveCancelled
<1>4. next' \in Files /\ Records(next', written)
  <2>1. CASE next' = next  BY <2>1 DEF TypeOK
  <2>2. CASE phase = "prepare" /\ next' = manifest
    BY <2>2 DEF TypeOK, NoneForgotten
  <2>3. CASE phase = "remove" /\ next' = Retained
    BY <2>3, RetainedRecords
  <2> QED  BY <1>3, <2>1, <2>2, <2>3
<1>5. /\ index' \in [Lists -> SUBSET Paths]
      /\ \A l \in Lists : \/ index'[l] = index[l]
                          \/ layout = "tree" /\ index'[l] \subseteq Whole(device)
  <2>1. CASE FinalizeFails  BY <2>1, IndexMoves DEF FinalizeFails
  <2>2. CASE index' = index  BY <2>2 DEF TypeOK
  <2> QED
    BY <2>1, <2>2 DEF PrepareCancelled, PrepareFails, CopyCancelled, RemoveCancelled
<1>6. faults' \in 0 .. MaxFaults
  BY DeviceAssumption
  DEF PrepareCancelled, PrepareFails, CopyCancelled, FinalizeFails, RemoveCancelled, Fault,
      TypeOK, bounds
<1>7. TypeOK'  BY <1>1, <1>2, <1>4, <1>5, <1>6 DEF TypeOK, Files
<1>8. Records(manifest, {})' /\ Records(next, written)'
  BY <1>2, <1>4 DEF Records
<1>9. /\ RoomToPlace' /\ SourceKept' /\ PresentWritten' /\ NoneForgotten' /\ StaleOrGone'
      /\ IndexPlaced' /\ CompletedMatches'
  BY <1>1, <1>2 DEF RoomToPlace, SourceKept, PresentWritten, NoneForgotten, StaleOrGone,
                    IndexPlaced, CompletedMatches, Working
<1>10. NoIndex'  BY <1>2, <1>5 DEF NoIndex
<1>11. IndexStep  BY <1>2, <1>5 DEF IndexStep
<1> QED  BY <1>7, <1>8, <1>9, <1>10, <1>11

\* The run completes: nothing is left to write, or to remove if that was confirmed.
LEMMA FinishKeeps ==
    ASSUME Inductive, Finish
    PROVE  Inductive' /\ IndexStep
<1> USE DEF Inductive
<1>1. /\ phase = "remove" /\ phase' = "finished" /\ next' = Retained
      /\ removeStale => stale = {}
      /\ outcome' = IF outcome = "partial" THEN "partial" ELSE "complete"
      /\ UNCHANGED <<layout, transport, content, title, selection, manifest, device, index,
                     plan, previous, removeStale, todo, stale, present, written, touched,
                     cancel, unsaved, interrupted, edits, runs, cancels, faults>>
  BY DEF Finish, End, config, library, history, bounds
<1>2. Retained \in Files /\ Records(Retained, written)  BY <1>1, RetainedRecords
<1>3. TypeOK'  BY <1>1, <1>2 DEF TypeOK, Files
<1>4. Records(manifest, {})' /\ Records(next, written)'
  BY <1>1, <1>2 DEF Records
<1>5. ASSUME outcome # "partial"
      PROVE  /\ present = DOMAIN plan
             /\ \A p \in DOMAIN plan :
                   /\ next'[p] = plan[p] /\ plan[p] \in Copies
                   /\ p \in written \/ p \notin unsaved => Delivered(p)
  <2>1. present = DOMAIN plan  BY <1>1, <1>5 DEF NoneForgotten, Working, TypeOK
  <2>2. SUFFICES ASSUME NEW p \in DOMAIN plan
                 PROVE  /\ next'[p] = plan[p] /\ plan[p] \in Copies
                        /\ p \in written \/ p \notin unsaved => Delivered(p)
    BY <2>1
  <2>3. p \in Paths /\ p \notin stale /\ plan[p] \in Copies  BY DEF TypeOK
  <2>4. next[p] = plan[p] /\ device[p] \in Copies
    BY <1>1, <2>1 DEF PresentWritten, Working
  <2>5. next'[p] = plan[p]  BY <1>1, <2>3, <2>4 DEF Retained
  <2>6. p \in written \/ p \notin unsaved => device[p].content = plan[p].content
    BY <2>3, <2>4, NoFileAssumption DEF Records
  <2> QED  BY <2>3, <2>4, <2>5, <2>6 DEF Delivered
<1>6. ASSUME outcome # "partial", layout = "tree", NEW l \in DOMAIN selection
      PROVE  index[l] = PlacedFor(l)
  BY <1>1, <1>5, <1>6 DEF IndexPlaced, WrittenIndex, PlacedFor
<1>7. ASSUME removeStale, NEW p \in Listed(previous), device[p] # NoFile
      PROVE  p \in DOMAIN plan
  BY <1>1, <1>7 DEF StaleOrGone, Working
<1>8. CompletedMatches'
  BY <1>1, <1>5, <1>6, <1>7 DEF CompletedMatches, Listed, PlacedFor, Delivered
<1>9. /\ RoomToPlace' /\ SourceKept' /\ PresentWritten' /\ NoneForgotten' /\ StaleOrGone'
      /\ IndexPlaced' /\ NoIndex' /\ IndexStep
  BY <1>1 DEF RoomToPlace, SourceKept, PresentWritten, NoneForgotten, StaleOrGone,
              IndexPlaced, NoIndex, Working, IndexStep
<1> QED  BY <1>3, <1>4, <1>8, <1>9

\* The run is over for the runtime: its manifest is saved, with what the run has
\* written, or the old one stays.
LEMMA AcknowledgeKeeps ==
    ASSUME Inductive, ApplyCompletion \/ SaveFails \/ Crash
    PROVE  Inductive' /\ IndexStep
<1> USE DEF Inductive
<1>1. /\ phase' = "idle" /\ cancel' = FALSE /\ plan' = NoPlan /\ previous' = Nothing
      /\ removeStale' = FALSE /\ todo' = {} /\ stale' = {} /\ present' = {}
      /\ written' = {} /\ touched' = {} /\ next' = Nothing /\ outcome' = "none"
  BY DEF ApplyCompletion, SaveFails, Crash, Acknowledge
<1>2. UNCHANGED <<layout, transport, content, title, selection, edits, runs, cancels>>
  BY DEF ApplyCompletion, SaveFails, Crash, config, library, bounds
<1>3. /\ \/ manifest' = manifest /\ unsaved' = unsaved
         \/ manifest' = next /\ unsaved' = unsaved \ written /\ device' = device
      /\ interrupted' \in BOOLEAN
  BY DEF ApplyCompletion, SaveFails, Crash, TypeOK
<1>4. faults' \in 0 .. MaxFaults
  BY DeviceAssumption DEF ApplyCompletion, SaveFails, Crash, Fault, TypeOK, bounds
<1>5. \/ device' = device
      \/ phase = "copy" /\ \E p \in todo : device' = [device EXCEPT ![p] = Partial]
  BY DEF ApplyCompletion, SaveFails, Crash
<1>6. /\ device' \in [Paths -> Copies \union {NoFile, Partial}]
      /\ \A p \in Paths : device'[p] \in Copies => device'[p] = device[p]
  BY <1>5, NoFileAssumption DEF TypeOK
<1>7. DOMAIN plan' = {} /\ next' \in Files /\ previous' \in Files /\ manifest' \in Files
  BY <1>1, <1>3 DEF NoPlan, Nothing, Files, TypeOK
<1>8. /\ index' \in [Lists -> SUBSET Paths]
      /\ \A l \in Lists : \/ index'[l] = index[l]
                          \/ layout = "tree" /\ index'[l] \subseteq Whole(device)
      /\ phase = "remove" => index' = index /\ device' = device
  <2>1. CASE index' = index  BY <1>5, <2>1 DEF TypeOK
  <2>2. CASE phase = "finalize" /\ \E k \in DOMAIN selection : index' \in IndexCutAt(k)
    BY <2>2, IndexMoves
  <2> QED  BY <2>1, <2>2 DEF ApplyCompletion, SaveFails, Crash
<1>9. TypeOK'
  <2>1. DOMAIN plan' \subseteq Paths /\ (\A p \in DOMAIN plan' : plan'[p] \in Copies)
    BY <1>7
  <2>2. stale' \subseteq Paths \ DOMAIN plan' /\ todo' \subseteq DOMAIN plan'
        /\ present' \subseteq DOMAIN plan' /\ written' \subseteq present'
        /\ touched' \subseteq Tracks
    BY <1>1
  <2>3. /\ content' \in [Tracks -> Contents] /\ title' \in [Tracks -> Titles]
        /\ layout' \in Layouts /\ transport' \in Transports /\ selection' \in Selectable
        /\ unsaved' \subseteq Paths
    BY <1>2, <1>3 DEF TypeOK
  <2>4. /\ edits' \in 0 .. MaxEdits /\ runs' \in 0 .. MaxRuns /\ cancels' \in 0 .. MaxCancels
    BY <1>2 DEF TypeOK
  <2>5. removeStale' \in BOOLEAN /\ cancel' \in BOOLEAN
    BY <1>1
  <2> QED
    BY <1>1, <1>3, <1>4, <1>6, <1>7, <1>8, <2>1, <2>2, <2>3, <2>4, <2>5, Zenon DEF TypeOK
<1>10. Records(manifest, {})'
  <2>1. CASE manifest' = manifest /\ unsaved' = unsaved  BY <1>6, <2>1 DEF Records
  <2>2. CASE manifest' = next /\ unsaved' = unsaved \ written /\ device' = device
    BY <2>2 DEF Records
  <2> QED  BY <1>3, <2>1, <2>2
<1>11. Records(next, written)'  BY <1>1 DEF Records, Nothing
<1>12. /\ RoomToPlace' /\ SourceKept' /\ PresentWritten' /\ NoneForgotten' /\ StaleOrGone'
       /\ IndexPlaced' /\ CompletedMatches'
  BY <1>1 DEF RoomToPlace, SourceKept, PresentWritten, NoneForgotten, StaleOrGone,
              IndexPlaced, CompletedMatches, Working
<1>13. NoIndex'  BY <1>2, <1>8 DEF NoIndex
<1>14. IndexStep  BY <1>8, NoFileAssumption DEF IndexStep
<1> QED  BY <1>9, <1>10, <1>11, <1>12, <1>13, <1>14

\* A step that changes nothing.
LEMMA StutterKeeps ==
    ASSUME Inductive, UNCHANGED vars
    PROVE  Inductive' /\ IndexStep
<1> USE DEF Inductive
<1>1. UNCHANGED <<layout, transport, content, title, selection, manifest, device, index,
                  phase, plan, previous, removeStale, todo, stale, present, written, touched,
                  next, outcome, cancel, unsaved, interrupted, edits, runs, cancels, faults>>
  BY DEF vars, config, library, run, history, bounds
<1>2. TypeOK'  BY <1>1 DEF TypeOK, Files
<1>3. Records(manifest, {})' /\ Records(next, written)'  BY <1>1 DEF Records
<1>4. RoomToPlace'  BY <1>1, SamePlacement DEF RoomToPlace
<1>5. /\ SourceKept' /\ PresentWritten' /\ NoneForgotten' /\ StaleOrGone' /\ IndexPlaced'
      /\ NoIndex' /\ CompletedMatches' /\ IndexStep
  BY <1>1 DEF SourceKept, PresentWritten, NoneForgotten, StaleOrGone, IndexPlaced, NoIndex,
              CompletedMatches, Working, Listed, WrittenIndex, PlacedFor, Delivered, IndexStep
<1> QED  BY <1>2, <1>3, <1>4, <1>5

\* Every step keeps the invariant, and playlist files as IndexNamesFiles asks.
LEMMA StepKeeps ==
    ASSUME Inductive, [Next]_vars
    PROVE  Inductive' /\ IndexStep
<1>1. CASE Run
  <2>1. ASSUME NEW p \in Paths, Copy(p) \/ CopyFails(p) \/ RemoveFile(p) \/ RemoveFails(p)
        PROVE  Inductive' /\ IndexStep
    BY <2>1, CopyKeeps, CopyFailsKeeps, RemoveFileKeeps, RemoveFailsKeeps
  <2> QED
    BY <1>1, <2>1, PrepareKeeps, CopyDoneKeeps, FinalizeKeeps, EndKeeps, FinishKeeps DEF Run
<1>2. CASE User
  BY <1>2, ChangeFileKeeps, IdleKeeps, CancelKeeps DEF User
<1>3. CASE ApplyCompletion \/ SaveFails \/ Crash  BY <1>3, AcknowledgeKeeps
<1>4. CASE UNCHANGED vars  BY <1>4, StutterKeeps
<1> QED  BY <1>1, <1>2, <1>3, <1>4 DEF Next

-----------------------------------------------------------------------------
(* Numbers in a folder, and what the manifest tracks while every run has   *)
(* made all its copies.                                                    *)

\* In a folder, what files lists of a track has one number, its own.
Numbered(files) ==
    \A p, q \in Listed(files) : p.folder = q.folder =>
        (files[p].track = files[q].track <=> p.number = q.number)

\* What the run places over what the saved manifest lists.
Merged == [p \in Paths |-> IF p \in DOMAIN plan THEN plan[p] ELSE manifest[p]]

\* Numbers are kept whatever happens to runs: interrupted ones only lose entries.
NumbersKept ==
    layout = "folder" =>
        /\ Numbered(manifest)
        /\ Working => Numbered(Merged)
        /\ phase = "finished" /\ outcome # "failed" => Numbered(next)

\* The tracks of the files on the device are those that files lists.
Owned(files) == layout = "folder" => \A p \in Whole(device) : device[p].track = files[p].track

\* The device has nothing but what the manifest lists, what the run places or
\* may still remove, and then what the run's own manifest lists.
Tracked ==
    /\ phase \in {"idle", "prepare"} =>
          Listed(device) \subseteq Listed(manifest) /\ Owned(manifest)
    /\ Working => Listed(device) \subseteq DOMAIN plan \union stale /\ Owned(Merged)
    /\ phase = "finished" /\ outcome # "failed" /\ present = DOMAIN plan =>
          Listed(device) \subseteq Listed(next) /\ Owned(next)

Tracking == ~interrupted => Tracked

\* A run may still remove only what the manifest lists.
StaleListed == Working => stale \subseteq Listed(manifest)

\* A finite set of numbers that is not empty has a greatest one: a least
\* counterexample would have one left after the loss of any of its elements.
LEMMA FiniteMax ==
    ASSUME NEW S \in SUBSET Nat, IsFiniteSet(S), S # {}
    PROVE  Max(S) \in S /\ \A y \in S : Max(S) >= y
  <1> DEFINE Bounded(T) == \E x \in T : \A y \in T : x >= y
             Bad == {T \in SUBSET Nat : IsFiniteSet(T) /\ T # {} /\ ~Bounded(T)}
  <1>1. SUFFICES Bounded(S)
    BY DEF Max
  <1>2. SUFFICES ASSUME S \in Bad PROVE FALSE
    OBVIOUS
  <1>3. PICK T \in Bad : \A U \in Bad : <<U, T>> \notin StrictSubsetOrdering(Nat)
    <2>1. Bad \subseteq FiniteSubsetsOf(Nat) /\ Bad # {}
      BY <1>2 DEF FiniteSubsetsOf
    <2>2. IsWellFoundedOn(StrictSubsetOrdering(Nat), FiniteSubsetsOf(Nat))
      BY FS_StrictSubsetOrderingWellFounded
    <2> HIDE DEF Bad
    <2> QED
      BY <2>1, <2>2, WFMin
  <1>4. PICK x \in T : TRUE
    OBVIOUS
  <1>5. T \ {x} \notin Bad
    BY <1>3, <1>4 DEF StrictSubsetOrdering
  <1>6. IsFiniteSet(T \ {x})
    BY FS_RemoveElement
  <1>7. CASE T \ {x} = {}
    BY <1>4, <1>7
  <1>8. CASE \E m \in T \ {x} : \A y \in T \ {x} : m >= y
    BY <1>4, <1>8
  <1> QED
    BY <1>5, <1>6, <1>7, <1>8

\* A set of numbers of the folder's files has a greatest one, if it is not empty.
LEMMA GreatestNumber ==
    ASSUME NEW S \in SUBSET (0 .. MaxPosition), S # {}
    PROVE  Max(S) \in S /\ \A n \in S : Max(S) >= n
<1>1. IsFiniteSet(0 .. MaxPosition)  BY FS_Interval, DeviceAssumption
<1>2. IsFiniteSet(S)  BY <1>1, FS_Subset
<1>3. S \in SUBSET Nat  BY DeviceAssumption
<1> QED  BY <1>2, <1>3, FiniteMax

\* The numbers of files are small, and only files of the tree have none.
LEMMA PathNumber ==
    ASSUME NEW p \in Paths
    PROVE  p.number \in 0 .. MaxPosition
  BY DeviceAssumption DEF Paths

\* The folder's highest number is one, and no file of the folder has a higher one.
LEMMA HighestNumber ==
    ASSUME NEW l
    PROVE  /\ Highest(l) \in Nat
           /\ \A q \in Listed(manifest) : q.folder = l => q.number <= Highest(l)
<1> DEFINE numbers == {0} \union {p.number : p \in {q \in Listed(manifest) : q.folder = l}}
<1>1. \A q \in Listed(manifest) : q.number \in 0 .. MaxPosition
  BY PathNumber DEF Listed
<1>2. 0 \in 0 .. MaxPosition  BY DeviceAssumption
<1>3. numbers \in SUBSET (0 .. MaxPosition) /\ numbers # {}  BY <1>1, <1>2
<1>4. \A q \in Listed(manifest) : q.folder = l => q.number \in numbers
  OBVIOUS
<1>5. Highest(l) = Max(numbers)  BY DEF Highest
<1> HIDE DEF numbers
<1>6. Max(numbers) \in numbers /\ \A n \in numbers : Max(numbers) >= n
  BY <1>3, GreatestNumber
<1>7. \A n \in numbers : n \in Nat  BY <1>3, DeviceAssumption
<1> QED  BY <1>4, <1>5, <1>6, <1>7

\* A new track's number: it is above the highest, and grows along the list.
LEMMA FreshNumber ==
    ASSUME TypeOK, NEW e \in Placements, Prior(e[1], TrackAt(e)) = {}
    PROVE  /\ Number(e) \in Nat /\ Number(e) > Highest(e[1])
           /\ \A f \in Placements :
                 f[1] = e[1] /\ f[2] > e[2] /\ Prior(f[1], TrackAt(f)) = {}
                   => Number(f) # Number(e)
<1> DEFINE fresh(g) == {j \in 1 .. g[2] : Prior(g[1], selection[g[1]][j]) = {}}
<1>1. ASSUME NEW g \in Placements, Prior(g[1], TrackAt(g)) = {}
      PROVE  /\ g[2] \in Nat /\ 1 <= g[2]
             /\ Number(g) = Highest(g[1]) + Cardinality(fresh(g))
             /\ IsFiniteSet(fresh(g)) /\ g[2] \in fresh(g)
             /\ Cardinality(fresh(g)) \in Nat /\ Cardinality(fresh(g)) # 0
  <2>1. g[2] \in 1 .. Cardinality(Tracks)  BY PlacedTrack DEF Entries
  <2>2. g[2] \in Nat /\ 1 <= g[2]
    BY <2>1, DeviceAssumption, FS_CardinalityType
  <2>3. IsFiniteSet(1 .. g[2])  BY <2>2, FS_Interval
  <2>4. g[2] \in fresh(g) /\ fresh(g) \subseteq 1 .. g[2]  BY <1>1, <2>2 DEF TrackAt
  <2>5. IsFiniteSet(fresh(g))  BY <2>3, <2>4, FS_Subset
  <2>6. Cardinality(fresh(g)) \in Nat /\ Cardinality(fresh(g)) # 0
    BY <2>4, <2>5, FS_CardinalityType, FS_EmptySet
  <2>7. Number(g) = Highest(g[1]) + Cardinality(fresh(g))  BY <1>1 DEF Number
  <2> QED  BY <2>2, <2>4, <2>5, <2>6, <2>7
<1>2. ASSUME NEW f \in Placements, f[1] = e[1], f[2] > e[2], Prior(f[1], TrackAt(f)) = {}
      PROVE  Number(f) # Number(e)
  <2>1. fresh(e) \subseteq fresh(f) /\ f[2] \notin fresh(e)
    <3>1. e[2] \in Nat /\ f[2] \in Nat  BY <1>1, <1>2
    <3>2. 1 .. e[2] \subseteq 1 .. f[2] /\ f[2] \notin 1 .. e[2]  BY <1>2, <3>1
    <3> QED  BY <1>2, <3>2
  <2>2. f[2] \in fresh(f) /\ IsFiniteSet(fresh(f))  BY <1>1, <1>2
  <2>3. Cardinality(fresh(e)) # Cardinality(fresh(f))
    BY <2>1, <2>2, FS_Subset
  <2>4. Number(e) = Highest(e[1]) + Cardinality(fresh(e)) /\ Cardinality(fresh(e)) \in Nat
    BY <1>1
  <2>5. Number(f) = Highest(e[1]) + Cardinality(fresh(f)) /\ Cardinality(fresh(f)) \in Nat
    BY <1>1, <1>2
  <2> HIDE DEF fresh
  <2> QED  BY <2>3, <2>4, <2>5, HighestNumber
<1>3. Number(e) \in Nat /\ Number(e) > Highest(e[1])
  <2>1. /\ Number(e) = Highest(e[1]) + Cardinality(fresh(e))
        /\ Cardinality(fresh(e)) \in Nat /\ Cardinality(fresh(e)) # 0
    BY <1>1
  <2> HIDE DEF fresh
  <2> QED  BY <2>1, HighestNumber
<1> QED  BY <1>2, <1>3

\* A track that is placed has the number of its files in the folder, and no other
\* track's (folder_placements).
LEMMA NumberKnown ==
    ASSUME TypeOK, Numbered(manifest), NEW e \in Placements, NEW q \in Listed(manifest),
           q.folder = e[1]
    PROVE  manifest[q].track = TrackAt(e) <=> q.number = Number(e)
<1> DEFINE known == Prior(e[1], TrackAt(e))
<1>1. CASE known # {}
  <2>1. \A r \in Listed(manifest) : r.number \in 0 .. MaxPosition
    BY PathNumber DEF Listed
  <2>2. known \in SUBSET (0 .. MaxPosition)  BY <2>1 DEF Prior
  <2>3. Number(e) = Max(known)  BY <1>1 DEF Number
  <2>4. Number(e) \in known  BY <1>1, <2>2, <2>3, GreatestNumber
  <2>5. PICK r \in Listed(manifest) :
            r.folder = e[1] /\ manifest[r].track = TrackAt(e) /\ r.number = Number(e)
    BY <2>4 DEF Prior
  <2> QED  BY <2>5 DEF Numbered
<1>2. CASE known = {}
  <2>1. manifest[q].track # TrackAt(e)  BY <1>2 DEF Prior
  <2>2. Number(e) \in Nat /\ Number(e) > Highest(e[1])  BY <1>2, FreshNumber
  <2>3. q.number <= Highest(e[1]) /\ Highest(e[1]) \in Nat  BY HighestNumber
  <2>4. q.number \in Nat  BY PathNumber, DeviceAssumption DEF Listed
  <2> QED  BY <2>1, <2>2, <2>3, <2>4
<1> QED  BY <1>1, <1>2

\* Two tracks of a list are placed under two numbers.
LEMMA NumbersApart ==
    ASSUME TypeOK, Numbered(manifest), NEW e \in Placements, NEW f \in Placements,
           e[1] = f[1]
    PROVE  TrackAt(e) = TrackAt(f) <=> Number(e) = Number(f)
<1>1. /\ e[2] \in DOMAIN selection[e[1]] /\ f[2] \in DOMAIN selection[e[1]]
      /\ selection[e[1]] \in Playlists
      /\ e = <<e[1], e[2]>> /\ f = <<f[1], f[2]>> /\ e[2] \in Nat /\ f[2] \in Nat
  <2>1. e \in Entries /\ f \in Entries  BY PlacedTrack
  <2>2. /\ e \in Lists \X (1 .. Cardinality(Tracks))
        /\ f \in Lists \X (1 .. Cardinality(Tracks))
    BY <2>1 DEF Entries
  <2>3. Cardinality(Tracks) \in Nat  BY DeviceAssumption, FS_CardinalityType
  <2>4. selection[e[1]] \in Playlists  BY PlacedTrack, Ticked
  <2> QED  BY <2>2, <2>3, <2>4, PlacedTrack
<1>2. ASSUME TrackAt(e) = TrackAt(f) PROVE Number(e) = Number(f)
  <2>1. e[2] = f[2]  BY <1>1, <1>2 DEF TrackAt, Playlists
  <2>2. e = f  BY <1>1, <2>1
  <2> QED  BY <2>2
<1>3. ASSUME TrackAt(e) # TrackAt(f), Number(e) = Number(f) PROVE FALSE
  <2>1. ASSUME NEW g \in Placements, NEW h \in Placements, g[1] = h[1],
               TrackAt(g) # TrackAt(h), Number(g) = Number(h)
        PROVE  Prior(g[1], TrackAt(g)) = {}
    <3>1. SUFFICES ASSUME NEW n \in Prior(g[1], TrackAt(g)) PROVE FALSE
      OBVIOUS
    <3>2. PICK r \in Listed(manifest) : r.folder = g[1] /\ manifest[r].track = TrackAt(g)
      BY <3>1 DEF Prior
    <3>3. r.number = Number(g)  BY <3>2, NumberKnown
    <3>4. manifest[r].track = TrackAt(h)  BY <2>1, <3>2, <3>3, NumberKnown
    <3> QED  BY <2>1, <3>2, <3>4
  <2>2. Prior(e[1], TrackAt(e)) = {} /\ Prior(f[1], TrackAt(f)) = {}
    BY <1>3, <2>1
  <2>3. e[2] # f[2]  BY <1>1, <1>3 DEF TrackAt
  <2>4. CASE f[2] > e[2]  BY <1>3, <2>2, <2>4, FreshNumber
  <2>5. CASE e[2] > f[2]  BY <1>3, <2>2, <2>5, FreshNumber
  <2> QED  BY <1>1, <2>3, <2>4, <2>5
<1> QED  BY <1>2, <1>3

\* What is left of numbered files after some are dropped is numbered.
LEMMA SubNumbered ==
    ASSUME NEW files, NEW fewer, Numbered(files),
           \A p \in Listed(fewer) : files[p] = fewer[p]
    PROVE  Numbered(fewer)
  BY DEF Numbered, Listed

\* A run is planned: its placements and what the manifest lists have one number
\* for each track of a folder, and a path the manifest lists stays its track's.
LEMMA PrepareNumbers ==
    ASSUME Inductive, layout = "folder", Numbered(manifest), Prepare
    PROVE  /\ Numbered(Merged)'
           /\ \A p \in DOMAIN plan' :
                 manifest[p] # NoFile => plan'[p].track = manifest[p].track
<1>1. TypeOK /\ manifest' = manifest /\ plan' = [p \in Placed |-> CopyOf(p)]
  BY DEF Inductive, Prepare
<1>2. Placed \subseteq Paths
  BY DEF Inductive, RoomToPlace, Prepare
<1>3. ASSUME NEW p \in Placed
      PROVE  \E e \in Placements : /\ e[1] = p.folder /\ Number(e) = p.number
                                   /\ TrackAt(e) = plan'[p].track
                                   /\ plan'[p] \in Copies
  <2>1. PICK e \in Placements :
            /\ PathOf(e) = p
            /\ CopyOf(p) = [track |-> TrackAt(e), content |-> content[TrackAt(e)]]
            /\ CopyOf(p) \in Copies
    BY <1>1, CopyOfPlacement
  <2>2. e[1] = p.folder /\ Number(e) = p.number  BY <2>1 DEF PathOf
  <2> QED  BY <1>1, <2>1, <2>2
<1>4. ASSUME NEW p \in Placed, NEW q \in Listed(manifest), p.folder = q.folder
      PROVE  plan'[p].track = manifest[q].track <=> p.number = q.number
  <2>1. PICK e \in Placements : /\ e[1] = p.folder /\ Number(e) = p.number
                                /\ TrackAt(e) = plan'[p].track
    BY <1>3
  <2> QED  BY <1>1, <1>4, <2>1, NumberKnown
<1>5. ASSUME NEW p \in Placed, NEW q \in Placed, p.folder = q.folder
      PROVE  plan'[p].track = plan'[q].track <=> p.number = q.number
  <2>1. PICK e \in Placements : /\ e[1] = p.folder /\ Number(e) = p.number
                                /\ TrackAt(e) = plan'[p].track
    BY <1>3
  <2>2. PICK f \in Placements : /\ f[1] = q.folder /\ Number(f) = q.number
                                /\ TrackAt(f) = plan'[q].track
    BY <1>3
  <2> QED  BY <1>1, <1>5, <2>1, <2>2, NumbersApart
<1> DEFINE merged == [p \in Paths |-> IF p \in Placed THEN plan'[p] ELSE manifest[p]]
<1>6. Merged' = merged  BY <1>1 DEF Merged
<1>7. Numbered(merged)
  <2> SUFFICES ASSUME NEW p \in Listed(merged), NEW q \in Listed(merged),
                      p.folder = q.folder
               PROVE  merged[p].track = merged[q].track <=> p.number = q.number
    BY DEF Numbered
  <2>1. p \in Paths /\ q \in Paths /\ merged[p] # NoFile /\ merged[q] # NoFile
    BY DEF Listed
  <2>2. merged[p] = IF p \in Placed THEN plan'[p] ELSE manifest[p]  BY <2>1
  <2>3. merged[q] = IF q \in Placed THEN plan'[q] ELSE manifest[q]  BY <2>1
  <2> HIDE DEF merged
  <2>4. p \notin Placed => p \in Listed(manifest)  BY <2>1, <2>2 DEF Listed
  <2>5. q \notin Placed => q \in Listed(manifest)  BY <2>1, <2>3 DEF Listed
  <2>6. CASE p \in Placed /\ q \in Placed  BY <1>5, <2>2, <2>3, <2>6
  <2>7. CASE p \in Placed /\ q \notin Placed  BY <1>4, <2>2, <2>3, <2>5, <2>7
  <2>8. CASE p \notin Placed /\ q \in Placed  BY <1>4, <2>2, <2>3, <2>4, <2>8
  <2>9. CASE p \notin Placed /\ q \notin Placed
    BY <2>2, <2>3, <2>4, <2>5, <2>9 DEF Numbered
  <2> QED  BY <2>6, <2>7, <2>8, <2>9
<1>8. \A p \in DOMAIN plan' : manifest[p] # NoFile => plan'[p].track = manifest[p].track
  BY <1>1, <1>2, <1>4 DEF Listed
<1> QED  BY <1>6, <1>7, <1>8

\* Removals are planned from the manifest, and the run only makes them fewer.
LEMMA StaleStep ==
    ASSUME StaleListed, [Next]_vars
    PROVE  StaleListed'
<1>1. CASE Prepare
  BY <1>1 DEF Prepare, StaleListed, Removals, Listed
<1>2. ASSUME Working', ~Prepare
      PROVE  Working /\ stale' \subseteq stale /\ manifest' = manifest
  BY <1>2 DEF Working, Next, Run, User, Prepare, PrepareCancelled, PrepareFails, CopyCancelled,
              CopyDone, Finalize, FinalizeFails, RemoveCancelled, Finish, Copy, CopyFails,
              RemoveFile, RemoveFails, ChangeFile, ChangeTitle, ChangeSelection, DeleteFile,
              Start, RequestCancellation, ApplyCompletion, SaveFails, Crash, Acknowledge, End,
              vars, run
<1> QED  BY <1>1, <1>2 DEF StaleListed, Listed

\* What a run's own manifest lists when it ends early or completes is what it has
\* placed and what it leaves of the saved one (retain_unremoved_manifest_entries).
LEMMA EndMerges ==
    ASSUME Inductive, CopyCancelled \/ RemoveCancelled \/ Finish
    PROVE  /\ Working /\ \A p \in Listed(next') : Merged[p] = next'[p]
           /\ phase = "remove" => next' = Retained
<1>1. Working  BY DEF CopyCancelled, RemoveCancelled, Finish, Working
<1>2. /\ Listed(next) \subseteq present /\ present \subseteq DOMAIN plan
      /\ \A p \in present : next[p] = plan[p]
      /\ DOMAIN plan \subseteq Paths /\ stale \subseteq Paths \ DOMAIN plan
      /\ previous = manifest
  BY <1>1 DEF Inductive, PresentWritten, NoneForgotten, TypeOK
<1>3. \A p \in Listed(next) : Merged[p] = next[p]
  BY <1>2 DEF Merged
<1>4. CASE CopyCancelled
  <2>1. next' = next /\ phase = "copy"  BY <1>4 DEF CopyCancelled
  <2> QED  BY <1>1, <1>3, <2>1
<1>5. CASE RemoveCancelled \/ Finish
  <2>1. next' = Retained  BY <1>5 DEF RemoveCancelled, Finish
  <2>2. ASSUME NEW p \in Listed(Retained)
        PROVE  Merged[p] = Retained[p]
    <3>1. p \in Paths /\ Retained[p] = IF p \in stale THEN manifest[p] ELSE next[p]
      BY <1>2 DEF Listed, Retained
    <3>2. CASE p \in stale  BY <1>2, <3>1, <3>2 DEF Merged
    <3>3. CASE p \notin stale
      <4>1. p \in Listed(next)  BY <2>2, <3>1, <3>3 DEF Listed
      <4> QED  BY <1>3, <3>1, <3>3, <4>1
    <3> QED  BY <3>2, <3>3
  <2> QED  BY <1>1, <2>1, <2>2
<1> QED  BY <1>4, <1>5

\* The manifest a run returns gives a folder's tracks the numbers they had.
LEMMA EndNumbers ==
    ASSUME Inductive, NumbersKept, layout = "folder",
           PrepareCancelled \/ CopyCancelled \/ RemoveCancelled \/ Finish
    PROVE  Numbered(next')
<1>1. CASE PrepareCancelled
  BY <1>1 DEF PrepareCancelled, NumbersKept
<1>2. CASE CopyCancelled \/ RemoveCancelled \/ Finish
  <2>1. Working /\ \A p \in Listed(next') : Merged[p] = next'[p]
    BY <1>2, EndMerges
  <2>2. Numbered(Merged)  BY <2>1 DEF NumbersKept
  <2> QED  BY <2>1, <2>2, SubNumbered
<1> QED  BY <1>1, <1>2

\* No step changes the number a track has in a folder.
LEMMA NumbersStep ==
    ASSUME Inductive, NumbersKept, [Next]_vars
    PROVE  NumbersKept'
<1>1. layout' = layout
  BY DEF Next, Run, User, Prepare, PrepareCancelled, PrepareFails, CopyCancelled,
         CopyDone, Finalize, FinalizeFails, RemoveCancelled, Finish, Copy, CopyFails,
         RemoveFile, RemoveFails, ChangeFile, ChangeTitle, ChangeSelection, DeleteFile,
         Start, RequestCancellation, ApplyCompletion, SaveFails, Crash, vars, config
<1>2. SUFFICES ASSUME layout = "folder"
               PROVE  /\ Numbered(manifest')
                      /\ Working' => Numbered(Merged)'
                      /\ phase' = "finished" /\ outcome' # "failed" => Numbered(next')
  BY <1>1 DEF NumbersKept, Numbered, Listed
<1>3. CASE Prepare
  BY <1>2, <1>3, PrepareNumbers DEF Prepare, Working, NumbersKept
<1>4. CASE PrepareCancelled \/ CopyCancelled \/ RemoveCancelled \/ Finish
  <2>1. Numbered(next')  BY <1>2, <1>4, EndNumbers
  <2>2. manifest' = manifest /\ phase' = "finished"
    BY <1>4 DEF PrepareCancelled, CopyCancelled, RemoveCancelled, Finish, End
  <2> QED  BY <1>2, <2>1, <2>2 DEF NumbersKept, Working
<1>5. CASE ApplyCompletion \/ SaveFails \/ Crash
  <2>1. phase' = "idle"
    BY <1>5 DEF ApplyCompletion, SaveFails, Crash, Acknowledge
  <2>2. \/ manifest' = manifest
        \/ phase = "finished" /\ outcome # "failed" /\ manifest' = next
    BY <1>5 DEF ApplyCompletion, SaveFails, Crash
  <2> QED  BY <1>2, <2>1, <2>2 DEF NumbersKept, Working
<1>6. CASE UNCHANGED vars \/ User \/ CopyDone \/ Finalize
             \/ \E p \in Paths : Copy(p) \/ CopyFails(p) \/ RemoveFile(p) \/ RemoveFails(p)
  <2>1. manifest' = manifest /\ plan' = plan
    BY <1>6 DEF User, CopyDone, Finalize, Copy, CopyFails, RemoveFile, RemoveFails,
                ChangeFile, ChangeTitle, ChangeSelection, DeleteFile, Start,
                RequestCancellation, vars, run
  <2>2. Working' => Working
    BY <1>6 DEF User, CopyDone, Finalize, Copy, CopyFails, RemoveFile, RemoveFails,
                ChangeFile, ChangeTitle, ChangeSelection, DeleteFile, Start,
                RequestCancellation, vars, Working
  <2>3. phase' = "finished" /\ outcome' # "failed" =>
           phase = "finished" /\ outcome # "failed" /\ next' = next
    BY <1>6 DEF User, CopyDone, Finalize, Copy, CopyFails, RemoveFile, RemoveFails, End,
                ChangeFile, ChangeTitle, ChangeSelection, DeleteFile, Start,
                RequestCancellation, vars, run
  <2>4. Merged' = Merged  BY <2>1 DEF Merged
  <2> QED  BY <1>2, <2>1, <2>2, <2>3, <2>4 DEF NumbersKept, Numbered, Listed
<1>7. CASE PrepareFails \/ FinalizeFails
  <2>1. manifest' = manifest /\ phase' = "finished" /\ outcome' = "failed"
    BY <1>7 DEF PrepareFails, FinalizeFails, End
  <2> QED  BY <1>2, <2>1 DEF NumbersKept, Working
<1> QED  BY <1>3, <1>4, <1>5, <1>6, <1>7 DEF Next, Run

-----------------------------------------------------------------------------
\* A run is planned: what is on the device is placed again, at its track's path,
\* or may be removed.
LEMMA PrepareTracks ==
    ASSUME Inductive, NumbersKept, Tracked, Prepare
    PROVE  Tracked'
<1>1. /\ plan' = [p \in Placed |-> CopyOf(p)] /\ stale' = Removals
      /\ phase = "prepare" /\ phase' = "copy"
      /\ layout' = layout /\ device' = device /\ manifest' = manifest
  BY DEF Prepare, config
<1>2. Listed(device) \subseteq Listed(manifest) /\ Owned(manifest)
  BY <1>1 DEF Tracked
<1>3. DOMAIN plan' = Placed /\ stale' = Listed(manifest) \ Placed
  BY <1>1 DEF Removals
<1>4. Listed(device') \subseteq DOMAIN plan' \union stale'  BY <1>1, <1>2, <1>3
<1>5. Owned(Merged)'
  <2> SUFFICES ASSUME layout = "folder", NEW p \in Whole(device)
               PROVE  device[p].track = Merged'[p].track
    BY <1>1 DEF Owned, Whole
  <2>1. p \in Paths /\ device[p].track = manifest[p].track /\ manifest[p] # NoFile
    BY <1>2, NoFileAssumption DEF Owned, Whole, Listed
  <2>2. p \in DOMAIN plan' => plan'[p].track = manifest[p].track
    BY <2>1, PrepareNumbers DEF NumbersKept
  <2>3. Merged'[p] = IF p \in DOMAIN plan' THEN plan'[p] ELSE manifest[p]
    BY <1>1, <2>1 DEF Merged
  <2> QED  BY <2>1, <2>2, <2>3
<1> QED  BY <1>1, <1>4, <1>5 DEF Tracked, Working, Listed

\* The run writes, leaves out or removes only what it places or may remove.
LEMMA WorkTracks ==
    ASSUME Inductive, Tracked, NEW p \in Paths, Copy(p) \/ CopyFails(p) \/ RemoveFile(p)
    PROVE  Tracked'
<1>1. /\ Working /\ phase' # "idle" /\ phase' # "prepare"
      /\ UNCHANGED <<layout, plan, manifest>>
      /\ phase' = "finished" => outcome' = "failed"
  BY DEF Copy, CopyFails, RemoveFile, Working, End, config
<1>2. Listed(device) \subseteq DOMAIN plan \union stale /\ Owned(Merged)
  BY <1>1 DEF Tracked
<1>3. /\ device \in [Paths -> Copies \union {NoFile, Partial}]
      /\ todo \subseteq DOMAIN plan
  BY DEF Inductive, TypeOK
<1>4. Merged' = Merged  BY <1>1 DEF Merged
<1>5. CASE Copy(p) \/ CopyFails(p)
  <2>1. p \in DOMAIN plan /\ stale' = stale
    BY <1>3, <1>5 DEF Copy, CopyFails, NextFile
  <2>2. /\ \A q \in Paths : q # p => device'[q] = device[q]
        /\ device'[p] \in {device[p], Source(p), NoFile, Partial}
    BY <1>3, <1>5 DEF Copy, CopyFails
  <2>3. Listed(device') \subseteq DOMAIN plan \union stale
    BY <1>2, <2>1, <2>2 DEF Listed
  <2>4. Source(p).track = Merged[p].track  BY <2>1 DEF Source, Merged
  <2>5. Owned(Merged)'
    BY <1>1, <1>2, <1>4, <2>2, <2>4, NoFileAssumption DEF Owned, Whole
  <2> QED  BY <1>1, <2>1, <2>3, <2>5 DEF Tracked, Listed, Working
<1>6. CASE RemoveFile(p)
  <2>1. stale' = stale \ {p} /\ device' = [device EXCEPT ![p] = NoFile]
    BY <1>6 DEF RemoveFile
  <2>2. /\ Listed(device') \subseteq Listed(device) \ {p}
        /\ \A q \in Whole(device') : q \in Whole(device) /\ device'[q] = device[q]
    BY <1>3, <2>1, NoFileAssumption DEF Listed, Whole
  <2>3. Owned(Merged)'  BY <1>1, <1>2, <1>4, <2>2 DEF Owned, Whole
  <2> QED  BY <1>1, <1>2, <2>1, <2>2, <2>3 DEF Tracked, Listed, Working
<1> QED  BY <1>5, <1>6

\* A run that made all its copies ends with a manifest that lists them and what
\* it may still remove (retain_unremoved_manifest_entries).
LEMMA EndTracks ==
    ASSUME Inductive, StaleListed, Tracked,
           PrepareCancelled \/ CopyCancelled \/ RemoveCancelled \/ Finish
    PROVE  Tracked'
<1>1. phase' = "finished" /\ UNCHANGED <<layout, device, plan, present>>
  BY DEF PrepareCancelled, CopyCancelled, RemoveCancelled, Finish, End, config
<1>2. SUFFICES ASSUME present = DOMAIN plan
               PROVE  Listed(device) \subseteq Listed(next') /\ Owned(next')
  BY <1>1 DEF Tracked, Owned, Whole, Listed, Working
<1>3. CASE PrepareCancelled
  BY <1>3 DEF PrepareCancelled, Tracked
<1>4. CASE CopyCancelled
  BY <1>2, <1>4 DEF CopyCancelled, Inductive, NoneForgotten, TypeOK
<1>5. CASE RemoveCancelled \/ Finish
  <2>1. /\ Working /\ next' = Retained
        /\ \A p \in Listed(next') : Merged[p] = next'[p]
    BY <1>5, EndMerges DEF RemoveCancelled, Finish
  <2>2. /\ Listed(device) \subseteq DOMAIN plan \union stale /\ Owned(Merged)
        /\ stale \subseteq Listed(manifest)
    BY <2>1 DEF Tracked, StaleListed
  <2>3. /\ previous = manifest
        /\ \A p \in present : p \in Paths /\ p \notin stale /\ next[p] # NoFile
    BY <2>1, NoFileAssumption DEF Inductive, TypeOK, PresentWritten, NoneForgotten
  <2>4. \A p \in DOMAIN plan \union stale : p \in Listed(Retained)
    BY <1>2, <2>2, <2>3 DEF Retained, Listed
  <2>5. Listed(device) \subseteq Listed(next')  BY <2>1, <2>2, <2>4
  <2>6. Whole(device) \subseteq Listed(device)  BY NoFileAssumption DEF Whole, Listed
  <2>7. Owned(next')  BY <2>1, <2>2, <2>5, <2>6 DEF Owned
  <2> QED  BY <2>5, <2>7
<1> QED  BY <1>3, <1>4, <1>5

\* The saved manifest is the old one only after a run that failed.
LEMMA AppliedTracks ==
    ASSUME Tracked, ApplyCompletion, ~interrupted'
    PROVE  Tracked'
<1>1. /\ phase = "finished" /\ phase' = "idle" /\ outcome # "failed" /\ present = DOMAIN plan
      /\ manifest' = next /\ device' = device /\ layout' = layout
  BY DEF ApplyCompletion, Acknowledge, config
<1> QED  BY <1>1 DEF Tracked, Owned, Whole, Listed, Working

\* Every step keeps track of the device's files while no run is interrupted.
LEMMA TrackingStep ==
    ASSUME Inductive, NumbersKept, StaleListed, Tracking, [Next]_vars
    PROVE  Tracking'
<1> SUFFICES ASSUME ~interrupted' PROVE Tracked'
  BY DEF Tracking
<1>1. CASE Run
  <2>1. Tracked
    BY <1>1 DEF Tracking, Run, Prepare, PrepareCancelled, PrepareFails, CopyCancelled,
                CopyDone, Finalize, FinalizeFails, RemoveCancelled, Finish, Copy, CopyFails,
                RemoveFile, RemoveFails, history
  <2>2. CASE \E p \in Paths : Copy(p) \/ CopyFails(p) \/ RemoveFile(p)
    BY <2>1, <2>2, WorkTracks
  <2>3. CASE PrepareFails \/ FinalizeFails \/ (\E p \in Paths : RemoveFails(p))
    BY <2>3 DEF PrepareFails, FinalizeFails, RemoveFails, End, Tracked, Working
  <2>4. CASE CopyDone \/ Finalize
    <3>1. /\ UNCHANGED <<layout, device, manifest, plan, stale>>
          /\ Working /\ Working' /\ phase' \notin {"idle", "prepare", "finished"}
      BY <2>4 DEF CopyDone, Finalize, run, config, Working
    <3> QED  BY <2>1, <3>1 DEF Tracked, Merged, Owned, Whole, Listed, Working
  <2> QED  BY <1>1, <2>1, <2>2, <2>3, <2>4, PrepareTracks, EndTracks DEF Run
<1>2. CASE User
  <2>1. Tracked
    BY <1>2 DEF Tracking, User, ChangeFile, ChangeTitle, ChangeSelection, DeleteFile, Start,
                RequestCancellation, history
  <2>2. /\ UNCHANGED <<layout, manifest, plan, stale, present, next>>
        /\ \/ phase' = phase /\ outcome' = outcome
           \/ phase = "idle" /\ phase' = "prepare"
    BY <1>2 DEF User, ChangeFile, ChangeTitle, ChangeSelection, DeleteFile, Start,
                RequestCancellation, config, run
  <2>3. /\ Listed(device') \subseteq Listed(device)
        /\ \A p \in Whole(device') : p \in Whole(device) /\ device'[p] = device[p]
    BY <1>2, NoFileAssumption
    DEF User, ChangeFile, ChangeTitle, ChangeSelection, DeleteFile, Start,
        RequestCancellation, Listed, Whole, Inductive, TypeOK
  <2>4. Merged' = Merged  BY <2>2 DEF Merged
  <2>5. \A files : Owned(files) => Owned(files)'
    BY <2>2, <2>3 DEF Owned, Whole
  <2> QED  BY <2>1, <2>2, <2>3, <2>4, <2>5 DEF Tracked, Owned, Whole, Listed, Working
<1>3. CASE ApplyCompletion
  BY <1>3, AppliedTracks DEF ApplyCompletion, Tracking
<1>4. CASE SaveFails \/ Crash
  BY <1>4 DEF SaveFails, Crash
<1>5. CASE UNCHANGED vars
  BY <1>5 DEF vars, run, config, history, Tracking, Tracked, Merged, Owned, Whole, Listed,
              Working
<1> QED  BY <1>1, <1>2, <1>3, <1>4, <1>5 DEF Next

-----------------------------------------------------------------------------
\* The inductive invariant of repeated syncs.
THEOREM Invariance == Spec => []Inductive
<1>1. Inductive /\ [Next]_vars => Inductive'  BY StepKeeps
<1> QED  BY <1>1, Initially, PTL DEF Spec

\* Every variable has its type.
THEOREM TypeCorrect == Spec => []TypeOK
<1>1. Inductive => TypeOK  BY DEF Inductive
<1> QED  BY <1>1, Invariance, PTL

\* A run that reports completion has recorded every placement, brought the device
\* to the files it fingerprinted, written the playlist files in full and removed
\* what was confirmed, through contents, titles and selections that change and
\* change back and whatever earlier runs left behind, but for a placement it did
\* not write at a path written by a run whose manifest was not saved (sync,
\* compute_diff).
THEOREM CompletionMatches == Spec => []CompletedMatches
<1>1. Inductive => CompletedMatches  BY DEF Inductive
<1> QED  BY <1>1, Invariance, PTL

\* A list's playlist file names only files that are there when it is written, and
\* no removal of a run takes one that the file of a ticked list names (finalize,
\* removals).
THEOREM IndexStays == Spec => IndexNamesFiles
<1>1. Inductive /\ [Next]_vars => [IndexStep]_vars  BY StepKeeps
<1> QED  BY <1>1, Invariance, PTL DEF Spec, IndexNamesFiles, IndexStep

\* While every run has made all its copies, the manifest names every file on the
\* device, and in a list's folder all files of a track have one number that no
\* other track has, whichever lists are ticked and however titles change between
\* runs (folder_placements, retain_unremoved_manifest_entries).
THEOREM FilesStayTracked == Spec => []TrackedUnlessInterrupted
<1>1. Init => Tracking /\ NumbersKept /\ StaleListed
  BY NoFileAssumption DEF Init, Tracking, Tracked, NumbersKept, StaleListed, Numbered, Owned,
     Whole, Listed, Nothing, Working
<1>2. Inductive /\ Tracking /\ NumbersKept /\ StaleListed /\ [Next]_vars
        => Tracking' /\ NumbersKept' /\ StaleListed'
  BY TrackingStep, NumbersStep, StaleStep
<1>3. Tracking /\ NumbersKept => TrackedUnlessInterrupted
  <2> SUFFICES ASSUME Tracking, NumbersKept, ~interrupted, phase = "idle"
               PROVE  /\ Listed(device) \subseteq Listed(manifest)
                      /\ layout = "folder" => OneNumber(device)
    BY DEF TrackedUnlessInterrupted
  <2>1. Listed(device) \subseteq Listed(manifest) /\ Owned(manifest)
    BY DEF Tracking, Tracked
  <2>2. Whole(device) \subseteq Listed(device)  BY NoFileAssumption DEF Whole, Listed
  <2> QED  BY <2>1, <2>2 DEF NumbersKept, Numbered, Owned, OneNumber
<1> QED  BY <1>1, <1>2, <1>3, Invariance, PTL DEF Spec
=============================================================================
