------------------------------- MODULE DeviceSync -------------------------------
(***************************************************************************)
(* Synchronising playlists to a device (device_sync/src/engine.rs,         *)
(* layout.rs) under the runtime that starts runs and saves their manifests *)
(* (app_runtime/src/device_sync.rs, device_sync_scheduler.rs).  The        *)
(* manifest is what the library remembers of the device: path, track and   *)
(* fingerprint of each file it wrote.                                      *)
(*                                                                         *)
(* A path has the folder of a ticked list and the number the name starts   *)
(* with in a folder per playlist (0 and 0 in the deduplicated tree), the   *)
(* title, and in the tree the track that had to be told from another.  A   *)
(* title stands for what a name is made of besides the number: artist,     *)
(* album, title, the width of the number and the subfolder it is split     *)
(* into.  A file on the device, a placement and an entry of the manifest   *)
(* are a track and a content.  The fingerprint is a hash of the content,   *)
(* so it is the content itself, which may come back and which two tracks   *)
(* may share; the track of a file on the device is for the properties.     *)
(* All contents have one size, so that only the fingerprint tells two of   *)
(* them apart.  A transport that publishes in place can leave a Partial    *)
(* file, which has another size.                                           *)
(***************************************************************************)
EXTENDS Naturals, Sequences, FiniteSets, SequencesExt

CONSTANTS
    Tracks, Contents, Titles,
    Layouts,      \* "tree" (m3u) or "folder" (folder per playlist)
    Transports,   \* "filesystem" (atomic publication) or "mtp" (in place)
    NoFile, Partial, Untagged,
    Selectable,   \* bound: selections the user makes
    MaxLists,     \* bound: playlists, smart playlists and artists that can be ticked
    MaxEdits,     \* bound: changes of a file, of a title or of the selection
    MaxRuns,      \* bound: runs
    MaxCancels,   \* bound: runs the user cancels
    MaxFaults,    \* bound: failing calls, process deaths, files the user deletes
    MaxPosition   \* bound: numbers in a folder

Lists == 1 .. MaxLists

\* What is ticked: each list with its tracks in order, a track once.
Playlists == {s \in UNION {[1 .. n -> Tracks] : n \in 0 .. Cardinality(Tracks)} :
                 \A i, j \in DOMAIN s : s[i] = s[j] => i = j}
Selections == UNION {[ticked -> Playlists] : ticked \in SUBSET Lists}

ASSUME DeviceAssumption ==
    /\ Layouts \subseteq {"tree", "folder"} /\ Transports \subseteq {"filesystem", "mtp"}
    /\ IsFiniteSet(Tracks) /\ Selectable \subseteq Selections
    /\ MaxLists \in Nat /\ MaxEdits \in Nat /\ MaxRuns \in Nat /\ MaxCancels \in Nat
    /\ MaxFaults \in Nat /\ MaxPosition \in Nat

Copies == [track : Tracks, content : Contents]
ASSUME NoFileAssumption == NoFile \notin Copies /\ Partial \notin Copies \union {NoFile}

Paths == [folder : {0}, number : {0}, title : Titles, tag : Tracks \union {Untagged}]
           \union [folder : Lists, number : 1 .. MaxPosition, title : Titles, tag : {Untagged}]

VARIABLES
    layout, transport,   \* of the device
    content,     \* [Tracks -> Contents]: the library's files
    title,       \* [Tracks -> Titles]
    selection,   \* the ticked lists |-> their tracks
    manifest,    \* [Paths -> Copies or NoFile]: the saved manifest
    device,      \* [Paths -> Copies, NoFile or Partial]: files on the device
    index,       \* [Lists -> paths its playlist file names, none when there is no file]
    phase,       \* where the run is
    plan,        \* the run's placements: path |-> track and content prepared
    previous,    \* the manifest it was given
    removeStale, \* the user confirmed removals
    todo,        \* placements to write
    stale,       \* removals not yet made
    present,     \* placements known to be on the device
    written,     \* placements copied by this run
    touched,     \* tracks whose file has changed since the run fingerprinted it
    next,        \* the manifest the run builds
    outcome,     \* "none", "complete", "partial", "cancelled", "failed"
    cancel,      \* the cancellation flag
    unsaved,     \* history: paths written since the saved manifest last recorded them
    interrupted, \* history: a run failed, was not recorded or left a copy out
    edits, runs, cancels, faults

config  == <<layout, transport>>
library == <<content, title, selection>>
run     == <<plan, previous, removeStale, todo, stale, present, written, touched, next,
             outcome>>
history == <<unsaved, interrupted>>
bounds  == <<edits, runs, cancels, faults>>
vars    == <<config, library, manifest, device, index, phase, run, cancel, history, bounds>>

NoPlan  == [p \in {} |-> NoFile]
Nothing == [p \in Paths |-> NoFile]
Listed(files) == {p \in Paths : files[p] # NoFile}
Whole(files)  == {p \in Paths : files[p] \in Copies}

Init ==
    /\ layout \in Layouts /\ transport \in Transports
    /\ content \in [Tracks -> Contents] /\ title \in [Tracks -> Titles]
    /\ selection \in Selectable
    /\ manifest = Nothing /\ device = Nothing /\ index = [l \in Lists |-> {}]
    /\ phase = "idle" /\ plan = NoPlan /\ previous = Nothing /\ removeStale = FALSE
    /\ todo = {} /\ stale = {} /\ present = {} /\ written = {} /\ touched = {}
    /\ next = Nothing /\ outcome = "none"
    /\ cancel = FALSE /\ unsaved = {} /\ interrupted = FALSE
    /\ edits = 0 /\ runs = 0 /\ cancels = 0 /\ faults = 0

Fault == faults < MaxFaults /\ faults' = faults + 1
Edit  == edits < MaxEdits /\ edits' = edits + 1

-----------------------------------------------------------------------------
(* The library, the user and the device's other uses.  A run reads titles, *)
(* selection and manifest once, when it is prepared.                       *)

\* The metadata writer or another program rewrites a file, back to what it was too.
ChangeFile(t) ==
    /\ Edit
    /\ \E c \in Contents \ {content[t]} : content' = [content EXCEPT ![t] = c]
    /\ touched' = IF phase \in {"copy", "finalize", "remove"} THEN touched \union {t}
                                                              ELSE touched
    /\ UNCHANGED <<config, title, selection, manifest, device, index, phase, plan, previous,
                   removeStale, todo, stale, present, written, next, outcome, cancel, history,
                   runs, cancels, faults>>

ChangeTitle(t) ==
    /\ phase = "idle" /\ runs < MaxRuns /\ Edit
    /\ \E name \in Titles \ {title[t]} : title' = [title EXCEPT ![t] = name]
    /\ UNCHANGED <<config, content, selection, manifest, device, index, phase, run, cancel,
                   history, runs, cancels, faults>>

\* A playlist changes, or lists are ticked and unticked.
ChangeSelection(s) ==
    /\ phase = "idle" /\ runs < MaxRuns /\ s # selection /\ Edit
    /\ selection' = s
    /\ UNCHANGED <<config, content, title, manifest, device, index, phase, run, cancel,
                   history, runs, cancels, faults>>

\* The user deletes a file from the device.
DeleteFile(p) ==
    /\ phase = "idle" /\ device[p] # NoFile /\ Fault
    /\ device' = [device EXCEPT ![p] = NoFile]
    /\ UNCHANGED <<config, library, manifest, index, phase, run, cancel, history, edits,
                   runs, cancels>>

-----------------------------------------------------------------------------
(* Planning.  An entry is a ticked list and a place in it.                 *)

Entries == {e \in Lists \X (1 .. Cardinality(Tracks)) :
               e[1] \in DOMAIN selection /\ e[2] \in DOMAIN selection[e[1]]}
TrackAt(e) == selection[e[1]][e[2]]
Before(e, f) == e[1] < f[1] \/ (e[1] = f[1] /\ e[2] < f[2])

\* build_worker_sync_request: the tree has a track once, where it comes first;
\* a folder per playlist has a copy for each list.
Placements == {e \in Entries : layout = "folder" \/
                  ~\E f \in Entries : TrackAt(f) = TrackAt(e) /\ Before(f, e)}

\* The numbers a track's files have in a list's folder, and the folder's highest.
Prior(l, t) == {p.number : p \in {q \in Listed(manifest) :
                                     q.folder = l /\ manifest[q].track = t}}
Highest(l) == Max({0} \union {p.number : p \in {q \in Listed(manifest) : q.folder = l}})

\* folder_placements: a track keeps its number in the folder, a new one is appended.
Number(e) ==
    LET known == Prior(e[1], TrackAt(e))
        fresh == {j \in 1 .. e[2] : Prior(e[1], selection[e[1]][j]) = {}}
    IN IF known # {} THEN Max(known) ELSE Highest(e[1]) + Cardinality(fresh)

\* tree_placements: a title already given to an earlier track is tagged.
Tag(e) == IF \E f \in Placements : Before(f, e) /\ title[TrackAt(f)] = title[TrackAt(e)]
          THEN TrackAt(e) ELSE Untagged

PathOf(e) ==
    IF layout = "tree"
    THEN [folder |-> 0, number |-> 0, title |-> title[TrackAt(e)], tag |-> Tag(e)]
    ELSE [folder |-> e[1], number |-> Number(e), title |-> title[TrackAt(e)], tag |-> Untagged]

Placed == {PathOf(e) : e \in Placements}
CopyOf(p) == LET e == CHOOSE f \in Placements : PathOf(f) = p
             IN [track |-> TrackAt(e), content |-> content[TrackAt(e)]]

\* Mutant of Unchanged: a file the manifest knows is taken as it is.
UnchangedByPresence(p) == manifest[p] # NoFile /\ device[p] \in Copies

\* compute_diff: the fingerprint the manifest has and the size the file has.
Unchanged(p) ==
    /\ manifest[p] # NoFile /\ manifest[p].content = CopyOf(p).content
    /\ device[p] \in Copies

\* Mutant of Removals: the placements of the run are not excepted.
RemovalsAll == Listed(manifest)

Removals == Listed(manifest) \ Placed

-----------------------------------------------------------------------------
(* A run.                                                                  *)

\* start_device_sync: one run at a time, until its completion is applied.
Start(stalesGo) ==
    /\ phase = "idle" /\ runs < MaxRuns
    /\ Placed \subseteq Paths
    /\ runs' = runs + 1
    /\ phase' = "prepare" /\ removeStale' = stalesGo
    /\ cancel' = FALSE /\ outcome' = "none"
    /\ UNCHANGED <<config, library, manifest, device, index, plan, previous, todo, stale,
                   present, written, touched, next, history, edits, cancels, faults>>

\* request_cancellation
RequestCancellation ==
    /\ phase \notin {"idle", "finished"} /\ ~cancel
    /\ cancels < MaxCancels /\ cancels' = cancels + 1
    /\ cancel' = TRUE
    /\ UNCHANGED <<config, library, manifest, device, index, phase, run, history, edits,
                   runs, faults>>

\* The run ends; the manifest it returns, if any, is next.
End(how) == phase' = "finished" /\ outcome' = how

\* The request is built, sources are fingerprinted, the device is registered
\* and compared with the manifest.  No two placements have one path
\* (validate_unique), or the run would be refused.
Prepare ==
    /\ phase = "prepare" /\ ~cancel
    /\ Placements # {} /\ \A e, f \in Placements : PathOf(e) = PathOf(f) => e = f
    /\ LET same == {p \in Placed : Unchanged(p)}
       IN /\ plan' = [p \in Placed |-> CopyOf(p)]
          /\ previous' = manifest
          /\ todo' = Placed \ same
          /\ present' = same
          /\ next' = [p \in Paths |-> IF p \in same THEN CopyOf(p) ELSE NoFile]
          /\ stale' = Removals
    /\ written' = {} /\ touched' = {}
    /\ phase' = "copy"
    /\ UNCHANGED <<config, library, manifest, device, index, removeStale, outcome, cancel,
                   history, bounds>>

\* Cancelled before the device is touched: the manifest stays.
PrepareCancelled ==
    /\ phase = "prepare" /\ cancel
    /\ next' = manifest
    /\ End("cancelled")
    /\ UNCHANGED <<config, library, manifest, device, index, plan, previous, removeStale,
                   todo, stale, present, written, touched, cancel, history, bounds>>

\* The device cannot be opened or compared, or nothing is to be placed.
PrepareFails ==
    /\ phase = "prepare"
    /\ IF Placements = {} THEN UNCHANGED faults ELSE Fault
    /\ End("failed")
    /\ UNCHANGED <<config, library, manifest, device, index, plan, previous, removeStale,
                   todo, stale, present, written, touched, next, cancel, history, edits,
                   runs, cancels>>

\* Placements are written in their order.
NextFile(p) ==
    /\ p \in todo
    /\ ~\E e, f \in Placements : PathOf(e) = p /\ PathOf(f) \in todo /\ Before(f, e)

\* What a copy made now would be of.
Source(p) == [track |-> plan[p].track, content |-> content[plan[p].track]]

\* The copy checks that the source is still the file that was fingerprinted, by
\* its times: one changed and changed back is not.
Copy(p) ==
    /\ phase = "copy" /\ NextFile(p) /\ ~cancel
    /\ plan[p].track \notin touched
    /\ device' = [device EXCEPT ![p] = Source(p)]
    /\ next' = [next EXCEPT ![p] = plan[p]]
    /\ present' = present \union {p} /\ written' = written \union {p}
    /\ todo' = todo \ {p}
    /\ unsaved' = unsaved \union {p}
    /\ UNCHANGED <<config, library, manifest, index, phase, plan, previous, removeStale,
                   stale, touched, outcome, cancel, interrupted, bounds>>

\* A copy fails, or its source has changed.  On a file system the old file
\* stays unless only the directory could not be synchronised, and the run
\* fails; over MTP the file is deleted or left partial, and the run goes on.
CopyFails(p) ==
    LET sound == plan[p].track \notin touched
    IN
    /\ phase = "copy" /\ NextFile(p) /\ ~cancel
    /\ IF sound THEN Fault ELSE UNCHANGED faults
    /\ \/ UNCHANGED <<device, unsaved>>
       \/ /\ transport = "filesystem" /\ sound
          /\ device' = [device EXCEPT ![p] = Source(p)]
          /\ unsaved' = unsaved \union {p}
       \/ /\ transport = "mtp"
          /\ \E file \in {NoFile, Partial} : device' = [device EXCEPT ![p] = file]
          /\ UNCHANGED unsaved
    /\ IF transport = "mtp"
       THEN todo' = todo \ {p} /\ outcome' = "partial" /\ UNCHANGED phase
       ELSE End("failed") /\ UNCHANGED todo
    /\ UNCHANGED <<config, library, manifest, index, plan, previous, removeStale, stale,
                   present, written, touched, next, cancel, interrupted, edits, runs, cancels>>

\* The cancellation is seen between two files: what is not yet written, stale
\* files included, is no longer in the manifest.
CopyCancelled ==
    /\ phase = "copy" /\ todo # {} /\ cancel
    /\ End("cancelled")
    /\ UNCHANGED <<config, library, manifest, device, index, plan, previous, removeStale,
                   todo, stale, present, written, touched, next, cancel, history, bounds>>

CopyDone ==
    /\ phase = "copy" /\ todo = {}
    /\ phase' = "finalize"
    /\ UNCHANGED <<config, library, manifest, device, index, run, cancel, history, bounds>>

\* The placements of the run that hold a list's tracks.
PlacedFor(l) == {p \in DOMAIN plan : plan[p].track \in ToSet(selection[l])}

\* Mutant of WrittenIndex: every placement is named, copied or not.
WrittenIndexAll(l) == PlacedFor(l)

\* write_m3u_playlists: a list's file names its placements known to be present.
WrittenIndex(l) == PlacedFor(l) \intersect present

\* The ticked lists' files are written in order, those of others stay as they
\* are; a folder per playlist has none.
IndexWrittenBelow(k) ==
    [l \in Lists |-> IF layout = "tree" /\ l \in DOMAIN selection /\ l < k
                     THEN WrittenIndex(l) ELSE index[l]]

\* A failure or a death at list k: a file published in place may be cut short.
IndexCutAt(k) ==
    {[IndexWrittenBelow(k) EXCEPT ![k] = names] : names \in
        IF layout # "tree" \/ k \notin DOMAIN selection THEN {index[k]}
        ELSE {index[k], WrittenIndex(k)} \union
             IF transport = "mtp" THEN SUBSET WrittenIndex(k) ELSE {}}

Finalize ==
    /\ phase = "finalize"
    /\ index' = IndexWrittenBelow(MaxLists + 1)
    /\ phase' = "remove"
    /\ UNCHANGED <<config, library, manifest, device, run, cancel, history, bounds>>

FinalizeFails ==
    /\ phase = "finalize" /\ layout = "tree" /\ Fault
    /\ \E k \in DOMAIN selection : index' \in IndexCutAt(k)
    /\ End("failed")
    /\ UNCHANGED <<config, library, manifest, device, plan, previous, removeStale, todo,
                   stale, present, written, touched, next, cancel, history, edits, runs,
                   cancels>>

RemoveFile(p) ==
    /\ phase = "remove" /\ removeStale /\ p \in stale /\ ~cancel
    /\ device' = [device EXCEPT ![p] = NoFile]
    /\ stale' = stale \ {p}
    /\ UNCHANGED <<config, library, manifest, index, phase, plan, previous, removeStale,
                   todo, present, written, touched, next, outcome, cancel, history, bounds>>

\* The file is unlinked or not; the run fails.
RemoveFails(p) ==
    /\ phase = "remove" /\ removeStale /\ p \in stale /\ ~cancel
    /\ Fault
    /\ \E file \in {device[p], NoFile} : device' = [device EXCEPT ![p] = file]
    /\ End("failed")
    /\ UNCHANGED <<config, library, manifest, index, plan, previous, removeStale, todo,
                   stale, present, written, touched, next, cancel, history, edits, runs,
                   cancels>>

\* Stale files that stay remain in the manifest (retain_unremoved_manifest_entries).
Retained == [p \in Paths |-> IF p \in stale THEN previous[p] ELSE next[p]]

\* Mutant of RemoveCancelled: the entries are dropped.
RemoveCancelledDropping ==
    /\ phase = "remove" /\ removeStale /\ stale # {} /\ cancel
    /\ End("cancelled")
    /\ UNCHANGED <<config, library, manifest, device, index, plan, previous, removeStale,
                   todo, stale, present, written, touched, next, cancel, history, bounds>>

RemoveCancelled ==
    /\ phase = "remove" /\ removeStale /\ stale # {} /\ cancel
    /\ next' = Retained
    /\ End("cancelled")
    /\ UNCHANGED <<config, library, manifest, device, index, plan, previous, removeStale,
                   todo, stale, present, written, touched, cancel, history, bounds>>

Finish ==
    /\ phase = "remove" /\ (removeStale => stale = {})
    /\ next' = Retained
    /\ End(IF outcome = "partial" THEN "partial" ELSE "complete")
    /\ UNCHANGED <<config, library, manifest, device, index, plan, previous, removeStale,
                   todo, stale, present, written, touched, cancel, history, bounds>>

\* apply_device_sync_event: the manifest of a run that did not fail is saved,
\* and the run is acknowledged.
Acknowledge ==
    /\ phase' = "idle" /\ cancel' = FALSE
    /\ plan' = NoPlan /\ previous' = Nothing /\ removeStale' = FALSE
    /\ todo' = {} /\ stale' = {} /\ present' = {} /\ written' = {} /\ touched' = {}
    /\ next' = Nothing /\ outcome' = "none"

\* Mutant of ApplyCompletion: a failed run is not acknowledged.
ApplySuccess ==
    /\ phase = "finished" /\ outcome # "failed"
    /\ manifest' = next /\ unsaved' = unsaved \ written
    /\ interrupted' = (interrupted \/ present # DOMAIN plan)
    /\ Acknowledge
    /\ UNCHANGED <<config, library, device, index, bounds>>

ApplyCompletion ==
    /\ phase = "finished"
    /\ IF outcome = "failed" THEN UNCHANGED <<manifest, unsaved>>
                             ELSE manifest' = next /\ unsaved' = unsaved \ written
    /\ interrupted' = (interrupted \/ outcome = "failed" \/ present # DOMAIN plan)
    /\ Acknowledge
    /\ UNCHANGED <<config, library, device, index, bounds>>

SaveFails ==
    /\ phase = "finished" /\ outcome # "failed" /\ Fault
    /\ interrupted' = TRUE
    /\ Acknowledge
    /\ UNCHANGED <<config, library, manifest, device, index, unsaved, edits, runs, cancels>>

\* The process dies.  A shutdown is the same at a file boundary: the worker is
\* joined and its completion is drained unseen.
Crash ==
    /\ phase # "idle" /\ Fault
    /\ \/ UNCHANGED device
       \/ /\ phase = "copy" /\ transport = "mtp"
          /\ \E p \in todo : NextFile(p) /\ device' = [device EXCEPT ![p] = Partial]
    /\ \/ UNCHANGED index
       \/ phase = "finalize" /\ \E k \in DOMAIN selection : index' \in IndexCutAt(k)
    /\ interrupted' = TRUE
    /\ Acknowledge
    /\ UNCHANGED <<config, library, manifest, unsaved, edits, runs, cancels>>

-----------------------------------------------------------------------------
Run ==
    \/ Prepare \/ PrepareCancelled \/ PrepareFails \/ CopyCancelled \/ CopyDone \/ Finalize
    \/ FinalizeFails \/ RemoveCancelled \/ Finish
    \/ \E p \in Paths : Copy(p) \/ CopyFails(p) \/ RemoveFile(p) \/ RemoveFails(p)

User ==
    \/ \E t \in Tracks : ChangeFile(t) \/ ChangeTitle(t)
    \/ \E s \in Selectable : ChangeSelection(s)
    \/ \E p \in Paths : DeleteFile(p)
    \/ \E stalesGo \in BOOLEAN : Start(stalesGo)
    \/ RequestCancellation

Next == Run \/ User \/ ApplyCompletion \/ SaveFails \/ Crash

Spec == Init /\ [][Next]_vars

\* The worker thread runs, and the main loop drains its events.
Fairness == WF_vars(Run) /\ WF_vars(ApplyCompletion)
FairSpec == Spec /\ Fairness

-----------------------------------------------------------------------------
(* Properties.                                                             *)

Files == [Paths -> Copies \union {NoFile}]

\* The type of every variable.
TypeOK ==
    /\ layout \in Layouts /\ transport \in Transports
    /\ content \in [Tracks -> Contents] /\ title \in [Tracks -> Titles]
    /\ selection \in Selectable
    /\ manifest \in Files /\ previous \in Files /\ next \in Files
    /\ device \in [Paths -> Copies \union {NoFile, Partial}]
    /\ index \in [Lists -> SUBSET Paths]
    /\ phase \in {"idle", "prepare", "copy", "finalize", "remove", "finished"}
    /\ DOMAIN plan \subseteq Paths /\ \A p \in DOMAIN plan : plan[p] \in Copies
    /\ removeStale \in BOOLEAN /\ cancel \in BOOLEAN /\ interrupted \in BOOLEAN
    /\ todo \subseteq DOMAIN plan /\ stale \subseteq Paths \ DOMAIN plan
    /\ present \subseteq DOMAIN plan /\ written \subseteq present
    /\ touched \subseteq Tracks /\ unsaved \subseteq Paths
    /\ outcome \in {"none", "complete", "partial", "cancelled", "failed"}
    /\ edits \in 0 .. MaxEdits /\ runs \in 0 .. MaxRuns /\ cancels \in 0 .. MaxCancels
    /\ faults \in 0 .. MaxFaults

\* The device has what the run fingerprinted.
Delivered(p) == device[p] \in Copies /\ device[p].content = plan[p].content

\* Safety: a run that reports completion has recorded every placement and has
\* brought the device to the files it fingerprinted; each ticked list's playlist
\* file names all its placements; and nothing else the manifest knew is left when
\* removals were confirmed.  This holds through changes of files, titles and
\* selections back and forth and through whatever earlier runs left behind, but
\* for a placement it did not write at a path some earlier run wrote without its
\* manifest being saved: if the file has gone back to what the manifest
\* records, the unrecorded copy stays (sync, compute_diff).
CompletedMatches ==
    phase = "finished" /\ outcome = "complete" =>
        /\ \A p \in DOMAIN plan :
              next[p] = plan[p] /\ (p \in written \/ p \notin unsaved => Delivered(p))
        /\ layout = "tree" => \A l \in DOMAIN selection : index[l] = PlacedFor(l)
        /\ removeStale => \A p \in Listed(previous) : device[p] # NoFile => p \in DOMAIN plan

\* In a folder, a track has one number and a number one track.
OneNumber(files) ==
    \A p, q \in Whole(files) : p.folder = q.folder =>
        (files[p].track = files[q].track <=> p.number = q.number)

\* Safety: as long as every run has made all its copies, whether or not it was
\* cancelled before or after them, the manifest names every file on the device,
\* and in the folder of a list all files of a track, under this title and
\* earlier ones, have one number that no other track has, whichever lists were
\* ticked in between (folder_placements, engine.rs 286-358).
TrackedUnlessInterrupted ==
    ~interrupted /\ phase = "idle" =>
        /\ Listed(device) \subseteq Listed(manifest)
        /\ layout = "folder" => OneNumber(device)

\* Action: a playlist file names only files that are there when it is written,
\* and no removal of a run takes one that the file of a ticked list names
\* (finalize, removals).
IndexNamesFiles ==
    [][/\ \A l \in Lists : index'[l] # index[l] => index'[l] \subseteq Whole(device)
       /\ phase = "remove" => \A l \in DOMAIN selection :
             \A p \in index[l] : device[p] # NoFile => device'[p] # NoFile]_vars

\* Liveness: again and again no run is in progress: one that was started ends and
\* is acknowledged, so that the next one can start (device_sync_scheduler.rs,
\* acknowledge_completion).
RunEnds == []<>(phase = "idle")

\* What docs/features.md 981-986 says of a folder per playlist: positions stay
\* stable across syncs, so a track is never in a folder under two numbers.
PositionsStable ==
    layout = "folder" => \A p, q \in Whole(device) :
        p.folder = q.folder /\ device[p].track = device[q].track => p.number = q.number

\* What docs/features.md 1009-1011 says of an interrupted copy: the comparison of
\* size and fingerprint catches it, so a completed run has delivered everything.
InterruptedCopyResent ==
    phase = "finished" /\ outcome = "complete" => \A p \in DOMAIN plan : Delivered(p)

\* What a playlist file is for: between runs it names files that are there.
PlaylistFilesPlayable ==
    ~interrupted /\ phase = "idle" => \A l \in Lists : index[l] \subseteq Listed(device)
=============================================================================
