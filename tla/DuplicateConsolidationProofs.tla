--------------------- MODULE DuplicateConsolidationProofs ---------------------
(***************************************************************************)
(* A merge of duplicates loses no audio and happens entirely or not at     *)
(* all, for any number of tracks, merges, edits, failing calls, process    *)
(* deaths and power failures.                                              *)
(*                                                                         *)
(* NoAudioLost is not inductive: a backup may go only because, by the time *)
(* recovery files are swept, every row, durable or not, has its file back  *)
(* (Reconciling), which rests on what the rollback or the cleanup has      *)
(* done so far (RollingBack, CleaningUp).                                  *)
(*                                                                         *)
(* MirrorConsistent needs in addition what the files and their backups     *)
(* carry while a journal is there (Tagged): the metadata writer may give a *)
(* selected track a new file between a failed merge and its recovery, and  *)
(* its backup is then out of date, but no longer the same file.            *)
(***************************************************************************)
EXTENDS DuplicateConsolidation, FiniteSetTheorems, TLAPS

\* t has a row, now and after a power failure, exactly if it has a file.
Settled(t) == /\ db[t] # NoRow <=> Present(src[t])
              /\ durable[t] # NoRow <=> Present(src[t])

Selected == IF journal = NoMerge THEN {} ELSE journal.selected

\* A journal merges at least two tracks, one of which survives.
JournalSound == journal # NoMerge => Survivor \in journal.selected /\ Duplicates # {}

\* Which steps have a journal and which do not.
JournalAtHand ==
    /\ pc \in {"rollback", "cleanup", "sweep", "unjournal", "link", "unlink", "replace",
               "remove", "flush"} => journal # NoMerge
    /\ pc \in {"plan", "journal"} => journal = NoMerge

\* A merge leaves the other tracks alone.
OthersSettled == \A t \in Tracks \ Selected : Settled(t)

\* Recovery files go when every row has its file back.
Reconciling == pc \in {"sweep", "unjournal"} => \A t \in Tracks : Settled(t)

\* A power failure brings rows back and takes none away.
DurableCovers == \A t \in Tracks : db[t] # NoRow => durable[t] # NoRow

RollingBack ==
    pc = "rollback" =>
        /\ todo \subseteq Selected
        /\ \A t \in Selected : db[t] # NoRow
        /\ \A t \in Selected \ todo : Present(src[t])

CleaningUp ==
    pc = "cleanup" =>
        /\ todo \subseteq Duplicates
        /\ todo = Duplicates \/ Present(src[Survivor])
        /\ db[Survivor] # NoRow /\ \A t \in Duplicates : durable[t] = NoRow
        /\ \A t \in Duplicates \ todo : ~Present(src[t])

Planned ==
    pc = "journal" =>
        /\ plan \in Merge /\ plan.survivor \in plan.selected
        /\ plan.selected \ {plan.survivor} # {}
        /\ \A t \in plan.selected : db[t] # NoRow /\ Present(src[t])

\* Until the commit every row is there, and no source goes before its backup
\* is linked; the commit takes the rows of the duplicates.
Merging ==
    /\ pc \in {"link", "unlink", "replace", "remove"} => \A t \in Selected : db[t] # NoRow
    /\ pc = "link" => /\ todo \subseteq Selected
                      /\ \A t \in Selected : Present(src[t])
                      /\ \A t \in Selected \ todo : Present(bak[t])
    /\ pc \in {"unlink", "replace", "remove"} => \A t \in Selected : Present(bak[t])
    /\ pc = "remove" => todo \subseteq Duplicates
    /\ pc = "flush" => db[Survivor] # NoRow /\ \A t \in Duplicates : db[t] = NoRow

\* The stage is made after the backups and removed before them.
StageAfterLinks == Present(stage) => \A t \in Selected : Present(bak[t])

DirectoryGone == pc = "unjournal" => ~dir

Inductive ==
    /\ TypeOK /\ NoAudioLost
    /\ JournalSound /\ JournalAtHand /\ OthersSettled /\ Reconciling /\ DurableCovers
    /\ RollingBack /\ CleaningUp /\ Planned /\ Merging /\ StageAfterLinks /\ DirectoryGone

-----------------------------------------------------------------------------
\* A file or row is none of the values that say there is none.
LEMMA Values ==
    /\ \A f \in File : f # NoFile
    /\ \A r \in Row : r # NoRow
    /\ \A m \in Merge : m # NoMerge
  BY DuplicateAssumption

\* A journal's tracks are tracks.
LEMMA SelectedTracks ==
    ASSUME TypeOK, JournalSound
    PROVE  /\ Selected \subseteq Tracks
           /\ journal # NoMerge => /\ journal \in Merge /\ Survivor \in Tracks
                                   /\ Selected = journal.selected
                                   /\ Survivor \in Selected /\ Survivor \notin Duplicates
                                   /\ Selected = Duplicates \union {Survivor}
  BY DEF TypeOK, Merge, Selected, JournalSound, Survivor, Duplicates

\* Merging two tracks or more takes one away.
LEMMA OthersMerged ==
    ASSUME NEW selected \in SUBSET Tracks, NEW s \in selected, Cardinality(selected) >= 2
    PROVE  selected \ {s} # {}
<1> SUFFICES ASSUME selected \ {s} = {} PROVE FALSE
  OBVIOUS
<1>1. selected = {s}
  OBVIOUS
<1>2. Cardinality({s}) = 1  BY FS_Singleton
<1> QED  BY <1>1, <1>2

\* The initial state.
LEMMA Initially == Init => Inductive
<1> SUFFICES ASSUME Init PROVE Inductive
  OBVIOUS
<1> USE DEF Init
<1>1. [tags |-> 0, intent |-> FALSE] \in Row /\ [id |-> "orig", tags |-> 0] \in File
  BY DEF Row, File, Identities
<1>2. /\ src \in [Tracks -> File \union {NoFile}] /\ bak \in [Tracks -> File \union {NoFile}]
      /\ db \in [Tracks -> Row \union {NoRow}] /\ durable \in [Tracks -> Row \union {NoRow}]
  BY <1>1
<1>3. Backups = {} /\ ~Present(stage)  BY DEF Backups, Present
<1>4. TypeOK
  <2>1. todo \subseteq Tracks /\ dir \in BOOLEAN /\ junk \in BOOLEAN
    OBVIOUS
  <2>2. journal = NoMerge /\ plan = NoMerge /\ stage = NoFile /\ ~dir /\ ~junk
    OBVIOUS
  <2>3. edits \in Nat /\ merges \in Nat /\ faults \in Nat /\ crashes \in Nat
        /\ outages \in Nat
    OBVIOUS
  <2>4. app = "stopped" /\ op = "none" /\ phase = "recovery" /\ pc = "idle"
    OBVIOUS
  <2> HIDE DEF Init
  <2> QED  BY <1>2, <1>3, <2>1, <2>2, <2>3, <2>4, Zenon DEF TypeOK
<1>5. \A t \in Tracks : db[t] # NoRow /\ durable[t] # NoRow /\ Present(src[t])
  BY <1>1, Values DEF Present
<1> QED
  BY <1>3, <1>4, <1>5 DEF Inductive, NoAudioLost, JournalSound, JournalAtHand, OthersSettled,
     Settled, Reconciling, DurableCovers, RollingBack, CleaningUp, Planned, Merging,
     StageAfterLinks, DirectoryGone

\* The parts that speak of one moment of an operation.
Moment == /\ JournalAtHand /\ Reconciling /\ RollingBack /\ CleaningUp /\ Planned /\ Merging
          /\ DirectoryGone

\* The parts that hold whatever runs.
Lasting == NoAudioLost /\ JournalSound /\ OthersSettled /\ DurableCovers /\ StageAfterLinks

\* They are the whole invariant.
LEMMA Parts ==
    /\ Inductive <=> TypeOK /\ Moment /\ Lasting
    /\ Inductive' <=> TypeOK' /\ Moment' /\ Lasting'
  BY DEF Inductive, Moment, Lasting

\* At these steps no part speaks of the moment.
LEMMA Quiet ==
    ASSUME pc' \in {"idle", "recover", "done", "fail"} \/ (pc' = "plan" /\ journal' = NoMerge)
    PROVE  Moment'
  BY DEF Moment, JournalAtHand, Reconciling, RollingBack, CleaningUp, Planned, Merging,
         DirectoryGone

\* Files that stay, or whose tags alone change, and rows that stay or come back.
LEMMA SameFiles ==
    ASSUME Lasting, UNCHANGED <<bak, stage, journal>>,
           \A t \in Tracks : Present(src[t]) <=> Present(src[t])',
           \A t \in Tracks : db'[t] # NoRow <=> db[t] # NoRow,
           \A t \in Tracks : durable'[t] # NoRow <=> durable[t] # NoRow
    PROVE  Lasting'
  BY DEF Lasting, NoAudioLost, JournalSound, Survivor, Duplicates, OthersSettled, Selected,
         Settled, Present, DurableCovers, StageAfterLinks

-----------------------------------------------------------------------------
\* An operation begins, is recovered, is rejected or ends.
LEMMA QuietKeeps ==
    ASSUME Inductive,
           SetLibraryServices \/ ConsolidateDuplicates \/ Recovered \/ PlanRejected \/ Finish
    PROVE  Inductive'
<1> USE Parts DEF SetLibraryServices, ConsolidateDuplicates, Begin, Recovered, PlanRejected,
                  Finish, Loop, Go, disk, recdir, rows, bounds
<1>1. UNCHANGED <<src, bak, stage, dir, junk, journal, db, durable>>
  OBVIOUS
<1>2. pc' \in {"idle", "recover", "done", "fail"} \/ (pc' = "plan" /\ journal' = NoMerge)
  OBVIOUS
<1>3. /\ app' \in {"stopped", "running", "refused"} /\ op' \in {"none", "startup", "merge"}
      /\ phase' \in {"recovery", "merging", "committed"} /\ todo' \subseteq Tracks
      /\ plan' \in {plan, NoMerge} /\ {edits', merges', faults', crashes', outages'} \subseteq Nat
  BY DEF TypeOK
<1>4. TypeOK'  BY <1>1, <1>2, <1>3 DEF TypeOK, Backups, Present
<1>5. Lasting'  BY <1>1, SameFiles DEF Present
<1> QED  BY <1>2, <1>4, <1>5, Quiet

\* A call fails: before the commit the files are rolled back, otherwise the
\* operation ends.
LEMMA FailedGoes ==
    ASSUME Inductive, Failed, UNCHANGED <<journal, db, durable, dir>>
    PROVE  /\ Moment'
           /\ UNCHANGED <<app, op, phase, plan>> /\ pc' \in {"rollback", "fail"}
           /\ todo' \subseteq Tracks
<1>1. CASE pc' = "rollback"
  <2>1. /\ todo' = journal.selected /\ pc \in {"link", "unlink", "replace", "remove"}
        /\ UNCHANGED <<app, op, phase, plan>>
    BY <1>1 DEF Failed, Loop, Go
  <2>2. journal # NoMerge /\ Selected = journal.selected /\ Selected \subseteq Tracks
        /\ (\A t \in Selected : db[t] # NoRow) /\ Selected' = Selected
    BY <2>1, SelectedTracks DEF Inductive, JournalAtHand, Merging, Selected
  <2> QED
    BY <1>1, <2>1, <2>2 DEF Moment, JournalAtHand, Reconciling, RollingBack, CleaningUp,
                            Planned, Merging, DirectoryGone
<1>2. CASE pc' # "rollback"
  BY <1>2, Quiet DEF Failed, Loop, Go, Inductive, TypeOK
<1> QED  BY <1>1, <1>2

\* A call that changes nothing fails.
LEMMA CallFailsKeeps ==
    ASSUME Inductive, CallFails
    PROVE  Inductive'
<1> USE Parts DEF CallFails, Fault, disk, recdir, rows
<1>1. Moment' /\ UNCHANGED <<app, op, phase, plan>> /\ pc' \in {"rollback", "fail"}
      /\ todo' \subseteq Tracks
  BY FailedGoes
<1>2. {edits', merges', faults', crashes', outages'} \subseteq Nat
  BY DEF TypeOK
<1>3. TypeOK'  BY <1>1, <1>2 DEF TypeOK, Backups, Present
<1>4. Lasting'  BY SameFiles DEF Present
<1> QED  BY <1>1, <1>3, <1>4

\* An interrupted removal takes a name away only where another one is left, or
\* where every row has its file again; a power failure brings rows back.
LEMMA HandOff ==
    ASSUME Inductive, HandOffLeft \/ UNCHANGED disk,
           db' \in {db, durable}, UNCHANGED durable
    PROVE  /\ Lasting' /\ UNCHANGED <<dir, journal>>
           /\ {src', bak'} \subseteq [Tracks -> File \union {NoFile}]
           /\ stage' \in File \union {NoFile} /\ junk' \in BOOLEAN
           /\ Backups' # {} \/ Present(stage') \/ junk' => dir
<1>1. CASE UNCHANGED disk
  <2>1. UNCHANGED <<src, bak, stage, dir, junk, journal>>  BY <1>1 DEF disk, recdir
  <2>2. Lasting'
    BY <2>1 DEF Inductive, Lasting, NoAudioLost, JournalSound, Survivor, Duplicates,
       OthersSettled, Selected, Settled, Present, DurableCovers, StageAfterLinks
  <2> QED  BY <2>1, <2>2 DEF Inductive, TypeOK, Backups, Present
<1>2. CASE HandOffLeft
  <2> DEFINE S == Removing.source  B == Removing.backup
  <2>1. /\ src' = [t \in Tracks |-> IF t \in S THEN NoFile ELSE src[t]]
        /\ bak' = [t \in Tracks |-> IF t \in B THEN NoFile ELSE bak[t]]
        /\ stage' = (IF Removing.stage THEN NoFile ELSE stage)
        /\ junk' = (junk \/ Removing.stage \/ B # {})
        /\ UNCHANGED <<dir, journal>>
    BY <1>2 DEF HandOffLeft
  <2>2. \A t \in S : t \in Tracks /\ Present(bak[t]) /\ t \in Selected
                     /\ pc \in {"unlink", "remove", "cleanup", "rollback"}
    <3> TAKE t \in S
    <3>1. t \in Tracks
      BY DEF Removing
    <3>2. CASE pc = "unlink" /\ t = Survivor
      BY <3>1, <3>2, SelectedTracks DEF Inductive, JournalAtHand, Merging
    <3>3. CASE pc = "remove" /\ Head(t)
      BY <3>1, <3>3, SelectedTracks DEF Inductive, JournalAtHand, Merging, Head
    <3>4. CASE pc = "cleanup" /\ Head(t) /\ SameFile(src[t], bak[t])
      BY <3>1, <3>4, SelectedTracks
         DEF Inductive, JournalAtHand, CleaningUp, Head, SameFile, Present
    <3>5. CASE Undo(t)
      BY <3>1, <3>5, SelectedTracks
         DEF Inductive, JournalAtHand, StageAfterLinks, Undo, SameFile, Present
    <3> QED  BY <3>2, <3>3, <3>4, <3>5 DEF Removing
  <2>3. B # {} => pc = "sweep" /\ ~Present(stage) /\ Backups # {}
    BY DEF Removing
  <2>4. Removing.stage => Present(stage)
    BY DEF Removing
  <2>5. Removing.stage \in BOOLEAN
    BY DEF Removing
  <2> HIDE DEF S, B
  <2>6. {src', bak'} \subseteq [Tracks -> File \union {NoFile}]
        /\ stage' \in File \union {NoFile} /\ junk' \in BOOLEAN
    BY <2>1 DEF Inductive, TypeOK
  <2>7. Backups' \subseteq Backups /\ (Present(stage') => Present(stage))
    BY <2>1 DEF Backups, Present
  <2>8. Backups' # {} \/ Present(stage') \/ junk' => dir
    BY <2>1, <2>3, <2>4, <2>7 DEF Inductive, TypeOK
  <2>9. NoAudioLost'
    <3>1. \A t \in Tracks : t \in S => Present(bak'[t])
      BY <2>1, <2>2, <2>3 DEF Present
    <3>2. \A t \in Tracks : t \in B /\ (db[t] # NoRow \/ durable[t] # NoRow) => Present(src'[t])
      BY <2>1, <2>2, <2>3 DEF Inductive, Reconciling, Settled, Present
    <3>3. \A t \in Tracks \ (S \union B) : src'[t] = src[t] /\ bak'[t] = bak[t]
      BY <2>1
    <3> QED
      BY <2>1, <3>1, <3>2, <3>3 DEF Inductive, NoAudioLost
  <2>10. OthersSettled'
    <3>1. Selected' = Selected  BY <2>1 DEF Selected
    <3>2. \A t \in Tracks \ Selected : src'[t] = src[t]  BY <2>1, <2>2
    <3> QED  BY <3>1, <3>2 DEF Inductive, OthersSettled, Settled
  <2>11. StageAfterLinks'
    BY <2>1, <2>2, <2>3, <2>7, SelectedTracks
       DEF Inductive, StageAfterLinks, Selected, Present
  <2>12. JournalSound' /\ DurableCovers'
    BY <2>1 DEF Inductive, JournalSound, Survivor, Duplicates, DurableCovers
  <2> QED  BY <2>1, <2>6, <2>8, <2>9, <2>10, <2>11, <2>12 DEF Lasting
<1> QED  BY <1>1, <1>2

\* The process or the power stops, between two steps or within a removal.
LEMMA StopKeeps ==
    ASSUME Inductive, Crash \/ PowerFailure
    PROVE  Inductive'
<1> USE DEF Crash, PowerFailure, Stop, rows
<1>1. Lasting' /\ UNCHANGED <<dir, journal>>
      /\ {src', bak'} \subseteq [Tracks -> File \union {NoFile}]
      /\ stage' \in File \union {NoFile} /\ junk' \in BOOLEAN
      /\ (Backups' # {} \/ Present(stage') \/ junk' => dir)
  BY HandOff
<1>2. {db', durable'} \subseteq [Tracks -> Row \union {NoRow}]
      /\ {edits', merges', faults', crashes', outages'} \subseteq Nat
  BY DEF Inductive, TypeOK
<1>3. TypeOK'  BY <1>1, <1>2 DEF Inductive, TypeOK, Present, Backups
<1>4. Moment'  BY Quiet
<1> QED  BY <1>1, <1>3, <1>4, Parts

\* A removal stops halfway.
LEMMA RemovalFailsKeeps ==
    ASSUME Inductive, RemovalFails
    PROVE  Inductive'
<1>1. Lasting' /\ UNCHANGED <<dir, journal>>
      /\ {src', bak'} \subseteq [Tracks -> File \union {NoFile}]
      /\ stage' \in File \union {NoFile} /\ junk' \in BOOLEAN
      /\ (Backups' # {} \/ Present(stage') \/ junk' => dir)
      /\ UNCHANGED <<db, durable>>
  BY HandOff DEF RemovalFails, rows
<1>2. Moment' /\ UNCHANGED <<app, op, phase, plan>> /\ pc' \in {"rollback", "fail"}
      /\ todo' \subseteq Tracks
  BY <1>1, FailedGoes DEF RemovalFails
<1>3. {edits', merges', faults', crashes', outages'} \subseteq Nat
  BY DEF Inductive, TypeOK, RemovalFails, Fault
<1>4. TypeOK'  BY <1>1, <1>2, <1>3 DEF Inductive, TypeOK, Present, Backups
<1> QED  BY <1>1, <1>2, <1>4, Parts

\* An edit, a fill, the mirror and a checkpoint change what rows and files
\* say, never whether they are there.
LEMMA SurroundingsKeep ==
    ASSUME Inductive, Checkpoint \/ \E t \in Tracks : EditRow(t) \/ MirrorTags(t)
    PROVE  Inductive'
<1> DEFINE RowsAndFiles ==
      /\ src' \in [Tracks -> File \union {NoFile}] /\ db' \in [Tracks -> Row \union {NoRow}]
      /\ durable' \in [Tracks -> Row \union {NoRow}]
      /\ {edits', merges', faults', crashes', outages'} \subseteq Nat
      /\ \A t \in Tracks : /\ Present(src[t]) <=> Present(src'[t])
                           /\ db[t] # NoRow <=> db'[t] # NoRow
<1>1. UNCHANGED <<bak, stage, dir, junk, journal, app, op, phase, plan, todo, pc>>
  BY DEF EditRow, MirrorTags, Checkpoint, disk, recdir
<1>2. RowsAndFiles
  <2>1. CASE Checkpoint
    BY <2>1 DEF Inductive, TypeOK, Checkpoint, disk, bounds
  <2>2. ASSUME NEW t \in Tracks, EditRow(t) PROVE RowsAndFiles
    <3>1. [tags |-> edits', intent |-> TRUE] \in Row /\ edits' \in Nat
      BY <2>2 DEF EditRow, Inductive, TypeOK, Row
    <3> QED  BY <2>2, <3>1, Values DEF EditRow, Inductive, TypeOK, disk
  <2>3. ASSUME NEW t \in Tracks, MirrorTags(t) PROVE RowsAndFiles
    <3>1. db[t] \in Row  BY <2>3 DEF MirrorTags, Inductive, TypeOK
    <3>2. [db[t] EXCEPT !.intent = FALSE] \in Row  BY <3>1 DEF Row
    <3>3. src'[t] \in File /\ src' \in [Tracks -> File \union {NoFile}]
      BY <2>3, <3>1 DEF MirrorTags, Inductive, TypeOK, Row, File, Identities
    <3>4. db' = [db EXCEPT ![t] = [db[t] EXCEPT !.intent = FALSE]]
      BY <2>3 DEF MirrorTags
    <3>5. \A u \in Tracks \ {t} : src'[u] = src[u]
      BY <2>3 DEF MirrorTags, Inductive, TypeOK
    <3>6. Present(src[t]) /\ db[t] # NoRow /\ durable' = durable
          /\ UNCHANGED <<edits, merges, faults, crashes, outages>>
      BY <2>3 DEF MirrorTags, bounds
    <3> QED  BY <3>2, <3>3, <3>4, <3>5, <3>6, Values DEF Inductive, TypeOK, Present
  <2> QED  BY <2>1, <2>2, <2>3
<1>3. TypeOK'  BY <1>1, <1>2 DEF Inductive, TypeOK, Present, Backups
<1>4. \/ durable' = durable
      \/ (durable' = db /\ db' = db /\ src' = src)
  BY DEF EditRow, MirrorTags, Checkpoint, disk
<1>5. Lasting'
  BY <1>1, <1>2, <1>4
     DEF Inductive, Lasting, NoAudioLost, JournalSound, Survivor, Duplicates, OthersSettled,
         Selected, Settled, Present, DurableCovers, StageAfterLinks
<1>6. Selected' = Selected /\ Duplicates' = Duplicates /\ Survivor' = Survivor
  BY <1>1 DEF Selected, Duplicates, Survivor
<1>7. JournalAtHand' /\ DirectoryGone'
  BY <1>1 DEF Inductive, JournalAtHand, DirectoryGone
<1>8. Reconciling'
  BY <1>1, <1>2, <1>4 DEF Inductive, Reconciling, Settled, Present
<1>9. RollingBack' /\ Merging'
  BY <1>1, <1>2, <1>6, SelectedTracks DEF Inductive, RollingBack, Merging, Present, JournalAtHand
<1>10. CleaningUp'
  BY <1>1, <1>2, <1>4, <1>6, SelectedTracks
     DEF Inductive, CleaningUp, DurableCovers, Present, JournalAtHand
<1>11. Planned'
  BY <1>1, <1>2 DEF Inductive, Planned, Present, Merge
<1> QED  BY <1>3, <1>5, <1>7, <1>8, <1>9, <1>10, <1>11, Parts DEF Moment

-----------------------------------------------------------------------------
\* Recovery compares the rows with the journal.
LEMMA RecoverKeeps ==
    ASSUME Inductive, Recover
    PROVE  Inductive'
<1> USE DEF Recover, Loop, Go, disk, recdir, bounds
<1>1. /\ journal # NoMerge /\ journal \in Merge /\ Survivor \in Tracks
      /\ Selected = journal.selected /\ Selected \subseteq Tracks
      /\ Survivor \in Selected /\ Survivor \notin Duplicates
      /\ Selected = Duplicates \union {Survivor}
  BY SelectedTracks DEF Inductive
<1>2. /\ UNCHANGED <<src, bak, stage, dir, junk, journal, db, app, op, phase, plan,
                     edits, merges, faults, crashes, outages>>
      /\ durable' \in {db, durable}
  OBVIOUS
<1>3. Selected' = Selected /\ Duplicates' = Duplicates /\ Survivor' = Survivor
  BY <1>2 DEF Selected, Duplicates, Survivor
<1>4. pc' \in {"cleanup", "rollback", "fail"} /\ todo' \subseteq Tracks
  BY <1>1 DEF Inductive, TypeOK
<1>5. TypeOK'  BY <1>2, <1>4 DEF Inductive, TypeOK, Backups, Present
<1>6. Lasting'
  BY <1>2, <1>3 DEF Inductive, Lasting, NoAudioLost, JournalSound, OthersSettled,
     Settled, Present, DurableCovers, StageAfterLinks
<1>7. RollingBack'
  BY <1>1, <1>2, <1>3 DEF RollingBack, Exist
<1>8. CleaningUp'
  BY <1>1, <1>2, <1>3 DEF CleaningUp, Exist, Gone
<1>9. JournalAtHand' /\ Reconciling' /\ Planned' /\ Merging' /\ DirectoryGone'
  BY <1>1, <1>2, <1>4 DEF JournalAtHand, Reconciling, Planned, Merging, DirectoryGone
<1> QED  BY <1>5, <1>6, <1>7, <1>8, <1>9, Parts DEF Moment

\* One entry's file is put back.
LEMMA RollBackKeeps ==
    ASSUME Inductive, NEW t \in Tracks, RollBack(t)
    PROVE  Inductive'
<1> USE DEF Loop, Go
<1>1. /\ UNCHANGED <<dir, bak, stage, junk, journal, db, durable, app, op, phase, plan,
                     edits, merges, faults, crashes, outages>>
      /\ pc = "rollback" /\ t \in todo /\ pc' \in {"rollback", "fail"}
  BY DEF RollBack, Head, recdir, rows, bounds
<1>2. /\ journal # NoMerge /\ todo \subseteq Selected /\ t \in Selected
      /\ Selected \subseteq Tracks /\ Selected' = Selected
  BY <1>1, SelectedTracks DEF Inductive, JournalAtHand, RollingBack, Selected
<1>3. /\ src' \in [Tracks -> File \union {NoFile}]
      /\ \A u \in Tracks \ {t} : src'[u] = src[u]
      /\ Present(src'[t]) \/ Present(bak[t]) \/ src' = src
  BY DEF RollBack, Inductive, TypeOK, Present
<1>4. TypeOK'
  <2>1. todo' \subseteq Tracks  BY DEF RollBack, Inductive, TypeOK
  <2> QED  BY <1>1, <1>3, <2>1 DEF Inductive, TypeOK, Backups, Present
<1>5. Lasting'
  BY <1>1, <1>2, <1>3
     DEF Inductive, Lasting, NoAudioLost, JournalSound, Survivor, Duplicates, OthersSettled,
         Settled, Present, DurableCovers, StageAfterLinks
<1>6. ASSUME pc' = "rollback" PROVE todo' = todo \/ (todo' = todo \ {t} /\ Present(src'[t]))
  <2>1. CASE src' = src /\ todo' = todo \ {t} /\ Present(src[t])
    BY <2>1
  <2>2. CASE todo' = todo \ {t} /\ src' = [src EXCEPT ![t] = bak[t]] /\ Present(bak[t])
    BY <2>2 DEF Present, Inductive, TypeOK
  <2>3. CASE todo' = todo
    BY <2>3
  <2> QED  BY <1>6, <2>1, <2>2, <2>3 DEF RollBack, SameFile, Present
<1>7. RollingBack'
  BY <1>1, <1>2, <1>3, <1>6 DEF Inductive, RollingBack, Present
<1>8. JournalAtHand' /\ Reconciling' /\ CleaningUp' /\ Planned' /\ Merging' /\ DirectoryGone'
  BY <1>1, <1>2 DEF JournalAtHand, Reconciling, CleaningUp, Planned, Merging, DirectoryGone
<1> QED  BY <1>4, <1>5, <1>7, <1>8, Parts DEF Moment

\* One duplicate's file is taken away.
LEMMA CleanUpKeeps ==
    ASSUME Inductive, NEW t \in Tracks, CleanUp(t)
    PROVE  Inductive'
<1> USE DEF Loop, Go
<1>1. /\ UNCHANGED <<dir, bak, stage, junk, journal, db, durable, app, op, phase, plan,
                     edits, merges, faults, crashes, outages>>
      /\ pc = "cleanup" /\ t \in todo /\ pc' \in {"cleanup", "fail"}
  BY DEF CleanUp, Head, recdir, rows, bounds
<1>2. /\ journal # NoMerge /\ t \in Duplicates /\ t \in Selected /\ t # Survivor
      /\ Selected \subseteq Tracks /\ Selected' = Selected /\ Survivor \in Tracks
      /\ Duplicates' = Duplicates /\ Survivor' = Survivor
  BY <1>1, SelectedTracks
     DEF Inductive, JournalAtHand, CleaningUp, Selected, Duplicates, Survivor
<1>3. /\ src' \in [Tracks -> File \union {NoFile}]
      /\ \A u \in Tracks \ {t} : src'[u] = src[u]
      /\ Present(bak[t]) \/ src' = src
  BY DEF CleanUp, Inductive, TypeOK
<1>4. TypeOK'
  <2>1. todo' \subseteq Tracks  BY DEF CleanUp, Inductive, TypeOK
  <2> QED  BY <1>1, <1>3, <2>1 DEF Inductive, TypeOK, Backups, Present
<1>5. Lasting'
  BY <1>1, <1>2, <1>3
     DEF Inductive, Lasting, NoAudioLost, JournalSound, Survivor, Duplicates, OthersSettled,
         Settled, Present, DurableCovers, StageAfterLinks
<1>6. CleaningUp'
  <2> SUFFICES ASSUME pc' = "cleanup" PROVE CleaningUp'
    BY DEF CleaningUp
  <2>1. /\ Present(src[Survivor]) /\ todo' = todo \ {t} /\ src' = [src EXCEPT ![t] = NoFile]
    BY DEF CleanUp
  <2>2. Present(src'[Survivor]) /\ ~Present(src'[t])
    BY <1>2, <1>3, <2>1 DEF Present, Inductive, TypeOK
  <2> QED  BY <1>1, <1>2, <1>3, <2>1, <2>2, SelectedTracks DEF Inductive, CleaningUp, Present
<1>7. JournalAtHand' /\ Reconciling' /\ RollingBack' /\ Planned' /\ Merging' /\ DirectoryGone'
  BY <1>1, <1>2 DEF JournalAtHand, Reconciling, RollingBack, Planned, Merging, DirectoryGone
<1> QED  BY <1>4, <1>5, <1>6, <1>7, Parts DEF Moment

\* The files agree with the rows again.
LEMMA ReconciledKeeps ==
    ASSUME Inductive, Reconciled
    PROVE  Inductive'
<1> USE DEF Loop, Go
<1>1. /\ UNCHANGED <<src, dir, bak, stage, junk, journal, db, durable, app, op, phase, plan,
                     todo, edits, merges, faults, crashes, outages>>
      /\ pc \in {"rollback", "cleanup"} /\ todo = {} /\ pc' \in {"sweep", "unjournal"}
      /\ pc' = "unjournal" => ~dir
  BY DEF Reconciled, disk, recdir, rows, bounds
<1>2. /\ journal # NoMerge /\ Selected \subseteq Tracks /\ Survivor \notin Duplicates
      /\ Selected = Duplicates \union {Survivor} /\ Duplicates # {}
  BY <1>1, SelectedTracks DEF Inductive, JournalAtHand, JournalSound
<1>3. \A t \in Selected : Settled(t)
  <2>1. CASE pc = "rollback"
    BY <1>1, <1>2, <2>1 DEF Inductive, RollingBack, DurableCovers, Settled
  <2>2. CASE pc = "cleanup"
    BY <1>1, <1>2, <2>2 DEF Inductive, CleaningUp, DurableCovers, Settled
  <2> QED  BY <1>1, <2>1, <2>2
<1>4. Reconciling'
  BY <1>1, <1>3 DEF Inductive, OthersSettled, Reconciling, Settled
<1>5. TypeOK'  BY <1>1 DEF Inductive, TypeOK, Backups, Present
<1>6. Lasting'  BY <1>1, SameFiles, Parts DEF Present
<1>7. JournalAtHand' /\ RollingBack' /\ CleaningUp' /\ Planned' /\ Merging' /\ DirectoryGone'
  BY <1>1, <1>2 DEF JournalAtHand, RollingBack, CleaningUp, Planned, Merging, DirectoryGone
<1> QED  BY <1>4, <1>5, <1>6, <1>7, Parts DEF Moment

\* Recovery files go, and the directory after them.
LEMMA SweepKeeps ==
    ASSUME Inductive, RemoveStage \/ RemoveDirectory \/ \E t \in Tracks : RemoveBackup(t)
    PROVE  Inductive'
<1> DEFINE Swept ==
      /\ bak' \in [Tracks -> File \union {NoFile}] /\ stage' \in {stage, NoFile}
      /\ Backups' \subseteq Backups /\ dir' \in BOOLEAN
      /\ dir' = dir \/ (~Present(stage) /\ Backups = {} /\ dir' = junk)
      /\ bak' = bak \/ (~Present(stage) /\ stage' = stage)
      /\ pc' = "unjournal" => ~dir'
<1> USE DEF Loop, Go
<1>1. /\ UNCHANGED <<src, junk, journal, db, durable, app, op, phase, plan, todo,
                     edits, merges, faults, crashes, outages>>
      /\ pc = "sweep" /\ pc' \in {"sweep", "unjournal", "fail"}
  BY DEF RemoveStage, RemoveDirectory, RemoveBackup, rows, bounds
<1>2. /\ journal # NoMerge /\ \A t \in Tracks : Settled(t)
  BY <1>1 DEF Inductive, JournalAtHand, Reconciling
<1>3. Swept
  <2>1. CASE RemoveStage
    BY <1>1, <2>1 DEF RemoveStage, Inductive, TypeOK, Backups
  <2>2. CASE RemoveDirectory
    BY <1>1, <2>2 DEF RemoveDirectory, Inductive, TypeOK, Backups
  <2>3. ASSUME NEW t \in Tracks, RemoveBackup(t) PROVE Swept
    BY <1>1, <2>3 DEF RemoveBackup, Inductive, TypeOK, Backups, Present
  <2> QED  BY <2>1, <2>2, <2>3
<1>4. TypeOK'
  BY <1>1, <1>2, <1>3 DEF Inductive, TypeOK, Present
<1>5. Lasting'
  BY <1>1, <1>2, <1>3
     DEF Inductive, Lasting, NoAudioLost, JournalSound, Survivor, Duplicates, OthersSettled,
         Settled, Present, DurableCovers, StageAfterLinks, Selected
<1>6. Moment'
  BY <1>1, <1>2, <1>3 DEF Moment, JournalAtHand, Reconciling, Settled, RollingBack, CleaningUp,
                          Planned, Merging, DirectoryGone
<1> QED  BY <1>4, <1>5, <1>6, Parts

\* The journal goes last.
LEMMA RemoveJournalKeeps ==
    ASSUME Inductive, RemoveJournal
    PROVE  Inductive'
<1> USE DEF Loop, Go
<1>1. /\ UNCHANGED <<dir, bak, stage, junk, db, durable, app, op, phase, plan, todo,
                     edits, merges, faults, crashes, outages>>
      /\ pc = "unjournal" /\ pc' \in {"recover", "fail", "done"} /\ journal' = NoMerge
  BY DEF RemoveJournal, recdir, rows, bounds, Inductive, TypeOK
<1>2. ~dir /\ \A t \in Tracks : Settled(t)
  BY <1>1 DEF Inductive, DirectoryGone, Reconciling
<1>3. src' \in [Tracks -> File \union {NoFile}]
      /\ \A t \in Tracks : Present(src'[t]) <=> Present(src[t])
  <2>1. \A t \in Tracks : src[t] # NoFile => [src[t] EXCEPT !.id = "orig"] \in File
    BY DEF Inductive, TypeOK, File, Identities
  <2> QED  BY <2>1, Values DEF RemoveJournal, Present
<1>4. TypeOK'
  BY <1>1, <1>2, <1>3 DEF Inductive, TypeOK, Present, Backups
<1>5. Lasting'
  BY <1>1, <1>2, <1>3
     DEF Inductive, Lasting, NoAudioLost, JournalSound, OthersSettled, Settled, DurableCovers,
         StageAfterLinks, Selected, Present
<1> QED  BY <1>1, <1>4, <1>5, Quiet, Parts

-----------------------------------------------------------------------------
\* A merge is planned.
LEMMA PlanKeeps ==
    ASSUME Inductive, NEW s \in Tracks, NEW selected \in SUBSET Tracks,
           NEW reference \in Tracks, PlanMerge(s, selected, reference)
    PROVE  Inductive'
<1> USE DEF Go
<1>1. /\ UNCHANGED <<src, dir, bak, stage, junk, journal, db, durable, app, op, todo,
                     edits, merges, faults, crashes, outages>>
      /\ pc = "plan" /\ pc' = "journal" /\ phase' = "merging"
      /\ s \in selected /\ reference \in selected /\ Cardinality(selected) >= 2
      /\ \A t \in selected : db[t] # NoRow /\ Present(src[t])
      /\ plan' = [survivor |-> s, selected |-> selected, tags |-> db[reference].tags]
  BY DEF PlanMerge, Exist, disk, recdir, rows, bounds
<1>2. journal = NoMerge  BY <1>1 DEF Inductive, JournalAtHand
<1>3. db[reference] \in Row  BY <1>1 DEF Inductive, TypeOK
<1>4. plan' \in Merge /\ plan'.survivor = s /\ plan'.selected = selected
  BY <1>1, <1>3 DEF Merge, Row
<1>5. selected \ {s} # {}  BY <1>1, OthersMerged
<1>6. TypeOK'  BY <1>1, <1>4 DEF Inductive, TypeOK, Present, Backups
<1>7. Lasting'  BY <1>1, SameFiles, Parts DEF Present
<1>8. Planned'  BY <1>1, <1>4, <1>5 DEF Planned, Present
<1>9. JournalAtHand' /\ Reconciling' /\ RollingBack' /\ CleaningUp' /\ Merging' /\ DirectoryGone'
  BY <1>1, <1>2 DEF JournalAtHand, Reconciling, RollingBack, CleaningUp, Merging, DirectoryGone
<1> QED  BY <1>6, <1>7, <1>8, <1>9, Parts DEF Moment

\* The journal is published.
LEMMA JournalKeeps ==
    ASSUME Inductive, WriteJournal \/ JournalFails
    PROVE  Inductive'
<1> USE DEF Loop, Go
<1>1. /\ UNCHANGED <<src, dir, bak, stage, junk, db, durable, app, op, phase, plan>>
      /\ pc = "journal" /\ journal' = plan
      /\ \/ pc' = "link" /\ todo' = plan.selected
         \/ pc' = "fail" /\ todo' = todo
      /\ {edits', merges', faults', crashes', outages'} \subseteq Nat
  BY DEF WriteJournal, JournalFails, Fault, recdir, rows, bounds, Inductive, TypeOK
<1>2. /\ plan \in Merge /\ plan.survivor \in plan.selected /\ plan.selected \subseteq Tracks
      /\ plan.selected \ {plan.survivor} # {} /\ plan # NoMerge
      /\ \A t \in plan.selected : db[t] # NoRow /\ Present(src[t])
  BY <1>1, Values DEF Inductive, Planned, Merge
<1>3. journal = NoMerge /\ Selected = {} /\ ~dir /\ ~Present(stage)
  BY <1>1 DEF Inductive, JournalAtHand, Selected, TypeOK
<1>4. Selected' = plan.selected /\ Survivor' = plan.survivor
      /\ Duplicates' = plan.selected \ {plan.survivor}
  BY <1>1, <1>2 DEF Selected, Survivor, Duplicates
<1>5. TypeOK'  BY <1>1, <1>2, <1>3 DEF Inductive, TypeOK, Present, Backups
<1>6. Lasting'
  BY <1>1, <1>2, <1>3, <1>4
     DEF Inductive, Lasting, NoAudioLost, JournalSound, OthersSettled, Settled, DurableCovers,
         StageAfterLinks, Present
<1>7. Merging'  BY <1>1, <1>2, <1>4 DEF Merging, Present
<1>8. JournalAtHand' /\ Reconciling' /\ RollingBack' /\ CleaningUp' /\ Planned' /\ DirectoryGone'
  BY <1>1, <1>2 DEF JournalAtHand, Reconciling, RollingBack, CleaningUp, Planned, DirectoryGone
<1> QED  BY <1>5, <1>6, <1>7, <1>8, Parts DEF Moment

\* A selected file gets its second name.
LEMMA LinkBackupKeeps ==
    ASSUME Inductive, NEW t \in Tracks, LinkBackup(t)
    PROVE  Inductive'
<1> USE DEF Loop, Go
<1>1. /\ UNCHANGED <<src, stage, junk, journal, db, durable, app, op, phase, plan,
                     edits, merges, faults, crashes, outages>>
      /\ pc = "link" /\ pc' = "link" /\ t \in todo /\ todo' = todo \ {t}
      /\ dir' = TRUE /\ bak' = [bak EXCEPT ![t] = src[t]]
  BY DEF LinkBackup, Head, rows, bounds
<1>2. /\ journal # NoMerge /\ Selected \subseteq Tracks /\ Selected' = Selected
      /\ todo \subseteq Selected /\ Present(src[t])
  BY <1>1, SelectedTracks DEF Inductive, JournalAtHand, Merging, Selected
<1>3. /\ bak' \in [Tracks -> File \union {NoFile}] /\ Present(bak'[t])
      /\ \A u \in Tracks \ {t} : bak'[u] = bak[u]
  BY <1>1, <1>2 DEF Inductive, TypeOK, Present
<1>4. TypeOK'  BY <1>1, <1>2, <1>3 DEF Inductive, TypeOK
<1>5. Lasting'
  BY <1>1, <1>2, <1>3
     DEF Inductive, Lasting, NoAudioLost, JournalSound, Survivor, Duplicates, OthersSettled,
         Settled, DurableCovers, StageAfterLinks, Present
<1>6. Merging'  BY <1>1, <1>2, <1>3 DEF Inductive, Merging, Present
<1>7. JournalAtHand' /\ Reconciling' /\ RollingBack' /\ CleaningUp' /\ Planned' /\ DirectoryGone'
  BY <1>1, <1>2 DEF JournalAtHand, Reconciling, RollingBack, CleaningUp, Planned, DirectoryGone
<1> QED  BY <1>4, <1>5, <1>6, <1>7, Parts DEF Moment

\* The survivor is staged, once every backup is linked.
LEMMA StageKeeps ==
    ASSUME Inductive, StageSurvivor
    PROVE  Inductive'
<1> USE DEF Loop, Go
<1>1. /\ UNCHANGED <<src, dir, bak, junk, journal, db, durable, app, op, phase, plan, todo,
                     edits, merges, faults, crashes, outages>>
      /\ pc = "link" /\ pc' = "unlink" /\ todo = {}
      /\ stage' = [id |-> "stage", tags |-> journal.tags]
  BY DEF StageSurvivor, rows, bounds
<1>2. /\ journal # NoMerge /\ journal \in Merge /\ Survivor \in Selected
      /\ Selected \subseteq Tracks /\ Selected' = Selected
      /\ \A t \in Selected : Present(bak[t]) /\ db[t] # NoRow
  BY <1>1, SelectedTracks DEF Inductive, JournalAtHand, Merging, Selected
<1>3. stage' \in File  BY <1>1, <1>2 DEF File, Identities, Merge
<1>4. Survivor \in Backups  BY <1>2 DEF Backups
<1>5. TypeOK'  BY <1>1, <1>3, <1>4 DEF Inductive, TypeOK, Backups, Present
<1>6. Lasting'
  BY <1>1, <1>2
     DEF Inductive, Lasting, NoAudioLost, JournalSound, Survivor, Duplicates, OthersSettled,
         Settled, DurableCovers, StageAfterLinks, Present
<1>7. Merging'  BY <1>1, <1>2 DEF Merging, Present
<1>8. JournalAtHand' /\ Reconciling' /\ RollingBack' /\ CleaningUp' /\ Planned' /\ DirectoryGone'
  BY <1>1, <1>2 DEF JournalAtHand, Reconciling, RollingBack, CleaningUp, Planned, DirectoryGone
<1> QED  BY <1>5, <1>6, <1>7, <1>8, Parts DEF Moment

\* A selected file's path is taken away or gets the stage.
LEMMA ReplaceKeeps ==
    ASSUME Inductive, RemoveOriginal \/ LinkStage \/ \E t \in Tracks : RemoveDuplicate(t)
    PROVE  Inductive'
<1> USE DEF Loop, Go
<1>1. /\ UNCHANGED <<dir, bak, stage, junk, journal, db, durable, app, op, phase, plan,
                     edits, merges, faults, crashes, outages>>
      /\ pc \in {"unlink", "replace", "remove"} /\ pc' \in {"replace", "remove"}
  BY DEF RemoveOriginal, LinkStage, RemoveDuplicate, recdir, rows, bounds
<1>2. /\ journal # NoMerge /\ Survivor \in Tracks /\ Duplicates \subseteq Selected
      /\ Survivor \in Selected
      /\ Selected \subseteq Tracks /\ Selected' = Selected /\ Duplicates' = Duplicates
      /\ \A t \in Selected : Present(bak[t]) /\ db[t] # NoRow
  BY <1>1, SelectedTracks DEF Inductive, JournalAtHand, Merging, Selected, Duplicates, Survivor
<1> DEFINE Replaced ==
      /\ src' \in [Tracks -> File \union {NoFile}]
      /\ \A u \in Tracks \ Selected : src'[u] = src[u]
      /\ todo' \subseteq Tracks /\ (pc' = "remove" => todo' \subseteq Duplicates)
<1>3. Replaced
  <2>1. CASE RemoveOriginal
    BY <1>2, <2>1 DEF RemoveOriginal, Inductive, TypeOK
  <2>2. CASE LinkStage
    BY <1>2, <2>2 DEF LinkStage, Inductive, TypeOK
  <2>3. ASSUME NEW t \in Tracks, RemoveDuplicate(t) PROVE Replaced
    <3>1. t \in Duplicates /\ todo' \subseteq Duplicates
      BY <2>3 DEF RemoveDuplicate, Head, Inductive, Merging
    <3> QED  BY <1>2, <2>3, <3>1 DEF RemoveDuplicate, Inductive, TypeOK
  <2> QED  BY <2>1, <2>2, <2>3
<1>4. TypeOK'  BY <1>1, <1>3 DEF Inductive, TypeOK, Backups, Present
<1>5. Lasting'
  BY <1>1, <1>2, <1>3
     DEF Inductive, Lasting, NoAudioLost, JournalSound, Survivor, Duplicates, OthersSettled,
         Settled, DurableCovers, StageAfterLinks, Present
<1>6. Merging'  BY <1>1, <1>2, <1>3 DEF Merging, Present
<1>7. JournalAtHand' /\ Reconciling' /\ RollingBack' /\ CleaningUp' /\ Planned' /\ DirectoryGone'
  BY <1>1, <1>2 DEF JournalAtHand, Reconciling, RollingBack, CleaningUp, Planned, DirectoryGone
<1> QED  BY <1>4, <1>5, <1>6, <1>7, Parts DEF Moment

\* The rows are committed; no backup has gone.
LEMMA CommitKeeps ==
    ASSUME Inductive, Commit
    PROVE  Inductive'
<1> USE DEF Go
<1>1. /\ UNCHANGED <<src, dir, bak, stage, junk, journal, durable, app, op, plan, todo,
                     edits, merges, faults, crashes, outages>>
      /\ pc = "remove" /\ pc' = "flush" /\ phase' = "committed"
      /\ db' = [t \in Tracks |->
                  IF t = Survivor THEN [tags |-> journal.tags, intent |-> FALSE]
                  ELSE IF t \in Duplicates THEN NoRow ELSE db[t]]
  BY DEF Commit, disk, recdir, bounds
<1>2. /\ journal # NoMerge /\ journal \in Merge /\ Survivor \in Tracks
      /\ Survivor \in Selected /\ Survivor \notin Duplicates
      /\ Selected = Duplicates \union {Survivor}
      /\ Selected \subseteq Tracks /\ Selected' = Selected /\ Duplicates' = Duplicates
      /\ Survivor' = Survivor
      /\ \A t \in Selected : Present(bak[t]) /\ db[t] # NoRow
  BY <1>1, SelectedTracks DEF Inductive, JournalAtHand, Merging, Selected, Duplicates, Survivor
<1>3. [tags |-> journal.tags, intent |-> FALSE] \in Row  BY <1>2 DEF Merge, Row
<1>4. /\ db' \in [Tracks -> Row \union {NoRow}]
      /\ db'[Survivor] # NoRow /\ \A t \in Duplicates : db'[t] = NoRow
      /\ \A t \in Tracks : db'[t] # NoRow => db[t] # NoRow
      /\ \A t \in Tracks \ Selected : db'[t] = db[t]
  BY <1>1, <1>2, <1>3, Values DEF Inductive, TypeOK
<1>5. TypeOK'  BY <1>1, <1>4 DEF Inductive, TypeOK, Backups, Present
<1>6. Lasting'
  BY <1>1, <1>2, <1>4
     DEF Inductive, Lasting, NoAudioLost, JournalSound, OthersSettled,
         Settled, DurableCovers, StageAfterLinks, Present
<1>7. Merging'  BY <1>1, <1>2, <1>4 DEF Merging
<1>8. JournalAtHand' /\ Reconciling' /\ RollingBack' /\ CleaningUp' /\ Planned' /\ DirectoryGone'
  BY <1>1, <1>2 DEF JournalAtHand, Reconciling, RollingBack, CleaningUp, Planned, DirectoryGone
<1> QED  BY <1>5, <1>6, <1>7, <1>8, Parts DEF Moment

\* The commit is made durable before the cleanup starts.
LEMMA FlushKeeps ==
    ASSUME Inductive, FlushDurable
    PROVE  Inductive'
<1> USE DEF Loop, Go
<1>1. /\ UNCHANGED <<src, dir, bak, stage, junk, journal, db, app, op, phase, plan,
                     edits, merges, faults, crashes, outages>>
      /\ pc = "flush" /\ pc' = "cleanup" /\ durable' = db /\ todo' = Duplicates
  BY DEF FlushDurable, disk, recdir, bounds
<1>2. /\ journal # NoMerge /\ Duplicates \subseteq Selected /\ Selected \subseteq Tracks
      /\ Selected' = Selected /\ Duplicates' = Duplicates /\ Survivor' = Survivor
      /\ db[Survivor] # NoRow /\ \A t \in Duplicates : db[t] = NoRow
  BY <1>1, SelectedTracks DEF Inductive, JournalAtHand, Merging, Selected, Duplicates, Survivor
<1>3. TypeOK'  BY <1>1, <1>2 DEF Inductive, TypeOK, Backups, Present
<1>4. Lasting'
  BY <1>1, <1>2
     DEF Inductive, Lasting, NoAudioLost, JournalSound, OthersSettled,
         Settled, DurableCovers, StageAfterLinks, Present
<1>5. CleaningUp'  BY <1>1, <1>2 DEF CleaningUp
<1>6. JournalAtHand' /\ Reconciling' /\ RollingBack' /\ Planned' /\ Merging' /\ DirectoryGone'
  BY <1>1, <1>2 DEF JournalAtHand, Reconciling, RollingBack, Planned, Merging, DirectoryGone
<1> QED  BY <1>3, <1>4, <1>5, <1>6, Parts DEF Moment

-----------------------------------------------------------------------------
\* Every step keeps the invariant.
LEMMA StepKeeps == Inductive /\ [Next]_vars => Inductive'
<1> SUFFICES ASSUME Inductive, [Next]_vars PROVE Inductive'
  OBVIOUS
<1>1. CASE UNCHANGED vars
  BY <1>1 DEF vars, disk, recdir, rows, bounds, Inductive, TypeOK, NoAudioLost, JournalSound,
     JournalAtHand, OthersSettled, Selected, Settled, Reconciling, DurableCovers, RollingBack,
     CleaningUp, Planned, Merging, StageAfterLinks, DirectoryGone, Survivor, Duplicates,
     Backups, Present
<1>2. CASE Step
  BY <1>2, RecoverKeeps, QuietKeeps, ReconciledKeeps, SweepKeeps, RemoveJournalKeeps,
     JournalKeeps, StageKeeps, ReplaceKeeps, CommitKeeps, FlushKeeps, CallFailsKeeps,
     RemovalFailsKeeps, RollBackKeeps, CleanUpKeeps, LinkBackupKeeps, PlanKeeps DEF Step
<1> QED
  BY <1>1, <1>2, QuietKeeps, SurroundingsKeep, StopKeeps DEF Next

\* The invariant holds throughout.
THEOREM Invariance == Spec => []Inductive
  BY Initially, StepKeeps, PTL DEF Spec

\* Every variable keeps its type; a recovery directory is always a journal's.
THEOREM TypeCorrect == Spec => []TypeOK
<1>1. Inductive => TypeOK  BY DEF Inductive
<1> QED  BY <1>1, Invariance, PTL

\* Whatever fails, and whenever the process or the power does, no row's audio
\* is lost (NoAudioLost).
THEOREM AudioKept == Spec => []NoAudioLost
<1>1. Inductive => NoAudioLost  BY DEF Inductive
<1> QED  BY <1>1, Invariance, PTL

\* A merge happens entirely or not at all (AllOrNothing).
THEOREM EntirelyOrNot == Spec => []AllOrNothing
<1>1. Inductive => AllOrNothing
  <2> SUFFICES ASSUME Inductive, journal = NoMerge
               PROVE  ~dir /\ \A t \in Tracks, r \in {db, durable} :
                                 r[t] # NoRow <=> Present(src[t])
    BY DEF AllOrNothing
  <2>1. \A t \in Tracks : Settled(t)  BY DEF Inductive, OthersSettled, Selected
  <2> QED  BY <2>1 DEF Inductive, TypeOK, Settled
<1> QED  BY <1>1, Invariance, PTL

-----------------------------------------------------------------------------
(* The tags files carry.                                                   *)

\* What a file carries is what the row says, or an intent will write it.
Carries(f, t)  == db[t].intent \/ f.tags = db[t].tags
Mirrored(t) == db[t] # NoRow /\ Present(src[t]) => Carries(src[t], t)
BackedUp(t) == db[t] # NoRow /\ Present(bak[t]) => Carries(bak[t], t)
Staged(t)   == SameFile(src[t], stage)

\* Nothing runs between operations.
Resting == op = "none" => pc = "idle"

\* Which file is which: a backup is a file the journal recorded, and so is a
\* source that is the same file; without a journal every source is of that kind.
Identified ==
    /\ \A t \in Tracks : Present(bak[t]) => bak[t].id = "orig"
    /\ \A t \in Tracks : SameFile(src[t], bak[t]) => src[t] = bak[t]
    /\ Present(stage) => stage.id = "stage" /\ stage.tags = journal.tags
    /\ journal = NoMerge => \A t \in Tracks : Present(src[t]) => src[t].id = "orig"
    /\ pc = "link" => \A t \in Selected : src[t].id = "orig"

Merges == pc \in {"link", "unlink", "replace", "remove"}

\* The merge under way: whose tags are right where.
MergeTagged ==
    /\ pc = "link" => \A t \in Selected : Mirrored(t)
    /\ Merges => \A t \in Selected : BackedUp(t)
    /\ pc \in {"unlink", "replace", "remove"} => Present(stage)
    /\ pc = "remove" => src[Survivor] = stage

\* Its recovery: what it has given back, and what it may still have to.
JournalTagged ==
    journal # NoMerge =>
       \/ Exist({Survivor}) /\ Gone(Duplicates) /\ Mirrored(Survivor)
       \/ /\ Exist(Selected)
          /\ \A t \in Selected :
                /\ Mirrored(t) \/ (t = Survivor /\ Staged(t))
                /\ ~Present(src[t]) \/ SameFile(src[t], bak[t]) \/ Staged(t) => BackedUp(t)

RecoveryTagged ==
    /\ \A t \in Tracks \ Selected : Mirrored(t)
    /\ pc = "rollback" => \A t \in Selected \ todo : Mirrored(t)
    /\ pc \in {"sweep", "unjournal"} => \A t \in Tracks : Mirrored(t)

TagsRight == outages = 0 => MergeTagged /\ JournalTagged /\ RecoveryTagged

\* A row the user or the online scheduler has edited has an intent.
LEMMA EditedRow ==
    ASSUME TypeOK, NEW t \in Tracks, EditRow(t)
    PROVE  /\ db[t] # NoRow /\ db'[t] # NoRow /\ db'[t].intent
           /\ \A u \in Tracks : u # t => db'[u] = db[u]
<1> DEFINE row == [tags |-> edits', intent |-> TRUE]
<1>1. row \in Row /\ row.intent
  BY DEF TypeOK, EditRow, Row
<1>2. db[t] # NoRow /\ db'[t] = row /\ \A u \in Tracks : u # t => db'[u] = db[u]
  BY DEF TypeOK, EditRow
<1> HIDE DEF row
<1> QED
  BY <1>1, <1>2, Values

\* A row whose intent is cleared keeps its tags.
LEMMA ClearedRow ==
    ASSUME db \in [Tracks -> Row \union {NoRow}], NEW t \in Tracks, db[t] # NoRow,
           db' = [db EXCEPT ![t].intent = FALSE]
    PROVE  /\ db'[t] # NoRow /\ db'[t].tags = db[t].tags
           /\ \A u \in Tracks : u # t => db'[u] = db[u]
<1>1. db[t] \in Row
  OBVIOUS
<1>2. db'[t] = [db[t] EXCEPT !.intent = FALSE] /\ \A u \in Tracks : u # t => db'[u] = db[u]
  OBVIOUS
<1>3. ASSUME NEW r \in Row PROVE /\ [r EXCEPT !.intent = FALSE] \in Row
                                 /\ [r EXCEPT !.intent = FALSE].tags = r.tags
  BY DEF Row
<1> QED
  BY <1>1, <1>2, <1>3, Values

\* An operation has its steps, and nothing has any between two.
LEMMA RestingStep ==
    ASSUME Resting, [Next]_vars
    PROVE  Resting'
<1> USE DEF Resting, disk, recdir, rows, bounds, Go, Loop, Begin, Fault, Failed, Stop, HandOffLeft,
      Present, SameFile, Selected, Survivor, Duplicates, Exist, Gone, Backups, Head, Removing, Undo
<1>1. CASE SetLibraryServices
  BY <1>1 DEF SetLibraryServices
<1>2. CASE ConsolidateDuplicates
  BY <1>2 DEF ConsolidateDuplicates
<1>3. CASE Recover
  BY <1>3 DEF Recover
<1>4. CASE Recovered
  BY <1>4 DEF Recovered
<1>5. CASE Reconciled
  BY <1>5 DEF Reconciled
<1>6. CASE RemoveStage
  BY <1>6 DEF RemoveStage
<1>7. CASE RemoveDirectory
  BY <1>7 DEF RemoveDirectory
<1>8. CASE RemoveJournal
  BY <1>8 DEF RemoveJournal
<1>9. CASE PlanRejected
  BY <1>9 DEF PlanRejected
<1>10. CASE WriteJournal
  BY <1>10 DEF WriteJournal
<1>11. CASE StageSurvivor
  BY <1>11 DEF StageSurvivor
<1>12. CASE RemoveOriginal
  BY <1>12 DEF RemoveOriginal
<1>13. CASE LinkStage
  BY <1>13 DEF LinkStage
<1>14. CASE Commit
  BY <1>14 DEF Commit
<1>15. CASE FlushDurable
  BY <1>15 DEF FlushDurable
<1>16. CASE CallFails
  BY <1>16 DEF CallFails
<1>17. CASE JournalFails
  BY <1>17 DEF JournalFails
<1>18. CASE RemovalFails
  BY <1>18 DEF RemovalFails
<1>19. CASE Finish
  BY <1>19 DEF Finish
<1>20. CASE Checkpoint
  BY <1>20 DEF Checkpoint
<1>21. CASE Crash
  BY <1>21 DEF Crash
<1>22. CASE PowerFailure
  BY <1>22 DEF PowerFailure
<1>23. CASE \E t \in Tracks : RollBack(t)
  BY <1>23 DEF RollBack
<1>24. CASE \E t \in Tracks : CleanUp(t)
  BY <1>24 DEF CleanUp
<1>25. CASE \E t \in Tracks : RemoveBackup(t)
  BY <1>25 DEF RemoveBackup
<1>26. CASE \E t \in Tracks : LinkBackup(t)
  BY <1>26 DEF LinkBackup
<1>27. CASE \E t \in Tracks : RemoveDuplicate(t)
  BY <1>27 DEF RemoveDuplicate
<1>28. CASE \E t \in Tracks : EditRow(t)
  BY <1>28 DEF EditRow
<1>29. CASE \E t \in Tracks : MirrorTags(t)
  BY <1>29 DEF MirrorTags
<1>30. CASE \E t \in Tracks, selected \in SUBSET Tracks, reference \in Tracks :
               PlanMerge(t, selected, reference)
  BY <1>30 DEF PlanMerge
<1>31. CASE UNCHANGED vars
  BY <1>31 DEF vars
<1> QED
  BY <1>1, <1>2, <1>3, <1>4, <1>5, <1>6, <1>7, <1>8, <1>9, <1>10, <1>11, <1>12, <1>13, <1>14, <1>15,
     <1>16, <1>17, <1>18, <1>19, <1>20, <1>21, <1>22, <1>23, <1>24, <1>25, <1>26, <1>27, <1>28,
     <1>29, <1>30, <1>31 DEF Next, Step

\* A step mistakes no file for another.
LEMMA IdentifiedStep ==
    ASSUME Inductive, Inductive', [Next]_vars, Resting, Identified
    PROVE  Identified'
<1> USE Values, SelectedTracks
  DEF Resting, Inductive, TypeOK, File, Identified, JournalAtHand, DirectoryGone, disk, recdir,
     rows, bounds, Go, Loop, Begin, Fault, Failed, Stop, HandOffLeft,
      Present, SameFile, Selected, Survivor, Duplicates, Exist, Gone, Backups, Head, Removing, Undo
<1>1. CASE SetLibraryServices
  BY <1>1 DEF SetLibraryServices
<1>2. CASE ConsolidateDuplicates
  BY <1>2 DEF ConsolidateDuplicates
<1>3. CASE Recover
  BY <1>3 DEF Recover
<1>4. CASE Recovered
  BY <1>4 DEF Recovered
<1>5. CASE Reconciled
  BY <1>5 DEF Reconciled
<1>6. CASE RemoveStage
  BY <1>6 DEF RemoveStage
<1>7. CASE RemoveDirectory
  BY <1>7 DEF RemoveDirectory
<1>8. CASE RemoveJournal
  BY <1>8 DEF RemoveJournal
<1>9. CASE PlanRejected
  BY <1>9 DEF PlanRejected
<1>10. CASE WriteJournal
  <2>1. /\ journal = NoMerge /\ plan \in Merge /\ journal' = plan /\ plan # NoMerge
        /\ UNCHANGED <<src, bak, stage>> /\ ~Present(stage)
        /\ \A t \in plan.selected : t \in Tracks /\ Present(src[t])
    BY <1>10 DEF WriteJournal, Planned, Merge
  <2>2. \A t \in plan.selected : src[t].id = "orig"
    BY <2>1
  <2>3. Selected' = plan.selected
    BY <2>1
  <2> QED
    BY <2>1, <2>2, <2>3
<1>11. CASE StageSurvivor
  BY <1>11 DEF StageSurvivor
<1>12. CASE RemoveOriginal
  BY <1>12 DEF RemoveOriginal
<1>13. CASE LinkStage
  BY <1>13 DEF LinkStage
<1>14. CASE Commit
  BY <1>14 DEF Commit
<1>15. CASE FlushDurable
  BY <1>15 DEF FlushDurable
<1>16. CASE CallFails
  BY <1>16 DEF CallFails
<1>17. CASE JournalFails
  BY <1>17 DEF JournalFails
<1>18. CASE RemovalFails
  BY <1>18 DEF RemovalFails
<1>19. CASE Finish
  BY <1>19 DEF Finish
<1>20. CASE Checkpoint
  BY <1>20 DEF Checkpoint
<1>21. CASE Crash
  <2>1. /\ UNCHANGED journal /\ pc' = "idle" /\ stage' \in {stage, NoFile}
        /\ \A t \in Tracks : src'[t] \in {src[t], NoFile} /\ bak'[t] \in {bak[t], NoFile}
    BY <1>21 DEF Crash
  <2> QED
    BY <2>1
<1>22. CASE PowerFailure
  <2>1. /\ UNCHANGED journal /\ pc' = "idle" /\ stage' \in {stage, NoFile}
        /\ \A t \in Tracks : src'[t] \in {src[t], NoFile} /\ bak'[t] \in {bak[t], NoFile}
    BY <1>22 DEF PowerFailure
  <2> QED
    BY <2>1
<1>23. CASE \E t \in Tracks : RollBack(t)
  BY <1>23 DEF RollBack
<1>24. CASE \E t \in Tracks : CleanUp(t)
  BY <1>24 DEF CleanUp
<1>25. CASE \E t \in Tracks : RemoveBackup(t)
  BY <1>25 DEF RemoveBackup
<1>26. CASE \E t \in Tracks : LinkBackup(t)
  <2>1. PICK t \in Tracks : LinkBackup(t)
    BY <1>26
  <2>2. /\ t \in todo /\ pc = "link" /\ UNCHANGED <<src, stage, journal>>
        /\ bak' = [bak EXCEPT ![t] = src[t]] /\ pc' = "link"
    BY <2>1 DEF LinkBackup
  <2>3. t \in Selected /\ src[t].id = "orig"
    BY <2>2 DEF Merging
  <2> QED
    BY <2>2, <2>3
<1>27. CASE \E t \in Tracks : RemoveDuplicate(t)
  BY <1>27 DEF RemoveDuplicate
<1>28. CASE \E t \in Tracks : EditRow(t)
  BY <1>28 DEF EditRow
<1>29. CASE \E t \in Tracks : MirrorTags(t)
  BY <1>29 DEF MirrorTags
<1>30. CASE \E t \in Tracks, selected \in SUBSET Tracks, reference \in Tracks :
               PlanMerge(t, selected, reference)
  BY <1>30 DEF PlanMerge
<1>31. CASE UNCHANGED vars
  BY <1>31 DEF vars
<1> QED
  BY <1>1, <1>2, <1>3, <1>4, <1>5, <1>6, <1>7, <1>8, <1>9, <1>10, <1>11, <1>12, <1>13, <1>14, <1>15,
     <1>16, <1>17, <1>18, <1>19, <1>20, <1>21, <1>22, <1>23, <1>24, <1>25, <1>26, <1>27, <1>28,
     <1>29, <1>30, <1>31 DEF Next, Step

\* A step of a merge backs up what carries its row's tags.
LEMMA MergeTaggedStep ==
    ASSUME Inductive, Inductive', [Next]_vars, Resting, Identified, outages' = 0, TagsRight
    PROVE  MergeTagged'
<1> USE Values, SelectedTracks
  DEF Resting, Inductive, TypeOK, File, Row, Identified, JournalAtHand, JournalSound, Planned,
     Merging,
      TagsRight, MergeTagged, JournalTagged, RecoveryTagged, Merges, Carries, Mirrored, BackedUp,
         Staged, disk, recdir, rows, bounds, Go, Loop, Begin, Fault, Failed, Stop, HandOffLeft,
      Present, SameFile, Selected, Survivor, Duplicates, Exist, Gone, Backups, Head, Removing, Undo
<1>1. CASE SetLibraryServices
  BY <1>1 DEF SetLibraryServices
<1>2. CASE ConsolidateDuplicates
  BY <1>2 DEF ConsolidateDuplicates
<1>3. CASE Recover
  BY <1>3 DEF Recover
<1>4. CASE Recovered
  BY <1>4 DEF Recovered
<1>5. CASE Reconciled
  BY <1>5 DEF Reconciled
<1>6. CASE RemoveStage
  BY <1>6 DEF RemoveStage
<1>7. CASE RemoveDirectory
  BY <1>7 DEF RemoveDirectory
<1>8. CASE RemoveJournal
  BY <1>8 DEF RemoveJournal
<1>9. CASE PlanRejected
  BY <1>9 DEF PlanRejected
<1>10. CASE WriteJournal
  BY <1>10 DEF WriteJournal
<1>11. CASE StageSurvivor
  <2>1. /\ pc = "link" /\ pc' = "unlink" /\ todo = {}
        /\ UNCHANGED <<src, bak, journal, db, outages>>
        /\ stage' = [id |-> "stage", tags |-> journal.tags]
    BY <1>11 DEF StageSurvivor
  <2>2. Present(stage')
    <3>1. journal \in Merge
      BY <2>1
    <3>2. stage' \in File
      BY <2>1, <3>1 DEF Merge, Identities
    <3> QED
      BY <3>2
  <2> QED
    BY <2>1, <2>2
<1>12. CASE RemoveOriginal
  BY <1>12 DEF RemoveOriginal
<1>13. CASE LinkStage
  BY <1>13 DEF LinkStage
<1>14. CASE Commit
  BY <1>14 DEF Commit
<1>15. CASE FlushDurable
  BY <1>15 DEF FlushDurable
<1>16. CASE CallFails
  BY <1>16 DEF CallFails
<1>17. CASE JournalFails
  BY <1>17 DEF JournalFails
<1>18. CASE RemovalFails
  BY <1>18 DEF RemovalFails
<1>19. CASE Finish
  BY <1>19 DEF Finish
<1>20. CASE Checkpoint
  BY <1>20 DEF Checkpoint
<1>21. CASE Crash
  BY <1>21 DEF Crash
<1>22. CASE PowerFailure
  BY <1>22 DEF PowerFailure
<1>23. CASE \E t \in Tracks : RollBack(t)
  BY <1>23 DEF RollBack
<1>24. CASE \E t \in Tracks : CleanUp(t)
  BY <1>24 DEF CleanUp
<1>25. CASE \E t \in Tracks : RemoveBackup(t)
  BY <1>25 DEF RemoveBackup
<1>26. CASE \E t \in Tracks : LinkBackup(t)
  BY <1>26 DEF LinkBackup
<1>27. CASE \E t \in Tracks : RemoveDuplicate(t)
  BY <1>27 DEF RemoveDuplicate
<1>28. CASE \E t \in Tracks : EditRow(t)
  BY <1>28 DEF EditRow
<1>29. CASE \E t \in Tracks : MirrorTags(t)
  BY <1>29 DEF MirrorTags
<1>30. CASE \E t \in Tracks, selected \in SUBSET Tracks, reference \in Tracks :
               PlanMerge(t, selected, reference)
  BY <1>30 DEF PlanMerge
<1>31. CASE UNCHANGED vars
  BY <1>31 DEF vars
<1> QED
  BY <1>1, <1>2, <1>3, <1>4, <1>5, <1>6, <1>7, <1>8, <1>9, <1>10, <1>11, <1>12, <1>13, <1>14, <1>15,
     <1>16, <1>17, <1>18, <1>19, <1>20, <1>21, <1>22, <1>23, <1>24, <1>25, <1>26, <1>27, <1>28,
     <1>29, <1>30, <1>31 DEF Next, Step

\* So does a removal that stops at its handoff name: the file it takes away is
\* one that recovery does not need, or one that it has a backup of.
LEMMA HandOffTagged ==
    ASSUME Inductive, Resting, Identified, outages = 0, TagsRight, HandOffLeft, UNCHANGED db
    PROVE  JournalTagged'
<1> USE Values, SelectedTracks
  DEF Resting, Inductive, TypeOK, File, Row, Identified, JournalAtHand, JournalSound, Planned,
     Merging,
      TagsRight, MergeTagged, JournalTagged, RecoveryTagged, Merges, Carries, Mirrored, BackedUp,
         Staged, Present, SameFile, Selected, Survivor, Duplicates, Exist, Gone, Backups, Head,
         Removing, Undo
<1>1. UNCHANGED <<journal, db>> /\ stage' \in {stage, NoFile}
  BY DEF HandOffLeft
<1>2. \A t \in Tracks : src'[t] \in {src[t], NoFile}
  BY DEF HandOffLeft
<1>3. \A t \in Tracks : bak'[t] \in {bak[t], NoFile}
  BY DEF HandOffLeft
<1>4. stage' # stage => pc = "sweep"
  BY DEF HandOffLeft
<1>5. ASSUME NEW t \in Selected, src'[t] # src[t], Exist(Selected), journal # NoMerge
      PROVE  BackedUp(t)
  BY <1>5 DEF HandOffLeft
<1> QED
  BY <1>1, <1>2, <1>3, <1>4, <1>5

\* A step leaves a journal whose recovery gives back the right tags.
LEMMA JournalTaggedStep ==
    ASSUME Inductive, Inductive', [Next]_vars, Resting, Identified, outages' = 0, TagsRight
    PROVE  JournalTagged'
<1> USE Values, SelectedTracks
  DEF Resting, Inductive, TypeOK, File, Row, Identified, JournalAtHand, JournalSound, Planned,
     Merging,
      TagsRight, MergeTagged, JournalTagged, RecoveryTagged, Merges, Carries, Mirrored, BackedUp,
         Staged, disk, recdir, rows, bounds, Go, Loop, Begin, Fault, Failed, Stop, HandOffLeft,
      Present, SameFile, Selected, Survivor, Duplicates, Exist, Gone, Backups, Head, Removing, Undo
<1>1. CASE SetLibraryServices
  BY <1>1 DEF SetLibraryServices
<1>2. CASE ConsolidateDuplicates
  BY <1>2 DEF ConsolidateDuplicates
<1>3. CASE Recover
  BY <1>3 DEF Recover
<1>4. CASE Recovered
  BY <1>4 DEF Recovered
<1>5. CASE Reconciled
  BY <1>5 DEF Reconciled
<1>6. CASE RemoveStage
  BY <1>6 DEF RemoveStage
<1>7. CASE RemoveDirectory
  BY <1>7 DEF RemoveDirectory
<1>8. CASE RemoveJournal
  BY <1>8 DEF RemoveJournal
<1>9. CASE PlanRejected
  BY <1>9 DEF PlanRejected
<1>10. CASE WriteJournal
  BY <1>10 DEF WriteJournal
<1>11. CASE StageSurvivor
  BY <1>11 DEF StageSurvivor
<1>12. CASE RemoveOriginal
  BY <1>12 DEF RemoveOriginal
<1>13. CASE LinkStage
  BY <1>13 DEF LinkStage
<1>14. CASE Commit
  BY <1>14 DEF Commit
<1>15. CASE FlushDurable
  BY <1>15 DEF FlushDurable
<1>16. CASE CallFails
  BY <1>16 DEF CallFails
<1>17. CASE JournalFails
  <2>1. /\ journal = NoMerge /\ plan \in Merge /\ journal' = plan /\ plan # NoMerge
        /\ UNCHANGED <<src, bak, stage, db, outages>> /\ ~Present(stage)
        /\ \A t \in plan.selected : t \in Tracks /\ db[t] # NoRow
        /\ \A t \in Tracks : ~Present(bak[t])
    BY <1>17 DEF JournalFails, Planned, Merge
  <2>2. Selected' = plan.selected /\ \A t \in plan.selected : Mirrored(t)
    BY <2>1
  <2> QED
    BY <2>1, <2>2
<1>18. CASE RemovalFails
  <2>1. HandOffLeft /\ UNCHANGED <<db, outages>>
    BY <1>18 DEF RemovalFails
  <2> QED
    BY <2>1, HandOffTagged
<1>19. CASE Finish
  BY <1>19 DEF Finish
<1>20. CASE Checkpoint
  BY <1>20 DEF Checkpoint
<1>21. CASE Crash
  <2>1. (HandOffLeft \/ UNCHANGED disk) /\ UNCHANGED <<db, outages>>
    BY <1>21 DEF Crash
  <2>2. CASE HandOffLeft
    BY <2>1, <2>2, HandOffTagged
  <2>3. CASE UNCHANGED disk
    BY <2>1, <2>3
  <2> QED
    BY <2>1, <2>2, <2>3
<1>22. CASE PowerFailure
  BY <1>22 DEF PowerFailure
<1>23. CASE \E t \in Tracks : RollBack(t)
  <2>1. PICK t \in Tracks : RollBack(t)
    BY <1>23
  <2>2. /\ UNCHANGED <<bak, stage, journal, db, outages>> /\ t \in Selected
        /\ \/ src' = src
           \/ ~Present(src[t]) /\ Present(bak[t]) /\ src' = [src EXCEPT ![t] = bak[t]]
           \/ Staged(t) /\ src' = [src EXCEPT ![t] = NoFile]
    BY <2>1 DEF RollBack, RollingBack
  <2>3. CASE src' = src
    BY <2>2, <2>3
  <2>4. CASE src' # src
    <3>1. Exist(Selected) /\ BackedUp(t)
      BY <1>23, <2>1, <2>2, <2>4 DEF RollBack, RollingBack
    <3>2. Mirrored(t)' /\ BackedUp(t)' /\ \A u \in Tracks : u # t => src'[u] = src[u]
      BY <2>2, <2>4, <3>1
    <3> QED
      BY <2>2, <2>4, <3>1, <3>2
  <2> QED
    BY <2>3, <2>4
<1>24. CASE \E t \in Tracks : CleanUp(t)
  BY <1>24 DEF CleanUp
<1>25. CASE \E t \in Tracks : RemoveBackup(t)
  BY <1>25 DEF RemoveBackup
<1>26. CASE \E t \in Tracks : LinkBackup(t)
  BY <1>26 DEF LinkBackup
<1>27. CASE \E t \in Tracks : RemoveDuplicate(t)
  BY <1>27 DEF RemoveDuplicate
<1>28. CASE \E t \in Tracks : EditRow(t)
  <2>1. PICK t \in Tracks : EditRow(t)
    BY <1>28
  <2>2. /\ db[t] # NoRow /\ db'[t] # NoRow /\ db'[t].intent
        /\ \A u \in Tracks : u # t => db'[u] = db[u]
    BY <2>1, EditedRow
  <2>3. UNCHANGED <<src, bak, stage, journal, outages>>
    BY <2>1 DEF EditRow
  <2>4. Mirrored(t)' /\ BackedUp(t)'
    BY <2>2, <2>3
  <2> QED
    BY <2>2, <2>3, <2>4
<1>29. CASE \E t \in Tracks : MirrorTags(t)
  <2>1. PICK t \in Tracks : MirrorTags(t)
    BY <1>29
  <2>2. /\ UNCHANGED <<bak, stage, journal, outages>>
        /\ db[t] # NoRow /\ db'[t] # NoRow /\ db'[t].tags = db[t].tags
        /\ Present(src[t]) /\ src'[t].tags = db[t].tags
        /\ \A u \in Tracks : u # t => db'[u] = db[u] /\ src'[u] = src[u]
    <3>1. db[t] \in Row /\ db' = [db EXCEPT ![t].intent = FALSE]
      BY <2>1 DEF MirrorTags
    <3>2. /\ Present(src[t]) /\ src'[t].tags = db[t].tags
          /\ \A u \in Tracks : u # t => src'[u] = src[u]
      BY <2>1 DEF MirrorTags
    <3> QED
      <4>1. db \in [Tracks -> Row \union {NoRow}] /\ db[t] # NoRow
        BY <3>1
      <4>2. /\ db'[t] # NoRow /\ db'[t].tags = db[t].tags
            /\ \A u \in Tracks : u # t => db'[u] = db[u]
        BY <3>1, <4>1, ClearedRow
      <4>3. UNCHANGED <<bak, stage, journal, outages>>
        BY <2>1 DEF MirrorTags
      <4> QED
        BY <3>2, <4>1, <4>2, <4>3
  <2>3. journal # NoMerge => src'[t].id = "new" /\ Present(src'[t])
    BY <2>1 DEF MirrorTags, Identities
  <2>4. Mirrored(t)'
    BY <2>2
  <2>5. journal # NoMerge => ~SameFile(src[t], bak[t])' /\ ~Staged(t)'
    BY <2>2, <2>3
  <2>6. ASSUME NEW u \in Tracks, u # t
        PROVE  /\ Mirrored(u)' <=> Mirrored(u)
               /\ BackedUp(u)' <=> BackedUp(u)
               /\ Staged(u)' <=> Staged(u)
               /\ SameFile(src[u], bak[u])' <=> SameFile(src[u], bak[u])
               /\ Present(src[u])' <=> Present(src[u])
    BY <2>2, <2>6
  <2>7. CASE journal # NoMerge
    <3>1. /\ journal' = journal /\ Present(src[t])'
          /\ Exist({Survivor})' <=> Exist({Survivor})
          /\ Gone(Duplicates)' <=> Gone(Duplicates)
          /\ Exist(Selected)' <=> Exist(Selected)
      BY <2>2, <2>3, <2>7
    <3>2. JournalTagged
      BY <2>2
    <3>3. Selected \subseteq Tracks /\ Survivor \in Tracks
      BY <2>7
    <3> HIDE DEF Mirrored, BackedUp, Staged, SameFile, Present, Exist, Gone, Inductive, TypeOK,
                 TagsRight, Identified
    <3> QED
      BY <2>4, <2>5, <2>6, <2>7, <3>1, <3>2, <3>3
  <2>8. CASE journal = NoMerge
    BY <2>2, <2>8
  <2> QED
    BY <2>7, <2>8
<1>30. CASE \E t \in Tracks, selected \in SUBSET Tracks, reference \in Tracks :
               PlanMerge(t, selected, reference)
  BY <1>30 DEF PlanMerge
<1>31. CASE UNCHANGED vars
  BY <1>31 DEF vars
<1> QED
  BY <1>1, <1>2, <1>3, <1>4, <1>5, <1>6, <1>7, <1>8, <1>9, <1>10, <1>11, <1>12, <1>13, <1>14, <1>15,
     <1>16, <1>17, <1>18, <1>19, <1>20, <1>21, <1>22, <1>23, <1>24, <1>25, <1>26, <1>27, <1>28,
     <1>29, <1>30, <1>31 DEF Next, Step

\* A step of recovery gives back what carries its row's tags.
LEMMA RecoveryTaggedStep ==
    ASSUME Inductive, Inductive', [Next]_vars, Resting, Identified, outages' = 0, TagsRight
    PROVE  RecoveryTagged'
<1> USE Values, SelectedTracks
  DEF Resting, Inductive, TypeOK, File, Row, Identified, JournalAtHand, JournalSound, Planned,
     Merging,
      TagsRight, MergeTagged, JournalTagged, RecoveryTagged, Merges, Carries, Mirrored, BackedUp,
         Staged, disk, recdir, rows, bounds, Go, Loop, Begin, Fault, Failed, Stop, HandOffLeft,
      Present, SameFile, Selected, Survivor, Duplicates, Exist, Gone, Backups, Head, Removing, Undo
<1>1. CASE SetLibraryServices
  BY <1>1 DEF SetLibraryServices
<1>2. CASE ConsolidateDuplicates
  BY <1>2 DEF ConsolidateDuplicates
<1>3. CASE Recover
  BY <1>3 DEF Recover
<1>4. CASE Recovered
  BY <1>4 DEF Recovered
<1>5. CASE Reconciled
  <2>1. /\ todo = {} /\ pc \in {"rollback", "cleanup"}
        /\ UNCHANGED <<src, bak, stage, journal, db, outages>>
    BY <1>5 DEF Reconciled
  <2>2. \A t \in Tracks : Mirrored(t)
    <3>1. CASE pc = "rollback"
      BY <2>1, <3>1
    <3>2. CASE pc = "cleanup"
      <4>1. Gone(Duplicates)
        BY <2>1, <3>2 DEF CleaningUp, DurableCovers
      <4>2. Mirrored(Survivor)
        BY <2>1, <3>2, <4>1
      <4> QED
        BY <2>1, <3>2, <4>1, <4>2
    <3> QED
      BY <2>1, <3>1, <3>2
  <2> QED
    BY <2>1, <2>2, <1>5 DEF Reconciled
<1>6. CASE RemoveStage
  BY <1>6 DEF RemoveStage
<1>7. CASE RemoveDirectory
  BY <1>7 DEF RemoveDirectory
<1>8. CASE RemoveJournal
  BY <1>8 DEF RemoveJournal
<1>9. CASE PlanRejected
  BY <1>9 DEF PlanRejected
<1>10. CASE WriteJournal
  BY <1>10 DEF WriteJournal
<1>11. CASE StageSurvivor
  BY <1>11 DEF StageSurvivor
<1>12. CASE RemoveOriginal
  BY <1>12 DEF RemoveOriginal
<1>13. CASE LinkStage
  BY <1>13 DEF LinkStage
<1>14. CASE Commit
  BY <1>14 DEF Commit
<1>15. CASE FlushDurable
  BY <1>15 DEF FlushDurable
<1>16. CASE CallFails
  BY <1>16 DEF CallFails
<1>17. CASE JournalFails
  BY <1>17 DEF JournalFails
<1>18. CASE RemovalFails
  BY <1>18 DEF RemovalFails
<1>19. CASE Finish
  BY <1>19 DEF Finish
<1>20. CASE Checkpoint
  BY <1>20 DEF Checkpoint
<1>21. CASE Crash
  BY <1>21 DEF Crash
<1>22. CASE PowerFailure
  BY <1>22 DEF PowerFailure
<1>23. CASE \E t \in Tracks : RollBack(t)
  <2>1. PICK t \in Tracks : RollBack(t)
    BY <1>23
  <2>2. /\ UNCHANGED <<bak, stage, journal, db, outages>> /\ t \in Selected
        /\ \A u \in Tracks : u # t => src'[u] = src[u]
        /\ pc = "rollback" /\ pc' \in {"rollback", "fail"} /\ t \in todo
        /\ todo' \subseteq todo /\ \A u \in todo : u # t => u \in todo'
    BY <2>1 DEF RollBack, RollingBack
  <2>3. ASSUME t \notin todo' PROVE Mirrored(t)'
    <3>1. Exist(Selected)
      BY <2>2 DEF RollingBack
    <3>2. CASE Present(bak[t]) /\ SameFile(src[t], bak[t])
      BY <2>1, <2>2, <2>3, <3>1, <3>2 DEF RollBack
    <3>3. CASE ~Present(bak[t])
      BY <2>1, <2>2, <2>3, <3>1, <3>3 DEF RollBack, StageAfterLinks
    <3>4. CASE Present(bak[t]) /\ ~SameFile(src[t], bak[t])
      BY <2>1, <2>2, <2>3, <3>1, <3>4 DEF RollBack
    <3> QED
      BY <3>2, <3>3, <3>4
  <2> QED
    BY <2>2, <2>3
<1>24. CASE \E t \in Tracks : CleanUp(t)
  BY <1>24 DEF CleanUp
<1>25. CASE \E t \in Tracks : RemoveBackup(t)
  BY <1>25 DEF RemoveBackup
<1>26. CASE \E t \in Tracks : LinkBackup(t)
  BY <1>26 DEF LinkBackup
<1>27. CASE \E t \in Tracks : RemoveDuplicate(t)
  BY <1>27 DEF RemoveDuplicate
<1>28. CASE \E t \in Tracks : EditRow(t)
  BY <1>28 DEF EditRow
<1>29. CASE \E t \in Tracks : MirrorTags(t)
  BY <1>29 DEF MirrorTags
<1>30. CASE \E t \in Tracks, selected \in SUBSET Tracks, reference \in Tracks :
               PlanMerge(t, selected, reference)
  BY <1>30 DEF PlanMerge
<1>31. CASE UNCHANGED vars
  BY <1>31 DEF vars
<1> QED
  BY <1>1, <1>2, <1>3, <1>4, <1>5, <1>6, <1>7, <1>8, <1>9, <1>10, <1>11, <1>12, <1>13, <1>14, <1>15,
     <1>16, <1>17, <1>18, <1>19, <1>20, <1>21, <1>22, <1>23, <1>24, <1>25, <1>26, <1>27, <1>28,
     <1>29, <1>30, <1>31 DEF Next, Step


\* What the files carry holds throughout, up to the first power failure.
Tagged == Resting /\ Identified /\ TagsRight

\* Initially.
LEMMA InitiallyTagged == Init => Tagged
<1> SUFFICES ASSUME Init PROVE Tagged
  OBVIOUS
<1>1. [tags |-> 0, intent |-> FALSE] \in Row /\ [id |-> "orig", tags |-> 0] \in File
  BY DEF Row, File, Identities
<1>2. \A t \in Tracks : /\ src[t].id = "orig" /\ src[t].tags = 0 /\ db[t].tags = 0
                        /\ ~Present(bak[t])
  BY DEF Init, Present
<1>3. ~Present(stage) /\ pc = "idle" /\ op = "none" /\ journal = NoMerge
  BY DEF Init, Present
<1>4. Resting /\ Identified
  BY <1>2, <1>3 DEF Resting, Identified, SameFile, Present
<1> QED
  BY <1>2, <1>3, <1>4 DEF Tagged, TagsRight, MergeTagged, Merges, JournalTagged, RecoveryTagged,
     Mirrored, Carries

\* Every step keeps what the files carry.
LEMMA TaggedStep == Inductive /\ Inductive' /\ Tagged /\ [Next]_vars => Tagged'
<1> SUFFICES ASSUME Inductive, Inductive', Tagged, [Next]_vars PROVE Tagged'
  OBVIOUS
<1>1. Resting /\ Identified /\ TagsRight
  BY DEF Tagged
<1>2. Resting' /\ Identified'
  BY <1>1, RestingStep, IdentifiedStep
<1>3. TagsRight'
  BY <1>1, MergeTaggedStep, JournalTaggedStep, RecoveryTaggedStep DEF TagsRight
<1> QED
  BY <1>2, <1>3 DEF Tagged

\* After every merge, rollback and recovery a file carries its row's tags or an
\* intent says it will, unless a power failure took rows back.
THEOREM MirrorKeptConsistent == Spec => []MirrorConsistent
<1>1. Tagged => MirrorConsistent
  BY DEF Tagged, TagsRight, RecoveryTagged, MirrorConsistent, Mirrored, Carries, Selected
<1>2. Spec => []Tagged
  BY Invariance, InitiallyTagged, TaggedStep, PTL DEF Spec
<1> QED
  BY <1>1, <1>2, PTL

=============================================================================
