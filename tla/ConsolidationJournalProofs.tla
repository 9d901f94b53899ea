---------------------- MODULE ConsolidationJournalProofs ----------------------
(***************************************************************************)
(* Proofs about ConsolidationJournal: types, no audio lost, the journal    *)
(* always recoverable and the rows right while no call fails, and the      *)
(* moves atomic (LibraryLocations).  The inductive invariant has a part    *)
(* for every execution (Control, Safe) and a part for the executions in    *)
(* which no call has failed (Exact).                                       *)
(***************************************************************************)
EXTENDS ConsolidationJournal, TLAPS

Preparing == pc \in {"plan", "journal"}
MidMove   == pc \in {"linked", "unlink", "persist"}
Moving    == pc = "move" \/ MidMove \/ (pc = "unjournal" /\ Moves # {})
Recovering == pc \in {"reconcile", "recoverunlink"} \/ (pc = "unjournal" /\ Moves = {})
Replaying == pc \in {"recover", "recovered"} \/ Recovering
                \/ (pc \in {"sweep", "sweepunlink"} /\ after \in {"recovered", "links"})
Ending    == pc = "finished" \/ (pc \in {"sweep", "sweepunlink"} /\ after = "finished")
\* Where an operation can stand that its recovery will stop, or has stopped.
Halting   == pc \in {"idle", "recover", "reconcile", "recoverunlink", "fail"}

-----------------------------------------------------------------------------
(* Every execution.                                                        *)

\* How the program counter, the operation, its plan and the journal agree.
Control ==
    /\ op = "none" <=> pc = "idle"
    /\ op = "startup" => app # "running"
    /\ op \in {"consolidate", "retarget"} => app = "running"
    /\ op = "retarget" => cur \in Tracks
    /\ Preparing \/ Moving => op \in {"consolidate", "retarget"}
    /\ Replaying => Moves = {} /\ touched = {}
    /\ pc \in {"recovered", "plan", "journal", "sweep", "sweepunlink", "finished"}
           => Journaled = {}
    /\ pc \in {"reconcile", "recoverunlink"} => todo \subseteq Journaled
    /\ pc = "plan" => todo \intersect Moves = {}
    /\ pc = "journal" => Moves # {}
    /\ Moving => journal = plan /\ Moves # {} /\ todo \subseteq Moves
    /\ MidMove => cur \in Moves \ todo
    /\ pc = "unjournal" => todo = {} /\ durable = db
    /\ held # NoFile <=> pc \in {"unlink", "recoverunlink", "sweepunlink"}
    /\ \A t \in Moves : plan[t].src # plan[t].dst
    /\ \A t \in Journaled : journal[t].src # journal[t].dst
    /\ Preparing \/ Moving => \A t \in Moves : backup[t] = plan[t].inode
    /\ MidMove => /\ FileOf(plan[cur].inode[1], fs[plan[cur].dst])
                  /\ IF pc = "linked" THEN FileOf(plan[cur].inode[1], fs[plan[cur].src])
                                      ELSE fs[plan[cur].src] = NoFile

\* The audio has a name that no step of the journal's protocol removes last.
Named(a) == \/ \E p \in Paths : FileOf(a, fs[p])
            \/ \E i \in stray \union junk : FileOf(a, i)

\* A journaled move both of whose names failed calls have removed: recovery
\* refuses it, whatever happens to the rest of the library.
Gone(t)  == fs[journal[t].src] = NoFile /\ fs[journal[t].dst] = NoFile
Stopped  == /\ Halting
            /\ \E t \in Journaled :
                  Gone(t) /\ (pc \in {"reconcile", "recoverunlink"} => t \in todo)

\* A recovery link is the only name of some audio only while the journal is
\* kept by a move that recovery refuses; a handoff name is never the only one.
Safe ==
    /\ Stopped \/ \A u \in Backups : Named(backup[u][1])
    /\ held # NoFile => Named(held[1])

-----------------------------------------------------------------------------
(* Executions without failed calls.                                        *)

Claims(t, p) ==
    \/ p = db[t].path \/ p = durable[t].path
    \/ t \in Journaled /\ (p = journal[t].src \/ p = journal[t].dst)
    \/ t \in Moves /\ (p = plan[t].src \/ p = plan[t].dst)

\* No two tracks lay claim to a path, and no track's file is at another's.
Apart ==
    /\ \A t, u \in Tracks, p \in Paths : Claims(t, p) /\ Claims(u, p) => t = u
    /\ \A t \in Tracks, p \in Paths : Claims(t, p) /\ fs[p] # NoFile => fs[p][1] = t

\* An unjournaled track's rows agree on its path and find its file; those of
\* a journaled one name one of its two paths, and one of them is its file.
RowsRight ==
    /\ \A t \in Tracks \ Journaled : durable[t].path = db[t].path
    /\ \A t \in Journaled : {db[t].path, durable[t].path} \subseteq {journal[t].src, journal[t].dst}
    /\ \A t \in Tracks : Held(t) => ~db[t].missing /\ ~durable[t].missing
    /\ \A t \in Tracks \ Journaled : Held(t) => FileOf(t, fs[db[t].path])
    /\ \A t \in Journaled : FileOf(t, fs[journal[t].src]) \/ FileOf(t, fs[journal[t].dst])

\* A planned or journaled file is the track's, as old as any at its two paths.
Pinned(e, t) ==
    /\ e.inode[1] = t
    /\ \A p \in {e.src, e.dst} : fs[p] # NoFile => fs[p][2] >= e.inode[2]
Pins == /\ \A t \in Journaled : Pinned(journal[t], t)
        /\ \A t \in Moves : Pinned(plan[t], t)

\* Planning works on the rows' own paths.
PlanRight ==
    /\ pc = "plan" => /\ \A t \in Tracks : known[t].path = db[t].path
                      /\ \A t \in touched : ~Held(t)
    /\ Preparing => \A t \in Moves : plan[t].src = db[t].path /\ fs[plan[t].dst] = NoFile

\* The move e of track t is to come, or done, seen from its row.
Ahead(e, t)  == db[t].path = e.src /\ FileOf(t, fs[e.src]) /\ fs[e.dst] = NoFile
Behind(e, t) == db[t].path = e.dst /\ FileOf(t, fs[e.dst])

MovesRight ==
    /\ Moving => \A t \in Moves :
          IF t = cur /\ MidMove
          THEN db[t].path = plan[t].src /\ fs[plan[t].dst] = plan[t].inode
          ELSE \/ Ahead(plan[t], t)
               \/ t \notin todo /\ Behind(plan[t], t)
    /\ Recovering => \A t \in Journaled \ todo : Ahead(journal[t], t) \/ Behind(journal[t], t)

\* A journal that a running process has left behind holds a file that was
\* rewritten, which recovery refuses for good.
Stuck(t) == fs[journal[t].src] # journal[t].inode /\ fs[journal[t].dst] # journal[t].inode
Refusing == /\ Halting
            /\ \E t \in Journaled :
                  Stuck(t) /\ (pc \in {"reconcile", "recoverunlink"} => t \in todo)

\* So the list in memory has the rows' paths whenever a plan is made from it.
ListRight ==
    /\ app = "running" /\ Journaled # {} => Moving \/ Refusing
    /\ app = "running" /\ (Journaled = {} \/ Moving) =>
          \A t \in Tracks : \/ mem[t].path = db[t].path
                            \/ t \in touched /\ (Moving \/ Ending)
    /\ op # "retarget" => known = mem

Exact == Apart /\ RowsRight /\ Pins /\ PlanRight /\ MovesRight /\ ListRight

Inductive == TypeOK /\ Control /\ Safe /\ (Unfailing => Exact)
-----------------------------------------------------------------------------
(* Types and control.                                                      *)

LEMMA InitControl == Init => TypeOK /\ Control
  <1> SUFFICES ASSUME Init PROVE TypeOK /\ Control
    OBVIOUS
  <1>1. fs \in [Paths -> Files]
    BY DEF Init, Files, Inodes
  <1>2. TypeOK
    BY <1>1 DEF Init, TypeOK, NoEntries, Files
  <1>3. Moves = {} /\ Journaled = {}
    BY DEF Init, Moves, Journaled, NoEntries
  <1>4. Control
    BY <1>3 DEF Init, Control, Preparing, Moving, MidMove, Recovering, Replaying
  <1> QED
    BY <1>2, <1>4

LEMMA TypeStep == TypeOK /\ Control /\ [Next]_vars => TypeOK'
  <1> SUFFICES ASSUME TypeOK, Control, [Next]_vars PROVE TypeOK'
    OBVIOUS
  <1> USE JournalAssumption
      DEF TypeOK, Inodes, Files, Location, Entry, names, recdir, rows, job, bounds,
          NoEntries, Journaled, Moves, Backups, Fault, Go, Sweep, Fail, Abandon, Begin, End,
          Control, Preparing, Moving, MidMove, Recovering, Replaying, Swept
  <1>1. CASE SetLibraryServices
    BY <1>1 DEF SetLibraryServices
  <1>2. CASE PrepareLibraryConsolidation
    BY <1>2 DEF PrepareLibraryConsolidation
  <1>3. CASE RecoverJournal
    BY <1>3 DEF RecoverJournal
  <1>4. CASE FlushDurable
    BY <1>4 DEF FlushDurable
  <1>5. CASE RemoveJournal
    BY <1>5 DEF RemoveJournal
  <1>6. CASE SweepUnlink
    BY <1>6 DEF SweepUnlink
  <1>7. CASE SweepDirectory
    BY <1>7 DEF SweepDirectory
  <1>8. CASE SweepFails
    BY <1>8 DEF SweepFails
  <1>9. CASE Recovered
    <2>1. known' \in [Tracks -> Location] /\ todo' \subseteq Tracks
      BY <1>9 DEF Recovered
    <2>2. pc' \in {"finished", "fail", "plan"} /\ after' = after /\ dir' \in BOOLEAN
      BY <1>9 DEF Recovered
    <2> QED
      BY <1>9, <2>1, <2>2 DEF Recovered
  <1>10. CASE Planned
    BY <1>10 DEF Planned
  <1>11. CASE WriteJournal
    BY <1>11 DEF WriteJournal
  <1>12. CASE Cancel
    BY <1>12 DEF Cancel
  <1>13. CASE HandOffSource
    <2>1. plan[cur] \in Entry
      BY <1>13 DEF HandOffSource
    <2>2. fs' \in [Paths -> Files] /\ held' \in Files
      <3>1. CASE fs[plan[cur].src] = plan[cur].inode
        <4>1. fs' = [fs EXCEPT ![plan[cur].src] = NoFile] /\ held' = plan[cur].inode
          BY <1>13, <3>1 DEF HandOffSource
        <4> QED
          BY <2>1, <4>1
      <3>2. CASE fs[plan[cur].src] # plan[cur].inode
        <4>1. fs' = [fs EXCEPT ![plan[cur].dst] = NoFile] /\ held' = held
          BY <1>13, <3>2 DEF HandOffSource
        <4> QED
          BY <2>1, <4>1
      <3> QED
        BY <3>1, <3>2
    <2> QED
      BY <1>13, <2>2 DEF HandOffSource
  <1>14. CASE UnlinkSource
    BY <1>14 DEF UnlinkSource
  <1>15. CASE PersistLocation
    BY <1>15 DEF PersistLocation
  <1>16. CASE RemoveSourceFails
    BY <1>16 DEF RemoveSourceFails
  <1>17. CASE PersistFails
    <2>1. plan[cur] \in Entry /\ cur \in Tracks
      BY <1>17 DEF PersistFails
    <2>2. PICK s, d \in {plan[cur].inode, NoFile}, left \in SUBSET {plan[cur].inode} :
             /\ fs' = [fs EXCEPT ![plan[cur].src] = s, ![plan[cur].dst] = d]
             /\ stray' = stray \union left
      BY <1>17 DEF PersistFails
    <2>3. fs' \in [Paths -> Files] /\ stray' \subseteq Inodes
      BY <2>1, <2>2
    <2>4. /\ pc' \in {"sweep", "fail"} /\ after' \in {after, "dropped"}
          /\ faults' \in Nat /\ crashes' = crashes /\ begun' = begun
          /\ UNCHANGED <<held, recdir, journal, rows, mem, app, job, todo, cur>>
      BY <1>17 DEF PersistFails
    <2> QED
      BY <2>3, <2>4
  <1>18. CASE CallFails
    BY <1>18 DEF CallFails
  <1>19. CASE Finish
    BY <1>19 DEF Finish
  <1>20. CASE FailOperation
    BY <1>20 DEF FailOperation
  <1>21. CASE Checkpoint
    BY <1>21 DEF Checkpoint
  <1>22. CASE Crash
    BY <1>22 DEF Crash
  <1>23. CASE \E t \in Tracks : RetargetManagedMetadata(t)
    BY <1>23 DEF RetargetManagedMetadata
  <1>24. CASE \E t \in Tracks : MirrorTags(t)
    BY <1>24 DEF MirrorTags
  <1>25. CASE \E t \in Tracks : RemoveRecoveredSource(t)
    BY <1>25 DEF RemoveRecoveredSource
  <1>26. CASE \E t \in Tracks : SaveRecoveredTrack(t)
    BY <1>26 DEF SaveRecoveredTrack
  <1>27. CASE \E t \in Tracks : RecoveryRefuses(t)
    BY <1>27 DEF RecoveryRefuses
  <1>28. CASE \E t \in Tracks : SweepHandOff(t)
    BY <1>28 DEF SweepHandOff
  <1>29. CASE \E t \in Tracks : PlanMissing(t)
    BY <1>29 DEF PlanMissing
  <1>30. CASE \E t \in Tracks : LinkDestination(t)
    <2> SUFFICES ASSUME NEW t \in Tracks, LinkDestination(t) PROVE TypeOK'
      BY <1>30
    <2>1. plan[t] \in Entry
      BY DEF LinkDestination
    <2>2. fs' \in [Paths -> Files]
      BY <2>1 DEF LinkDestination
    <2> QED
      BY <2>2 DEF LinkDestination
  <1>31. CASE \E t \in Tracks, p \in Paths : PlanMove(t, p)
    <2> SUFFICES ASSUME NEW t \in Tracks, NEW p \in Paths, PlanMove(t, p) PROVE TypeOK'
      BY <1>31
    <2>1. known[t].path \in Paths
      OBVIOUS
    <2>2. fs[known[t].path] \in Inodes
      BY <2>1 DEF PlanMove
    <2>3. [src |-> known[t].path, dst |-> p, inode |-> fs[known[t].path]] \in Entry
      BY <2>1, <2>2
    <2> DEFINE e == [src |-> known[t].path, dst |-> p, inode |-> fs[known[t].path]]
    <2>4. \/ plan' = plan /\ backup' = backup
          \/ plan' = [plan EXCEPT ![t] = e] /\ backup' = [backup EXCEPT ![t] = fs[known[t].path]]
      BY DEF PlanMove
    <2>6. e \in Entry
      BY <2>3
    <2> HIDE DEF e, Entry
    <2>5. plan' \in [Tracks -> Entry \union {NoEntry}] /\ backup' \in [Tracks -> Files]
      <3>1. plan \in [Tracks -> Entry \union {NoEntry}] /\ backup \in [Tracks -> Files]
        OBVIOUS
      <3>2. CASE plan' = plan /\ backup' = backup
        BY <3>1, <3>2
      <3>3. CASE /\ plan' = [plan EXCEPT ![t] = e]
                 /\ backup' = [backup EXCEPT ![t] = fs[known[t].path]]
        BY <2>2, <2>6, <3>1, <3>3
      <3> QED
        BY <2>4, <3>2, <3>3
    <2> QED
      BY <2>5 DEF PlanMove
  <1>32. CASE UNCHANGED vars
    BY <1>32 DEF vars
  <1> QED
    BY <1>1, <1>2, <1>3, <1>4, <1>5, <1>6, <1>7, <1>8, <1>9, <1>10, <1>11, <1>12, <1>13, <1>14,
       <1>15, <1>16, <1>17, <1>18, <1>19, <1>20, <1>21, <1>22, <1>23, <1>24, <1>25, <1>26, <1>27,
       <1>28, <1>29, <1>30, <1>31, <1>32 DEF Next, OperationStep

LEMMA ControlStep == TypeOK /\ Control /\ TypeOK' /\ [Next]_vars => Control'
  <1> SUFFICES ASSUME TypeOK, Control, TypeOK', [Next]_vars PROVE Control'
    OBVIOUS
  <1> USE JournalAssumption
      DEF TypeOK, Inodes, Files, Location, Entry, names, recdir, rows, job, bounds,
          NoEntries, Journaled, Moves, Backups, Fault, Go, Sweep, Fail, Abandon, Begin, End,
          Control, Preparing, Moving, MidMove, Recovering, Replaying, Swept, FileOf
  <1>1. CASE SetLibraryServices
    BY <1>1 DEF SetLibraryServices
  <1>2. CASE PrepareLibraryConsolidation
    BY <1>2 DEF PrepareLibraryConsolidation
  <1>3. CASE RecoverJournal
    BY <1>3 DEF RecoverJournal
  <1>4. CASE FlushDurable
    BY <1>4 DEF FlushDurable
  <1>5. CASE RemoveJournal
    BY <1>5 DEF RemoveJournal
  <1>6. CASE SweepUnlink
    BY <1>6 DEF SweepUnlink
  <1>7. CASE SweepDirectory
    BY <1>7 DEF SweepDirectory
  <1>8. CASE SweepFails
    BY <1>8 DEF SweepFails
  <1>9. CASE Recovered
    BY <1>9 DEF Recovered
  <1>10. CASE Planned
    BY <1>10 DEF Planned
  <1>11. CASE WriteJournal
    BY <1>11 DEF WriteJournal
  <1>12. CASE Cancel
    BY <1>12 DEF Cancel
  <1>13. CASE HandOffSource
    BY <1>13 DEF HandOffSource
  <1>14. CASE UnlinkSource
    BY <1>14 DEF UnlinkSource
  <1>15. CASE PersistLocation
    BY <1>15 DEF PersistLocation
  <1>16. CASE RemoveSourceFails
    BY <1>16 DEF RemoveSourceFails
  <1>17. CASE PersistFails
    BY <1>17 DEF PersistFails
  <1>18. CASE CallFails
    BY <1>18 DEF CallFails
  <1>19. CASE Finish
    BY <1>19 DEF Finish
  <1>20. CASE FailOperation
    BY <1>20 DEF FailOperation
  <1>21. CASE Checkpoint
    BY <1>21 DEF Checkpoint
  <1>22. CASE Crash
    BY <1>22 DEF Crash
  <1>23. CASE \E t \in Tracks : RetargetManagedMetadata(t)
    BY <1>23 DEF RetargetManagedMetadata
  <1>24. CASE \E t \in Tracks : MirrorTags(t)
    BY <1>24 DEF MirrorTags
  <1>25. CASE \E t \in Tracks : RemoveRecoveredSource(t)
    BY <1>25 DEF RemoveRecoveredSource
  <1>26. CASE \E t \in Tracks : SaveRecoveredTrack(t)
    BY <1>26 DEF SaveRecoveredTrack
  <1>27. CASE \E t \in Tracks : RecoveryRefuses(t)
    BY <1>27 DEF RecoveryRefuses
  <1>28. CASE \E t \in Tracks : SweepHandOff(t)
    BY <1>28 DEF SweepHandOff
  <1>29. CASE \E t \in Tracks : PlanMissing(t)
    BY <1>29 DEF PlanMissing
  <1>30. CASE \E t \in Tracks : LinkDestination(t)
    BY <1>30 DEF LinkDestination
  <1>31. CASE \E t \in Tracks, p \in Paths : PlanMove(t, p)
    <2> SUFFICES ASSUME NEW t \in Tracks, NEW p \in Paths, PlanMove(t, p) PROVE Control'
      BY <1>31
    <2> DEFINE e == [src |-> known[t].path, dst |-> p, inode |-> fs[known[t].path]]
    <2>1. known[t].path \in Paths /\ fs[known[t].path] \in Inodes /\ pc = "plan" /\ t \in todo
      BY DEF PlanMove
    <2>2. CASE p = known[t].path
      BY <2>1, <2>2 DEF PlanMove
    <2>3. CASE p # known[t].path
      <3>1. plan' = [plan EXCEPT ![t] = e] /\ backup' = [backup EXCEPT ![t] = e.inode]
        BY <2>3 DEF PlanMove
      <3>2. e \in Entry /\ e.src # e.dst
        BY <2>1, <2>3
      <3>3. e # NoEntry
        BY <3>2
      <3> HIDE DEF e, Entry
      <3>4. Moves' = Moves \union {t}
        BY <3>1, <3>3
      <3>5. \A u \in Moves' : plan'[u].src # plan'[u].dst /\ backup'[u] = plan'[u].inode
        BY <2>1, <3>1, <3>2, <3>4
      <3> HIDE DEF Moves
      <3>6. todo' \intersect Moves' = {}
        BY <2>1, <3>4 DEF PlanMove
      <3> QED
        BY <2>1, <3>4, <3>5, <3>6 DEF PlanMove
    <2> QED
      BY <2>2, <2>3
  <1>32. CASE UNCHANGED vars
    BY <1>32 DEF vars
  <1> QED
    BY <1>1, <1>2, <1>3, <1>4, <1>5, <1>6, <1>7, <1>8, <1>9, <1>10, <1>11, <1>12, <1>13, <1>14,
       <1>15, <1>16, <1>17, <1>18, <1>19, <1>20, <1>21, <1>22, <1>23, <1>24, <1>25, <1>26, <1>27,
       <1>28, <1>29, <1>30, <1>31, <1>32 DEF Next, OperationStep

-----------------------------------------------------------------------------
(* No audio lost.                                                          *)

\* The step fails, and may have removed both names of the move it was making.
Abandoned(a) == MidMove /\ pc' = "fail" /\ a = plan[cur].inode[1] /\ Gone(cur)'

\* No step but such a failure takes the last name of some audio in the tree.
LEMMA NameStep ==
    ASSUME TypeOK, Control, TypeOK', [Next]_vars, NEW a, Named(a)
    PROVE  Named(a)' \/ Abandoned(a)
  <1> USE JournalAssumption
      DEF TypeOK, Inodes, Files, Location, Entry, names, recdir, rows, job, bounds,
          NoEntries, Journaled, Moves, Backups, Fault, Go, Sweep, Fail, Abandon, Begin, End,
          Control, Preparing, Moving, MidMove, Recovering, Replaying, Swept, FileOf, Named, Gone,
          Abandoned
  <1>1. CASE SetLibraryServices
    BY <1>1 DEF SetLibraryServices
  <1>2. CASE PrepareLibraryConsolidation
    BY <1>2 DEF PrepareLibraryConsolidation
  <1>3. CASE RecoverJournal
    BY <1>3 DEF RecoverJournal
  <1>4. CASE FlushDurable
    BY <1>4 DEF FlushDurable
  <1>5. CASE RemoveJournal
    BY <1>5 DEF RemoveJournal
  <1>6. CASE SweepUnlink
    BY <1>6 DEF SweepUnlink
  <1>7. CASE SweepDirectory
    BY <1>7 DEF SweepDirectory
  <1>8. CASE SweepFails
    BY <1>8 DEF SweepFails
  <1>9. CASE Recovered
    BY <1>9 DEF Recovered
  <1>10. CASE Planned
    BY <1>10 DEF Planned
  <1>11. CASE WriteJournal
    BY <1>11 DEF WriteJournal
  <1>12. CASE Cancel
    BY <1>12 DEF Cancel
  <1>13. CASE HandOffSource
    BY <1>13 DEF HandOffSource
  <1>14. CASE UnlinkSource
    BY <1>14 DEF UnlinkSource
  <1>15. CASE PersistLocation
    BY <1>15 DEF PersistLocation
  <1>16. CASE RemoveSourceFails
    BY <1>16 DEF RemoveSourceFails
  <1>17. CASE PersistFails
    <2> DEFINE e == plan[cur]
    <2>1. /\ MidMove /\ pc' = "fail" /\ journal = plan /\ journal' = journal /\ cur' = cur
          /\ plan' = plan /\ e \in Entry /\ e.src # e.dst
          /\ fs[e.src] = NoFile /\ FileOf(e.inode[1], fs[e.dst]) /\ junk' = junk
      BY <1>17 DEF PersistFails
    <2>2. PICK i, d \in {e.inode, NoFile}, left \in SUBSET {e.inode} :
              /\ fs' = [fs EXCEPT ![e.src] = i, ![e.dst] = d]
              /\ stray' = stray \union left
      BY <1>17 DEF PersistFails
    <2>3. fs'[e.src] = i /\ fs'[e.dst] = d /\ \A p \in Paths \ {e.src, e.dst} : fs'[p] = fs[p]
      BY <2>1, <2>2
    <2>4. CASE a # e.inode[1]
      <3>1. CASE \E p \in Paths : FileOf(a, fs[p])
        <4>1. PICK p \in Paths : FileOf(a, fs[p])
          BY <3>1
        <4>2. p \notin {e.src, e.dst}
          BY <2>1, <2>4, <4>1
        <4> QED
          BY <2>3, <4>1, <4>2
      <3>2. CASE \E k \in stray \union junk : FileOf(a, k)
        BY <2>1, <2>2, <3>2
      <3> QED
        BY <3>1, <3>2
    <2>5. CASE a = e.inode[1] /\ i = NoFile /\ d = NoFile
      BY <2>1, <2>3, <2>5
    <2>6. CASE a = e.inode[1] /\ (i = e.inode \/ d = e.inode)
      BY <2>1, <2>3, <2>6
    <2> QED
      BY <2>4, <2>5, <2>6
  <1>18. CASE CallFails
    BY <1>18 DEF CallFails
  <1>19. CASE Finish
    BY <1>19 DEF Finish
  <1>20. CASE FailOperation
    BY <1>20 DEF FailOperation
  <1>21. CASE Checkpoint
    BY <1>21 DEF Checkpoint
  <1>22. CASE Crash
    BY <1>22 DEF Crash
  <1>23. CASE \E t \in Tracks : RetargetManagedMetadata(t)
    BY <1>23 DEF RetargetManagedMetadata
  <1>24. CASE \E t \in Tracks : MirrorTags(t)
    BY <1>24 DEF MirrorTags
  <1>25. CASE \E t \in Tracks : RemoveRecoveredSource(t)
    <2> SUFFICES ASSUME NEW t \in Tracks, RemoveRecoveredSource(t) PROVE Named(a)'
      BY <1>25
    <2> DEFINE e == journal[t]
    <2>1. /\ e \in Entry /\ e.src # e.dst
          /\ fs[e.src] = e.inode /\ fs[e.dst] = e.inode
          /\ fs' = [fs EXCEPT ![e.src] = NoFile]
          /\ stray' = stray /\ junk' = junk
      BY DEF RemoveRecoveredSource, RollsForward, SourceState, DestinationState, PathState
    <2> QED
      BY <2>1
  <1>26. CASE \E t \in Tracks : SaveRecoveredTrack(t)
    BY <1>26 DEF SaveRecoveredTrack
  <1>27. CASE \E t \in Tracks : RecoveryRefuses(t)
    BY <1>27 DEF RecoveryRefuses
  <1>28. CASE \E t \in Tracks : SweepHandOff(t)
    BY <1>28 DEF SweepHandOff
  <1>29. CASE \E t \in Tracks : PlanMissing(t)
    BY <1>29 DEF PlanMissing
  <1>30. CASE \E t \in Tracks : LinkDestination(t)
    <2> SUFFICES ASSUME NEW t \in Tracks, LinkDestination(t) PROVE Named(a)'
      BY <1>30
    <2>1. /\ plan[t] \in Entry
          /\ \/ fs' = fs
             \/ /\ fs[plan[t].dst] = NoFile
                /\ fs' = [fs EXCEPT ![plan[t].dst] = plan[t].inode]
          /\ stray' = stray /\ junk' = junk
      BY DEF LinkDestination
    <2> QED
      BY <2>1
  <1>31. CASE \E t \in Tracks, p \in Paths : PlanMove(t, p)
    BY <1>31 DEF PlanMove, Destinations
  <1>32. CASE UNCHANGED vars
    BY <1>32 DEF vars
  <1> QED
    BY <1>1, <1>2, <1>3, <1>4, <1>5, <1>6, <1>7, <1>8, <1>9, <1>10, <1>11, <1>12, <1>13, <1>14,
       <1>15, <1>16, <1>17, <1>18, <1>19, <1>20, <1>21, <1>22, <1>23, <1>24, <1>25, <1>26, <1>27,
       <1>28, <1>29, <1>30, <1>31, <1>32 DEF Next, OperationStep

LEMMA InitSafe == Init => Safe
  BY DEF Init, Safe, Backups

LEMMA SafeStep == TypeOK /\ Control /\ Safe /\ TypeOK' /\ Control' /\ [Next]_vars => Safe'
  <1> SUFFICES ASSUME TypeOK, Control, Safe, TypeOK', Control', [Next]_vars PROVE Safe'
    OBVIOUS
  <1>0. \A a : Named(a) => Named(a)' \/ Abandoned(a)
    BY NameStep
  <1> USE <1>0, JournalAssumption
      DEF TypeOK, Inodes, Files, Location, Entry, names, recdir, rows, job, bounds,
          NoEntries, Journaled, Moves, Backups, Fault, Go, Sweep, Fail, Abandon, Begin, End,
          Control, Preparing, Moving, MidMove, Recovering, Replaying, Swept, Safe, Stopped,
          Gone, Halting, Abandoned
  <1>1. CASE SetLibraryServices
    BY <1>1 DEF SetLibraryServices
  <1>2. CASE PrepareLibraryConsolidation
    BY <1>2 DEF PrepareLibraryConsolidation
  <1>3. CASE RecoverJournal
    BY <1>3 DEF RecoverJournal
  <1>4. CASE FlushDurable
    BY <1>4 DEF FlushDurable
  <1>5. CASE RemoveJournal
    BY <1>5 DEF RemoveJournal
  <1>6. CASE SweepUnlink
    BY <1>6 DEF SweepUnlink
  <1>7. CASE SweepDirectory
    BY <1>7 DEF SweepDirectory
  <1>8. CASE SweepFails
    BY <1>8 DEF SweepFails
  <1>9. CASE Recovered
    BY <1>9 DEF Recovered
  <1>10. CASE Planned
    BY <1>10 DEF Planned
  <1>11. CASE WriteJournal
    BY <1>11 DEF WriteJournal
  <1>12. CASE Cancel
    BY <1>12 DEF Cancel
  <1>13. CASE HandOffSource
    BY <1>13 DEF HandOffSource
  <1>14. CASE UnlinkSource
    BY <1>14 DEF UnlinkSource
  <1>15. CASE PersistLocation
    BY <1>15 DEF PersistLocation
  <1>16. CASE RemoveSourceFails
    BY <1>16 DEF RemoveSourceFails
  <1>17. CASE PersistFails
    BY <1>17 DEF PersistFails
  <1>18. CASE CallFails
    BY <1>18 DEF CallFails
  <1>19. CASE Finish
    BY <1>19 DEF Finish
  <1>20. CASE FailOperation
    BY <1>20 DEF FailOperation
  <1>21. CASE Checkpoint
    BY <1>21 DEF Checkpoint
  <1>22. CASE Crash
    BY <1>22 DEF Crash
  <1>23. CASE \E t \in Tracks : RetargetManagedMetadata(t)
    BY <1>23 DEF RetargetManagedMetadata
  <1>24. CASE \E t \in Tracks : MirrorTags(t)
    <2>1. /\ \A p \in Paths : fs'[p] = NoFile <=> fs[p] = NoFile
          /\ UNCHANGED <<stray, junk, backup, held, journal, todo, pc, plan, cur>>
      BY <1>24 DEF MirrorTags
    <2>2. Stopped => Stopped'
      BY <2>1
    <2> QED
      BY <2>1, <2>2
  <1>25. CASE \E t \in Tracks : RemoveRecoveredSource(t)
    <2> SUFFICES ASSUME NEW t \in Tracks, RemoveRecoveredSource(t) PROVE Safe'
      BY <1>25
    <2> DEFINE e == journal[t]
    <2>1. /\ e \in Entry /\ fs[e.dst] = e.inode /\ e.inode \in Inodes /\ e.inode # NoFile
          /\ pc = "reconcile" /\ pc' = "recoverunlink"
          /\ fs' = [fs EXCEPT ![e.src] = NoFile] /\ held' = e.inode
          /\ UNCHANGED <<stray, junk, backup, journal, todo>>
      BY DEF RemoveRecoveredSource, RollsForward, DestinationState, PathState
    <2>2. Named(held'[1])
      BY <2>1 DEF Named, FileOf
    <2>3. \A u \in Journaled : Gone(u) => Gone(u)'
      BY <2>1
    <2>4. Stopped => Stopped'
      BY <2>1, <2>3
    <2> HIDE DEF e
    <2> QED
      BY <2>1, <2>2, <2>4
  <1>26. CASE \E t \in Tracks : SaveRecoveredTrack(t)
    <2> SUFFICES ASSUME NEW t \in Tracks, SaveRecoveredTrack(t) PROVE Safe'
      BY <1>26
    <2>1. ~Gone(t)
      <3>1. journal[t] \in Entry
        BY DEF SaveRecoveredTrack
      <3> QED
        BY <3>1 DEF SaveRecoveredTrack, RollsForward, RollsBack, SourceState, DestinationState,
                    PathState
    <2>2. /\ pc = "reconcile" /\ todo' = todo \ {t}
          /\ UNCHANGED <<fs, stray, junk, backup, held, journal, pc>>
      BY DEF SaveRecoveredTrack
    <2> QED
      BY <2>1, <2>2
  <1>27. CASE \E t \in Tracks : RecoveryRefuses(t)
    BY <1>27 DEF RecoveryRefuses
  <1>28. CASE \E t \in Tracks : SweepHandOff(t)
    BY <1>28 DEF SweepHandOff
  <1>29. CASE \E t \in Tracks : PlanMissing(t)
    BY <1>29 DEF PlanMissing
  <1>30. CASE \E t \in Tracks : LinkDestination(t)
    BY <1>30 DEF LinkDestination
  <1>31. CASE \E t \in Tracks, p \in Paths : PlanMove(t, p)
    <2> SUFFICES ASSUME NEW t \in Tracks, NEW p \in Paths, PlanMove(t, p) PROVE Safe'
      BY <1>31
    <2>1. /\ known[t].path \in Paths /\ fs[known[t].path] # NoFile /\ pc = "plan"
          /\ backup' = backup \/ backup' = [backup EXCEPT ![t] = fs[known[t].path]]
          /\ UNCHANGED <<fs, stray, junk, held, journal, pc>>
      BY DEF PlanMove
    <2>2. Named(fs[known[t].path][1])
      BY <2>1 DEF Named, FileOf
    <2> QED
      BY <2>1, <2>2
  <1>32. CASE UNCHANGED vars
    BY <1>32 DEF vars
  <1> QED
    BY <1>1, <1>2, <1>3, <1>4, <1>5, <1>6, <1>7, <1>8, <1>9, <1>10, <1>11, <1>12, <1>13, <1>14,
       <1>15, <1>16, <1>17, <1>18, <1>19, <1>20, <1>21, <1>22, <1>23, <1>24, <1>25, <1>26, <1>27,
       <1>28, <1>29, <1>30, <1>31, <1>32 DEF Next, OperationStep

\* Only planning makes recovery links, and only a sweep removes them.
LEMMA BackupsKept == TypeOK /\ pc \notin {"plan", "sweep"} /\ [Next]_vars => backup' = backup
  BY DEF Next, OperationStep, vars, recdir, Begin, SetLibraryServices, PrepareLibraryConsolidation,
     RecoverJournal, FlushDurable,
      RemoveJournal, SweepUnlink, SweepDirectory, SweepFails, Recovered,
      Planned, WriteJournal, Cancel, HandOffSource, UnlinkSource,
      PersistLocation, RemoveSourceFails, PersistFails, CallFails, Finish,
      FailOperation, Checkpoint, Crash, RetargetManagedMetadata, MirrorTags,
      RemoveRecoveredSource, SaveRecoveredTrack, RecoveryRefuses, SweepHandOff,
      PlanMissing, LinkDestination, PlanMove

LEMMA HeldStep ==
    ASSUME TypeOK, Control, Safe, TypeOK', Control', [Next]_vars, NEW t \in Tracks, Held(t)
    PROVE  Held(t)'
  <1>1. CASE Named(t)
    <2>1. CASE Named(t)'
      BY <2>1 DEF Named, Held
    <2>2. CASE Abandoned(t)
      <3>1. backup' = backup
        BY <2>2, BackupsKept DEF Abandoned, MidMove
      <3>2. cur \in Moves /\ backup[cur] = plan[cur].inode /\ plan[cur] \in Entry
        BY <2>2 DEF Abandoned, Control, Moving, TypeOK, Moves
      <3>3. cur \in Tracks /\ FileOf(t, backup[cur])
        BY <2>2, <3>2, JournalAssumption DEF Abandoned, Moves, FileOf, Entry
      <3> QED
        BY <3>1, <3>3 DEF Held, FileOf
    <2> QED
      BY <1>1, <2>1, <2>2, NameStep
  <1>2. CASE ~Named(t) /\ \E u \in Tracks : FileOf(t, backup[u])
    <2>1. Stopped
      BY <1>2 DEF Safe, Backups, FileOf
    <2>2. backup' = backup
      BY <2>1, BackupsKept DEF Stopped, Halting
    <2> QED
      BY <1>2, <2>2 DEF Held, FileOf
  <1>3. CASE ~Named(t) /\ FileOf(t, held)
    BY <1>3 DEF Safe, FileOf
  <1> QED
    BY <1>1, <1>2, <1>3 DEF Held, Named

\* Every variable of the recovery journal, its links, the rows and the runtime
\* keeps its type, for any tracks and paths and any number of faults, deaths
\* and rewrites (managed_library/consolidation.rs, journal.rs, file_ops.rs).
THEOREM TypeCorrect == Spec => []TypeOK
  <1>1. Init => TypeOK /\ Control
    BY InitControl
  <1>2. TypeOK /\ Control /\ [Next]_vars => (TypeOK /\ Control)'
    BY TypeStep, ControlStep
  <1> QED
    BY <1>1, <1>2, PTL DEF Spec

\* Whatever calls fail in a move, its rollback, a recovery or a cleanup, and
\* wherever the process dies, no step takes the last name of a track's audio:
\* a recovery link outlives both names of its move only under a journal that
\* recover_library_consolidation_journal refuses.
THEOREM AudioKept == Spec => NoAudioLost
  <1>1. Init => TypeOK /\ Control /\ Safe
    BY InitControl, InitSafe
  <1>2. TypeOK /\ Control /\ Safe /\ [Next]_vars => (TypeOK /\ Control /\ Safe)'
    BY TypeStep, ControlStep, SafeStep
  <1>3. TypeOK /\ Control /\ Safe /\ [Next]_vars
            => [\A t \in Tracks : Held(t) => Held(t)']_vars
    BY TypeStep, ControlStep, HeldStep
  <1> QED
    BY <1>1, <1>2, <1>3, PTL DEF Spec, NoAudioLost

-----------------------------------------------------------------------------
(* Executions without failed calls.                                        *)

\* Names are made of names: no step brings back audio that has none.
LEMMA NoNewAudio ==
    ASSUME TypeOK, Control, TypeOK', [Next]_vars, NEW t \in Tracks, Held(t)'
    PROVE  Held(t)
  <1> USE JournalAssumption
      DEF TypeOK, Inodes, Files, Location, Entry, names, recdir, rows, job, bounds,
          NoEntries, Journaled, Moves, Backups, Fault, Go, Sweep, Fail, Abandon, Begin, End,
          Control, Preparing, Moving, MidMove, Recovering, Replaying, Swept, FileOf, Held
  <1>1. CASE SetLibraryServices
    BY <1>1 DEF SetLibraryServices
  <1>2. CASE PrepareLibraryConsolidation
    BY <1>2 DEF PrepareLibraryConsolidation
  <1>3. CASE RecoverJournal
    BY <1>3 DEF RecoverJournal
  <1>4. CASE FlushDurable
    BY <1>4 DEF FlushDurable
  <1>5. CASE RemoveJournal
    BY <1>5 DEF RemoveJournal
  <1>6. CASE SweepUnlink
    BY <1>6 DEF SweepUnlink
  <1>7. CASE SweepDirectory
    BY <1>7 DEF SweepDirectory
  <1>8. CASE SweepFails
    BY <1>8 DEF SweepFails
  <1>9. CASE Recovered
    BY <1>9 DEF Recovered
  <1>10. CASE Planned
    BY <1>10 DEF Planned
  <1>11. CASE WriteJournal
    BY <1>11 DEF WriteJournal
  <1>12. CASE Cancel
    BY <1>12 DEF Cancel
  <1>13. CASE HandOffSource
    <2>1. plan[cur] \in Entry /\ FileOf(plan[cur].inode[1], fs[plan[cur].dst])
      BY <1>13 DEF HandOffSource
    <2>2. \A p \in Paths : fs'[p] \in {fs[p], NoFile}
      BY <1>13, <2>1 DEF HandOffSource
    <2>3. held' \in {held, plan[cur].inode} /\ UNCHANGED <<backup, stray, junk>>
      BY <1>13 DEF HandOffSource
    <2> QED
      BY <2>1, <2>2, <2>3
  <1>14. CASE UnlinkSource
    BY <1>14 DEF UnlinkSource
  <1>15. CASE PersistLocation
    BY <1>15 DEF PersistLocation
  <1>16. CASE RemoveSourceFails
    BY <1>16 DEF RemoveSourceFails
  <1>17. CASE PersistFails
    <2>1. /\ cur \in Tracks /\ plan[cur] \in Entry /\ backup[cur] = plan[cur].inode
          /\ plan[cur].inode # NoFile
      BY <1>17 DEF PersistFails
    <2>2. /\ \A p \in Paths : fs'[p] \in {fs[p], plan[cur].inode, NoFile}
          /\ stray' \subseteq stray \union {plan[cur].inode}
          /\ held' = held /\ junk' = junk /\ backup' = backup
      BY <1>17 DEF PersistFails
    <2>3. FileOf(t, plan[cur].inode) => Held(t)
      BY <2>1
    <2>4. CASE \E p \in Paths : FileOf(t, fs'[p])
      BY <2>2, <2>3, <2>4
    <2>5. CASE \E i \in stray' : FileOf(t, i)
      BY <2>2, <2>3, <2>5
    <2> QED
      BY <2>2, <2>4, <2>5
  <1>18. CASE CallFails
    BY <1>18 DEF CallFails
  <1>19. CASE Finish
    BY <1>19 DEF Finish
  <1>20. CASE FailOperation
    BY <1>20 DEF FailOperation
  <1>21. CASE Checkpoint
    BY <1>21 DEF Checkpoint
  <1>22. CASE Crash
    BY <1>22 DEF Crash
  <1>23. CASE \E u \in Tracks : RetargetManagedMetadata(u)
    BY <1>23 DEF RetargetManagedMetadata
  <1>24. CASE \E u \in Tracks : MirrorTags(u)
    BY <1>24 DEF MirrorTags
  <1>25. CASE \E u \in Tracks : RemoveRecoveredSource(u)
    <2>1. PICK u \in todo : RemoveRecoveredSource(u)
      BY <1>25 DEF RemoveRecoveredSource
    <2>2. /\ journal[u] \in Entry /\ journal[u].inode # NoFile
          /\ fs[journal[u].src] = journal[u].inode /\ held' = journal[u].inode
          /\ fs' = [fs EXCEPT ![journal[u].src] = NoFile]
          /\ UNCHANGED <<stray, junk, backup>>
      BY <2>1 DEF RemoveRecoveredSource, SourceState, PathState
    <2> QED
      BY <2>2
  <1>26. CASE \E u \in Tracks : SaveRecoveredTrack(u)
    BY <1>26 DEF SaveRecoveredTrack
  <1>27. CASE \E u \in Tracks : RecoveryRefuses(u)
    BY <1>27 DEF RecoveryRefuses
  <1>28. CASE \E u \in Tracks : SweepHandOff(u)
    BY <1>28 DEF SweepHandOff
  <1>29. CASE \E u \in Tracks : PlanMissing(u)
    BY <1>29 DEF PlanMissing
  <1>30. CASE \E u \in Tracks : LinkDestination(u)
    <2>1. PICK u \in Tracks : LinkDestination(u)
      BY <1>30
    <2>2. plan[u] \in Entry /\ UNCHANGED <<backup, stray, junk, held>>
      BY <2>1 DEF LinkDestination
    <2>3. CASE fs' = fs
      BY <2>2, <2>3
    <2>4. CASE /\ fs[plan[u].src] = plan[u].inode
               /\ fs' = [fs EXCEPT ![plan[u].dst] = plan[u].inode]
      BY <2>2, <2>4
    <2> QED
      BY <2>1, <2>3, <2>4 DEF LinkDestination
  <1>31. CASE \E u \in Tracks, p \in Paths : PlanMove(u, p)
    <2>1. PICK u \in todo, p \in Paths : PlanMove(u, p)
      BY <1>31 DEF PlanMove
    <2>2. /\ known[u].path \in Paths
          /\ \A v \in Tracks : backup'[v] \in {backup[v], fs[known[u].path]}
          /\ UNCHANGED <<fs, held, stray, junk>>
      BY <2>1 DEF PlanMove
    <2> QED
      BY <2>2
  <1>32. CASE UNCHANGED vars
    BY <1>32 DEF vars
  <1> QED
    BY <1>1, <1>2, <1>3, <1>4, <1>5, <1>6, <1>7, <1>8, <1>9, <1>10, <1>11, <1>12, <1>13, <1>14,
       <1>15, <1>16, <1>17, <1>18, <1>19, <1>20, <1>21, <1>22, <1>23, <1>24, <1>25, <1>26, <1>27,
       <1>28, <1>29, <1>30, <1>31, <1>32 DEF Next, OperationStep

\* The mirror replaces a file by a later version of the same audio.
LEMMA MirrorFiles ==
    ASSUME TypeOK, NEW t \in Tracks, MirrorTags(t)
    PROVE  /\ \A u \in Tracks, p \in Paths : FileOf(u, fs'[p]) <=> FileOf(u, fs[p])
           /\ \A p \in Paths : fs'[p] # NoFile =>
                  fs[p] # NoFile /\ \A n \in Nat : fs[p][2] >= n => fs'[p][2] >= n
           /\ UNCHANGED <<journal, plan, db, durable, pc, faults>>
  <1>1. db[t].path \in Paths /\ fs \in [Paths -> Files] /\ fs' \in [Paths -> Files]
    BY DEF TypeOK, Location, MirrorTags, Files, Inodes
  <1>2. PICK q \in Paths : /\ fs[q] # NoFile /\ fs[q][2] < MaxRewrites
                           /\ fs' = [fs EXCEPT ![q] = <<fs[q][1], fs[q][2] + 1>>]
    BY <1>1 DEF MirrorTags
  <1>3. fs[q] \in Inodes /\ fs[q][2] \in Nat
    BY <1>1, <1>2, JournalAssumption DEF Files, Inodes
  <1>4. <<fs[q][1], fs[q][2] + 1>> \in Inodes
    BY <1>2, <1>3, JournalAssumption DEF Inodes
  <1>5. \A p \in Paths : fs'[p] = IF p = q THEN <<fs[q][1], fs[q][2] + 1>> ELSE fs[p]
    BY <1>1, <1>2
  <1>6. \A u \in Tracks, p \in Paths : FileOf(u, fs'[p]) <=> FileOf(u, fs[p])
    BY <1>2, <1>4, <1>5, JournalAssumption DEF FileOf
  <1>7. ASSUME NEW p \in Paths, fs'[p] # NoFile, NEW n \in Nat, fs[p][2] >= n
        PROVE  fs'[p][2] >= n
    BY <1>3, <1>5, <1>7
  <1>8. \A p \in Paths : fs'[p] # NoFile => fs[p] # NoFile
    BY <1>2, <1>5
  <1> QED
    BY <1>6, <1>7, <1>8 DEF MirrorTags, rows, job, bounds

LEMMA PinsStep ==
    ASSUME TypeOK, Control, TypeOK', Control', [Next]_vars, Unfailing', Exact
    PROVE  Pins'
  <1> USE JournalAssumption
      DEF TypeOK, Inodes, Files, Location, Entry, names, recdir, rows, job, bounds,
          NoEntries, Journaled, Moves, Backups, Fault, Go, Sweep, Fail, Abandon, Begin, End,
          Control, Preparing, Moving, MidMove, Recovering, Replaying, Swept, FileOf, Unfailing,
             Exact, Pins, Pinned, PlanRight, RowsRight
  <1>1. CASE SetLibraryServices
    BY <1>1 DEF SetLibraryServices
  <1>2. CASE PrepareLibraryConsolidation
    BY <1>2 DEF PrepareLibraryConsolidation
  <1>3. CASE RecoverJournal
    BY <1>3 DEF RecoverJournal
  <1>4. CASE FlushDurable
    BY <1>4 DEF FlushDurable
  <1>5. CASE RemoveJournal
    BY <1>5 DEF RemoveJournal
  <1>6. CASE SweepUnlink
    BY <1>6 DEF SweepUnlink
  <1>7. CASE SweepDirectory
    BY <1>7 DEF SweepDirectory
  <1>8. CASE SweepFails
    BY <1>8 DEF SweepFails
  <1>9. CASE Recovered
    BY <1>9 DEF Recovered
  <1>10. CASE Planned
    BY <1>10 DEF Planned
  <1>11. CASE WriteJournal
    BY <1>11 DEF WriteJournal
  <1>12. CASE Cancel
    BY <1>12 DEF Cancel
  <1>13. CASE HandOffSource
    <2>1. /\ \A p \in Paths : fs'[p] \in {fs[p], NoFile}
          /\ journal' = journal /\ plan' \in {plan, NoEntries}
      BY <1>13 DEF HandOffSource
    <2>2. \A u \in Journaled : Pinned(journal[u], u)'
      BY <2>1
    <2>3. \A u \in Moves' : u \in Moves /\ plan'[u] = plan[u]
      BY <2>1
    <2>4. \A u \in Moves' : Pinned(plan[u], u)'
      BY <2>1, <2>3
    <2> HIDE DEF Pinned
    <2> QED
      BY <2>1, <2>2, <2>3, <2>4
  <1>14. CASE UnlinkSource
    BY <1>14 DEF UnlinkSource
  <1>15. CASE PersistLocation
    BY <1>15 DEF PersistLocation
  <1>16. CASE RemoveSourceFails
    BY <1>16 DEF RemoveSourceFails
  <1>17. CASE PersistFails
    BY <1>17 DEF PersistFails
  <1>18. CASE CallFails
    BY <1>18 DEF CallFails
  <1>19. CASE Finish
    BY <1>19 DEF Finish
  <1>20. CASE FailOperation
    BY <1>20 DEF FailOperation
  <1>21. CASE Checkpoint
    BY <1>21 DEF Checkpoint
  <1>22. CASE Crash
    BY <1>22 DEF Crash
  <1>23. CASE \E t \in Tracks : RetargetManagedMetadata(t)
    BY <1>23 DEF RetargetManagedMetadata
  <1>24. CASE \E t \in Tracks : MirrorTags(t)
    <2>1. PICK t \in Tracks : MirrorTags(t)
      BY <1>24
    <2>2. UNCHANGED <<journal, plan, db, durable, pc, faults>>
      BY <2>1, MirrorFiles
    <2>3. \A p \in Paths : fs'[p] # NoFile =>
              fs[p] # NoFile /\ \A n \in Nat : fs[p][2] >= n => fs'[p][2] >= n
      BY <2>1, MirrorFiles
    <2>4. ASSUME NEW u \in Journaled
          PROVE  Pinned(journal[u], u)'
      <3>1. journal[u].inode[2] \in Nat /\ {journal[u].src, journal[u].dst} \subseteq Paths
        OBVIOUS
      <3>2. Pinned(journal[u], u)
        OBVIOUS
      <3> HIDE DEF TypeOK, Entry, Location, Inodes, Files
      <3> QED
        BY <2>2, <2>3, <3>1, <3>2
    <2>5. ASSUME NEW u \in Moves
          PROVE  Pinned(plan[u], u)'
      <3>1. plan[u].inode[2] \in Nat /\ {plan[u].src, plan[u].dst} \subseteq Paths
        OBVIOUS
      <3>2. Pinned(plan[u], u)
        OBVIOUS
      <3> HIDE DEF TypeOK, Entry, Location, Inodes, Files
      <3> QED
        BY <2>2, <2>3, <3>1, <3>2
    <2> HIDE DEF Pinned, TypeOK
    <2> QED
      BY <2>2, <2>4, <2>5
  <1>25. CASE \E t \in Tracks : RemoveRecoveredSource(t)
    BY <1>25 DEF RemoveRecoveredSource
  <1>26. CASE \E t \in Tracks : SaveRecoveredTrack(t)
    BY <1>26 DEF SaveRecoveredTrack
  <1>27. CASE \E t \in Tracks : RecoveryRefuses(t)
    BY <1>27 DEF RecoveryRefuses
  <1>28. CASE \E t \in Tracks : SweepHandOff(t)
    BY <1>28 DEF SweepHandOff
  <1>29. CASE \E t \in Tracks : PlanMissing(t)
    BY <1>29 DEF PlanMissing
  <1>30. CASE \E t \in Tracks : LinkDestination(t)
    <2> SUFFICES ASSUME NEW t \in Tracks, LinkDestination(t) PROVE Pins'
      BY <1>30
    <2>1. /\ t \in Moves /\ plan[t] \in Entry /\ journal = plan
          /\ journal' = journal /\ plan' = plan
          /\ fs' = fs \/ fs' = [fs EXCEPT ![plan[t].dst] = plan[t].inode]
      BY DEF LinkDestination
    <2>2. \A u \in Tracks : Claims(u, plan[t].dst) => u = t
      BY <2>1 DEF Exact, Apart, Claims, Entry, Moves
    <2>3. ASSUME NEW u \in Tracks, plan[u] # NoEntry, NEW p \in {plan[u].src, plan[u].dst}
          PROVE  /\ plan[u].inode[1] = u
                 /\ fs'[p] # NoFile => fs'[p][2] >= plan[u].inode[2]
      <3>1. plan[u] \in Entry /\ p \in Paths
        BY <2>3
      <3>2. CASE fs'[p] = fs[p]
        BY <2>3, <3>2
      <3>3. CASE p = plan[t].dst /\ fs'[p] = plan[t].inode
        <4>1. u = t
          BY <2>2, <2>3, <3>3 DEF Claims
        <4> QED
          BY <2>3, <3>1, <3>3, <4>1
      <3> QED
        BY <2>1, <3>1, <3>2, <3>3
    <2> QED
      BY <2>1, <2>3
  <1>31. CASE \E t \in Tracks, p \in Paths : PlanMove(t, p)
    <2> SUFFICES ASSUME NEW t \in Tracks, NEW p \in Paths, PlanMove(t, p) PROVE Pins'
      BY <1>31
    <2> DEFINE e == [src |-> known[t].path, dst |-> p, inode |-> fs[known[t].path]]
    <2>1. /\ fs' = fs /\ journal' = journal
          /\ plan' = plan \/ (plan' = [plan EXCEPT ![t] = e] /\ p # known[t].path)
          /\ known[t].path = db[t].path /\ known[t].path \in Paths
          /\ fs[known[t].path] # NoFile
      BY DEF PlanMove
    <2>2. p # known[t].path => fs[p] = NoFile
      BY DEF PlanMove, Destinations
    <2>3. fs[known[t].path][1] = t
      BY <2>1 DEF Exact, Apart, Claims
    <2>4. p # known[t].path => Pinned(e, t)
      BY <2>1, <2>2, <2>3
    <2> QED
      BY <2>1, <2>4
  <1>32. CASE UNCHANGED vars
    BY <1>32 DEF vars
  <1> QED
    BY <1>1, <1>2, <1>3, <1>4, <1>5, <1>6, <1>7, <1>8, <1>9, <1>10, <1>11, <1>12, <1>13, <1>14,
       <1>15, <1>16, <1>17, <1>18, <1>19, <1>20, <1>21, <1>22, <1>23, <1>24, <1>25, <1>26, <1>27,
       <1>28, <1>29, <1>30, <1>31, <1>32 DEF Next, OperationStep

\* Only planning lays claim to a path, and to a free one.
LEMMA ClaimsStep ==
    ASSUME TypeOK, Control, TypeOK', Control', [Next]_vars, Unfailing', Exact,
           NEW t \in Tracks, NEW p \in Paths, Claims(t, p)'
    PROVE  \/ Claims(t, p)
           \/ /\ fs' = fs /\ fs[p] = NoFile
              /\ \A u \in Tracks : ~Claims(u, p) /\ (u # t => ~Claims(u, p)')
  <1> USE JournalAssumption
      DEF TypeOK, Inodes, Files, Location, Entry, names, recdir, rows, job, bounds,
          NoEntries, Journaled, Moves, Backups, Fault, Go, Sweep, Fail, Abandon, Begin, End,
          Control, Preparing, Moving, MidMove, Recovering, Replaying, Swept, FileOf, Unfailing,
             Exact, Claims, PlanRight, RowsRight
  <1>1. CASE SetLibraryServices
    BY <1>1 DEF SetLibraryServices
  <1>2. CASE PrepareLibraryConsolidation
    BY <1>2 DEF PrepareLibraryConsolidation
  <1>3. CASE RecoverJournal
    BY <1>3 DEF RecoverJournal
  <1>4. CASE FlushDurable
    BY <1>4 DEF FlushDurable
  <1>5. CASE RemoveJournal
    BY <1>5 DEF RemoveJournal
  <1>6. CASE SweepUnlink
    BY <1>6 DEF SweepUnlink
  <1>7. CASE SweepDirectory
    BY <1>7 DEF SweepDirectory
  <1>8. CASE SweepFails
    BY <1>8 DEF SweepFails
  <1>9. CASE Recovered
    BY <1>9 DEF Recovered
  <1>10. CASE Planned
    BY <1>10 DEF Planned
  <1>11. CASE WriteJournal
    BY <1>11 DEF WriteJournal
  <1>12. CASE Cancel
    BY <1>12 DEF Cancel
  <1>13. CASE HandOffSource
    BY <1>13 DEF HandOffSource
  <1>14. CASE UnlinkSource
    BY <1>14 DEF UnlinkSource
  <1>15. CASE PersistLocation
    BY <1>15 DEF PersistLocation
  <1>16. CASE RemoveSourceFails
    BY <1>16 DEF RemoveSourceFails
  <1>17. CASE PersistFails
    BY <1>17 DEF PersistFails
  <1>18. CASE CallFails
    BY <1>18 DEF CallFails
  <1>19. CASE Finish
    BY <1>19 DEF Finish
  <1>20. CASE FailOperation
    BY <1>20 DEF FailOperation
  <1>21. CASE Checkpoint
    BY <1>21 DEF Checkpoint
  <1>22. CASE Crash
    BY <1>22 DEF Crash
  <1>23. CASE \E u \in Tracks : RetargetManagedMetadata(u)
    BY <1>23 DEF RetargetManagedMetadata
  <1>24. CASE \E u \in Tracks : MirrorTags(u)
    BY <1>24 DEF MirrorTags
  <1>25. CASE \E u \in Tracks : RemoveRecoveredSource(u)
    BY <1>25 DEF RemoveRecoveredSource
  <1>26. CASE \E u \in Tracks : SaveRecoveredTrack(u)
    BY <1>26 DEF SaveRecoveredTrack
  <1>27. CASE \E u \in Tracks : RecoveryRefuses(u)
    BY <1>27 DEF RecoveryRefuses
  <1>28. CASE \E u \in Tracks : SweepHandOff(u)
    BY <1>28 DEF SweepHandOff
  <1>29. CASE \E u \in Tracks : PlanMissing(u)
    BY <1>29 DEF PlanMissing
  <1>30. CASE \E u \in Tracks : LinkDestination(u)
    BY <1>30 DEF LinkDestination
  <1>31. CASE \E u \in Tracks, q \in Paths : PlanMove(u, q)
    BY <1>31 DEF PlanMove, Destinations
  <1>32. CASE UNCHANGED vars
    BY <1>32 DEF vars
  <1> QED
    BY <1>1, <1>2, <1>3, <1>4, <1>5, <1>6, <1>7, <1>8, <1>9, <1>10, <1>11, <1>12, <1>13, <1>14,
       <1>15, <1>16, <1>17, <1>18, <1>19, <1>20, <1>21, <1>22, <1>23, <1>24, <1>25, <1>26, <1>27,
       <1>28, <1>29, <1>30, <1>31, <1>32 DEF Next, OperationStep

\* A file is left, removed, rewritten where it is, or linked to a free
\* destination.
LEMMA FileStep ==
    ASSUME TypeOK, Control, TypeOK', [Next]_vars, Unfailing', NEW p \in Paths, fs'[p] # NoFile
    PROVE  \/ fs[p] # NoFile /\ fs'[p][1] = fs[p][1] /\ fs'[p][2] >= fs[p][2]
           \/ /\ fs[p] = NoFile /\ pc = "move"
              /\ \E t \in Moves : p = plan[t].dst /\ fs'[p] = plan[t].inode
  <1> USE JournalAssumption DEF TypeOK, Files, Inodes, Unfailing
  <1>1. CASE \E t \in Tracks : RemoveRecoveredSource(t)
    BY <1>1 DEF RemoveRecoveredSource
  <1>2. CASE \E t \in Tracks : LinkDestination(t)
    <2>1. PICK t \in Tracks : LinkDestination(t)
      BY <1>2
    <2>2. /\ t \in Moves /\ pc = "move"
          /\ \/ fs' = fs
             \/ /\ fs[plan[t].dst] = NoFile
                /\ fs' = [fs EXCEPT ![plan[t].dst] = plan[t].inode]
      BY <2>1 DEF LinkDestination, Control, Moving
    <2> QED
      BY <2>2
  <1>3. CASE HandOffSource
    <2>1. fs'[p] \in {fs[p], NoFile}
      BY <1>3 DEF HandOffSource
    <2> QED
      BY <2>1
  <1>4. CASE \E t \in Tracks : MirrorTags(t)
    BY <1>4 DEF MirrorTags, Location
  <1>5. CASE fs' = fs
    BY <1>5
  <1>6. CASE \/ RecoverJournal \/ FlushDurable \/ RemoveJournal \/ SweepUnlink
             \/ SweepDirectory \/ SweepFails \/ Recovered \/ Planned \/ WriteJournal
    BY <1>5, <1>6 DEF RecoverJournal, FlushDurable, RemoveJournal, SweepUnlink, SweepDirectory,
                      SweepFails, Recovered, Planned, WriteJournal, names
  <1>7. CASE UnlinkSource \/ PersistLocation \/ Finish \/ FailOperation \/ Cancel \/ Checkpoint
    BY <1>5, <1>7 DEF UnlinkSource, PersistLocation, Finish, FailOperation, Cancel, Checkpoint,
                      names
  <1>8. CASE RemoveSourceFails \/ PersistFails \/ CallFails
    BY <1>8 DEF RemoveSourceFails, PersistFails, CallFails, Fault
  <1>9. CASE SetLibraryServices \/ PrepareLibraryConsolidation \/ Crash
    BY <1>5, <1>9 DEF SetLibraryServices, PrepareLibraryConsolidation, Crash, Begin, names
  <1>10. CASE \E t \in Tracks :
               \/ RetargetManagedMetadata(t) \/ SaveRecoveredTrack(t) \/ RecoveryRefuses(t)
               \/ SweepHandOff(t) \/ PlanMissing(t) \/ \E q \in Paths : PlanMove(t, q)
    BY <1>5, <1>10 DEF RetargetManagedMetadata, SaveRecoveredTrack, RecoveryRefuses,
                       SweepHandOff, PlanMissing, PlanMove, Begin, names
  <1>11. CASE UNCHANGED vars
    BY <1>5, <1>11 DEF vars, names
  <1> QED
    BY <1>1, <1>2, <1>3, <1>4, <1>6, <1>7, <1>8, <1>9, <1>10, <1>11 DEF Next, OperationStep

LEMMA ApartStep ==
    ASSUME TypeOK, Control, TypeOK', Control', [Next]_vars, Unfailing', Exact
    PROVE  Apart'
  <1> USE DEF Exact, Apart
  <1>1. ASSUME NEW t \in Tracks, NEW u \in Tracks, NEW p \in Paths, Claims(t, p)', Claims(u, p)'
        PROVE  t = u
    BY <1>1, ClaimsStep
  <1>2. ASSUME NEW t \in Tracks, NEW p \in Paths, Claims(t, p)', fs'[p] # NoFile
        PROVE  fs'[p][1] = t
    <2>1. Claims(t, p)
      BY <1>2, ClaimsStep
    <2>2. CASE fs[p] # NoFile /\ fs'[p][1] = fs[p][1]
      BY <2>1, <2>2
    <2>3. CASE \E u \in Moves : p = plan[u].dst /\ fs'[p] = plan[u].inode
      <3>1. PICK u \in Moves : p = plan[u].dst /\ fs'[p] = plan[u].inode
        BY <2>3
      <3>2. u \in Tracks /\ Claims(u, p)
        BY <3>1 DEF Claims, Moves
      <3>3. u = t
        BY <2>1, <3>2
      <3> QED
        BY <3>1, <3>3 DEF Pins, Pinned
    <2> QED
      BY <1>2, <2>2, <2>3, FileStep
  <1> QED
    BY <1>1, <1>2

LEMMA RowsRightStep ==
    ASSUME TypeOK, Control, TypeOK', Control', [Next]_vars, Unfailing', Exact
    PROVE  RowsRight'
  <1>0. \A t \in Tracks : Held(t)' => Held(t)
    BY NoNewAudio
  <1> USE <1>0, JournalAssumption
      DEF TypeOK, Inodes, Files, Location, Entry, names, recdir, rows, job, bounds,
          NoEntries, Journaled, Moves, Backups, Fault, Go, Sweep, Fail, Abandon, Begin, End,
          Control, Preparing, Moving, MidMove, Recovering, Replaying, Swept, FileOf, Unfailing,
             Exact, RowsRight
  <1>1. CASE SetLibraryServices
    BY <1>1 DEF SetLibraryServices
  <1>2. CASE PrepareLibraryConsolidation
    BY <1>2 DEF PrepareLibraryConsolidation
  <1>3. CASE RecoverJournal
    BY <1>3 DEF RecoverJournal
  <1>4. CASE FlushDurable
    BY <1>4 DEF FlushDurable
  <1>5. CASE RemoveJournal
    <2>1. /\ journal' = NoEntries /\ durable = db /\ todo = {}
          /\ (Moving \/ Recovering) /\ Journaled' = {}
          /\ UNCHANGED <<fs, db, durable>>
      BY <1>5 DEF RemoveJournal
    <2>2. ~MidMove
      BY <1>5 DEF RemoveJournal
    <2>3. \A t \in Journaled : FileOf(t, fs[db[t].path])
      <3>1. CASE Moving
        <4>1. journal = plan /\ \A t \in Moves : Ahead(plan[t], t) \/ Behind(plan[t], t)
          BY <2>1, <2>2, <3>1 DEF MovesRight
        <4> HIDE DEF TypeOK, Control, RowsRight, FileOf
        <4> QED
          BY <4>1 DEF Ahead, Behind
      <3>2. CASE Recovering
        <4>1. \A t \in Journaled : Ahead(journal[t], t) \/ Behind(journal[t], t)
          BY <2>1, <3>2 DEF MovesRight
        <4> HIDE DEF TypeOK, Control, RowsRight, FileOf
        <4> QED
          BY <4>1 DEF Ahead, Behind
      <3> QED
        BY <2>1, <3>1, <3>2
    <2>4. \A t \in Tracks : Held(t) => FileOf(t, fs[db[t].path])
      BY <2>3
    <2>5. Journaled' = {}
      BY <2>1
    <2> HIDE DEF Journaled
    <2> QED
      BY <2>1, <2>4, <2>5
  <1>6. CASE SweepUnlink
    BY <1>6 DEF SweepUnlink
  <1>7. CASE SweepDirectory
    BY <1>7 DEF SweepDirectory
  <1>8. CASE SweepFails
    BY <1>8 DEF SweepFails
  <1>9. CASE Recovered
    BY <1>9 DEF Recovered
  <1>10. CASE Planned
    <2>1. /\ Journaled = {} /\ pc = "plan"
          /\ db' = [t \in Tracks |-> IF t \in touched
                                     THEN [path |-> known[t].path, missing |-> TRUE] ELSE db[t]]
          /\ UNCHANGED <<fs, durable, journal>>
      BY <1>10 DEF Planned
    <2>2. \A t \in Tracks : known[t].path = db[t].path /\ (t \in touched => ~Held(t))
      BY <2>1 DEF PlanRight
    <2>3. \A t \in Tracks : db'[t].path = db[t].path /\ (Held(t) => db'[t] = db[t])
      BY <2>1, <2>2
    <2>4. Journaled' = {}
      BY <2>1
    <2> HIDE DEF Journaled
    <2> QED
      BY <2>1, <2>3, <2>4
  <1>11. CASE WriteJournal
    <2>1. CASE journal' = journal
      BY <1>11, <2>1 DEF WriteJournal
    <2>2. CASE journal' = plan /\ ~\E t \in Moves : fs[plan[t].src] # plan[t].inode
      <3>1. /\ Journaled = {} /\ pc = "journal" /\ Journaled' = Moves
            /\ UNCHANGED <<fs, db, durable>>
        BY <1>11, <2>2 DEF WriteJournal
      <3>2. \A t \in Moves : /\ plan[t] \in Entry /\ FileOf(t, fs[plan[t].src])
                             /\ plan[t].src = db[t].path
        BY <2>2, <3>1 DEF Pins, Pinned, PlanRight
      <3> HIDE DEF Journaled
      <3> QED
        BY <2>2, <3>1, <3>2 DEF Moves
    <2> QED
      BY <1>11, <2>1, <2>2 DEF WriteJournal
  <1>12. CASE Cancel
    BY <1>12 DEF Cancel
  <1>13. CASE HandOffSource
    <2>1. /\ cur \in Moves /\ cur \in Tracks /\ plan[cur] \in Entry /\ journal = plan
          /\ plan[cur].src # plan[cur].dst /\ plan[cur].inode[1] = cur
          /\ FileOf(cur, fs[plan[cur].dst]) /\ FileOf(cur, fs[plan[cur].src])
          /\ UNCHANGED <<journal, db, durable>>
      BY <1>13 DEF HandOffSource, Pins, Pinned
    <2>2. \A p \in Paths : p \notin {plan[cur].src, plan[cur].dst} => fs'[p] = fs[p]
      BY <1>13, <2>1 DEF HandOffSource
    <2>3. \/ fs'[plan[cur].dst] = fs[plan[cur].dst]
          \/ fs'[plan[cur].src] = fs[plan[cur].src]
      BY <1>13, <2>1 DEF HandOffSource
    <2>4. \A t \in Tracks, p \in Paths : Claims(t, p) /\ t # cur => fs'[p] = fs[p]
      BY <2>1, <2>2 DEF Apart, Claims
    <2>5. \A t \in Tracks : t # cur =>
             /\ fs'[db[t].path] = fs[db[t].path]
             /\ t \in Journaled => /\ fs'[journal[t].src] = fs[journal[t].src]
                                   /\ fs'[journal[t].dst] = fs[journal[t].dst]
      BY <2>4 DEF Claims
    <2>6. FileOf(cur, fs'[plan[cur].src]) \/ FileOf(cur, fs'[plan[cur].dst])
      BY <2>1, <2>3
    <2>9. cur \in Journaled
      BY <2>1
    <2>10. ASSUME NEW t \in Journaled
           PROVE  FileOf(t, fs'[journal[t].src]) \/ FileOf(t, fs'[journal[t].dst])
      <3>1. CASE t = cur
        BY <2>1, <2>6, <3>1
      <3>2. CASE t # cur
        BY <2>5, <3>2
      <3> QED
        BY <3>1, <3>2
    <2>7. /\ \A t \in Journaled : FileOf(t, fs'[journal[t].src]) \/ FileOf(t, fs'[journal[t].dst])
          /\ cur \in Journaled
      BY <2>9, <2>10
    <2>8. \A t \in Tracks \ Journaled : fs'[db[t].path] = fs[db[t].path]
      BY <2>5, <2>7
    <2> QED
      BY <2>1, <2>7, <2>8
  <1>14. CASE UnlinkSource
    BY <1>14 DEF UnlinkSource
  <1>15. CASE PersistLocation
    BY <1>15 DEF PersistLocation
  <1>16. CASE RemoveSourceFails
    BY <1>16 DEF RemoveSourceFails
  <1>17. CASE PersistFails
    BY <1>17 DEF PersistFails
  <1>18. CASE CallFails
    BY <1>18 DEF CallFails
  <1>19. CASE Finish
    BY <1>19 DEF Finish
  <1>20. CASE FailOperation
    BY <1>20 DEF FailOperation
  <1>21. CASE Checkpoint
    BY <1>21 DEF Checkpoint
  <1>22. CASE Crash
    BY <1>22 DEF Crash
  <1>23. CASE \E t \in Tracks : RetargetManagedMetadata(t)
    BY <1>23 DEF RetargetManagedMetadata
  <1>24. CASE \E t \in Tracks : MirrorTags(t)
    <2>1. PICK t \in Tracks : MirrorTags(t)
      BY <1>24
    <2>2. UNCHANGED <<journal, plan, db, durable, pc, faults>>
      BY <2>1, MirrorFiles
    <2>3. \A u \in Tracks, p \in Paths : FileOf(u, fs'[p]) <=> FileOf(u, fs[p])
      BY <2>1, MirrorFiles DEF FileOf
    <2>4. \A u \in Tracks : db[u].path \in Paths
      OBVIOUS
    <2>5. \A u \in Journaled : {journal[u].src, journal[u].dst} \subseteq Paths
      OBVIOUS
    <2> HIDE DEF FileOf, TypeOK, Entry, Location, Inodes, Files
    <2> QED
      BY <2>2, <2>3, <2>4, <2>5, <1>0
  <1>25. CASE \E t \in Tracks : RemoveRecoveredSource(t)
    <2> SUFFICES ASSUME NEW t \in Tracks, RemoveRecoveredSource(t) PROVE RowsRight'
      BY <1>25
    <2>1. /\ t \in Journaled /\ journal[t] \in Entry /\ journal[t].src # journal[t].dst
          /\ fs[journal[t].dst] = journal[t].inode /\ journal[t].inode[1] = t
          /\ fs' = [fs EXCEPT ![journal[t].src] = NoFile]
          /\ UNCHANGED <<journal, db, durable>>
      BY DEF RemoveRecoveredSource, RollsForward, DestinationState, PathState, Pins, Pinned
    <2>2. \A u \in Tracks, p \in Paths : Claims(u, p) /\ u # t => fs'[p] = fs[p]
      BY <2>1 DEF Apart, Claims
    <2>3. \A u \in Tracks : u # t =>
             /\ fs'[db[u].path] = fs[db[u].path]
             /\ u \in Journaled => /\ fs'[journal[u].src] = fs[journal[u].src]
                                   /\ fs'[journal[u].dst] = fs[journal[u].dst]
      BY <2>2 DEF Claims
    <2>4. FileOf(t, fs'[journal[t].dst])
      BY <2>1
    <2> QED
      BY <2>1, <2>3, <2>4
  <1>26. CASE \E t \in Tracks : SaveRecoveredTrack(t)
    BY <1>26 DEF SaveRecoveredTrack
  <1>27. CASE \E t \in Tracks : RecoveryRefuses(t)
    BY <1>27 DEF RecoveryRefuses
  <1>28. CASE \E t \in Tracks : SweepHandOff(t)
    BY <1>28 DEF SweepHandOff
  <1>29. CASE \E t \in Tracks : PlanMissing(t)
    BY <1>29 DEF PlanMissing
  <1>30. CASE \E t \in Tracks : LinkDestination(t)
    <2> SUFFICES ASSUME NEW t \in Tracks, LinkDestination(t) PROVE RowsRight'
      BY <1>30
    <2>1. /\ plan[t] \in Entry
          /\ \/ fs' = fs
             \/ /\ fs[plan[t].dst] = NoFile
                /\ fs' = [fs EXCEPT ![plan[t].dst] = plan[t].inode]
          /\ UNCHANGED <<journal, db, durable>>
      BY DEF LinkDestination
    <2>2. \A p \in Paths : fs[p] # NoFile => fs'[p] = fs[p]
      BY <2>1
    <2> QED
      BY <2>1, <2>2
  <1>31. CASE \E t \in Tracks, p \in Paths : PlanMove(t, p)
    BY <1>31 DEF PlanMove, Destinations
  <1>32. CASE UNCHANGED vars
    BY <1>32 DEF vars
  <1> QED
    BY <1>1, <1>2, <1>3, <1>4, <1>5, <1>6, <1>7, <1>8, <1>9, <1>10, <1>11, <1>12, <1>13, <1>14,
       <1>15, <1>16, <1>17, <1>18, <1>19, <1>20, <1>21, <1>22, <1>23, <1>24, <1>25, <1>26, <1>27,
       <1>28, <1>29, <1>30, <1>31, <1>32 DEF Next, OperationStep

LEMMA PlanRightStep ==
    ASSUME TypeOK, Control, TypeOK', Control', [Next]_vars, Unfailing', Exact
    PROVE  PlanRight'
  <1>0. \A t \in Tracks : Held(t)' => Held(t)
    BY NoNewAudio
  <1> USE <1>0, JournalAssumption
      DEF TypeOK, Inodes, Files, Location, Entry, names, recdir, rows, job, bounds,
          NoEntries, Journaled, Moves, Backups, Fault, Go, Sweep, Fail, Abandon, Begin, End,
          Control, Preparing, Moving, MidMove, Recovering, Replaying, Swept, FileOf, Unfailing,
             Exact, PlanRight
  <1>1. CASE SetLibraryServices
    BY <1>1 DEF SetLibraryServices
  <1>2. CASE PrepareLibraryConsolidation
    BY <1>2 DEF PrepareLibraryConsolidation
  <1>3. CASE RecoverJournal
    BY <1>3 DEF RecoverJournal
  <1>4. CASE FlushDurable
    BY <1>4 DEF FlushDurable
  <1>5. CASE RemoveJournal
    BY <1>5 DEF RemoveJournal
  <1>6. CASE SweepUnlink
    BY <1>6 DEF SweepUnlink
  <1>7. CASE SweepDirectory
    BY <1>7 DEF SweepDirectory
  <1>8. CASE SweepFails
    BY <1>8 DEF SweepFails
  <1>9. CASE Recovered
    <2>1. CASE pc' \in {"finished", "fail"}
      BY <2>1
    <2>2. CASE pc' = "plan"
      <3>1. /\ Journaled = {} /\ Moves' = {} /\ touched' = {} /\ db' = db
            /\ op \in {"consolidate", "retarget"} /\ app = "running" /\ pc = "recovered"
            /\ known' = IF op = "retarget" THEN db ELSE known
        BY <1>9, <2>2 DEF Recovered
      <3>2. op = "consolidate" => \A t \in Tracks : known[t].path = db[t].path
        BY <3>1 DEF ListRight, Ending
      <3> HIDE DEF Moves
      <3> QED
        BY <2>2, <3>1, <3>2
    <2> QED
      BY <1>9, <2>1, <2>2 DEF Recovered
  <1>10. CASE Planned
    BY <1>10 DEF Planned
  <1>11. CASE WriteJournal
    BY <1>11 DEF WriteJournal
  <1>12. CASE Cancel
    BY <1>12 DEF Cancel
  <1>13. CASE HandOffSource
    BY <1>13 DEF HandOffSource
  <1>14. CASE UnlinkSource
    BY <1>14 DEF UnlinkSource
  <1>15. CASE PersistLocation
    BY <1>15 DEF PersistLocation
  <1>16. CASE RemoveSourceFails
    BY <1>16 DEF RemoveSourceFails
  <1>17. CASE PersistFails
    BY <1>17 DEF PersistFails
  <1>18. CASE CallFails
    BY <1>18 DEF CallFails
  <1>19. CASE Finish
    BY <1>19 DEF Finish
  <1>20. CASE FailOperation
    BY <1>20 DEF FailOperation
  <1>21. CASE Checkpoint
    BY <1>21 DEF Checkpoint
  <1>22. CASE Crash
    BY <1>22 DEF Crash
  <1>23. CASE \E t \in Tracks : RetargetManagedMetadata(t)
    BY <1>23 DEF RetargetManagedMetadata
  <1>24. CASE \E t \in Tracks : MirrorTags(t)
    BY <1>24 DEF MirrorTags
  <1>25. CASE \E t \in Tracks : RemoveRecoveredSource(t)
    BY <1>25 DEF RemoveRecoveredSource
  <1>26. CASE \E t \in Tracks : SaveRecoveredTrack(t)
    BY <1>26 DEF SaveRecoveredTrack
  <1>27. CASE \E t \in Tracks : RecoveryRefuses(t)
    BY <1>27 DEF RecoveryRefuses
  <1>28. CASE \E t \in Tracks : SweepHandOff(t)
    BY <1>28 DEF SweepHandOff
  <1>29. CASE \E t \in Tracks : PlanMissing(t)
    <2> SUFFICES ASSUME NEW t \in Tracks, PlanMissing(t) PROVE PlanRight'
      BY <1>29
    <2>1. /\ Journaled = {} /\ pc = "plan" /\ fs[known[t].path] = NoFile
          /\ known[t].path = db[t].path /\ touched' \subseteq touched \union {t}
          /\ UNCHANGED <<fs, known, db, plan>>
      BY DEF PlanMissing
    <2>2. ~Held(t)
      BY <2>1 DEF RowsRight
    <2> QED
      BY <2>1, <2>2 DEF PlanMissing
  <1>30. CASE \E t \in Tracks : LinkDestination(t)
    BY <1>30 DEF LinkDestination
  <1>31. CASE \E t \in Tracks, p \in Paths : PlanMove(t, p)
    BY <1>31 DEF PlanMove, Destinations
  <1>32. CASE UNCHANGED vars
    BY <1>32 DEF vars
  <1> QED
    BY <1>1, <1>2, <1>3, <1>4, <1>5, <1>6, <1>7, <1>8, <1>9, <1>10, <1>11, <1>12, <1>13, <1>14,
       <1>15, <1>16, <1>17, <1>18, <1>19, <1>20, <1>21, <1>22, <1>23, <1>24, <1>25, <1>26, <1>27,
       <1>28, <1>29, <1>30, <1>31, <1>32 DEF Next, OperationStep

LEMMA MovesRightStep ==
    ASSUME TypeOK, Control, TypeOK', Control', [Next]_vars, Unfailing', Exact
    PROVE  MovesRight'
  <1>0. \A t \in Tracks : Held(t)' => Held(t)
    BY NoNewAudio
  <1> USE <1>0, JournalAssumption
      DEF TypeOK, Inodes, Files, Location, Entry, names, recdir, rows, job, bounds,
          NoEntries, Journaled, Moves, Backups, Fault, Go, Sweep, Fail, Abandon, Begin, End,
          Control, Preparing, Moving, MidMove, Recovering, Replaying, Swept, FileOf, Unfailing,
             Exact, MovesRight, Ahead, Behind
  <1>1. CASE SetLibraryServices
    BY <1>1 DEF SetLibraryServices
  <1>2. CASE PrepareLibraryConsolidation
    BY <1>2 DEF PrepareLibraryConsolidation
  <1>3. CASE RecoverJournal
    BY <1>3 DEF RecoverJournal
  <1>4. CASE FlushDurable
    BY <1>4 DEF FlushDurable
  <1>5. CASE RemoveJournal
    BY <1>5 DEF RemoveJournal
  <1>6. CASE SweepUnlink
    BY <1>6 DEF SweepUnlink
  <1>7. CASE SweepDirectory
    BY <1>7 DEF SweepDirectory
  <1>8. CASE SweepFails
    BY <1>8 DEF SweepFails
  <1>9. CASE Recovered
    BY <1>9 DEF Recovered
  <1>10. CASE Planned
    BY <1>10 DEF Planned
  <1>11. CASE WriteJournal
    <2>1. CASE pc' = "move"
      <3>1. /\ todo' = Moves /\ pc = "journal" /\ \A t \in Moves : fs[plan[t].src] = plan[t].inode
            /\ UNCHANGED <<plan, fs, db>>
        BY <1>11, <2>1 DEF WriteJournal
      <3>2. \A t \in Moves : /\ plan[t] \in Entry /\ FileOf(t, fs[plan[t].src])
                             /\ plan[t].src = db[t].path /\ fs[plan[t].dst] = NoFile
        BY <3>1 DEF Pins, Pinned, PlanRight
      <3>3. Moves' = Moves
        BY <3>1
      <3> HIDE DEF Moves
      <3> QED
        BY <2>1, <3>1, <3>2, <3>3
    <2>2. CASE pc' \in {"sweep", "fail"}
      BY <2>2
    <2> QED
      BY <1>11, <2>1, <2>2 DEF WriteJournal
  <1>12. CASE Cancel
    BY <1>12 DEF Cancel
  <1>13. CASE HandOffSource
    <2>1. CASE pc' = "unlink"
      <3>1. /\ cur \in Moves /\ plan[cur] \in Entry /\ plan[cur].src # plan[cur].dst
            /\ pc = "linked" /\ db[cur].path = plan[cur].src
            /\ fs[plan[cur].dst] = plan[cur].inode
            /\ fs' = [fs EXCEPT ![plan[cur].src] = NoFile]
            /\ UNCHANGED <<db, plan, todo, cur>>
        BY <1>13, <2>1 DEF HandOffSource
      <3>2. \A t \in Tracks, p \in Paths : Claims(t, p) /\ t # cur => fs'[p] = fs[p]
        BY <3>1 DEF Apart, Claims
      <3>3. \A t \in Moves : t # cur => /\ plan[t] \in Entry
                                        /\ fs'[plan[t].src] = fs[plan[t].src]
                                        /\ fs'[plan[t].dst] = fs[plan[t].dst]
        BY <3>2 DEF Claims
      <3>4. ASSUME NEW t \in Moves, t # cur
            PROVE  Ahead(plan[t], t)' \/ (t \notin todo /\ Behind(plan[t], t)')
        <4>1. Ahead(plan[t], t) \/ (t \notin todo /\ Behind(plan[t], t))
          <5> HIDE DEF Ahead, Behind, TypeOK, Control, Moves
          <5> QED
            BY <3>1, <3>4
        <4> QED
          BY <3>1, <3>3, <3>4, <4>1
      <3>5. fs'[plan[cur].dst] = plan[cur].inode
        BY <3>1
      <3>6. Moves' = Moves /\ db'[cur].path = plan'[cur].src
            /\ fs'[plan'[cur].dst] = plan'[cur].inode
        BY <3>1, <3>5
      <3> HIDE DEF Moves, Ahead, Behind, TypeOK, Control, Exact
      <3>7. plan' = plan /\ todo' = todo /\ cur' = cur
        BY <3>1
      <3> QED
        BY <2>1, <3>4, <3>6, <3>7
    <2>2. CASE pc' \in {"sweep", "fail"}
      BY <2>2
    <2> QED
      BY <1>13, <2>1, <2>2 DEF HandOffSource
  <1>14. CASE UnlinkSource
    BY <1>14 DEF UnlinkSource
  <1>15. CASE PersistLocation
    <2>1. /\ cur \in Moves /\ cur \notin todo /\ plan[cur] \in Entry /\ plan[cur].inode[1] = cur
          /\ fs[plan[cur].dst] = plan[cur].inode /\ pc = "persist" /\ pc' = "move"
          /\ db' = [db EXCEPT ![cur] = [path |-> plan[cur].dst, missing |-> FALSE]]
          /\ UNCHANGED <<fs, plan, todo, cur>>
      BY <1>15 DEF PersistLocation, Pins, Pinned
    <2>2. Behind(plan[cur], cur)'
      BY <2>1
    <2> QED
      BY <2>1, <2>2
  <1>16. CASE RemoveSourceFails
    BY <1>16 DEF RemoveSourceFails
  <1>17. CASE PersistFails
    BY <1>17 DEF PersistFails
  <1>18. CASE CallFails
    BY <1>18 DEF CallFails
  <1>19. CASE Finish
    BY <1>19 DEF Finish
  <1>20. CASE FailOperation
    BY <1>20 DEF FailOperation
  <1>21. CASE Checkpoint
    BY <1>21 DEF Checkpoint
  <1>22. CASE Crash
    BY <1>22 DEF Crash
  <1>23. CASE \E t \in Tracks : RetargetManagedMetadata(t)
    BY <1>23 DEF RetargetManagedMetadata
  <1>24. CASE \E t \in Tracks : MirrorTags(t)
    <2> SUFFICES ASSUME NEW t \in Tracks, MirrorTags(t) PROVE MovesRight'
      BY <1>24
    <2> DEFINE p == db[t].path
    <2>1. /\ p \in Paths /\ fs[p] # NoFile
          /\ fs' = [fs EXCEPT ![p] = <<fs[p][1], fs[p][2] + 1>>]
          /\ UNCHANGED <<db, plan, journal, todo, cur, pc>>
      BY DEF MirrorTags
    <2>2. \A u \in Tracks, q \in Paths :
             /\ FileOf(u, fs[q]) => FileOf(u, fs'[q])
             /\ fs[q] = NoFile => fs'[q] = NoFile
      BY <2>1
    <2>3. MidMove => /\ cur \in Moves /\ fs[plan[cur].dst] = plan[cur].inode
                     /\ db[cur].path = plan[cur].src /\ plan[cur].src # plan[cur].dst
                     /\ plan[cur] \in Entry
      OBVIOUS
    <2>4. MidMove => plan[cur].dst # p
      BY <2>1, <2>3 DEF Apart, Claims
    <2>5. MidMove => fs'[plan[cur].dst] = plan[cur].inode
      BY <2>1, <2>3, <2>4
    <2> HIDE DEF p
    <2>6. \A e \in Entry, u \in Tracks :
             (Ahead(e, u) => Ahead(e, u)') /\ (Behind(e, u) => Behind(e, u)')
      BY <2>1, <2>2
    <2> QED
      BY <2>1, <2>3, <2>5, <2>6
  <1>25. CASE \E t \in Tracks : RemoveRecoveredSource(t)
    <2> SUFFICES ASSUME NEW t \in Tracks, RemoveRecoveredSource(t) PROVE MovesRight'
      BY <1>25
    <2>1. /\ t \in Journaled /\ t \in todo /\ journal[t] \in Entry
          /\ fs' = [fs EXCEPT ![journal[t].src] = NoFile]
          /\ pc = "reconcile" /\ pc' = "recoverunlink"
          /\ UNCHANGED <<journal, db, todo>>
      BY DEF RemoveRecoveredSource
    <2>2. \A u \in Tracks, p \in Paths : Claims(u, p) /\ u # t => fs'[p] = fs[p]
      BY <2>1 DEF Apart, Claims
    <2>3. \A u \in Journaled \ todo : /\ fs'[journal[u].src] = fs[journal[u].src]
                                      /\ fs'[journal[u].dst] = fs[journal[u].dst]
      BY <2>1, <2>2 DEF Claims
    <2> QED
      BY <2>1, <2>3
  <1>26. CASE \E t \in Tracks : SaveRecoveredTrack(t)
    <2> SUFFICES ASSUME NEW t \in Tracks, SaveRecoveredTrack(t) PROVE MovesRight'
      BY <1>26
    <2> DEFINE e == journal[t]
    <2>1. /\ t \in Journaled /\ e \in Entry /\ e.inode[1] = t /\ e.inode # NoFile
          /\ pc = "reconcile" /\ todo' = todo \ {t}
          /\ UNCHANGED <<fs, journal, pc>>
      BY DEF SaveRecoveredTrack, Pins, Pinned
    <2>2. \/ fs[e.dst] = e.inode /\ db' = [db EXCEPT ![t] = [path |-> e.dst, missing |-> FALSE]]
          \/ /\ fs[e.src] = e.inode /\ fs[e.dst] = NoFile
             /\ db' = [db EXCEPT ![t] = [path |-> e.src, missing |-> FALSE]]
      BY <2>1 DEF SaveRecoveredTrack, RollsForward, RollsBack, SourceState, DestinationState,
         PathState
    <2>3. Ahead(e, t)' \/ Behind(e, t)'
      BY <2>1, <2>2
    <2>4. \A u \in Journaled \ todo : db'[u] = db[u] \/ u = t
      BY <2>1, <2>2
    <2>5. \A u \in Journaled \ todo' : Ahead(journal[u], u)' \/ Behind(journal[u], u)'
      BY <2>1, <2>3, <2>4
    <2> QED
      BY <2>1, <2>5
  <1>27. CASE \E t \in Tracks : RecoveryRefuses(t)
    BY <1>27 DEF RecoveryRefuses
  <1>28. CASE \E t \in Tracks : SweepHandOff(t)
    BY <1>28 DEF SweepHandOff
  <1>29. CASE \E t \in Tracks : PlanMissing(t)
    BY <1>29 DEF PlanMissing
  <1>30. CASE \E t \in Tracks : LinkDestination(t)
    <2> SUFFICES ASSUME NEW t \in Tracks, LinkDestination(t) PROVE MovesRight'
      BY <1>30
    <2>1. CASE pc' = "linked"
      <3>1. /\ t \in Moves /\ t \in todo /\ plan[t] \in Entry /\ plan[t].src # plan[t].dst
            /\ pc = "move" /\ cur' = t /\ todo' = todo \ {t}
            /\ fs' = [fs EXCEPT ![plan[t].dst] = plan[t].inode]
            /\ UNCHANGED <<db, plan>>
        BY <2>1 DEF LinkDestination
      <3>2. \A u \in Tracks, p \in Paths : Claims(u, p) /\ u # t => fs'[p] = fs[p]
        BY <3>1 DEF Apart, Claims
      <3>3. \A u \in Moves : u # t => /\ plan[u] \in Entry
                                      /\ fs'[plan[u].src] = fs[plan[u].src]
                                      /\ fs'[plan[u].dst] = fs[plan[u].dst]
        BY <3>2 DEF Claims
      <3>4. db[t].path = plan[t].src /\ fs'[plan[t].dst] = plan[t].inode
        BY <3>1
      <3>5. ASSUME NEW u \in Moves, u # t
            PROVE  Ahead(plan[u], u)' \/ (u \notin todo /\ Behind(plan[u], u)')
        <4>1. Ahead(plan[u], u) \/ (u \notin todo /\ Behind(plan[u], u))
          <5> HIDE DEF Ahead, Behind, TypeOK, Control, Moves
          <5> QED
            BY <3>1
        <4> QED
          BY <3>1, <3>3, <3>5, <4>1
      <3> QED
        BY <2>1, <3>1, <3>4, <3>5
    <2>2. CASE pc' \in {"sweep", "fail"}
      BY <2>2
    <2> QED
      BY <2>1, <2>2 DEF LinkDestination
  <1>31. CASE \E t \in Tracks, p \in Paths : PlanMove(t, p)
    BY <1>31 DEF PlanMove, Destinations
  <1>32. CASE UNCHANGED vars
    BY <1>32 DEF vars
  <1> QED
    BY <1>1, <1>2, <1>3, <1>4, <1>5, <1>6, <1>7, <1>8, <1>9, <1>10, <1>11, <1>12, <1>13, <1>14,
       <1>15, <1>16, <1>17, <1>18, <1>19, <1>20, <1>21, <1>22, <1>23, <1>24, <1>25, <1>26, <1>27,
       <1>28, <1>29, <1>30, <1>31, <1>32 DEF Next, OperationStep

LEMMA ListRightStep ==
    ASSUME TypeOK, Control, TypeOK', Control', [Next]_vars, Unfailing', Exact
    PROVE  ListRight'
  <1>0. \A t \in Tracks : Held(t)' => Held(t)
    BY NoNewAudio
  <1> USE <1>0, JournalAssumption
      DEF TypeOK, Inodes, Files, Location, Entry, names, recdir, rows, job, bounds,
          NoEntries, Journaled, Moves, Backups, Fault, Go, Sweep, Fail, Abandon, Begin, End,
          Control, Preparing, Moving, MidMove, Recovering, Replaying, Swept, FileOf, Unfailing,
             Exact, ListRight, Ending, Refusing, Halting, Stuck
  <1>1. CASE SetLibraryServices
    BY <1>1 DEF SetLibraryServices
  <1>2. CASE PrepareLibraryConsolidation
    BY <1>2 DEF PrepareLibraryConsolidation
  <1>3. CASE RecoverJournal
    BY <1>3 DEF RecoverJournal
  <1>4. CASE FlushDurable
    BY <1>4 DEF FlushDurable
  <1>5. CASE RemoveJournal
    BY <1>5 DEF RemoveJournal
  <1>6. CASE SweepUnlink
    BY <1>6 DEF SweepUnlink
  <1>7. CASE SweepDirectory
    BY <1>7 DEF SweepDirectory
  <1>8. CASE SweepFails
    <2>1. /\ pc = "sweep" /\ Journaled = {} /\ journal' = journal
          /\ \/ after = "finished" /\ pc' = "finished" /\ after' = after
             \/ /\ after # "finished" /\ pc' # "finished"
                /\ pc' \notin {"move", "linked", "unlink", "persist", "unjournal"}
          /\ UNCHANGED <<app, mem, db, touched, op, known>>
      BY <1>8 DEF SweepFails, Strict
    <2> QED
      BY <2>1
  <1>9. CASE Recovered
    BY <1>9 DEF Recovered
  <1>10. CASE Planned
    <2>1. /\ Journaled = {} /\ journal' = journal /\ pc = "plan"
          /\ db' = [t \in Tracks |-> IF t \in touched
                                     THEN [path |-> known[t].path, missing |-> TRUE] ELSE db[t]]
          /\ pc' \in {"journal", "sweep"}
          /\ UNCHANGED <<app, mem, op, known, touched>>
      BY <1>10 DEF Planned
    <2>2. \A t \in Tracks : db'[t].path = db[t].path
      BY <2>1 DEF PlanRight
    <2>3. app = "running" => \A t \in Tracks : mem[t].path = db[t].path
      BY <2>1
    <2> QED
      BY <2>1, <2>2, <2>3
  <1>11. CASE WriteJournal
    BY <1>11 DEF WriteJournal
  <1>12. CASE Cancel
    BY <1>12 DEF Cancel
  <1>13. CASE HandOffSource
    <2>1. CASE pc' = "unlink"
      BY <1>13, <2>1 DEF HandOffSource
    <2>2. CASE pc' # "unlink"
      <3>1. /\ cur \in Moves /\ plan[cur] \in Entry /\ journal = plan /\ Journaled # {}
            /\ fs[plan[cur].src] # plan[cur].inode /\ plan[cur].src # plan[cur].dst
            /\ fs' = [fs EXCEPT ![plan[cur].dst] = NoFile] /\ pc' = "fail"
            /\ UNCHANGED <<journal, todo, op, known, mem>>
        BY <1>13, <2>2 DEF HandOffSource
      <3>2. plan[cur].inode # NoFile /\ plan[cur].src \in Paths /\ plan[cur].dst \in Paths
        BY <3>1
      <3>3. fs'[plan[cur].src] # plan[cur].inode /\ fs'[plan[cur].dst] # plan[cur].inode
        BY <3>1, <3>2
      <3>6. journal'[cur] = plan[cur]
        BY <3>1
      <3>4. Stuck(cur)' /\ cur \in Journaled'
        <4>1. journal'[cur].src = plan[cur].src /\ journal'[cur].dst = plan[cur].dst
              /\ journal'[cur].inode = plan[cur].inode /\ cur' = cur
          BY <1>13, <3>6 DEF HandOffSource
        <4>2. plan[cur] # NoEntry
          BY <3>1
        <4> HIDE DEF TypeOK, Control, Exact
        <4> QED
          BY <3>1, <3>3, <3>6, <4>1, <4>2
      <3>5. Refusing' /\ ~Moving' /\ Journaled' # {} /\ known' = known /\ mem' = mem /\ op' = op
        <4>1. cur' = cur /\ cur \in Tracks
          BY <1>13 DEF HandOffSource
        <4> HIDE DEF Stuck, Journaled, Moves
        <4> QED
          BY <3>1, <3>4, <4>1
      <3> QED
        BY <3>5
    <2> QED
      BY <2>1, <2>2
  <1>14. CASE UnlinkSource
    BY <1>14 DEF UnlinkSource
  <1>15. CASE PersistLocation
    BY <1>15 DEF PersistLocation
  <1>16. CASE RemoveSourceFails
    BY <1>16 DEF RemoveSourceFails
  <1>17. CASE PersistFails
    BY <1>17 DEF PersistFails
  <1>18. CASE CallFails
    BY <1>18 DEF CallFails
  <1>19. CASE Finish
    BY <1>19 DEF Finish
  <1>20. CASE FailOperation
    BY <1>20 DEF FailOperation
  <1>21. CASE Checkpoint
    BY <1>21 DEF Checkpoint
  <1>22. CASE Crash
    BY <1>22 DEF Crash
  <1>23. CASE \E t \in Tracks : RetargetManagedMetadata(t)
    BY <1>23 DEF RetargetManagedMetadata
  <1>24. CASE \E t \in Tracks : MirrorTags(t)
    <2> SUFFICES ASSUME NEW t \in Tracks, MirrorTags(t) PROVE ListRight'
      BY <1>24
    <2>1. /\ db[t].path \in Paths /\ fs[db[t].path] \in Inodes
          /\ fs' = [fs EXCEPT ![db[t].path] = <<fs[db[t].path][1], fs[db[t].path][2] + 1>>]
          /\ UNCHANGED <<journal, plan, db, mem, known, app, op, todo, touched, pc, after>>
      BY DEF MirrorTags
    <2>2. ASSUME NEW u \in Journaled, NEW q \in {journal[u].src, journal[u].dst},
                 fs[q] # journal[u].inode
          PROVE  fs'[q] # journal[u].inode
      <3>1. journal[u] \in Entry /\ q \in Paths /\ journal[u].inode \in Inodes
        OBVIOUS
      <3>2. CASE q = db[t].path
        <4>1. fs'[q] = <<fs[q][1], fs[q][2] + 1>> /\ fs[q][2] \in Nat /\ journal[u].inode[2] \in Nat
          BY <2>1, <3>1, <3>2
        <4>2. fs[q][2] >= journal[u].inode[2]
          <5>1. Pinned(journal[u], u)
            BY DEF Pins
          <5> QED
            BY <2>1, <3>2, <5>1 DEF Pinned
        <4> QED
          BY <4>1, <4>2
      <3> QED
        BY <2>1, <2>2, <3>1, <3>2
    <2>3. \A u \in Journaled : Stuck(u) => Stuck(u)'
      BY <2>1, <2>2
    <2>4. Refusing => Refusing'
      BY <2>1, <2>3
    <2> HIDE DEF Refusing
    <2> QED
      BY <2>1, <2>4
  <1>25. CASE \E t \in Tracks : RemoveRecoveredSource(t)
    <2> SUFFICES ASSUME NEW t \in Tracks, RemoveRecoveredSource(t) PROVE ListRight'
      BY <1>25
    <2>1. /\ t \in Journaled /\ t \in todo /\ journal[t] \in Entry
          /\ fs' = [fs EXCEPT ![journal[t].src] = NoFile]
          /\ pc = "reconcile" /\ pc' = "recoverunlink"
          /\ UNCHANGED <<journal, db, mem, known, app, op, todo>>
      BY DEF RemoveRecoveredSource
    <2>2. \A u \in Journaled : Stuck(u) => Stuck(u)'
      BY <2>1
    <2> QED
      BY <2>1, <2>2
  <1>26. CASE \E t \in Tracks : SaveRecoveredTrack(t)
    <2> SUFFICES ASSUME NEW t \in Tracks, SaveRecoveredTrack(t) PROVE ListRight'
      BY <1>26
    <2>1. /\ t \in Journaled /\ journal[t] \in Entry
          /\ pc = "reconcile" /\ pc' = pc /\ todo' = todo \ {t}
          /\ UNCHANGED <<fs, journal, mem, known, app, op>>
      BY DEF SaveRecoveredTrack
    <2>2. ~Stuck(t)
      BY <2>1 DEF SaveRecoveredTrack, RollsForward, RollsBack, SourceState, DestinationState,
         PathState
    <2> QED
      BY <2>1, <2>2
  <1>27. CASE \E t \in Tracks : RecoveryRefuses(t)
    BY <1>27 DEF RecoveryRefuses
  <1>28. CASE \E t \in Tracks : SweepHandOff(t)
    BY <1>28 DEF SweepHandOff
  <1>29. CASE \E t \in Tracks : PlanMissing(t)
    BY <1>29 DEF PlanMissing
  <1>30. CASE \E t \in Tracks : LinkDestination(t)
    <2> SUFFICES ASSUME NEW t \in Tracks, LinkDestination(t) PROVE ListRight'
      BY <1>30
    <2>1. CASE pc' = "linked"
      BY <2>1 DEF LinkDestination
    <2>2. CASE pc' # "linked"
      <3>1. /\ t \in Moves /\ plan[t] \in Entry /\ journal = plan /\ Journaled # {}
            /\ fs[plan[t].src] # plan[t].inode \/ fs[plan[t].dst] # NoFile
            /\ pc = "move" /\ t \in todo /\ pc' = "fail"
            /\ UNCHANGED <<fs, journal, op, known, mem>>
        BY <2>2 DEF LinkDestination
      <3>2. fs[plan[t].dst] = NoFile
        BY <3>1 DEF MovesRight, Ahead
      <3>3. Stuck(t)' /\ t \in Journaled'
        BY <3>1, <3>2
      <3> QED
        BY <3>1, <3>3
    <2> QED
      BY <2>1, <2>2
  <1>31. CASE \E t \in Tracks, p \in Paths : PlanMove(t, p)
    BY <1>31 DEF PlanMove, Destinations
  <1>32. CASE UNCHANGED vars
    BY <1>32 DEF vars
  <1> QED
    BY <1>1, <1>2, <1>3, <1>4, <1>5, <1>6, <1>7, <1>8, <1>9, <1>10, <1>11, <1>12, <1>13, <1>14,
       <1>15, <1>16, <1>17, <1>18, <1>19, <1>20, <1>21, <1>22, <1>23, <1>24, <1>25, <1>26, <1>27,
       <1>28, <1>29, <1>30, <1>31, <1>32 DEF Next, OperationStep

-----------------------------------------------------------------------------
(* The inductive invariant.                                                *)

LEMMA InitExact == Init => Exact
  <1> SUFFICES ASSUME Init PROVE Exact
    OBVIOUS
  <1>1. Moves = {} /\ Journaled = {} /\ durable = db /\ mem = db /\ known = mem /\ touched = {}
    BY DEF Init, Moves, Journaled, NoEntries
  <1>2. /\ db \in [Tracks -> Location] /\ pc = "idle"
        /\ \A t, u \in Tracks : db[t].path = db[u].path => t = u
        /\ \A t \in Tracks : fs[db[t].path] \in {<<t, 0>>, NoFile}
        /\ \A t \in Tracks : db[t].missing => fs[db[t].path] = NoFile
        /\ \A p \in Paths : (\A t \in Tracks : db[t].path # p) => fs[p] = NoFile
    BY DEF Init
  <1>3. Apart
    BY <1>1, <1>2 DEF Apart, Claims
  <1>4. ASSUME NEW t \in Tracks, Held(t) PROVE FileOf(t, fs[db[t].path]) /\ ~db[t].missing
    <2>1. PICK p \in Paths : FileOf(t, fs[p])
      BY <1>4 DEF Init, Held, FileOf
    <2>2. PICK u \in Tracks : db[u].path = p
      BY <1>2, <2>1 DEF FileOf
    <2>3. u = t
      BY <1>2, <2>1, <2>2 DEF FileOf
    <2> QED
      BY <1>2, <2>1, <2>2, <2>3 DEF FileOf
  <1>5. RowsRight
    BY <1>1, <1>4 DEF RowsRight
  <1>6. Pins /\ PlanRight /\ MovesRight
    BY <1>1, <1>2 DEF Pins, PlanRight, MovesRight, Preparing, Moving, MidMove, Recovering
  <1>7. ListRight
    BY <1>1, <1>2 DEF ListRight
  <1> QED
    BY <1>3, <1>5, <1>6, <1>7 DEF Exact

LEMMA UnfailingBefore == TypeOK /\ [Next]_vars /\ Unfailing' => Unfailing
  <1> SUFFICES ASSUME TypeOK, [Next]_vars, faults # 0 PROVE faults' # 0
    BY DEF Unfailing
  <1> USE JournalAssumption DEF TypeOK, bounds
  <1>1. CASE \/ RecoverJournal \/ FlushDurable \/ SweepUnlink
             \/ SweepDirectory \/ Recovered \/ Planned
    BY <1>1 DEF RecoverJournal, FlushDurable, SweepUnlink, SweepDirectory, Recovered, Planned
  <1>2. CASE UnlinkSource \/ PersistLocation \/ Finish \/ FailOperation \/ Cancel \/ Checkpoint
    BY <1>2 DEF UnlinkSource, PersistLocation, Finish, FailOperation, Cancel, Checkpoint
  <1>3. CASE \/ RemoveSourceFails \/ PersistFails \/ CallFails \/ SweepFails
             \/ RemoveJournal \/ WriteJournal
    BY <1>3 DEF RemoveSourceFails, PersistFails, CallFails, SweepFails, RemoveJournal,
                WriteJournal, Fault
  <1>4. CASE SetLibraryServices \/ PrepareLibraryConsolidation \/ Crash \/ HandOffSource
    BY <1>4 DEF SetLibraryServices, PrepareLibraryConsolidation, Crash, HandOffSource
  <1>5. CASE \E t \in Tracks :
               \/ RetargetManagedMetadata(t) \/ MirrorTags(t) \/ SaveRecoveredTrack(t)
               \/ RemoveRecoveredSource(t) \/ RecoveryRefuses(t)
    BY <1>5 DEF RetargetManagedMetadata, MirrorTags, SaveRecoveredTrack,
                RemoveRecoveredSource, RecoveryRefuses
  <1>6. CASE \E t \in Tracks :
               \/ SweepHandOff(t) \/ PlanMissing(t) \/ LinkDestination(t)
               \/ \E p \in Paths : PlanMove(t, p)
    BY <1>6 DEF SweepHandOff, PlanMissing, LinkDestination, PlanMove
  <1>7. CASE UNCHANGED vars
    BY <1>7 DEF vars
  <1> QED
    BY <1>1, <1>2, <1>3, <1>4, <1>5, <1>6, <1>7 DEF Next, OperationStep

LEMMA ExactStep ==
    ASSUME TypeOK, Control, TypeOK', Control', [Next]_vars, Unfailing', Exact
    PROVE  Exact'
  BY ApartStep, RowsRightStep, PinsStep, PlanRightStep, MovesRightStep, ListRightStep DEF Exact

\* The inductive invariant holds in every state: audio is named, and while no
\* call has failed every row, journaled move and planned move is where the
\* protocol of consolidation.rs needs it.
THEOREM Invariance == Spec => []Inductive
  <1>1. Init => Inductive
    BY InitControl, InitSafe, InitExact DEF Inductive
  <1>2. Inductive /\ [Next]_vars => Inductive'
    <2> SUFFICES ASSUME Inductive, [Next]_vars PROVE Inductive'
      OBVIOUS
    <2>1. TypeOK' /\ Control'
      BY TypeStep, ControlStep DEF Inductive
    <2>2. Safe'
      BY <2>1, SafeStep DEF Inductive
    <2>3. Unfailing' => Exact'
      BY <2>1, UnfailingBefore, ExactStep DEF Inductive
    <2> QED
      BY <2>1, <2>2, <2>3 DEF Inductive
  <1> QED
    BY <1>1, <1>2, PTL DEF Spec

-----------------------------------------------------------------------------
(* What it says about crashes.                                             *)

LEMMA UnwrittenIsPinned ==
    ASSUME TypeOK, Exact, Unwritten, NEW t \in Journaled,
           NEW p \in {journal[t].src, journal[t].dst}, fs[p] # NoFile
    PROVE  fs[p] = journal[t].inode
  <1> DEFINE e == journal[t]
  <1>1. e \in Entry /\ Pinned(e, t)
    BY DEF Exact, Pins, TypeOK, Journaled
  <1>2. p \in Paths /\ e.inode \in Inodes /\ fs[p] \in Inodes
    BY <1>1 DEF TypeOK, Entry, Files
  <1>3. fs[p][1] = t
    BY <1>2 DEF Exact, Apart, Claims, Journaled
  <1>4. fs[p][2] = 0 /\ e.inode[1] = t /\ 0 >= e.inode[2]
    BY <1>1, <1>2 DEF Unwritten, Pinned
  <1> QED
    BY <1>2, <1>3, <1>4 DEF Inodes

LEMMA RollsForwardIs ==
    ASSUME TypeOK, NEW t \in Journaled
    PROVE  RollsForward(t) <=> fs[journal[t].dst] = journal[t].inode
  BY JournalAssumption
  DEF RollsForward, DestinationState, PathState, TypeOK, Journaled, Entry

\* One of a journaled move's names has its file, no rewrite has changed it,
\* and so it is the pinned one.
LEMMA RecoverableWhenUnwritten ==
    ASSUME TypeOK, Exact, Unwritten, NEW t \in Journaled
    PROVE  Recoverable(t)
  <1>1. FileOf(t, fs[journal[t].src]) \/ FileOf(t, fs[journal[t].dst])
    BY DEF Exact, RowsRight
  <1> QED
    BY <1>1, UnwrittenIsPinned, JournalAssumption
    DEF Recoverable, RollsForward, RollsBack, SourceState, DestinationState, PathState, FileOf

\* While no call fails and no file is rewritten, a crash at any step leaves
\* each journaled move in a state that recover_library_consolidation_journal
\* completes or undoes (consolidation.rs).
THEOREM JournalStaysRecoverable == Spec => []JournalRecoverable
  <1>1. Inductive => JournalRecoverable
    BY RecoverableWhenUnwritten DEF Inductive, JournalRecoverable
  <1> QED
    BY <1>1, Invariance, PTL

\* While no call fails, a track that no journal lists is found by its row, by
\* the one a power failure leaves as well: no row runs ahead of its file, and
\* flush_durable makes the rows durable before the journal goes.
THEOREM RowsKept == Spec => []CrashesKeepRows
  <1>1. Inductive => CrashesKeepRows
    BY DEF Inductive, Exact, RowsRight, CrashesKeepRows, RowsFindFiles
  <1> QED
    BY <1>1, Invariance, PTL

-----------------------------------------------------------------------------
(* The moves are atomic: ConsolidationJournal implements LibraryLocations.  *)

Place(t) == IF t \notin Journaled THEN db[t].path
            ELSE IF RollsForward(t) THEN journal[t].dst ELSE journal[t].src

LEMMA PlacesClaimed ==
    ASSUME TypeOK, NEW t \in Tracks
    PROVE  Place(t) \in Paths /\ Claims(t, Place(t)) /\ Whereabouts[t] = Place(t)
  BY DEF Place, Claims, Whereabouts, TypeOK, Location, Entry, Journaled

\* A track moves alone, to a place no track had; every other step moves none.
LEMMA PlaceStep ==
    ASSUME TypeOK, Control, TypeOK', Control', [Next]_vars, Unfailing', Unwritten', Exact
    PROVE  \/ \A t \in Tracks : Place(t)' = Place(t)
           \/ \E t \in Tracks : /\ \A u \in Tracks : u # t => Place(u)' = Place(u)
                                /\ \A u \in Tracks : Place(u) # Place(t)'
  <1>a. Unfailing
    BY UnfailingBefore
  <1>b. \A t \in Tracks : Place(t) \in Paths /\ Claims(t, Place(t))
    BY PlacesClaimed
  <1> USE <1>a, <1>b, JournalAssumption
      DEF TypeOK, Inodes, Files, Location, Entry, names, recdir, rows, job, bounds,
          NoEntries, Journaled, Moves, Fault, Go, Sweep, Fail, Abandon, Begin, End,
          Control, Preparing, Moving, MidMove, Recovering, Replaying, Swept, FileOf, Unfailing,
          Place, RollsForward, DestinationState, PathState
  <1>1. CASE SetLibraryServices
    BY <1>1 DEF SetLibraryServices
  <1>2. CASE PrepareLibraryConsolidation
    BY <1>2 DEF PrepareLibraryConsolidation
  <1>3. CASE RecoverJournal
    BY <1>3 DEF RecoverJournal
  <1>4. CASE FlushDurable
    BY <1>4 DEF FlushDurable
  <1>5. CASE RemoveJournal
    <2>1. /\ Journaled' = {} /\ UNCHANGED <<fs, db>> /\ (Moving \/ Recovering) /\ ~MidMove
      BY <1>5 DEF RemoveJournal
    <2>2. \A t \in Journaled : Ahead(journal[t], t) \/ Behind(journal[t], t)
      BY <1>5, <2>1 DEF Exact, MovesRight, RemoveJournal
    <2>3. Unwritten
      BY <2>1 DEF Unwritten
    <2>4. ASSUME NEW t \in Journaled PROVE Place(t) = db[t].path
      <3>1. journal[t] \in Entry /\ journal[t].inode # NoFile
        OBVIOUS
      <3>2. fs[journal[t].dst] # NoFile => fs[journal[t].dst] = journal[t].inode
        BY <2>3, UnwrittenIsPinned
      <3> QED
        BY <2>2, <3>1, <3>2 DEF Ahead, Behind
    <2> HIDE DEF Journaled
    <2> QED
      BY <2>1, <2>4
  <1>6. CASE SweepUnlink
    BY <1>6 DEF SweepUnlink
  <1>7. CASE SweepDirectory
    BY <1>7 DEF SweepDirectory
  <1>8. CASE SweepFails
    BY <1>8 DEF SweepFails
  <1>9. CASE Recovered
    BY <1>9 DEF Recovered
  <1>10. CASE Planned
    <2>1. /\ pc = "plan" /\ UNCHANGED <<fs, journal>>
          /\ db' = [t \in Tracks |-> IF t \in touched
                                     THEN [path |-> known[t].path, missing |-> TRUE] ELSE db[t]]
      BY <1>10 DEF Planned
    <2>2. \A t \in Tracks : db'[t].path = db[t].path
      BY <2>1 DEF Exact, PlanRight
    <2> QED
      BY <2>1, <2>2
  <1>11. CASE WriteJournal
    <2>1. CASE journal' = journal
      BY <1>11, <2>1 DEF WriteJournal
    <2>2. CASE journal' = plan
      <3>1. Journaled = {} /\ pc = "journal" /\ Journaled' = Moves /\ UNCHANGED <<fs, db>>
        BY <1>11, <2>2 DEF WriteJournal
      <3>2. \A t \in Moves : /\ plan[t] \in Entry /\ plan[t].src = db[t].path
                             /\ fs[plan[t].dst] = NoFile /\ plan[t].inode # NoFile
        BY <3>1 DEF Exact, PlanRight
      <3>3. \A t \in Moves : Place(t)' = db[t].path
        BY <2>2, <3>1, <3>2
      <3> HIDE DEF Journaled, Moves
      <3> QED
        BY <3>1, <3>3
    <2> QED
      BY <1>11, <2>1, <2>2 DEF WriteJournal
  <1>12. CASE Cancel
    BY <1>12 DEF Cancel
  <1>13. CASE HandOffSource
    <2>0. PICK t : t = cur
      OBVIOUS
    <2>1. /\ t \in Moves /\ plan[t] \in Entry /\ journal = plan /\ pc = "linked"
          /\ plan[t].src # plan[t].dst /\ plan[t].inode # NoFile
          /\ fs[plan[t].dst] = plan[t].inode
          /\ UNCHANGED <<journal, db>>
      BY <1>13, <2>0 DEF HandOffSource, Exact, MovesRight
    <2>2. \A p \in Paths : p \notin {plan[t].src, plan[t].dst} => fs'[p] = fs[p]
      BY <1>13, <2>0, <2>1 DEF HandOffSource
    <2>3. \A u \in Tracks, p \in Paths : Claims(u, p) /\ u # t => fs'[p] = fs[p]
      BY <2>1, <2>2 DEF Exact, Apart, Claims
    <2>4. \A u \in Journaled : u # t => fs'[journal[u].dst] = fs[journal[u].dst]
      BY <2>3 DEF Claims
    <2>5. \A u \in Tracks : u # t => Place(u)' = Place(u)
      BY <2>1, <2>4
    <2>6. Place(t) = plan[t].dst
      BY <2>1
    <2>7. CASE fs'[plan[t].dst] = fs[plan[t].dst]
      <3>1. Place(t)' = Place(t)
        BY <2>1, <2>7
      <3> QED
        BY <2>5, <3>1
    <2>8. CASE fs'[plan[t].dst] = NoFile
      <3>1. Place(t)' = plan[t].src
        BY <2>1, <2>8
      <3>2. t \in Tracks /\ Claims(t, plan[t].src) /\ plan[t].src \in Paths
        BY <2>1 DEF Claims
      <3>3. \A u \in Tracks : Place(u) # plan[t].src
        BY <1>b, <2>1, <2>6, <3>2 DEF Exact, Apart
      <3>4. \A u \in Tracks : Place(u) # Place(t)'
        BY <3>1, <3>3
      <3> HIDE DEF Place
      <3> QED
        BY <2>5, <3>2, <3>4
    <2> QED
      BY <1>13, <2>0, <2>1, <2>7, <2>8 DEF HandOffSource
  <1>14. CASE UnlinkSource
    BY <1>14 DEF UnlinkSource
  <1>15. CASE PersistLocation
    BY <1>15 DEF PersistLocation
  <1>16. CASE RemoveSourceFails
    BY <1>16 DEF RemoveSourceFails
  <1>17. CASE PersistFails
    BY <1>17 DEF PersistFails
  <1>18. CASE CallFails
    BY <1>18 DEF CallFails
  <1>19. CASE Finish
    BY <1>19 DEF Finish
  <1>20. CASE FailOperation
    BY <1>20 DEF FailOperation
  <1>21. CASE Checkpoint
    BY <1>21 DEF Checkpoint
  <1>22. CASE Crash
    <2>1. db' \in {db, durable} /\ UNCHANGED <<fs, journal>>
      BY <1>22 DEF Crash
    <2>2. \A t \in Tracks \ Journaled : db'[t].path = db[t].path
      BY <2>1 DEF Exact, RowsRight
    <2> QED
      BY <2>1, <2>2
  <1>23. CASE \E t \in Tracks : RetargetManagedMetadata(t)
    BY <1>23 DEF RetargetManagedMetadata
  <1>24. CASE \E t \in Tracks : MirrorTags(t)
    <2>1. PICK t \in Tracks : MirrorTags(t)
      BY <1>24
    <2>2. /\ db[t].path \in Paths /\ fs[db[t].path] \in Inodes
          /\ fs' = [fs EXCEPT ![db[t].path] = <<fs[db[t].path][1], fs[db[t].path][2] + 1>>]
      BY <2>1 DEF MirrorTags
    <2>3. fs'[db[t].path] # NoFile /\ fs'[db[t].path][2] # 0
      BY <2>2
    <2> QED
      BY <2>2, <2>3 DEF Unwritten
  <1>25. CASE \E t \in Tracks : RemoveRecoveredSource(t)
    <2> SUFFICES ASSUME NEW t \in Tracks, RemoveRecoveredSource(t)
                 PROVE  \A u \in Tracks : Place(u)' = Place(u)
      BY <1>25
    <2>1. /\ t \in Journaled /\ journal[t] \in Entry /\ journal[t].src # journal[t].dst
          /\ fs' = [fs EXCEPT ![journal[t].src] = NoFile]
          /\ UNCHANGED <<journal, db>>
      BY DEF RemoveRecoveredSource
    <2>2. \A u \in Tracks, p \in Paths : Claims(u, p) /\ u # t => fs'[p] = fs[p]
      BY <2>1 DEF Exact, Apart, Claims
    <2>3. \A u \in Journaled : fs'[journal[u].dst] = fs[journal[u].dst]
      BY <2>1, <2>2 DEF Claims
    <2> QED
      BY <2>1, <2>3
  <1>26. CASE \E t \in Tracks : SaveRecoveredTrack(t)
    BY <1>26 DEF SaveRecoveredTrack
  <1>27. CASE \E t \in Tracks : RecoveryRefuses(t)
    BY <1>27 DEF RecoveryRefuses
  <1>28. CASE \E t \in Tracks : SweepHandOff(t)
    BY <1>28 DEF SweepHandOff
  <1>29. CASE \E t \in Tracks : PlanMissing(t)
    BY <1>29 DEF PlanMissing
  <1>30. CASE \E t \in Tracks : LinkDestination(t)
    <2> SUFFICES ASSUME NEW t \in Tracks, LinkDestination(t)
                 PROVE  \/ \A u \in Tracks : Place(u)' = Place(u)
                        \/ /\ \A u \in Tracks : u # t => Place(u)' = Place(u)
                           /\ \A u \in Tracks : Place(u) # Place(t)'
      BY <1>30
    <2>1. CASE fs' = fs
      BY <2>1 DEF LinkDestination
    <2>2. CASE fs' # fs
      <3>1. /\ t \in Moves /\ plan[t] \in Entry /\ plan[t].src # plan[t].dst /\ journal = plan
            /\ plan[t].inode # NoFile /\ fs[plan[t].dst] = NoFile
            /\ fs' = [fs EXCEPT ![plan[t].dst] = plan[t].inode]
            /\ UNCHANGED <<journal, db>>
        BY <2>2 DEF LinkDestination
      <3>2. \A u \in Tracks, p \in Paths : Claims(u, p) /\ u # t => fs'[p] = fs[p]
        BY <3>1 DEF Exact, Apart, Claims
      <3>3. \A u \in Journaled : u # t => fs'[journal[u].dst] = fs[journal[u].dst]
        BY <3>2 DEF Claims
      <3>4. ASSUME NEW u \in Tracks, u # t PROVE Place(u)' = Place(u)
        <4>1. CASE u \in Journaled
          <5>1. fs'[journal[u].dst] = fs[journal[u].dst] /\ journal' = journal
            BY <3>1, <3>3, <3>4, <4>1
          <5> QED
            BY <4>1, <5>1
        <4>2. CASE u \notin Journaled
          BY <3>1, <4>2
        <4> QED
          BY <4>1, <4>2
      <3>5. Place(t) = plan[t].src /\ Place(t)' = plan[t].dst
        BY <3>1
      <3>6. Claims(t, plan[t].dst) /\ plan[t].dst \in Paths
        BY <3>1 DEF Claims
      <3>7. \A u \in Tracks : Place(u) # plan[t].dst
        BY <1>b, <3>1, <3>5, <3>6 DEF Exact, Apart
      <3> QED
        BY <3>4, <3>5, <3>7
    <2> QED
      BY <2>1, <2>2
  <1>31. CASE \E t \in Tracks, p \in Paths : PlanMove(t, p)
    BY <1>31 DEF PlanMove, Destinations
  <1>32. CASE UNCHANGED vars
    BY <1>32 DEF vars
  <1> QED
    BY <1>1, <1>2, <1>3, <1>4, <1>5, <1>6, <1>7, <1>8, <1>9, <1>10, <1>11, <1>12, <1>13, <1>14,
       <1>15, <1>16, <1>17, <1>18, <1>19, <1>20, <1>21, <1>22, <1>23, <1>24, <1>25, <1>26, <1>27,
       <1>28, <1>29, <1>30, <1>31, <1>32 DEF Next, OperationStep

LEMMA InitLocations == Init => Locations!Init
  <1> SUFFICES ASSUME Init PROVE Locations!Init
    OBVIOUS
  <1>1. TypeOK /\ Journaled = {}
    BY InitControl DEF Init, Journaled, NoEntries
  <1>2. \A t \in Tracks : Whereabouts[t] = db[t].path /\ db[t].path \in Paths
    BY <1>1 DEF Whereabouts, TypeOK, Location
  <1>3. Whereabouts \in [Tracks -> Paths]
    BY <1>1, <1>2 DEF Whereabouts
  <1>4. Locations!Injective(Whereabouts)
    BY <1>2 DEF Init, Locations!Injective
  <1> QED
    BY <1>3, <1>4 DEF Locations!Init

LEMMA LocationsStep ==
    ASSUME TypeOK, Control, TypeOK', Control', [Next]_vars, Unfailing', Unwritten', Exact
    PROVE  Locations!Next \/ UNCHANGED Whereabouts
  <1>1. Whereabouts = [t \in Tracks |-> Place(t)]
    BY DEF Whereabouts, Place
  <1>2. Whereabouts' = [t \in Tracks |-> Place(t)']
    BY DEF Whereabouts, Place
  <1>3. CASE \A t \in Tracks : Place(t)' = Place(t)
    BY <1>1, <1>2, <1>3
  <1>4. CASE \E t \in Tracks : /\ \A u \in Tracks : u # t => Place(u)' = Place(u)
                               /\ \A u \in Tracks : Place(u) # Place(t)'
    <2>1. PICK t \in Tracks : /\ \A u \in Tracks : u # t => Place(u)' = Place(u)
                              /\ \A u \in Tracks : Place(u) # Place(t)'
      BY <1>4
    <2>2. Place(t)' \in Paths
      BY PlacesClaimed DEF Place, TypeOK, Location, Entry, Journaled
    <2>3. \A u \in Tracks : Whereabouts[u] # Place(t)'
      BY <1>1, <2>1
    <2>4. Whereabouts' = [Whereabouts EXCEPT ![t] = Place(t)']
      BY <1>1, <1>2, <2>1
    <2>5. Locations!Relocate(t, Place(t)')
      BY <2>3, <2>4 DEF Locations!Relocate
    <2> QED
      BY <2>2, <2>5 DEF Locations!Next
  <1> QED
    BY <1>3, <1>4, PlaceStep

\* The journal makes each move atomic while no call fails: through it, every
\* step of consolidations, retargets, recoveries and crashes is one track going
\* from its place to a free one, or none at all (LibraryLocations).
THEOREM MovesAtomic == Spec => AtomicRelocation
  <1>1. Init => Locations!Init
    BY InitLocations
  <1>2. Inductive /\ [Next]_vars
            => [Unfailing' /\ Unwritten' => Locations!Next \/ UNCHANGED Whereabouts]_vars
    BY TypeStep, ControlStep, UnfailingBefore, LocationsStep DEF Inductive
  <1> QED
    BY <1>1, <1>2, Invariance, PTL DEF Spec, AtomicRelocation
=============================================================================
