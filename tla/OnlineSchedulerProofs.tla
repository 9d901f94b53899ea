------------------------ MODULE OnlineSchedulerProofs ------------------------
(***************************************************************************)
(* The online worker loses no wake and overwrites no text of the user, for *)
(* any number of tracks, requests and preferences.                         *)
(*                                                                         *)
(* IdleMeansDone is not inductive: that an empty channel means the user's  *)
(* settings are in force rests on what the channel held before, namely the *)
(* user's latest choice as its last settings command (InForce).            *)
(***************************************************************************)
EXTENDS OnlineScheduler, TLAPS

IsSettings(i) == channel[i].kind = "settings"

\* The last settings command of the channel, or the worker's settings when it
\* has none, is the user's choice.
InForce ==
    /\ (\A i \in 1 .. Len(channel) : ~IsSettings(i)) => settings = prefs
    /\ \A i \in 1 .. Len(channel) :
          IsSettings(i) /\ (\A j \in i + 1 .. Len(channel) : ~IsSettings(j))
              => channel[i].caps = prefs

\* A blocked worker has an empty queue, and nothing to do unless it will be woken,
\* except for tracks nobody wakes it for and those of a scan not yet applied.
Blocked ==
    pc = "idle" =>
        /\ queue = <<>>
        /\ channel = <<>> => Needing(settings) \subseteq unwoken \union scan

ValueTyped == value \in [Tracks -> [Caps -> {"none", "user", "fetched"}]]

\* Every track has a state, and stamps.
TracksKeyed == DOMAIN state = Tracks /\ DOMAIN stamped = Tracks /\ DOMAIN current = Tracks

Inductive == ValueTyped /\ TracksKeyed /\ channel \in Seq(Commands) /\ InForce /\ Blocked

TextKept ==
    \A t \in Tracks, c \in Caps \ {"artwork"} : value[t][c] = "user" => value'[t][c] = "user"

-----------------------------------------------------------------------------
\* The channel: a settings command carries the new choice (ChangeSettings).
LEMMA SendSettings ==
    ASSUME channel \in Seq(Commands), NEW caps \in SUBSET Caps,
           Send([kind |-> "settings", caps |-> caps]), prefs' = caps
    PROVE  channel' \in Seq(Commands) /\ InForce' /\ channel' # <<>>
<1> DEFINE command == [kind |-> "settings", caps |-> caps]
<1>1. command \in Commands  BY DEF Commands
<1>2. /\ channel' \in Seq(Commands) /\ Len(channel') = Len(channel) + 1
      /\ channel'[Len(channel')] = command
  BY <1>1 DEF Send
<1> HIDE DEF command
<1>3. command.kind = "settings" /\ command.caps = caps  BY DEF command
<1>4. Len(channel') \in 1 .. Len(channel')  BY <1>2
<1>5. ASSUME NEW i \in 1 .. Len(channel'), IsSettings(i)',
             \A j \in i + 1 .. Len(channel') : ~IsSettings(j)'
      PROVE  channel'[i].caps = prefs'
  <2>1. i = Len(channel')
    BY <1>2, <1>3, <1>5 DEF IsSettings
  <2> QED  BY <1>2, <1>3, <2>1
<1>6. ~ \A i \in 1 .. Len(channel') : ~IsSettings(i)'
  BY <1>2, <1>3, <1>4 DEF IsSettings
<1> QED  BY <1>2, <1>5, <1>6 DEF InForce

\* The channel: another command leaves the order of settings alone.
LEMMA SendOther ==
    ASSUME channel \in Seq(Commands), InForce, NEW command \in Commands,
           command.kind # "settings", Send(command), UNCHANGED <<prefs, settings>>
    PROVE  channel' \in Seq(Commands) /\ InForce' /\ channel' # <<>>
<1>1. /\ channel' \in Seq(Commands) /\ Len(channel') = Len(channel) + 1
      /\ channel'[Len(channel')] = command
      /\ \A i \in 1 .. Len(channel) : channel'[i] = channel[i]
  BY DEF Send
<1>2. \A i \in 1 .. Len(channel) : IsSettings(i)' = IsSettings(i)
  BY <1>1 DEF IsSettings
<1>3. \A i \in 1 .. Len(channel') : IsSettings(i)' => i \in 1 .. Len(channel)
  BY <1>1 DEF IsSettings
<1>4. ASSUME NEW i \in 1 .. Len(channel'), IsSettings(i)',
             \A j \in i + 1 .. Len(channel') : ~IsSettings(j)'
      PROVE  channel'[i].caps = prefs'
  <2>1. i \in 1 .. Len(channel) /\ IsSettings(i)  BY <1>2, <1>3, <1>4
  <2>2. \A j \in i + 1 .. Len(channel) : ~IsSettings(j)  BY <1>1, <1>2, <1>4, <2>1
  <2> QED  BY <1>1, <2>1, <2>2 DEF InForce
<1>5. (\A i \in 1 .. Len(channel') : ~IsSettings(i)') => settings' = prefs'
  BY <1>1, <1>2 DEF InForce
<1> QED  BY <1>1, <1>4, <1>5 DEF InForce

\* The worker takes the first command (drain_commands, recv).
LEMMA TakeCommand ==
    ASSUME channel \in Seq(Commands), InForce, ApplyCommand, UNCHANGED prefs
    PROVE  channel' \in Seq(Commands) /\ InForce'
<1>1. /\ channel # <<>> /\ channel' = Tail(channel)
      /\ settings' = IF IsSettings(1) THEN channel[1].caps ELSE settings
  BY DEF ApplyCommand, IsSettings
<1>2. /\ channel' \in Seq(Commands) /\ Len(channel) \in Nat
      /\ Len(channel') = Len(channel) - 1 /\ Len(channel) >= 1
      /\ \A i \in 1 .. Len(channel') : channel'[i] = channel[i + 1]
  BY <1>1
<1>3. \A i \in 1 .. Len(channel') :
          i + 1 \in 1 .. Len(channel) /\ IsSettings(i)' = IsSettings(i + 1)
  BY <1>2 DEF IsSettings
<1>4. \A k \in 2 .. Len(channel) : k - 1 \in 1 .. Len(channel') /\ k = (k - 1) + 1
  BY <1>2
<1>5. ASSUME NEW i \in 1 .. Len(channel'), IsSettings(i)',
             \A j \in i + 1 .. Len(channel') : ~IsSettings(j)'
      PROVE  channel'[i].caps = prefs'
  <2>1. i + 1 \in 1 .. Len(channel) /\ IsSettings(i + 1)  BY <1>3, <1>5
  <2>2. ASSUME NEW k \in (i + 1) + 1 .. Len(channel) PROVE ~IsSettings(k)
    <3>1. k - 1 \in i + 1 .. Len(channel') /\ k - 1 \in 1 .. Len(channel') /\ (k - 1) + 1 = k
      BY <1>2
    <3> QED  BY <1>3, <1>5, <3>1
  <2> QED  BY <1>2, <2>1, <2>2 DEF InForce
<1>6. ASSUME \A i \in 1 .. Len(channel') : ~IsSettings(i)' PROVE settings' = prefs'
  <2>1. \A k \in 2 .. Len(channel) : ~IsSettings(k)
    BY <1>3, <1>4, <1>6
  <2>2. CASE IsSettings(1)
    <3>1. 1 \in 1 .. Len(channel) /\ \A j \in 1 + 1 .. Len(channel) : ~IsSettings(j)
      BY <1>2, <2>1
    <3> QED  BY <1>1, <2>2, <3>1 DEF InForce
  <2>3. CASE ~IsSettings(1)
    <3>1. \A k \in 1 .. Len(channel) : ~IsSettings(k)
      <4> TAKE k \in 1 .. Len(channel)
      <4>1. k = 1 \/ k \in 2 .. Len(channel)  BY <1>2
      <4> QED  BY <2>1, <2>3, <4>1
    <3> QED  BY <1>1, <2>3, <3>1 DEF InForce
  <2> QED  BY <2>2, <2>3
<1> QED  BY <1>2, <1>5, <1>6 DEF InForce

\* InForce depends on nothing but the channel and the settings.
LEMMA ChannelKept ==
    ASSUME channel \in Seq(Commands), InForce, UNCHANGED <<channel, settings, prefs>>
    PROVE  channel' \in Seq(Commands) /\ InForce'
  BY DEF InForce, IsSettings

\* The worker starts over with what the user has chosen (Restart, Init).
LEMMA ChannelEmpty ==
    ASSUME channel = <<>>, settings = prefs
    PROVE  channel \in Seq(Commands) /\ InForce
  BY DEF InForce

-----------------------------------------------------------------------------
\* The user's steps and the scans'.
LEMMA UserKeeps ==
    ASSUME Inductive, User
    PROVE  Inductive' /\ TextKept
<1> USE DEF Inductive, rows, stamps, work, worker, history
<1>1. ASSUME NEW caps \in Preferences, ChangeSettings(caps) PROVE Inductive' /\ TextKept
  <2>1. channel' \in Seq(Commands) /\ InForce' /\ channel' # <<>>
    BY <1>1, SendSettings, OnlineAssumption DEF ChangeSettings
  <2> QED  BY <1>1, <2>1 DEF ChangeSettings, TracksKeyed, ValueTyped, Blocked, TextKept
<1>2. ASSUME NEW request \in Requests, RequestExplicitRun(request)
      PROVE  Inductive' /\ TextKept
  <2> DEFINE command == [kind |-> "explicit", tracks |-> request.tracks, caps |-> request.caps]
  <2>1. command \in Commands /\ command.kind # "settings"
    BY OnlineAssumption DEF Commands
  <2>2. Send(command) /\ UNCHANGED <<prefs, settings>>  BY <1>2 DEF RequestExplicitRun
  <2> HIDE DEF command
  <2>3. channel' \in Seq(Commands) /\ InForce' /\ channel' # <<>>
    BY <2>1, <2>2, SendOther
  <2> QED  BY <1>2, <2>3 DEF RequestExplicitRun, TracksKeyed, ValueTyped, Blocked, TextKept
<1>3. ASSUME NEW t \in Tracks, NEW c \in Caps, UserEdit(t, c) PROVE Inductive' /\ TextKept
  <2>1. channel' \in Seq(Commands) /\ InForce'  BY <1>3, ChannelKept DEF UserEdit
  <2>2. ValueTyped' /\ TracksKeyed' /\ TextKept
    BY <1>3 DEF UserEdit, TracksKeyed, ValueTyped, TextKept
  <2>3. Blocked'  BY <1>3 DEF UserEdit, Blocked, Needing, Needs
  <2> QED  BY <2>1, <2>2, <2>3
<1>4. ASSUME NEW t \in Tracks, RemoveTrack(t) PROVE Inductive' /\ TextKept
  <2>1. channel' \in Seq(Commands) /\ InForce'  BY <1>4, ChannelKept DEF RemoveTrack
  <2>2. ValueTyped' /\ TextKept  BY <1>4 DEF RemoveTrack, ValueTyped, TextKept
  <2>3. \A u \in Tracks : \A c : Needs(u, c)' => Needs(u, c)
    BY <1>4 DEF RemoveTrack, Needs, TracksKeyed
  <2>4. Blocked'  BY <1>4, <2>3 DEF RemoveTrack, Blocked, Needing
  <2>5. TracksKeyed'  BY <1>4 DEF RemoveTrack, TracksKeyed
  <2> QED  BY <2>1, <2>2, <2>4, <2>5
<1>5. ASSUME NEW t \in Tracks, NEW found \in BOOLEAN, NEW seen \in BOOLEAN,
             ScanCommit(t, found, seen)
      PROVE  Inductive' /\ TextKept
  <2>1. channel' \in Seq(Commands) /\ InForce'  BY <1>5, ChannelKept DEF ScanCommit
  <2>2. \A u \in Tracks \ {t} : \A c : Needs(u, c)' => Needs(u, c)
    <3>1. \A u \in Tracks \ {t} : state'[u] = state[u] /\ embedded'[u] = embedded[u]
      BY <1>5 DEF ScanCommit, TracksKeyed
    <3> QED  BY <1>5, <3>1 DEF ScanCommit, Needs
  <2>3. Blocked'  BY <1>5, <2>2 DEF ScanCommit, Blocked, Needing
  <2>4. ValueTyped' /\ TracksKeyed' /\ TextKept
    BY <1>5 DEF ScanCommit, TracksKeyed, ValueTyped, TextKept
  <2> QED  BY <2>1, <2>3, <2>4
<1>6. ASSUME NEW t \in Tracks, TrackArrives(t) PROVE Inductive' /\ TextKept
  <2>1. channel' \in Seq(Commands) /\ InForce'  BY <1>6, ChannelKept DEF TrackArrives
  <2>2. \A u \in Tracks \ {t} : \A c : Needs(u, c)' => Needs(u, c)
    BY <1>6 DEF TrackArrives, Needs, TracksKeyed
  <2>3. Blocked'  BY <1>6, <2>2 DEF TrackArrives, Blocked, Needing
  <2>4. ValueTyped' /\ TracksKeyed' /\ TextKept
    BY <1>6 DEF TrackArrives, TracksKeyed, ValueTyped, TextKept
  <2> QED  BY <2>1, <2>3, <2>4
<1> QED  BY <1>1, <1>2, <1>3, <1>4, <1>5, <1>6 DEF User

\* A scan's result is applied: the worker is woken (apply_library_scan_result).  Or
\* its rows could not be read back, and it is not (fail_library_scan).
LEMMA RuntimeKeeps ==
    ASSUME Inductive, Runtime
    PROVE  Inductive' /\ TextKept
<1>1. CASE ApplyScanResult
  <2>1. [kind |-> "wake"] \in Commands  BY DEF Commands
  <2>2. channel' \in Seq(Commands) /\ InForce' /\ channel' # <<>>
    BY <1>1, <2>1, SendOther DEF Inductive, ApplyScanResult, worker
  <2> QED
    BY <1>1, <2>2 DEF Inductive, ApplyScanResult, rows, stamps, worker, TracksKeyed,
                      ValueTyped, Blocked, TextKept
<1>2. CASE ScanReloadFails
  <2>1. channel' \in Seq(Commands) /\ InForce'
    BY <1>2, ChannelKept DEF Inductive, ScanReloadFails, worker
  <2> QED
    BY <1>2, <2>1 DEF Inductive, ScanReloadFails, rows, stamps, worker, TracksKeyed,
                      ValueTyped, Blocked, TextKept, Needing, Needs
<1> QED  BY <1>1, <1>2 DEF Runtime

\* The steps that take a command, and the one that finds none to take and blocks.
LEMMA CommandKeeps ==
    ASSUME Inductive, Drain \/ Receive \/ GoIdle \/ NextItem
    PROVE  Inductive' /\ TextKept
<1> USE DEF Inductive, rows, stamps, TracksKeyed
<1>1. CASE Drain
  BY <1>1, TakeCommand DEF Drain, ValueTyped, TextKept, Blocked
<1>2. CASE Receive
  BY <1>2, TakeCommand DEF Receive, ValueTyped, TextKept, Blocked
<1>3. CASE NextItem
  BY <1>3, TakeCommand, ChannelKept DEF NextItem, ValueTyped, TextKept, Blocked
<1>4. CASE GoIdle
  <2>1. channel' \in Seq(Commands) /\ InForce'  BY <1>4, ChannelKept DEF GoIdle
  <2>2. Blocked'  BY <1>4 DEF GoIdle, Blocked, Needing, Needs
  <2> QED  BY <1>4, <2>1, <2>2 DEF GoIdle, ValueTyped, TextKept
<1> QED  BY <1>1, <1>2, <1>3, <1>4

\* The steps of a batch: the worker does not block, and only an answer of a
\* provider changes a value.
LEMMA BatchKeeps ==
    ASSUME Inductive,
           \/ BuildBatch \/ QueryFails \/ BatchDone \/ ReadTrack \/ ReadFails
           \/ Attempt \/ RecordAttempt \/ RecordFails
    PROVE  Inductive' /\ TextKept
<1> USE DEF Inductive
<1>1. UNCHANGED <<channel, settings, prefs>>
  BY DEF BuildBatch, QueryFails, BatchDone, ReadTrack, ReadFails, Attempt, AttemptFails,
         NoMatch, FillText, SetArtwork, RateLimited, RecordAttempt, RecordFails
<1>2. pc' # "idle"
  <2>1. ASSUME NEW c \in Caps,
               AttemptFails(c) \/ NoMatch(c) \/ FillText(c) \/ SetArtwork(c) \/ RateLimited(c)
        PROVE  pc' # "idle"
    BY <2>1 DEF AttemptFails, NoMatch, FillText, SetArtwork, RateLimited, Trying
  <2> QED
    BY <2>1 DEF BuildBatch, QueryFails, BatchDone, ReadTrack, ReadFails, Attempt,
                RecordAttempt, RecordFails, ItemDone
<1>3. ValueTyped' /\ TextKept
  <2>1. CASE UNCHANGED value  BY <2>1 DEF ValueTyped, TextKept
  <2>2. ASSUME NEW c \in Caps, FillText(c) PROVE ValueTyped' /\ TextKept
    BY <2>2 DEF FillText, Filled, ValueTyped, TextKept
  <2>3. ASSUME NEW c \in Caps, SetArtwork(c) PROVE ValueTyped' /\ TextKept
    BY <2>3 DEF SetArtwork, ValueTyped, TextKept
  <2>4. \/ UNCHANGED value
        \/ \E c \in Caps : FillText(c) \/ SetArtwork(c)
    BY DEF rows, BuildBatch, QueryFails, BatchDone, ReadTrack, ReadFails, Attempt,
           AttemptFails, NoMatch, RateLimited, RecordAttempt, RecordFails
  <2> QED  BY <2>1, <2>2, <2>3, <2>4
<1>4. TracksKeyed'
  BY DEF TracksKeyed, rows, stamps, BuildBatch, QueryFails, BatchDone, ReadTrack, ReadFails,
         Attempt, AttemptFails, NoMatch, FillText, SetArtwork, RateLimited, RecordAttempt,
         RecordFails
<1> QED  BY <1>1, <1>2, <1>3, <1>4, ChannelKept DEF Blocked

\* The process ends and the next one starts a new worker.
LEMMA RestartKeeps ==
    ASSUME Inductive, Restart
    PROVE  Inductive' /\ TextKept
<1>1. channel' = <<>> /\ settings' = prefs'  BY DEF Restart
<1>2. channel' \in Seq(Commands) /\ InForce'  BY <1>1 DEF InForce
<1> QED
  BY <1>2 DEF Inductive, Restart, rows, stamps, TracksKeyed, ValueTyped, TextKept, Blocked

\* Every step keeps the invariant and the user's text.
LEMMA StepKeeps ==
    ASSUME Inductive, [Next]_vars
    PROVE  Inductive' /\ TextKept
<1>1. CASE Worker  BY <1>1, CommandKeeps, BatchKeeps DEF Worker
<1>2. CASE User  BY <1>2, UserKeeps
<1>3. CASE Runtime  BY <1>3, RuntimeKeeps
<1>4. CASE Restart  BY <1>4, RestartKeeps
<1>5. CASE UNCHANGED vars
  <2>1. channel' \in Seq(Commands) /\ InForce'
    BY <1>5, ChannelKept DEF Inductive, vars, worker
  <2> QED
    BY <1>5, <2>1
    DEF Inductive, vars, rows, stamps, worker, history, TracksKeyed, ValueTyped, TextKept, Blocked,
        Needing, Needs
<1> QED  BY <1>1, <1>2, <1>3, <1>4, <1>5 DEF Next

-----------------------------------------------------------------------------
(* Types.                                                                  *)

\* The lesser of two numbers.
LEMMA LesserOfTwo ==
    ASSUME NEW m \in Nat, NEW n \in Nat
    PROVE  Min({m, n}) \in Nat /\ Min({m, n}) <= m /\ Min({m, n}) <= n
<1>1. CASE m <= n
  <2>1. m \in {m, n} /\ \A y \in {m, n} : m <= y  BY <1>1
  <2> QED  BY <2>1 DEF Min
<1>2. CASE n <= m
  <2>1. n \in {m, n} /\ \A y \in {m, n} : n <= y  BY <1>2
  <2> QED  BY <2>1 DEF Min
<1> QED  BY <1>1, <1>2

\* An enumeration of a set is a sequence of its elements, and as long as asked
\* for at most.
LEMMA AscendingElements ==
    ASSUME NEW S, NEW most \in Nat, NEW s \in Ascending(S, most)
    PROVE  s \in Seq(S) /\ Len(s) <= most /\ DOMAIN s = 1 .. Len(s)
<1>1. PICK n \in 0 .. most : s \in [1 .. n -> S]  BY DEF Ascending
<1>2. s \in Seq(S) /\ Len(s) = n  BY <1>1
<1> QED  BY <1>1, <1>2

\* What a request adds to the queue are items (apply_command).
LEMMA QueuedItems ==
    ASSUME NEW request, request.tracks \in Seq(Tracks), request.caps \in SUBSET Caps,
           NEW items \in Queued(request)
    PROVE  items \in Seq(Item)
<1> DEFINE waiting == {queue[i].track : i \in DOMAIN queue}
           fresh == {i \in DOMAIN request.tracks : request.tracks[i] \notin waiting}
           Explicit(t) == [track |-> t, caps |-> request.caps, explicit |-> TRUE]
<1>1. PICK kept \in Ascending(fresh, Len(request.tracks)) :
          items = [i \in DOMAIN kept |-> Explicit(request.tracks[kept[i]])]
  BY Zenon DEF Queued
<1>2. fresh \subseteq DOMAIN request.tracks /\ Len(request.tracks) \in Nat
  OBVIOUS
<1> HIDE DEF fresh
<1>3. kept \in Seq(fresh) /\ DOMAIN kept = 1 .. Len(kept)
  BY <1>1, <1>2, AscendingElements
<1>4. \A i \in 1 .. Len(kept) : request.tracks[kept[i]] \in Tracks
  BY <1>2, <1>3
<1>5. \A i \in 1 .. Len(kept) : Explicit(request.tracks[kept[i]]) \in Item
  BY <1>4 DEF Item
<1>6. items \in [1 .. Len(kept) -> Item]
  BY <1>1, <1>3, <1>5
<1> QED  BY <1>3, <1>6

\* A command the worker takes leaves its settings and its queue well typed.
LEMMA CommandTypes ==
    ASSUME TypeOK, ApplyCommand
    PROVE  channel' \in Seq(Commands) /\ settings' \in SUBSET Caps /\ queue' \in Seq(Item)
<1>1. Head(channel) \in Commands /\ channel' \in Seq(Commands)
  BY DEF TypeOK, ApplyCommand
<1>2. settings' \in SUBSET Caps
  BY <1>1 DEF TypeOK, ApplyCommand, Commands
<1>3. CASE Head(channel).kind = "explicit"
  <2>1. Head(channel).tracks \in Seq(Tracks) /\ Head(channel).caps \in SUBSET Caps
    BY <1>1, <1>3 DEF Commands
  <2>2. PICK items \in Queued(Head(channel)) : queue' = queue \o items
    BY <1>3, Zenon DEF ApplyCommand
  <2>3. items \in Seq(Item)  BY <2>1, <2>2, QueuedItems
  <2> QED  BY <1>1, <1>2, <2>2, <2>3 DEF TypeOK
<1>4. CASE Head(channel).kind # "explicit"
  BY <1>1, <1>2, <1>4 DEF TypeOK, ApplyCommand
<1> QED  BY <1>3, <1>4

\* A batch holds items, at most BatchSize of them (worker_loop).
LEMMA BatchTypes ==
    ASSUME TypeOK, BuildBatch
    PROVE  batch' \in Seq(Item) /\ Len(batch') <= BatchSize /\ queue' \in Seq(Item)
<1> DEFINE popped == SubSeq(queue, 1, Min({Len(queue), BatchSize}))
           Background(t) == [track |-> t, caps |-> settings, explicit |-> FALSE]
<1>1. queue \in Seq(Item) /\ Len(queue) \in Nat /\ BatchSize \in Nat /\ settings \in SUBSET Caps
  BY OnlineAssumption DEF TypeOK
<1>2. popped \in Seq(Item) /\ Len(popped) \in Nat /\ Len(popped) <= BatchSize
      /\ Len(popped) <= Len(queue)
  BY <1>1, LesserOfTwo
<1>3. PICK found \in Ascending(Needing(settings), Room(popped)) :
          batch' = popped \o [i \in DOMAIN found |-> Background(found[i])]
  BY Zenon DEF BuildBatch
<1>4. queue' = SubSeq(queue, Len(popped) + 1, Len(queue))
  BY DEF BuildBatch
<1> HIDE DEF popped
<1>5. Room(popped) = BatchSize - Len(popped) /\ Room(popped) \in Nat
  BY <1>1, <1>2 DEF Room
<1>6. found \in Seq(Needing(settings)) /\ Len(found) <= Room(popped)
      /\ DOMAIN found = 1 .. Len(found)
  BY <1>3, <1>5, AscendingElements
<1>7. \A i \in 1 .. Len(found) : Background(found[i]) \in Item
  BY <1>1, <1>6 DEF Needing, Item
<1> DEFINE swept == [i \in DOMAIN found |-> Background(found[i])]
<1>8. swept \in Seq(Item) /\ Len(swept) = Len(found)
  BY <1>6, <1>7
<1>9. queue' \in Seq(Item)  BY <1>1, <1>2, <1>4
<1>10. batch' = popped \o swept  BY <1>3
<1> HIDE DEF swept
<1> QED  BY <1>1, <1>2, <1>5, <1>6, <1>8, <1>9, <1>10

\* The first element of a sequence, and the others.
LEMMA HeadAndTail ==
    ASSUME NEW S, NEW s \in Seq(S), s # <<>>
    PROVE  Head(s) \in S /\ Tail(s) \in Seq(S) /\ Len(Tail(s)) = Len(s) - 1
  OBVIOUS

\* The stamps of a track grow by what was attempted (RecordAttempt).
LEMMA StampTypes ==
    ASSUME NEW f \in [Tracks -> SUBSET Caps], NEW t \in Tracks, NEW caps \in SUBSET Caps
    PROVE  [f EXCEPT ![t] = @ \union caps] \in [Tracks -> SUBSET Caps]
<1>1. f[t] \union caps \in SUBSET Caps
  OBVIOUS
<1> QED  BY <1>1

\* What the row of a track has, of each capability (ReadTrack).
LEMMA RowTypes ==
    ASSUME NEW picture \in BOOLEAN, NEW values
    PROVE  [c \in Caps |-> IF c = "artwork" THEN picture ELSE values[c] # "none"]
               \in [Caps -> BOOLEAN]
<1>1. \A c \in Caps : (IF c = "artwork" THEN picture ELSE values[c] # "none") \in BOOLEAN
  OBVIOUS
<1> QED  BY <1>1, Zenon

\* The worker puts its item down.
LEMMA NoWorkTypes ==
    ASSUME NoWork
    PROVE  /\ cur' = NoItem /\ todo' \in SUBSET Caps /\ attempted' \in SUBSET Caps
           /\ limited' \in BOOLEAN /\ row' \in [Caps -> BOOLEAN]
  BY DEF NoWork

\* Every step keeps the types.
LEMMA TypesStep ==
    ASSUME TypeOK, [Next]_vars
    PROVE  TypeOK'
<1> USE OnlineAssumption, NoItemAssumption
    DEF TypeOK, rows, stamps, work, worker, history, bounds, Fault, NoFault, Command, Edit,
        Send, Attempted, Trying, ItemDone, Filled, DispatchCaps, Item
<1>1. CASE Drain
  BY <1>1, CommandTypes DEF Drain
<1>2. CASE GoIdle
  BY <1>2 DEF GoIdle
<1>3. CASE BuildBatch
  BY <1>3, BatchTypes DEF BuildBatch
<1>4. CASE QueryFails
  BY <1>4 DEF QueryFails
<1>5. CASE Receive
  BY <1>5, CommandTypes DEF Receive
<1>6. CASE BatchDone
  BY <1>6 DEF BatchDone
<1>7. CASE NextItem
  <2>1. cur' \in Item /\ batch' \in Seq(Item) /\ Len(batch') <= BatchSize
    <3>1. batch # <<>> /\ batch \in Seq(Item) /\ cur' = Head(batch) /\ batch' = Tail(batch)
      BY <1>7 DEF NextItem
    <3>2. Head(batch) \in Item /\ Tail(batch) \in Seq(Item) /\ Len(Tail(batch)) = Len(batch) - 1
      BY <3>1, HeadAndTail
    <3>3. Len(batch) \in Nat /\ Len(batch) <= BatchSize  BY <3>1
    <3> QED  BY <3>1, <3>2, <3>3
  <2>2. channel' \in Seq(Commands) /\ settings' \in SUBSET Caps /\ queue' \in Seq(Item)
    <3>1. CASE channel # <<>>
      <4>1. ApplyCommand  BY <1>7, <3>1 DEF NextItem
      <4> QED  BY <4>1, CommandTypes
    <3>2. CASE channel = <<>>
      <4>1. UNCHANGED <<channel, settings, queue>>  BY <1>7, <3>2 DEF NextItem
      <4> QED  BY <4>1
    <3> QED  BY <3>1, <3>2
  <2>3. cur' # NoItem  BY <2>1
  <2> QED  BY <1>7, <2>1, <2>2, <2>3 DEF NextItem
<1>8. CASE ReadTrack
  <2>1. CASE DispatchCaps = {} \/ state[cur.track] \in {"new", "removed"}
    BY <1>8, <2>1, NoWorkTypes DEF ReadTrack
  <2>2. CASE ~(DispatchCaps = {} \/ state[cur.track] \in {"new", "removed"})
    <3>1. cur \in Item /\ cur # NoItem  BY <1>8 DEF ReadTrack
    <3>2. todo' \in SUBSET Caps  BY <1>8, <2>2, <3>1 DEF ReadTrack
    <3>3. row' \in [Caps -> BOOLEAN]
      <4>1. row' = [c \in Caps |-> IF c = "artwork" THEN embedded[cur.track]
                                  ELSE value[cur.track][c] # "none"]
        BY <1>8, <2>2 DEF ReadTrack
      <4>2. embedded[cur.track] \in BOOLEAN  BY <3>1
      <4> QED  BY <4>1, <4>2, RowTypes
    <3>4. pc = "read" /\ pc' = "attempt" /\ UNCHANGED <<cur, attempted, limited>>
      BY <1>8, <2>2 DEF ReadTrack
    <3> QED  BY <1>8, <3>1, <3>2, <3>3, <3>4 DEF ReadTrack
  <2> QED  BY <2>1, <2>2
<1>9. CASE ReadFails
  BY <1>9, NoWorkTypes DEF ReadFails
<1>10. CASE RecordAttempt
  <2>1. cur \in Item  BY <1>10 DEF RecordAttempt
  <2>2. /\ stamped' \in [Tracks -> SUBSET Caps] /\ current' \in [Tracks -> BOOLEAN]
        /\ owed' \in [Tracks -> SUBSET Caps]
    <3>1. /\ stamped' \in {stamped, [stamped EXCEPT ![cur.track] = @ \union attempted]}
          /\ current' \in {current, [current EXCEPT ![cur.track] = TRUE]}
          /\ owed' = [owed EXCEPT ![cur.track] = @ \ attempted]
      BY <1>10 DEF RecordAttempt
    <3>2. cur.track \in Tracks  BY <2>1
    <3>3. stamped' \in [Tracks -> SUBSET Caps]
      <4>1. stamped \in [Tracks -> SUBSET Caps] /\ attempted \in SUBSET Caps
        OBVIOUS
      <4>2. [stamped EXCEPT ![cur.track] = @ \union attempted] \in [Tracks -> SUBSET Caps]
        BY <3>2, <4>1, StampTypes, Zenon
      <4> QED  BY <3>1, <4>1, <4>2, Zenon
    <3>4. current' \in [Tracks -> BOOLEAN]  BY <3>1, <3>2
    <3>5. owed' \in [Tracks -> SUBSET Caps]  BY <3>1, <3>2
    <3> QED  BY <3>3, <3>4, <3>5
  <2>3. batch' \in Seq(Item) /\ Len(batch') <= BatchSize
    BY <1>10 DEF RecordAttempt
  <2> QED  BY <1>10, <2>2, <2>3, NoWorkTypes DEF RecordAttempt
<1>11. CASE RecordFails
  BY <1>11, NoWorkTypes DEF RecordFails
<1>12. CASE ApplyScanResult
  <2>1. [kind |-> "wake"] \in Commands  BY DEF Commands
  <2>2. channel' \in Seq(Commands)  BY <1>12, <2>1 DEF ApplyScanResult
  <2> QED  BY <1>12, <2>2 DEF ApplyScanResult
<1>13. CASE Restart
  BY <1>13, NoWorkTypes DEF Restart
<1>14. ASSUME NEW c \in Caps, AttemptFails(c)
      PROVE  TypeOK'
  BY <1>14 DEF AttemptFails
<1>15. ASSUME NEW c \in Caps, NoMatch(c)
      PROVE  TypeOK'
  BY <1>15 DEF NoMatch
<1>16. ASSUME NEW c \in Caps, FillText(c)
      PROVE  TypeOK'
  BY <1>16 DEF FillText
<1>17. ASSUME NEW c \in Caps, SetArtwork(c)
      PROVE  TypeOK'
  BY <1>17 DEF SetArtwork
<1>18. ASSUME NEW c \in Caps, RateLimited(c)
      PROVE  TypeOK'
  BY <1>18 DEF RateLimited
<1>19. ASSUME NEW caps \in Preferences, ChangeSettings(caps)
      PROVE  TypeOK'
  <2>1. caps \in SUBSET Caps /\ [kind |-> "settings", caps |-> caps] \in Commands
    BY DEF Commands
  <2>2. channel' \in Seq(Commands)  BY <1>19, <2>1 DEF ChangeSettings
  <2> QED  BY <1>19, <2>1, <2>2 DEF ChangeSettings
<1>20. ASSUME NEW request \in Requests, RequestExplicitRun(request)
      PROVE  TypeOK'
  <2>1. [kind |-> "explicit", tracks |-> request.tracks, caps |-> request.caps] \in Commands
    BY DEF Commands
  <2>2. channel' \in Seq(Commands)  BY <1>20, <2>1 DEF RequestExplicitRun
  <2> QED  BY <1>20, <2>2 DEF RequestExplicitRun
<1>21. ASSUME NEW t \in Tracks, NEW c \in Caps, UserEdit(t, c)
      PROVE  TypeOK'
  BY <1>21 DEF UserEdit
<1>22. ASSUME NEW t \in Tracks, RemoveTrack(t)
      PROVE  TypeOK'
  BY <1>22 DEF RemoveTrack
<1>23. ASSUME NEW t \in Tracks, NEW found \in BOOLEAN, NEW seen \in BOOLEAN, ScanCommit(t, found, seen)
      PROVE  TypeOK'
  BY <1>23 DEF ScanCommit
<1>24. CASE UNCHANGED vars
  BY <1>24 DEF vars
<1>25. CASE ScanReloadFails
  BY <1>25 DEF ScanReloadFails
<1>26. ASSUME NEW t \in Tracks, TrackArrives(t)
      PROVE  TypeOK'
  BY <1>26 DEF TrackArrives
<1> HIDE DEF TypeOK, rows, stamps, work, worker, history, bounds, Fault, NoFault, Command, Edit, Send,
             Attempted, Trying, ItemDone, Filled, DispatchCaps, Item
<1> QED
  BY <1>1, <1>2, <1>3, <1>4, <1>5, <1>6, <1>7, <1>8, <1>9, <1>10, <1>11, <1>12, <1>13, <1>14, <1>15,
     <1>16, <1>17, <1>18, <1>19, <1>20, <1>21, <1>22, <1>23, <1>24,
     <1>25, <1>26
  DEF Next, Worker, User, Runtime, Attempt

-----------------------------------------------------------------------------
\* The inductive invariant of the channel and the blocked worker.
THEOREM Invariance == Spec => []Inductive
<1>1. Init => Inductive
  <2> SUFFICES ASSUME Init PROVE Inductive
    OBVIOUS
  <2> QED  BY ChannelEmpty DEF Init, Inductive, TracksKeyed, ValueTyped, Blocked
<1>2. Inductive /\ [Next]_vars => Inductive'  BY StepKeeps
<1> QED  BY <1>1, <1>2, PTL DEF Spec

\* No wake is lost: a worker blocked on an empty channel, with no scan result to
\* be applied, has the user's settings and nothing to do, but for the tracks that
\* became available since the last command and that nobody sends a wake for: those
\* imported, relocated or found again, and those of a scan whose rows could not be
\* read back (worker_loop, apply_library_scan_result, fail_library_scan).
THEOREM NoWakeLost == Spec => []IdleMeansDone
<1>1. Inductive => IdleMeansDone
  <2> SUFFICES ASSUME Inductive, pc = "idle", channel = <<>>, scan = {}
               PROVE  settings = prefs /\ queue = <<>> /\ Needing(prefs) \subseteq unwoken
    BY DEF IdleMeansDone
  <2>1. settings = prefs  BY DEF Inductive, InForce
  <2> QED  BY <2>1 DEF Inductive, Blocked
<1> QED  BY <1>1, Invariance, PTL

\* No step replaces a tag or lyrics the user has set, however long before the
\* edit the worker read the row (fill_missing_track_metadata_and_enqueue).
THEOREM TextOfUserKept == Spec => UserTextKept
<1>1. Inductive /\ [Next]_vars => [TextKept]_vars  BY StepKeeps
<1> QED  BY <1>1, Invariance, PTL DEF Spec, UserTextKept, TextKept

\* Every variable has its type: a batch has items, at most BATCH_SIZE of them, and
\* the worker holds one exactly while it processes it (worker_loop).
THEOREM TypeCorrect == Spec => []TypeOK
<1>1. Init => TypeOK
  <2> SUFFICES ASSUME Init PROVE TypeOK
    OBVIOUS
  <2> USE OnlineAssumption, NoItemAssumption DEF Init
  <2>1. stamped \in [Tracks -> SUBSET Caps] /\ state \in [Tracks -> {"new", "available"}]
    OBVIOUS
  <2>2. channel \in Seq(Commands) /\ queue \in Seq(Item) /\ batch \in Seq(Item)
        /\ Len(batch) <= BatchSize
    OBVIOUS
  <2>3. prefs \in SUBSET Caps /\ settings \in SUBSET Caps
    OBVIOUS
  <2>4. commands \in 0 .. MaxCommands /\ edits \in 0 .. MaxEdits /\ faults \in 0 .. MaxFaults
    OBVIOUS
  <2> QED  BY <2>1, <2>2, <2>3, <2>4 DEF TypeOK
<1>2. TypeOK /\ [Next]_vars => TypeOK'  BY TypesStep
<1> QED  BY <1>1, <1>2, PTL DEF Spec
=============================================================================
