---------------------------- MODULE IngestProofs ----------------------------
(***************************************************************************)
(* What holds of a source's ffmpegs for any number of sessions and calls   *)
(* that are under way at a time: none is ever leaked.                      *)
(*                                                                         *)
(* It rests on the order of two operations: whoever spawns an ffmpeg puts  *)
(* it into the map next, before anything that could fail (Paired).         *)
(***************************************************************************)
EXTENDS Ingest, TLAPS

\* Spawning and putting into the map follow each other.
Paired(s) ==
  \A i \in 1..Len(s) :
    /\ s[i] = "spawn" => i < Len(s) /\ s[i + 1] = "install"
    /\ s[i] = "install" /\ i > 1 => s[i - 1] = "spawn"

\* Who is about to put an ffmpeg into the map has one.
Installing(a) == At(a, "install")
TodoOK == \A a \in Actor : Paired(todo[a]) /\ (Installing(a) => own[a] \in Child)

\* An ffmpeg that runs is in the map or about to be put there.
Accounted == \A c \in Child : Running(c) => map = c \/ \E a \in Actor : Installing(a) /\ own[a] = c

IInv == TypeOK /\ TodoOK /\ Accounted

-----------------------------------------------------------------------------
(* Lists of operations.                                                    *)

\* An operation that is done leaves a pair, or its second half.
LEMMA TailPaired ==
  ASSUME NEW S, NEW s \in Seq(S), s # <<>>, Paired(s)
  PROVE  /\ Tail(s) \in Seq(S) /\ Paired(Tail(s))
         /\ Tail(s) # <<>> /\ Head(Tail(s)) = "install" => Head(s) = "spawn"
         /\ Head(s) = "spawn" => Tail(s) # <<>> /\ Head(Tail(s)) = "install"
<1>1. /\ Tail(s) \in Seq(S) /\ Len(Tail(s)) = Len(s) - 1 /\ Len(s) \in Nat /\ Len(s) > 0
      /\ \A i \in 1..Len(Tail(s)) : Tail(s)[i] = s[i + 1]
      /\ Head(s) = s[1]
  OBVIOUS
<1>2. Paired(Tail(s))
  BY <1>1 DEF Paired
<1>3. Tail(s) # <<>> <=> Len(s) > 1
  <2>1. \A t \in Seq(S) : t # <<>> <=> Len(t) > 0
    OBVIOUS
  <2>2. Len(s) - 1 > 0 <=> Len(s) > 1
    BY <1>1
  <2> QED
    BY <1>1, <2>1, <2>2
<1>4. Tail(s) # <<>> => Head(Tail(s)) = s[2]
  <2> SUFFICES ASSUME Tail(s) # <<>> PROVE Head(Tail(s)) = s[2]
    OBVIOUS
  <2>1. Len(Tail(s)) > 0 /\ Tail(s)[1] = s[2]
    BY <1>1, <1>3
  <2> QED
    BY <1>1, <2>1
<1>5. ASSUME s[1] = "spawn" PROVE Len(s) > 1 /\ s[2] = "install"
  <2>1. 1 \in 1..Len(s) /\ 1 + 1 = 2
    BY <1>1
  <2> QED
    BY <2>1, <1>5 DEF Paired
<1>6. ASSUME Len(s) > 1, s[2] = "install" PROVE s[1] = "spawn"
  <2>1. 2 \in 1..Len(s) /\ 2 - 1 = 1 /\ 2 > 1
    BY <1>1, <1>6
  <2> QED
    BY <2>1, <1>6 DEF Paired
<1> QED
  BY <1>1, <1>2, <1>3, <1>4, <1>5, <1>6, Zenon

\* A list that neither spawns nor installs is paired.
Others == Ops \ {"spawn", "install"}
LEMMA OthersPaired ==
  ASSUME NEW s \in Seq(Others)
  PROVE  s \in Seq(Ops) /\ Paired(s) /\ (s # <<>> => Head(s) # "install")
<1>1. \A i \in 1..Len(s) : s[i] \in Others
  OBVIOUS
<1>2. s \in Seq(Ops)
  BY DEF Others
<1>3. s # <<>> => Head(s) \in Others
  OBVIOUS
<1> QED
  BY <1>1, <1>2, <1>3 DEF Others, Paired

\* What an actor begins with: a list in which whoever spawns installs next.
Fresh(s) == s \in Seq(Ops) /\ Paired(s) /\ (s # <<>> => Head(s) # "install")

LEMMA DeleteFresh == Fresh(Delete)
<1>1. \A K : Stop(K) \in Seq(Others)
  <2> TAKE K
  <2>1. CASE kind \in K
    BY <2>1 DEF Stop, Others, Ops
  <2>2. CASE kind \notin K
    BY <2>2 DEF Stop, Others, Ops
  <2> QED
    BY <2>1, <2>2
<1>2. <<"disconnected">> \in Seq(Others)
  BY DEF Others, Ops
<1>3. \A s, t \in Seq(Others) : s \o t \in Seq(Others)
  OBVIOUS
<1>4. Delete \in Seq(Others)
  BY <1>1, <1>2, <1>3, Zenon DEF Delete
<1> QED
  BY <1>4, OthersPaired DEF Fresh

\* The scripts of sessions and calls (server.rs, media_player.rs, srt.rs: the
\* child goes from spawn() to the map without a return in between).
LEMMA ScriptsFresh ==
  /\ Fresh(<<>>) /\ Fresh(Publish) /\ Fresh(PublishPlain) /\ Fresh(Finish)
  /\ Fresh(Ensure) /\ Fresh(FromAsset) /\ Fresh(Delete)
  /\ \A k \in {"rtmp", "file", "srt", "browser"} : Fresh(Launch(k))
<1> USE DEF Fresh, Paired, Ops
<1>1. Fresh(<<>>)
  OBVIOUS
<1>2. Fresh(Publish)
  BY DEF Publish
<1>3. Fresh(PublishPlain)
  BY DEF PublishPlain
<1>4. Fresh(Finish)
  BY DEF Finish
<1>5. Fresh(Ensure)
  BY DEF Ensure
<1>6. Fresh(FromAsset)
  BY DEF FromAsset
<1>7. Fresh(Listen) /\ Fresh(Playback)
  BY DEF Listen, Playback
<1> HIDE DEF Fresh, Paired, Ops
<1>8. \A k \in {"rtmp", "file", "srt", "browser"} : Fresh(Launch(k))
  BY <1>1, <1>7 DEF Launch
<1> QED
  BY <1>1, <1>2, <1>3, <1>4, <1>5, <1>6, <1>8, DeleteFresh

-----------------------------------------------------------------------------
(* How a step moves on.                                                    *)

\* What an actor's list becomes: its rest, or another that begins with no
\* installation.
LEMMA DoneKeeps ==
  ASSUME TypeOK, TodoOK, NEW a \in Actor, Busy(a), Done(a)
  PROVE  /\ todo' \in [Actor -> Seq(Ops)] /\ \A b \in Actor : Paired(todo'[b])
         /\ \A b \in Actor : b # a => Installing(b)' = Installing(b)
         /\ Installing(a)' = At(a, "spawn")
<1>1. todo \in [Actor -> Seq(Ops)] /\ todo[a] \in Seq(Ops) /\ todo[a] # <<>> /\ Paired(todo[a])
  BY DEF TypeOK, TodoOK, Busy
<1>2. todo' = [todo EXCEPT ![a] = Tail(todo[a])]
  BY DEF Done
<1>3. /\ Tail(todo[a]) \in Seq(Ops) /\ Paired(Tail(todo[a]))
      /\ Tail(todo[a]) # <<>> /\ Head(Tail(todo[a])) = "install" <=> Head(todo[a]) = "spawn"
  BY <1>1, TailPaired
<1>4. todo'[a] = Tail(todo[a]) /\ \A b \in Actor : b # a => todo'[b] = todo[b]
  BY <1>1, <1>2
<1>5. todo' \in [Actor -> Seq(Ops)]
  BY <1>1, <1>2, <1>3
<1>6. \A b \in Actor : Paired(todo'[b])
  BY <1>3, <1>4 DEF TodoOK
<1>7. Installing(a)' = At(a, "spawn")
  BY <1>1, <1>3, <1>4 DEF Installing, At, Busy
<1>8. \A b \in Actor : b # a => Installing(b)' = Installing(b)
  BY <1>4 DEF Installing, At, Busy
<1> QED
  BY <1>5, <1>6, <1>7, <1>8

LEMMA FreshKeeps ==
  ASSUME TypeOK, TodoOK, NEW a \in Actor, NEW s, Fresh(s), todo' = [todo EXCEPT ![a] = s]
  PROVE  /\ todo' \in [Actor -> Seq(Ops)] /\ \A b \in Actor : Paired(todo'[b])
         /\ \A b \in Actor : b # a => Installing(b)' = Installing(b)
         /\ ~Installing(a)'
<1>1. todo \in [Actor -> Seq(Ops)] /\ s \in Seq(Ops) /\ Paired(s) /\ (s # <<>> => Head(s) # "install")
  BY DEF TypeOK, Fresh
<1>2. todo'[a] = s /\ \A b \in Actor : b # a => todo'[b] = todo[b]
  BY <1>1
<1>3. todo' \in [Actor -> Seq(Ops)]
  BY <1>1
<1>4. \A b \in Actor : Paired(todo'[b])
  BY <1>1, <1>2 DEF TodoOK
<1>5. ~Installing(a)' /\ \A b \in Actor : b # a => Installing(b)' = Installing(b)
  BY <1>1, <1>2 DEF Installing, At, Busy
<1> QED
  BY <1>3, <1>4, <1>5

\* A step that starts nothing, takes nothing out of the map that runs on, and keeps
\* from nobody what is about to be put there, leaks nothing.
LEMMA NothingLost ==
  ASSUME Accounted,
         \A c \in Child : Running(c)' => Running(c) /\ (map = c => map' = c),
         \A a \in Actor : Installing(a) => Installing(a)' /\ own'[a] = own[a]
  PROVE  Accounted'
<1> SUFFICES ASSUME NEW c \in Child, Running(c)'
             PROVE  map' = c \/ \E a \in Actor : Installing(a)' /\ own'[a] = c
  BY DEF Accounted
<1>1. map = c \/ \E a \in Actor : Installing(a) /\ own[a] = c
  BY DEF Accounted
<1> QED
  BY <1>1

\* Emptying the map kills what is in it.
LEMMA EmptyKills ==
  ASSUME TypeOK
  PROVE  /\ Empty \in [Child -> {"unborn", "running", "killed", "exited"}]
         /\ \A c \in Child : Empty[c] = "running" => ffmpeg[c] = "running" /\ map # c
<1>1. CASE map = None
  BY <1>1, IngestAssumption DEF TypeOK, Empty
<1>2. CASE map # None
  BY <1>2, IngestAssumption DEF TypeOK, Empty, Killed
<1> QED
  BY <1>1, <1>2

\* An operation that is done and that neither spawns nor installs.
LEMMA OperationKeeps ==
  ASSUME IInv, NEW a \in Actor, Busy(a), Done(a), ~At(a, "spawn"), ~At(a, "install"),
         \A b \in Actor : own'[b] = own[b] \/ b = a,
         \A c \in Child : Running(c)' => Running(c) /\ (map = c => map' = c)
  PROVE  TodoOK' /\ Accounted'
<1>1. /\ \A b \in Actor : Paired(todo'[b])
      /\ \A b \in Actor : b # a => Installing(b)' = Installing(b)
      /\ ~Installing(a)'
  BY DoneKeeps DEF IInv
<1>2. TodoOK'
  BY <1>1 DEF IInv, TodoOK
<1>3. ~Installing(a)
  BY DEF Installing
<1>4. Accounted'
  BY <1>1, <1>3, NothingLost DEF IInv
<1> QED
  BY <1>2, <1>4

\* An actor that begins something, or gives up, when it was not about to install.
LEMMA BeginKeeps ==
  ASSUME IInv, NEW a \in Actor, NEW s, Fresh(s), todo' = [todo EXCEPT ![a] = s], ~Installing(a),
         \A b \in Actor : own'[b] = own[b] \/ b = a,
         UNCHANGED <<map, ffmpeg>>
  PROVE  TodoOK' /\ Accounted'
<1>1. /\ \A b \in Actor : Paired(todo'[b])
      /\ \A b \in Actor : b # a => Installing(b)' = Installing(b)
      /\ ~Installing(a)'
  BY FreshKeeps DEF IInv
<1>2. TodoOK'
  BY <1>1 DEF IInv, TodoOK
<1>3. Accounted'
  BY <1>1, NothingLost DEF IInv, Running
<1> QED
  BY <1>2, <1>3

\* The tasks of a child leave every actor alone.
LEMMA TaskKeeps ==
  ASSUME IInv, UNCHANGED <<todo, own>>,
         \A c \in Child : Running(c)' => Running(c) /\ (map = c => map' = c)
  PROVE  TodoOK' /\ Accounted'
<1>1. \A a \in Actor : Installing(a)' = Installing(a)
  BY DEF Installing, At, Busy
<1>2. TodoOK'
  BY <1>1 DEF IInv, TodoOK
<1>3. Accounted'
  BY <1>1, NothingLost DEF IInv
<1> QED
  BY <1>2, <1>3

-----------------------------------------------------------------------------
(* The invariant.                                                          *)

LEMMA InitIInv == Init => IInv
<1> SUFFICES ASSUME Init PROVE IInv
  OBVIOUS
<1>1. PICK a \in Actor : todo = [b \in Actor |-> IF b = a THEN Launch(kind) ELSE <<>>]
  BY DEF Init
<1>2. kind \in {"rtmp", "file", "srt", "browser"}
  BY IngestAssumption DEF Init
<1>3. \A b \in Actor : Fresh(todo[b])
  BY <1>1, <1>2, ScriptsFresh
<1>4. todo \in [Actor -> Seq(Ops)]
  BY <1>1, <1>3 DEF Fresh
<1>5. TypeOK
  <2>1. /\ row \in BOOLEAN /\ relay \in BOOLEAN /\ header \in BOOLEAN /\ holders \in SUBSET (Actor \cup Child)
        /\ map \in Child \cup {None} /\ alone \in BOOLEAN /\ torn \in BOOLEAN
    BY DEF Init
  <2>2. status \in {"Disconnected", "Connecting", "Live"}
    BY DEF Init
  <2>3. ffmpeg \in [Child -> {"unborn", "running", "killed", "exited"}]
    BY DEF Init
  <2>4. /\ reader \in [Child -> {"off", "header", "tag", "first", "frames", "ending", "gone"}]
        /\ watch \in [Child -> IF kind = "srt" THEN {"off", "on", "marked", "gone"} ELSE {"off"}]
    BY DEF Init
  <2>5. on \in [Actor -> BOOLEAN] /\ own \in [Actor -> Child \cup {None}]
    BY DEF Init
  <2>6. events \in 0..MaxEvents
    BY IngestAssumption DEF Init
  <2> QED
    BY <1>2, <1>4, <2>1, <2>2, <2>3, <2>4, <2>5, <2>6 DEF TypeOK
<1>6. TodoOK
  BY <1>3 DEF TodoOK, Fresh, Installing, At, Busy
<1>7. Accounted
  BY DEF Init, Accounted, Running
<1> QED
  BY <1>5, <1>6, <1>7 DEF IInv

\* Every list of operations that a step leaves is one of operations.
LEMMA TodoTyped == ASSUME IInv, [Next]_vars PROVE todo' \in [Actor -> Seq(Ops)]
<1> USE DEF IInv
<1>0. CASE UNCHANGED todo
  BY <1>0 DEF TypeOK
<1>1. ASSUME NEW a \in Actor, Done(a), Busy(a) PROVE todo' \in [Actor -> Seq(Ops)]
  BY <1>1, DoneKeeps
<1>2. ASSUME NEW a \in Actor, NEW s, Fresh(s), todo' = [todo EXCEPT ![a] = s] PROVE todo' \in [Actor -> Seq(Ops)]
  BY <1>2, FreshKeeps
<1>3. ASSUME NEW a \in Actor, Step(a) PROVE todo' \in [Actor -> Seq(Ops)]
  <2>1. CASE Done(a) /\ Busy(a)
    BY <2>1, <1>1
  <2>2. CASE Checked(a)
    BY <2>2, <1>1, <1>2, ScriptsFresh DEF Checked, GiveUp, At
  <2>3. CASE SpawnFails(a)
    BY <2>3, <1>2, ScriptsFresh DEF SpawnFails
  <2> QED
    BY <1>3, <2>1, <2>2, <2>3 DEF Step, GetRelay, Spawn, Install, Report, Uninstall, DropRelay, DropHeaders,
                                  HangUp, At
<1>4. ASSUME NEW a \in Actor, Requests(a) PROVE todo' \in [Actor -> Seq(Ops)]
  BY <1>4, <1>2, ScriptsFresh DEF Requests, PublishRequested, PublishAgain, PublishFinished, ConnectionError, EnsureFallback,
                                  CreateFromAsset, DeleteSource, Begin, GiveUp
<1>5. ASSUME NEW c \in Child, Tasks(c) \/ Exits(c) PROVE UNCHANGED todo
  BY <1>5 DEF Tasks, Exits, ReadHeader, ReadTag, FirstTag, OutputEnds, Forgotten, Watch, InputEnds
<1> QED
  BY <1>0, <1>3, <1>4, <1>5 DEF Next, vars

\* A step keeps every variable's type.
LEMMA StepType == ASSUME IInv, [Next]_vars PROVE TypeOK'
<1> USE DEF TypeOK, IInv
<1>1. todo' \in [Actor -> Seq(Ops)]
  BY TodoTyped
<1>2. CASE UNCHANGED vars
  BY <1>2 DEF vars, shared
<1>3. ASSUME NEW a \in Actor, Step(a) PROVE TypeOK'
  <2> USE DEF shared
  <2>1. CASE Checked(a)
    BY <1>1, <2>1 DEF Checked
  <2>2. CASE GetRelay(a)
    BY <1>1, <2>2 DEF GetRelay
  <2>3. CASE Spawn(a)
    BY <1>1, <2>3 DEF Spawn
  <2>4. CASE SpawnFails(a)
    BY <1>1, <2>4 DEF SpawnFails
  <2>5. CASE Install(a)
    <3>1. own[a] \in Child
      BY <2>5 DEF Install, TodoOK, Installing
    <3>2. ffmpeg' \in [Child -> {"unborn", "running", "killed", "exited"}]
      BY <2>5, EmptyKills DEF Install
    <3>3. own' \in [Actor -> Child \cup {None}] /\ reader' \in [Child -> {"off", "header", "tag", "first", "frames", "ending", "gone"}]
      BY <2>5, <3>1 DEF Install
    <3>4. holders' \in SUBSET (Actor \cup Child)
      BY <2>5, <3>1 DEF Install
    <3>5. map' \in Child \cup {None} /\ alone' \in BOOLEAN
      BY <2>5, <3>1 DEF Install
    <3> QED
      BY <1>1, <2>5, <3>2, <3>3, <3>4, <3>5 DEF Install
  <2>6. CASE Report(a)
    BY <1>1, <2>6 DEF Report
  <2>7. CASE Uninstall(a)
    <3>1. ffmpeg' \in [Child -> {"unborn", "running", "killed", "exited"}]
      BY <2>7, EmptyKills DEF Uninstall
    <3> QED
      BY <1>1, <2>7, <3>1 DEF Uninstall
  <2>8. CASE DropRelay(a)
    BY <1>1, <2>8 DEF DropRelay
  <2>9. CASE DropHeaders(a)
    BY <1>1, <2>9 DEF DropHeaders
  <2>10. CASE HangUp(a)
    BY <1>1, <2>10 DEF HangUp
  <2> QED
    BY <1>3, <2>1, <2>2, <2>3, <2>4, <2>5, <2>6, <2>7, <2>8, <2>9, <2>10 DEF Step
<1>4. ASSUME NEW a \in Actor, Requests(a) PROVE TypeOK'
  <2> USE DEF shared
  <2>1. ASSUME Event PROVE events' \in 0..MaxEvents
    BY <2>1, IngestAssumption DEF Event
  <2>2. ASSUME NEW ops, Begin(a, ops) PROVE events' \in 0..MaxEvents /\ alone' \in BOOLEAN
    BY <2>1, <2>2 DEF Begin
  <2>3. CASE PublishRequested(a)
    BY <1>1, <2>2, <2>3 DEF PublishRequested
  <2>4. CASE PublishFinished(a)
    BY <1>1, <2>2, <2>4 DEF PublishFinished
  <2>5. CASE ConnectionError(a)
    BY <1>1, <2>1, <2>5 DEF ConnectionError
  <2>6. CASE EnsureFallback(a)
    BY <1>1, <2>2, <2>6 DEF EnsureFallback
  <2>7. CASE CreateFromAsset(a)
    BY <1>1, <2>2, <2>7 DEF CreateFromAsset
  <2>8. CASE DeleteSource(a)
    BY <1>1, <2>2, <2>8 DEF DeleteSource
  <2>9. CASE PublishAgain(a)
    <3>1. Publish \in Seq(Ops)
      BY ScriptsFresh DEF Fresh
    <3>2. events' \in 0..MaxEvents
      BY <1>1, <2>9, IngestAssumption DEF PublishAgain
    <3> QED
      BY <1>1, <2>9, <3>1, <3>2 DEF PublishAgain
  <2> QED
    BY <1>4, <2>3, <2>4, <2>5, <2>6, <2>7, <2>8, <2>9 DEF Requests
<1>5. ASSUME NEW c \in Child, Tasks(c) \/ Exits(c) PROVE TypeOK'
  <2> USE DEF shared
  <2>1. CASE ReadHeader(c)
    BY <1>1, <2>1 DEF ReadHeader
  <2>2. CASE ReadTag(c)
    BY <1>1, <2>2 DEF ReadTag
  <2>3. CASE FirstTag(c)
    BY <1>1, <2>3 DEF FirstTag
  <2>4. CASE OutputEnds(c)
    BY <1>1, <2>4 DEF OutputEnds
  <2>5. CASE Forgotten(c)
    <3>1. ffmpeg' \in [Child -> {"unborn", "running", "killed", "exited"}]
      BY <2>5, EmptyKills DEF Forgotten
    <3> QED
      BY <1>1, <2>5, <3>1 DEF Forgotten
  <2>6. CASE Watch(c)
    BY <1>1, <2>6 DEF Watch
  <2>7. CASE InputEnds(c)
    BY <1>1, <2>7 DEF InputEnds
  <2>8. CASE Exits(c)
    BY <1>1, <2>8, IngestAssumption DEF Exits, Event
  <2> QED
    BY <1>5, <2>1, <2>2, <2>3, <2>4, <2>5, <2>6, <2>7, <2>8 DEF Tasks
<1> QED
  BY <1>2, <1>3, <1>4, <1>5 DEF Next

\* A step of a session or a call: only Spawn makes an ffmpeg run, and what it has
\* spawned is installed next; only Install, Uninstall and Forgotten change the map,
\* and kill what was there.
LEMMA StepAccounts ==
  ASSUME IInv, NEW a \in Actor, Step(a) PROVE TodoOK' /\ Accounted'
<1> USE DEF shared
<1>1. CASE Checked(a)
  <2>1. ~Installing(a) /\ Busy(a) /\ ~At(a, "spawn") /\ UNCHANGED <<map, ffmpeg, own>>
    BY <1>1 DEF Checked, Installing, At
  <2>2. CASE Done(a)
    BY <2>1, <2>2, OperationKeeps DEF Installing, Running
  <2>3. CASE GiveUp(a)
    BY <2>1, <2>3, ScriptsFresh, BeginKeeps DEF GiveUp
  <2> QED
    BY <1>1, <2>2, <2>3 DEF Checked
<1>2. CASE GetRelay(a)
  BY <1>2, OperationKeeps DEF GetRelay, At, Running
<1>3. CASE Spawn(a)
  <2>1. PICK d \in Child : /\ ffmpeg[d] = "unborn"
                           /\ ffmpeg' = [ffmpeg EXCEPT ![d] = "running"]
                           /\ own' = [own EXCEPT ![a] = d]
    BY <1>3 DEF Spawn
  <2>2. /\ \A b \in Actor : Paired(todo'[b])
        /\ \A b \in Actor : b # a => Installing(b)' = Installing(b)
        /\ Installing(a)' /\ ~Installing(a)
    BY <1>3, DoneKeeps DEF IInv, Spawn, At, Installing
  <2>3. /\ own'[a] = d /\ \A b \in Actor : b # a => own'[b] = own[b]
        /\ \A c \in Child : c # d => ffmpeg'[c] = ffmpeg[c]
    BY <2>1 DEF IInv, TypeOK
  <2>4. TodoOK'
    BY <2>2, <2>3 DEF IInv, TodoOK
  <2>5. Accounted'
    <3> SUFFICES ASSUME NEW c \in Child, Running(c)'
                 PROVE  map' = c \/ \E b \in Actor : Installing(b)' /\ own'[b] = c
      BY DEF Accounted
    <3>1. CASE c = d
      BY <3>1, <2>2, <2>3
    <3>2. CASE c # d
      BY <3>2, <1>3, <2>2, <2>3 DEF IInv, Accounted, Running, Spawn
    <3> QED
      BY <3>1, <3>2
  <2> QED
    BY <2>4, <2>5
<1>4. CASE SpawnFails(a)
  <2>1. PICK s : Fresh(s) /\ todo' = [todo EXCEPT ![a] = s]
    BY <1>4, ScriptsFresh DEF SpawnFails
  <2>2. ~Installing(a) /\ UNCHANGED <<map, ffmpeg, own>>
    BY <1>4 DEF SpawnFails, At, Installing
  <2> QED
    BY <2>1, <2>2, BeginKeeps
<1>5. CASE Install(a)
  <2>1. own[a] \in Child /\ map' = own[a] /\ ffmpeg' = Empty
    BY <1>5 DEF IInv, TodoOK, Install, Installing
  <2>2. /\ \A b \in Actor : Paired(todo'[b])
        /\ \A b \in Actor : b # a => Installing(b)' = Installing(b)
        /\ ~Installing(a)'
    BY <1>5, DoneKeeps DEF IInv, Install, At, Installing
  <2>3. \A b \in Actor : b # a => own'[b] = own[b]
    BY <1>5 DEF IInv, TypeOK, Install
  <2>4. TodoOK'
    BY <2>2, <2>3 DEF IInv, TodoOK
  <2>5. Accounted'
    <3> SUFFICES ASSUME NEW c \in Child, Running(c)'
                 PROVE  map' = c \/ \E b \in Actor : Installing(b)' /\ own'[b] = c
      BY DEF Accounted
    <3>1. Running(c) /\ map # c
      BY <2>1, EmptyKills DEF IInv, Running
    <3>2. PICK b \in Actor : Installing(b) /\ own[b] = c
      BY <3>1 DEF IInv, Accounted
    <3> QED
      BY <3>2, <2>1, <2>2, <2>3
  <2> QED
    BY <2>4, <2>5
<1>6. CASE Report(a)
  BY <1>6, OperationKeeps DEF Report, At, Running
<1>7. CASE Uninstall(a)
  <2>1. \A c \in Child : Running(c)' => Running(c) /\ map # c
    BY <1>7, EmptyKills DEF IInv, Uninstall, Running
  <2> QED
    BY <1>7, <2>1, OperationKeeps DEF Uninstall, At
<1>8. CASE DropRelay(a)
  BY <1>8, OperationKeeps DEF DropRelay, At, Running
<1>9. CASE DropHeaders(a)
  BY <1>9, OperationKeeps DEF DropHeaders, At, Running
<1>10. CASE HangUp(a)
  <2>1. \A b \in Actor : own'[b] = own[b] \/ b = a
    BY <1>10 DEF HangUp, IInv, TypeOK
  <2> QED
    BY <1>10, <2>1, OperationKeeps DEF HangUp, At, Running
<1> QED
  BY <1>1, <1>2, <1>3, <1>4, <1>5, <1>6, <1>7, <1>8, <1>9, <1>10 DEF Step

\* What begins, and the error that ends a session: never between the spawning of
\* an ffmpeg and its installation.
LEMMA RequestAccounts ==
  ASSUME IInv, NEW a \in Actor, Requests(a) PROVE TodoOK' /\ Accounted'
<1> USE DEF shared
<1>1. ASSUME NEW ops, Begin(a, ops), Fresh(ops), UNCHANGED <<map, ffmpeg, own>> PROVE TodoOK' /\ Accounted'
  BY <1>1, BeginKeeps DEF Begin, Installing, At
<1>2. CASE PublishRequested(a)
  BY <1>1, <1>2, ScriptsFresh DEF PublishRequested
<1>3. CASE PublishFinished(a)
  BY <1>1, <1>3, ScriptsFresh DEF PublishFinished
<1>4. CASE ConnectionError(a)
  <2>1. ~Installing(a)
    BY <1>4 DEF ConnectionError, Installing, At
  <2>2. \A b \in Actor : own'[b] = own[b] \/ b = a
    BY <1>4 DEF ConnectionError, IInv, TypeOK
  <2> QED
    BY <1>4, <2>1, <2>2, ScriptsFresh, BeginKeeps DEF ConnectionError, GiveUp
<1>5. CASE EnsureFallback(a)
  BY <1>1, <1>5, ScriptsFresh DEF EnsureFallback
<1>6. CASE CreateFromAsset(a)
  BY <1>1, <1>6, ScriptsFresh DEF CreateFromAsset
<1>7. CASE DeleteSource(a)
  BY <1>1, <1>7, ScriptsFresh DEF DeleteSource
<1>8. CASE PublishAgain(a)
  <2>1. ~Installing(a)
    BY <1>8 DEF PublishAgain, Busy, Installing, At
  <2> QED
    BY <1>8, <2>1, ScriptsFresh, BeginKeeps DEF PublishAgain
<1> QED
  BY <1>2, <1>3, <1>4, <1>5, <1>6, <1>7, <1>8 DEF Requests

\* The tasks of a child only end things; the reader that takes another child out of
\* the map kills it.
LEMMA TaskAccounts ==
  ASSUME IInv, NEW c \in Child, Tasks(c) \/ Exits(c) PROVE TodoOK' /\ Accounted'
<1> USE DEF shared
<1>1. UNCHANGED <<todo, own>>
  BY DEF Tasks, Exits, ReadHeader, ReadTag, FirstTag, OutputEnds, Forgotten, Watch, InputEnds
<1>2. \A d \in Child : Running(d)' => Running(d) /\ (map = d => map' = d)
  <2>1. CASE UNCHANGED <<map, ffmpeg>>
    BY <2>1 DEF Running
  <2>2. CASE Forgotten(c)
    BY <2>2, EmptyKills DEF IInv, Forgotten, Running
  <2>3. CASE InputEnds(c)
    BY <2>3 DEF IInv, TypeOK, InputEnds, Running
  <2>4. CASE Exits(c)
    BY <2>4 DEF IInv, TypeOK, Exits, Running
  <2> QED
    BY <2>1, <2>2, <2>3, <2>4 DEF Tasks, ReadHeader, ReadTag, FirstTag, OutputEnds, Watch
<1> QED
  BY <1>1, <1>2, TaskKeeps

\* Types, the order of what is still to do, and where every ffmpeg that runs is to
\* be found, hold in every reachable state.
THEOREM Inductive == Spec => []IInv
<1>1. IInv /\ [Next]_vars => IInv'
  <2> SUFFICES ASSUME IInv, [Next]_vars PROVE IInv'
    OBVIOUS
  <2>1. TypeOK'
    BY StepType
  <2>2. TodoOK' /\ Accounted'
    <3>1. CASE UNCHANGED vars
      BY <3>1, TaskKeeps DEF vars, shared, Running
    <3>2. CASE Next
      BY <3>2, StepAccounts, RequestAccounts, TaskAccounts DEF Next
    <3> QED
      BY <3>1, <3>2
  <2> QED
    BY <2>1, <2>2 DEF IInv
<1> QED
  BY InitIInv, <1>1, PTL DEF Spec

\* Every variable keeps its type; messages are read of SRT listeners only.
THEOREM TypeCorrect == Spec => []TypeOK
<1>1. IInv => TypeOK
  BY DEF IInv
<1> QED
  BY <1>1, Inductive, PTL

\* No ffmpeg is leaked (source_normalizer.rs 101-107, 215-224).
THEOREM NoneStrays == Spec => []NoStray
<1>1. IInv => NoStray
  BY DEF IInv, Accounted, Installing, NoStray
<1> QED
  BY <1>1, Inductive, PTL
=============================================================================
