---------------------------- MODULE OnAirProofs ----------------------------
(***************************************************************************)
(* What holds of going on and off air for any number of requests under way *)
(* at a time, of playout tasks and of schedules: the pipeline always gets  *)
(* out of Starting and Stopping, no player is left without its task, and   *)
(* as long as no two are under way at once, pipeline, egress and channel   *)
(* output settle where the last request wanted them.                       *)
(*                                                                         *)
(* All of it rests on the shape of what an actor has still to do (TodoOK,  *)
(* Ordered), which every operation keeps.                                  *)
(***************************************************************************)
EXTENDS OnAir, TLAPS

\* What a request and what a broadcast ever has to do.
CallOps == {"ifIdle", "ifBusy", "ifBroadcasting", "egressStart", "egressStop", "restart", "selectCamera",
            "deselect", "goStarting", "armLive", "goStopping", "armIdle", "toggle", "ensureHls",
            "hlsTake", "hlsSet", "run", "deactivate"}
TaskOps == {"egressStart", "egressStop", "restart", "selectVod", "selectCard", "deselect", "goStarting",
            "armLive", "goStopping", "armIdle", "ensureHls", "hlsTake", "hlsSet", "load", "activate",
            "play", "air", "unplay", "deactivate"}
OpsOf(a) == IF a \in Task THEN TaskOps ELSE CallOps

\* A change of the pipeline's state is followed by the arming of its timer.
ArmNext(s) ==
  \A i \in 1..Len(s) :
    /\ s[i] = "goStarting" => i < Len(s) /\ s[i + 1] = "armLive"
    /\ s[i] = "goStopping" => i < Len(s) /\ s[i + 1] = "armIdle"

\* What a task may do before it stops its player without dropping the rest.
Harmless == {"selectVod", "goStarting", "armLive", "egressStart", "egressStop", "restart", "ensureHls",
             "hlsTake", "hlsSet"}

\* Behind every start of the player, and in front of anything that may end the
\* task, lies its stop.
StopsAfter(s, i) == \E k \in (i + 1)..Len(s) : /\ s[k] \in {"air", "unplay"}
                                               /\ \A j \in (i + 1)..(k - 1) : s[j] \in Harmless
PlayStops(s) == \A i \in 1..Len(s) : s[i] = "play" => StopsAfter(s, i)

Shape(s) == ArmNext(s) /\ PlayStops(s)

TodoOK == /\ todo \in [Actor -> Seq(Ops)]
          /\ \A a \in Actor : todo[a] \in Seq(OpsOf(a)) /\ Shape(todo[a])

\* The players that run have their stop ahead of them.
PlayersStop == \A t \in Task : t \in players => StopsAfter(todo[t], 0)

IInv == TypeOK /\ TodoOK /\ PipelineSettles /\ PlayersStop

-----------------------------------------------------------------------------
(* Lists of operations.                                                    *)

\* What an operation inserts: nothing, an egress restart, the HLS output's change.
Inserts == {<<>>, <<"egressStop", "egressStart">>, <<"hlsTake", "hlsSet">>, <<"hlsTake">>}

\* What an operation continues with instead of the rest.
Rests == {Nothing, EndStop, EndStandby, <<"unplay">>, <<"deactivate">>}

\* A timer armed goes behind the others, which stay.
LEMMA AppendType ==
  ASSUME NEW S, NEW s \in Seq(S), NEW e \in S
  PROVE  /\ Append(s, e) \in Seq(S) /\ DOMAIN Append(s, e) = 1..(Len(s) + 1)
         /\ DOMAIN s = 1..Len(s) /\ Len(s) \in Nat /\ Append(s, e)[Len(s) + 1] = e
  OBVIOUS

\* Those before it are where they were.
LEMMA AppendKeeps ==
  ASSUME NEW S, NEW s \in Seq(S), NEW e \in S, NEW i \in 1..Len(s)
  PROVE  Append(s, e)[i] = s[i]
  OBVIOUS

\* A list that is not empty has a first operation.
LEMMA HasHead ==
  ASSUME NEW S, NEW s \in Seq(S), Len(s) > 0
  PROVE  s # <<>> /\ Head(s) = s[1]
  OBVIOUS

\* Behind the first operation lies the second.
LEMMA NextHead ==
  ASSUME NEW S, NEW s \in Seq(S), 1 < Len(s)
  PROVE  Tail(s) # <<>> /\ Head(Tail(s)) = s[2]
<1>1. Tail(s) \in Seq(S) /\ Len(Tail(s)) = Len(s) - 1 /\ Len(s) \in Nat
  OBVIOUS
<1>2. Len(Tail(s)) > 0 /\ Tail(s)[1] = s[2]
  BY <1>1
<1> QED
  BY <1>1, <1>2, HasHead, Zenon

\* An operation that is done leaves the shape of the rest.
LEMMA TailShape ==
  ASSUME NEW S, NEW s \in Seq(S), s # <<>>, Shape(s)
  PROVE  Tail(s) \in Seq(S) /\ Shape(Tail(s))
<1>1. Tail(s) \in Seq(S) /\ ArmNext(Tail(s))
  BY DEF ArmNext, Shape
<1>2. ASSUME NEW i \in 1..Len(Tail(s)), Tail(s)[i] = "play" PROVE StopsAfter(Tail(s), i)
  <2>1. i + 1 \in 1..Len(s) /\ s[i + 1] = "play"
    BY <1>2
  <2>2. PICK k \in (i + 2)..Len(s) : s[k] \in {"air", "unplay"} /\ \A j \in (i + 2)..(k - 1) : s[j] \in Harmless
    BY <2>1 DEF Shape, PlayStops, StopsAfter
  <2>3. k - 1 \in (i + 1)..Len(Tail(s)) /\ Tail(s)[k - 1] = s[k]
    BY <2>2, <1>2
  <2>4. \A j \in (i + 1)..(k - 2) : Tail(s)[j] = s[j + 1]
    BY <2>3, <1>2
  <2> QED
    BY <2>2, <2>3, <2>4 DEF StopsAfter
<1> QED
  BY <1>1, <1>2 DEF Shape, PlayStops

\* So does one that inserts the outputs' operations.
LEMMA InsertShape ==
  ASSUME NEW S, NEW s \in Seq(S), s # <<>>, Shape(s), NEW r \in Inserts,
         {"egressStop", "egressStart", "hlsTake", "hlsSet"} \subseteq S
  PROVE  r \o Tail(s) \in Seq(S) /\ Shape(r \o Tail(s))
<1> DEFINE t == Tail(s)
           n == Len(r)
<1>1. t \in Seq(S) /\ Shape(t)
  BY TailShape
<1>2. /\ r \in Seq(S) /\ n \in Nat
      /\ \A i \in 1..n : r[i] \notin {"goStarting", "goStopping", "play"}
  <2>1. CASE r = <<>>
    BY <2>1
  <2>2. CASE r = <<"egressStop", "egressStart">>
    BY <2>2
  <2>3. CASE r = <<"hlsTake", "hlsSet">>
    BY <2>3
  <2>4. CASE r = <<"hlsTake">>
    BY <2>4
  <2> QED
    BY <2>1, <2>2, <2>3, <2>4 DEF Inserts
<1>3. /\ r \o t \in Seq(S) /\ Len(r \o t) = n + Len(t)
      /\ \A i \in 1..n : (r \o t)[i] = r[i]
      /\ \A i \in 1..Len(t) : (r \o t)[n + i] = t[i]
  BY <1>1, <1>2
<1> HIDE DEF t, n
<1>4. ASSUME NEW i \in 1..Len(r \o t), (r \o t)[i] \in {"goStarting", "goStopping", "play"}
      PROVE  i - n \in 1..Len(t) /\ (r \o t)[i] = t[i - n]
  <2>1. i \notin 1..n
    BY <1>2, <1>3, <1>4
  <2>2. Len(t) \in Nat
    BY <1>1
  <2>3. i - n \in 1..Len(t) /\ n + (i - n) = i
    BY <2>1, <2>2, <1>2, <1>3
  <2> QED
    BY <2>3, <1>3
<1>5. Len(t) \in Nat
  BY <1>1
<1>6. ArmNext(r \o t)
  <2> SUFFICES ASSUME NEW i \in 1..Len(r \o t), (r \o t)[i] \in {"goStarting", "goStopping"}
               PROVE  /\ (r \o t)[i] = "goStarting" => i < Len(r \o t) /\ (r \o t)[i + 1] = "armLive"
                      /\ (r \o t)[i] = "goStopping" => i < Len(r \o t) /\ (r \o t)[i + 1] = "armIdle"
    BY DEF ArmNext
  <2>1. i - n \in 1..Len(t) /\ (r \o t)[i] = t[i - n]
    BY <1>4
  <2>2. /\ t[i - n] = "goStarting" => i - n < Len(t) /\ t[i - n + 1] = "armLive"
        /\ t[i - n] = "goStopping" => i - n < Len(t) /\ t[i - n + 1] = "armIdle"
    BY <2>1, <1>1 DEF Shape, ArmNext
  <2>3. i - n < Len(t) => i - n + 1 \in 1..Len(t) /\ n + (i - n + 1) = i + 1
    BY <2>1, <1>2, <1>5
  <2> QED
    BY <2>1, <2>2, <2>3, <1>2, <1>3, <1>5
<1>7. PlayStops(r \o t)
  <2> SUFFICES ASSUME NEW i \in 1..Len(r \o t), (r \o t)[i] = "play" PROVE StopsAfter(r \o t, i)
    BY DEF PlayStops
  <2>1. i - n \in 1..Len(t) /\ t[i - n] = "play"
    BY <1>4
  <2>2. PICK k \in (i - n + 1)..Len(t) : t[k] \in {"air", "unplay"} /\ \A j \in (i - n + 1)..(k - 1) : t[j] \in Harmless
    BY <2>1, <1>1 DEF Shape, PlayStops, StopsAfter
  <2>3. n + k \in (i + 1)..Len(r \o t) /\ (r \o t)[n + k] = t[k]
    BY <2>1, <2>2, <1>2, <1>3, <1>5
  <2>4. ASSUME NEW j \in (i + 1)..((n + k) - 1) PROVE (r \o t)[j] \in Harmless
    <3>1. j - n \in (i - n + 1)..(k - 1) /\ j - n \in 1..Len(t) /\ n + (j - n) = j
      BY <2>1, <2>2, <1>2, <1>5
    <3> QED
      BY <3>1, <2>2, <1>3
  <2>5. (r \o t)[n + k] \in {"air", "unplay"}
    BY <2>2, <2>3
  <2> QED
    BY <2>3, <2>4, <2>5, Zenon DEF StopsAfter
<1> QED
  BY <1>3, <1>6, <1>7 DEF Shape, t

\* The handlers' and tasks' lists have the shape (stream.rs, output.rs, channel.rs,
\* playout.rs: every start() and stop() of the pipeline is one call).
LEMMA ScriptShape ==
  ASSUME NEW kind \in Kinds PROVE Script(kind) \in Seq(CallOps) /\ Shape(Script(kind))
<1> USE DEF Shape, ArmNext, PlayStops
<1>1. Start \in Seq(CallOps) /\ Shape(Start)
  BY DEF Start, CallOps
<1>2. Stop \in Seq(CallOps) /\ Shape(Stop)
  BY DEF Stop, CallOps
<1>3. SetOutput \in Seq(CallOps) /\ Shape(SetOutput)
  BY DEF SetOutput, CallOps
<1>4. SetChannel \in Seq(CallOps) /\ Shape(SetChannel)
  BY DEF SetChannel, CallOps
<1>5. StopSchedule \in Seq(CallOps) /\ Shape(StopSchedule)
  BY DEF StopSchedule, CallOps
<1>6. <<"restart">> \in Seq(CallOps) /\ Shape(<<"restart">>)
  BY DEF CallOps
<1>7. <<"run">> \in Seq(CallOps) /\ Shape(<<"run">>)
  BY DEF CallOps
<1> HIDE DEF Shape, ArmNext, PlayStops
<1> QED
  BY <1>1, <1>2, <1>3, <1>4, <1>5, <1>6, <1>7, BoundAssumption DEF Script

\* So has the playout task's: its player is stopped where the broadcast waits
\* (playout.rs: run_broadcast).
LEMMA BroadcastShape == Broadcast \in Seq(TaskOps) /\ Shape(Broadcast)
<1>1. Broadcast \in Seq(TaskOps) /\ ArmNext(Broadcast)
  BY DEF Broadcast, TaskOps, ArmNext
<1>2. \A i \in 1..Len(Broadcast) : Broadcast[i] = "play" => i = 3
  BY DEF Broadcast
<1>3. StopsAfter(Broadcast, 3)
  <2>1. 9 \in (3 + 1)..Len(Broadcast) /\ Broadcast[9] \in {"air", "unplay"}
    BY DEF Broadcast
  <2>2. \A j \in (3 + 1)..(9 - 1) : Broadcast[j] \in Harmless
    BY DEF Broadcast, Harmless
  <2> QED
    BY <2>1, <2>2 DEF StopsAfter
<1> QED
  BY <1>1, <1>2, <1>3 DEF Shape, PlayStops

\* And so has every end of a broadcast (playout.rs: run_broadcast).
LEMMA RestShape ==
  ASSUME NEW r \in Rests PROVE r \in Seq(TaskOps) /\ Shape(r)
<1>1. CASE r = EndStop
  BY <1>1 DEF EndStop, StopSchedule, TaskOps, Shape, ArmNext, PlayStops
<1>2. CASE r = EndStandby
  BY <1>2 DEF EndStandby, TaskOps, Shape, ArmNext, PlayStops
<1>3. CASE r = Nothing
  BY <1>3 DEF Nothing, TaskOps, Shape, ArmNext, PlayStops
<1>4. CASE r = <<"unplay">>
  BY <1>4 DEF TaskOps, Shape, ArmNext, PlayStops
<1>5. CASE r = <<"deactivate">>
  BY <1>5 DEF TaskOps, Shape, ArmNext, PlayStops
<1> QED
  BY <1>1, <1>2, <1>3, <1>4, <1>5 DEF Rests

-----------------------------------------------------------------------------
(* Steps of an actor, by what they do to its list and to the players.      *)

Continues(a, r) == r \in Seq(OpsOf(a)) /\ Shape(r) /\ todo' = [todo EXCEPT ![a] = r]

GoesOn(a) == /\ Busy(a) /\ Head(todo[a]) \notin {"play", "air", "unplay"} /\ Done(a)
             /\ players' \subseteq players \cup {Card}
Expands(a) == /\ At(a, "restart") \/ At(a, "ensureHls")
              /\ \E r \in Inserts : Insert(a, r)
              /\ players' = players
GivesUp(a) == /\ Busy(a) /\ Head(todo[a]) \in {"ifIdle", "ifBusy", "ifBroadcasting"}
              /\ \E r \in {Nothing, <<"ensureHls">>} : Become(a, r)
              /\ players' = players
Fails(a)   == /\ Busy(a) /\ Head(todo[a]) \in {"load", "play", "selectCard"}
              /\ \E r \in {Nothing, <<"deactivate">>} : Become(a, r)
              /\ players' = players
Ending(a)  == /\ At(a, "air")
              /\ \E r \in {<<"unplay">>, EndStop, EndStandby} : Become(a, r)
              /\ players' = players
Plays(a)   == At(a, "play") /\ Done(a) /\ players' = players \cup {a}
Unplays(a) == At(a, "unplay") /\ Done(a) /\ players' = players \ {a}

Moves(a) == GoesOn(a) \/ Expands(a) \/ GivesUp(a) \/ Fails(a) \/ Ending(a) \/ Plays(a) \/ Unplays(a)

\* Every operation but the run of a schedule moves its own actor, in one of these ways.
LEMMA StepMoves ==
  ASSUME NEW a \in Actor, Step(a), ~Run(a)
  PROVE  Moves(a)
<1> USE DEF At, outputs, schedule
<1>1. CASE GoStarting(a) \/ GoStopping(a) \/ Arm(a)
  BY <1>1 DEF GoStarting, GoStopping, Arm, Moves, GoesOn
<1>2. CASE IfIdle(a) \/ IfBusy(a)
  BY <1>2 DEF IfIdle, IfBusy, Moves, GoesOn, GivesUp
<1>3. CASE IfBroadcasting(a)
  BY <1>3 DEF IfBroadcasting, Moves, GoesOn, GivesUp
<1>4. CASE Egress(a) \/ Hls(a) \/ Toggle(a) \/ Select(a)
  BY <1>4 DEF Egress, Hls, Toggle, Select, Moves, GoesOn
<1>5. CASE Restart(a)
  BY <1>5 DEF Restart, Moves, Expands, Inserts, Nothing
<1>6. CASE EnsureHls(a)
  BY <1>6 DEF EnsureHls, Moves, Expands, Inserts
<1>7. CASE Load(a)
  BY <1>7 DEF Load, Moves, GoesOn, Fails
<1>8. CASE Activate(a)
  BY <1>8 DEF Activate, Moves, GoesOn
<1>9. CASE Play(a)
  BY <1>9 DEF Play, Moves, Plays, Fails
<1>10. CASE Deactivated(a) \/ PlayedOut(a)
  BY <1>10 DEF Deactivated, PlayedOut, Moves, Ending
<1>11. CASE Unplay(a)
  BY <1>11 DEF Unplay, Moves, Unplays
<1>12. CASE SelectCard(a)
  BY <1>12 DEF SelectCard, Moves, GoesOn, Fails
<1> QED
  BY <1>1, <1>2, <1>3, <1>4, <1>5, <1>6, <1>7, <1>8, <1>9, <1>10, <1>11, <1>12
     DEF Step, Pipeline, Outputs, Playout

\* An actor does what its list may hold: only tasks load, play and unplay.
LEMMA OpKnown ==
  ASSUME TodoOK, NEW a \in Actor, Busy(a)
  PROVE  /\ Head(todo[a]) \in OpsOf(a) /\ todo[a] \in Seq(OpsOf(a)) /\ todo[a] # <<>>
         /\ Head(todo[a]) = todo[a][1] /\ Len(todo[a]) \in Nat \ {0} /\ Shape(todo[a])
<1>1. todo[a] \in Seq(OpsOf(a)) /\ todo[a] # <<>> /\ Shape(todo[a])
  BY DEF TodoOK, Busy, Nothing
<1> QED
  BY <1>1

\* Only a playout task loads, activates, plays and waits on air.
LEMMA OnlyTasks ==
  ASSUME TodoOK, NEW a \in Actor, Busy(a),
         Head(todo[a]) \in {"selectVod", "selectCard", "load", "activate", "play", "air", "unplay"}
  PROVE  a \in Task
  BY OpKnown DEF OpsOf, CallOps

\* A list that has the shape is followed by one that has.
LEMMA MovesContinues ==
  ASSUME TodoOK, NEW a \in Actor, Moves(a)
  PROVE  \E r : Continues(a, r)
<1>1. CASE Busy(a) /\ Done(a)
  <2>1. Continues(a, Tail(todo[a]))
    BY <1>1, OpKnown, TailShape DEF Continues, Done
  <2> QED
    BY <2>1
<1>2. CASE Expands(a)
  <2>1. Busy(a)
    BY <1>2 DEF Expands, At
  <2>2. PICK r \in Inserts : Insert(a, r)
    BY <1>2 DEF Expands
  <2>3. {"egressStop", "egressStart", "hlsTake", "hlsSet"} \subseteq OpsOf(a)
    BY DEF OpsOf, CallOps, TaskOps
  <2>4. Continues(a, r \o Tail(todo[a]))
    BY <2>1, <2>2, <2>3, OpKnown, InsertShape DEF Continues, Insert
  <2> QED
    BY <2>4
<1>3. CASE GivesUp(a)
  <2>1. PICK r \in {Nothing, <<"ensureHls">>} : Become(a, r)
    BY <1>3 DEF GivesUp
  <2>2. CASE r = Nothing
    <3>1. r \in Seq(OpsOf(a)) /\ Shape(r)
      BY <2>2 DEF Nothing, Shape, ArmNext, PlayStops
    <3> QED
      BY <3>1, <2>1 DEF Continues, Become
  <2>3. CASE r = <<"ensureHls">>
    <3>1. "ensureHls" \in OpsOf(a)
      BY DEF OpsOf, CallOps, TaskOps
    <3>2. r \in Seq(OpsOf(a)) /\ Shape(r)
      BY <2>3, <3>1 DEF Shape, ArmNext, PlayStops
    <3> QED
      BY <3>2, <2>1 DEF Continues, Become
  <2> QED
    BY <2>1, <2>2, <2>3
<1>4. CASE Fails(a)
  <2>1. a \in Task
    BY <1>4, OnlyTasks DEF Fails
  <2>2. PICK r \in Rests : Become(a, r)
    BY <1>4 DEF Fails, Rests
  <2> QED
    BY <2>1, <2>2, RestShape DEF Continues, Become, OpsOf
<1>5. CASE Ending(a)
  <2>1. a \in Task
    BY <1>5, OnlyTasks DEF Ending, At
  <2>2. PICK r \in Rests : Become(a, r)
    BY <1>5 DEF Ending, Rests
  <2> QED
    BY <2>1, <2>2, RestShape DEF Continues, Become, OpsOf
<1> QED
  BY <1>1, <1>2, <1>3, <1>4, <1>5 DEF Moves, GoesOn, Plays, Unplays, At

\* An actor that continues so leaves the lists in order.
LEMMA ContinuesTodo ==
  ASSUME TodoOK, NEW a \in Actor, NEW r, Continues(a, r)
  PROVE  TodoOK'
<1>1. OpsOf(a) \subseteq Ops
  BY DEF OpsOf, CallOps, TaskOps, Ops
<1>2. r \in Seq(Ops)
  BY <1>1 DEF Continues
<1>3. todo' \in [Actor -> Seq(Ops)]
  BY <1>2 DEF Continues, TodoOK
<1>4. ASSUME NEW b \in Actor PROVE todo'[b] \in Seq(OpsOf(b)) /\ Shape(todo'[b])
  BY DEF Continues, TodoOK
<1> QED
  BY <1>3, <1>4 DEF TodoOK

\* A request begins with its handler's list.
LEMMA ScriptContinues ==
  ASSUME NEW c \in Call, NEW kind \in Kinds, Become(c, Script(kind))
  PROVE  Continues(c, Script(kind))
<1>1. OpsOf(c) = CallOps
  BY ActorAssumption DEF OpsOf
<1> QED
  BY <1>1, ScriptShape DEF Continues, Become

\* A task begins with the broadcast's.
LEMMA BroadcastContinues ==
  ASSUME NEW t \in Task, todo' = [todo EXCEPT ![t] = Broadcast]
  PROVE  Continues(t, Broadcast)
  BY BroadcastShape DEF Continues, OpsOf

\* A run ends the request and begins a broadcast.
LEMMA RunTodo ==
  ASSUME TodoOK, NEW a \in Actor, Run(a)
  PROVE  TodoOK'
<1>1. CASE Become(a, Nothing)
  <2>1. Continues(a, Nothing)
    BY <1>1 DEF Continues, Become, Nothing, Shape, ArmNext, PlayStops
  <2> QED
    BY <2>1, ContinuesTodo
<1>2. ASSUME NEW t \in Task, ~Busy(t), todo' = [todo EXCEPT ![a] = Nothing, ![t] = Broadcast]
      PROVE  TodoOK'
  <2>1. Nothing \in Seq(OpsOf(a)) /\ Nothing \in Seq(Ops) /\ Shape(Nothing)
    BY DEF Nothing, Shape, ArmNext, PlayStops
  <2>2. Broadcast \in Seq(TaskOps) /\ Shape(Broadcast) /\ OpsOf(t) = TaskOps /\ TaskOps \subseteq Ops
    BY BroadcastShape DEF OpsOf, TaskOps, Ops
  <2>3. Broadcast \in Seq(Ops)
    BY <2>2
  <2>4. todo' \in [Actor -> Seq(Ops)]
    BY <1>2, <2>1, <2>3 DEF TodoOK
  <2>5. ASSUME NEW b \in Actor PROVE todo'[b] \in Seq(OpsOf(b)) /\ Shape(todo'[b])
    <3>1. CASE b = t
      BY <3>1, <1>2, <2>2 DEF TodoOK
    <3>2. CASE b # t /\ b = a
      BY <3>2, <1>2, <2>1 DEF TodoOK
    <3>3. CASE b # t /\ b # a
      BY <3>3, <1>2 DEF TodoOK
    <3> QED
      BY <3>1, <3>2, <3>3
  <2> QED
    BY <2>4, <2>5 DEF TodoOK
<1> QED
  BY <1>1, <1>2 DEF Run, Spawn

\* No step spoils the shape of what anybody has to do.
LEMMA NextTodo == TodoOK /\ [Next]_vars => TodoOK'
<1> SUFFICES ASSUME TodoOK, [Next]_vars PROVE TodoOK'
  OBVIOUS
<1>1. ASSUME NEW a \in Actor, Step(a) PROVE TodoOK'
  <2>1. CASE Run(a)
    BY <2>1, RunTodo
  <2>2. CASE ~Run(a)
    BY <2>2, <1>1, StepMoves, MovesContinues, ContinuesTodo
  <2> QED
    BY <2>1, <2>2
<1>2. CASE Timer
  BY <1>2 DEF Timer, TodoOK
<1>3. ASSUME NEW c \in Call, NEW kind \in Kinds, Begin(c, kind) PROVE TodoOK'
  BY <1>3, ScriptContinues, ContinuesTodo DEF Begin, Actor
<1>4. ASSUME NEW s \in Schedule, ComeDue(s) PROVE TodoOK'
  BY <1>4 DEF ComeDue, TodoOK
<1>5. ASSUME NEW s \in Schedule, HandleDue(s) PROVE TodoOK'
  <2>1. CASE todo' = todo
    BY <2>1 DEF TodoOK
  <2>2. CASE \E t \in Task : todo' = [todo EXCEPT ![t] = Broadcast]
    BY <2>2, BroadcastContinues, ContinuesTodo DEF Actor
  <2> QED
    BY <1>5, <2>1, <2>2 DEF HandleDue
<1>6. CASE UNCHANGED vars
  BY <1>6 DEF vars, TodoOK
<1> QED
  BY <1>1, <1>2, <1>3, <1>4, <1>5, <1>6 DEF Next, Steps, Requests, Scheduler

-----------------------------------------------------------------------------
(* Type correctness.                                                       *)

\* Every operation leaves every variable but the lists, which NextTodo covers,
\* in its type.
LEMMA StepType ==
  ASSUME TypeOK, TodoOK, TodoOK', NEW a \in Actor, Step(a), alone' \in BOOLEAN
  PROVE  TypeOK'
<1>1. todo' \in [Actor -> Seq(Ops)]
  BY DEF TodoOK
<1>2. ASSUME NEW op \in {"selectVod", "selectCard", "load", "activate", "play", "air", "unplay"}, At(a, op)
      PROVE  a \in Task
  BY <1>2, OnlyTasks DEF At
<1> USE <1>1 DEF TypeOK, outputs, schedule
<1>3. CASE GoStarting(a) \/ GoStopping(a)
  <2>1. asked' \in BOOLEAN
    BY <1>3, Zenon DEF GoStarting, GoStopping
  <2> QED
    BY <1>3, <2>1 DEF GoStarting, GoStopping
<1>4. CASE Arm(a)
  <2>1. timers' = Append(timers, "Live") \/ timers' = Append(timers, "Idle")
    BY <1>4, Zenon DEF Arm
  <2>2. timers \in Seq({"Live", "Idle"}) /\ "Live" \in {"Live", "Idle"} /\ "Idle" \in {"Live", "Idle"}
    OBVIOUS
  <2>3. Append(timers, "Live") \in Seq({"Live", "Idle"}) /\ Append(timers, "Idle") \in Seq({"Live", "Idle"})
    BY <2>2, AppendType, Zenon
  <2>4. timers' \in Seq({"Live", "Idle"})
    BY <2>1, <2>3, Zenon
  <2> QED
    BY <1>4, <2>4 DEF Arm
<1>5. CASE IfIdle(a) \/ IfBusy(a) \/ IfBroadcasting(a)
  BY <1>5 DEF IfIdle, IfBusy, IfBroadcasting
<1>6. CASE Egress(a)
  <2>1. egress' \in BOOLEAN
    BY <1>6, Zenon DEF Egress
  <2>2. bare' \in BOOLEAN
    BY <1>6, Zenon DEF Egress
  <2> QED
    BY <1>6, <2>1, <2>2 DEF Egress
<1>7. CASE Hls(a)
  <2>1. hls' \in BOOLEAN
    BY <1>7, Zenon DEF Hls
  <2> QED
    BY <1>7, <2>1 DEF Hls
<1>8. CASE Restart(a) \/ EnsureHls(a)
  BY <1>8 DEF Restart, EnsureHls
<1>9. CASE Toggle(a)
  <2>1. enabled' \in BOOLEAN
    BY <1>9, Zenon DEF Toggle
  <2> QED
    BY <1>9, <2>1 DEF Toggle
<1>10. CASE Select(a)
  <2>1. intent' \in Sources \cup {None}
    BY <1>10, <1>2 DEF Select, Sources
  <2> QED
    BY <1>10, <2>1 DEF Select
<1>11. CASE Run(a)
  <2>1. airs' \in [Task -> Schedule \cup {None}] /\ ends' \in [Task -> {"loop", "stop", "standby"}]
    <3>1. CASE UNCHANGED <<airs, ends>>
      BY <3>1
    <3>2. CASE \E s \in Schedule, t \in Task, e \in Ends : Spawn(s, t, e)
      BY <3>2, BoundAssumption DEF Spawn
    <3> QED
      BY <1>11, <3>1, <3>2, Zenon DEF Run
  <2> QED
    BY <1>11, <2>1 DEF Run
<1>12. CASE Load(a) \/ Deactivated(a) \/ PlayedOut(a)
  BY <1>12 DEF Load, Deactivated, PlayedOut
<1>13. CASE Activate(a)
  BY <1>13, <1>2 DEF Activate
<1>14. CASE Play(a) \/ Unplay(a) \/ SelectCard(a)
  BY <1>14, <1>2 DEF Play, Unplay, SelectCard, Sources
<1> QED
  BY <1>3, <1>4, <1>5, <1>6, <1>7, <1>8, <1>9, <1>10, <1>11, <1>12, <1>13, <1>14
     DEF Step, Pipeline, Outputs, Playout

\* So does every step of the module.
LEMMA NextType == TypeOK /\ TodoOK /\ [Next]_vars => TypeOK'
<1> SUFFICES ASSUME TypeOK, TodoOK, [Next]_vars PROVE TypeOK'
  OBVIOUS
<1>1. TodoOK'
  BY NextTodo
<1>2. CASE UNCHANGED vars
  BY <1>2 DEF vars, outputs, schedule, TypeOK
<1>3. CASE Next
  <2>1. alone' \in BOOLEAN
    BY <1>3, Zenon DEF Next, Watched
  <2>2. todo' \in [Actor -> Seq(Ops)]
    BY <1>1 DEF TodoOK
  <2>3. ASSUME NEW a \in Actor, Step(a) PROVE TypeOK'
    BY <1>1, <2>1, <2>3, StepType
  <2>4. CASE Timer
    BY <2>1, <2>2, <2>4 DEF Timer, TypeOK, schedule
  <2>5. ASSUME NEW c \in Call, NEW kind \in Kinds, Begin(c, kind) PROVE TypeOK'
    BY <2>1, <2>2, <2>5, BoundAssumption DEF Begin, Event, TypeOK, outputs, schedule
  <2>6. ASSUME NEW s \in Schedule, ComeDue(s) PROVE TypeOK'
    BY <2>1, <2>2, <2>6, BoundAssumption DEF ComeDue, Event, TypeOK, outputs
  <2>7. ASSUME NEW s \in Schedule, HandleDue(s) PROVE TypeOK'
    <3>1. airs' \in [Task -> Schedule \cup {None}] /\ ends' \in [Task -> {"loop", "stop", "standby"}]
      <4>1. CASE UNCHANGED <<airs, ends>>
        BY <4>1 DEF TypeOK
      <4>2. ASSUME NEW t \in Task, NEW e \in Ends, Spawn(s, t, e)
            PROVE  airs' \in [Task -> Schedule \cup {None}] /\ ends' \in [Task -> {"loop", "stop", "standby"}]
        BY <4>2, BoundAssumption DEF Spawn, TypeOK
      <4> QED
        BY <2>7, <4>1, <4>2, Zenon DEF HandleDue
    <3> QED
      BY <2>1, <2>2, <2>7, <3>1 DEF HandleDue, TypeOK, outputs
  <2> QED
    BY <1>3, <2>3, <2>4, <2>5, <2>6, <2>7 DEF Next, Steps, Requests, Scheduler
<1> QED
  BY <1>2, <1>3
-----------------------------------------------------------------------------
(* Players.                                                                *)

\* What is done before a player's stop leaves that stop ahead.
LEMMA StopsTail ==
  ASSUME NEW S, NEW s \in Seq(S), s # <<>>, StopsAfter(s, 1)
  PROVE  StopsAfter(Tail(s), 0)
<1>1. PICK k \in 2..Len(s) : s[k] \in {"air", "unplay"} /\ \A j \in 2..(k - 1) : s[j] \in Harmless
  BY DEF StopsAfter
<1>2. k - 1 \in 1..Len(Tail(s)) /\ Tail(s)[k - 1] = s[k]
  BY <1>1
<1>3. \A j \in 1..(k - 2) : Tail(s)[j] = s[j + 1]
  BY <1>1
<1> QED
  BY <1>1, <1>2, <1>3 DEF StopsAfter

\* With the stop ahead, what comes first is either that stop or harmless.
LEMMA StopsLater ==
  ASSUME NEW S, NEW s \in Seq(S), s # <<>>, StopsAfter(s, 0), Head(s) \notin {"air", "unplay"}
  PROVE  Head(s) \in Harmless /\ StopsAfter(s, 1)
<1>1. PICK k \in 1..Len(s) : s[k] \in {"air", "unplay"} /\ \A j \in 1..(k - 1) : s[j] \in Harmless
  BY DEF StopsAfter
<1>2. Head(s) = s[1] /\ k # 1
  BY <1>1
<1>3. k \in 2..Len(s) /\ 1 \in 1..(k - 1)
  BY <1>1, <1>2
<1> QED
  BY <1>1, <1>2, <1>3 DEF StopsAfter

\* What the outputs' operations insert is harmless.
LEMMA StopsInsert ==
  ASSUME NEW S, NEW s \in Seq(S), s # <<>>, StopsAfter(s, 1), NEW r \in Inserts,
         {"egressStop", "egressStart", "hlsTake", "hlsSet"} \subseteq S
  PROVE  StopsAfter(r \o Tail(s), 0)
<1> DEFINE t == Tail(s)
           n == Len(r)
<1>1. t \in Seq(S) /\ StopsAfter(t, 0) /\ Len(t) \in Nat
  BY StopsTail
<1>2. r \in Seq(S) /\ n \in Nat /\ \A i \in 1..n : r[i] \in Harmless
  <2>1. CASE r = <<>>
    BY <2>1
  <2>2. CASE r = <<"egressStop", "egressStart">>
    BY <2>2 DEF Harmless
  <2>3. CASE r = <<"hlsTake", "hlsSet">>
    BY <2>3 DEF Harmless
  <2>4. CASE r = <<"hlsTake">>
    BY <2>4 DEF Harmless
  <2> QED
    BY <2>1, <2>2, <2>3, <2>4 DEF Inserts
<1>3. /\ Len(r \o t) = n + Len(t)
      /\ \A i \in 1..n : (r \o t)[i] = r[i]
      /\ \A i \in 1..Len(t) : (r \o t)[n + i] = t[i]
  BY <1>1, <1>2
<1> HIDE DEF t, n
<1>4. PICK k \in 1..Len(t) : t[k] \in {"air", "unplay"} /\ \A j \in 1..(k - 1) : t[j] \in Harmless
  BY <1>1 DEF StopsAfter
<1>5. n + k \in 1..Len(r \o t) /\ (r \o t)[n + k] \in {"air", "unplay"}
  BY <1>1, <1>2, <1>3, <1>4
<1>6. ASSUME NEW j \in 1..(n + k - 1) PROVE (r \o t)[j] \in Harmless
  <2>1. CASE j \in 1..n
    BY <2>1, <1>2, <1>3
  <2>2. CASE j \notin 1..n
    <3>1. j - n \in 1..(k - 1) /\ j - n \in 1..Len(t) /\ n + (j - n) = j
      BY <2>2, <1>1, <1>2, <1>4
    <3> QED
      BY <3>1, <1>3, <1>4
  <2> QED
    BY <2>1, <2>2
<1>7. StopsAfter(r \o t, 0)
  <2>1. n + k \in (0 + 1)..Len(r \o t)
    BY <1>5
  <2>2. ASSUME NEW j \in (0 + 1)..((n + k) - 1) PROVE (r \o t)[j] \in Harmless
    <3>1. j \in 1..(n + k - 1)
      BY <2>2, <1>2, <1>4
    <3> QED
      BY <3>1, <1>6
  <2> QED
    BY <2>1, <2>2, <1>5, Zenon DEF StopsAfter
<1> QED
  BY <1>7 DEF t

\* A task whose player runs after its own step still has the stop ahead.
LEMMA OwnPlayer ==
  ASSUME TodoOK, PlayersStop, NEW t \in Task, Moves(t), t \in players'
  PROVE  StopsAfter(todo'[t], 0)
<1> DEFINE s == todo[t]
<1>1. t \in Actor /\ Busy(t) /\ t # Card
  BY ActorAssumption
     DEF Actor, Moves, GoesOn, Expands, GivesUp, Fails, Ending, Plays, Unplays, At
<1>2. /\ s \in Seq(OpsOf(t)) /\ s # <<>> /\ Shape(s) /\ Head(s) = s[1] /\ Len(s) \in Nat \ {0}
  BY <1>1, OpKnown
<1>3. todo \in [Actor -> Seq(Ops)]
  BY DEF TodoOK
<1>4. ASSUME t \in players, Head(s) \notin {"air", "unplay"}
      PROVE  Head(s) \in Harmless /\ StopsAfter(s, 1)
  BY <1>2, <1>4, StopsLater DEF PlayersStop
<1>5. CASE GoesOn(t)
  <2>1. t \in players /\ todo'[t] = Tail(s)
    BY <1>1, <1>3, <1>5 DEF GoesOn, Done
  <2> QED
    BY <2>1, <1>2, <1>4, <1>5, StopsTail DEF GoesOn
<1>6. CASE Expands(t)
  <2>1. t \in players /\ Head(s) \notin {"air", "unplay"}
    BY <1>6 DEF Expands, At
  <2>2. PICK r \in Inserts : Insert(t, r)
    BY <1>6 DEF Expands
  <2>3. todo'[t] = r \o Tail(s)
    BY <1>1, <1>3, <2>2 DEF Insert
  <2>4. {"egressStop", "egressStart", "hlsTake", "hlsSet"} \subseteq OpsOf(t)
    BY DEF OpsOf, TaskOps
  <2> QED
    BY <2>1, <2>3, <2>4, <1>2, <1>4, StopsInsert
<1>7. CASE GivesUp(t) \/ Fails(t)
  <2>1. t \in players /\ Head(s) \notin {"air", "unplay"} /\ Head(s) \notin Harmless
    BY <1>7 DEF GivesUp, Fails, Harmless
  <2> QED
    BY <2>1, <1>4
<1>8. CASE Ending(t)
  <2>1. PICK r \in {<<"unplay">>, EndStop, EndStandby} : Become(t, r)
    BY <1>8 DEF Ending
  <2>2. todo'[t] = r
    BY <1>1, <1>3, <2>1 DEF Become
  <2>3. r[1] = "unplay" /\ Len(r) \in Nat /\ 1 \in 1..Len(r)
    <3>1. CASE r = <<"unplay">>
      BY <3>1
    <3>2. CASE r = EndStop
      BY <3>2 DEF EndStop, StopSchedule
    <3>3. CASE r = EndStandby
      BY <3>3 DEF EndStandby
    <3> QED
      BY <3>1, <3>2, <3>3
  <2> QED
    BY <2>2, <2>3 DEF StopsAfter
<1>9. CASE Plays(t)
  <2>1. todo'[t] = Tail(s) /\ s[1] = "play" /\ 1 \in 1..Len(s)
    BY <1>1, <1>2, <1>3, <1>9 DEF Plays, Done, At
  <2>2. StopsAfter(s, 1)
    BY <2>1, <1>2 DEF Shape, PlayStops
  <2> QED
    BY <2>1, <2>2, <1>2, StopsTail
<1>10. CASE Unplays(t)
  BY <1>10 DEF Unplays
<1> QED
  BY <1>5, <1>6, <1>7, <1>8, <1>9, <1>10 DEF Moves

\* Somebody else's step neither starts a task's player nor touches its list.
LEMMA OthersPlayer ==
  ASSUME TodoOK, NEW a \in Actor, Moves(a), NEW t \in Task, t # a, t \in players'
  PROVE  t \in players /\ todo'[t] = todo[t]
<1>1. t \in players
  BY ActorAssumption DEF Moves, GoesOn, Expands, GivesUp, Fails, Ending, Plays, Unplays
<1>2. \E r : todo' = [todo EXCEPT ![a] = r]
  BY MovesContinues DEF Continues
<1>3. todo'[t] = todo[t]
  BY <1>2 DEF TodoOK, Actor
<1> QED
  BY <1>1, <1>3

\* A run is asked for by a request, and the task it gets has no player.
LEMMA RunPlayers ==
  ASSUME TodoOK, NEW a \in Actor, Run(a), NEW t \in Task, t \in players'
  PROVE  t \in players /\ todo'[t] = todo[t]
<1>1. t \in players
  BY DEF Run, outputs
<1>2. a \notin Task
  BY OpKnown DEF Run, At, OpsOf, TaskOps
<1>3. CASE Become(a, Nothing)
  BY <1>1, <1>2, <1>3 DEF Become, TodoOK, Actor
<1>4. CASE \E u \in Task : u \notin players /\ todo' = [todo EXCEPT ![a] = Nothing, ![u] = Broadcast]
  BY <1>1, <1>2, <1>4 DEF TodoOK, Actor
<1> QED
  BY <1>1, <1>3, <1>4 DEF Run, Spawn

\* No step leaves a player without its stop (playout.rs: run_broadcast).
LEMMA PlayersKept == TodoOK /\ PlayersStop /\ [Next]_vars => PlayersStop'
<1> SUFFICES ASSUME TodoOK, PlayersStop, [Next]_vars, NEW t \in Task, t \in players'
             PROVE  StopsAfter(todo'[t], 0)
  BY DEF PlayersStop
<1>1. ASSUME t \in players, todo'[t] = todo[t] PROVE StopsAfter(todo'[t], 0)
  BY <1>1 DEF PlayersStop
<1>2. ASSUME NEW a \in Actor, Step(a) PROVE StopsAfter(todo'[t], 0)
  <2>1. CASE Run(a)
    BY <2>1, <1>1, RunPlayers
  <2>2. CASE ~Run(a) /\ a = t
    BY <2>2, <1>2, StepMoves, OwnPlayer
  <2>3. CASE ~Run(a) /\ a # t
    BY <2>3, <1>1, <1>2, StepMoves, OthersPlayer
  <2> QED
    BY <2>1, <2>2, <2>3
<1>3. CASE Timer
  BY <1>1, <1>3 DEF Timer, schedule
<1>4. ASSUME NEW c \in Call, NEW kind \in Kinds, Begin(c, kind) PROVE StopsAfter(todo'[t], 0)
  <2>1. c # t /\ t \in players
    BY <1>4, ActorAssumption DEF Begin, schedule
  <2>2. todo'[t] = todo[t]
    BY <2>1, <1>4 DEF Begin, Become, TodoOK, Actor
  <2> QED
    BY <1>1, <2>1, <2>2
<1>5. ASSUME NEW s \in Schedule, ComeDue(s) PROVE StopsAfter(todo'[t], 0)
  BY <1>1, <1>5 DEF ComeDue
<1>6. ASSUME NEW s \in Schedule, HandleDue(s) PROVE StopsAfter(todo'[t], 0)
  <2>1. t \in players
    BY <1>6 DEF HandleDue
  <2>2. CASE todo' = todo
    BY <1>1, <2>1, <2>2
  <2>3. CASE \E u \in Task : u \notin players /\ todo' = [todo EXCEPT ![u] = Broadcast]
    BY <1>1, <2>1, <2>3 DEF TodoOK, Actor
  <2> QED
    BY <1>6, <2>2, <2>3 DEF HandleDue, Spawn
<1>7. CASE UNCHANGED vars
  BY <1>1, <1>7 DEF vars, schedule
<1> QED
  BY <1>2, <1>3, <1>4, <1>5, <1>6, <1>7 DEF Next, Steps, Requests, Scheduler

-----------------------------------------------------------------------------
(* The pipeline's way out.                                                 *)

Delaying(a) == GoStarting(a) \/ GoStopping(a) \/ Arm(a)

\* Any other operation leaves the pipeline, its timers, and whoever is about to
\* arm one.
LEMMA OthersWait ==
  ASSUME TodoOK, NEW a \in Actor, Step(a), ~Delaying(a)
  PROVE  /\ pipe' = pipe /\ timers' = timers
         /\ ~At(a, "armLive") /\ ~At(a, "armIdle")
         /\ \A b \in Actor \ {a} : Busy(b) => todo'[b] = todo[b]
<1>1. IfIdle(a) \/ IfBusy(a) \/ IfBroadcasting(a) \/ Outputs(a) \/ Playout(a)
  BY DEF Step, Pipeline, Delaying
<1>2. pipe' = pipe /\ timers' = timers
  BY <1>1 DEF IfIdle, IfBusy, IfBroadcasting, Outputs, Egress, Restart, EnsureHls, Hls, Toggle, Select,
              Playout, Run, Load, Activate, Play, Deactivated, PlayedOut, Unplay, SelectCard, outputs
<1>3. ~At(a, "armLive") /\ ~At(a, "armIdle")
  BY <1>1 DEF IfIdle, IfBusy, IfBroadcasting, Outputs, Egress, Restart, EnsureHls, Hls, Toggle, Select,
              Playout, Run, Load, Activate, Play, Deactivated, PlayedOut, Unplay, SelectCard, At
<1>4. ASSUME NEW b \in Actor \ {a}, Busy(b) PROVE todo'[b] = todo[b]
  <2>1. CASE Run(a)
    <3>1. CASE Become(a, Nothing)
      BY <3>1, <1>4 DEF Become, TodoOK
    <3>2. CASE \E t \in Task : ~Busy(t) /\ todo' = [todo EXCEPT ![a] = Nothing, ![t] = Broadcast]
      BY <3>2, <1>4 DEF TodoOK
    <3> QED
      BY <2>1, <3>1, <3>2 DEF Run, Spawn
  <2>2. CASE ~Run(a)
    <3>1. \E r : todo' = [todo EXCEPT ![a] = r]
      BY <2>2, StepMoves, MovesContinues DEF Continues
    <3> QED
      BY <3>1, <1>4 DEF TodoOK
  <2> QED
    BY <2>1, <2>2
<1> QED
  BY <1>2, <1>3, <1>4

\* A pipeline, timers and waiting actors that stay keep the way out.
LEMMA WaitersSettle ==
  ASSUME PipelineSettles, pipe' = pipe, timers' = timers,
         \A b \in Actor : At(b, "armLive") \/ At(b, "armIdle") => todo'[b] = todo[b]
  PROVE  PipelineSettles'
<1>1. ASSUME NEW b \in Actor, At(b, "armLive") PROVE At(b, "armLive")'
  BY <1>1 DEF At, Busy
<1>2. ASSUME NEW b \in Actor, At(b, "armIdle") PROVE At(b, "armIdle")'
  BY <1>2 DEF At, Busy
<1> QED
  BY <1>1, <1>2 DEF PipelineSettles

\* An actor that has put the pipeline in Starting or Stopping arms the timer next.
LEMMA DelayedSettle ==
  ASSUME TodoOK, NEW a \in Actor, GoStarting(a) \/ GoStopping(a)
  PROVE  PipelineSettles'
<1> DEFINE s == todo[a]
<1>1. /\ s \in Seq(OpsOf(a)) /\ s # <<>> /\ Shape(s) /\ Head(s) = s[1] /\ Len(s) \in Nat \ {0}
      /\ todo'[a] = Tail(s) /\ 1 \in 1..Len(s)
  BY OpKnown DEF GoStarting, GoStopping, At, Done, TodoOK
<1>2. CASE GoStarting(a)
  <2>1. s[1] = "goStarting" /\ pipe' = "Starting"
    BY <1>1, <1>2 DEF GoStarting, At
  <2>2. 1 < Len(s) /\ s[1 + 1] = "armLive"
    BY <1>1, <2>1 DEF Shape, ArmNext
  <2>3. Tail(s) # <<>> /\ Head(Tail(s)) = "armLive"
    BY <1>1, <2>2, NextHead
  <2>4. At(a, "armLive")'
    BY <1>1, <2>3 DEF At, Busy, Nothing
  <2> QED
    BY <2>1, <2>4 DEF PipelineSettles
<1>3. CASE GoStopping(a)
  <2>1. s[1] = "goStopping" /\ pipe' = "Stopping"
    BY <1>1, <1>3 DEF GoStopping, At
  <2>2. 1 < Len(s) /\ s[1 + 1] = "armIdle"
    BY <1>1, <2>1 DEF Shape, ArmNext
  <2>3. Tail(s) # <<>> /\ Head(Tail(s)) = "armIdle"
    BY <1>1, <2>2, NextHead
  <2>4. At(a, "armIdle")'
    BY <1>1, <2>3 DEF At, Busy, Nothing
  <2> QED
    BY <2>1, <2>4 DEF PipelineSettles
<1> QED
  BY <1>2, <1>3

\* The armed timer takes the place of the actor that has armed it.
LEMMA ArmedSettle ==
  ASSUME TypeOK, TodoOK, PipelineSettles, NEW a \in Actor, Arm(a)
  PROVE  PipelineSettles'
<1>1. pipe' = pipe /\ \E e \in {"Live", "Idle"} : timers' = Append(timers, e)
                                               /\ At(a, IF e = "Live" THEN "armLive" ELSE "armIdle")
  BY DEF Arm
<1>2. PICK e \in {"Live", "Idle"} : timers' = Append(timers, e)
                                 /\ At(a, IF e = "Live" THEN "armLive" ELSE "armIdle")
  BY <1>1
<1>3. timers \in Seq({"Live", "Idle"})
  BY DEF TypeOK
<1>4. /\ DOMAIN timers' = 1..(Len(timers) + 1) /\ DOMAIN timers = 1..Len(timers) /\ Len(timers) \in Nat
      /\ timers'[Len(timers) + 1] = e
  <2>1. DOMAIN Append(timers, e) = 1..(Len(timers) + 1) /\ Append(timers, e)[Len(timers) + 1] = e
    BY <1>3, AppendType
  <2>2. DOMAIN timers = 1..Len(timers) /\ Len(timers) \in Nat
    BY <1>3
  <2> QED
    BY <1>2, <2>1, <2>2, Zenon
<1>5. ASSUME NEW i \in DOMAIN timers PROVE i \in DOMAIN timers' /\ timers'[i] = timers[i]
  <2>1. i \in 1..Len(timers) /\ i \in DOMAIN timers'
    BY <1>4
  <2>2. timers'[i] = timers[i]
    BY <2>1, <1>2, <1>3, AppendKeeps, Zenon
  <2> QED
    BY <2>1, <2>2
<1>6. Len(timers) + 1 \in DOMAIN timers'
  BY <1>4
<1>7. ASSUME NEW b \in Actor, b # a PROVE todo'[b] = todo[b]
  BY <1>7 DEF Arm, Done, TodoOK
<1>8. ASSUME NEW b \in Actor, At(b, "armLive")
      PROVE  At(b, "armLive")' \/ \E i \in DOMAIN timers' : timers'[i] = "Live"
  <2>1. CASE b = a
    <3>1. e = "Live"
      BY <1>2, <1>8, <2>1 DEF At
    <3> QED
      BY <3>1, <1>4, <1>6
  <2>2. CASE b # a
    BY <2>2, <1>7, <1>8 DEF At, Busy
  <2> QED
    BY <2>1, <2>2
<1>9. ASSUME NEW b \in Actor, At(b, "armIdle")
      PROVE  At(b, "armIdle")' \/ \E i \in DOMAIN timers' : timers'[i] = "Idle"
  <2>1. CASE b = a
    <3>1. e = "Idle"
      BY <1>2, <1>9, <2>1 DEF At
    <3> QED
      BY <3>1, <1>4, <1>6
  <2>2. CASE b # a
    BY <2>2, <1>7, <1>9 DEF At, Busy
  <2> QED
    BY <2>1, <2>2
<1> QED
  BY <1>1, <1>5, <1>8, <1>9 DEF PipelineSettles

\* No step loses the way out of Starting and Stopping (stub.rs: start, stop).
LEMMA SettleKept == TypeOK /\ TodoOK /\ PipelineSettles /\ [Next]_vars => PipelineSettles'
<1> SUFFICES ASSUME TypeOK, TodoOK, PipelineSettles, [Next]_vars PROVE PipelineSettles'
  OBVIOUS
<1>1. ASSUME NEW a \in Actor, Step(a) PROVE PipelineSettles'
  <2>1. CASE GoStarting(a) \/ GoStopping(a)
    BY <2>1, DelayedSettle
  <2>2. CASE Arm(a)
    BY <2>2, ArmedSettle
  <2>3. CASE ~Delaying(a)
    <3>1. /\ pipe' = pipe /\ timers' = timers
          /\ \A b \in Actor : At(b, "armLive") \/ At(b, "armIdle") => todo'[b] = todo[b]
      BY <2>3, <1>1, OthersWait DEF At
    <3> QED
      BY <3>1, WaitersSettle
  <2> QED
    BY <2>1, <2>2, <2>3 DEF Delaying
<1>2. CASE Timer
  <2>1. pipe' \in {"Live", "Idle"}
    BY <1>2 DEF Timer, TypeOK
  <2> QED
    BY <2>1 DEF PipelineSettles
<1>3. ASSUME NEW c \in Call, NEW kind \in Kinds, Begin(c, kind) PROVE PipelineSettles'
  <2>1. pipe' = pipe /\ timers' = timers
    BY <1>3 DEF Begin, outputs
  <2>2. \A b \in Actor : Busy(b) => todo'[b] = todo[b]
    BY <1>3 DEF Begin, Become, TodoOK
  <2> QED
    BY <2>1, <2>2, WaitersSettle DEF At
<1>4. ASSUME NEW s \in Schedule, ComeDue(s) PROVE PipelineSettles'
  BY <1>4, WaitersSettle DEF ComeDue, outputs
<1>5. ASSUME NEW s \in Schedule, HandleDue(s) PROVE PipelineSettles'
  <2>1. pipe' = pipe /\ timers' = timers
    BY <1>5 DEF HandleDue, outputs
  <2>2. CASE todo' = todo
    BY <2>1, <2>2, WaitersSettle
  <2>3. CASE \E u \in Task : ~Busy(u) /\ todo' = [todo EXCEPT ![u] = Broadcast]
    <3>1. \A b \in Actor : Busy(b) => todo'[b] = todo[b]
      BY <2>3 DEF TodoOK
    <3> QED
      BY <2>1, <3>1, WaitersSettle DEF At
  <2> QED
    BY <1>5, <2>2, <2>3 DEF HandleDue, Spawn
<1>6. CASE UNCHANGED vars
  BY <1>6, WaitersSettle DEF vars, outputs
<1> QED
  BY <1>1, <1>2, <1>3, <1>4, <1>5, <1>6 DEF Next, Steps, Requests, Scheduler

-----------------------------------------------------------------------------
(* The invariant.                                                          *)

\* At first nobody has anything to do, and nothing is on (state.rs, stub.rs: new).
LEMMA InitInv == Init => IInv
<1> SUFFICES ASSUME Init PROVE IInv
  OBVIOUS
<1>1. /\ todo \in [Actor -> Seq(Ops)]
      /\ \A a \in Actor : todo[a] = <<>>
  BY DEF Init, Nothing
<1>2. TodoOK
  <2>1. ASSUME NEW a \in Actor PROVE todo[a] \in Seq(OpsOf(a)) /\ Shape(todo[a])
    BY <1>1 DEF Shape, ArmNext, PlayStops
  <2> QED
    BY <1>1, <2>1 DEF TodoOK
<1>3. TypeOK
  <2>1. egress \in BOOLEAN /\ bare \in BOOLEAN /\ hls \in BOOLEAN /\ enabled \in BOOLEAN /\ asked \in BOOLEAN /\ alone \in BOOLEAN
    BY Zenon DEF Init
  <2>2. timers \in Seq({"Live", "Idle"}) /\ events \in 0..MaxEvents
    BY BoundAssumption DEF Init
  <2>3. airs \in [Task -> Schedule \cup {None}] /\ ends \in [Task -> {"loop", "stop", "standby"}]
    BY DEF Init
  <2>4. /\ pipe \in {"Idle", "Starting", "Live", "Stopping"}
        /\ intent \in Sources \cup {None} /\ active \in Schedule \cup {None}
        /\ players \in SUBSET (Task \cup {Card}) /\ due \in SUBSET Schedule
    BY DEF Init
  <2> QED
    BY <1>1, <2>1, <2>2, <2>3, <2>4, Zenon DEF TypeOK
<1>4. PipelineSettles /\ PlayersStop
  BY DEF Init, PipelineSettles, PlayersStop
<1> QED
  BY <1>2, <1>3, <1>4 DEF IInv

\* The invariant that the next three follow from: types, the shape of every list,
\* the pipeline's way out, and every running player's stop.  It holds however many
\* requests, broadcasts and schedules interleave.
THEOREM Inductive == Spec => []IInv
<1>1. IInv /\ [Next]_vars => IInv'
  BY NextType, NextTodo, SettleKept, PlayersKept DEF IInv
<1> QED
  BY InitInv, <1>1, PTL DEF Spec

\* Every variable keeps its type; in particular the active schedule is always a
\* schedule or none (playout.rs: run_broadcast, api/schedules.rs: stop).
THEOREM TypeCorrect == Spec => []TypeOK
<1>1. IInv => TypeOK
  BY DEF IInv
<1> QED
  BY <1>1, Inductive, PTL

\* The pipeline is never Starting or Stopping with nothing left to end it, for any
\* number of overlapping starts, stops and broadcasts (stub.rs: start, stop).
THEOREM NeverStuck == Spec => []PipelineSettles
<1>1. IInv => PipelineSettles
  BY DEF IInv
<1> QED
  BY <1>1, Inductive, PTL

\* No broadcast's player runs without the task that will stop it, whichever way
\* the broadcast ends or fails (playout.rs: run_broadcast).
THEOREM NoOrphans == Spec => []NoOrphanVod
<1>1. IInv => NoOrphanVod
  <2> SUFFICES ASSUME IInv, NEW t \in players, t # Card PROVE Busy(t)
    BY DEF NoOrphanVod
  <2>0. t \in Task
    BY DEF IInv, TypeOK
  <2>1. StopsAfter(todo[t], 0)
    BY <2>0 DEF IInv, PlayersStop
  <2>2. todo[t] # <<>>
    BY <2>1 DEF StopsAfter
  <2> QED
    BY <2>2 DEF Busy, Nothing
<1> QED
  BY <1>1, Inductive, PTL

-----------------------------------------------------------------------------
(* As long as no two are under way at once.                                *)

\* What asks for or sends the program, and what may drop the rest of a list.
Asks    == {"goStarting", "goStopping"}
Sends   == {"egressStart", "egressStop", "restart"}
Choices == {"ifIdle", "ifBusy", "ifBroadcasting", "run", "load", "play", "selectCard"}

\* A list asks once and sends once, both behind its choices; what arms a timer has just
\* asked for it; nothing comes behind the wait on air.
InOrder(s) ==
  \A i, j \in 1..Len(s) : i < j =>
    /\ s[i] \in Asks => s[j] \notin Asks
    /\ s[i] \in {"egressStart", "restart"} => s[j] \notin Sends
    /\ s[j] \in Choices => s[i] \notin Asks \cup Sends
    /\ s[i] # "air"
    /\ j = i + 1 /\ s[j] = "armLive" => s[i] = "goStarting"
    /\ j = i + 1 /\ s[j] = "armIdle" => s[i] = "goStopping"

Has(s, op) == \E i \in 1..Len(s) : s[i] = op

\* Whoever changes the channel does nothing else.
Channels(s) == Has(s, "toggle") => s = SetChannel

\* The egress was started and not stopped since, whether or not a destination came up.
Sending == egress \/ bare

\* What will have been asked and sent when the list is done.
WillAsk(s)  == Has(s, "goStarting") \/ (~Has(s, "goStopping") /\ asked)
WillSend(s) == Has(s, "egressStart") \/ (~Has(s, "egressStop") /\ Sending)

\* It is the same, and has been the same as long as the rest may be dropped.
Agrees(s) == /\ WillAsk(s) <=> WillSend(s)
             /\ (\E op \in Choices : Has(s, op)) => (asked <=> Sending)

Agreed == /\ \A a \in Actor : Running(a) => Agrees(todo[a])
          /\ (\A a \in Actor : ~Running(a)) => (asked <=> Sending)

\* The last timer, or the state it has left, is what was asked for.
Goal == IF asked THEN "Live" ELSE "Idle"
Arming(a) == At(a, "armLive") \/ At(a, "armIdle")
Heading ==
  /\ (\A a \in Actor : ~Arming(a)) => IF timers = <<>> THEN pipe = Goal ELSE timers[Len(timers)] = Goal
  /\ \A a \in Actor : At(a, "armLive") => asked
  /\ \A a \in Actor : At(a, "armIdle") => ~asked

\* The output of a channel that is not enabled is about to be stopped, and none is about to start.
Clears(a) == At(a, "ensureHls") \/ At(a, "hlsTake")
Channeled == /\ hls /\ ~enabled => \E a \in Actor : Clears(a)
             /\ \A a \in Actor : Has(todo[a], "hlsSet") => enabled

Ordered  == \A a \in Actor : InOrder(todo[a]) /\ Channels(todo[a])
InTurns  == ~Together /\ Agreed /\ Heading /\ Channeled
Turns    == alone => InTurns

-----------------------------------------------------------------------------
(* Lists in order.                                                         *)

\* What a list may be replaced with: it asks for what it sends, and neither arms a
\* timer nor starts the channel's output before it has asked.
Opens(r) ==
  /\ InOrder(r) /\ Channels(r) /\ ~Has(r, "hlsSet")
  /\ r # <<>> => Head(r) \notin {"armLive", "armIdle"}
  /\ Has(r, "goStarting") <=> Has(r, "egressStart")
  /\ Has(r, "goStopping") <=> Has(r, "egressStop")

\* What is done leaves a list in order, in which nothing is asked or sent again.
LEMMA RestOf ==
  ASSUME NEW S, NEW s \in Seq(S), s # <<>>, InOrder(s), Channels(s)
  PROVE  /\ Tail(s) \in Seq(S) /\ InOrder(Tail(s)) /\ Channels(Tail(s))
         /\ \A op : Has(s, op) <=> Head(s) = op \/ Has(Tail(s), op)
         /\ Head(s) \in Asks => \A op \in Asks : ~Has(Tail(s), op)
         /\ Head(s) \in {"egressStart", "restart"} => \A op \in Sends : ~Has(Tail(s), op)
         /\ Head(s) \in Asks \cup Sends => \A op \in Choices : ~Has(Tail(s), op)
         /\ Head(s) = "air" => Tail(s) = <<>>
         /\ Tail(s) # <<>> /\ Head(Tail(s)) = "armLive" => Head(s) = "goStarting"
         /\ Tail(s) # <<>> /\ Head(Tail(s)) = "armIdle" => Head(s) = "goStopping"
         /\ Head(s) = "toggle" => Tail(s) = <<"ensureHls">>
<1>1. /\ Tail(s) \in Seq(S) /\ Len(Tail(s)) = Len(s) - 1 /\ Len(s) \in Nat /\ Len(s) > 0
      /\ \A i \in 1..Len(Tail(s)) : Tail(s)[i] = s[i + 1]
      /\ Head(s) = s[1]
  OBVIOUS
<1>2. ASSUME NEW op PROVE Has(s, op) <=> Head(s) = op \/ Has(Tail(s), op)
  <2>1. ASSUME Has(s, op), Head(s) # op PROVE Has(Tail(s), op)
    <3>1. PICK i \in 1..Len(s) : s[i] = op
      BY <2>1 DEF Has
    <3>2. i # 1 /\ i - 1 \in 1..Len(Tail(s)) /\ (i - 1) + 1 = i
      BY <1>1, <2>1, <3>1
    <3>3. Tail(s)[i - 1] = op
      BY <1>1, <3>1, <3>2
    <3> QED
      BY <3>2, <3>3 DEF Has
  <2>2. ASSUME Has(Tail(s), op) PROVE Has(s, op)
    <3>1. PICK i \in 1..Len(Tail(s)) : Tail(s)[i] = op
      BY <2>2 DEF Has
    <3>2. i + 1 \in 1..Len(s) /\ s[i + 1] = op
      BY <1>1, <3>1
    <3> QED
      BY <3>2 DEF Has
  <2>3. Head(s) = op => Has(s, op)
    <3>1. 1 \in 1..Len(s)
      BY <1>1
    <3> QED
      BY <1>1, <3>1 DEF Has
  <2> QED
    BY <2>1, <2>2, <2>3
<1>3. InOrder(Tail(s))
  <2> SUFFICES ASSUME NEW i \in 1..Len(Tail(s)), NEW j \in 1..Len(Tail(s)), i < j
               PROVE  /\ Tail(s)[i] \in Asks => Tail(s)[j] \notin Asks
                      /\ Tail(s)[i] \in {"egressStart", "restart"} => Tail(s)[j] \notin Sends
                      /\ Tail(s)[j] \in Choices => Tail(s)[i] \notin Asks \cup Sends
                      /\ Tail(s)[i] # "air"
                      /\ j = i + 1 /\ Tail(s)[j] = "armLive" => Tail(s)[i] = "goStarting"
                      /\ j = i + 1 /\ Tail(s)[j] = "armIdle" => Tail(s)[i] = "goStopping"
    BY Zenon DEF InOrder
  <2>1. /\ i + 1 \in 1..Len(s) /\ j + 1 \in 1..Len(s) /\ i + 1 < j + 1
        /\ j = i + 1 => j + 1 = (i + 1) + 1
    BY <1>1
  <2>2. /\ s[i + 1] \in Asks => s[j + 1] \notin Asks
        /\ s[i + 1] \in {"egressStart", "restart"} => s[j + 1] \notin Sends
        /\ s[j + 1] \in Choices => s[i + 1] \notin Asks \cup Sends
        /\ s[i + 1] # "air"
        /\ j + 1 = (i + 1) + 1 /\ s[j + 1] = "armLive" => s[i + 1] = "goStarting"
        /\ j + 1 = (i + 1) + 1 /\ s[j + 1] = "armIdle" => s[i + 1] = "goStopping"
    BY <2>1, Zenon DEF InOrder
  <2>3. Tail(s)[i] = s[i + 1] /\ Tail(s)[j] = s[j + 1]
    BY <1>1
  <2> QED
    BY <2>1, <2>2, <2>3, Zenon
<1>4. ASSUME NEW i \in 1..Len(Tail(s))
      PROVE  /\ s[1] \in Asks => Tail(s)[i] \notin Asks
             /\ s[1] \in {"egressStart", "restart"} => Tail(s)[i] \notin Sends
             /\ Tail(s)[i] \in Choices => s[1] \notin Asks \cup Sends
             /\ s[1] # "air"
             /\ i = 1 /\ Tail(s)[i] = "armLive" => s[1] = "goStarting"
             /\ i = 1 /\ Tail(s)[i] = "armIdle" => s[1] = "goStopping"
  <2>1. 1 \in 1..Len(s) /\ i + 1 \in 1..Len(s) /\ 1 < i + 1 /\ (i = 1 => i + 1 = 1 + 1)
    BY <1>1
  <2>2. /\ s[1] \in Asks => s[i + 1] \notin Asks
        /\ s[1] \in {"egressStart", "restart"} => s[i + 1] \notin Sends
        /\ s[i + 1] \in Choices => s[1] \notin Asks \cup Sends
        /\ s[1] # "air"
        /\ i + 1 = 1 + 1 /\ s[i + 1] = "armLive" => s[1] = "goStarting"
        /\ i + 1 = 1 + 1 /\ s[i + 1] = "armIdle" => s[1] = "goStopping"
    BY <2>1, Zenon DEF InOrder
  <2>3. Tail(s)[i] = s[i + 1]
    BY <1>1
  <2> QED
    BY <2>1, <2>2, <2>3, Zenon
<1>5. Tail(s) # <<>> => 1 \in 1..Len(Tail(s)) /\ Head(Tail(s)) = Tail(s)[1]
  <2>1. \A t \in Seq(S) : t # <<>> => 1 \in 1..Len(t) /\ Head(t) = t[1]
    OBVIOUS
  <2> QED
    BY <1>1, <2>1
<1>6. Has(s, "toggle") => Tail(s) = <<"ensureHls">>
  <2>1. Tail(SetChannel) = <<"ensureHls">>
    BY DEF SetChannel
  <2> QED
    BY <2>1, Zenon DEF Channels
<1>7. Head(s) = "toggle" => Tail(s) = <<"ensureHls">>
  BY <1>2, <1>6
<1>8. Channels(Tail(s))
  <2>1. ~Has(<<"ensureHls">>, "toggle")
    BY DEF Has
  <2> QED
    BY <1>2, <1>6, <2>1 DEF Channels
<1>9. Head(s) \in Asks => \A op \in Asks : ~Has(Tail(s), op)
  BY <1>1, <1>4, Zenon DEF Has
<1>10. Head(s) \in {"egressStart", "restart"} => \A op \in Sends : ~Has(Tail(s), op)
  BY <1>1, <1>4, Zenon DEF Has
<1>11. Head(s) \in Asks \cup Sends => \A op \in Choices : ~Has(Tail(s), op)
  BY <1>1, <1>4, Zenon DEF Has
<1>12. /\ Head(s) = "air" => Tail(s) = <<>>
       /\ Tail(s) # <<>> /\ Head(Tail(s)) = "armLive" => Head(s) = "goStarting"
       /\ Tail(s) # <<>> /\ Head(Tail(s)) = "armIdle" => Head(s) = "goStopping"
  BY <1>1, <1>4, <1>5, Zenon
<1> QED
  BY <1>1, <1>2, <1>3, <1>7, <1>8, <1>9, <1>10, <1>11, <1>12

\* Nothing is left to do.
LEMMA HasNone == \A op : ~Has(<<>>, op)
  BY DEF Has

\* What an operation inserts keeps the order, and adds nothing but itself.
LEMMA InsertsKeep ==
  ASSUME NEW S, NEW s \in Seq(S), s # <<>>, InOrder(s), Channels(s),
         {"egressStop", "egressStart", "hlsTake", "hlsSet"} \subseteq S,
         NEW r \in Inserts, Head(s) \in {"restart", "ensureHls"},
         r # <<>> /\ Head(r) = "egressStop" => Head(s) = "restart"
  PROVE  /\ InOrder(r \o Tail(s)) /\ Channels(r \o Tail(s))
         /\ \A op : Has(r \o Tail(s), op) <=> Has(r, op) \/ Has(Tail(s), op)
         /\ r \o Tail(s) # <<>> => Head(r \o Tail(s)) \notin {"armLive", "armIdle"}
         /\ r # <<>> => r \o Tail(s) # <<>> /\ Head(r \o Tail(s)) = Head(r)
<1> DEFINE t == Tail(s)
           n == Len(r)
<1>1. /\ t \in Seq(S) /\ InOrder(t) /\ Channels(t)
      /\ Head(s) = "restart" => \A op \in Sends : ~Has(t, op)
      /\ t # <<>> => Head(t) \notin {"armLive", "armIdle"}
      /\ ~Has(t, "toggle")
  <2>1. ~Has(<<"ensureHls">>, "toggle")
    BY DEF Has
  <2>2. Has(s, "toggle") => Head(s) = "toggle"
    BY DEF Channels, SetChannel
  <2> QED
    BY <2>1, <2>2, RestOf, Zenon
<1>2. /\ r \in Seq(S) /\ n \in Nat
      /\ \A i \in 1..n : r[i] \in {"egressStop", "egressStart", "hlsTake", "hlsSet"}
      /\ \A i, j \in 1..n : i < j /\ r[i] = "egressStart" => FALSE
      /\ \A i \in 1..n : r[i] \in Sends => Head(s) = "restart"
      /\ r # <<>> => 1 \in 1..n /\ Head(r) = r[1]
      /\ r = <<>> \/ n > 0
  <2>1. CASE r = <<>>
    BY <2>1
  <2>2. CASE r = <<"egressStop", "egressStart">>
    BY <2>2
  <2>3. CASE r = <<"hlsTake", "hlsSet">>
    BY <2>3 DEF Sends
  <2>4. CASE r = <<"hlsTake">>
    BY <2>4 DEF Sends
  <2> QED
    BY <2>1, <2>2, <2>3, <2>4 DEF Inserts
<1>3. /\ r \o t \in Seq(S) /\ Len(r \o t) = n + Len(t) /\ Len(t) \in Nat
      /\ \A i \in 1..n : (r \o t)[i] = r[i]
      /\ \A i \in 1..Len(t) : (r \o t)[n + i] = t[i]
      /\ r = <<>> => r \o t = t
  BY <1>1, <1>2
<1>4. \A x \in Seq(S) : x # <<>> => 1 \in 1..Len(x) /\ Head(x) = x[1]
  OBVIOUS
<1> HIDE DEF t, n
<1>5. ASSUME NEW i \in 1..Len(r \o t)
      PROVE  \/ i \in 1..n /\ (r \o t)[i] = r[i]
             \/ i - n \in 1..Len(t) /\ (r \o t)[i] = t[i - n]
  <2>1. CASE i \in 1..n
    BY <1>3, <2>1
  <2>2. CASE i \notin 1..n
    <3>1. i - n \in 1..Len(t) /\ n + (i - n) = i
      BY <1>2, <1>3, <2>2
    <3> QED
      BY <1>3, <3>1
  <2> QED
    BY <2>1, <2>2
<1>6. \A op : Has(r \o t, op) <=> Has(r, op) \/ Has(t, op)
  <2> TAKE op
  <2>1. Has(r \o t, op) => Has(r, op) \/ Has(t, op)
    BY <1>5, Zenon DEF Has, n
  <2>2. Has(r, op) => Has(r \o t, op)
    <3> SUFFICES ASSUME NEW i \in 1..n, r[i] = op PROVE Has(r \o t, op)
      BY DEF Has, n
    <3>1. i \in 1..Len(r \o t)
      BY <1>2, <1>3
    <3> QED
      BY <1>3, <3>1 DEF Has
  <2>3. Has(t, op) => Has(r \o t, op)
    <3> SUFFICES ASSUME NEW i \in 1..Len(t), t[i] = op PROVE Has(r \o t, op)
      BY DEF Has
    <3>1. n + i \in 1..Len(r \o t)
      BY <1>2, <1>3
    <3> QED
      BY <1>3, <3>1 DEF Has
  <2> QED
    BY <2>1, <2>2, <2>3
<1>7. r # <<>> => r \o t # <<>> /\ Head(r \o t) = Head(r)
  <2> SUFFICES ASSUME r # <<>> PROVE r \o t # <<>> /\ Head(r \o t) = Head(r)
    OBVIOUS
  <2>1. 1 \in 1..n /\ Head(r) = r[1] /\ (r \o t)[1] = r[1] /\ Len(r \o t) > 0
    BY <1>2, <1>3
  <2>2. r \o t # <<>>
    BY <1>3, <2>1, Zenon, HasHead
  <2> QED
    BY <1>3, <1>4, <2>1, <2>2
<1>8. r \o t # <<>> => Head(r \o t) \notin {"armLive", "armIdle"}
  <2>1. CASE r = <<>>
    BY <1>1, <1>3, <2>1 DEF t
  <2>2. CASE r # <<>>
    BY <1>2, <1>7, <2>2
  <2> QED
    BY <2>1, <2>2
<1>9. InOrder(r \o t)
  <2> DEFINE u == r \o t
  <2> SUFFICES ASSUME NEW i \in 1..Len(u), NEW j \in 1..Len(u), i < j
               PROVE  /\ u[i] \in Asks => u[j] \notin Asks
                      /\ u[i] \in {"egressStart", "restart"} => u[j] \notin Sends
                      /\ u[j] \in Choices => u[i] \notin Asks \cup Sends
                      /\ u[i] # "air"
                      /\ j = i + 1 /\ u[j] = "armLive" => u[i] = "goStarting"
                      /\ j = i + 1 /\ u[j] = "armIdle" => u[i] = "goStopping"
    BY Zenon DEF InOrder
  <2>1. \/ i \in 1..n /\ u[i] = r[i]
        \/ i - n \in 1..Len(t) /\ u[i] = t[i - n]
    BY <1>5
  <2>2. \/ j \in 1..n /\ u[j] = r[j]
        \/ j - n \in 1..Len(t) /\ u[j] = t[j - n]
    BY <1>5
  <2> HIDE DEF u
  <2>3. CASE j \in 1..n /\ u[j] = r[j]
    <3>1. i \in 1..n
      BY <2>3, <1>2, <1>3 DEF u
    <3>2. u[i] = r[i]
      BY <2>1, <3>1, <1>2, <1>3
    <3> QED
      BY <1>2, <2>3, <3>1, <3>2 DEF Asks, Sends, Choices
  <2>4. CASE j - n \in 1..Len(t) /\ u[j] = t[j - n] /\ i \in 1..n /\ u[i] = r[i]
    <3>1. /\ u[j] \in Sends => Has(t, u[j])
          /\ u[i] \in {"egressStop", "egressStart", "hlsTake", "hlsSet"}
          /\ u[i] \in Sends => Head(s) = "restart"
      BY <1>2, <2>4 DEF Has
    <3>2. u[i] \in Sends => u[j] \notin Sends
      BY <1>1, <3>1, Zenon DEF t
    <3>3. u[i] \in Sends => u[j] \notin Choices
      <4>1. Head(s) = "restart" => \A op \in Choices : ~Has(t, op)
        BY RestOf, Zenon DEF t, Sends
      <4>2. Has(t, u[j])
        BY <2>4 DEF Has
      <4> QED
        BY <3>1, <4>1, <4>2
    <3>4. j = i + 1 => u[j] \notin {"armLive", "armIdle"}
      <4> SUFFICES ASSUME j = i + 1 PROVE u[j] \notin {"armLive", "armIdle"}
        OBVIOUS
      <4>1. j - n = 1 /\ Len(t) > 0
        BY <2>4, <1>2, <1>3
      <4>2. t # <<>> /\ Head(t) = t[1]
        BY <1>1, <4>1, HasHead DEF t
      <4> QED
        BY <1>1, <2>4, <4>1, <4>2 DEF t
    <3> QED
      BY <3>1, <3>2, <3>3, <3>4 DEF Asks, Sends
  <2>5. CASE j - n \in 1..Len(t) /\ u[j] = t[j - n] /\ i - n \in 1..Len(t) /\ u[i] = t[i - n]
    <3>1. i - n < j - n /\ (j = i + 1 => j - n = (i - n) + 1)
      BY <1>2
    <3>2. /\ t[i - n] \in Asks => t[j - n] \notin Asks
          /\ t[i - n] \in {"egressStart", "restart"} => t[j - n] \notin Sends
          /\ t[j - n] \in Choices => t[i - n] \notin Asks \cup Sends
          /\ t[i - n] # "air"
          /\ j - n = (i - n) + 1 /\ t[j - n] = "armLive" => t[i - n] = "goStarting"
          /\ j - n = (i - n) + 1 /\ t[j - n] = "armIdle" => t[i - n] = "goStopping"
      BY <1>1, <2>5, <3>1, Zenon DEF InOrder
    <3> QED
      BY <2>5, <3>1, <3>2, Zenon
  <2> QED
    BY <2>1, <2>2, <2>3, <2>4, <2>5
<1>10. Channels(r \o t)
  <2>1. ~Has(r, "toggle")
    BY <1>2 DEF Has, n
  <2> QED
    BY <1>1, <1>6, <2>1 DEF Channels, t
<1> QED
  BY <1>6, <1>7, <1>8, <1>9, <1>10 DEF t

\* The lists of the handlers, of a broadcast and of its ends are in order, and ask for
\* what they send (stream.rs, output.rs, channel.rs, playout.rs).
LEMMA Openings ==
  \A r \in {<<>>, Start, Stop, SetOutput, SetChannel, <<"restart">>, <<"run">>, StopSchedule, Broadcast,
            <<"ensureHls">>, <<"deactivate">>, <<"unplay">>, EndStop, EndStandby} : Opens(r)
<1> USE DEF Opens, InOrder, Channels, Has, Asks, Sends, Choices
<1>1. Opens(<<>>)
  OBVIOUS
<1>2. Opens(Start)
  BY DEF Start
<1>3. Opens(Stop)
  BY DEF Stop
<1>4. Opens(SetOutput)
  BY DEF SetOutput
<1>5. Opens(SetChannel)
  BY DEF SetChannel
<1>6. Opens(<<"restart">>) /\ Opens(<<"run">>) /\ Opens(<<"ensureHls">>) /\ Opens(<<"deactivate">>) /\ Opens(<<"unplay">>)
  OBVIOUS
<1>7. Opens(StopSchedule)
  BY DEF StopSchedule
<1>8. Opens(Broadcast)
  BY DEF Broadcast
<1>9. Opens(EndStop)
  BY DEF EndStop, StopSchedule
<1>10. Opens(EndStandby)
  BY DEF EndStandby
<1> HIDE DEF Opens, InOrder, Channels, Has, Asks, Sends, Choices
<1> QED
  BY <1>1, <1>2, <1>3, <1>4, <1>5, <1>6, <1>7, <1>8, <1>9, <1>10

-----------------------------------------------------------------------------
(* What a step does to a list and to the outputs.                          *)

signal == <<pipe, timers, egress, bare, hls, enabled, asked>>

\* The first operation is done; it puts others in its place; or lists of actors that
\* are idle, at a choice or on air are replaced.
Proceeds(a) == Busy(a) /\ Done(a) /\ Head(todo[a]) \notin {"restart", "ensureHls", "air"}
Splices(a) ==
  /\ UNCHANGED signal
  /\ \/ At(a, "restart") /\ (Insert(a, <<>>) \/ (egress /\ Insert(a, <<"egressStop", "egressStart">>)))
     \/ At(a, "ensureHls") /\ (Insert(a, <<"hlsTake">>) \/ (enabled /\ Insert(a, <<"hlsTake", "hlsSet">>)))
Replaced(b) == /\ ~Busy(b) \/ Head(todo[b]) \in Choices \cup {"air"}
               /\ Opens(todo'[b])
Replaces    == UNCHANGED signal /\ \A b \in Actor : todo'[b] = todo[b] \/ Replaced(b)

\* Every operation is one of the three.
LEMMA StepKinds ==
  ASSUME TodoOK, NEW a \in Actor, Step(a)
  PROVE  Proceeds(a) \/ Splices(a) \/ Replaces
<1> USE DEF At, outputs
<1>0. todo \in [Actor -> Seq(Ops)]
  BY DEF TodoOK
<1>1. ASSUME NEW r, Become(a, r), Opens(r), Busy(a), Head(todo[a]) \in Choices \cup {"air"}, UNCHANGED signal
      PROVE  Replaces
  BY <1>0, <1>1 DEF Become, Replaces, Replaced
<1>2. Opens(Nothing) /\ Opens(<<"ensureHls">>) /\ Opens(<<"deactivate">>) /\ Opens(<<"unplay">>)
      /\ Opens(EndStop) /\ Opens(EndStandby) /\ Opens(Broadcast)
  BY Openings DEF Nothing
<1>3. CASE GoStarting(a) \/ GoStopping(a) \/ Arm(a) \/ Egress(a) \/ Hls(a) \/ Toggle(a) \/ Select(a)
           \/ Activate(a) \/ Unplay(a)
  BY <1>3 DEF GoStarting, GoStopping, Arm, Egress, Hls, Toggle, Select, Activate, Unplay, Proceeds
<1>4. CASE IfIdle(a) \/ IfBusy(a) \/ IfBroadcasting(a)
  <2>1. /\ Busy(a) /\ Head(todo[a]) \in {"ifIdle", "ifBusy", "ifBroadcasting"} /\ UNCHANGED signal
        /\ Done(a) \/ Become(a, Nothing) \/ Become(a, <<"ensureHls">>)
    BY <1>4, Zenon DEF IfIdle, IfBusy, IfBroadcasting, signal
  <2> QED
    BY <1>1, <1>2, <2>1 DEF Proceeds, Choices
<1>5. CASE Load(a) \/ Play(a) \/ SelectCard(a)
  <2>1. /\ Busy(a) /\ Head(todo[a]) \in {"load", "play", "selectCard"} /\ UNCHANGED signal
        /\ Done(a) \/ Become(a, Nothing) \/ Become(a, <<"deactivate">>)
    BY <1>5, Zenon DEF Load, Play, SelectCard, signal
  <2> QED
    BY <1>1, <1>2, <2>1 DEF Proceeds, Choices
<1>6. CASE Deactivated(a) \/ PlayedOut(a)
  <2>1. /\ Busy(a) /\ Head(todo[a]) = "air" /\ UNCHANGED signal
        /\ Become(a, <<"unplay">>) \/ Become(a, EndStop) \/ Become(a, EndStandby)
    BY <1>6 DEF Deactivated, PlayedOut, signal
  <2> QED
    BY <1>1, <1>2, <2>1
<1>7. CASE Restart(a)
  BY <1>7 DEF Restart, Splices, signal, Nothing
<1>8. CASE EnsureHls(a)
  BY <1>8 DEF EnsureHls, Splices, signal
<1>9. CASE Run(a)
  <2>1. Busy(a) /\ Head(todo[a]) = "run" /\ UNCHANGED signal
    BY <1>9 DEF Run, signal
  <2>2. CASE Become(a, Nothing)
    BY <1>1, <1>2, <2>1, <2>2 DEF Choices
  <2>3. CASE \E t \in Task : ~Busy(t) /\ todo' = [todo EXCEPT ![a] = Nothing, ![t] = Broadcast]
    <3>1. PICK t \in Task : ~Busy(t) /\ todo' = [todo EXCEPT ![a] = Nothing, ![t] = Broadcast]
      BY <2>3
    <3>2. ASSUME NEW b \in Actor PROVE todo'[b] = todo[b] \/ Replaced(b)
      <4>1. CASE b = t
        BY <1>0, <1>2, <3>1, <4>1 DEF Replaced
      <4>2. CASE b # t /\ b = a
        BY <1>0, <1>2, <2>1, <3>1, <4>2 DEF Replaced, Choices
      <4>3. CASE b # t /\ b # a
        BY <1>0, <3>1, <4>3
      <4> QED
        BY <4>1, <4>2, <4>3
    <3> QED
      BY <2>1, <3>2 DEF Replaces
  <2> QED
    BY <1>9, <2>2, <2>3 DEF Run, Spawn
<1> QED
  BY <1>3, <1>4, <1>5, <1>6, <1>7, <1>8, <1>9 DEF Step, Pipeline, Outputs, Playout

\* What begins, and what comes due, replaces idle actors' lists.
LEMMA OtherKinds ==
  ASSUME TodoOK, Requests \/ Scheduler
  PROVE  Replaces
<1>0. todo \in [Actor -> Seq(Ops)]
  BY DEF TodoOK
<1>1. ASSUME NEW x \in Actor, NEW r, ~Busy(x), todo' = [todo EXCEPT ![x] = r], Opens(r), UNCHANGED signal
      PROVE  Replaces
  BY <1>0, <1>1 DEF Replaces, Replaced
<1>2. ASSUME NEW c \in Call, NEW k \in Kinds, Begin(c, k) PROVE Replaces
  <2>1. ~Busy(c) /\ todo' = [todo EXCEPT ![c] = Script(k)] /\ UNCHANGED signal /\ c \in Actor
    BY <1>2 DEF Begin, Become, outputs, signal, Actor
  <2>2. Opens(Script(k))
    <3>1. Script(k) \in {Start, Stop, SetOutput, SetChannel, <<"restart">>, <<"run">>, StopSchedule}
      BY BoundAssumption DEF Script
    <3> QED
      BY <3>1, Openings
  <2> QED
    BY <1>1, <2>1, <2>2
<1>3. ASSUME NEW s \in Schedule, ComeDue(s) PROVE Replaces
  BY <1>3 DEF ComeDue, outputs, signal, Replaces
<1>4. ASSUME NEW s \in Schedule, HandleDue(s) PROVE Replaces
  <2>1. UNCHANGED signal
    BY <1>4 DEF HandleDue, outputs, signal
  <2>2. CASE todo' = todo
    BY <2>1, <2>2 DEF Replaces
  <2>3. CASE \E t \in Task : ~Busy(t) /\ todo' = [todo EXCEPT ![t] = Broadcast]
    BY <1>1, <2>1, <2>3, Openings DEF Actor
  <2> QED
    BY <1>4, <2>2, <2>3 DEF HandleDue, Spawn
<1> QED
  BY <1>2, <1>3, <1>4 DEF Requests, Scheduler

\* What is inserted, and where.
LEMMA SplicesInsert ==
  ASSUME NEW a \in Actor, Splices(a)
  PROVE  \E r \in Inserts : /\ Insert(a, r) /\ Busy(a) /\ Head(todo[a]) \in {"restart", "ensureHls"}
                            /\ r # <<>> /\ Head(r) = "egressStop" => Head(todo[a]) = "restart"
<1>1. CASE At(a, "restart")
  <2>1. Insert(a, <<>>) \/ Insert(a, <<"egressStop", "egressStart">>)
    BY <1>1 DEF Splices, At
  <2> QED
    BY <1>1, <2>1 DEF Inserts, At
<1>2. CASE At(a, "ensureHls")
  <2>1. Insert(a, <<"hlsTake">>) \/ Insert(a, <<"hlsTake", "hlsSet">>)
    BY <1>2 DEF Splices, At
  <2> QED
    BY <1>2, <2>1 DEF Inserts, At
<1> QED
  BY <1>1, <1>2 DEF Splices

\* Every list stays in order.
LEMMA OrderedKept == ASSUME TodoOK, Ordered, [Next]_vars PROVE Ordered'
<1>0. todo \in [Actor -> Seq(Ops)]
  BY DEF TodoOK
<1>1. CASE todo' = todo
  BY <1>1 DEF Ordered
<1>2. CASE Replaces
  BY <1>2 DEF Replaces, Replaced, Opens, Ordered
<1>3. ASSUME NEW a \in Actor, NEW r, todo' = [todo EXCEPT ![a] = r], InOrder(r), Channels(r) PROVE Ordered'
  BY <1>0, <1>3 DEF Ordered
<1>4. ASSUME NEW a \in Actor, Proceeds(a) PROVE Ordered'
  <2>1. todo[a] \in Seq(Ops) /\ todo[a] # <<>> /\ todo' = [todo EXCEPT ![a] = Tail(todo[a])]
    BY <1>0, <1>4 DEF Proceeds, Done, Busy, Nothing
  <2>2. InOrder(Tail(todo[a])) /\ Channels(Tail(todo[a]))
    BY <2>1, RestOf DEF Ordered
  <2> QED
    BY <1>3, <2>1, <2>2
<1>5. ASSUME NEW a \in Actor, Splices(a) PROVE Ordered'
  <2>1. PICK r \in Inserts : /\ Insert(a, r) /\ Busy(a) /\ Head(todo[a]) \in {"restart", "ensureHls"}
                             /\ r # <<>> /\ Head(r) = "egressStop" => Head(todo[a]) = "restart"
    BY <1>5, SplicesInsert
  <2>2. todo[a] \in Seq(Ops) /\ todo[a] # <<>> /\ todo' = [todo EXCEPT ![a] = r \o Tail(todo[a])]
    BY <1>0, <2>1 DEF Insert, Busy, Nothing
  <2>3. {"egressStop", "egressStart", "hlsTake", "hlsSet"} \subseteq Ops
    BY DEF Ops
  <2>4. InOrder(r \o Tail(todo[a])) /\ Channels(r \o Tail(todo[a]))
    BY <2>1, <2>2, <2>3, InsertsKeep DEF Ordered
  <2> QED
    BY <1>3, <2>2, <2>4
<1>6. ASSUME NEW a \in Actor, Step(a) PROVE Ordered'
  BY <1>2, <1>4, <1>5, <1>6, StepKinds
<1>7. CASE Requests \/ Scheduler
  BY <1>2, <1>7, OtherKinds
<1> QED
  BY <1>1, <1>6, <1>7 DEF Next, Steps, Timer, vars

LEMMA SendingKept == ASSUME UNCHANGED <<egress, bare>> PROVE Sending' = Sending
BY Zenon DEF Sending

\* What an operation that is done does to the outputs.
LEMMA StepEffects ==
  ASSUME NEW a \in Actor, Step(a), NEW op, op = Head(todo[a])
  PROVE  /\ IF op = "goStarting" THEN asked' = TRUE ELSE IF op = "goStopping" THEN asked' = FALSE ELSE asked' = asked
         /\ IF op = "egressStart" THEN Sending' = TRUE ELSE IF op = "egressStop" THEN Sending' = FALSE ELSE Sending' = Sending
         /\ IF op = "hlsSet" THEN hls' \in {hls, TRUE} ELSE IF op = "hlsTake" THEN hls' = FALSE ELSE hls' = hls
         /\ op = "toggle" \/ enabled' = enabled
         /\ IF op = "armLive" THEN timers' = Append(timers, "Live")
            ELSE IF op = "armIdle" THEN timers' = Append(timers, "Idle") ELSE timers' = timers
         /\ op \in Asks \/ pipe' = pipe
<1> USE DEF At, outputs, Asks
<1>1. CASE GoStarting(a)
  BY <1>1, SendingKept DEF GoStarting
<1>2. CASE GoStopping(a)
  BY <1>2, SendingKept DEF GoStopping
<1>3. CASE Arm(a)
  BY <1>3, SendingKept DEF Arm
<1>4. CASE IfIdle(a) \/ IfBusy(a) \/ IfBroadcasting(a)
  BY <1>4, SendingKept DEF IfIdle, IfBusy, IfBroadcasting
<1>5. CASE Egress(a)
  <2>1. (op = "egressStart" /\ Sending') \/ (op = "egressStop" /\ ~Sending')
    BY <1>5, Zenon DEF Egress, Sending
  <2>2. Sending' \in BOOLEAN
    BY Zenon DEF Sending
  <2> QED
    BY <1>5, <2>1, <2>2 DEF Egress
<1>6. CASE Restart(a) \/ EnsureHls(a)
  BY <1>6, SendingKept DEF Restart, EnsureHls
<1>7. CASE Hls(a)
  BY <1>7, SendingKept DEF Hls
<1>8. CASE Toggle(a)
  BY <1>8, SendingKept DEF Toggle
<1>9. CASE Select(a)
  BY <1>9, SendingKept DEF Select
<1>10. CASE Run(a) \/ Load(a) \/ Activate(a) \/ Play(a)
  BY <1>10, SendingKept DEF Run, Load, Activate, Play
<1>11. CASE Deactivated(a) \/ PlayedOut(a) \/ Unplay(a) \/ SelectCard(a)
  BY <1>11, SendingKept DEF Deactivated, PlayedOut, Unplay, SelectCard
<1> QED
  BY <1>1, <1>2, <1>3, <1>4, <1>5, <1>6, <1>7, <1>8, <1>9, <1>10, <1>11 DEF Step, Pipeline, Outputs, Playout

\* Whoever is not under way has nothing to do but to wait on air.
LEMMA RestedLists ==
  ASSUME NEW s \in Seq(Ops), InOrder(s), Channels(s), s = <<>> \/ Head(s) = "air"
  PROVE  \A op \in Asks \cup Sends \cup Choices \cup {"hlsSet"} : ~Has(s, op)
<1>1. CASE s = <<>>
  BY <1>1, HasNone
<1>2. CASE s # <<>> /\ Head(s) = "air"
  <2>1. Tail(s) = <<>> /\ \A op : Has(s, op) <=> "air" = op \/ Has(<<>>, op)
    BY <1>2, RestOf
  <2> QED
    BY <2>1, HasNone DEF Asks, Sends, Choices
<1> QED
  BY <1>1, <1>2

\* So nobody who waits asks, sends, arms a timer or clears the output.
LEMMA WaitersDone ==
  ASSUME TodoOK, Ordered, NEW b \in Actor, ~Running(b)
  PROVE  /\ \A op \in Asks \cup Sends \cup Choices \cup {"hlsSet"} : ~Has(todo[b], op)
         /\ ~Arming(b) /\ ~Clears(b)
<1>1. /\ todo[b] \in Seq(Ops) /\ InOrder(todo[b]) /\ Channels(todo[b])
      /\ todo[b] = <<>> \/ Head(todo[b]) = "air"
  BY DEF TodoOK, Ordered, Running, Busy, Nothing
<1>2. ~Arming(b) /\ ~Clears(b)
  BY <1>1 DEF Arming, Clears, At, Busy, Nothing
<1> QED
  BY <1>1, <1>2, RestedLists

\* One is under way, before and after an operation that is done or makes others.
LEMMA OneRuns ==
  ASSUME TodoOK, Ordered, ~Together, NEW a \in Actor, Proceeds(a) \/ Splices(a)
  PROVE  /\ Running(a) /\ todo[a] \in Seq(Ops) /\ todo[a] # <<>>
         /\ \A b \in Actor : b # a => ~Running(b) /\ ~Running(b)' /\ todo'[b] = todo[b]
         /\ Proceeds(a) => todo'[a] = Tail(todo[a])
         /\ \A r : Splices(a) /\ Insert(a, r) => todo'[a] = r \o Tail(todo[a])
<1>0. todo \in [Actor -> Seq(Ops)]
  BY DEF TodoOK
<1>1. Running(a) /\ todo[a] \in Seq(Ops) /\ todo[a] # <<>>
  BY <1>0 DEF Proceeds, Splices, At, Running, Busy, Nothing
<1>2. Done(a) \/ \E r : Insert(a, r)
  BY DEF Proceeds, Splices
<1>3. \A b \in Actor : b # a => todo'[b] = todo[b]
  BY <1>0, <1>2 DEF Done, Insert
<1>4. \A b \in Actor : b # a => ~Running(b)
  BY <1>1 DEF Together
<1>5. \A b \in Actor : b # a => ~Running(b)'
  BY <1>3, <1>4 DEF Running, Busy
<1> QED
  BY <1>0, <1>1, <1>3, <1>4, <1>5 DEF Proceeds, Done, Insert

\* What is asked and what is sent agree when a list is done as they did before.
LEMMA EndsAgreed ==
  ASSUME TodoOK', Ordered', NEW a \in Actor, Agrees(todo[a])', \A b \in Actor : b # a => ~Running(b)'
  PROVE  Agreed'
<1>1. ASSUME ~Running(a)' PROVE asked' <=> Sending'
  <2>1. /\ todo'[a] \in Seq(Ops) /\ InOrder(todo'[a]) /\ Channels(todo'[a])
        /\ todo'[a] = <<>> \/ Head(todo'[a]) = "air"
    BY <1>1 DEF TodoOK, Ordered, Running, Busy, Nothing
  <2>2. \A op \in Asks \cup Sends : ~Has(todo'[a], op)
    BY <2>1, RestedLists
  <2> QED
    BY <2>2 DEF Agrees, WillAsk, WillSend, Asks, Sends
<1> QED
  BY <1>1 DEF Agreed

\* The list that is left agrees with what the operation has done.
LEMMA ProceedsAgreed ==
  ASSUME TodoOK, Ordered, ~Together, Agreed, NEW a \in Actor, Step(a), Proceeds(a)
  PROVE  Agrees(todo[a])'
<1> DEFINE s == todo[a]
           t == Tail(todo[a])
           op == Head(todo[a])
<1>1. Running(a) /\ s \in Seq(Ops) /\ s # <<>> /\ todo'[a] = t /\ Agrees(s)
  BY OneRuns DEF Agreed
<1>2. /\ \A x : Has(s, x) <=> op = x \/ Has(t, x)
      /\ op \in Asks => \A x \in Asks : ~Has(t, x)
      /\ op \in {"egressStart", "restart"} => \A x \in Sends : ~Has(t, x)
      /\ op \in Asks \cup Sends => \A x \in Choices : ~Has(t, x)
  BY <1>1, RestOf DEF Ordered
<1>3. /\ IF op = "goStarting" THEN asked' = TRUE ELSE IF op = "goStopping" THEN asked' = FALSE ELSE asked' = asked
      /\ IF op = "egressStart" THEN Sending' = TRUE ELSE IF op = "egressStop" THEN Sending' = FALSE ELSE Sending' = Sending
  BY StepEffects
<1> HIDE DEF s, t, op
<1>4. (Has(t, "goStarting") \/ (~Has(t, "goStopping") /\ asked')) <=> WillAsk(s)
  <2>1. CASE op = "goStarting"
    BY <1>2, <1>3, <2>1, Zenon DEF WillAsk, Asks
  <2>2. CASE op = "goStopping"
    <3>1. ~asked' /\ ~Has(t, "goStarting") /\ ~Has(s, "goStarting") /\ Has(s, "goStopping")
      BY <1>2, <1>3, <2>2 DEF Asks
    <3> QED
      BY <3>1, Zenon DEF WillAsk
  <2>3. CASE op \notin Asks
    <3>1. asked' = asked /\ op # "goStarting" /\ op # "goStopping"
      BY <1>3, <2>3 DEF Asks
    <3> QED
      BY <1>2, <3>1, Zenon DEF WillAsk
  <2> QED
    BY <2>1, <2>2, <2>3 DEF Asks
<1>5. (Has(t, "egressStart") \/ (~Has(t, "egressStop") /\ Sending')) <=> WillSend(s)
  <2>1. CASE op = "egressStart"
    BY <1>2, <1>3, <2>1, Zenon DEF WillSend, Sends
  <2>2. CASE op = "egressStop"
    <3>1. ~Sending' /\ Has(s, "egressStop") /\ (Has(s, "egressStart") <=> Has(t, "egressStart"))
      BY <1>2, <1>3, <2>2
    <3> QED
      BY <3>1, Zenon DEF WillSend
  <2>3. CASE op \notin {"egressStart", "egressStop"}
    <3>1. Sending' = Sending /\ op # "egressStart" /\ op # "egressStop"
      BY <1>3, <2>3
    <3> QED
      BY <1>2, <3>1, Zenon DEF WillSend
  <2> QED
    BY <2>1, <2>2, <2>3
<1>6. (\E x \in Choices : Has(t, x)) => (asked' <=> Sending')
  <2> SUFFICES ASSUME NEW x \in Choices, Has(t, x) PROVE asked' <=> Sending'
    OBVIOUS
  <2>1. op \notin Asks \cup Sends /\ Has(s, x)
    BY <1>2
  <2>2. asked' = asked /\ Sending' = Sending
    BY <1>3, <2>1 DEF Asks, Sends
  <2>3. asked <=> Sending
    BY <1>1, <2>1 DEF Agrees
  <2> QED
    BY <2>2, <2>3, Zenon
<1>7. WillAsk(s) <=> WillSend(s)
  BY <1>1 DEF Agrees
<1>8. todo'[a] = t
  BY <1>1
<1> QED
  BY <1>4, <1>5, <1>6, <1>7, <1>8, Zenon DEF Agrees, WillAsk, WillSend

\* What is inserted changes nothing of that.
LEMMA SplicesAgreed ==
  ASSUME TodoOK, Ordered, ~Together, Agreed, NEW a \in Actor, Splices(a)
  PROVE  Agrees(todo[a])'
<1> DEFINE s == todo[a]
           t == Tail(todo[a])
<1>1. Running(a) /\ s \in Seq(Ops) /\ s # <<>> /\ Agrees(s)
  BY OneRuns DEF Agreed
<1>2. /\ \A x : Has(s, x) <=> Head(s) = x \/ Has(t, x)
      /\ Head(s) = "restart" => \A x \in Sends : ~Has(t, x)
  BY <1>1, RestOf DEF Ordered
<1>3. PICK r \in Inserts : /\ Insert(a, r) /\ Busy(a) /\ Head(s) \in {"restart", "ensureHls"}
                           /\ r # <<>> /\ Head(r) = "egressStop" => Head(s) = "restart"
                           /\ r = <<"egressStop", "egressStart">> => Sending
  <2>0. egress => Sending
    BY Zenon DEF Sending
  <2>1. CASE At(a, "restart")
    BY <2>0, <2>1 DEF Splices, At, Inserts
  <2>2. CASE At(a, "ensureHls")
    BY <2>2 DEF Splices, At, Inserts
  <2> QED
    BY <2>1, <2>2 DEF Splices
<1>4. todo'[a] = r \o t /\ \A x : Has(r \o t, x) <=> Has(r, x) \/ Has(t, x)
  <2>1. {"egressStop", "egressStart", "hlsTake", "hlsSet"} \subseteq Ops /\ InOrder(s) /\ Channels(s)
    BY DEF Ops, Ordered
  <2> QED
    BY <1>1, <1>3, <2>1, OneRuns, InsertsKeep
<1>5. /\ \A x \in Asks \cup Choices : ~Has(r, x)
      /\ r # <<"egressStop", "egressStart">> => ~Has(r, "egressStart") /\ ~Has(r, "egressStop")
      /\ r = <<"egressStop", "egressStart">> => Head(s) = "restart" /\ Has(r, "egressStart")
  <2>1. CASE r = <<>>
    BY <2>1, HasNone
  <2>2. CASE r = <<"egressStop", "egressStart">>
    <3>1. r # <<>> /\ Head(r) = "egressStop"
      BY <2>2
    <3>2. \A x : Has(r, x) => x \in {"egressStop", "egressStart"}
      BY <2>2 DEF Has
    <3>3. Has(r, "egressStart")
      BY <2>2 DEF Has
    <3> QED
      BY <1>3, <2>2, <3>1, <3>2, <3>3 DEF Asks, Choices
  <2>3. CASE r \in {<<"hlsTake", "hlsSet">>, <<"hlsTake">>}
    <3>1. \A x : Has(r, x) => x \in {"hlsTake", "hlsSet"}
      BY <2>3 DEF Has
    <3>2. r # <<"egressStop", "egressStart">>
      BY <2>3
    <3> QED
      BY <3>1, <3>2 DEF Asks, Choices
  <2> QED
    BY <2>1, <2>2, <2>3 DEF Inserts
<1> HIDE DEF s, t
<1>6. asked' = asked /\ Sending' = Sending
  BY SendingKept DEF Splices, signal
<1>7. WillAsk(r \o t) <=> WillAsk(s)
  <2>1. \A x \in {"goStarting", "goStopping"} : Has(r \o t, x) <=> Has(s, x)
    BY <1>2, <1>3, <1>4, <1>5 DEF Asks
  <2> QED
    BY <2>1 DEF WillAsk
<1>8. WillSend(r \o t) <=> WillSend(s)
  <2>1. CASE r = <<"egressStop", "egressStart">>
    BY <1>2, <1>3, <1>4, <1>5, <2>1 DEF WillSend, Sends
  <2>2. CASE r # <<"egressStop", "egressStart">>
    <3>1. \A x \in {"egressStart", "egressStop"} : Has(r \o t, x) <=> Has(s, x)
      BY <1>2, <1>3, <1>4, <1>5, <2>2
    <3> QED
      BY <3>1 DEF WillSend
  <2> QED
    BY <2>1, <2>2
<1>9. Agrees(r \o t)
  <2>1. \A x \in Choices : Has(r \o t, x) => Has(s, x)
    BY <1>2, <1>4, <1>5
  <2> QED
    BY <1>1, <1>7, <1>8, <2>1 DEF Agrees
<1>10. todo'[a] = r \o t
  BY <1>4
<1> QED
  BY <1>6, <1>9, <1>10, Zenon DEF Agrees, WillAsk, WillSend

\* As asked, so the timers end.
LEMMA ProceedsHeading ==
  ASSUME TypeOK, TodoOK, Ordered, ~Together, Heading, NEW a \in Actor, Step(a), Proceeds(a)
  PROVE  Heading'
<1> DEFINE s == todo[a]
           t == Tail(todo[a])
           op == Head(todo[a])
<1>1. /\ Running(a) /\ s \in Seq(Ops) /\ s # <<>> /\ todo'[a] = t /\ s[1] = op /\ 1 \in 1..Len(s)
      /\ \A b \in Actor : b # a => ~Arming(b) /\ ~Arming(b)'
  <2>1. /\ Running(a) /\ s \in Seq(Ops) /\ s # <<>> /\ todo'[a] = t
        /\ \A b \in Actor : b # a => ~Running(b) /\ todo'[b] = todo[b]
    BY OneRuns
  <2>2. \A b \in Actor : b # a => ~Arming(b) /\ ~Arming(b)'
    BY <2>1, WaitersDone DEF Arming, At, Busy
  <2> QED
    BY <2>1, <2>2
<1>2. /\ t \in Seq(Ops)
      /\ t # <<>> /\ Head(t) = "armLive" => op = "goStarting"
      /\ t # <<>> /\ Head(t) = "armIdle" => op = "goStopping"
  BY <1>1, RestOf DEF Ordered
<1>3. /\ IF op = "goStarting" THEN asked' = TRUE ELSE IF op = "goStopping" THEN asked' = FALSE ELSE asked' = asked
      /\ IF op = "armLive" THEN timers' = Append(timers, "Live")
         ELSE IF op = "armIdle" THEN timers' = Append(timers, "Idle") ELSE timers' = timers
      /\ op \in Asks \/ pipe' = pipe
  BY StepEffects
<1>4. At(a, "armLive")' => asked'
  BY <1>1, <1>2, <1>3 DEF At, Busy, Nothing
<1>5. At(a, "armIdle")' => ~asked'
  BY <1>1, <1>2, <1>3 DEF At, Busy, Nothing
<1>6. CASE op \in Asks
  <2>1. 1 < Len(s) /\ s[1 + 1] \in {"armLive", "armIdle"}
    <3>1. Shape(s)
      BY DEF TodoOK
    <3> QED
      BY <1>1, <1>6, <3>1 DEF Shape, ArmNext, Asks
  <2>2. Arming(a)'
    <3>1. t # <<>> /\ Head(t) = s[2]
      BY <1>1, <2>1, NextHead
    <3> QED
      BY <1>1, <2>1, <3>1 DEF Arming, At, Busy, Nothing
  <2>3. \A b \in Actor : At(b, "armLive")' => asked'
    BY <1>1, <1>4 DEF Arming
  <2>4. \A b \in Actor : At(b, "armIdle")' => ~asked'
    BY <1>1, <1>5 DEF Arming
  <2> QED
    BY <2>2, <2>3, <2>4 DEF Heading
<1>7. CASE op \notin Asks
  <2>1. asked' = asked /\ pipe' = pipe /\ \A b \in Actor : ~Arming(b)'
    BY <1>1, <1>2, <1>3, <1>7 DEF Asks, Arming, At, Busy, Nothing
  <2>2. Goal' = Goal
    BY <2>1, Zenon DEF Goal
  <2>3. IF timers' = <<>> THEN pipe' = Goal ELSE timers'[Len(timers')] = Goal
    <3>1. CASE op \in {"armLive", "armIdle"}
      <4>1. PICK e \in {"Live", "Idle"} : timers' = Append(timers, e) /\ op = IF e = "Live" THEN "armLive" ELSE "armIdle"
        BY <1>3, <3>1
      <4>2. e = Goal
        BY <1>1, <4>1 DEF Heading, At, Goal, Running
      <4>3. timers \in Seq({"Live", "Idle"})
        BY DEF TypeOK
      <4>4. \A q \in Seq({"Live", "Idle"}) : Append(q, e) # <<>> /\ Append(q, e)[Len(Append(q, e))] = e
        OBVIOUS
      <4> QED
        BY <4>1, <4>2, <4>3, <4>4, Zenon
    <3>2. CASE op \notin {"armLive", "armIdle"}
      <4>1. timers' = timers /\ \A b \in Actor : ~Arming(b)
        BY <1>1, <1>3, <3>2 DEF Arming, At
      <4> QED
        BY <2>1, <4>1 DEF Heading
    <3> QED
      BY <3>1, <3>2
  <2> QED
    BY <2>1, <2>2, <2>3 DEF Heading, Arming
<1> QED
  BY <1>6, <1>7

\* What is last stays last.
LEMMA LastStays ==
  ASSUME NEW S, NEW q \in Seq(S), q # <<>>
  PROVE  IF Tail(q) = <<>> THEN Head(q) = q[Len(q)] ELSE Tail(q)[Len(Tail(q))] = q[Len(q)]
<1>1. /\ Tail(q) \in Seq(S) /\ Len(Tail(q)) = Len(q) - 1 /\ Len(q) \in Nat /\ Len(q) > 0
      /\ \A i \in 1..Len(Tail(q)) : Tail(q)[i] = q[i + 1]
      /\ Head(q) = q[1]
  OBVIOUS
<1>2. Tail(q) # <<>> <=> Len(Tail(q)) > 0
  <2>1. \A u \in Seq(S) : u # <<>> <=> Len(u) > 0
    OBVIOUS
  <2> QED
    BY <1>1, <2>1
<1>3. CASE Tail(q) = <<>>
  <2>1. Len(q) = 1
    BY <1>1, <1>2, <1>3
  <2> QED
    BY <1>1, <1>3, <2>1
<1>4. CASE Tail(q) # <<>>
  <2>1. Len(Tail(q)) \in 1..Len(Tail(q)) /\ Len(Tail(q)) + 1 = Len(q)
    BY <1>1, <1>2, <1>4
  <2>2. Tail(q)[Len(Tail(q))] = q[Len(q)]
    BY <1>1, <2>1
  <2> QED
    BY <1>4, <2>2
<1> QED
  BY <1>3, <1>4

\* The last timer is the last to fire.
LEMMA TimerHeading ==
  ASSUME TypeOK, Heading, Timer
  PROVE  Heading'
<1>1. /\ timers \in Seq({"Live", "Idle"}) /\ timers # <<>> /\ pipe' = Head(timers) /\ timers' = Tail(timers)
      /\ todo' = todo /\ asked' = asked
  BY DEF TypeOK, Timer
<1>2. \A b \in Actor : \A op : At(b, op)' = At(b, op)
  BY <1>1, Zenon DEF At, Busy
<1>3. Goal' = Goal
  BY <1>1, Zenon DEF Goal
<1>4. ASSUME timers[Len(timers)] = Goal
      PROVE  IF timers' = <<>> THEN pipe' = Goal ELSE timers'[Len(timers')] = Goal
  <2>1. IF Tail(timers) = <<>> THEN Head(timers) = timers[Len(timers)]
        ELSE Tail(timers)[Len(Tail(timers))] = timers[Len(timers)]
    BY <1>1, LastStays
  <2> QED
    BY <1>1, <1>4, <2>1, Zenon
<1>5. (\A b \in Actor : At(b, "armLive")' => asked') /\ (\A b \in Actor : At(b, "armIdle")' => ~asked')
  BY <1>1, <1>2, Zenon DEF Heading
<1>6. (\A b \in Actor : ~Arming(b)') => timers[Len(timers)] = Goal
  BY <1>1, <1>2 DEF Heading, Arming
<1> QED
  BY <1>3, <1>4, <1>5, <1>6, Zenon DEF Heading

\* The restart of an egress and the channel's output arm no timer.
LEMMA SplicesHeading ==
  ASSUME TodoOK, Ordered, ~Together, Heading, NEW a \in Actor, Splices(a)
  PROVE  Heading'
<1>1. /\ Running(a) /\ todo[a] \in Seq(Ops) /\ todo[a] # <<>>
      /\ \A b \in Actor : b # a => ~Running(b) /\ todo'[b] = todo[b]
  BY OneRuns
<1>2. PICK r \in Inserts : /\ Insert(a, r) /\ Busy(a) /\ Head(todo[a]) \in {"restart", "ensureHls"}
                           /\ r # <<>> /\ Head(r) = "egressStop" => Head(todo[a]) = "restart"
  BY SplicesInsert
<1>3. todo'[a] = r \o Tail(todo[a]) /\ (todo'[a] # <<>> => Head(todo'[a]) \notin {"armLive", "armIdle"})
  <2>1. {"egressStop", "egressStart", "hlsTake", "hlsSet"} \subseteq Ops /\ InOrder(todo[a]) /\ Channels(todo[a])
    BY DEF Ops, Ordered
  <2>2. todo'[a] = r \o Tail(todo[a])
    BY <1>2, OneRuns
  <2> QED
    BY <1>1, <1>2, <2>1, <2>2, InsertsKeep
<1>4. \A b \in Actor : ~Arming(b) /\ ~Arming(b)'
  <2>1. ~Arming(a) /\ ~Arming(a)'
    BY <1>2, <1>3 DEF Arming, At, Busy, Nothing
  <2>2. \A b \in Actor : b # a => ~Arming(b) /\ ~Arming(b)'
    BY <1>1, WaitersDone DEF Arming, At, Busy
  <2> QED
    BY <2>1, <2>2
<1>5. timers' = timers /\ pipe' = pipe /\ asked' = asked
  BY DEF Splices, signal
<1>6. Goal' = Goal
  BY <1>5, Zenon DEF Goal
<1> QED
  BY <1>4, <1>5, <1>6 DEF Heading, Arming

\* The channel's output follows the channel.
LEMMA ProceedsChanneled ==
  ASSUME TodoOK, Ordered, ~Together, Channeled, NEW a \in Actor, Step(a), Proceeds(a)
  PROVE  Channeled'
<1> DEFINE s == todo[a]
           t == Tail(todo[a])
           op == Head(todo[a])
<1>1. /\ Running(a) /\ s \in Seq(Ops) /\ s # <<>> /\ todo'[a] = t
      /\ \A b \in Actor : b # a => ~Clears(b) /\ ~Has(todo'[b], "hlsSet")
      /\ op \notin {"restart", "ensureHls"}
  BY OneRuns, WaitersDone DEF Proceeds
<1>2. /\ \A x : Has(s, x) <=> op = x \/ Has(t, x)
      /\ op = "toggle" => t = <<"ensureHls">>
  BY <1>1, RestOf DEF Ordered
<1>3. /\ IF op = "hlsSet" THEN hls' \in {hls, TRUE} ELSE IF op = "hlsTake" THEN hls' = FALSE ELSE hls' = hls
      /\ op = "toggle" \/ enabled' = enabled
  BY StepEffects
<1>4. ASSUME NEW b \in Actor, Has(todo'[b], "hlsSet") PROVE enabled'
  <2>1. b = a /\ Has(t, "hlsSet") /\ Has(s, "hlsSet")
    BY <1>1, <1>2, <1>4
  <2>2. op # "toggle"
    <3>1. ~Has(<<"ensureHls">>, "hlsSet")
      BY DEF Has
    <3> QED
      BY <1>2, <2>1, <3>1
  <2>3. enabled' = enabled /\ enabled
    BY <1>3, <2>1, <2>2 DEF Channeled
  <2> QED
    BY <2>3, Zenon
<1>5. ASSUME hls', ~enabled' PROVE \E b \in Actor : Clears(b)'
  <2>1. CASE op = "toggle"
    <3>1. todo'[a] # <<>> /\ Head(todo'[a]) = "ensureHls"
      <4>1. todo'[a] = <<"ensureHls">>
        BY <1>1, <1>2, <2>1, Zenon
      <4>2. <<"ensureHls">> # <<>> /\ Head(<<"ensureHls">>) = "ensureHls"
        OBVIOUS
      <4> QED
        BY <4>1, <4>2, Zenon
    <3> QED
      BY <3>1 DEF Clears, At, Busy, Nothing
  <2>2. CASE op # "toggle"
    <3>1. ~enabled
      BY <1>3, <1>5, <2>2, Zenon
    <3>2. op # "hlsSet" /\ op # "hlsTake"
      <4>1. op # "hlsSet"
        BY <1>2, <3>1 DEF Channeled
      <4> QED
        BY <1>3, <1>5, <4>1
    <3>3. hls
      BY <1>3, <1>5, <3>2, Zenon
    <3>4. Clears(a)
      BY <1>1, <3>1, <3>3 DEF Channeled
    <3> QED
      BY <1>1, <3>2, <3>4 DEF Clears, At
  <2> QED
    BY <2>1, <2>2
<1> QED
  BY <1>4, <1>5 DEF Channeled

\* The channel's output is stopped first, and set if the channel is enabled.
LEMMA SplicesChanneled ==
  ASSUME TodoOK, Ordered, ~Together, Channeled, NEW a \in Actor, Splices(a)
  PROVE  Channeled'
<1>1. /\ Running(a) /\ todo[a] \in Seq(Ops) /\ todo[a] # <<>>
      /\ \A b \in Actor : b # a => ~Clears(b) /\ todo'[b] = todo[b]
  BY OneRuns, WaitersDone
<1>2. hls' = hls /\ enabled' = enabled
  BY DEF Splices, signal
<1>3. {"egressStop", "egressStart", "hlsTake", "hlsSet"} \subseteq Ops /\ InOrder(todo[a]) /\ Channels(todo[a])
  BY DEF Ops, Ordered
<1>4. /\ At(a, "ensureHls") => Clears(a)'
      /\ Has(todo'[a], "hlsSet") => enabled
  <2>1. CASE At(a, "restart")
    <3>1. PICK r \in {<<>>, <<"egressStop", "egressStart">>} : Insert(a, r)
      BY <2>1 DEF Splices, At
    <3>2. r \in Inserts /\ Head(todo[a]) = "restart" /\ ~Has(r, "hlsSet")
      BY <2>1, <3>1 DEF Inserts, At, Has
    <3>3. todo'[a] = r \o Tail(todo[a]) /\ (Has(r \o Tail(todo[a]), "hlsSet") => Has(Tail(todo[a]), "hlsSet"))
      BY <1>1, <1>3, <3>1, <3>2, OneRuns, InsertsKeep
    <3>4. Has(Tail(todo[a]), "hlsSet") => Has(todo[a], "hlsSet")
      BY <1>1, <1>3, RestOf
    <3> QED
      BY <2>1, <3>3, <3>4 DEF Channeled, At
  <2>2. CASE At(a, "ensureHls")
    <3>1. PICK r \in {<<"hlsTake">>, <<"hlsTake", "hlsSet">>} : Insert(a, r) /\ (r = <<"hlsTake", "hlsSet">> => enabled)
      BY <2>2 DEF Splices, At
    <3>2. /\ r \in Inserts /\ Head(todo[a]) = "ensureHls" /\ r # <<>> /\ Head(r) = "hlsTake"
          /\ r = <<"hlsTake">> => ~Has(r, "hlsSet")
      BY <2>2, <3>1 DEF Inserts, At, Has
    <3>3. /\ todo'[a] = r \o Tail(todo[a]) /\ todo'[a] # <<>> /\ Head(todo'[a]) = "hlsTake"
          /\ Has(todo'[a], "hlsSet") => Has(r, "hlsSet") \/ Has(Tail(todo[a]), "hlsSet")
      <4>1. todo'[a] = r \o Tail(todo[a])
        BY <3>1, OneRuns
      <4> QED
        BY <1>1, <1>3, <3>2, <4>1, InsertsKeep
    <3>4. Has(Tail(todo[a]), "hlsSet") => Has(todo[a], "hlsSet")
      BY <1>1, <1>3, RestOf
    <3> QED
      BY <3>1, <3>2, <3>3, <3>4 DEF Channeled, Clears, At, Busy, Nothing
  <2> QED
    BY <2>1, <2>2 DEF Splices
<1>5. \A b \in Actor : Has(todo'[b], "hlsSet") => enabled
  BY <1>1, <1>4 DEF Channeled
<1>6. ASSUME hls, ~enabled PROVE Clears(a)'
  <2>1. Clears(a) /\ Head(todo[a]) \in {"restart", "ensureHls"}
    BY <1>1, <1>6, SplicesInsert DEF Channeled
  <2> QED
    BY <1>4, <2>1 DEF Clears, At
<1> QED
  BY <1>2, <1>5, <1>6, Zenon DEF Channeled

\* Lists are replaced where what was asked and what was sent agree.
LEMMA ReplacesTurns ==
  ASSUME TodoOK, Ordered, InTurns, Replaces, ~Together'
  PROVE  InTurns'
<1>1. /\ pipe' = pipe /\ timers' = timers /\ Sending' = Sending /\ hls' = hls /\ enabled' = enabled /\ asked' = asked
      /\ \A b \in Actor : todo'[b] = todo[b] \/ Replaced(b)
  BY SendingKept, Zenon DEF Replaces, signal
<1>2. ASSUME NEW b \in Actor, Replaced(b), Running(b) PROVE asked <=> Sending
  <2>1. Head(todo[b]) \in Choices /\ todo[b] \in Seq(Ops) /\ todo[b] # <<>>
    BY <1>2 DEF Replaced, Running, TodoOK, Busy, Nothing
  <2>2. Has(todo[b], Head(todo[b]))
    BY <2>1, RestOf DEF Ordered
  <2> QED
    BY <1>2, <2>1, <2>2 DEF InTurns, Agreed, Agrees
<1>3. ASSUME NEW b \in Actor, Replaced(b), todo'[b] # todo[b]
      PROVE  ~Arming(b) /\ ~Arming(b)' /\ ~Clears(b) /\ ~Has(todo'[b], "hlsSet")
  <2>1. ~Arming(b) /\ ~Clears(b)
    BY <1>3 DEF Replaced, Choices, Arming, Clears, At
  <2>2. ~Arming(b)'
    BY <1>3 DEF Replaced, Opens, Arming, At, Busy, Nothing
  <2> QED
    BY <1>3, <2>1, <2>2 DEF Replaced, Opens
<1>4. ASSUME NEW b \in Actor, todo'[b] = todo[b]
      PROVE  /\ Running(b)' <=> Running(b)
             /\ \A op : At(b, op)' <=> At(b, op)
  BY <1>4 DEF Running, At, Busy
<1>5. Agreed'
  <2>1. ASSUME NEW b \in Actor, Running(b)', todo'[b] # todo[b] PROVE asked <=> Sending
    <3>1. CASE \E c \in Actor : Running(c) /\ Replaced(c)
      BY <1>2, <3>1
    <3>2. CASE \A c \in Actor : ~(Running(c) /\ Replaced(c))
      <4>1. ASSUME NEW c \in Actor, Running(c) PROVE FALSE
        <5>1. c # b /\ todo'[c] = todo[c]
          BY <1>1, <2>1, <3>2, <4>1
        <5> QED
          BY <1>4, <2>1, <4>1, <5>1 DEF Together
      <4> QED
        BY <4>1 DEF InTurns, Agreed
    <3> QED
      BY <3>1, <3>2
  <2>2. ASSUME NEW b \in Actor, Running(b)' PROVE Agrees(todo[b])'
    <3>1. CASE todo'[b] = todo[b]
      <4>1. Agrees(todo[b])
        BY <1>4, <2>2, <3>1 DEF InTurns, Agreed
      <4> QED
        BY <1>1, <3>1, <4>1, Zenon DEF Agrees, WillAsk, WillSend
    <3>2. CASE todo'[b] # todo[b]
      <4>1. asked <=> Sending
        BY <2>1, <2>2, <3>2
      <4>2. /\ Has(todo'[b], "goStarting") <=> Has(todo'[b], "egressStart")
            /\ Has(todo'[b], "goStopping") <=> Has(todo'[b], "egressStop")
        BY <1>1, <3>2 DEF Replaced, Opens
      <4>3. asked' <=> Sending'
        BY <1>1, <4>1, Zenon
      <4> QED
        BY <4>2, <4>3, Zenon DEF Agrees, WillAsk, WillSend
    <3> QED
      BY <3>1, <3>2
  <2>3. ASSUME \A b \in Actor : ~Running(b)' PROVE asked' <=> Sending'
    <3>1. asked <=> Sending
      <4>1. CASE \E c \in Actor : Running(c)
        BY <1>1, <1>2, <1>4, <2>3, <4>1
      <4>2. CASE \A c \in Actor : ~Running(c)
        BY <4>2 DEF InTurns, Agreed
      <4> QED
        BY <4>1, <4>2
    <3> QED
      BY <1>1, <3>1, Zenon
  <2> QED
    BY <2>2, <2>3 DEF Agreed
<1>6. Heading'
  <2>1. \A b \in Actor, op \in {"armLive", "armIdle"} : At(b, op)' <=> At(b, op)
    BY <1>1, <1>3, <1>4 DEF Arming
  <2>2. Goal' = Goal
    BY <1>1, Zenon DEF Goal
  <2>3. \A b \in Actor : Arming(b)' <=> Arming(b)
    BY <2>1 DEF Arming
  <2>4. Heading
    BY DEF InTurns
  <2>5. (\A b \in Actor : ~Arming(b)') => IF timers' = <<>> THEN pipe' = Goal' ELSE timers'[Len(timers')] = Goal'
    BY <1>1, <2>2, <2>3, <2>4 DEF Heading
  <2>6. (\A b \in Actor : At(b, "armLive")' => asked') /\ (\A b \in Actor : At(b, "armIdle")' => ~asked')
    <3>1. (\A b \in Actor : At(b, "armLive")' => asked) /\ (\A b \in Actor : At(b, "armIdle")' => ~asked)
      BY <2>1, <2>4 DEF Heading
    <3> QED
      BY <1>1, <3>1, Zenon
  <2> QED
    BY <2>5, <2>6, Zenon DEF Heading
<1>7. Channeled'
  <2>1. ASSUME hls, ~enabled PROVE \E b \in Actor : Clears(b)'
    <3>1. PICK b \in Actor : Clears(b)
      BY <2>1 DEF InTurns, Channeled
    <3>2. todo'[b] = todo[b]
      BY <1>1, <1>3, <3>1
    <3> QED
      BY <1>4, <3>1, <3>2 DEF Clears
  <2>2. \A b \in Actor : Has(todo'[b], "hlsSet") => enabled
    BY <1>1, <1>3 DEF InTurns, Channeled
  <2> QED
    BY <1>1, <2>1, <2>2, Zenon DEF Channeled
<1> QED
  BY <1>5, <1>6, <1>7 DEF InTurns

\* As long as no two are under way at once, the outputs go where they were asked to.
LEMMA TurnsKept == ASSUME IInv, TodoOK', Ordered, Ordered', Turns, [Next]_vars PROVE Turns'
<1>0. TodoOK /\ TypeOK
  BY DEF IInv
<1>1. CASE UNCHANGED vars
  <2>1. \A b \in Actor : \A op : At(b, op)' = At(b, op) /\ Running(b)' = Running(b)
    BY <1>1, Zenon DEF vars, At, Running, Busy
  <2>2. todo' = todo /\ hls' = hls /\ enabled' = enabled /\ asked' = asked /\ Sending' = Sending /\ timers' = timers
        /\ pipe' = pipe /\ alone' = alone
    BY <1>1, SendingKept, Zenon DEF vars, outputs
  <2> QED
    BY <2>2, Zenon DEF Turns, InTurns, Together, Agreed, Agrees, WillAsk, WillSend, Heading, Goal, Arming, Channeled,
                       Clears, At, Running, Busy
<1>2. CASE Next
  <2> SUFFICES ASSUME alone' PROVE InTurns'
    BY DEF Turns
  <2>1. alone /\ ~Together'
    BY <1>2, Zenon DEF Next, Watched
  <2>2. InTurns
    BY <2>1, Zenon DEF Turns
  <2>3. ASSUME NEW a \in Actor, Step(a) PROVE InTurns'
    <3>1. CASE Replaces
      BY <1>0, <2>1, <2>2, <3>1, ReplacesTurns
    <3>2. CASE Proceeds(a)
      <4>1. Agrees(todo[a])'
        BY <1>0, <2>2, <2>3, <3>2, ProceedsAgreed DEF InTurns
      <4>2. Agreed'
        BY <1>0, <2>2, <3>2, <4>1, EndsAgreed, OneRuns DEF InTurns
      <4> QED
        BY <1>0, <2>1, <2>2, <2>3, <3>2, <4>2, ProceedsHeading, ProceedsChanneled DEF InTurns
    <3>3. CASE Splices(a)
      <4>1. Agrees(todo[a])'
        BY <1>0, <2>2, <2>3, <3>3, SplicesAgreed DEF InTurns
      <4>2. Agreed'
        BY <1>0, <2>2, <3>3, <4>1, EndsAgreed, OneRuns DEF InTurns
      <4> QED
        BY <1>0, <2>1, <2>2, <2>3, <3>3, <4>2, SplicesHeading, SplicesChanneled DEF InTurns
    <3> QED
      BY <1>0, <2>3, <3>1, <3>2, <3>3, StepKinds
  <2>4. CASE Timer
    <3>1. Heading'
      BY <1>0, <2>2, <2>4, TimerHeading DEF InTurns
    <3>2. todo' = todo /\ asked' = asked /\ Sending' = Sending /\ hls' = hls /\ enabled' = enabled
      BY <2>4, SendingKept, Zenon DEF Timer
    <3>3. Agreed' /\ Channeled'
      BY <2>2, <3>2, Zenon DEF InTurns, Agreed, Agrees, WillAsk, WillSend, Channeled, Clears, At, Running, Busy
    <3> QED
      BY <2>1, <3>1, <3>3 DEF InTurns
  <2>5. CASE Requests \/ Scheduler
    BY <1>0, <2>1, <2>2, <2>5, OtherKinds, ReplacesTurns
  <2> QED
    BY <1>2, <2>3, <2>4, <2>5 DEF Next, Steps
<1> QED
  BY <1>1, <1>2

\* Every list is in order, and as long as no two are under way at once, what is sent and
\* the last timer are what was asked for last (stream.rs, playout.rs, stub.rs: start, stop).
THEOREM InductiveTurns == Spec => [](Ordered /\ Turns)
<1>1. Init => Ordered /\ Turns
  <2> SUFFICES ASSUME Init PROVE Ordered /\ InTurns
    BY DEF Turns
  <2>1. /\ todo = [a \in Actor |-> <<>>] /\ asked = FALSE /\ ~Sending /\ hls = FALSE /\ timers = <<>> /\ pipe = "Idle"
    BY DEF Init, Nothing, Sending
  <2>2. \A a \in Actor : todo[a] = <<>> /\ ~Running(a) /\ ~Arming(a)
    BY <2>1 DEF Running, Arming, At, Busy, Nothing
  <2>3. Ordered
    BY <2>2, Openings DEF Ordered, Opens
  <2>4. Agreed /\ ~Together
    BY <2>1, <2>2 DEF Agreed, Together
  <2>5. Heading
    BY <2>1, <2>2 DEF Heading, Goal, Arming
  <2>6. Channeled
    BY <2>1, <2>2, HasNone DEF Channeled
  <2> QED
    BY <2>3, <2>4, <2>5, <2>6 DEF InTurns
<1>2. IInv /\ IInv' /\ Ordered /\ Turns /\ [Next]_vars => (Ordered /\ Turns)'
  BY OrderedKept, TurnsKept DEF IInv
<1> QED
  BY <1>1, <1>2, Inductive, PTL DEF Spec

\* Once everything has settled, the pipeline is Live exactly if the last request acted on
\* was a start, destinations are connected only then, and none is connected on air only if
\* the last start of the egress brought nothing up, as long as no two overlapped
\* (stub.rs 44-55, 71-80; egress.rs 47-62).
THEOREM AlwaysAsAsked == Spec => []SettlesAsAsked
<1>1. IInv /\ Turns => SettlesAsAsked
  <2> SUFFICES ASSUME IInv, InTurns, timers = <<>>, \A a \in Actor : ~Running(a)
               PROVE  /\ (pipe = "Live") = asked
                      /\ egress => asked
                      /\ asked => egress \/ bare
    BY DEF Turns, SettlesAsAsked, Quiet
  <2>1. asked <=> egress \/ bare
    BY DEF InTurns, Agreed, Sending
  <2>2. \A a \in Actor : ~Arming(a)
    BY DEF Running, Arming, At
  <2>3. pipe = IF asked THEN "Live" ELSE "Idle"
    BY <2>2 DEF InTurns, Heading, Goal
  <2>4. asked \in BOOLEAN
    BY DEF IInv, TypeOK
  <2>5. (pipe = "Live") <=> asked
    BY <2>3
  <2> QED
    BY <2>1, <2>4, <2>5, Zenon
<1> QED
  BY <1>1, Inductive, InductiveTurns, PTL

\* Once everything has settled, the channel HLS runs only for a channel that is enabled, as
\* long as no two requests overlapped (stream.rs 181).
THEOREM HlsMatches == Spec => []HlsNeedsChannel
<1>1. Turns => HlsNeedsChannel
  <2> SUFFICES ASSUME InTurns, \A a \in Actor : ~Running(a), hls PROVE enabled
    BY DEF Turns, HlsNeedsChannel, Quiet
  <2>1. \A a \in Actor : ~Clears(a)
    BY DEF Running, Clears, At
  <2> QED
    BY <2>1 DEF InTurns, Channeled
<1> QED
  BY <1>1, InductiveTurns, PTL
=============================================================================
