------------------------------- MODULE OnAir -------------------------------
(***************************************************************************)
(* Going on air and off it: the pipeline's state machine with its delayed  *)
(* transitions (processor/src/stub.rs), the egress and the channel HLS     *)
(* output, and everybody who starts and stops them: the handlers of        *)
(* /stream, /output, /channel and /schedules, the failover supervisor's    *)
(* egress restart, the scheduler, and the playout task of each broadcast.  *)
(*                                                                         *)
(* A handler or a task is an actor with a list of operations still to do.  *)
(* Each operation is what happens between two awaits that let another      *)
(* actor in; it may add to the list or drop it.  What settings, files and  *)
(* ffmpeg processes contain is left out, and so are recordings.            *)
(***************************************************************************)
EXTENDS Naturals, Sequences

CONSTANTS
  Call,      \* requests that can be under way at a time
  Task,      \* playout tasks that can be alive at a time
  Schedule,  \* the schedules
  None,      \* no schedule, nothing on program
  Camera,    \* a live source, on program after /stream/start
  Card,      \* a standby card, on program after a broadcast
  Kinds,     \* the requests that are ever made
  Ends,      \* how a broadcast ends: "loop", "stop" or "standby"
  MaxEvents  \* bound: requests and schedules coming due

Actor    == Call \cup Task
Sources  == {Camera, Card} \cup Task   \* a task stands for the VOD source it plays
Nothing  == <<>>

ASSUME ActorAssumption ==
  /\ Call \cap Task = {} /\ None \notin Sources /\ None \notin Schedule
  /\ Camera # Card /\ {Camera, Card} \cap Task = {}
ASSUME BoundAssumption ==
  /\ MaxEvents \in Nat
  /\ Ends \subseteq {"loop", "stop", "standby"}
  /\ Kinds \subseteq {"start", "stop", "output", "channel", "splice", "run", "stopSchedule"}

VARIABLES
  pipe,     \* the pipeline's state
  timers,   \* its delayed transitions, first to fire first
  egress,   \* whether the egress runs, to at least one destination
  hls,      \* whether the channel HLS runs
  enabled,  \* whether the channel is enabled
  intent,   \* program_intent
  active,   \* active_schedule
  players,  \* the ffmpeg players: a task for its VOD, Card for a standby card
  due,      \* schedules that are due
  todo,     \* per actor: the operations still to do
  airs,     \* per task: the schedule it broadcasts
  ends,     \* per task: how its broadcast ends
  asked,    \* history: the last request acted on was to be on air
  bare,     \* history: the egress was started, not stopped since, and nothing came up
  alone,    \* history: no two actors have been under way at once
  events

outputs  == <<pipe, timers, egress, bare, hls, intent>>
schedule == <<active, players, due, airs, ends>>
vars     == <<outputs, enabled, schedule, todo, asked, alone, events>>

Ops == {"ifIdle", "ifBusy", "ifBroadcasting", "egressStart", "egressStop", "restart", "selectCamera",
        "selectVod", "selectCard", "deselect", "goStarting", "armLive", "goStopping", "armIdle",
        "toggle", "ensureHls", "hlsTake", "hlsSet", "run", "load", "activate", "play", "air",
        "unplay", "deactivate"}

TypeOK ==
  /\ pipe \in {"Idle", "Starting", "Live", "Stopping"}
  /\ timers \in Seq({"Live", "Idle"})
  /\ egress \in BOOLEAN /\ hls \in BOOLEAN /\ enabled \in BOOLEAN
  /\ intent \in Sources \cup {None} /\ active \in Schedule \cup {None}
  /\ players \in SUBSET (Task \cup {Card}) /\ due \in SUBSET Schedule
  /\ todo \in [Actor -> Seq(Ops)]
  /\ airs \in [Task -> Schedule \cup {None}] /\ ends \in [Task -> {"loop", "stop", "standby"}]
  /\ asked \in BOOLEAN /\ bare \in BOOLEAN /\ alone \in BOOLEAN /\ events \in 0..MaxEvents

Init ==
  /\ pipe = "Idle" /\ timers = <<>> /\ egress = FALSE /\ hls = FALSE
  /\ enabled \in BOOLEAN
  /\ intent = None /\ active = None /\ players = {} /\ due = {}
  /\ todo = [a \in Actor |-> Nothing]
  /\ airs = [t \in Task |-> None] /\ ends = [t \in Task |-> "stop"]
  /\ asked = FALSE /\ bare = FALSE /\ alone = TRUE /\ events = 0

-----------------------------------------------------------------------------
(* Actors and what they have to do.                                        *)

Start        == <<"ifIdle", "egressStart", "selectCamera", "goStarting", "armLive", "ensureHls">>
Stop         == <<"ifBusy", "egressStop", "hlsTake", "deselect", "goStopping", "armIdle">>
SetOutput    == <<"ifBroadcasting", "restart", "ensureHls">>
\* Mutant: the flag is saved and the output left as it is.
SetChannelOnlySaves == <<"toggle">>
SetChannel   == <<"toggle", "ensureHls">>
StopSchedule == <<"egressStop", "hlsTake", "goStopping", "armIdle", "deselect", "deactivate">>
Broadcast    == <<"load", "activate", "play", "selectVod", "goStarting", "armLive", "egressStart",
                  "ensureHls", "air">>
EndStop      == <<"unplay">> \o StopSchedule
EndStandby   == <<"unplay", "selectCard", "restart", "ensureHls">>

Script(kind) ==
  CASE kind = "start"        -> Start
    [] kind = "stop"         -> Stop
    [] kind = "output"       -> SetOutput
    [] kind = "channel"      -> SetChannel
    [] kind = "splice"       -> <<"restart">>
    [] kind = "run"          -> <<"run">>
    [] kind = "stopSchedule" -> StopSchedule

Busy(a)    == todo[a] # Nothing
At(a, op)  == Busy(a) /\ Head(todo[a]) = op
Running(a) == Busy(a) /\ Head(todo[a]) # "air"
Together   == \E a, b \in Actor : a # b /\ Running(a) /\ Running(b)

Done(a)      == todo' = [todo EXCEPT ![a] = Tail(@)]
Insert(a, s) == todo' = [todo EXCEPT ![a] = s \o Tail(@)]
Become(a, s) == todo' = [todo EXCEPT ![a] = s]

-----------------------------------------------------------------------------
(* The pipeline.                                                           *)

\* PipelineController::start() and stop() set the state at once and leave the rest
\* to a task of their own that sleeps for 500 ms; none is ever cancelled.
GoStarting(a) ==
  /\ At(a, "goStarting") /\ Done(a)
  /\ pipe' = "Starting" /\ asked' = TRUE
  /\ UNCHANGED <<timers, egress, bare, hls, intent, enabled, schedule, events>>

\* Mutant: a stop aborts the timers, its own included.
GoStoppingAborts(a) ==
  /\ At(a, "goStopping") /\ todo' = [todo EXCEPT ![a] = SelectSeq(Tail(@), LAMBDA op : op # "armIdle")]
  /\ pipe' = "Stopping" /\ asked' = FALSE /\ timers' = <<>>
  /\ UNCHANGED <<egress, bare, hls, intent, enabled, schedule, events>>

GoStopping(a) ==
  /\ At(a, "goStopping") /\ Done(a)
  /\ pipe' = "Stopping" /\ asked' = FALSE
  /\ UNCHANGED <<timers, egress, bare, hls, intent, enabled, schedule, events>>

Arm(a) ==
  /\ \/ At(a, "armLive") /\ timers' = Append(timers, "Live")
     \/ At(a, "armIdle") /\ timers' = Append(timers, "Idle")
  /\ Done(a)
  /\ UNCHANGED <<pipe, egress, bare, hls, intent, enabled, schedule, asked, events>>

\* Mutant: the last timer armed fires first.
TimerLastFirst ==
  /\ timers # <<>>
  /\ pipe' = timers[Len(timers)] /\ timers' = SubSeq(timers, 1, Len(timers) - 1)
  /\ UNCHANGED <<egress, bare, hls, intent, enabled, schedule, todo, asked, events>>

Timer ==
  /\ timers # <<>>
  /\ pipe' = Head(timers) /\ timers' = Tail(timers)
  /\ UNCHANGED <<egress, bare, hls, intent, enabled, schedule, todo, asked, events>>

\* The state is read once, at the head of a handler.  A start may find no live
\* source and end there; an output change may find nothing routed to restart for.
IfIdle(a) ==
  /\ At(a, "ifIdle")
  /\ \/ pipe = "Idle" /\ Done(a)
     \/ Become(a, Nothing)
  /\ UNCHANGED <<outputs, enabled, schedule, asked, events>>

IfBusy(a) ==
  /\ At(a, "ifBusy")
  /\ IF pipe # "Idle" THEN Done(a) ELSE Become(a, Nothing)
  /\ UNCHANGED <<outputs, enabled, schedule, asked, events>>

Broadcasting == pipe \notin {"Idle", "Stopping"}

IfBroadcasting(a) ==
  /\ At(a, "ifBroadcasting")
  /\ IF ~Broadcasting THEN Become(a, Nothing) ELSE Done(a) \/ Become(a, <<"ensureHls">>)
  /\ UNCHANGED <<outputs, enabled, schedule, asked, events>>

-----------------------------------------------------------------------------
(* The outputs.                                                            *)

\* An egress that has no destination, or whose ffmpeg does not start, is only logged; one
\* that runs is not stopped by a start.
Egress(a) ==
  /\ \/ At(a, "egressStart") /\ egress' \in {egress, TRUE} /\ bare' = ~egress'
     \/ At(a, "egressStop") /\ egress' = FALSE /\ bare' = FALSE
  /\ Done(a)
  /\ UNCHANGED <<pipe, timers, hls, intent, enabled, schedule, asked, events>>

\* egress_restart_for() and EgressManager::restart(): only what runs is restarted;
\* between its stop and its start lie 600 ms.
Restart(a) ==
  /\ At(a, "restart")
  /\ Insert(a, IF egress THEN <<"egressStop", "egressStart">> ELSE Nothing)
  /\ UNCHANGED <<outputs, enabled, schedule, asked, events>>

\* ensure_channel_hls(): decide, then stop, then start what was decided, which may fail.
EnsureHls(a) ==
  /\ At(a, "ensureHls")
  /\ Insert(a, IF enabled /\ Broadcasting THEN <<"hlsTake", "hlsSet">> ELSE <<"hlsTake">>)
  /\ UNCHANGED <<outputs, enabled, schedule, asked, events>>

Hls(a) ==
  /\ \/ At(a, "hlsTake") /\ hls' = FALSE
     \/ At(a, "hlsSet") /\ hls' \in {hls, TRUE}
  /\ Done(a)
  /\ UNCHANGED <<pipe, timers, egress, bare, intent, enabled, schedule, asked, events>>

\* PUT /api/v1/channel.
Toggle(a) ==
  /\ At(a, "toggle") /\ Done(a)
  /\ enabled' = ~enabled
  /\ UNCHANGED <<outputs, schedule, asked, events>>

Select(a) ==
  /\ \/ At(a, "selectCamera") /\ intent' = Camera
     \/ At(a, "selectVod") /\ intent' = a
     \/ At(a, "deselect") /\ intent' = None
  /\ Done(a)
  /\ UNCHANGED <<pipe, timers, egress, bare, hls, enabled, schedule, asked, events>>

-----------------------------------------------------------------------------
(* Broadcasts of schedules.                                                *)

\* start_broadcast() spawns a task; it needs a free one.
Spawn(s, t, e) ==
  /\ ~Busy(t) /\ t \notin players
  /\ airs' = [airs EXCEPT ![t] = s] /\ ends' = [ends EXCEPT ![t] = e]

\* POST /schedules/{id}/run: refused while a schedule is active.
Run(a) ==
  /\ At(a, "run")
  /\ \/ /\ active # None
        /\ Become(a, Nothing) /\ UNCHANGED <<airs, ends>>
     \/ /\ active = None
        /\ \E s \in Schedule, t \in Task, e \in Ends :
             Spawn(s, t, e) /\ todo' = [todo EXCEPT ![a] = Nothing, ![t] = Broadcast]
  /\ UNCHANGED <<outputs, enabled, active, players, due, asked, events>>

\* The scheduler's handle_due(): skipped while a schedule is active or the
\* pipeline is live; either way it is advanced past this occurrence.
AlreadyLive == active # None \/ pipe = "Live"

HandleDue(s) ==
  /\ s \in due /\ due' = due \ {s}
  /\ \/ AlreadyLive /\ UNCHANGED <<todo, airs, ends>>
     \/ /\ ~AlreadyLive
        /\ \E t \in Task, e \in Ends : Spawn(s, t, e) /\ todo' = [todo EXCEPT ![t] = Broadcast]
  /\ UNCHANGED <<outputs, enabled, active, players, asked, events>>

\* run_broadcast().  The playlist may not load, and ffmpeg may not start; then no
\* schedule is active any more.
Load(a) ==
  /\ At(a, "load")
  /\ Done(a) \/ Become(a, <<"deactivate">>)
  /\ UNCHANGED <<outputs, enabled, schedule, asked, events>>

\* Mutant: the VOD source's id is stored where the schedule's belongs.
ActivateNobody(a) ==
  /\ \/ At(a, "activate") /\ active' = a
     \/ At(a, "deactivate") /\ active' = None
  /\ Done(a)
  /\ UNCHANGED <<outputs, enabled, players, due, airs, ends, asked, events>>

Activate(a) ==
  /\ \/ At(a, "activate") /\ active' = airs[a]
     \/ At(a, "deactivate") /\ active' = None
  /\ Done(a)
  /\ UNCHANGED <<outputs, enabled, players, due, airs, ends, asked, events>>

Play(a) ==
  /\ At(a, "play")
  /\ \/ Done(a) /\ players' = players \cup {a}
     \/ Become(a, <<"deactivate">>) /\ UNCHANGED players
  /\ UNCHANGED <<outputs, enabled, active, due, airs, ends, asked, events>>

\* Mutant: a loop does not notice that its schedule is deactivated.
DeactivatedUnlessLoop(a) ==
  /\ At(a, "air") /\ active # airs[a] /\ ends[a] # "loop"
  /\ Become(a, <<"unplay">>)
  /\ UNCHANGED <<outputs, enabled, schedule, asked, events>>

\* Mutant: a broadcast that is deactivated leaves its player to itself.
DeactivatedKeepsPlayer(a) ==
  /\ At(a, "air") /\ active # airs[a]
  /\ Become(a, Nothing)
  /\ UNCHANGED <<outputs, enabled, schedule, asked, events>>

\* On air until the schedule is not the active one any more, or until the playlist
\* has run, unless it loops.
Deactivated(a) ==
  /\ At(a, "air") /\ active # airs[a]
  /\ Become(a, <<"unplay">>)
  /\ UNCHANGED <<outputs, enabled, schedule, asked, events>>

PlayedOut(a) ==
  /\ At(a, "air") /\ ends[a] # "loop"
  /\ Become(a, IF ends[a] = "stop" THEN EndStop ELSE EndStandby)
  /\ UNCHANGED <<outputs, enabled, schedule, asked, events>>

Unplay(a) ==
  /\ At(a, "unplay") /\ Done(a)
  /\ players' = players \ {a}
  /\ UNCHANGED <<outputs, enabled, active, due, airs, ends, asked, events>>

\* A schedule may have no standby asset.
SelectCard(a) ==
  /\ At(a, "selectCard")
  /\ \/ Done(a) /\ players' = players \cup {Card} /\ intent' = Card
     \/ Become(a, Nothing) /\ UNCHANGED <<players, intent>>
  /\ UNCHANGED <<pipe, timers, egress, bare, hls, enabled, active, due, airs, ends, asked, events>>

-----------------------------------------------------------------------------
Event == events < MaxEvents /\ events' = events + 1

Begin(c, kind) ==
  /\ ~Busy(c) /\ Event
  /\ Become(c, Script(kind))
  /\ UNCHANGED <<outputs, enabled, schedule, asked>>

ComeDue(s) ==
  /\ s \notin due /\ Event
  /\ due' = due \cup {s}
  /\ UNCHANGED <<outputs, enabled, active, players, airs, ends, todo, asked>>

Pipeline(a)  == GoStarting(a) \/ GoStopping(a) \/ Arm(a) \/ IfIdle(a) \/ IfBusy(a) \/ IfBroadcasting(a)
Outputs(a)   == Egress(a) \/ Restart(a) \/ EnsureHls(a) \/ Hls(a) \/ Toggle(a) \/ Select(a)
Playout(a)   == Run(a) \/ Load(a) \/ Activate(a) \/ Play(a) \/ Deactivated(a) \/ PlayedOut(a) \/ Unplay(a)
                \/ SelectCard(a)
Step(a)      == Pipeline(a) \/ Outputs(a) \/ Playout(a)
Steps        == \E a \in Actor : Step(a)
Requests     == \E c \in Call, kind \in Kinds : Begin(c, kind)
Scheduler    == \E s \in Schedule : ComeDue(s) \/ HandleDue(s)

Watched == alone' = (alone /\ ~Together')
Next    == (Steps \/ Timer \/ Requests \/ Scheduler) /\ Watched

Spec == Init /\ [][Next]_vars

\* Every task the runtime has spawned is polled, and every timer fires.
FairSpec == Spec /\ WF_vars(Timer /\ Watched) /\ \A a \in Actor : WF_vars(Step(a) /\ Watched)

-----------------------------------------------------------------------------
(* Properties.                                                             *)

\* The pipeline is never stuck between states: while it is Starting or Stopping,
\* the transition that ends it is on its way, however starts and stops overlap and
\* although a later timer may already have moved it (stub.rs 33-83).
PipelineSettles ==
  /\ pipe = "Starting" => (\E a \in Actor : At(a, "armLive")) \/ (\E i \in DOMAIN timers : timers[i] = "Live")
  /\ pipe = "Stopping" => (\E a \in Actor : At(a, "armIdle")) \/ (\E i \in DOMAIN timers : timers[i] = "Idle")

\* No actor is under way and no transition is on its way; a broadcast may be on.
Quiet == timers = <<>> /\ \A a \in Actor : ~Running(a)

\* Once everything has settled, the pipeline is Live exactly if the last request acted on
\* was a start, and no destination is connected otherwise, as long as no two requests
\* overlapped: the delayed transitions of earlier starts and stops have been overtaken by
\* those of the last (stub.rs 44-55, 71-80).  On air, none is connected only if the last
\* start of the egress brought nothing up: no splice or output change leaves it stopped.
SettlesAsAsked ==
  alone /\ Quiet => /\ (pipe = "Live") = asked
                    /\ egress => asked
                    /\ asked => egress \/ bare

\* The channel HLS "match[es] the channel's `enabled` flag" (stream.rs 181): once
\* everything has settled it does not run for a channel that is not enabled, as long
\* as no two requests overlapped.
HlsNeedsChannel == alone /\ Quiet /\ hls => enabled

\* The ffmpeg that plays a broadcast's playlist does not outlive the broadcast's task,
\* whichever way that ends or fails (playout.rs 67-83).  Of a standby card's player, which a
\* task leaves on program when it ends (playout.rs 132-138), nothing is said.
NoOrphanVod == \A p \in players : p = Card \/ Busy(p)

\* A broadcast that is not the active one any more ends, although the task that
\* waits may look late and another schedule may have become active in between
\* (playout.rs 70, 78, 120-130).
DeactivatedTaskEnds == <>[](active = None) => <>[](\A t \in Task : ~Busy(t))

\* "Skips with a notification if a broadcast is already live" (scheduler.rs 5): two
\* broadcasts are never on air together.
OneBroadcast == \A t, u \in Task : t \in players /\ u \in players => t = u

\* "A 24/7 loop runs until the operator stops it. Wait for that, then stop the
\* concat player so its ffmpeg doesn't linger past the broadcast" (playout.rs
\* 68-69): nothing is played once the operator has stopped and all is settled.
NothingLingers == Quiet /\ ~asked => players \cap Task = {}
=============================================================================
