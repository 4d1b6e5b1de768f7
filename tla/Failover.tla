------------------------------ MODULE Failover ------------------------------
(***************************************************************************)
(* The program failover supervisor (crates/api/src/failover.rs), one task  *)
(* that copies the operator's selection program_intent to program_source,  *)
(* the source the program router forwards, and puts a configured fallback  *)
(* there while the selected source is dark.                                *)
(*                                                                         *)
(* Time is discrete: one unit is the supervisor's 250 ms ticker.  Instants *)
(* (last_video, recovering_since) are kept as ages that saturate at        *)
(* AgeCap, which lies above every threshold an age is compared with.       *)
(* Around the supervisor are its environment: the operator who switches    *)
(* the program, the PUT /api/v1/failover handler that saves the settings   *)
(* and nudges the supervisor, and the sources, whose relays come, go and   *)
(* fall silent.  A relay that has gone is closed only when nobody keeps a  *)
(* sender of it any more; who does, the module leaves open (Holder), and   *)
(* Program says it of the program router.                                  *)
(***************************************************************************)
EXTENDS Naturals

CONSTANTS
  Source,       \* the sources that can be put on program
  MediaSource,  \* those that are files: a fallback of this kind can be started
  None,         \* no source, and an age whose instant is not set
  Configs,      \* the failover settings that are ever saved
  StartupUnits, \* five seconds, in ticks
  GapLimit,     \* 750 ms, in ticks
  SpliceTime,   \* how long an egress restart takes (600 ms and more), in ticks
  AgeCap,       \* bound: where the ages saturate
  BufCap,       \* bound: unread video frames kept for the supervisor
  MaxEvents,    \* bound: operator and source events of a behaviour
  Prompt        \* whether the runtime runs the supervisor before time goes on

ConfigRecords == [enabled  : BOOLEAN, fallback : Source \cup {None},
                  offline  : Nat,     recovery : Nat]

ASSUME SourceAssumption == None \notin Source /\ None \notin Nat
                           /\ MediaSource \subseteq Source
ASSUME ConfigAssumption == Configs \subseteq ConfigRecords /\ Configs # {}
ASSUME BoundAssumption  == /\ StartupUnits \in Nat /\ GapLimit \in Nat /\ SpliceTime \in Nat
                           /\ AgeCap \in Nat /\ BufCap \in Nat /\ MaxEvents \in Nat
                           /\ Prompt \in BOOLEAN

VARIABLES
  \* the shared channels and settings
  intent,     \* program_intent
  changed,    \* program_intent was sent since the supervisor last looked
  source,     \* program_source
  active,     \* failover_active
  cfg,        \* the saved failover_config
  feed,       \* per source: no relay, a relay without video, or video
  \* the PUT /api/v1/failover handler
  put, putIntent,
  \* the supervisor's locals
  pc, cur, use, fb, rx, buf, dark, rec, showing, everLive, tickDue, left,
  kept,       \* who keeps a sender of the relay that rx reads, once it has gone
  \* history, for the properties: for how long the selected source has been
  \* silent, has been producing, and has had no silence beyond Tolerance
  quiet, steady, sound,
  events      \* operator and source events so far

channels == <<intent, changed, source, active, cfg, feed>>
handler  == <<put, putIntent>>
watch    == <<rx, buf, dark, rec, showing, everLive, tickDue, left, kept>>
local    == <<pc, cur, use, fb>>
history  == <<quiet, steady, sound>>
vars     == <<channels, handler, local, watch, history, events>>

-----------------------------------------------------------------------------
(* Thresholds, in ticks.  A grace below one tick is raised to one.         *)

AtLeastOneTick(n) == IF n < 1 THEN 1 ELSE n
OfflineGrace(c)   == AtLeastOneTick(c.offline)
RecoveryGrace(c)  == AtLeastOneTick(c.recovery)
StartupGrace(c)   == IF OfflineGrace(c) > StartupUnits THEN OfflineGrace(c)
                                                       ELSE StartupUnits
Threshold == IF everLive THEN OfflineGrace(use) ELSE StartupGrace(use)

\* A source can go unnoticed for the gap the supervisor forgives, a splice
\* during which it does not look, and the tick that follows.
Tolerance == GapLimit + SpliceTime + 1

Older(age) == IF age # None /\ age < AgeCap THEN age + 1 ELSE age

\* Failover has nothing to do: off, no fallback, nothing selected, or the
\* fallback is the selection.
Passthrough(c, i) == ~c.enabled \/ c.fallback = None \/ i = None \/ c.fallback = i

Feeds == {"off", "dark", "on"}

\* A sender outlives its relay's place in media_relays with the program router, which
\* holds that of the source on program (program.rs 98-104), and with the preview clients
\* and scene layers that read the source (routes/preview.rs 28-34, scene_compositor.rs
\* 276-279).
Holder == {"router", "viewer"}

PCs   == {"eval", "load", "parked", "ensure", "enter", "watch", "toFallback", "toIntended"}

TypeOK ==
  /\ intent \in Source \cup {None} /\ changed \in BOOLEAN
  /\ source \in Source \cup {None} /\ active \in BOOLEAN
  /\ cfg \in Configs /\ feed \in [Source -> Feeds]
  /\ put \in {"idle", "saved", "read"} /\ putIntent \in Source \cup {None}
  /\ pc \in PCs /\ cur \in Source \cup {None}
  /\ use \in Configs /\ fb \in Source \cup {None}
  /\ rx \in {"none", "open", "orphan"} /\ buf \in 0..BufCap
  /\ dark \in 0..AgeCap /\ rec \in (0..AgeCap) \cup {None}
  /\ showing \in BOOLEAN /\ everLive \in BOOLEAN /\ tickDue \in BOOLEAN
  /\ left \in 0..SpliceTime /\ kept \in SUBSET Holder
  /\ quiet \in 0..AgeCap /\ steady \in 0..AgeCap /\ sound \in 0..AgeCap
  /\ events \in 0..MaxEvents

Init ==
  /\ intent = None /\ changed = FALSE /\ source = None /\ active = FALSE
  /\ cfg \in Configs
  /\ feed = [s \in Source |-> "off"]
  /\ put = "idle" /\ putIntent = None
  /\ pc = "eval" /\ cur = None /\ use = cfg /\ fb = None
  /\ rx = "none" /\ buf = 0 /\ dark = 0 /\ rec = None
  /\ showing = FALSE /\ everLive = FALSE /\ tickDue = TRUE /\ left = 0 /\ kept = {}
  /\ quiet = 0 /\ steady = 0 /\ sound = 0
  /\ events = 0

-----------------------------------------------------------------------------
(* The supervisor, outside of monitor().                                   *)

\* borrow_and_update(): take the selection and mark it seen.
ReadIntent ==
  /\ pc = "eval"
  /\ cur' = intent /\ changed' = FALSE
  /\ pc' = "load"
  /\ UNCHANGED <<intent, source, active, cfg, feed, handler, use, fb, watch, history, events>>

\* Mutant: the selection is marked seen only after the settings were loaded.
LoadConfigMarksSeen ==
  /\ pc = "load"
  /\ use' = cfg /\ changed' = FALSE
  /\ IF Passthrough(cfg, cur)
       THEN pc' = "parked" /\ source' = cur /\ active' = FALSE
       ELSE pc' = "ensure" /\ UNCHANGED <<source, active>>
  /\ UNCHANGED <<intent, cfg, feed, handler, cur, fb, watch, history, events>>

\* Mutant: passthrough clears the flag but leaves the routed source alone.
LoadConfigNoRoute ==
  /\ pc = "load"
  /\ use' = cfg
  /\ IF Passthrough(cfg, cur) THEN pc' = "parked" /\ active' = FALSE
                              ELSE pc' = "ensure" /\ active' = active
  /\ UNCHANGED <<intent, changed, source, cfg, feed, handler, cur, fb, watch, history, events>>

\* load_config(), and the passthrough branch, which mirrors the selection.
LoadConfig ==
  /\ pc = "load"
  /\ use' = cfg
  /\ IF Passthrough(cfg, cur)
       THEN pc' = "parked" /\ source' = cur /\ active' = FALSE
       ELSE pc' = "ensure" /\ UNCHANGED <<source, active>>
  /\ UNCHANGED <<intent, changed, cfg, feed, handler, cur, fb, watch, history, events>>

\* Passthrough waits for the next send on program_intent.
Unpark ==
  /\ pc = "parked" /\ changed
  /\ pc' = "eval"
  /\ UNCHANGED <<channels, handler, cur, use, fb, watch, history, events>>

\* ensure_fallback_running(): a file that has no relay is played.
Started(f) == IF f \in MediaSource /\ feed[f] = "off" THEN [feed EXCEPT ![f] = "on"] ELSE feed

EnsureFallback ==
  /\ pc = "ensure"
  /\ feed' = Started(use.fallback)
  /\ pc' = "enter"
  /\ UNCHANGED <<intent, changed, source, active, cfg, handler, cur, use, fb, watch, history, events>>

\* The head of monitor(): subscribe, set the locals, route the selection.  The
\* first tick of an interval is due at once.
NewLocals ==
  /\ buf' = 0 /\ dark' = 0 /\ rec' = None /\ showing' = FALSE /\ everLive' = FALSE
  /\ tickDue' = TRUE /\ left' = 0 /\ kept' = {}
  /\ quiet' = 0 /\ steady' = 0 /\ sound' = 0

\* Mutant: monitor() does not clear the flag a previous monitor() left set.
EnterMonitorKeepsFlag ==
  /\ pc = "enter"
  /\ rx' = IF feed[cur] = "off" THEN "none" ELSE "open"
  /\ fb' = use.fallback
  /\ NewLocals
  /\ source' = cur
  /\ pc' = "watch"
  /\ UNCHANGED <<intent, changed, active, cfg, feed, handler, cur, use, events>>

EnterMonitor ==
  /\ pc = "enter"
  /\ rx' = IF feed[cur] = "off" THEN "none" ELSE "open"
  /\ fb' = use.fallback
  /\ NewLocals
  /\ source' = cur /\ active' = FALSE
  /\ pc' = "watch"
  /\ UNCHANGED <<intent, changed, cfg, feed, handler, cur, use, events>>

-----------------------------------------------------------------------------
(* The select! of monitor(): its three branches in any order.              *)

\* monitor() returns, and its locals are gone.
IntentChanged ==
  /\ pc = "watch" /\ changed
  /\ pc' = "eval"
  /\ rx' = "none" /\ NewLocals
  /\ UNCHANGED <<channels, handler, cur, use, fb, events>>

RecoveringSince == IF showing /\ rec = None THEN 0 ELSE rec

\* Mutant: a frame is counted that was not there.
RecvVideoUnread ==
  /\ pc = "watch" /\ rx = "open"
  /\ buf' = buf - 1
  /\ dark' = 0 /\ everLive' = TRUE
  /\ rec' = RecoveringSince
  /\ UNCHANGED <<channels, handler, local, rx, showing, tickDue, left, kept, history, events>>

\* A video tag of the selected source.  Its age counts from here, where it is
\* read, not from when it was produced.
RecvVideo ==
  /\ pc = "watch" /\ buf > 0
  /\ buf' = buf - 1
  /\ dark' = 0 /\ everLive' = TRUE
  /\ rec' = RecoveringSince
  /\ UNCHANGED <<channels, handler, local, rx, showing, tickDue, left, kept, history, events>>

\* The relay is gone and drained, and the last sender of it dropped.
RecvClosed ==
  /\ pc = "watch" /\ rx = "orphan" /\ buf = 0 /\ kept = {}
  /\ rx' = "none"
  /\ UNCHANGED <<channels, handler, local, buf, dark, rec, showing, everLive, tickDue, left,
                 kept, history, events>>

\* Mutant: the relay of a source that connects later is never looked up.
ResubscribeNever == rx' = rx

\* What every tick does first: subscribe again if the source reconnected.
Resubscribe ==
  rx' = IF rx = "none" /\ feed[cur] # "off" THEN "open" ELSE rx

\* egress_restart_for(): it takes time only when the egress is running.
BeginSplice == left' \in {0, SpliceTime}

\* Mutant: a source that never produced is waited for without end.
DarkOnceLive == ~showing /\ everLive /\ dark > Threshold

Dark == ~showing /\ dark > Threshold

FailOver ==
  /\ pc = "watch" /\ tickDue /\ tickDue' = FALSE
  /\ Resubscribe
  /\ Dark
  /\ feed' = Started(fb)
  /\ source' = fb
  /\ BeginSplice /\ pc' = "toFallback"
  /\ UNCHANGED <<intent, changed, active, cfg, handler, cur, use, fb, buf, dark, rec, showing,
                 everLive, kept, history, events>>

DarkAgain == showing /\ dark > GapLimit

RecoveryLost ==
  /\ pc = "watch" /\ tickDue /\ tickDue' = FALSE
  /\ Resubscribe
  /\ DarkAgain
  /\ rec' = None
  /\ UNCHANGED <<channels, handler, local, buf, dark, showing, everLive, left, kept, history,
                 events>>

\* Mutant: the first frame is recovery enough.
RecoveredAtOnce == showing /\ ~DarkAgain /\ rec # None

Recovered == showing /\ ~DarkAgain /\ rec # None /\ rec > RecoveryGrace(use)

\* Mutant: what is restored is what the channel says now, not the source that recovered.
RestoreLatest ==
  /\ pc = "watch" /\ tickDue /\ tickDue' = FALSE
  /\ Resubscribe
  /\ Recovered
  /\ source' = intent
  /\ BeginSplice /\ pc' = "toIntended"
  /\ UNCHANGED <<intent, changed, active, cfg, feed, handler, cur, use, fb, buf, dark, rec, showing,
                 everLive, kept, history, events>>

Restore ==
  /\ pc = "watch" /\ tickDue /\ tickDue' = FALSE
  /\ Resubscribe
  /\ Recovered
  /\ source' = cur
  /\ BeginSplice /\ pc' = "toIntended"
  /\ UNCHANGED <<intent, changed, active, cfg, feed, handler, cur, use, fb, buf, dark, rec, showing,
                 everLive, kept, history, events>>

QuietTick ==
  /\ pc = "watch" /\ tickDue /\ tickDue' = FALSE
  /\ Resubscribe
  /\ ~Dark /\ ~DarkAgain /\ ~Recovered
  /\ UNCHANGED <<channels, handler, local, buf, dark, rec, showing, everLive, left, kept, history,
                 events>>

\* The rest of the tick, once the egress is back.
FailedOver ==
  /\ pc = "toFallback" /\ left = 0
  /\ showing' = TRUE /\ rec' = None /\ active' = TRUE
  /\ pc' = "watch"
  /\ UNCHANGED <<intent, changed, source, cfg, feed, handler, cur, use, fb, rx, buf, dark, everLive,
                 tickDue, left, kept, history, events>>

Restored ==
  /\ pc = "toIntended" /\ left = 0
  /\ showing' = FALSE /\ rec' = None /\ active' = FALSE
  /\ pc' = "watch"
  /\ UNCHANGED <<intent, changed, source, cfg, feed, handler, cur, use, fb, rx, buf, dark, everLive,
                 tickDue, left, kept, history, events>>

Supervisor ==
  \/ ReadIntent \/ LoadConfig \/ Unpark \/ EnsureFallback \/ EnterMonitor
  \/ IntentChanged \/ RecvVideo \/ RecvClosed
  \/ FailOver \/ RecoveryLost \/ Restore \/ QuietTick \/ FailedOver \/ Restored

-----------------------------------------------------------------------------
(* The environment.                                                        *)

Event == events < MaxEvents /\ events' = events + 1

\* A cut, an auto transition, a go-live, a stop: the selection is replaced.
Select(s) ==
  /\ Event
  /\ intent' = s /\ changed' = TRUE
  /\ UNCHANGED <<source, active, cfg, feed, handler, local, watch, history>>

\* PUT /api/v1/failover: save, then read the selection, then send it again.
SaveConfig(c) ==
  /\ put = "idle" /\ Event
  /\ cfg' = c /\ put' = "saved"
  /\ UNCHANGED <<intent, changed, source, active, feed, putIntent, local, watch, history>>

BorrowIntent ==
  /\ put = "saved"
  /\ putIntent' = intent /\ put' = "read"
  /\ UNCHANGED <<channels, local, watch, history, events>>

Nudge ==
  /\ put = "read"
  /\ intent' = putIntent /\ changed' = TRUE
  /\ put' = "idle"
  /\ UNCHANGED <<source, active, cfg, feed, putIntent, local, watch, history, events>>

\* A source connects, falls silent, resumes or disconnects.  A receiver of the
\* relay of a source that disconnects is an orphan until it has seen Closed, which it
\* does not while somebody keeps a sender.  A selected source that stops has not been
\* producing throughout, however soon it resumes.
Monitoring  == pc \in {"watch", "toFallback", "toIntended"}
Orphans(s)  == Monitoring /\ s = cur /\ rx = "open"

SetFeed(s, f) ==
  /\ f # feed[s] /\ Event
  /\ feed' = [feed EXCEPT ![s] = f]
  /\ IF f = "off" /\ Orphans(s) THEN rx' = "orphan" /\ kept' \in SUBSET Holder
                                ELSE UNCHANGED <<rx, kept>>
  /\ steady' = IF s = cur /\ f # "on" THEN 0 ELSE steady
  /\ UNCHANGED <<intent, changed, source, active, cfg, handler, local, buf, dark, rec, showing,
                 everLive, tickDue, left, quiet, sound>>

\* Who has kept a sender drops it.
Release(h) ==
  /\ h \in kept
  /\ kept' = kept \ {h}
  /\ UNCHANGED <<channels, handler, local, rx, buf, dark, rec, showing, everLive, tickDue, left,
                 history, events>>

\* Whether the supervisor can take a step now.
Busy ==
  \/ pc \in {"eval", "load", "ensure", "enter"}
  \/ pc = "parked" /\ changed
  \/ pc = "watch" /\ (changed \/ buf > 0 \/ (rx = "orphan" /\ kept = {}) \/ tickDue)
  \/ pc \in {"toFallback", "toIntended"} /\ left = 0

\* One unit passes.  A source with video puts a frame into its relay, the
\* ticker becomes due (missed ticks are skipped), and instants grow older.  A source that
\* came back behind a relay that is still held is out of the supervisor's sight, and not
\* counted as producing steadily.
Producing == feed[cur] = "on"
InSight   == Producing /\ kept = {}

Pass ==
  /\ Monitoring
  /\ Prompt => ~Busy
  /\ buf' = IF Producing /\ rx = "open" /\ buf < BufCap THEN buf + 1 ELSE buf
  /\ dark' = Older(dark) /\ rec' = Older(rec)
  /\ tickDue' = TRUE
  /\ left' = IF left > 0 THEN left - 1 ELSE 0
  /\ quiet' = IF Producing THEN 0 ELSE Older(quiet)
  /\ steady' = IF InSight THEN Older(steady) ELSE 0
  /\ sound' = IF quiet' > Tolerance THEN 0 ELSE Older(sound)
  /\ UNCHANGED <<channels, handler, local, rx, showing, everLive, kept, events>>

\* Nothing is asked of the supervisor and nothing is left to do.
Rest == pc = "parked" /\ ~changed /\ put = "idle" /\ UNCHANGED vars

Operator == (\E s \in Source \cup {None} : Select(s)) \/ (\E c \in Configs : SaveConfig(c))
Handler  == BorrowIntent \/ Nudge
Sources  == \E s \in Source, f \in Feeds : SetFeed(s, f)
Holders  == \E h \in Holder : Release(h)

Next == Supervisor \/ Operator \/ Handler \/ Sources \/ Holders \/ Pass \/ Rest

Spec == Init /\ [][Next]_vars

-----------------------------------------------------------------------------
(* Properties.                                                             *)

\* The supervisor is past its reads, and no send is on its way to it.
Settled == pc \in {"parked", "watch", "toFallback", "toIntended"} /\ ~changed /\ put = "idle"

\* The supervisor never settles on an old selection or on old settings: it marks
\* the selection seen before it loads the settings (failover.rs 45-46), and the
\* handler saves before it sends (routes/failover.rs 37-43), so a save that the
\* load missed is followed by a send that the wait has not seen.
UpToDate == Settled => cur = intent /\ use = cfg

\* What is on program is what the operator selected or what the saved settings
\* name as fallback, once the supervisor has settled; and never the fallback
\* when those settings switch failover off.
OnAirIsChosen ==
  Settled => source = intent \/ (source = cfg.fallback /\ cfg.enabled)

\* failover_active, which the studio shows, agrees with what is routed, across
\* the bail-outs of monitor() and the reloads that follow them: while it is set
\* the fallback is on air, until a restore is under way; and when it is not set
\* and no failover is under way, the selection the supervisor holds is on air.
FlagTellsTheTruth ==
  /\ active /\ pc # "toIntended" => source = fb /\ fb # None
  /\ ~active /\ pc \in {"parked", "watch"} => source = cur

\* "When the intended source stops producing video for offline_grace_ms it
\* substitutes the configured fallback" (failover.rs 7-9): never while the selected
\* source has been producing in the supervisor's sight throughout an offline grace and
\* the tick it takes to subscribe to a new relay, whatever the order in which the
\* branches of the select! run and however frames queue up behind an egress restart.
\* Out of sight, behind a relay that is held, it may be failed over from.
NoSpuriousFailover ==
  [][pc = "watch" /\ pc' = "toFallback" => steady <= OfflineGrace(use) + 1]_vars

\* "restores the intended source once it has been producing video again for
\* recovery_grace_ms" (failover.rs 9-11): no silence beyond the tolerance within
\* the recovery grace before a restore.
NoEarlyRestore ==
  [][pc = "watch" /\ pc' = "toIntended" => sound >= RecoveryGrace(use)]_vars

\* The fallback stands in from the moment it is sent, and no longer once the
\* selection is, although failover_active follows only behind the egress restart.
StandsIn == pc = "toFallback" \/ (pc # "toIntended" /\ active)

Promise == INSTANCE Substitution WITH want <- cur, plan <- use, substituted <- StandsIn

\* The supervisor does what failover promises (failover.rs 3-11): however selections,
\* settings, frames and ticks interleave, each of its steps acts on one selection and one
\* version of the settings, or changes nothing that the promise speaks of.
KeepsPromise == Promise!ASpec

\* Failover is armed for the selection.
Armed == ~Passthrough(cfg, intent)

\* A selection that stays dark is replaced by the fallback for good.
DarkIsReplaced ==
  <>[](Armed /\ put = "idle" /\ feed[intent] # "on") => <>[](source = cfg.fallback)
=============================================================================
