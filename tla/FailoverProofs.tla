--------------------------- MODULE FailoverProofs ---------------------------
(***************************************************************************)
(* What the failover supervisor keeps true for every set of sources and    *)
(* settings, every grace and every bound, and whatever the speed at which  *)
(* the runtime runs it; only the last section, on time, asks for Patient.  *)
(*                                                                         *)
(* UpToDate, OnAirIsChosen and FlagTellsTheTruth speak of the settled      *)
(* supervisor; IInv says what each program counter knows on the way there. *)
(***************************************************************************)
EXTENDS Program, TLAPS

\* Between monitor() being called and its return, failover is armed.
InMonitor == pc \in {"watch", "toFallback", "toIntended"}
IsArmed   == pc \in {"ensure", "enter"} \/ InMonitor

\* Past borrow_and_update() the selection is the one held, or a send is unseen.
SelectionHeld == pc # "eval" => cur = intent \/ changed

\* Past load_config() the settings are the ones held, or a send is unseen or on
\* its way from the handler that saved them.
SettingsHeld == pc \notin {"eval", "load"} => use = cfg \/ changed \/ put # "idle"

\* What monitor() was called with.
MonitorArgs == /\ IsArmed => ~Passthrough(use, cur)
               /\ InMonitor => fb = use.fallback

\* What is on air and what the flag says, at each point of the supervisor.
Routed ==
  /\ pc = "parked"     => source = cur /\ ~active
  /\ pc = "watch"      => source = (IF showing THEN fb ELSE cur) /\ active = showing
  /\ pc = "toFallback" => source = fb /\ ~active
  /\ pc = "toIntended" => source = cur /\ active

\* Outside of monitor() the flag is left over from the last call.
FlagLeftOver ==
  pc \in {"eval", "load", "ensure", "enter"} => (active => source = fb /\ fb # None)

IInv == TypeOK /\ SelectionHeld /\ SettingsHeld /\ MonitorArgs /\ Routed /\ FlagLeftOver

-----------------------------------------------------------------------------
(* An age stays an age.                                                    *)

\* Older, the passing of one tick, keeps an age within its bound.
LEMMA OlderType ==
  ASSUME NEW age \in (0..AgeCap) \cup {None}
  PROVE  /\ Older(age) \in (0..AgeCap) \cup {None}
         /\ age \in 0..AgeCap => Older(age) \in 0..AgeCap
  BY SourceAssumption, BoundAssumption DEF Older

\* ensure_fallback_running() changes no relay but that of a file it starts.
LEMMA StartedType ==
  ASSUME NEW f, feed \in [Source -> Feeds]
  PROVE  Started(f) \in [Source -> Feeds]
  BY DEF Started, Feeds

-----------------------------------------------------------------------------
(* Type correctness.                                                       *)

\* At boot nothing is selected and every relay is absent (state.rs, main.rs).
LEMMA InitType == Init => TypeOK
<1> SUFFICES ASSUME Init PROVE TypeOK
  OBVIOUS
<1>1. /\ changed \in BOOLEAN /\ active \in BOOLEAN /\ showing \in BOOLEAN /\ everLive \in BOOLEAN
      /\ tickDue \in BOOLEAN
  BY Zenon DEF Init
<1> QED
  BY <1>1, SourceAssumption, ConfigAssumption, BoundAssumption DEF Init, TypeOK, PCs, Feeds

\* Every step of the supervisor (failover.rs 42-205) leaves every variable in its type.
LEMMA SupervisorType == TypeOK /\ Supervisor => TypeOK'
<1> SUFFICES ASSUME TypeOK, Supervisor PROVE TypeOK'
  OBVIOUS
<1> USE BoundAssumption DEF TypeOK, channels, handler, watch, local, history, PCs
<1>1. CASE ReadIntent
  <2>1. changed' \in BOOLEAN
    BY <1>1, Zenon DEF ReadIntent
  <2> QED
    BY <1>1, <2>1 DEF ReadIntent
<1>2. CASE LoadConfig
  <2>1. active' \in BOOLEAN
    BY <1>2, Zenon DEF LoadConfig
  <2> QED
    BY <1>2, <2>1 DEF LoadConfig
<1>3. CASE Unpark
  BY <1>3 DEF Unpark
<1>4. CASE EnsureFallback
  BY <1>4, StartedType DEF EnsureFallback
<1>5. CASE EnterMonitor
  <2>1. use.fallback \in Source \cup {None}
    BY ConfigAssumption DEF ConfigRecords
  <2>2. active' \in BOOLEAN /\ showing' \in BOOLEAN /\ everLive' \in BOOLEAN /\ tickDue' \in BOOLEAN
    BY <1>5, Zenon DEF EnterMonitor, NewLocals
  <2> QED
    BY <1>5, <2>1, <2>2 DEF EnterMonitor, NewLocals
<1>6. CASE IntentChanged
  <2>1. showing' \in BOOLEAN /\ everLive' \in BOOLEAN /\ tickDue' \in BOOLEAN
    BY <1>6, Zenon DEF IntentChanged, NewLocals
  <2> QED
    BY <1>6, <2>1 DEF IntentChanged, NewLocals
<1>7. CASE RecvVideo
  BY <1>7 DEF RecvVideo, RecoveringSince
<1>8. CASE RecvClosed
  BY <1>8 DEF RecvClosed
<1>9. CASE FailOver
  <2>1. tickDue' \in BOOLEAN
    BY <1>9, Zenon DEF FailOver
  <2> QED
    BY <1>9, StartedType, <2>1 DEF FailOver, Resubscribe, BeginSplice
<1>10. CASE RecoveryLost
  <2>1. tickDue' \in BOOLEAN
    BY <1>10, Zenon DEF RecoveryLost
  <2> QED
    BY <1>10, <2>1 DEF RecoveryLost, Resubscribe
<1>11. CASE Restore
  <2>1. tickDue' \in BOOLEAN
    BY <1>11, Zenon DEF Restore
  <2> QED
    BY <1>11, <2>1 DEF Restore, Resubscribe, BeginSplice
<1>12. CASE QuietTick
  <2>1. tickDue' \in BOOLEAN
    BY <1>12, Zenon DEF QuietTick
  <2> QED
    BY <1>12, <2>1 DEF QuietTick, Resubscribe
<1>13. CASE FailedOver
  BY <1>13 DEF FailedOver
<1>14. CASE Restored
  <2>1. showing' \in BOOLEAN /\ active' \in BOOLEAN
    BY <1>14, Zenon DEF Restored
  <2> QED
    BY <1>14, <2>1 DEF Restored
<1> QED
  BY <1>1, <1>2, <1>3, <1>4, <1>5, <1>6, <1>7, <1>8, <1>9, <1>10, <1>11, <1>12, <1>13, <1>14
     DEF Supervisor

\* So does every step of the operator, the handler, the sources and the clock.
LEMMA EnvironmentType ==
  TypeOK /\ (Operator \/ Handler \/ Sources \/ Holders \/ Pass \/ Rest) => TypeOK'
<1> SUFFICES ASSUME TypeOK, Operator \/ Handler \/ Sources \/ Holders \/ Pass \/ Rest PROVE TypeOK'
  OBVIOUS
<1> USE BoundAssumption DEF TypeOK, channels, handler, watch, local, history, PCs
<1>1. ASSUME NEW s \in Source \cup {None}, Select(s) PROVE TypeOK'
  BY <1>1 DEF Select, Event
<1>2. ASSUME NEW c \in Configs, SaveConfig(c) PROVE TypeOK'
  BY <1>2 DEF SaveConfig, Event
<1>3. CASE BorrowIntent
  BY <1>3 DEF BorrowIntent
<1>4. CASE Nudge
  BY <1>4 DEF Nudge
<1>5. ASSUME NEW s \in Source, NEW f \in Feeds, SetFeed(s, f) PROVE TypeOK'
  BY <1>5 DEF SetFeed, Event
<1>8. ASSUME NEW h \in Holder, Release(h) PROVE TypeOK'
  BY <1>8 DEF Release
<1>6. CASE Pass
  <2>1. /\ dark' \in 0..AgeCap /\ rec' \in (0..AgeCap) \cup {None}
        /\ quiet' \in 0..AgeCap /\ steady' \in 0..AgeCap /\ sound' \in 0..AgeCap
    BY <1>6, OlderType DEF Pass
  <2>2. buf' \in 0..BufCap /\ left' \in 0..SpliceTime
    BY <1>6 DEF Pass
  <2> QED
    BY <1>6, <2>1, <2>2 DEF Pass
<1>7. CASE Rest
  BY <1>7 DEF Rest, vars
<1> QED
  BY <1>1, <1>2, <1>3, <1>4, <1>5, <1>6, <1>7, <1>8 DEF Operator, Handler, Sources, Holders

\* Type correctness: in particular a relay's backlog, an age and the splice
\* countdown never leave their ranges.
THEOREM TypeCorrect == Spec => []TypeOK
<1>1. Init => TypeOK
  BY InitType
<1>2. TypeOK /\ [Next]_vars => TypeOK'
  <2>1. TypeOK /\ UNCHANGED vars => TypeOK'
    BY DEF TypeOK, vars, channels, handler, watch, local, history
  <2> QED
    BY <2>1, SupervisorType, EnvironmentType DEF Next
<1> QED
  BY <1>1, <1>2, PTL DEF Spec

-----------------------------------------------------------------------------
(* The inductive invariant.                                                *)

\* Every step of the supervisor keeps what its program counter knows.
LEMMA SupervisorKeeps == IInv /\ Supervisor => IInv'
<1> SUFFICES ASSUME IInv, Supervisor PROVE (SelectionHeld /\ SettingsHeld /\ MonitorArgs /\ Routed /\ FlagLeftOver)'
  BY SupervisorType DEF IInv
<1> USE DEF IInv, SelectionHeld, SettingsHeld, MonitorArgs, Routed, FlagLeftOver, InMonitor, IsArmed,
            Passthrough, channels, handler, watch, local, history
<1>1. CASE ReadIntent
  BY <1>1 DEF ReadIntent
<1>2. CASE LoadConfig
  BY <1>2 DEF LoadConfig
<1>3. CASE Unpark
  BY <1>3 DEF Unpark
<1>4. CASE EnsureFallback
  BY <1>4 DEF EnsureFallback
<1>5. CASE EnterMonitor
  BY <1>5 DEF EnterMonitor, NewLocals
<1>6. CASE IntentChanged
  BY <1>6 DEF IntentChanged, TypeOK
<1>7. CASE RecvVideo
  BY <1>7 DEF RecvVideo
<1>8. CASE RecvClosed
  BY <1>8 DEF RecvClosed
<1>9. CASE FailOver
  BY <1>9 DEF FailOver, Dark
<1>10. CASE RecoveryLost
  BY <1>10 DEF RecoveryLost
<1>11. CASE Restore
  BY <1>11 DEF Restore, Recovered
<1>12. CASE QuietTick
  BY <1>12 DEF QuietTick
<1>13. CASE FailedOver
  BY <1>13 DEF FailedOver
<1>14. CASE Restored
  BY <1>14 DEF Restored
<1> QED
  BY <1>1, <1>2, <1>3, <1>4, <1>5, <1>6, <1>7, <1>8, <1>9, <1>10, <1>11, <1>12, <1>13, <1>14
     DEF Supervisor

\* Nothing the operator, the handler, the sources or the clock do breaks it.
LEMMA EnvironmentKeeps ==
  IInv /\ (Operator \/ Handler \/ Sources \/ Holders \/ Pass \/ Rest) => IInv'
<1> SUFFICES ASSUME IInv, Operator \/ Handler \/ Sources \/ Holders \/ Pass \/ Rest
             PROVE (SelectionHeld /\ SettingsHeld /\ MonitorArgs /\ Routed /\ FlagLeftOver)'
  BY EnvironmentType DEF IInv
<1> USE DEF IInv, SelectionHeld, SettingsHeld, MonitorArgs, Routed, FlagLeftOver, InMonitor, IsArmed,
            Passthrough, channels, handler, watch, local, history
<1>1. ASSUME NEW s \in Source \cup {None}, Select(s)
      PROVE (SelectionHeld /\ SettingsHeld /\ MonitorArgs /\ Routed /\ FlagLeftOver)'
  BY <1>1 DEF Select
<1>2. ASSUME NEW c \in Configs, SaveConfig(c)
      PROVE (SelectionHeld /\ SettingsHeld /\ MonitorArgs /\ Routed /\ FlagLeftOver)'
  BY <1>2 DEF SaveConfig
<1>3. CASE BorrowIntent
  BY <1>3 DEF BorrowIntent
<1>4. CASE Nudge
  BY <1>4 DEF Nudge
<1>5. ASSUME NEW s \in Source, NEW f \in Feeds, SetFeed(s, f)
      PROVE (SelectionHeld /\ SettingsHeld /\ MonitorArgs /\ Routed /\ FlagLeftOver)'
  BY <1>5 DEF SetFeed
<1>8. ASSUME NEW h \in Holder, Release(h)
      PROVE (SelectionHeld /\ SettingsHeld /\ MonitorArgs /\ Routed /\ FlagLeftOver)'
  BY <1>8 DEF Release
<1>6. CASE Pass
  BY <1>6 DEF Pass
<1>7. CASE Rest
  BY <1>7 DEF Rest, vars
<1> QED
  BY <1>1, <1>2, <1>3, <1>4, <1>5, <1>6, <1>7, <1>8 DEF Operator, Handler, Sources, Holders

\* What the supervisor knows at each point, whatever the others do meanwhile.
THEOREM Inductive == Spec => []IInv
<1>1. Init => IInv
  BY InitType DEF Init, IInv, SelectionHeld, SettingsHeld, MonitorArgs, Routed, FlagLeftOver, InMonitor, IsArmed
<1>2. IInv /\ [Next]_vars => IInv'
  <2>1. IInv /\ UNCHANGED vars => IInv'
    BY DEF IInv, TypeOK, SelectionHeld, SettingsHeld, MonitorArgs, Routed, FlagLeftOver, InMonitor, IsArmed,
           vars, channels, handler, watch, local, history, Passthrough
  <2> QED
    BY <2>1, SupervisorKeeps, EnvironmentKeeps DEF Next
<1> QED
  BY <1>1, <1>2, PTL DEF Spec

-----------------------------------------------------------------------------
(* What a reader should know of.                                           *)

\* The supervisor never settles on an old selection or old settings.
THEOREM SettledIsUpToDate == Spec => []UpToDate
<1>1. IInv => UpToDate
  BY DEF IInv, UpToDate, Settled, SelectionHeld, SettingsHeld
<1> QED
  BY <1>1, Inductive, PTL

\* Once it has settled, what is on program is the operator's selection or the
\* fallback of the settings as saved, and the fallback only with failover on.
THEOREM SettledOnAir == Spec => []OnAirIsChosen
<1>1. IInv => OnAirIsChosen
  BY DEF IInv, OnAirIsChosen, Settled, SelectionHeld, SettingsHeld, MonitorArgs, Routed, InMonitor, IsArmed,
         Passthrough
<1> QED
  BY <1>1, Inductive, PTL

\* failover_active agrees with what is routed, at every point.
THEOREM FlagIsTrue == Spec => []FlagTellsTheTruth
<1>1. IInv => FlagTellsTheTruth
  BY DEF IInv, TypeOK, PCs, FlagTellsTheTruth, MonitorArgs, Routed, FlagLeftOver, InMonitor, IsArmed,
         Passthrough
<1> QED
  BY <1>1, Inductive, PTL
-----------------------------------------------------------------------------
(* The supervisor implements Substitution.                                 *)

\* Every step of the supervisor is one of the promise's, or changes nothing it speaks of.
LEMMA SupervisorSteps == IInv /\ Supervisor => Promise!ANext \/ UNCHANGED Promise!avars
<1> SUFFICES ASSUME IInv, Supervisor PROVE Promise!ANext \/ UNCHANGED Promise!avars
  OBVIOUS
<1> USE DEF IInv, MonitorArgs, Routed, InMonitor, IsArmed, Passthrough, StandsIn, Promise!Armed, Promise!avars,
            channels, handler, watch, local, history
<1>1. CASE ReadIntent
  <2>1. Promise!Take
    BY <1>1 DEF ReadIntent, Promise!Take
  <2> QED
    BY <2>1 DEF Promise!ANext
<1>2. CASE LoadConfig
  <2>1. Promise!Adopt
    BY <1>2 DEF LoadConfig, Promise!Adopt, Promise!ShowSelection
  <2> QED
    BY <2>1 DEF Promise!ANext
<1>3. CASE Unpark
  BY <1>3 DEF Unpark
<1>4. CASE EnsureFallback
  BY <1>4 DEF EnsureFallback
<1>5. CASE EnterMonitor
  <2>1. Promise!Show
    BY <1>5 DEF EnterMonitor, Promise!Show, Promise!ShowSelection
  <2> QED
    BY <2>1 DEF Promise!ANext
<1>6. CASE IntentChanged
  BY <1>6 DEF IntentChanged
<1>7. CASE RecvVideo
  BY <1>7 DEF RecvVideo
<1>8. CASE RecvClosed
  BY <1>8 DEF RecvClosed
<1>9. CASE FailOver
  <2>1. Promise!Substitute
    BY <1>9 DEF FailOver, Dark, Promise!Substitute
  <2> QED
    BY <2>1 DEF Promise!ANext
<1>10. CASE RecoveryLost
  BY <1>10 DEF RecoveryLost
<1>11. CASE Restore
  <2>1. Promise!Show
    BY <1>11 DEF Restore, Promise!Show, Promise!ShowSelection
  <2> QED
    BY <2>1 DEF Promise!ANext
<1>12. CASE QuietTick
  BY <1>12 DEF QuietTick
<1>13. CASE FailedOver
  BY <1>13 DEF FailedOver
<1>14. CASE Restored
  BY <1>14 DEF Restored
<1> QED
  BY <1>1, <1>2, <1>3, <1>4, <1>5, <1>6, <1>7, <1>8, <1>9, <1>10, <1>11, <1>12, <1>13, <1>14
     DEF Supervisor

\* The operator selects and saves; the sources and the clock change nothing.
LEMMA EnvironmentSteps ==
  IInv /\ (Operator \/ Handler \/ Sources \/ Holders \/ Pass \/ Rest) => Promise!ANext \/ UNCHANGED Promise!avars
<1> SUFFICES ASSUME IInv, Operator \/ Handler \/ Sources \/ Holders \/ Pass \/ Rest
             PROVE Promise!ANext \/ UNCHANGED Promise!avars
  OBVIOUS
<1> USE DEF StandsIn, Promise!avars, channels, handler, watch, local, history
<1>1. ASSUME NEW s \in Source \cup {None}, Select(s) PROVE Promise!ANext
  <2>1. Promise!Choose(s)
    BY <1>1 DEF Select, Promise!Choose
  <2> QED
    BY <2>1 DEF Promise!ANext
<1>2. ASSUME NEW c \in Configs, SaveConfig(c) PROVE Promise!ANext
  <2>1. Promise!Save(c)
    BY <1>2 DEF SaveConfig, Promise!Save
  <2> QED
    BY <2>1 DEF Promise!ANext
<1>3. CASE BorrowIntent
  BY <1>3 DEF BorrowIntent
<1>4. CASE Nudge
  <2>1. Promise!Choose(putIntent)
    BY <1>4 DEF Nudge, Promise!Choose
  <2> QED
    BY <2>1 DEF Promise!ANext, IInv, TypeOK
<1>5. ASSUME NEW s \in Source, NEW f \in Feeds, SetFeed(s, f) PROVE UNCHANGED Promise!avars
  BY <1>5 DEF SetFeed
<1>8. ASSUME NEW h \in Holder, Release(h) PROVE UNCHANGED Promise!avars
  BY <1>8 DEF Release
<1>6. CASE Pass
  BY <1>6 DEF Pass
<1>7. CASE Rest
  BY <1>7 DEF Rest, vars
<1> QED
  BY <1>1, <1>2, <1>3, <1>4, <1>5, <1>6, <1>7, <1>8 DEF Operator, Handler, Sources, Holders

\* The supervisor implements what failover promises, for every set of sources and
\* settings, and however late it runs.
THEOREM Implements == Spec => KeepsPromise
<1>1. Init => Promise!AInit
  BY DEF Init, Promise!AInit, StandsIn
<1>2. IInv /\ [Next]_vars => [Promise!ANext]_Promise!avars
  <2>1. UNCHANGED vars => UNCHANGED Promise!avars
    BY DEF vars, channels, handler, watch, local, history, Promise!avars, StandsIn
  <2> QED
    BY <2>1, SupervisorSteps, EnvironmentSteps DEF Next
<1> QED
  BY <1>1, <1>2, Inductive, PTL DEF Spec, KeepsPromise, Promise!ASpec
-----------------------------------------------------------------------------
(* Time.  The two action properties compare what the supervisor measures,   *)
(* the age of the last frame it read, with what the selected source did.    *)
(* The two differ while an egress restart keeps it from reading, while a    *)
(* relay waits to be subscribed to, and while frames are queued.            *)

\* What the two theorems ask of the constants: the runtime runs the supervisor
\* before time goes on; a relay holds a frame; and the offline grace is no shorter
\* than the silence that is forgiven to a source before it is restored and the
\* egress restart that follows.
Patient ==
  /\ Prompt /\ BufCap >= 1 /\ GapLimit >= 1
  /\ \A c \in Configs : OfflineGrace(c) >= GapLimit + SpliceTime

Splicing == pc \in {"toFallback", "toIntended"}

\* The supervisor has just learned that the source is back, or has just put it back.
JustBack == IF showing THEN rec \in {None, 0} ELSE dark <= GapLimit + SpliceTime

\* A source that is not producing has not been producing.
SteadyIsOn == Monitoring /\ feed[cur] # "on" => steady = 0

\* A backlog is of a source that produces, or was left by a splice that has just ended.
BacklogIsFresh ==
  buf > 0 => /\ pc = "watch" => quiet = 0 \/ (quiet <= SpliceTime /\ JustBack)
             /\ Splicing => quiet + left <= SpliceTime

\* While somebody keeps its relay, the source that came back is not counted as steady.
KeptIsUnseen == kept # {} => rx = "orphan" /\ steady = 0

\* A relay that is gone was lost just now, or is kept.
OrphanIsFresh == pc = "watch" /\ rx = "orphan" => steady = 0 \/ JustBack

\* A restore starts within the gap, and takes as long as a splice does.
RestoreIsShort == pc = "toIntended" => dark + left <= GapLimit + SpliceTime

\* A new relay is subscribed to at the first tick behind a splice.
SubscribesSoon ==
  rx # "open" =>
    /\ pc = "watch" => steady <= SpliceTime + 1 /\ (steady = SpliceTime + 1 => tickDue /\ rx = "none")
    /\ Splicing => steady + left <= SpliceTime

\* A relay with video that has been read empty was read just now.
ReadIsFresh ==
  Monitoring /\ rx = "open" /\ steady >= SpliceTime + 2 /\ buf = 0 => dark = 0

\* Once it has been read from, the age of the last frame is that of a splice at most.
ShownIsFresh ==
  pc = "watch" /\ ~showing /\ rx = "open" /\ steady >= SpliceTime + 3 => dark <= GapLimit + SpliceTime

\* While recovery is timed the source has been sound, or the tick that ends it is due.
RecoveryIsSound ==
  pc = "watch" /\ showing /\ rec # None =>
    \/ sound >= rec /\ quiet <= dark + SpliceTime
    \/ buf = 0 /\ dark > GapLimit /\ tickDue

Clocks == /\ SteadyIsOn /\ BacklogIsFresh /\ OrphanIsFresh /\ RestoreIsShort /\ SubscribesSoon
          /\ ReadIsFresh /\ ShownIsFresh /\ RecoveryIsSound /\ KeptIsUnseen

\* The graces in force, with the floor of one tick and the longer startup grace
\* (failover.rs 77-78, 90).
LEMMA GraceBounds ==
  ASSUME Patient, TypeOK
  PROVE  /\ OfflineGrace(use) \in Nat /\ OfflineGrace(use) >= GapLimit + SpliceTime
         /\ RecoveryGrace(use) \in Nat /\ RecoveryGrace(use) >= 1
         /\ Threshold \in Nat /\ Threshold >= OfflineGrace(use)
<1>1. use.offline \in Nat /\ use.recovery \in Nat
  BY ConfigAssumption DEF TypeOK, ConfigRecords
<1> QED
  BY <1>1, BoundAssumption DEF Patient, TypeOK, OfflineGrace, RecoveryGrace, AtLeastOneTick, Threshold,
     StartupGrace

\* What a splice starts with, it has for as long as it takes.
LEMMA SpliceStarts ==
  ASSUME /\ pc' # "watch" /\ left' \in {0, SpliceTime}
         /\ buf' = buf /\ quiet' = quiet /\ steady' = steady,
         \A l \in {0, SpliceTime} : /\ buf > 0 => quiet + l <= SpliceTime
                                    /\ rx' # "open" => steady + l <= SpliceTime
  PROVE  BacklogIsFresh' /\ SubscribesSoon'
<1> DEFINE Length == {0, SpliceTime}
<1>1. left' \in Length
  OBVIOUS
<1>2. \A l \in Length : /\ buf > 0 => quiet + l <= SpliceTime
                        /\ rx' # "open" => steady + l <= SpliceTime
  OBVIOUS
<1> HIDE DEF Length
<1>3. ASSUME buf' > 0 PROVE quiet' + left' <= SpliceTime
  <2>1. buf > 0
    BY <1>3, Zenon
  <2>2. quiet + left' <= SpliceTime
    BY ONLY <1>1, <1>2, <2>1, Zenon
  <2> QED
    BY <2>2, Zenon
<1>4. ASSUME rx' # "open" PROVE steady' + left' <= SpliceTime
  <2>1. steady + left' <= SpliceTime
    BY ONLY <1>1, <1>2, <1>4, Zenon
  <2> QED
    BY <2>1, Zenon
<1>5. BacklogIsFresh'
  BY <1>3, Zenon DEF BacklogIsFresh
<1>6. SubscribesSoon'
  BY <1>4, Zenon DEF SubscribesSoon
<1> QED
  BY <1>5, <1>6

\* monitor() runs only for a selected source (failover.rs 60-67).
LEMMA InMonitorKnown == IInv /\ Monitoring => cur \in Source
  BY DEF IInv, TypeOK, MonitorArgs, IsArmed, InMonitor, Monitoring, Passthrough

\* Every step of the supervisor keeps the clocks in step.
LEMMA SupervisorClocks == ASSUME Patient PROVE IInv /\ Clocks /\ Supervisor => Clocks'
<1> SUFFICES ASSUME IInv, Clocks, Supervisor PROVE Clocks'
  OBVIOUS
<1>0. /\ GapLimit \in Nat /\ SpliceTime \in Nat /\ AgeCap \in Nat /\ GapLimit >= 1
      /\ dark \in Nat /\ quiet \in Nat /\ steady \in Nat /\ sound \in Nat /\ left \in Nat /\ buf \in Nat
      /\ left <= SpliceTime
      /\ rec \in Nat \cup {None} /\ None \notin Nat
      /\ rx \in {"none", "open", "orphan"}
  BY BoundAssumption, SourceAssumption DEF Patient, IInv, TypeOK
<1>00. /\ OfflineGrace(use) \in Nat /\ OfflineGrace(use) >= GapLimit + SpliceTime
       /\ RecoveryGrace(use) \in Nat /\ RecoveryGrace(use) >= 1
       /\ Threshold \in Nat /\ Threshold >= OfflineGrace(use)
  BY GraceBounds DEF IInv
<1> DEFINE All == /\ SteadyIsOn' /\ BacklogIsFresh' /\ OrphanIsFresh' /\ RestoreIsShort' /\ SubscribesSoon'
                  /\ ReadIsFresh' /\ ShownIsFresh' /\ RecoveryIsSound' /\ KeptIsUnseen'
<1>a. SUFFICES All
  BY DEF Clocks
<1> USE <1>0 DEF Clocks, SteadyIsOn, BacklogIsFresh, OrphanIsFresh, RestoreIsShort, SubscribesSoon,
                 ReadIsFresh, ShownIsFresh, RecoveryIsSound, KeptIsUnseen, JustBack, Splicing, Monitoring, channels, handler, watch,
                 local, history
<1>1. CASE ReadIntent
  BY <1>1 DEF ReadIntent
<1>2. CASE LoadConfig
  BY <1>2 DEF LoadConfig
<1>3. CASE Unpark
  BY <1>3 DEF Unpark
<1>4. CASE EnsureFallback
  BY <1>4 DEF EnsureFallback
<1>5. CASE EnterMonitor
  BY <1>5 DEF EnterMonitor, NewLocals
<1>6. CASE IntentChanged
  BY <1>6 DEF IntentChanged, NewLocals
<1>7. CASE RecvVideo
  BY <1>7 DEF RecvVideo, RecoveringSince
<1>8. CASE RecvClosed
  BY <1>8 DEF RecvClosed
<1>9. CASE FailOver
  <2>1. /\ pc = "watch" /\ pc' = "toFallback" /\ left' \in {0, SpliceTime} /\ cur' = cur /\ ~showing
        /\ dark > GapLimit + SpliceTime
        /\ dark' = dark /\ buf' = buf /\ quiet' = quiet /\ steady' = steady
    BY <1>9, <1>00 DEF FailOver, BeginSplice, Dark
  <2>2. rx' = IF rx = "none" /\ feed[cur] # "off" THEN "open" ELSE rx
    BY <1>9 DEF FailOver, Resubscribe
  <2>3. feed'[cur] # "on" => feed[cur] # "on"
    <3>1. feed' = Started(fb) /\ feed \in [Source -> Feeds] /\ cur \in Source
      BY <1>9, <2>1, InMonitorKnown DEF FailOver, IInv, TypeOK
    <3> QED
      BY <3>1 DEF Started
  <2>4. SteadyIsOn' /\ OrphanIsFresh' /\ RestoreIsShort' /\ ShownIsFresh' /\ RecoveryIsSound'
    BY <2>1, <2>3
  <2>5. ~JustBack
    BY <2>1
  <2>6. /\ buf > 0 => quiet = 0
        /\ rx' # "open" => steady = 0
        /\ rx' = "open" /\ steady >= SpliceTime + 2 /\ buf = 0 => dark = 0
    <3>1. buf > 0 => quiet = 0
      BY <2>1, <2>5, Zenon DEF BacklogIsFresh
    <3>2. rx = "orphan" => steady = 0
      BY <2>1, <2>5
    <3>3. rx = "none" /\ feed[cur] = "off" => steady = 0
      BY <2>1
    <3>4. rx = "none" => steady <= SpliceTime + 1
      BY <2>1
    <3>5. rx = "open" /\ steady >= SpliceTime + 2 /\ buf = 0 => dark = 0
      BY <2>1
    <3> QED
      BY <3>1, <3>2, <3>3, <3>4, <3>5, <2>2
  <2>7. BacklogIsFresh' /\ SubscribesSoon' /\ ReadIsFresh'
    <3>1. \A l \in {0, SpliceTime} : /\ buf > 0 => quiet + l <= SpliceTime
                                     /\ rx' # "open" => steady + l <= SpliceTime
      BY <2>6
    <3>2. /\ pc' # "watch" /\ left' \in {0, SpliceTime}
          /\ buf' = buf /\ quiet' = quiet /\ steady' = steady
      BY <2>1
    <3> HIDE DEF BacklogIsFresh, SubscribesSoon
    <3>4. BacklogIsFresh' /\ SubscribesSoon'
      BY ONLY <3>1, <3>2, SpliceStarts, Zenon
    <3>3. ReadIsFresh'
      BY <2>1, <2>6
    <3> QED
      BY <3>3, <3>4
  <2>8. KeptIsUnseen'
    BY <2>1, <2>2, <1>9 DEF FailOver
  <2> QED
    BY <2>4, <2>7, <2>8
<1>10. CASE RecoveryLost
  BY <1>10 DEF RecoveryLost, Resubscribe, DarkAgain
<1>11. CASE Restore
  <2>1. /\ pc = "watch" /\ pc' = "toIntended" /\ left' \in {0, SpliceTime} /\ cur' = cur /\ showing
        /\ rec \in Nat /\ rec > 1 /\ dark <= GapLimit
        /\ dark' = dark /\ buf' = buf /\ quiet' = quiet /\ steady' = steady /\ feed' = feed
    BY <1>11, <1>00 DEF Restore, BeginSplice, Recovered, DarkAgain
  <2>2. rx' = IF rx = "none" /\ feed[cur] # "off" THEN "open" ELSE rx
    BY <1>11 DEF Restore, Resubscribe
  <2>3. SteadyIsOn' /\ OrphanIsFresh' /\ RestoreIsShort' /\ ShownIsFresh' /\ RecoveryIsSound'
    <3>1. SteadyIsOn'
      BY <2>1
    <3>2. OrphanIsFresh'
      BY <2>1
    <3>3. RestoreIsShort'
      <4>1. \A l \in {0, SpliceTime} : dark + l <= GapLimit + SpliceTime
        BY <2>1
      <4> QED
        BY <2>1, <4>1, Zenon DEF RestoreIsShort
    <3>4. ShownIsFresh'
      BY <2>1
    <3>5. RecoveryIsSound'
      BY <2>1
    <3> QED
      BY <3>1, <3>2, <3>3, <3>4, <3>5
  <2>4. ~JustBack
    BY <2>1
  <2>5. /\ buf > 0 => quiet = 0
        /\ rx' # "open" => steady = 0
        /\ rx' = "open" /\ steady >= SpliceTime + 2 /\ buf = 0 => dark = 0
    <3>1. buf > 0 => quiet = 0
      BY <2>1, <2>4, Zenon DEF BacklogIsFresh
    <3>2. rx = "orphan" => steady = 0
      BY <2>1, <2>4
    <3>3. rx = "none" /\ feed[cur] = "off" => steady = 0
      BY <2>1
    <3>4. rx = "none" => steady <= SpliceTime + 1
      BY <2>1
    <3>5. rx = "open" /\ steady >= SpliceTime + 2 /\ buf = 0 => dark = 0
      BY <2>1
    <3> QED
      BY <3>1, <3>2, <3>3, <3>4, <3>5, <2>2
  <2>6. BacklogIsFresh' /\ SubscribesSoon' /\ ReadIsFresh'
    <3>1. \A l \in {0, SpliceTime} : /\ buf > 0 => quiet + l <= SpliceTime
                                     /\ rx' # "open" => steady + l <= SpliceTime
      BY <2>5
    <3>2. /\ pc' # "watch" /\ left' \in {0, SpliceTime}
          /\ buf' = buf /\ quiet' = quiet /\ steady' = steady
      BY <2>1
    <3> HIDE DEF BacklogIsFresh, SubscribesSoon
    <3>4. BacklogIsFresh' /\ SubscribesSoon'
      BY ONLY <3>1, <3>2, SpliceStarts, Zenon
    <3>3. ReadIsFresh'
      BY <2>1, <2>5
    <3> QED
      BY <3>3, <3>4
  <2>7. KeptIsUnseen'
    BY <2>1, <2>2, <1>11 DEF Restore
  <2> QED
    BY <2>3, <2>6, <2>7
<1>12. CASE QuietTick
  BY <1>12, <1>00 DEF QuietTick, Resubscribe, Dark, DarkAgain
<1>13. CASE FailedOver
  BY <1>13 DEF FailedOver
<1>14. CASE Restored
  BY <1>14 DEF Restored
<1> QED
  BY <1>1, <1>2, <1>3, <1>4, <1>5, <1>6, <1>7, <1>8, <1>9, <1>10, <1>11, <1>12, <1>13, <1>14
     DEF Supervisor

\* One tick: an age grows by one, or has reached its bound.
LEMMA OlderStep ==
  ASSUME NEW age \in 0..AgeCap
  PROVE  /\ Older(age) \in Nat /\ Older(age) <= AgeCap
         /\ Older(age) >= age /\ Older(age) <= age + 1
         /\ age < AgeCap => Older(age) = age + 1
  BY SourceAssumption, BoundAssumption DEF Older

\* Time passes only while the supervisor waits: everything it can do is done.
LEMMA PassClocks == ASSUME Patient PROVE IInv /\ Clocks /\ Pass => Clocks'
<1> SUFFICES ASSUME IInv, Clocks, Pass PROVE Clocks'
  OBVIOUS
<1> DEFINE d == Older(dark)   q == Older(quiet)   t == Older(steady)   n == Older(sound)
<1>1. /\ GapLimit \in Nat /\ SpliceTime \in Nat /\ AgeCap \in Nat /\ GapLimit >= 1
      /\ BufCap \in Nat /\ BufCap >= 1
      /\ dark \in 0..AgeCap /\ quiet \in 0..AgeCap /\ steady \in 0..AgeCap /\ sound \in 0..AgeCap
      /\ left \in Nat /\ buf \in Nat /\ left <= SpliceTime
      /\ rx \in {"none", "open", "orphan"} /\ None \notin Nat
      /\ rec \in (0..AgeCap) \cup {None}
  BY BoundAssumption, SourceAssumption DEF Patient, IInv, TypeOK
<1>2. /\ d \in Nat /\ d <= AgeCap /\ d >= dark /\ d <= dark + 1 /\ (dark < AgeCap => d = dark + 1)
      /\ q \in Nat /\ q <= AgeCap /\ q >= quiet /\ q <= quiet + 1 /\ (quiet < AgeCap => q = quiet + 1)
      /\ t \in Nat /\ t <= AgeCap /\ t >= steady /\ t <= steady + 1
      /\ n \in Nat /\ n <= AgeCap /\ n >= sound /\ (sound < AgeCap => n = sound + 1)
  BY <1>1, OlderStep
<1>3. /\ Monitoring /\ pc' = pc /\ cur' = cur /\ feed' = feed /\ rx' = rx /\ showing' = showing
      /\ dark' = d /\ rec' = Older(rec) /\ tickDue' = TRUE
      /\ left' = (IF left > 0 THEN left - 1 ELSE 0)
      /\ buf' = (IF Producing /\ rx = "open" /\ buf < BufCap THEN buf + 1 ELSE buf)
      /\ quiet' = (IF Producing THEN 0 ELSE q)
      /\ steady' = (IF InSight THEN t ELSE 0) /\ kept' = kept
      /\ sound' = (IF quiet' > Tolerance THEN 0 ELSE n)
  BY DEF Pass, channels, local
<1>4. /\ pc = "watch" => buf = 0 /\ (rx = "orphan" => kept # {}) /\ ~tickDue
      /\ Splicing => left > 0
  BY <1>1 DEF Patient, Pass, Busy, Splicing
<1> HIDE DEF d, q, t, n
<1>5. SteadyIsOn'
  BY <1>1, <1>3 DEF SteadyIsOn, Producing, InSight
<1>6. BacklogIsFresh'
  BY <1>1, <1>2, <1>3, <1>4 DEF Clocks, BacklogIsFresh, Splicing, Monitoring
<1>7. OrphanIsFresh' /\ KeptIsUnseen'
  BY <1>3, <1>4 DEF Clocks, OrphanIsFresh, KeptIsUnseen, InSight
<1>8. RestoreIsShort'
  BY <1>1, <1>2, <1>3, <1>4 DEF Clocks, RestoreIsShort, Splicing
<1>9. SubscribesSoon'
  BY <1>1, <1>2, <1>3, <1>4 DEF Clocks, SubscribesSoon, KeptIsUnseen, InSight, Splicing
<1>10. ReadIsFresh'
  BY <1>1, <1>2, <1>3, <1>4 DEF ReadIsFresh, InSight
<1>11. ShownIsFresh'
  BY <1>1, <1>2, <1>3, <1>4 DEF Clocks, ReadIsFresh, ShownIsFresh, InSight, Monitoring
<1>12. ASSUME pc = "watch", showing, rec' # None
       PROVE  \/ sound' >= rec' /\ quiet' <= d + SpliceTime
              \/ buf' = 0 /\ d > GapLimit
  <2>1. rec \in 0..AgeCap
    BY <1>1, <1>3, <1>12 DEF Older
  <2>2. buf = 0 /\ sound >= rec /\ quiet <= dark + SpliceTime
    BY <1>1, <1>4, <1>12, <2>1 DEF Clocks, RecoveryIsSound
  <2> DEFINE r == Older(rec)
  <2>3. r \in Nat /\ r <= AgeCap /\ r <= rec + 1
    BY <2>1, OlderStep
  <2>4. n >= r
    BY <1>1, <1>2, <2>1, <2>2, <2>3
  <2>5. q <= d + SpliceTime
    BY <1>1, <1>2, <2>2
  <2>6. CASE quiet' > Tolerance
    <3>0. ~(0 > Tolerance)
      BY <1>1 DEF Tolerance
    <3>1. ~Producing /\ quiet' = q /\ buf' = 0
      BY <1>3, <2>2, <2>6, <3>0, Zenon
    <3>2. d > GapLimit
      BY <1>1, <1>2, <2>5, <2>6, <3>1 DEF Tolerance
    <3> QED
      BY <3>1, <3>2
  <2>7. CASE ~(quiet' > Tolerance)
    <3>1. sound' = n /\ rec' = r
      BY <1>3, <2>7
    <3>2. quiet' <= d + SpliceTime
      BY <1>1, <1>2, <1>3, <2>5
    <3> QED
      BY <2>4, <3>1, <3>2
  <2> QED
    BY <2>6, <2>7
<1>13. RecoveryIsSound'
  BY <1>3, <1>12 DEF RecoveryIsSound
<1> QED
  BY <1>5, <1>6, <1>7, <1>8, <1>9, <1>10, <1>11, <1>13 DEF Clocks

\* The sources come and go, and what a source that stops leaves behind is fresh.
LEMMA SetFeedClocks ==
  ASSUME Patient, NEW s \in Source, NEW f \in Feeds
  PROVE  IInv /\ Clocks /\ SetFeed(s, f) => Clocks'
<1> SUFFICES ASSUME IInv, Clocks, SetFeed(s, f) PROVE Clocks'
  OBVIOUS
<1>1. /\ GapLimit \in Nat /\ SpliceTime \in Nat
      /\ dark \in Nat /\ quiet \in Nat /\ steady \in Nat /\ sound \in Nat /\ left \in Nat /\ buf \in Nat
      /\ left <= SpliceTime /\ rx \in {"none", "open", "orphan"}
  BY BoundAssumption DEF IInv, TypeOK
<1>2. /\ feed' = [feed EXCEPT ![s] = f] /\ feed \in [Source -> Feeds]
      /\ rx' = (IF Monitoring /\ s = cur /\ f = "off" /\ rx = "open" THEN "orphan" ELSE rx)
      /\ (f = "off" /\ Orphans(s)) \/ kept' = kept
      /\ steady' = (IF s = cur /\ f # "on" THEN 0 ELSE steady)
      /\ pc' = pc /\ cur' = cur /\ buf' = buf /\ dark' = dark /\ rec' = rec /\ showing' = showing
      /\ tickDue' = tickDue /\ left' = left /\ quiet' = quiet /\ sound' = sound
  BY DEF SetFeed, Orphans, IInv, TypeOK, local
<1>3. SteadyIsOn'
  BY <1>2 DEF Clocks, SteadyIsOn, Monitoring
<1>4. BacklogIsFresh' /\ RestoreIsShort' /\ RecoveryIsSound'
  BY <1>2 DEF Clocks, BacklogIsFresh, RestoreIsShort, RecoveryIsSound, JustBack, Splicing
<1>5. OrphanIsFresh'
  BY <1>2 DEF Clocks, OrphanIsFresh, JustBack
<1>6. SubscribesSoon'
  BY <1>1, <1>2 DEF Clocks, SubscribesSoon, Splicing
<1>7. ReadIsFresh' /\ ShownIsFresh'
  BY <1>1, <1>2 DEF Clocks, ReadIsFresh, ShownIsFresh, Monitoring
<1>8. KeptIsUnseen'
  BY <1>2 DEF Clocks, KeptIsUnseen, Orphans
<1> QED
  BY <1>3, <1>4, <1>5, <1>6, <1>7, <1>8 DEF Clocks

\* Nothing the operator, the handler, the sources or the clock do puts the clocks out of step.
LEMMA EnvironmentClocks ==
  ASSUME Patient
  PROVE  IInv /\ Clocks /\ (Operator \/ Handler \/ Sources \/ Holders \/ Pass \/ Rest) => Clocks'
<1> SUFFICES ASSUME IInv, Clocks, Operator \/ Handler \/ Sources \/ Holders \/ Pass \/ Rest PROVE Clocks'
  OBVIOUS
<1> DEFINE untouched == <<watch, history, feed, pc, cur>>
<1>0. UNCHANGED untouched => Clocks'
  BY DEF Clocks, SteadyIsOn, BacklogIsFresh, OrphanIsFresh, RestoreIsShort, SubscribesSoon, ReadIsFresh,
         ShownIsFresh, RecoveryIsSound, KeptIsUnseen, JustBack, Splicing, Monitoring, watch, history
<1>1. ASSUME NEW s \in Source \cup {None}, Select(s) PROVE UNCHANGED untouched
  BY <1>1 DEF Select, local, watch, history
<1>2. ASSUME NEW c \in Configs, SaveConfig(c) PROVE UNCHANGED untouched
  BY <1>2 DEF SaveConfig, local, watch, history
<1>3. CASE BorrowIntent
  BY <1>3, <1>0 DEF BorrowIntent, channels, local, watch, history
<1>4. CASE Nudge
  BY <1>4, <1>0 DEF Nudge, local, watch, history
<1>5. CASE Rest
  BY <1>5, <1>0 DEF Rest, vars, channels, local, watch, history
<1>6. ASSUME NEW h \in Holder, Release(h) PROVE Clocks'
  BY <1>6 DEF Release, channels, local, history, Clocks, SteadyIsOn, BacklogIsFresh, OrphanIsFresh, RestoreIsShort,
         SubscribesSoon, ReadIsFresh, ShownIsFresh, RecoveryIsSound, KeptIsUnseen, JustBack, Splicing, Monitoring
<1> HIDE DEF untouched
<1> QED
  BY <1>0, <1>1, <1>2, <1>3, <1>4, <1>5, <1>6, SetFeedClocks, PassClocks DEF Operator, Handler, Sources, Holders

\* The supervisor's clocks stay in step with what the selected source does.
THEOREM ClocksAgree == ASSUME Patient PROVE Spec => []Clocks
<1>1. Init => Clocks
  BY DEF Init, Clocks, SteadyIsOn, BacklogIsFresh, OrphanIsFresh, RestoreIsShort, SubscribesSoon, ReadIsFresh,
         ShownIsFresh, RecoveryIsSound, KeptIsUnseen, Splicing, Monitoring
<1>2. IInv /\ Clocks /\ [Next]_vars => Clocks'
  <2>1. Clocks /\ UNCHANGED vars => Clocks'
    BY DEF Clocks, SteadyIsOn, BacklogIsFresh, OrphanIsFresh, RestoreIsShort, SubscribesSoon, ReadIsFresh,
           ShownIsFresh, RecoveryIsSound, KeptIsUnseen, JustBack, Splicing, Monitoring, vars, channels, local, watch, history
  <2> QED
    BY <2>1, SupervisorClocks, EnvironmentClocks DEF Next
<1> QED
  BY <1>1, <1>2, Inductive, PTL DEF Spec

\* Only its tick takes the supervisor from one source to the other.
LEMMA EntersByTick ==
  ASSUME Next, pc = "watch"
  PROVE  /\ pc' = "toFallback" => FailOver
         /\ pc' = "toIntended" => Restore
<1> USE DEF channels, local
<1>1. CASE Supervisor
  BY <1>1 DEF Supervisor, ReadIntent, LoadConfig, Unpark, EnsureFallback, EnterMonitor, IntentChanged, RecvVideo,
     RecvClosed, RecoveryLost, QuietTick, FailedOver, Restored, FailOver, Restore
<1>2. CASE Operator \/ Handler \/ Sources \/ Holders \/ Pass \/ Rest
  <2>1. pc' = pc
    BY <1>2 DEF Operator, Handler, Sources, Holders, Pass, Rest, Select, SaveConfig, BorrowIntent, Nudge, SetFeed,
       Release, vars
  <2> QED
    BY <2>1
<1> QED
  BY <1>1, <1>2 DEF Next

\* No failover while the selected source has been producing throughout an offline grace
\* and the tick it takes to subscribe to a new relay (failover.rs 7-9, 136-152).
THEOREM NeverSpurious == ASSUME Patient PROVE Spec => NoSpuriousFailover
<1>1. IInv /\ Clocks /\ [Next]_vars => [pc = "watch" /\ pc' = "toFallback" => steady <= OfflineGrace(use) + 1]_vars
  <2> SUFFICES ASSUME IInv, Clocks, Next, pc = "watch", pc' = "toFallback"
               PROVE  steady <= OfflineGrace(use) + 1
    OBVIOUS
  <2>1. FailOver
    BY EntersByTick
  <2>2. /\ SpliceTime \in Nat /\ GapLimit \in Nat /\ GapLimit >= 1 /\ dark \in Nat /\ steady \in Nat
        /\ rx \in {"none", "open", "orphan"}
    BY BoundAssumption DEF Patient, IInv, TypeOK
  <2>3. OfflineGrace(use) \in Nat /\ OfflineGrace(use) >= GapLimit + SpliceTime /\ ~showing /\ dark > OfflineGrace(use)
    BY <2>1, GraceBounds DEF FailOver, Dark, IInv, TypeOK
  <2>4. CASE rx = "open"
    BY <2>2, <2>3, <2>4 DEF Clocks, ShownIsFresh
  <2>5. CASE rx # "open"
    BY <2>2, <2>3, <2>5 DEF Clocks, SubscribesSoon
  <2> QED
    BY <2>4, <2>5
<1> QED
  BY <1>1, Inductive, ClocksAgree, PTL DEF Spec, NoSpuriousFailover

\* No silence beyond the tolerance within the recovery grace before a restore
\* (failover.rs 9-11, 154-171).
THEOREM NeverEarly == ASSUME Patient PROVE Spec => NoEarlyRestore
<1>1. IInv /\ Clocks /\ [Next]_vars => [pc = "watch" /\ pc' = "toIntended" => sound >= RecoveryGrace(use)]_vars
  <2> SUFFICES ASSUME IInv, Clocks, Next, pc = "watch", pc' = "toIntended"
               PROVE  sound >= RecoveryGrace(use)
    OBVIOUS
  <2>1. Restore
    BY EntersByTick
  <2>2. showing /\ rec # None /\ rec > RecoveryGrace(use) /\ ~(dark > GapLimit)
    BY <2>1 DEF Restore, Recovered, DarkAgain
  <2>3. rec \in Nat /\ sound \in Nat /\ RecoveryGrace(use) \in Nat
    BY <2>2, GraceBounds DEF IInv, TypeOK
  <2> QED
    BY <2>2, <2>3 DEF Clocks, RecoveryIsSound
<1> QED
  BY <1>1, Inductive, ClocksAgree, PTL DEF Spec, NoEarlyRestore

-----------------------------------------------------------------------------
(* With the program router.                                                *)

\* What the router does is, for the supervisor, at most the release of a relay.
LEMMA ProgramSteps == ASSUME ProgramNext PROVE [Next]_vars
<1>1. CASE Supervise
  BY <1>1 DEF Supervise, Next
<1>2. CASE (Operator \/ Handler \/ Pass \/ Rest) /\ UNCHANGED rvars
  BY <1>2 DEF Next
<1>3. ASSUME NEW s \in Source, NEW f \in Feeds, Feed(s, f) PROVE Sources
  BY <1>3 DEF Feed, Sources
<1>4. \A h \in Holder : Release(h) => Holders
  BY DEF Holders
<1>5. DropsRelay => [Next]_vars
  BY <1>4 DEF DropsRelay, Holder, Next
<1>6. CASE ViewerLeaves
  BY <1>6, <1>4 DEF ViewerLeaves, Holder, Next
<1>7. CASE Forward \/ Reroute
  BY <1>7, <1>5 DEF Forward, Reroute, Splice, Leave, Pick, Awaited, SourceChanged, Abort
<1> QED
  BY <1>1, <1>2, <1>3, <1>6, <1>7 DEF ProgramNext, Next

\* Whatever holds of the supervisor holds of it with the router, which is one of the holders
\* of a relay that Failover leaves open (program.rs 60-255).
THEOREM WithRouter == ProgramSpec => Spec
<1>1. ProgramInit => Init
  BY DEF ProgramInit
<1>2. [ProgramNext]_pvars => [Next]_vars
  <2>1. UNCHANGED pvars => UNCHANGED vars
    BY DEF pvars
  <2> QED
    BY <2>1, ProgramSteps
<1> QED
  BY <1>1, <1>2, PTL DEF ProgramSpec, Spec

\* The router blinds the supervisor only while it monitors the very source that the
\* router still has on program, and whose relay has gone.
Blinds == "router" \in kept => Monitoring /\ on = cur /\ hold = "gone"

HeldInLoop == hold # "none" => router = "loop"

BlindInv == Blinds /\ HeldInLoop

\* The supervisor's own steps forget a kept relay or leave it, and with it the selection.
LEMMA SuperviseBlinds == BlindInv /\ Supervise => BlindInv'
<1> SUFFICES ASSUME BlindInv, Supervise PROVE BlindInv'
  OBVIOUS
<1>1. UNCHANGED <<router, on, hold>> /\ Supervisor
  BY DEF Supervise
<1>2. kept' = {} \/ (kept' = kept /\ cur' = cur /\ (Monitoring => Monitoring')) \/ ReadIntent
  BY <1>1 DEF Supervisor, LoadConfig, Unpark, EnsureFallback, EnterMonitor, IntentChanged, NewLocals, RecvVideo,
     RecvClosed, FailOver, RecoveryLost, Restore, QuietTick, FailedOver, Restored, Monitoring, watch, local
<1>3. ReadIntent => kept' = kept /\ ~Monitoring
  BY DEF ReadIntent, Monitoring, watch
<1> QED
  BY <1>1, <1>2, <1>3 DEF BlindInv, Blinds, HeldInLoop

\* The supervisor loses sight of a source that came back only to the router's hold on the
\* relay the source had before, and the router lets go as soon as it leaves its inner loop
\* (program.rs 98-104, failover.rs 107-133).
THEOREM BlindedOnlyByItsOwn == ProgramSpec => []Blinds
<1>1. ProgramInit => BlindInv
  BY DEF ProgramInit, Init, BlindInv, Blinds, HeldInLoop
<1>2. BlindInv /\ [ProgramNext]_pvars => BlindInv'
  <2> SUFFICES ASSUME BlindInv, [ProgramNext]_pvars PROVE BlindInv'
    OBVIOUS
  <2> DEFINE seen == <<kept, pc, cur, router, on, hold>>
  <2>1. UNCHANGED seen => BlindInv'
    BY DEF BlindInv, Blinds, HeldInLoop, Monitoring
  <2>2. UNCHANGED pvars => UNCHANGED seen
    BY DEF pvars, vars, rvars, watch, local
  <2>3. (Operator \/ Handler \/ Pass \/ Rest) /\ UNCHANGED rvars => UNCHANGED seen
    BY DEF Operator, Select, SaveConfig, Handler, BorrowIntent, Nudge, Pass, Rest, vars, rvars, watch, local
  <2>4. ASSUME NEW s \in Source, NEW f \in Feeds, Feed(s, f) PROVE BlindInv'
    <3>1. /\ pc' = pc /\ cur' = cur /\ router' = router /\ on' = on
          /\ hold' = (IF f = "off" /\ Holds(s) THEN "gone" ELSE hold)
          /\ f = "off" /\ Orphans(s) => ("router" \in kept' <=> Holds(s))
          /\ (f = "off" /\ Orphans(s)) \/ kept' = kept
      BY <2>4 DEF Feed, SetFeed, local
    <3> QED
      BY <3>1 DEF BlindInv, Blinds, HeldInLoop, Holds, Orphans, Monitoring
  <2>5. DropsRelay => /\ pc' = pc /\ cur' = cur /\ "router" \notin kept'
    BY DEF DropsRelay, Release, vars, watch, local
  <2>6. CASE ViewerLeaves
    <3>1. pc' = pc /\ cur' = cur /\ UNCHANGED rvars /\ ("router" \in kept' => "router" \in kept)
      BY <2>6 DEF ViewerLeaves, Release, local
    <3> QED
      BY <3>1 DEF BlindInv, Blinds, HeldInLoop, Monitoring, rvars
  <2>7. CASE Splice \/ Reroute
    BY <2>5, <2>7 DEF Splice, Reroute, Leave, BlindInv, Blinds, HeldInLoop
  <2>8. CASE Pick
    BY <2>8 DEF Pick, BlindInv, Blinds, HeldInLoop, vars, watch, local
  <2>9. CASE Awaited
    BY <2>9 DEF Awaited, BlindInv, Blinds, HeldInLoop, vars, watch, local
  <2>10. CASE SourceChanged \/ Abort
    <3>1. UNCHANGED seen
      BY <2>10 DEF SourceChanged, Abort, vars, watch, local
    <3> QED
      BY <2>1, <3>1
  <2> HIDE DEF seen
  <2> QED
    BY <2>1, <2>2, <2>3, <2>4, <2>6, <2>7, <2>8, <2>9, <2>10, SuperviseBlinds DEF ProgramNext, Forward
<1>3. BlindInv => Blinds
  BY DEF BlindInv
<1> QED
  BY <1>1, <1>2, <1>3, PTL DEF ProgramSpec

=============================================================================
