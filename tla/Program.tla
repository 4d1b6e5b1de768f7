------------------------------ MODULE Program ------------------------------
(***************************************************************************)
(* The failover supervisor together with the program router that it        *)
(* steers.  program_source is the channel from one to the other, and there *)
(* is a way back that nobody designed: while the router forwards a source, *)
(* it holds a sender of its relay (crates/api/src/program.rs 98-104), so   *)
(* that a relay which has gone is not closed for the supervisor, which     *)
(* then never looks for the source's next one (failover.rs 107-133).       *)
(*                                                                         *)
(* Of the router, which ProgramRouter models with its tags and audio, only *)
(* what it holds and awaits is left here.  Every step is one of Failover   *)
(* or leaves Failover's variables alone, so that what Failover guarantees  *)
(* of its steps it guarantees here.                                        *)
(***************************************************************************)
EXTENDS Failover

VARIABLES
  router,   \* the router: picking a source, waiting for another, or in its inner loop
  news,     \* program_source was sent since the router last looked
  on,       \* current_source_id
  hold,     \* the relay it holds a sender of: none, the source's, or one that has gone
  pending   \* pending_switch

rvars == <<router, news, on, hold, pending>>
pvars == <<vars, rvars>>

\* A receiver for a switch: whether its relay is there, and whether it has had video.
NoSwitch  == [source |-> None, open |-> FALSE, video |-> FALSE]
Switch(s) == [source |-> s, open |-> feed[s] # "off", video |-> feed[s] = "on"]

RouterTypeOK ==
  /\ router \in {"pick", "wait", "loop"} /\ news \in BOOLEAN
  /\ on \in Source \cup {None} /\ hold \in {"none", "open", "gone"}
  /\ pending \in [source : Source \cup {None}, open : BOOLEAN, video : BOOLEAN]

ProgramInit ==
  /\ Init
  /\ router = "pick" /\ news = FALSE /\ on = None /\ hold = "none" /\ pending = NoSwitch

-----------------------------------------------------------------------------
(* Failover's steps, and what the router has of them.                      *)

\* route(): a send, also of what is there already.
Routes == <<pc, pc'>> \in {<<"load", "parked">>, <<"enter", "watch">>,
                           <<"watch", "toFallback">>, <<"watch", "toIntended">>}

Supervise ==
  /\ Supervisor
  /\ news' = (news \/ Routes)
  /\ UNCHANGED <<router, on, hold, pending>>

\* A relay that goes is kept by the router if it is the one it holds.
Holds(s) == on = s /\ hold = "open"

Feed(s, f) ==
  /\ SetFeed(s, f)
  /\ f = "off" /\ Orphans(s) => ("router" \in kept' <=> Holds(s))
  /\ hold' = IF f = "off" /\ Holds(s) THEN "gone" ELSE hold
  /\ pending' = IF pending.source # s \/ ~pending.open THEN pending
                ELSE [pending EXCEPT !.open = f # "off", !.video = @ \/ f = "on"]
  /\ UNCHANGED <<router, news, on>>

\* Whoever else keeps a sender drops it.
ViewerLeaves == Release("viewer") /\ UNCHANGED rvars

-----------------------------------------------------------------------------
(* The router.                                                             *)

\* The senders and receivers of the inner loop are dropped with it.
DropsRelay == IF "router" \in kept THEN Release("router") ELSE UNCHANGED vars
Leave      == router' = "pick" /\ hold' = "none" /\ pending' = NoSwitch /\ DropsRelay

\* The outer loop: the source on program_source and its relay; without one it waits for
\* the next send.
Pick ==
  /\ router = "pick" /\ source # None
  /\ on' = source /\ news' = FALSE
  /\ IF feed[source] = "off" THEN router' = "wait" /\ hold' = "none"
                             ELSE router' = "loop" /\ hold' = "open"
  /\ UNCHANGED <<vars, pending>>

Awaited ==
  /\ router = "wait" /\ news
  /\ router' = "pick"
  /\ UNCHANGED <<vars, news, on, hold, pending>>

\* Mutant: the current source ends a switch to another, for good.
SourceChangedForgets ==
  /\ router = "loop" /\ news
  /\ news' = FALSE
  /\ pending' = NoSwitch
  /\ UNCHANGED <<vars, router, on, hold>>

\* A send of the current source, or of none, changes nothing, whatever is pending and
\* whether or not its relay is still the one that is held.
SourceChanged ==
  /\ router = "loop" /\ news
  /\ news' = FALSE
  /\ pending' = IF source \in {None, on} THEN pending ELSE Switch(source)
  /\ UNCHANGED <<vars, router, on, hold>>

\* The new source's keyframe: its relay may have gone behind it.
Splice ==
  /\ router = "loop" /\ pending.video
  /\ Leave
  /\ UNCHANGED <<news, on>>

\* The new source has no relay, or has lost it: the switch is given up, and nothing tries
\* it again.
Abort ==
  /\ router = "loop" /\ pending.source # None /\ ~pending.open
  /\ pending' = NoSwitch
  /\ UNCHANGED <<vars, router, news, on, hold>>

\* The audio routing is changed: the outer loop is entered again.
Reroute ==
  /\ router = "loop"
  /\ Leave
  /\ UNCHANGED <<news, on>>

Forward == Pick \/ Awaited \/ SourceChanged \/ Splice \/ Abort

ProgramNext ==
  \/ Supervise
  \/ (Operator \/ Handler \/ Pass \/ Rest) /\ UNCHANGED rvars
  \/ \E s \in Source, f \in Feeds : Feed(s, f)
  \/ ViewerLeaves \/ Forward \/ Reroute

ProgramSpec == ProgramInit /\ [][ProgramNext]_pvars

\* tokio polls both tasks, and a source that produces comes to a keyframe; nothing obliges
\* the operator, the sources or the viewers to do anything.
FairProgram ==
  /\ ProgramSpec
  /\ WF_pvars(Supervise) /\ WF_pvars(Handler /\ UNCHANGED rvars) /\ WF_pvars(Pass /\ UNCHANGED rvars)
  /\ WF_pvars(Pick \/ Awaited) /\ WF_pvars(SourceChanged) /\ WF_pvars(Splice \/ Abort)

-----------------------------------------------------------------------------
(* Properties.                                                             *)

\* The selection keeps producing, and no viewer keeps its relay.
Producible == Armed /\ put = "idle" /\ feed[intent] = "on" /\ "viewer" \notin kept

\* A selection that keeps producing is back on program_source for good, provided that
\* whenever the fallback stood in there was something to show of it: then the router's cut
\* to it completes, which lets go of a relay that has gone, and the supervisor finds the
\* source's next one (failover.rs 117-119, 126-133, program.rs 122-197).
LiveIsRestored ==
  [](StandsIn => feed[fb] = "on") /\ <>[]Producible => <>[](source = intent)

\* "restores the intended source once it has been producing video again for
\* recovery_grace_ms" (failover.rs 9-11), whatever became of the fallback meanwhile.  It is
\* not so: a switch to a fallback without a relay is given up, the router keeps what it
\* holds, and the supervisor waits for ever (FailoverStuck.cfg).
LiveReturns == <>[]Producible => <>[](source = intent)
=============================================================================
