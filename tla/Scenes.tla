-------------------------------- MODULE Scenes --------------------------------
(***************************************************************************)
(* Scenes and their compositors (routes/scenes.rs, scene_compositor.rs),   *)
(* the cuts that replace them (routes/switching.rs), and the program       *)
(* router as far as it has to find the composite (program.rs).             *)
(*                                                                         *)
(* A scene on program is composed by one ffmpeg, kept in scene_compositors *)
(* and read by a task that feeds the scene's media relay.  Changing a      *)
(* scene means stopping that ffmpeg and starting another, with another     *)
(* relay.  A layer is the source it shows: its place and size are left     *)
(* out.  A request is an actor; each of its steps is what happens between  *)
(* two awaits.  Failover is off, so program_source is program_intent.      *)
(***************************************************************************)
EXTENDS Naturals

CONSTANTS
  Source,     \* the sources a layer can show
  Scene,      \* the scenes there are, have been, or will be
  Known,      \* those there are at the start
  Actor,      \* requests that can be under way at a time
  None,       \* no source, compositor or relay
  MaxRun,     \* bound: compositors ever started
  MaxEvents   \* bound: requests, deletions, and things that go wrong

Run == 1..MaxRun

ASSUME ScenesAssumption ==
  /\ MaxRun \in Nat /\ MaxEvents \in Nat /\ MaxEvents < MaxRun
  /\ Known \subseteq Scene
  /\ None \notin Source \cup Scene \cup Run
  /\ Source \cap Scene = {} /\ Source \cap Run = {} /\ Scene \cap Run = {}

VARIABLES
  \* the database
  row,      \* per scene: not yet created, there, or deleted
  layers,   \* per scene: the sources of its layers
  \* AppState
  live,     \* the sources that are Live, with a relay and a video header
  shown,    \* the scenes that source_states calls Live
  child,    \* scene_compositors
  relay,    \* per scene: its relay in media_relays, named by the run it was made for
  intent,   \* program_intent
  changed,  \* the router has not seen the last send
  preview,  \* preview_source
  \* compositors
  made,     \* how many were ever begun
  run,      \* per compositor: its scene and the relay it feeds
  ffmpeg,   \* per compositor: its process
  reader,   \* per compositor: where the task that reads its output is
  \* the program router
  at,       \* where it is, what it forwards, and from which relay
  next,     \* the pending switch: to what, and its relay
  \* requests
  req,      \* per actor: what it does, for what, and its locals
  \* history
  raced,    \* two requests overlapped, or a reader removed a child that was not its own
  behind,   \* since the router last looked it up, a scene on program got another relay
  events

database == <<row, layers>>
state    == <<live, shown, child, relay>>
switch   == <<intent, changed, preview>>
process  == <<made, run, ffmpeg, reader>>
router   == <<at, next>>
history  == <<raced, behind>>
vars     == <<database, state, switch, process, router, req, history, events>>

PCs == {"idle", "all", "each", "refresh", "take", "drop", "start", "spawn", "send", "clear"}
Places   == {"outer", "wait", "loop"}
Pictures == Source \cup Scene
Feed     == Source \cup Run \cup {None}
Composed == {s \in Scene : child[s] # None}

\* stops: the scenes it has still to stop; mine: the compositor it is starting.
Requests == [pc   : PCs,                     does  : {"nothing", "activate", "edit", "cut", "auto"},
             goal : Pictures \cup {None},    stops : SUBSET Scene,    mine  : Run \cup {None}]

TypeOK ==
  /\ row \in [Scene -> {"new", "there", "deleted"}] /\ layers \in [Scene -> SUBSET Source]
  /\ live \in SUBSET Source /\ shown \in SUBSET Scene
  /\ child \in [Scene -> Run \cup {None}] /\ relay \in [Scene -> Run \cup {None}]
  /\ intent \in Pictures \cup {None} /\ changed \in BOOLEAN /\ preview \in Pictures \cup {None}
  /\ made \in 0..MaxRun
  /\ run \in [Run -> [scene : Scene \cup {None}, relay : Run \cup {None}]]
  /\ ffmpeg \in [Run -> {"unborn", "running", "dead"}]
  /\ reader \in [Run -> {"off", "header", "tags", "gone"}]
  /\ at \in [place : Places, is : Pictures \cup {None}, feed : Feed]
  /\ next \in [is : Pictures \cup {None}, feed : Feed]
  /\ req \in [Actor -> Requests]
  /\ raced \in BOOLEAN /\ behind \in BOOLEAN /\ events \in 0..MaxEvents

NoSwitch == [is |-> None, feed |-> None]
NoWork   == [pc |-> "idle", does |-> "nothing", goal |-> None, stops |-> {}, mine |-> None]

Init ==
  /\ row = [s \in Scene |-> IF s \in Known THEN "there" ELSE "new"]
  /\ layers = [s \in Scene |-> IF row[s] = "new" THEN {} ELSE Source]
  /\ live = Source /\ shown = {}
  /\ child = [s \in Scene |-> None] /\ relay = [s \in Scene |-> None]
  /\ intent = None /\ changed = FALSE /\ preview = None
  /\ made = 0
  /\ run = [r \in Run |-> [scene |-> None, relay |-> None]]
  /\ ffmpeg = [r \in Run |-> "unborn"] /\ reader = [r \in Run |-> "off"]
  /\ at = [place |-> "outer", is |-> None, feed |-> None] /\ next = NoSwitch
  /\ req = [a \in Actor |-> NoWork]
  /\ raced = FALSE /\ behind = FALSE /\ events = 0

Event == events < MaxEvents /\ events' = events + 1

At(a, p) == req[a].pc = p
Go(a, p) == req' = [req EXCEPT ![a].pc = p]
Done(a)  == req' = [req EXCEPT ![a] = NoWork]

\* A child that is taken out of the map, or pushed out of it, is killed.
Killed(r) == IF r = None THEN ffmpeg
             ELSE [ffmpeg EXCEPT ![r] = IF @ = "running" THEN "dead" ELSE @]

-----------------------------------------------------------------------------
(* Requests begin.                                                         *)

Begin(a, d, g, p) ==
  /\ At(a, "idle") /\ Event
  /\ req' = [req EXCEPT ![a].pc = p, ![a].does = d, ![a].goal = g]
  /\ raced' = (raced \/ \E b \in Actor \ {a} : ~At(b, "idle"))
  /\ behind' = behind

\* POST /scenes/{id}/activate.
Activate(a, s) ==
  /\ row[s] = "there"
  /\ Begin(a, "activate", s, "all")
  /\ UNCHANGED <<database, state, switch, process, router>>

\* POST /cut/{id}: of whatever source_states calls Live, a scene's composite included.
Cut(a, x) ==
  /\ x \in live \cup shown
  /\ Begin(a, "cut", x, "all")
  /\ UNCHANGED <<database, state, switch, process, router>>

\* POST /auto: the preview is sent before it is cleared, and nothing is stopped.
AutoTransition(a) ==
  /\ preview # None
  /\ Begin(a, "auto", preview, "clear")
  /\ intent' = preview /\ changed' = TRUE
  /\ UNCHANGED <<database, state, preview, process, router>>

ClearPreview(a) ==
  /\ At(a, "clear") /\ Done(a)
  /\ preview' = None
  /\ UNCHANGED <<database, state, intent, changed, process, router, history, events>>

SetPreview(x) ==
  /\ x \in live \cup shown /\ x # preview /\ Event
  /\ preview' = x
  /\ UNCHANGED <<database, state, intent, changed, process, router, req, history>>

\* A layer is added, deleted, made to show another source, or only moved; another
\* layer may show the source it showed.
Edited(old, new) ==
  \E x \in Source : \/ new = old \cup {x}
                   \/ \E y \in old : new \in {old, old \ {y}, (old \ {y}) \cup {x}}

EditLayers(a, s, new) ==
  /\ row[s] = "there" /\ Edited(layers[s], new)
  /\ Begin(a, "edit", s, "refresh")
  /\ layers' = [layers EXCEPT ![s] = new]
  /\ UNCHANGED <<row, state, switch, process, router>>

\* refresh_if_active().
Refresh(a) ==
  /\ At(a, "refresh")
  /\ IF intent = req[a].goal THEN Go(a, "take") ELSE Done(a)
  /\ UNCHANGED <<database, state, switch, process, router, history, events>>

\* The layers are inserted one by one behind the scene; any of them may fail.
CreateScene(s, new) ==
  /\ row[s] = "new"
  /\ row' = [row EXCEPT ![s] = "there"] /\ layers' = [layers EXCEPT ![s] = new]
  /\ UNCHANGED <<state, switch, process, router, req, history, events>>

\* The layers go with the scene (ON DELETE CASCADE); its compositor stays.
DeleteScene(s) ==
  /\ row[s] = "there" /\ Event
  /\ row' = [row EXCEPT ![s] = "deleted"] /\ layers' = [layers EXCEPT ![s] = {}]
  /\ UNCHANGED <<state, switch, process, router, req, history>>

-----------------------------------------------------------------------------
(* stop_all_compositors(), for a cut and an activation.                    *)

AfterAll(a) == IF req[a].does = "activate" THEN "take" ELSE "send"

\* Mutant: the scene that is activated again needs no stop, and the others are left.
StopAllButCut(a) ==
  /\ At(a, "all")
  /\ LET found == IF req[a].does = "cut" THEN Composed ELSE {}
     IN  req' = [req EXCEPT ![a].stops = found, ![a].pc = IF found = {} THEN AfterAll(a) ELSE "each"]
  /\ UNCHANGED <<database, state, switch, process, router, history, events>>

\* The scenes to stop are those there are now.
StopAll(a) ==
  /\ At(a, "all")
  /\ req' = [req EXCEPT ![a].stops = Composed,
                        ![a].pc = IF Composed = {} THEN AfterAll(a) ELSE "each"]
  /\ UNCHANGED <<database, state, switch, process, router, history, events>>

Stop(s) == /\ child' = [child EXCEPT ![s] = None] /\ ffmpeg' = Killed(child[s])
           /\ relay' = [relay EXCEPT ![s] = None]

\* stop_scene_compositor(), whose two halves are Take and Drop below, in one step.
StopEach(a) ==
  /\ At(a, "each")
  /\ \E s \in req[a].stops :
       /\ Stop(s)
       /\ req' = [req EXCEPT ![a].stops = @ \ {s},
                             ![a].pc = IF req[a].stops = {s} THEN AfterAll(a) ELSE "each"]
  /\ UNCHANGED <<database, live, shown, switch, made, run, reader, router, history, events>>

-----------------------------------------------------------------------------
(* start_scene_compositor(), for an activation and an edit.                *)

Take(a) ==
  /\ At(a, "take") /\ Go(a, "drop")
  /\ child' = [child EXCEPT ![req[a].goal] = None] /\ ffmpeg' = Killed(child[req[a].goal])
  /\ UNCHANGED <<database, live, shown, relay, switch, made, run, reader, router, history, events>>

Drop(a) ==
  /\ At(a, "drop") /\ Go(a, "start")
  /\ relay' = [relay EXCEPT ![req[a].goal] = None]
  /\ UNCHANGED <<database, live, shown, child, switch, process, router, history, events>>

\* Only layers whose source has a relay and a video header are composed.
NoLayers(a) ==
  /\ At(a, "start") /\ layers[req[a].goal] \cap live = {}
  /\ Done(a)
  /\ UNCHANGED <<database, state, switch, process, router, history, events>>

\* The layers are read, and get_or_create_media_relay() is called: what the requests
\* do in between changes neither.
GetRelay(a) ==
  LET s == req[a].goal
      n == made + 1
      w == IF relay[s] = None THEN n ELSE relay[s]
  IN  /\ At(a, "start") /\ layers[s] \cap live # {} /\ n \in Run
      /\ req' = [req EXCEPT ![a].mine = n, ![a].pc = "spawn"]
      /\ made' = n /\ relay' = [relay EXCEPT ![s] = w]
      /\ run' = [run EXCEPT ![n] = [scene |-> s, relay |-> w]]
      /\ behind' = (behind \/ (relay[s] = None /\ s \in {intent, at.is, next.is}))
      /\ UNCHANGED <<database, live, shown, child, switch, ffmpeg, reader, router, raced, events>>

Installed(a) == IF req[a].does = "activate" THEN Go(a, "send") ELSE Done(a)

\* ffmpeg is started, put into the map, and its reader spawned.
Install(a) ==
  LET s == req[a].goal
      n == req[a].mine
  IN  /\ At(a, "spawn") /\ Installed(a)
      /\ child' = [child EXCEPT ![s] = n]
      /\ ffmpeg' = [Killed(child[s]) EXCEPT ![n] = "running"]
      /\ reader' = [reader EXCEPT ![n] = "header"]
      /\ UNCHANGED <<database, live, shown, relay, switch, made, run, router, history, events>>

\* program_intent.send(), the last thing an activation or a cut does.
SendIntent(a) ==
  /\ At(a, "send") /\ Done(a)
  /\ intent' = req[a].goal /\ changed' = TRUE
  /\ UNCHANGED <<database, state, preview, process, router, history, events>>

-----------------------------------------------------------------------------
(* read_composited_output(): it may lag behind an ffmpeg that is dead.     *)

NoHeader(r) ==
  /\ reader[r] = "header" /\ ffmpeg[r] = "dead"
  /\ reader' = [reader EXCEPT ![r] = "gone"]
  /\ UNCHANGED <<database, state, switch, made, run, ffmpeg, router, req, history, events>>

\* Mutant: the state is kept under the relay the reader feeds.
ReadFirstMisfiled(r) ==
  /\ reader[r] = "header"
  /\ reader' = [reader EXCEPT ![r] = "tags"] /\ shown' = shown \cup {run[r].relay}
  /\ UNCHANGED <<database, live, child, relay, switch, made, run, ffmpeg, router, req, history, events>>

\* The first tag.  Nothing ever calls a scene anything but Live.
ReadFirst(r) ==
  /\ reader[r] = "header"
  /\ reader' = [reader EXCEPT ![r] = "tags"] /\ shown' = shown \cup {run[r].scene}
  /\ UNCHANGED <<database, live, child, relay, switch, made, run, ffmpeg, router, req, history, events>>

\* Mutant: a child that is dropped is not killed (no kill_on_drop).
ReadEndLeaks(r) ==
  LET s == run[r].scene
  IN  /\ reader[r] \in {"header", "tags"} /\ ffmpeg[r] = "dead"
      /\ reader' = [reader EXCEPT ![r] = "gone"]
      /\ child' = [child EXCEPT ![s] = None]
      /\ raced' = (raced \/ child[s] \notin {None, r})
      /\ UNCHANGED <<database, live, shown, relay, switch, made, run, ffmpeg, router, req, behind, events>>

\* The end of the output: whatever child the scene has by now is removed.
ReadEnd(r) ==
  LET s == run[r].scene
  IN  /\ reader[r] \in {"header", "tags"} /\ ffmpeg[r] = "dead"
      /\ reader' = [reader EXCEPT ![r] = "gone"]
      /\ child' = [child EXCEPT ![s] = None] /\ ffmpeg' = Killed(child[s])
      /\ raced' = (raced \/ child[s] \notin {None, r})
      /\ UNCHANGED <<database, live, shown, relay, switch, made, run, router, req, behind, events>>

-----------------------------------------------------------------------------
(* The program router: its outer loop, and the switches of its inner one.  *)

RelayOf(x) == IF x \in Scene THEN relay[x] ELSE IF x \in live THEN x ELSE None

\* Who still holds a sender of a relay that is not in the map any more.  A switch to what
\* has no relay gets a receiver without a sender.
Holds(a, w) == At(a, "spawn") /\ run[req[a].mine].relay = w
Open(w) == /\ w # None
           /\ \/ w \in live
              \/ \E s \in Scene : relay[s] = w
              \/ \E r \in Run : reader[r] \in {"header", "tags"} /\ run[r].relay = w
              \/ \E a \in Actor : Holds(a, w)

\* Whether a relay carries pictures.
Plays(w) == w \in live \/ \E r \in Run : reader[r] = "tags" /\ ffmpeg[r] = "running" /\ run[r].relay = w

Enter ==
  /\ at.place = "outer" /\ intent # None
  /\ changed' = FALSE /\ next' = NoSwitch
  /\ at' = [place |-> IF RelayOf(intent) = None THEN "wait" ELSE "loop",
            is |-> intent, feed |-> RelayOf(intent)]
  /\ behind' = FALSE
  /\ UNCHANGED <<database, state, intent, preview, process, req, raced, events>>

Leave == at' = [at EXCEPT !.place = "outer"]

WaitRelay ==
  /\ at.place = "wait" /\ changed
  /\ Leave /\ changed' = FALSE
  /\ UNCHANGED <<database, state, intent, preview, process, next, req, history, events>>

\* A send of what is already forwarded is passed over.
SourceChanged ==
  /\ at.place = "loop" /\ changed
  /\ changed' = FALSE
  /\ next' = IF intent = at.is THEN next ELSE [is |-> intent, feed |-> RelayOf(intent)]
  /\ UNCHANGED <<database, state, intent, preview, process, at, req, history, events>>

\* Mutant: the loop is not left, so the old source goes on.
SpliceStays ==
  /\ at.place = "loop" /\ next.feed # None /\ Plays(next.feed)
  /\ next' = NoSwitch /\ at' = at
  /\ UNCHANGED <<database, state, switch, process, req, history, events>>

\* The pending switch has a keyframe.
Splice ==
  /\ at.place = "loop" /\ next.feed # None /\ Plays(next.feed)
  /\ next' = NoSwitch /\ Leave
  /\ UNCHANGED <<database, state, switch, process, req, history, events>>

Abandon ==
  /\ at.place = "loop" /\ next.is # None /\ ~Open(next.feed)
  /\ next' = NoSwitch
  /\ UNCHANGED <<database, state, switch, process, at, req, history, events>>

\* A change of the audio routing makes the router start over.
AudioChanged ==
  /\ at.place = "loop" /\ Event
  /\ Leave
  /\ UNCHANGED <<database, state, switch, process, next, req, history>>

-----------------------------------------------------------------------------

\* A statement, a listener or ffmpeg's start fails, or the client hangs up and the
\* handler is dropped at an await: what it did so far stays.
GiveUp(a) ==
  /\ ~At(a, "idle") /\ Event /\ Done(a)
  /\ UNCHANGED <<database, state, switch, process, router, history>>

\* A source disconnects; a compositor exits by itself.
Disconnect(x) ==
  /\ x \in live /\ Event
  /\ live' = live \ {x}
  /\ UNCHANGED <<database, shown, child, relay, switch, process, router, req, history>>

Exit(r) ==
  /\ ffmpeg[r] = "running" /\ Event
  /\ ffmpeg' = [ffmpeg EXCEPT ![r] = "dead"]
  /\ UNCHANGED <<database, state, switch, made, run, reader, router, req, history>>

Work(a) ==
  \/ ClearPreview(a) \/ Refresh(a) \/ StopAll(a) \/ StopEach(a) \/ Take(a) \/ Drop(a)
  \/ NoLayers(a) \/ GetRelay(a) \/ Install(a) \/ SendIntent(a)
Reading(r) == NoHeader(r) \/ ReadFirst(r) \/ ReadEnd(r)
Router     == Enter \/ WaitRelay \/ SourceChanged \/ Splice \/ Abandon

Asked ==
  \/ \E a \in Actor, s \in Scene : Activate(a, s)
  \/ \E a \in Actor, x \in Pictures : Cut(a, x)
  \/ \E a \in Actor : AutoTransition(a)
  \/ \E a \in Actor, s \in Scene, new \in SUBSET Source : EditLayers(a, s, new)
  \/ \E x \in Pictures : SetPreview(x)
  \/ \E s \in Scene : CreateScene(s, Source)
  \/ \E s \in Scene : DeleteScene(s)
Mishaps  == (\E a \in Actor : GiveUp(a)) \/ (\E x \in Source : Disconnect(x)) \/ (\E r \in Run : Exit(r)) \/ AudioChanged

Next == (\E a \in Actor : Work(a)) \/ (\E r \in Run : Reading(r)) \/ Router \/ Asked \/ Mishaps

Spec == Init /\ [][Next]_vars

\* tokio polls every task that is ready, and the select! of the router passes over
\* none of its branches for ever; ffmpeg writes the header and tags it was started for.
FairSpec ==
  /\ Spec
  /\ \A a \in Actor : WF_vars(Work(a))
  /\ \A r \in Run : WF_vars(Reading(r))
  /\ WF_vars(Enter \/ WaitRelay) /\ WF_vars(SourceChanged) /\ WF_vars(Splice) /\ WF_vars(Abandon)

-----------------------------------------------------------------------------
(* Properties.                                                             *)

Idle == \A a \in Actor : At(a, "idle")

\* No compositor is leaked: one that runs is in scene_compositors, for its scene
\* (scene_compositor.rs 239-244), however requests overlap and however late the
\* readers of earlier ones are.
NoStray == \A r \in Run : ffmpeg[r] = "running" => child[run[r].scene] = r

\* "Cutting to a single source replaces any active scene composite"
\* (switching.rs 75): once a cut or an activation that no other request overlapped is
\* answered, nothing is composed but what it put on program, whatever earlier
\* auto transitions, failed activations and edits left running.
OneComposed ==
  [][\A a \in Actor : At(a, "send") /\ ~At(a, "send")' /\ intent' = req[a].goal /\ ~raced'
                      => Composed' \subseteq {intent'}]_vars

\* A scene is on program, and composed.
SceneUp ==
  /\ Idle /\ ~raced /\ intent \in Scene /\ child[intent] # None
  /\ ffmpeg[child[intent]] = "running" /\ reader[child[intent]] = "tags"
OnProgram ==
  /\ intent \in Scene /\ child[intent] # None
  /\ at.place = "loop" /\ at.feed = run[child[intent]].relay

\* A scene that is on program and composed is what the router forwards in the end
\* (program.rs 91-189), from wherever it came, unless the scene was given another
\* relay under the router's eyes.
SceneReachesProgram == <>[](SceneUp /\ ~behind) => <>[]OnProgram

\* "Restart the compositor if this scene is currently the program (so live edits to
\* its layers take effect immediately)" (scenes.rs 248-249): what the restarted
\* compositor makes is what the router forwards in the end.
LiveEditsShow == <>[]SceneUp => <>[]OnProgram
=============================================================================
