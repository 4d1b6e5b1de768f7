# Formal models of muxshed

TLA+ models of the studio server in `crates/api` and `crates/processor`: what
puts a source on program, keeps it there, and takes the studio on and off air.
Every module is translated from the Rust source; `PROJECT.json` names the lines
each definition stands for.

## The system

muxshed is one tokio process. Sources (RTMP, SRT, WHIP, guests, browser pages,
files) are brought to a common format by ffmpeg child processes and sent, tag by
tag, into a **media relay** per source. A **program router** forwards one relay
to the program channel, from which the **egress** (one ffmpeg per destination)
and the **channel HLS** output read. Between operator and router sits the
**failover supervisor**. A **scheduler** fires broadcasts, each of which is a
**playout task** that plays files into a relay of its own and goes on air with
it. Everything shares one `AppState`.

| Component | State | Operations | Interacts through |
|---|---|---|---|
| Failover supervisor (`failover.rs`) | locals of `run_failover_supervisor` and `monitor`; `failover_active` | follow the selection, watch its frames, fail over, restore | `program_intent` (in), `program_source` (out), relays, the settings row, egress restart |
| Settings handler (`routes/failover.rs`) | `failover_config` row | save, then send `program_intent` again | `program_intent` |
| Program router (`program.rs`) | current and pending source, receivers, `got_keyframe`, output timestamp | enter a source, prepare and complete a switch, forward video, forward audio | `program_source`, `audio_routing`, relays, `sequence_headers`, `program_tx` |
| Pipeline (`stub.rs`) | Idle, Starting, Live, Stopping | start, stop; each arms a transition 500 ms later | its mutex |
| Egress (`egress.rs`), channel HLS (`channel_hls.rs`) | child processes, restart parameters | start, stop, restart | their mutexes |
| Stream, output, channel routes | - | start, stop, change the output, switch the channel | pipeline, egress, HLS, `program_intent` |
| Playout (`playout.rs`), scheduler (`scheduler.rs`) | `active_schedule`; rows of schedules | fire, run, stop; one task per broadcast | everything above, `media_players` |
| Ingest (`rtmp/server.rs`, `source_normalizer.rs`, `media_player.rs`, `srt.rs`, `browser_source.rs`) | relays, headers, child processes, source states | connect, publish, end, clean up | `AppState` maps |
| WHIP and guests (`webrtc_ingest.rs`, `routes/whip.rs`, `routes/guests.rs`) | peers, sessions, the guest's record; the same maps | publish, bridge when video comes, reap, tear down | `AppState` maps, callbacks of the peer connection, database |
| Scenes (`routes/scenes.rs`, `scene_compositor.rs`), switching (`routes/switching.rs`) | `scenes`, `scene_layers`; `scene_compositors`; `preview_source` | create, edit, delete, activate; cut, auto transition, preview | relays, `sequence_headers`, `source_states`, `program_intent`, one ffmpeg per composed scene |
| Accounts (`auth.rs`, `routes/auth.rs`, `routes/keys.rs`, `routes/setup.rs`) | `users`, `sessions`, `api_keys` | set up, log in and out, create, change, delete | database, one statement at a time |
| Stingers, assets | tables, files | upload, list, delete | database |
| Audio desk, WHEP preview, websocket | `audio_routing`, event bus | route, mute, snapshot | watch and broadcast channels |

What is hard here is not any handler but what happens **between the awaits**:
the supervisor awaits an egress restart inside the branch that measures silence;
two tasks hold values of a channel they read before another wrote it; delayed
transitions and playout tasks outlive the request that started them; receivers
are polled in a random order; a relay is replaced while somebody still reads the
old one; a handler that reads one row and writes another holds no transaction,
and is dropped at any await when its client hangs up. `PROJECT.json` lists these places one by one as hazards.

What makes each component correct:

* supervisor: on program is what the operator selected, or the fallback while
  the selection is dark; it settles on the last selection and settings; the flag
  shown in the studio is true; it neither fails over nor restores without cause
  and always does so with cause.
* router: what goes out can be decoded; headers precede what they describe; one
  audio at a time; a cut completes.
* going on air: the pipeline is never stuck, ends up as last asked; outputs
  agree with it; every broadcast ends when it is stopped and cleans up.
* ingest: the clean-up of one session never undoes a newer one.
* WHIP: an ffmpeg is in the map only while there is a peer; a source without a
  peer has nothing left; a dropped or abandoned peer goes.
* scenes: an ffmpeg is in the map of compositors or does not run; what is selected
  replaces every other composite; a composite on program is what the router
  forwards, also after an edit.
* accounts: there is always an administrator; nobody who was deleted is signed in;
  only one set-up succeeds.

## Modules

| Module | Models | Run |
|---|---|---|
| `Failover` | supervisor, settings handler, operator, sources | (in `Program`) |
| `Program` | the supervisor with the router it steers, and what the router's hold on a relay does to it | `failover` |
| `Substitution` | what failover promises; `Failover` implements it | `failover` (`KeepsPromise`) |
| `FailoverProofs` | theorems about `Failover` and `Program` | - |
| `ProgramRouter` | router, relays, headers | `router` |
| `RouterProofs` | theorems about `ProgramRouter` | - |
| `OnAir` | pipeline, egress, HLS, their handlers, scheduler, playout tasks | `onair`, `onair_twice`, `onair_lingers` |
| `OnAirProofs` | theorems about `OnAir` | - |
| `Ingest` | how a source gets its ffmpeg, relay, header and state, and loses them | `ingest`, `ingest_takeover` |
| `IngestProofs`, `IngestTurnProofs` | theorems about `Ingest`: what runs; what is left behind, and sessions in turn | - |
| `Whip` | publishing over WebRTC, for persistent sources and guests | `whip`, `whip_reaped` |
| `WhipProofs` | theorems about `Whip` | - |
| `Scenes` | scenes, their compositors, the cuts that replace them, the router that finds them | `scenes`, `scene_edit` |
| `ScenesProofs` | theorems about `Scenes` | - |
| `Accounts` | set-up, users, sessions, keys | `accounts` |
| `AccountsProofs` | theorems about `Accounts` | - |
| `MC...` | instances for TLC | - |

### Failover

`pc` is where the supervisor is: `eval`, `load` and `parked` in
`run_failover_supervisor`, `ensure` and `enter` on the way into `monitor`,
`watch` at its `select!`, `toFallback` and `toIntended` while it awaits the
egress restart. Each branch of the `select!` is an action, and so is each tick
outcome. Time is discrete: one unit is the 250 ms ticker, `Pass` lets it go by;
`last_video` and `recovering_since` are ages. A source puts one frame per unit
into its relay; frames wait in `buf` until the supervisor reads them, so a frame
counts from when it is *read*, as in the code. `feed` tells for every source
whether it has no relay, a relay without frames, or one with frames; `rx` is the
supervisor's receiver, an `orphan` after its relay was removed. An orphan is
closed only when the last sender of its relay is dropped, and others may keep one
(`kept`): the program router that of the source on program (`program.rs` 98-104),
a preview client or scene layer that of the source it reads. Until they let go,
the supervisor does not look for the source's next relay (`failover.rs` 126-133).
`Failover` lets anybody keep and release a sender at any time (`Holders`). `PUT
/api/v1/failover` is three steps (save, borrow, send), because a cut can come
between the last two.

`Prompt` says that the runtime runs the supervisor whenever it can before 250 ms
go by. The properties about grace periods need it: a supervisor that is not
polled for seconds may see any silence. It says nothing of what the supervisor
itself awaits: the egress restart takes `SpliceTime` units during which it reads
nothing.

### Program

The supervisor and the router. `Supervise` is a step of the supervisor, with what
the router has of it (`Routes`); `Feed` a change of a source, of whose old relay the
router keeps a sender exactly if it is reading it (`Holds`); the rest are the
router's own steps, without tags: `Pick` enters a source or waits for another
(`Awaited`), `SourceChanged` prepares a switch, `Splice` completes it, `Abort` gives
it up, `Reroute` leaves the inner loop for the audio's sake. Leaving the inner loop
lets go of the relay (`DropsRelay`). `ViewerLeaves` is any other holder. Every step
is one of `Failover` or leaves its variables alone (theorem `WithRouter`), so what
holds of `Failover` holds here.

While the router keeps the relay of a source that has come back with another, the
supervisor is blind to that source. Two things follow. A source that produces, but
out of sight, is failed over from like one that is dark: `NoSpuriousFailover`
therefore speaks of a source that has produced *in the supervisor's sight*
(`InSight`), and that is all the code can promise. And its return is noticed only
once the router's cut to the fallback is complete, which lets go of the relay:
`LiveIsRestored` says that it is, whatever else happens, *if whenever the fallback
stood in it had video*. If it has none, see below (`LiveReturns`).

### Substitution

The abstract specification of failover, stated without clocks, receivers or
restarts: a selection and settings that are *chosen*, a selection and settings
that are *acted on*, what is shown, and whether it stands in for the selection.
`Failover` implements it (`KeepsPromise`) under the mapping `want <- cur`,
`plan <- use`, `substituted <- StandsIn`. `StandsIn` is not `failover_active`:
the code changes the route before it awaits the egress restart and the flag
behind it, so while a splice is awaited it is `pc` that tells. Frames, ticks,
relays and the flag are stutters of `Substitution`. The mapping shows that no
step shows a source that belongs to another round's selection or settings, and
that the fallback never replaces anything but the selection that is shown.

### ProgramRouter

`pc` is where the router is in its outer loop; the inner `select!` is `loop`,
with one action per branch and outcome. A relay is known by its generation, so
that a reconnected source has another relay under the same name. A receiver is
the relay it reads and its unread tags. Tags carry no payload: a video tag is its
place in its group of pictures, which is what "can be decoded" needs; beside them
there is audio, and a sequence header of either. `shown`, `header`, `heard` and
`tuned` are the last frame, video header, audio and audio header on the program.
An encoder opens with its headers, which its reader stores before it sends them
(`headers`, `sounds`). An encoder that returns after a reset finds the relay still
there and begins anew in it (`BeginAnew`): its headers then arrive behind the
keyframe the router once waited for. That matters because the router forwards the
video source's audio header as soon as the video has started, also when another
source carries the audio (`program.rs` 219). `OneAudio` says that the audio itself
is always the right source's, and its header too, but for this case (`anew`).

### OnAir

A handler or playout task is an actor with a list of operations still to do;
`Start`, `Stop`, `Broadcast` and so on are the handlers' sequences of awaits, and
each operation is one action. That way every interleaving of two handlers at
their awaits is a behaviour. An operation may add operations (`Restart` inserts a
stop and a start) or drop the rest (an early return). `timers` holds the delayed
transitions of `stub.rs`: all of them sleep 500 ms, so they fire in the order in
which they were armed, and nothing cancels them. Starting the egress may bring
nothing up, because the list of destinations may be empty and a failing start is
only logged (`stream.rs` 97-131, `playout.rs` 57-63); `bare` remembers that the
last start did not. So a pipeline may settle Live with no destination connected, and
`SettlesAsAsked` says that it does so only then. The player of a standby card
belongs to no task: a broadcast that ends with its card leaves it on program, and
no task ever
stops it, although every such end starts another (`playout.rs` 132-138; the model
keeps one `Card` for all of them).
`NoOrphanVod` is about the players of playlists only.

### Ingest

Sources share nothing but the locks of `AppState`'s maps, so one source is
modelled, of any kind: RTMP, file, SRT, browser. A session or API call is an
actor; `todo` is what it has still to do, one entry per stretch between two
awaits, as in `OnAir`. `map` is the source's child in `source_normalizers`,
`media_players` or `srt_listeners`; taking a child out of it kills it, because
it is dropped and all of them are `kill_on_drop`. `reader` follows the task that
reads a child's output: whoever has read the FLV header removes, at the end, *the
child that is in the map*, as normalizers and players do and SRT listeners do
not. It may be late, since a pipe is read after its writer has died. `watch` is
the task that reads an SRT listener's messages. `holders` are those who hold a
sender of the relay that is in the map; a relay that is dropped and created again
is another one, so dropping it empties `holders`. `own` is what an RTMP session
writes to; when nobody writes, the normalizer's input ends (`InputEnds`). A
session ends in good order (`PublishFinished`, also when the connection is
closed) or by an error, which returns past the clean-up (`ConnectionError`). A
connection that publishes may publish again (`PublishAgain`), which overlaps itself;
under the key of another source it forgets the first one, which is then left as by
an error.

Chrome is not modelled beside the ffmpeg of a browser page: both are put into
their maps one after the other and stopped together. The stop functions of files
and SRT listeners hold the lock of their map until they return; the model lets
others in between, which only adds behaviours.

`alone` remembers whether calls have overlapped. Most of what one would like to
promise of a source is true only if they have not, and that is what `InTurn` and
`DeletedIsGone` say; `NoStray`, `EndsClean` and
`UnfedEnds` hold under every overlap.

### Whip

One WebRTC source, persistent or a guest's. A *publish* is one answered offer
with its peer connection and its ffmpeg. Its tasks (the request, the watchdog,
the bridge, the callback of the peer connection) and the API calls that delete
have lists of operations to do, as in `Ingest`: `Whip` and `Join` are the two
requests, `Bridge` is `start_ffmpeg` behind the spawn, `Stop` is `stop_ingest`,
which all of them call. `peer` and `child` are what `guest_peers` and
`source_normalizers` hold; `Install` and `Unbridge` are each one step because
both hold the normalizers' lock throughout. `took` is the peer that a teardown
has taken out and closes at its end, in a task of its own (`closing`), whose
callback stops the source once more (`Closed`). `feeds` tells whose relay is the
one in the map. `reader` is where `read_flv_output` is, up to the first stored
header; it may lag behind an ffmpeg that has died. `guest` is the status of the
guest's record as long as it is linked to this source, `apart` otherwise.

The relay and the headers are dropped in one step, although two locks are taken;
the token look-up of a request and the spawn of the bridge belong to the step
they lead to. The `.sdp` file, ports, RTP forwarding and keyframe requests are
left out. Every guest's offer makes a source of its own, so a guest publishes
once; a second use of the link is `Unlinked`, as is deleting the guest.

`alone` says that requests and deletions never overlapped and no publish began
before all was over with the earlier one; `late` that a bridge or reader wrote
the source's state when no peer was in the map, which the code lets happen: the
source then refuses publishers until something stops it again. `BridgeHasPeer`,
`NoStray` and `GuestLeaves` hold under every overlap, `LeavesNothing` under every
overlap but a late write, and the rest where the code can be expected to keep
its promise: alone.

### Scenes

A request (activate, cut, auto transition, layer edit) is an actor; `pc` is which
stretch between two awaits comes next: the list of `stop_all_compositors` (`all`)
and its elements (`each`), the look at the selection (`refresh`), the two halves
of the stop at the head of `start_scene_compositor` (`take` the child, `drop` the
relay), reading the layers and getting a relay (`start`), spawning and installing
(`spawn`), and sending the selection (`send`). `child` is `scene_compositors`;
whatever is taken or pushed out of it is killed. `reader` follows
`read_composited_output`, which may lag behind a dead ffmpeg and at its end
removes *the child the scene has by then*. `relay` names the relay of each scene
by the compositor it was made for, so that a relay made again is another one.
Of the router, `at` and `next` are what it forwards and what it prepares, each
with the relay it holds; the rest of its behaviour is `ProgramRouter`'s. It looks
a relay up only when it enters its outer loop or is told of another selection.

`GiveUp` drops a request anywhere: a failing statement or listener, or a handler
whose client hung up. `Exit` lets a compositor die, `Disconnect` a source.
`Stop` is one step in `StopEach` and two in `Take` and `Drop`: a reader that comes
between the halves finds nothing to remove, and what other requests do there
differs only if they touch the scene that is being stopped; the composition of
two starts of one scene is where it matters, and there the halves are apart. The
layers are read in one step with `get_or_create_media_relay`. Failover is off, so
that the selection is what is routed. `CreateScene` inserts a scene with its
layers at once; one that fails half-way leaves a scene with fewer layers, which
an edit reaches too.

`raced` says that two requests ever overlapped or a reader removed a successor's
child; `behind` that a scene the router forwards, prepares or should forward was
given another relay since the router last looked. `NoStray` and the types hold
however requests overlap. `OneComposed` is about a cut or activation in turn,
but whatever earlier requests left behind. `SceneReachesProgram` excludes
`behind`, and `LiveEditsShow`, which does not, is what the code breaks.

### Accounts

A request is an actor, each of its steps one SQL statement; no handler uses a
transaction, and the pool has five connections. SQLite itself keeps user names
unique and deletes a user's sessions with the user; `Seat`, `Insert`, `Update`,
`Issue` and `DeleteRow` say so. `last` is what `delete_user` counted before it
read the role, `name` and `role` what `update_user` read and will write back.
`GiveUp` ends a request anywhere. Ids, tokens and keys are random and so never
given out twice (`used`). `Authorized` is `auth_middleware`: a session that has
not expired, a key, or the system token; roles and scopes are stored but looked at
by none of these handlers, so the model does not look at them either.
`SystemToken = TRUE` gives the larger set of behaviours.

History variables say what a property has to exclude: `unseated` (any user was
renamed or deleted, after which a broken-off set-up may legitimately be repeated),
`demoted` (somebody asked for an administrator to become something else, which no
check forbids) and `crossed` (two deletions, or two requests that change one user,
overlapped). With `crossed`, the last two administrators can delete each other:
the check and the deletion are four statements. No comment or test speaks of
overlapping requests, so this is a limit of `AdminRemains` and not a finding.

## Runs

| Run | Shows | Instance and bounds |
|---|---|---|
| `failover` | all properties of the supervisor hold, together with the router, and it implements `Substitution` | a live source and an image; failover off, or on with either as fallback; offline grace 2 ticks, recovery 2, start-up 3, gap 1, splice 1; 4 events |
| `router` | all properties of the router hold | two sources, audio following the video or from either; groups of 2 pictures; 3 events |
| `onair` | all properties of going on and off air hold | two requests, two broadcasts, two schedules, 2 events |
| `onair_twice` | two schedules due together both go on air | no requests, two broadcasts |
| `onair_lingers` | a loop stopped through `/stream/stop` plays on | one request, one looping broadcast |
| `ingest` | all properties of ingest hold | a source of each kind, two actors, four events, five ffmpegs, failures on |
| `ingest_takeover` | of two publishes with one key, the late reader of the first kills the normalizer of the second | RTMP, no failures, three events |
| `whip` | all properties of WebRTC ingest hold | a source of either kind, two publishes, one API call at a time, three events, two tasks in the middle of something |
| `whip_reaped` | the watchdog of a publish that is over stops the next one | the same, a persistent source only |
| `scenes` | all properties of scenes and compositors hold | one source, two scenes of which one exists at the start, two requests, four compositors, three events |
| `scene_edit` | an edit of the scene on program freezes the program | two sources, one scene, two requests, two events |
| `accounts` | all properties of accounts hold | three users, two names, two roles, two tokens, two keys, two requests, five events |

Why the bounds are enough. *Events* bound only what the environment does
(selections, settings, sources that come and go, cuts, requests, schedules
coming due), never the system's own steps. Four events reach the longest story
the supervisor has rules for: connect, select, go dark, come back; every one of
them at every point of its loop and of the router's. Ages saturate one above the
largest threshold they are compared with, so a longer silence is no different. The
ticks stand for the code's 12 (offline), 20 (start-up) and 3 (gap and splice):
what matters is their order, that the start-up grace is the longest, and that the
offline grace is no shorter than a gap and a splice together (`Patient` of the
proofs, which cover the real numbers). Two queued frames are as many as a splice
lets through. In the router,
a group of two pictures has a keyframe and one frame that depends on it; a
receiver holds two tags, and `KeepsUp` makes a sender wait rather than let the
router fall behind, because a lag of 4096 tags is what the capacity is there to
exclude. Two requests or broadcasts at a time are every pair that can overlap;
in `onair` two events are enough for every pair of requests, a request against a
broadcast, and two broadcasts, each at every point of the other. In `ingest` four
events are two sessions that begin and end, each at every point of the other, or
two sessions, a reset and a deletion; `MaxChild` is one more than the events, so
that no spawn ever lacks a child. In `whip` the second publish is the one that a
watchdog, callback or reader of the first can hit; three events are two publishes
and one thing that goes wrong, or one publish and two. `Width` counts the tasks
that are in the middle of their lists and the readers that have not stored a
header yet; with two, every pair of them overlaps at every point. A watchdog that
waits is not counted, so it outlives any number of others. The properties also
held with four events. In `scenes` three events are an activation, a second request at
every point of it, and one thing that goes wrong, or three requests in turn, as
many as it takes to leave a composite, select another and cut; `MaxRun` is one
more than the events. In `accounts` five events are a set-up, a second user, and
two requests about them that may be broken off. Users, tokens, keys and requests
are interchangeable there, and only safety is checked, so symmetry is sound.

### Fairness

* `Program`: weak fairness of the supervisor, of the settings handler, of the clock
  and of the router: entering a source, hearing of another, and completing or giving
  up a switch (a source with video comes to a keyframe). tokio polls every woken
  task, and `tokio::time` advances. Nothing is asked of the operator, of the sources
  or of the viewers; liveness properties say "if from some point on the selection
  stays dark / keeps producing and no viewer keeps its old relay".
* `ProgramRouter`: weak fairness of each branch of the `select!`, which starts
  at a random branch, so that none which stays ready is passed over for ever;
  and the routed source goes on producing, without which no cut could complete.
* `OnAir`: weak fairness of every actor and of the timers. ffmpeg's starting
  and stopping is finite; the scheduler and the operator owe nothing.
* `Ingest`: weak fairness of every actor and of every task of a child, and an
  ffmpeg whose input was closed exits. Nobody has to publish, and no ffmpeg has
  to exit by itself.
* `Scenes`: weak fairness of every request's next step, of every reader and of
  each branch of the router. Nobody has to select anything, and no compositor has
  to exit.
* `Accounts`: none; only safety is stated.
* `Whip`: none; only safety is stated, and what must end is said of states in
  which nobody has anything left to do (`Over`, `AllDone`).

### Deadlock

`Program` is checked for deadlock; `Rest` marks the one state in which nothing
is left to do. The other modules may really stop: a router without a
source, a studio nobody uses, a source nobody feeds or publishes to, scenes nobody
selects, an instance nobody signs in to (and every bounded environment runs out
of events).

## What the code does otherwise than it says

Five runs end in a counterexample; `PROJECT.json` quotes the lines.

1. `onair_twice`. A schedule counts as live only after its playlist was loaded.
2. `onair_lingers`. `/stream/stop` does not deactivate the schedule on air; its
   loop plays on, and the scheduler skips everything from then on.
3. `ingest_takeover`. A normalizer's reader removes *the source's* child when its
   output ends, not its own. After a takeover, or a quick reconnect, that is the
   new one: it is killed, and the source stays Live with nothing behind it.
4. `whip_reaped`. The 30 s watchdog knows its source, not its publish. If the
   publish is over and the next one is not live yet, it tears that one down.
5. `scene_edit`. A layer edit of the scene on program drops the scene's relay and
   makes another. The router holds the old one and is told nothing, so the
   program freezes instead of showing the edit.

Five more disagreements were met on the way; no run is kept for them, and
what is left of them is in the properties' conditions. A selection that came back and
produces is not always restored, although `failover.rs` 9-11 says so: if the fallback
has no relay, or loses it, the router gives the switch to it up and goes on holding
the dead relay of the selection, whose new relay the supervisor then never looks for.
`FailoverStuck.cfg` (with `MCFailover`: two live sources, one the other's fallback)
makes TLC show it as a violation of `LiveReturns`; `LiveIsRestored` has the condition
that excludes it. An audio sequence header of the video source goes out while
another source carries the audio, when an encoder begins anew in its relay
(`program.rs` 219 against 56, "audio from audio routing"; `OneAudio` excludes
`anew`). An offline grace as short
as an egress restart makes a source that was just restored look dark
(`failover.rs` 137-163; the `failover` run has a longer one). Behind the keyframe
of a splice the router waits for another keyframe, so the stream is not "gapless"
(`program.rs` 57, 207-212). A cut to a source without a relay is given up at once
and does not wait, as its log line says (`program.rs` 139-144, 194-197;
`CutCompletes` speaks of a source that is ready): a source that gets its relay only
after the cut to it is not shown until it is selected again.

## Proofs

`FailoverProofs` proves, for any sources, settings, graces and bounds, `ClocksAgree`,
`NeverSpurious` and `NeverEarly` assuming `Patient` and the others without `Prompt`:

* `TypeCorrect`: `[]TypeOK`;
* `Inductive`: `[]IInv`;
* `SettledIsUpToDate`, `SettledOnAir`, `FlagIsTrue`: the three safety invariants
  of the `failover` run;
* `Implements`: `KeepsPromise`, that is, `Promise!ASpec`;
* `ClocksAgree`: `[]Clocks`;
* `NeverSpurious`: `NoSpuriousFailover`;
* `NeverEarly`: `NoEarlyRestore`;
* `WithRouter`: `ProgramSpec => Spec`, so that all of this holds with the router too;
* `BlindedOnlyByItsOwn`: `ProgramSpec => []Blinds`.

The invariants speak of a settled supervisor and are not inductive. `IInv` adds
what each `pc` knows on the way there: past `borrow_and_update` the selection
held is the last one *or a send is unseen* (`SelectionHeld`); past `load_config`
the settings held are the saved ones *or a send is unseen or on its way from the
handler that saved them* (`SettingsHeld`); inside `monitor` failover is armed and
`fb` is the held fallback (`MonitorArgs`); what is routed and what the flag says
at each point (`Routed`), and that a flag left over from the last `monitor` still
agrees with the route (`FlagLeftOver`). The proof of each step has one case per
action. The refinement rests on the same invariant: `MonitorArgs` is what makes a
failover a `Substitute` rather than a step to some other source. The assumptions
are those the module declares: `None` is no source,
bounds are naturals, there is at least one setting.

`NoSpuriousFailover` and `NoEarlyRestore` compare two clocks: the age of the last
frame that the supervisor has read, by which it decides, and what the source has
really done. The two differ while an egress restart keeps it from reading, until a
new relay is subscribed to, and as long as frames are queued. `Clocks` says how far
they may be apart at each of these: a backlog is of a source that produces or was
left by a splice that has just ended (`BacklogIsFresh`), a relay that is gone and
that nobody keeps was lost just now, and a source behind one that is kept is not
counted as in sight (`OrphanIsFresh`, `KeptIsUnseen`), a restore begins within the gap that is forgiven
and takes no longer than a splice (`RestoreIsShort`), a relay is subscribed to at the
first tick behind one (`SubscribesSoon`) and read empty at once (`ReadIsFresh`,
`ShownIsFresh`), and recovery is timed only while the source is sound or until the
tick that ends it (`RecoveryIsSound`). `Patient` is what this asks of the constants:
`Prompt`, a relay that holds a frame, and an offline grace no shorter than the gap
and the splice together. The default grace of 3000 ms (`types.rs` 213) is that long
(750 ms and some 600 ms); the settings page accepts 500 ms (`+page.svelte` 58), which is not,
and then the code may indeed fail over right behind a restore, with the frames of a sound source still
queued: it is the disagreement about short graces described above.

`OnAirProofs` proves, for any number of requests, playout tasks and schedules,
any choice of requests and any bound on events, without fairness:

* `TypeCorrect`: `[]TypeOK`;
* `Inductive`: `[]IInv`;
* `NeverStuck`: `[]PipelineSettles`;
* `NoOrphans`: `[]NoOrphanVod`;
* `InductiveTurns`: `[](Ordered /\ Turns)`;
* `AlwaysAsAsked`: `[]SettlesAsAsked`;
* `HlsMatches`: `[]HlsNeedsChannel`.

Neither of the first two invariants is inductive, because both depend on what actors have *still*
to do. `IInv` therefore describes every list of operations that is ever left:
`goStarting` and `goStopping` are directly followed by the arming of their timer
(`ArmNext`), and behind every `play` comes the stop of the player, with nothing
in between that could drop the rest of the list (`PlayStops`); a running player
has that stop ahead of it (`PlayersStop`). `StepMoves` reduces the operations to
seven ways of moving on, and each of these is shown to keep the shape. Then a
Starting or Stopping pipeline keeps its way out: first the actor that is about to
arm the timer, then the timer.

The other two are about requests that did not overlap, and need to know what a list
achieves when it is done: it asks the pipeline for what it tells the egress, which
may bring nothing up (`Agreed`, `Sending`), the timer that was armed last leads where the last request wanted
(`Heading`), and an output whose channel is not enabled is about to be cleared by
whoever disabled it (`Channeled`). All of it holds while at most one of them is under
way, which `Turns` says beside. `ActorAssumption` and `BoundAssumption` of the
module are all that is assumed.

`IngestProofs` proves, for any number of sessions, calls and ffmpegs, with or
without failures and without fairness:

* `TypeCorrect`: `[]TypeOK`;
* `Inductive`: `[]IInv`;
* `NoneStrays`: `[]NoStray`.

`NoStray` says where a running ffmpeg is to be found; that it gets there depends
on the lists again: a spawn is directly followed by its installation (`Paired`),
and whoever is about to install has an ffmpeg in hand (`TodoOK`). A step then
loses nothing if it starts nothing, kills what it takes out of the map, and lets
nobody who is about to install give up (`NothingLost`); `Spawn` and `Install` are
the two that need an argument of their own. `IngestAssumption` is all that is
assumed.

`IngestTurnProofs` goes on from there, under the same assumption:

* `InductiveLists`: `[](Lists /\ Readers /\ ToClear)`;
* `AlwaysEndsClean`: `[]EndsClean`;
* `InductiveTurns`: `[]Turns`;
* `AlwaysInTurn`: `[]InTurn`;
* `DeletedStaysGone`: `[]DeletedIsGone`.

`EndsClean` holds however sessions overlap: a list sets up or clears, never both
(`Lists`), and of whatever is set up there is somebody who is still to clear it or
will be, a publisher who is on or a list that has the operation in it (`ToClear`);
the last one to clear finds nothing that was put there behind its back, because
somebody else then has that to clear. The other two are about sessions in turn.
`Turns` says that one of them is on and one ffmpeg is tended (`OneActive`,
`OneTended`), what feeds the relay and what is fed (`Feeding`, `Fed`), that
whoever starts a source has stopped the earlier one (`StopsFirst`) and does not
lose its own (`Spared`), and that of a deleted source there is only what somebody
is about to clear (`Deleted`).

`WhipProofs` proves, for any number of publishes and calls, for both kinds of
source, any bound on events and any `Width`:

* `TypeCorrect`: `[]TypeOK`;
* `Inductive`: `[]IInv`;
* `BridgedHavePeers`: `[]BridgeHasPeer`;
* `NoneStrays`: `[]NoStray`;
* `InductiveDebts`: `[](Lists /\ Stages /\ Takes /\ Begins /\ ToClear)`;
* `AlwaysLeavesNothing`: `[]LeavesNothing`;
* `AlwaysGuestLeaves`: `[]GuestLeaves`;
* `InductiveTurns`: `[]Turns`;
* `AlwaysInTurn`: `[]InTurn`.

The first two invariants and the types are inductive together, which is what the
paired lock achieves: a peer leaves the map only in the step that empties
`child`, and a child enters it only in a step that sees a peer. Every other
operation changes neither (`Quiet`, `Still`), so what is left is that lists stay
lists of operations and that only a bridge is ever about to install.

`LeavesNothing` and `GuestLeaves` are about the end of all this, and `ToClear` about
the way there: of everything that is there, somebody is still in debt to clear it.
That is whoever has the operation in its list; a peer, because what closes it has
yet to come; or a request that will have a peer. So a debt only ever passes from the
request to the peer, and from the peer to whoever takes it. `Lists` keeps the
operations in the order this needs, `Stages` says how far a publish can have come
when its request, bridge or watchdog is about to act, and `Takes` that a peer once
taken is still to be closed. `Turns` says, as long as nothing has overlapped, that
there is one publish at a time and nothing of an earlier one (`One`, `Apart`,
`SpentEarly`); that the source becomes live only by the reader of the publish whose
peer is in the map (`NotYetLive`, `LiveIsRead`) and until then is watched
(`Watched`); that a connection that is down has somebody to end it
(`DownIsDoomed`); and that the peer feeds the relay the router finds (`Fed`,
`Feeds`). `WhipAssumption` is all that is assumed.

`RouterProofs` proves, for any number of sources and routings, any length of the
groups of pictures, any capacity of a relay and any bound on events:

* `TypeCorrect`: `[]TypeOK`;
* `Inductive`: `[]IInv`;
* `OneAudioHolds`: `OneAudio`;
* `Headers`: `SplicedBehindItsHeader`;
* `DecodableHolds`: `Decodable`, assuming `KeepsUp`.

`OneAudio` needs that the audio source fits the routing while no change of it is
unseen (`Chosen`), and that an encoder which did not begin anew has its headers read
before the router's first keyframe (`HeadersFirst`); the headers, that a source which sent more than its header is known
(`Known`). `Decodable` speaks of the last frame and of the next, and in between lies a
queue that grows at one end and shrinks at the other. So the invariant says that the
queue has no gap and ends where its source goes on (`InOrder`, `Gapless`), and that
its first tag, or the source's next one, goes on from what was shown (`Playing`). Both
are about a relay that is still fed, `Live`; `Gone` says that a relay that is lost
never comes back under its generation, so that a source that reconnects does not feed
an old receiver. Without `KeepsUp` the oldest tags are dropped from a full queue and the
gap is real. `SourceAssumption` and `BoundAssumption` are all that is assumed besides.

`ScenesProofs` proves, for any number of scenes, sources, requests and compositors,
without fairness:

* `TypeCorrect`: `[]TypeOK`;
* `Inductive`: `[]IInv`;
* `NoneStray`: `[]NoStray`;
* `OneScene`: `OneComposed`.

`NoStray` needs to know what is about to enter the map: whoever stops or starts
something has a scene to do it for (`Goals`), a compositor that was not begun has no
process and no reader, and every other has its scene (`Numbered`), and who is about
to install has a compositor that was begun for its own goal (`Mine`). `OneComposed` is about
requests in turn, and its second invariant, `InTurn`, says what such a request has
achieved at each `pc`: only one is under way, what is composed is among the scenes
it has still to stop, nothing is while it starts its own, and only its own is when
it sends. `ScenesAssumption` is all that is assumed.

`AccountsProofs` proves, for any number of users, names, tokens, keys and
requests, with or without a system token:

* `TypeCorrect`: `[]TypeOK`;
* `Inductive`: `[]IInv`;
* `SessionsOwned`: `[]SessionOwned`;
* `OneSetup`: `[]SetupOnce`;
* `AdminsRemain`: `AdminRemains`.

`OneSeat` counts the set-ups that hold a seat or have handed out a key: at most
one, as long as nobody was renamed or deleted, because then the name `admin` stays
taken. `AdminInv` is what the requests know while nothing has crossed and nobody
asked for a demotion: two of them that change a user change different ones
(`OneChanges`), an update of an administrator writes the role back
(`KeepsRole`), and a deletion past its check leaves another administrator
(`LeavesAnother`); `Fresh` keeps an id from being given out twice, which the
last one needs. `AccountsAssumption` is all that is assumed.

Out of the prover's reach, and left to TLC: liveness under fairness
(`DarkIsReplaced`, `LiveIsRestored`, `CutCompletes`, `DeactivatedTaskEnds`,
`UnfedEnds`, `SceneReachesProgram`),
`ENABLED`, and what recursive definitions compute.

Every invariant and every safety action property of the passing runs is the
statement of a theorem above; what is only model-checked is liveness.

## Not modelled, and the plan

Left out for good: ffmpeg, filter graphs, passwords, HTTP parsing, file uploads and
serving (stingers, assets, logos), the GStreamer pipeline (never constructed by
`main.rs`), the web client, cron arithmetic (a library's), and handlers that only
read. `remap_tag` and timestamps: nothing but `output_ts` depends on them, and what
a player makes of a step back is not the repository's. Left out so far, in the
order in which they would be added:

1. `Program` with the tags and the audio of `ProgramRouter`, that is, what a viewer
   sees of a failover; today each is checked with the other's part left open.
2. A restart (`startup.rs`), which forgets peers and ffmpegs but must find every
   guest's row, also of a guest that was deleted during the call; and API calls of
   `Whip` and `Ingest` that are dropped half-way, as those of `Scenes` and
   `Accounts` are.
3. The saved audio routing (`routes/audio.rs`), which is changed under the watch
   channel's lock and saved outside of it.
4. The schedules' rows and run times in `OnAir`.
