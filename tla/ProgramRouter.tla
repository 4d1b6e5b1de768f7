--------------------------- MODULE ProgramRouter ---------------------------
(***************************************************************************)
(* The program router (crates/api/src/program.rs), one task that forwards  *)
(* the tags of program_source's relay to the program, and takes the audio  *)
(* from another relay when the audio routing says so.  A change of source  *)
(* is spliced: the new source is subscribed to, and the old one goes on    *)
(* until the new one produces a keyframe.                                  *)
(*                                                                         *)
(* A relay is known by its generation: a source that disconnects and comes *)
(* back has a new relay (state.rs).  A video tag is its position in its    *)
(* group of pictures, 0 for the keyframe; timestamps and payloads are left *)
(* out.                                                                    *)
(***************************************************************************)
EXTENDS Naturals, Sequences

CONSTANTS
  Source,    \* the sources that can be put on program
  Routings,  \* the audio routings that are ever sent: a source, None for the video's
  None,      \* no source
  Gop,       \* the length of a group of pictures
  RelayCap,  \* tags a relay keeps for a receiver (4096)
  KeepsUp,   \* whether the router never falls RelayCap tags behind
  MaxEvents  \* bound: cuts, routing changes and disconnections of a behaviour

ASSUME SourceAssumption == None \notin Source /\ Routings \subseteq Source \cup {None}
ASSUME BoundAssumption  == /\ Gop \in Nat \ {0} /\ RelayCap \in Nat \ {0}
                           /\ MaxEvents \in Nat /\ KeepsUp \in BOOLEAN

Position   == 0..(Gop - 1)
Generation == 0..(MaxEvents + 1)    \* 0: no relay

\* The tags of a relay: the sequence headers of the video and of the audio, a video
\* frame, or audio.
Kinds       == {"header", "soundHeader", "video", "audio"}
Tag         == [kind : Kinds, at : Position]
Plain(k)    == [kind |-> k, at |-> 0]
Video(p)    == [kind |-> "video", at |-> p]
Key(t)      == t = Video(0)

\* An encoder opens with its headers; then each group of pictures is followed by audio.
Places      == 0..(Gop + 2)
Opening     == Gop + 1
OpeningSound == Gop + 2
TagAt(n)    == CASE n < Gop          -> Video(n)
                 [] n = Gop          -> Plain("audio")
                 [] n = Opening      -> Plain("header")
                 [] n = OpeningSound -> Plain("soundHeader")
Follow(n)   == IF n < Gop \/ n = Opening THEN n + 1 ELSE 0

\* A receiver: the relay it reads and its unread tags.
NoReceiver == [source |-> None, gen |-> 0, unread |-> <<>>]

VARIABLES
  \* the shared channels and maps
  routed, routedNew,     \* program_source, and whether a send is unseen
  routing, routingNew,   \* the audio source chosen, None to follow the video
  relay,      \* media_relays: the generation of each source's relay
  headers,    \* sequence_headers: the sources that have an entry
  sounds,     \* those whose entry has the audio's header too
  next,       \* per source: what it sends next, at a place of its group of pictures
  \* the router
  pc,
  current,    \* current_source_id
  audio,      \* audio_source_id
  video,      \* video_rx
  sound,      \* audio_rx
  pending,    \* pending_switch
  gotKey,     \* got_keyframe
  \* the program: its last video frame, the sources of its last video header, of its last
  \* audio and of its last audio header
  shown, header, heard, tuned,
  \* bounds and history
  drops,      \* how many disconnections there were
  ready,      \* the routed source had a relay when it was routed, and keeps it
  anew,       \* a source's encoder began anew in its relay
  events

known   == <<headers, sounds>>
shared  == <<routed, routedNew, routing, routingNew, relay, known, next>>
router  == <<current, audio, video, sound, pending, gotKey>>
program == <<shown, header, heard, tuned>>
history == <<drops, ready, anew>>
vars    == <<shared, pc, router, program, history, events>>

Receiver == [source : Source \cup {None}, gen : Generation, unread : Seq(Tag)]
Fits(r)  == Len(r.unread) <= RelayCap

PCs == {"pick", "headers", "relays", "waitRelay", "loop"}

TypeOK ==
  /\ routed \in Source \cup {None} /\ routedNew \in BOOLEAN
  /\ routing \in Source \cup {None} /\ routingNew \in BOOLEAN
  /\ relay \in [Source -> Generation] /\ headers \in SUBSET Source /\ sounds \in SUBSET Source
  /\ next \in [Source -> Places]
  /\ pc \in PCs
  /\ current \in Source \cup {None} /\ audio \in Source \cup {None}
  /\ {video, sound, pending} \subseteq Receiver
  /\ Fits(video) /\ Fits(sound) /\ Fits(pending)
  /\ gotKey \in BOOLEAN
  /\ shown \in [source : Source \cup {None}, gen : Generation, at : Position]
  /\ header \in Source \cup {None} /\ heard \in Source \cup {None} /\ tuned \in Source \cup {None}
  /\ anew \in BOOLEAN /\ drops \in 0..MaxEvents /\ ready \in BOOLEAN /\ events \in 0..MaxEvents

Init ==
  /\ routed = None /\ routedNew = FALSE
  /\ routing = None /\ routingNew = FALSE
  /\ relay = [s \in Source |-> 0] /\ headers = {} /\ sounds = {}
  /\ next = [s \in Source |-> Opening]
  /\ pc = "pick"
  /\ current = None /\ audio = None
  /\ video = NoReceiver /\ sound = NoReceiver /\ pending = NoReceiver
  /\ gotKey = FALSE
  /\ shown = [source |-> None, gen |-> 0, at |-> 0] /\ header = None /\ heard = None /\ tuned = None
  /\ drops = 0 /\ ready = FALSE /\ anew = FALSE /\ events = 0

-----------------------------------------------------------------------------
(* The outer loop: choose the source, send its headers, find its relay.    *)

AudioFor(s) == IF routing = None THEN s ELSE routing

\* Waits while nothing is routed; both channels are marked seen.
Pick ==
  /\ pc = "pick" /\ routed # None
  /\ current' = routed /\ audio' = AudioFor(routed)
  /\ routedNew' = FALSE /\ routingNew' = FALSE
  /\ pc' = "headers"
  /\ UNCHANGED <<routed, routing, relay, known, next, video, sound, pending, gotKey, program,
                 history, events>>

\* send_sequence_headers(): a source whose header is not known is skipped, and the video
\* source's audio header goes out for an audio source that has no entry.
HeaderOf(s) == IF s \in headers THEN s ELSE header
Tuned(s, a) == LET e == IF a \in headers THEN a ELSE s IN IF e \in sounds THEN e ELSE tuned
SendsHeaders(s, a) == header' = HeaderOf(s) /\ tuned' = Tuned(s, a)

SendHeaders ==
  /\ pc = "headers"
  /\ SendsHeaders(current, audio)
  /\ pc' = "relays"
  /\ UNCHANGED <<shared, router, shown, heard, history, events>>

\* subscribe(): only what is sent from now on is received.
Subscribe(s) == [source |-> s, gen |-> relay[s], unread |-> <<>>]

FindRelays ==
  /\ pc = "relays"
  /\ IF relay[current] = 0
       THEN pc' = "waitRelay" /\ UNCHANGED <<video, sound, pending, gotKey>>
       ELSE /\ video' = Subscribe(current)
            /\ sound' = IF audio = current \/ relay[audio] = 0 THEN NoReceiver ELSE Subscribe(audio)
            /\ pending' = NoReceiver /\ gotKey' = FALSE
            /\ pc' = "loop"
  /\ UNCHANGED <<shared, current, audio, program, history, events>>

\* No relay: wait for the next send on program_source.
WaitRelay ==
  /\ pc = "waitRelay" /\ routedNew
  /\ pc' = "pick"
  /\ UNCHANGED <<shared, router, program, history, events>>

-----------------------------------------------------------------------------
(* The inner loop: the branches of its select!, in any order.              *)

\* Leaving the inner loop drops its receivers.
Leave == pc' = "pick" /\ video' = NoReceiver /\ sound' = NoReceiver /\ pending' = NoReceiver

\* A change to None or back to the current source alters nothing; a change to a
\* source without a relay is given a receiver that is closed already.
Preparing == routed \notin {None, current}

SourceChanged ==
  /\ pc = "loop" /\ routedNew
  /\ routedNew' = FALSE
  /\ pending' = IF Preparing THEN Subscribe(routed) ELSE pending
  /\ UNCHANGED <<routed, routing, routingNew, relay, known, next, pc, current, audio, video,
                 sound, gotKey, program, history, events>>

RoutingChanged ==
  /\ pc = "loop" /\ routingNew
  /\ routingNew' = FALSE
  /\ Leave
  /\ UNCHANGED <<routed, routedNew, routing, relay, known, next, current, audio, gotKey, program,
                 history, events>>

\* The next tag of a receiver.
Unread(r)  == r.unread # <<>>
First(r)   == Head(r.unread)
Read(r)    == [r EXCEPT !.unread = Tail(@)]
\* Every sender is gone, for a receiver whose relay the router does not hold.
Closed(r)  == r.source # None /\ ~Unread(r) /\ (r.gen = 0 \/ r.gen # relay[r.source])

\* Mutant: a switch is given up at the first tag that is no keyframe.
PendingGivenUp ==
  /\ pc = "loop" /\ Unread(pending) /\ ~Key(First(pending))
  /\ pending' = NoReceiver
  /\ UNCHANGED <<shared, pc, current, audio, video, sound, gotKey, program, history, events>>

\* Anything of the new source before its first keyframe is dropped.
PendingDropped ==
  /\ pc = "loop" /\ Unread(pending) /\ ~Key(First(pending))
  /\ pending' = Read(pending)
  /\ UNCHANGED <<shared, pc, current, audio, video, sound, gotKey, program, history, events>>

\* Mutant: the headers sent are those of the source that is left.
SpliceOldHeader ==
  /\ pc = "loop" /\ Unread(pending) /\ Key(First(pending))
  /\ SendsHeaders(current, AudioFor(pending.source))
  /\ shown' = [source |-> pending.source, gen |-> pending.gen, at |-> 0]
  /\ Leave
  /\ UNCHANGED <<shared, current, audio, gotKey, heard, history, events>>

\* Its keyframe goes out behind its own headers, and the outer loop enters it.
Splice ==
  /\ pc = "loop" /\ Unread(pending) /\ Key(First(pending))
  /\ SendsHeaders(pending.source, AudioFor(pending.source))
  /\ shown' = [source |-> pending.source, gen |-> pending.gen, at |-> 0]
  /\ Leave
  /\ UNCHANGED <<shared, current, audio, gotKey, heard, history, events>>

\* The new source is gone: the switch is aborted.
PendingClosed ==
  /\ pc = "loop" /\ Closed(pending)
  /\ pending' = NoReceiver
  /\ UNCHANGED <<shared, pc, current, audio, video, sound, gotKey, program, history, events>>

\* Mutants: any frame starts the video; both sources' audio goes out.
StartsAnywhere(t)   == gotKey \/ t.kind = "video"
ForwardedBothAudios(t) == gotKey \/ t.kind = "header" \/ Key(t)

\* The current source.  Its video starts with a keyframe; its audio is left out
\* when another source has the audio, but not, once the video has started, the audio's
\* header.  The router holds a sender of this relay
\* (video_tx), so it never sees it closed.
Same == current = audio
Starts(t)    == gotKey \/ Key(t)
Forwarded(t) == \/ t.kind = "header"
                \/ t.kind = "video" /\ Starts(t)
                \/ t.kind = "audio" /\ Same
                \/ t.kind = "soundHeader" /\ (Same \/ gotKey)

Show(t) ==
  /\ shown'  = IF t.kind = "video" /\ Forwarded(t)
                 THEN [source |-> current, gen |-> video.gen, at |-> t.at] ELSE shown
  /\ header' = IF t.kind = "header" THEN current ELSE header
  /\ heard'  = IF t.kind = "audio" /\ Forwarded(t) THEN current ELSE heard
  /\ tuned'  = IF t.kind = "soundHeader" /\ Forwarded(t) THEN current ELSE tuned

CurrentTag ==
  /\ pc = "loop" /\ Unread(video)
  /\ video' = Read(video)
  /\ gotKey' = Starts(First(video))
  /\ Show(First(video))
  /\ UNCHANGED <<shared, pc, current, audio, sound, pending, history, events>>

\* The separate audio source: its audio is forwarded, the rest dropped.
SoundTag ==
  /\ pc = "loop" /\ Unread(sound)
  /\ sound' = Read(sound)
  /\ heard' = IF First(sound).kind = "audio" THEN audio ELSE heard
  /\ tuned' = IF First(sound).kind = "soundHeader" THEN audio ELSE tuned
  /\ UNCHANGED <<shared, pc, current, audio, video, pending, gotKey, shown, header, history, events>>

SoundClosed ==
  /\ pc = "loop" /\ Closed(sound)
  /\ sound' = NoReceiver
  /\ UNCHANGED <<shared, pc, current, audio, video, pending, gotKey, program, history, events>>

Enter  == Pick \/ SendHeaders \/ FindRelays \/ WaitRelay
Switch == PendingDropped \/ Splice \/ PendingClosed
Router == Enter \/ SourceChanged \/ RoutingChanged \/ Switch \/ CurrentTag \/ SoundTag \/ SoundClosed

-----------------------------------------------------------------------------
(* The environment.                                                        *)

Event == events < MaxEvents /\ events' = events + 1

\* program_source is sent: by the failover supervisor.
Route(s) ==
  /\ Event
  /\ routed' = s /\ routedNew' = TRUE
  /\ ready' = IF s = None THEN FALSE ELSE relay[s] # 0
  /\ UNCHANGED <<routing, routingNew, relay, known, next, pc, router, program, drops, anew>>

\* The audio routing is sent: a choice, and every mute and unmute.
RouteAudio(a) ==
  /\ Event
  /\ routing' = a /\ routingNew' = TRUE
  /\ UNCHANGED <<routed, routedNew, relay, known, next, pc, router, program, history>>

\* Mutant: a generation is skipped.
ConnectSkips(s) ==
  /\ relay[s] = 0
  /\ relay' = [relay EXCEPT ![s] = drops + 2]
  /\ next' = [next EXCEPT ![s] = Opening]
  /\ UNCHANGED <<routed, routedNew, routing, routingNew, known, pc, router, program, history, events>>

\* A source connects: a fresh relay, and an encoder that starts with its headers.
Connect(s) ==
  /\ relay[s] = 0
  /\ relay' = [relay EXCEPT ![s] = drops + 1]
  /\ next' = [next EXCEPT ![s] = Opening]
  /\ UNCHANGED <<routed, routedNew, routing, routingNew, known, pc, router, program, history, events>>

\* A source disconnects: its relay and its headers are removed.
Disconnect(s) ==
  /\ relay[s] # 0 /\ Event
  /\ relay' = [relay EXCEPT ![s] = 0]
  /\ headers' = headers \ {s} /\ sounds' = sounds \ {s}
  /\ drops' = drops + 1 /\ ready' = (ready /\ s # routed)
  /\ UNCHANGED <<routed, routedNew, routing, routingNew, next, pc, router, program, anew>>

\* A source whose connection was reset, or that publishes while it is still there, finds its
\* relay and headers (rtmp/server.rs 119, state.rs 97-106): its new encoder begins there.
BeginAnew(s) ==
  /\ relay[s] # 0 /\ next[s] # Opening /\ Event
  /\ next' = [next EXCEPT ![s] = Opening]
  /\ anew' = TRUE
  /\ UNCHANGED <<routed, routedNew, routing, routingNew, relay, known, pc, router, program, drops,
                 ready>>

\* A receiver that is RelayCap tags behind loses the oldest (Lagged, which the
\* router ignores).
Reads(r, s)  == r.source = s /\ r.gen = relay[s]
Room(r, s)   == Reads(r, s) => Len(r.unread) < RelayCap
Queued(q, t) == Append(IF Len(q) < RelayCap THEN q ELSE Tail(q), t)
Deliver(r, s, t) == IF Reads(r, s) THEN [r EXCEPT !.unread = Queued(@, t)] ELSE r

\* A source's reader puts a header into sequence_headers before the relay
\* (source_normalizer.rs, media_player.rs: read, store, send).
Send(s, t) ==
  /\ relay[s] # 0
  /\ KeepsUp => Room(video, s) /\ Room(sound, s) /\ Room(pending, s)
  /\ video' = Deliver(video, s, t) /\ sound' = Deliver(sound, s, t)
  /\ pending' = Deliver(pending, s, t)
  /\ UNCHANGED <<routed, routedNew, routing, routingNew, relay, pc, current, audio, gotKey,
                 program, history, events>>

Produce(s) ==
  /\ headers' = IF next[s] = Opening THEN headers \cup {s} ELSE headers
  /\ sounds' = IF next[s] = OpeningSound THEN sounds \cup {s} ELSE sounds
  /\ next' = [next EXCEPT ![s] = Follow(@)]
  /\ Send(s, TagAt(next[s]))

Sources     == \E s \in Source : Connect(s) \/ Disconnect(s) \/ BeginAnew(s) \/ Produce(s)
Supervisor  == \E s \in Source \cup {None} : Route(s)
Audiodesk   == \E a \in Routings : RouteAudio(a)

Next == Router \/ Sources \/ Supervisor \/ Audiodesk

Spec == Init /\ [][Next]_vars

\* select! starts with a branch chosen at random, so none that stays ready is
\* passed over for ever; and the source that is routed keeps producing.
FairSpec ==
  /\ Spec
  /\ WF_vars(Enter) /\ WF_vars(SourceChanged) /\ WF_vars(RoutingChanged)
  /\ WF_vars(Switch) /\ WF_vars(CurrentTag) /\ WF_vars(SoundTag \/ SoundClosed)
  /\ \A s \in Source : WF_vars(routed = s /\ Produce(s))
-----------------------------------------------------------------------------
(* Properties.                                                             *)

\* A viewer can decode what goes out: a frame that refers to the one before it
\* follows that very frame, of the same relay, across splices, aborted switches,
\* audio re-routes and reconnections (program.rs 186-213).
Decodable ==
  [][shown' # shown /\ shown'.at # 0 => shown = [shown' EXCEPT !.at = @ - 1]]_vars

\* A spliced keyframe goes out behind the header of its own source (program.rs
\* 172-182), as long as no source has disconnected and taken its header away.
SplicedBehindItsHeader ==
  [][shown' # shown /\ pc' = "pick" /\ drops = 0 => header' = shown'.source]_vars

\* The program's audio is that of the source the routing names for what is shown,
\* once the router has seen the routing: no second audio is mixed in, whichever
\* of the two relays is read first (program.rs 75-82, 215-243).  Nor does the inner loop
\* put another source's audio header before it, until an encoder begins anew behind the
\* keyframe the router waited for: then the video source's passes too (program.rs 219).
OneAudio ==
  [][~routingNew /\ pc' = "loop" =>
       /\ heard' # heard => heard' = AudioFor(current)
       /\ tuned' # tuned => tuned' = AudioFor(current) \/ anew]_vars

\* A cut to a source that has a relay completes, whatever was being prepared or
\* forwarded when it came, and its frames keep coming (program.rs 118-250).
CutCompletes ==
  [](drops = 0) /\ <>[]ready =>
    <>[](shown.source = routed) /\ []<>(shown.at = 0) /\ []<>(shown.at = Gop - 1)
=============================================================================
