---------------------------- MODULE RouterProofs ----------------------------
(***************************************************************************)
(* Theorems about ProgramRouter, for any sources, routings, length of the  *)
(* groups of pictures, capacity of a relay, and bound on events.           *)
(***************************************************************************)
EXTENDS ProgramRouter, SequenceTheorems, TLAPS

\* Past its choice, the router has a source, and the audio the routing names for it
\* unless a change of the routing is unseen.
Chosen ==
  pc # "pick" => /\ current \in Source /\ audio \in Source
                 /\ ~routingNew => audio = AudioFor(current)

\* The header of whatever has sent more than its header is known, until something
\* disconnects.
Known ==
  drops = 0 => /\ \A s \in Source : relay[s] # 0 /\ next[s] # Opening => s \in headers
               /\ Unread(pending) => pending.source \in headers

\* A relay that has gone is never found again under its generation.
Gone ==
  /\ drops <= events
  /\ \A s \in Source : relay[s] <= drops + 1
  /\ video.gen <= drops + 1
  /\ video.source \in Source /\ relay[video.source] = 0 => video.gen <= drops

\* The place of a tag in what its source sends.
PlaceOf(t) == CASE t.kind = "video"       -> t.at
                [] t.kind = "audio"       -> Gop
                [] t.kind = "header"      -> Opening
                [] t.kind = "soundHeader" -> OpeningSound

\* What comes after it, unless the encoder begins anew.
ComesAfter(n, k) == k = Follow(n) \/ k = Opening

Live == video.source \in Source /\ relay[video.source] # 0 /\ Reads(video, video.source)

\* Tags as one source sends them, without a gap but where its encoder begins anew.
Gapless(u) ==
  /\ \A i \in 1..Len(u) : u[i] = TagAt(PlaceOf(u[i]))
  /\ \A i \in 1..(Len(u) - 1) : ComesAfter(PlaceOf(u[i]), PlaceOf(u[i + 1]))

\* What waits to be forwarded is without a gap, and ends where the source goes on.
InOrder ==
  /\ Gapless(video.unread)
  /\ Live /\ Unread(video) => ComesAfter(PlaceOf(video.unread[Len(video.unread)]), next[video.source])

\* Once it has started, the video that was shown goes on with what waits, or else with
\* what its source sends next: a frame that needs the one before it is the next one.
Continues(n) == n \in 1..(Gop - 1) => n = shown.at + 1
Playing ==
  pc = "loop" =>
    /\ video.source = current
    /\ gotKey => /\ shown.source = current /\ shown.gen = video.gen
                 /\ Unread(video) => Continues(PlaceOf(First(video)))
                 /\ Live /\ ~Unread(video) => Continues(next[current])

Streams == KeepsUp => InOrder /\ Playing

\* An encoder that has not begun anew sends its headers before everything else, so that
\* none of them is behind a keyframe, however many tags were lost.
Frame(t) == t.kind \in {"video", "audio"}
Opened(u, n) ==
  /\ \A i, j \in 1..Len(u) : i < j /\ Frame(u[i]) => Frame(u[j])
  /\ \A i \in 1..Len(u) : Live /\ Frame(u[i]) => n <= Gop
HeadersFirst ==
  ~anew => /\ Opened(video.unread, next[video.source])
           /\ pc = "loop" /\ gotKey => /\ \A i \in 1..Len(video.unread) : Frame(video.unread[i])
                                       /\ Live => next[video.source] <= Gop

IInv == TypeOK /\ Chosen /\ Known /\ Gone /\ Streams /\ HeadersFirst

-----------------------------------------------------------------------------
(* Tags and receivers.                                                     *)

LEMMA TagsAre ==
  ASSUME NEW n \in Places
  PROVE  /\ TagAt(n) \in Tag /\ PlaceOf(TagAt(n)) = n
         /\ Frame(TagAt(n)) <=> n <= Gop
         /\ Follow(n) \in Places /\ (n <= Gop => Follow(n) <= Gop)
<1> USE BoundAssumption DEF Places, Opening, OpeningSound, TagAt, Tag, Kinds, Plain, Video, Position, PlaceOf,
                            Follow, Frame
<1>1. CASE n < Gop
  BY <1>1
<1>2. CASE n = Gop
  BY <1>2
<1>3. CASE n = Opening
  BY <1>3
<1>4. CASE n = OpeningSound
  BY <1>4
<1> QED
  BY <1>1, <1>2, <1>3, <1>4

LEMMA NoReceiverIs ==
  NoReceiver \in Receiver /\ Fits(NoReceiver) /\ ~Unread(NoReceiver) /\ NoReceiver.source \notin Source
  /\ NoReceiver.gen = 0
<1>1. <<>> \in Seq(Tag) /\ Len(<<>>) = 0
  BY EmptySeq
<1> QED
  BY <1>1, BoundAssumption, SourceAssumption DEF NoReceiver, Receiver, Generation, Fits, Unread

LEMMA SubscribeIs ==
  ASSUME TypeOK, NEW s \in Source
  PROVE  /\ Subscribe(s) \in Receiver /\ Fits(Subscribe(s)) /\ ~Unread(Subscribe(s))
         /\ Subscribe(s).source = s /\ Subscribe(s).gen = relay[s] /\ Subscribe(s).unread = <<>>
<1>1. <<>> \in Seq(Tag) /\ Len(<<>>) = 0
  BY EmptySeq
<1>2. relay[s] \in Generation
  BY DEF TypeOK
<1> QED
  BY <1>1, <1>2, BoundAssumption DEF Subscribe, Receiver, Fits, Unread

LEMMA UnreadIs ==
  ASSUME NEW r \in Receiver, NEW q
  PROVE  [r EXCEPT !.unread = q] = [source |-> r.source, gen |-> r.gen, unread |-> q]
BY DEF Receiver

LEMMA ReadIs ==
  ASSUME NEW r \in Receiver, Fits(r), Unread(r)
  PROVE  /\ Read(r) \in Receiver /\ Fits(Read(r)) /\ First(r) \in Tag /\ First(r) = r.unread[1]
         /\ Read(r).source = r.source /\ Read(r).gen = r.gen
         /\ Read(r).unread = Tail(r.unread) /\ Len(r.unread) \in Nat \ {0}
         /\ Len(Read(r).unread) = Len(r.unread) - 1
         /\ \A i \in 1..(Len(r.unread) - 1) : Read(r).unread[i] = r.unread[i + 1]
<1> DEFINE u == r.unread
<1>1. u \in Seq(Tag) /\ u # <<>>
  BY DEF Receiver, Unread
<1>2. /\ Head(u) \in Tag /\ Tail(u) \in Seq(Tag) /\ Len(Tail(u)) = Len(u) - 1
      /\ \A i \in 1..Len(Tail(u)) : Tail(u)[i] = u[i + 1]
  BY <1>1, HeadTailProperties
<1>3. Head(u) = u[1] /\ Len(u) \in Nat \ {0}
  BY <1>1, EmptySeq
<1>4. Read(r) = [source |-> r.source, gen |-> r.gen, unread |-> Tail(u)]
  BY UnreadIs, Zenon DEF Read
<1> HIDE DEF u
<1>5. Read(r) \in Receiver
  BY <1>2, <1>4 DEF Receiver
<1>6. Len(u) <= RelayCap
  BY DEF Fits, u
<1> QED
  BY <1>2, <1>3, <1>4, <1>5, <1>6, BoundAssumption DEF Fits, First, u

LEMMA QueuedIs ==
  ASSUME NEW q \in Seq(Tag), Len(q) <= RelayCap, NEW t \in Tag
  PROVE  Queued(q, t) \in Seq(Tag) /\ Len(Queued(q, t)) <= RelayCap
<1>1. CASE Len(q) < RelayCap
  BY <1>1, AppendProperties, LenProperties, BoundAssumption DEF Queued
<1>2. CASE ~(Len(q) < RelayCap)
  <2>1. q # <<>> /\ Len(q) = RelayCap
    BY <1>2, LenProperties, EmptySeq, BoundAssumption
  <2>2. Tail(q) \in Seq(Tag) /\ Len(Tail(q)) = RelayCap - 1
    BY <2>1, HeadTailProperties
  <2> QED
    BY <1>2, <2>2, AppendProperties, BoundAssumption DEF Queued
<1> QED
  BY <1>1, <1>2

LEMMA DeliverIs ==
  ASSUME NEW r \in Receiver, Fits(r), NEW s \in Source, NEW t \in Tag
  PROVE  /\ Deliver(r, s, t) \in Receiver /\ Fits(Deliver(r, s, t))
         /\ Deliver(r, s, t).source = r.source /\ Deliver(r, s, t).gen = r.gen
         /\ ~Reads(r, s) => Deliver(r, s, t) = r
         /\ Reads(r, s) => Deliver(r, s, t).unread = Queued(r.unread, t)
<1>1. CASE ~Reads(r, s)
  BY <1>1 DEF Deliver
<1>2. CASE Reads(r, s)
  <2>1. r.unread \in Seq(Tag) /\ Len(r.unread) <= RelayCap
    BY DEF Receiver, Fits
  <2>2. Queued(r.unread, t) \in Seq(Tag) /\ Len(Queued(r.unread, t)) <= RelayCap
    BY <2>1, QueuedIs
  <2>3. Deliver(r, s, t) = [source |-> r.source, gen |-> r.gen, unread |-> Queued(r.unread, t)]
    BY <1>2, UnreadIs DEF Deliver
  <2> QED
    BY <1>2, <2>2, <2>3 DEF Receiver, Fits
<1> QED
  BY <1>1, <1>2

-----------------------------------------------------------------------------
(* Types.                                                                  *)

LEMMA InitTypes == ASSUME Init PROVE TypeOK
<1>1. 0 \in Generation /\ 0 \in Position /\ Opening \in Places /\ 0 \in 0..MaxEvents
  BY BoundAssumption DEF Generation, Places, Opening, Position
<1>2. relay \in [Source -> Generation] /\ next \in [Source -> Places]
  BY <1>1 DEF Init
<1>3. {video, sound, pending} \subseteq Receiver /\ Fits(video) /\ Fits(sound) /\ Fits(pending)
  BY NoReceiverIs DEF Init
<1>4. shown \in [source : Source \cup {None}, gen : Generation, at : Position]
  BY <1>1 DEF Init
<1> QED
  BY <1>1, <1>2, <1>3, <1>4 DEF Init, TypeOK, PCs

LEMMA AudioForIs == ASSUME TypeOK, NEW s \in Source PROVE AudioFor(s) \in Source
BY DEF TypeOK, AudioFor

\* The receivers.
Receivers == {video, sound, pending} \subseteq Receiver /\ Fits(video) /\ Fits(sound) /\ Fits(pending)

LEMMA EnterTypes == ASSUME TypeOK, Chosen, Enter PROVE TypeOK'
<1>1. CASE Pick
  <2>1. routed \in Source
    BY <1>1 DEF Pick, TypeOK
  <2>2. AudioFor(routed) \in Source
    BY <2>1, AudioForIs
  <2> QED
    BY <1>1, <2>1, <2>2 DEF Pick, TypeOK, PCs, known, program, history, Fits
<1>2. CASE SendHeaders
  <2>1. current \in Source
    BY <1>2 DEF SendHeaders, Chosen
  <2>2. Tuned(current, audio) \in Source \cup {None}
    BY <1>2, <2>1 DEF SendHeaders, Chosen, Tuned, TypeOK
  <2> QED
    BY <1>2, <2>1, <2>2 DEF SendHeaders, SendsHeaders, HeaderOf, TypeOK, PCs, shared, known, router, history, Fits
<1>3. CASE FindRelays
  <2>1. current \in Source /\ audio \in Source
    BY <1>3 DEF FindRelays, Chosen
  <2>2. Receivers' /\ gotKey' \in BOOLEAN /\ pc' \in PCs
    <3>1. CASE relay[current] = 0
      BY <1>3, <3>1 DEF FindRelays, Receivers, TypeOK, PCs, Fits
    <3>2. CASE relay[current] # 0
      <4>1. video' = Subscribe(current) /\ sound' \in {NoReceiver, Subscribe(audio)} /\ pending' = NoReceiver
        BY <1>3, <3>2 DEF FindRelays
      <4>2. gotKey' = FALSE /\ pc' = "loop"
        BY <1>3, <3>2 DEF FindRelays
      <4>3. video' \in Receiver /\ Fits(video)' /\ sound' \in Receiver /\ Fits(sound)'
        BY <2>1, <4>1, SubscribeIs, NoReceiverIs, Zenon DEF Fits
      <4>4. pending' \in Receiver /\ Fits(pending)'
        BY <4>1, NoReceiverIs, Zenon DEF Fits
      <4> QED
        BY <4>2, <4>3, <4>4 DEF Receivers, PCs
    <3> QED
      BY <3>1, <3>2
  <2> QED
    BY <1>3, <2>2 DEF FindRelays, Receivers, TypeOK, shared, known, program, history
<1>4. CASE WaitRelay
  BY <1>4 DEF WaitRelay, TypeOK, PCs, shared, known, router, program, history, Fits
<1> QED
  BY <1>1, <1>2, <1>3, <1>4 DEF Enter

LEMMA LeaveTypes == ASSUME Leave PROVE Receivers' /\ pc' = "pick" /\ pc' \in PCs
BY NoReceiverIs DEF Leave, Receivers, PCs, Fits

LEMMA ChangeTypes == ASSUME TypeOK, SourceChanged \/ RoutingChanged PROVE TypeOK'
<1>1. CASE SourceChanged
  <2>1. pending' = pending \/ (routed \in Source /\ pending' = Subscribe(routed))
    BY <1>1 DEF SourceChanged, Preparing, TypeOK
  <2>2. pending' \in Receiver /\ Fits(pending')
    BY <2>1, SubscribeIs DEF TypeOK
  <2>3. routedNew' = FALSE /\ UNCHANGED <<headers, sounds, program, history>>
    BY <1>1 DEF SourceChanged, known
  <2> QED
    BY <1>1, <2>2, <2>3 DEF SourceChanged, TypeOK, program, history, Fits
<1>2. CASE RoutingChanged
  <2>1. Receivers' /\ pc' \in PCs
    BY <1>2, LeaveTypes DEF RoutingChanged
  <2>2. routingNew' = FALSE /\ UNCHANGED <<headers, sounds, program, history>>
    BY <1>2 DEF RoutingChanged, known
  <2> QED
    BY <1>2, <2>1, <2>2 DEF RoutingChanged, Receivers, TypeOK, program, history
<1> QED
  BY <1>1, <1>2

LEMMA SwitchTypes == ASSUME TypeOK, Switch PROVE TypeOK'
<1>1. CASE PendingDropped
  <2>1. pending' \in Receiver /\ Fits(pending')
    BY <1>1, ReadIs DEF PendingDropped, TypeOK
  <2> QED
    BY <1>1, <2>1 DEF PendingDropped, TypeOK, shared, known, program, history, Fits
<1>2. CASE Splice
  <2>1. Receivers' /\ pc' \in PCs
    BY <1>2, LeaveTypes DEF Splice
  <2>2. pending.source \in Source \cup {None} /\ pending.gen \in Generation /\ 0 \in Position
    BY BoundAssumption DEF TypeOK, Receiver, Position
  <2>3. /\ header' \in Source \cup {None} /\ tuned' \in Source \cup {None}
        /\ shown' \in [source : Source \cup {None}, gen : Generation, at : Position]
    BY <1>2, <2>2 DEF Splice, SendsHeaders, HeaderOf, Tuned, TypeOK
  <2> QED
    BY <1>2, <2>1, <2>3 DEF Splice, Receivers, TypeOK, shared, known, history
<1>3. CASE PendingClosed
  BY <1>3, NoReceiverIs DEF PendingClosed, TypeOK, shared, known, program, history, Fits
<1> QED
  BY <1>1, <1>2, <1>3 DEF Switch

LEMMA TagTypes == ASSUME TypeOK, Chosen, CurrentTag \/ SoundTag \/ SoundClosed PROVE TypeOK'
<1>1. CASE CurrentTag
  <2> DEFINE t == First(video)
  <2>1. video' \in Receiver /\ Fits(video') /\ t \in Tag
    BY <1>1, ReadIs DEF CurrentTag, TypeOK
  <2>2. current \in Source
    BY <1>1 DEF CurrentTag, Chosen
  <2>3. video.gen \in Generation /\ t.at \in Position
    BY <2>1 DEF TypeOK, Receiver, Tag
  <2>4. gotKey' \in BOOLEAN
    BY <1>1, Zenon DEF CurrentTag, Starts, TypeOK, Key
  <2> HIDE DEF t
  <2>5. /\ header' \in Source \cup {None} /\ heard' \in Source \cup {None} /\ tuned' \in Source \cup {None}
        /\ shown' \in [source : Source \cup {None}, gen : Generation, at : Position]
    <3>1. Show(t)
      BY <1>1 DEF CurrentTag, t
    <3> QED
      BY <2>2, <2>3, <3>1 DEF Show, TypeOK
  <2> QED
    BY <1>1, <2>1, <2>4, <2>5 DEF CurrentTag, TypeOK, shared, known, history, Fits
<1>2. CASE SoundTag
  <2>1. sound' \in Receiver /\ Fits(sound')
    BY <1>2, ReadIs DEF SoundTag, TypeOK
  <2>2. heard' \in Source \cup {None} /\ tuned' \in Source \cup {None}
    BY <1>2 DEF SoundTag, TypeOK
  <2> QED
    BY <1>2, <2>1, <2>2 DEF SoundTag, TypeOK, shared, known, history, Fits
<1>3. CASE SoundClosed
  BY <1>3, NoReceiverIs DEF SoundClosed, TypeOK, shared, known, program, history, Fits
<1> QED
  BY <1>1, <1>2, <1>3

LEMMA SourceTypes == ASSUME TypeOK, Gone, NEW s \in Source,
  Connect(s) \/ Disconnect(s) \/ BeginAnew(s) \/ Produce(s) PROVE TypeOK'
<1>1. CASE Connect(s)
  <2>1. drops + 1 \in Generation /\ Opening \in Places
    BY BoundAssumption DEF TypeOK, Generation, Places, Opening
  <2> QED
    BY <1>1, <2>1 DEF Connect, TypeOK, known, router, program, history, Fits
<1>2. CASE Disconnect(s)
  <2>1. 0 \in Generation
    BY BoundAssumption DEF Generation
  <2>2. events' \in 0..MaxEvents
    BY <1>2, BoundAssumption DEF Disconnect, Event, TypeOK
  <2>3. drops' \in 0..MaxEvents
    BY <1>2, BoundAssumption DEF Disconnect, Event, TypeOK, Gone
  <2> QED
    BY <1>2, <2>1, <2>2, <2>3 DEF Disconnect, TypeOK, router, program, Fits
<1>3. CASE Produce(s)
  <2>1. next[s] \in Places /\ TagAt(next[s]) \in Tag
    BY TagsAre DEF TypeOK
  <2>2. Receivers'
    BY <1>3, <2>1, DeliverIs DEF Produce, Send, Receivers, TypeOK, Fits
  <2>3. next' \in [Source -> Places] /\ headers' \in SUBSET Source /\ sounds' \in SUBSET Source
    BY <1>3, <2>1, TagsAre DEF Produce, TypeOK
  <2> QED
    BY <1>3, <2>2, <2>3 DEF Produce, Send, Receivers, TypeOK, program, history
<1>4. CASE BeginAnew(s)
  <2>1. Opening \in Places /\ events' \in 0..MaxEvents
    BY <1>4, BoundAssumption DEF BeginAnew, Event, TypeOK, Places, Opening
  <2>2. anew' \in BOOLEAN
    BY <1>4, Zenon DEF BeginAnew
  <2> QED
    BY <1>4, <2>1, <2>2 DEF BeginAnew, TypeOK, known, router, program, Fits
<1> QED
  BY <1>1, <1>2, <1>3, <1>4

LEMMA RouteTypes ==
  ASSUME TypeOK, Supervisor \/ Audiodesk
  PROVE  TypeOK'
<1>1. ASSUME NEW s \in Source \cup {None}, Route(s) PROVE TypeOK'
  <2>1. ready' \in BOOLEAN
    BY <1>1, Zenon DEF Route
  <2>2. events' \in 0..MaxEvents
    BY <1>1, BoundAssumption DEF Route, Event, TypeOK
  <2> QED
    BY <1>1, <2>1, <2>2 DEF Route, TypeOK, known, router, program, Fits
<1>2. ASSUME NEW a \in Routings, RouteAudio(a) PROVE TypeOK'
  BY <1>2, BoundAssumption, SourceAssumption DEF RouteAudio, Event, TypeOK, known, router, program, history, Fits
<1> QED
  BY <1>1, <1>2 DEF Supervisor, Audiodesk

LEMMA NextTypes == ASSUME TypeOK, Chosen, Gone, Next PROVE TypeOK'
BY EnterTypes, ChangeTypes, SwitchTypes, TagTypes, SourceTypes, RouteTypes
   DEF Next, Router, Sources

-----------------------------------------------------------------------------
(* The choice of a source, its header, and its relay.                      *)

LEMMA NextChosen == ASSUME TypeOK, Chosen, Next PROVE Chosen'
<1>1. CASE Pick
  <2>1. routed \in Source
    BY <1>1 DEF Pick, TypeOK
  <2> QED
    BY <1>1, <2>1, AudioForIs DEF Pick, Chosen, AudioFor
<1>2. CASE SendHeaders \/ FindRelays \/ WaitRelay
  BY <1>2 DEF SendHeaders, FindRelays, WaitRelay, Chosen, AudioFor, shared, known, router
<1>3. CASE SourceChanged \/ RoutingChanged \/ Switch
  BY <1>3 DEF SourceChanged, RoutingChanged, Switch, PendingDropped, Splice, PendingClosed, Leave,
     Chosen, AudioFor, shared, known
<1>4. CASE CurrentTag \/ SoundTag \/ SoundClosed
  BY <1>4 DEF CurrentTag, SoundTag, SoundClosed, Chosen, AudioFor, shared, known
<1>5. CASE Sources
  BY <1>5 DEF Sources, Connect, Disconnect, BeginAnew, Produce, Send, Chosen, AudioFor, router
<1>6. CASE Supervisor \/ Audiodesk
  BY <1>6 DEF Supervisor, Audiodesk, Route, RouteAudio, Chosen, AudioFor, router
<1> QED
  BY <1>1, <1>2, <1>3, <1>4, <1>5, <1>6 DEF Next, Router, Enter

LEMMA NextKnown == ASSUME TypeOK, Chosen, Known, Next PROVE Known'
<1>1. CASE Enter \/ SourceChanged \/ RoutingChanged \/ Switch \/ CurrentTag \/ SoundTag \/ SoundClosed
  <2>1. UNCHANGED <<relay, next, headers, drops>>
    BY <1>1 DEF Enter, Pick, SendHeaders, FindRelays, WaitRelay, SourceChanged, RoutingChanged, Switch,
       PendingDropped, Splice, PendingClosed, CurrentTag, SoundTag, SoundClosed, shared, known, history
  <2>2. Unread(pending)' => Unread(pending) /\ pending'.source = pending.source
    <3>1. CASE Enter
      BY <3>1, NoReceiverIs DEF Enter, Pick, SendHeaders, FindRelays, WaitRelay, router, Unread
    <3>2. CASE SourceChanged \/ RoutingChanged \/ Splice \/ PendingClosed
      <4>1. pending' \in {pending, NoReceiver} \/ (routed \in Source /\ pending' = Subscribe(routed))
        BY <3>2 DEF SourceChanged, Preparing, RoutingChanged, Splice, PendingClosed, Leave, TypeOK
      <4> QED
        BY <4>1, NoReceiverIs, SubscribeIs DEF Unread
    <3>3. CASE PendingDropped
      BY <3>3, ReadIs DEF PendingDropped, TypeOK, Unread
    <3>4. CASE CurrentTag \/ SoundTag \/ SoundClosed
      BY <3>4 DEF CurrentTag, SoundTag, SoundClosed, Unread
    <3> QED
      BY <1>1, <3>1, <3>2, <3>3, <3>4 DEF Switch
  <2> QED
    BY <2>1, <2>2 DEF Known
<1>2. ASSUME NEW s \in Source, Connect(s) PROVE Known'
  BY <1>2 DEF Connect, Known, TypeOK, known, router, history, Unread
<1>6. ASSUME NEW s \in Source, BeginAnew(s) PROVE Known'
  BY <1>6 DEF BeginAnew, Known, TypeOK, known, router, Unread
<1>3. ASSUME NEW s \in Source, Disconnect(s) PROVE Known'
  BY <1>3 DEF Disconnect, Known, TypeOK
<1>4. ASSUME NEW s \in Source, Produce(s) PROVE Known'
  <2> SUFFICES ASSUME drops = 0 PROVE Known'
    BY <1>4 DEF Produce, Send, history, Known
  <2>1. relay[s] # 0 /\ headers \subseteq headers' /\ relay' = relay /\ drops' = drops
    BY <1>4 DEF Produce, Send, history
  <2>2. s \in headers'
    BY <1>4, <2>1 DEF Produce, Known
  <2>3. \A q \in Source : q # s => next'[q] = next[q]
    BY <1>4 DEF Produce, TypeOK
  <2>4. TagAt(next[s]) \in Tag
    BY TagsAre DEF TypeOK
  <2>5. Unread(pending)' => pending'.source \in headers'
    <3>1. pending' = Deliver(pending, s, TagAt(next[s]))
      BY <1>4 DEF Produce, Send
    <3>2. CASE Reads(pending, s)
      BY <2>2, <2>4, <3>1, <3>2, DeliverIs DEF Reads, TypeOK
    <3>3. CASE ~Reads(pending, s)
      BY <2>1, <3>1, <3>3 DEF Deliver, Known, Unread
    <3> QED
      BY <3>2, <3>3
  <2> QED
    BY <2>1, <2>2, <2>3, <2>5 DEF Known
<1>5. CASE Supervisor \/ Audiodesk
  <2>1. UNCHANGED <<relay, next, headers, pending, drops>>
    BY <1>5 DEF Supervisor, Audiodesk, Route, RouteAudio, known, router, history
  <2> QED
    BY <2>1 DEF Known, Unread
<1> QED
  BY <1>1, <1>2, <1>3, <1>4, <1>5, <1>6 DEF Next, Router, Sources

\* What the router does with the video it receives.
LEMMA VideoIs ==
  ASSUME Chosen, Router
  PROVE  \/ UNCHANGED video
         \/ video' = NoReceiver
         \/ relay[current] # 0 /\ video' = Subscribe(current) /\ current \in Source
         \/ CurrentTag
BY DEF Router, Enter, Pick, SendHeaders, FindRelays, WaitRelay, SourceChanged, RoutingChanged,
   Switch, PendingDropped, Splice, PendingClosed, SoundTag, SoundClosed, Leave, router, shared, known, Chosen

LEMMA NextGone == ASSUME TypeOK, Chosen, Gone, Next PROVE Gone'
<1>1. CASE Router
  <2>1. UNCHANGED <<relay, drops, events>>
    BY <1>1 DEF Router, Enter, Pick, SendHeaders, FindRelays, WaitRelay, SourceChanged, RoutingChanged,
       Switch, PendingDropped, Splice, PendingClosed, CurrentTag, SoundTag, SoundClosed, shared, known, history
  <2>2. \/ video'.source = video.source /\ video'.gen = video.gen
        \/ video' = NoReceiver
        \/ current \in Source /\ relay[current] # 0 /\ video' = Subscribe(current)
    <3>1. CASE CurrentTag
      BY <3>1, ReadIs DEF CurrentTag, TypeOK
    <3> QED
      BY <1>1, <3>1, VideoIs
  <2>3. CASE video'.source = video.source /\ video'.gen = video.gen
    BY <2>1, <2>3 DEF Gone
  <2>4. CASE video' = NoReceiver
    BY <2>1, <2>4, NoReceiverIs DEF Gone, TypeOK
  <2>5. CASE current \in Source /\ relay[current] # 0 /\ video' = Subscribe(current)
    BY <2>1, <2>5, SubscribeIs DEF Gone
  <2> QED
    BY <2>2, <2>3, <2>4, <2>5
<1>2. ASSUME NEW s \in Source, Connect(s) PROVE Gone'
  <2>1. /\ relay'[s] = drops + 1 /\ relay'[s] # 0
        /\ \A q \in Source : q # s => relay'[q] = relay[q]
        /\ video' = video /\ drops' = drops /\ events' = events
    BY <1>2 DEF Connect, TypeOK, router, history
  <2> QED
    BY <2>1 DEF Gone, TypeOK, Generation
<1>3. ASSUME NEW s \in Source, Disconnect(s) PROVE Gone'
  <2>1. /\ relay'[s] = 0 /\ drops' = drops + 1 /\ events' = events + 1
        /\ \A q \in Source : q # s => relay'[q] = relay[q]
        /\ video' = video
    BY <1>3 DEF Disconnect, Event, TypeOK, router
  <2>2. drops \in Nat /\ events \in Nat /\ video.gen \in Nat /\ \A q \in Source : relay[q] \in Nat
    BY BoundAssumption DEF TypeOK, Generation, Receiver
  <2> QED
    BY <2>1, <2>2 DEF Gone
<1>4. ASSUME NEW s \in Source, Produce(s) PROVE Gone'
  <2>1. TagAt(next[s]) \in Tag
    BY TagsAre DEF TypeOK
  <2>2. video'.source = video.source /\ video'.gen = video.gen
    BY <1>4, <2>1, DeliverIs DEF Produce, Send, TypeOK
  <2> QED
    BY <1>4, <2>2 DEF Produce, Send, history, Gone
<1>6. ASSUME NEW s \in Source, BeginAnew(s) PROVE Gone'
  <2>1. drops' = drops /\ events' = events + 1 /\ relay' = relay /\ video' = video
    BY <1>6 DEF BeginAnew, Event, router
  <2> QED
    BY <2>1, BoundAssumption DEF Gone, TypeOK
<1>5. CASE Supervisor \/ Audiodesk
  <2>1. /\ drops' = drops /\ events' = events + 1 /\ relay' = relay /\ video' = video
    BY <1>5 DEF Supervisor, Audiodesk, Route, RouteAudio, Event, router, history
  <2> QED
    BY <2>1, BoundAssumption DEF Gone, TypeOK
<1> QED
  BY <1>1, <1>2, <1>3, <1>4, <1>5, <1>6 DEF Next, Sources

-----------------------------------------------------------------------------
(* What waits to be forwarded.                                             *)

LEMMA PlaceIs == ASSUME NEW t \in Tag PROVE PlaceOf(t) \in Places /\ Follow(PlaceOf(t)) \in Places
BY BoundAssumption DEF PlaceOf, Follow, Tag, Kinds, Places, Opening, OpeningSound, Position

LEMMA SeqIs ==
  ASSUME NEW u \in Seq(Tag)
  PROVE  Len(u) \in Nat /\ (u = <<>> <=> Len(u) = 0) /\ (u # <<>> => Head(u) = u[1])
<1>1. Len(u) \in Nat
  BY LenProperties
<1>2. u = <<>> <=> Len(u) = 0
  BY EmptySeq
<1>3. u # <<>> => Head(u) = u[1]
  OBVIOUS
<1> QED
  BY <1>1, <1>2, <1>3

LEMMA AppendIs ==
  ASSUME NEW u \in Seq(Tag), Gapless(u), NEW n \in Places,
         u # <<>> => ComesAfter(PlaceOf(u[Len(u)]), n)
  PROVE  LET v == Append(u, TagAt(n))
         IN  /\ Gapless(v) /\ v # <<>> /\ PlaceOf(v[Len(v)]) = n
             /\ Head(v) = IF u = <<>> THEN TagAt(n) ELSE Head(u)
<1> DEFINE v == Append(u, TagAt(n))
<1>1. TagAt(n) \in Tag /\ PlaceOf(TagAt(n)) = n
  BY TagsAre
<1>2. /\ v \in Seq(Tag) /\ Len(v) = Len(u) + 1 /\ v[Len(u) + 1] = TagAt(n)
      /\ \A i \in 1..Len(u) : v[i] = u[i]
  BY <1>1, AppendProperties
<1>3. Len(u) \in Nat /\ (u = <<>> <=> Len(u) = 0)
  BY SeqIs
<1> HIDE DEF v
<1>4. v # <<>> /\ Head(v) = v[1]
  <2>1. Len(v) # 0
    BY <1>2, <1>3
  <2> QED
    BY <1>2, <2>1, SeqIs
<1>5. u # <<>> => Head(u) = u[1]
  BY SeqIs
<1>6. \A i \in 1..Len(v) : v[i] = TagAt(PlaceOf(v[i]))
  BY <1>1, <1>2, <1>3 DEF Gapless
<1>7. ASSUME NEW i \in 1..(Len(v) - 1) PROVE ComesAfter(PlaceOf(v[i]), PlaceOf(v[i + 1]))
  <2>1. CASE i = Len(u)
    BY <1>1, <1>2, <1>3, <2>1
  <2>2. CASE i # Len(u)
    <3>1. i \in 1..(Len(u) - 1) /\ i + 1 \in 1..Len(u) /\ i \in 1..Len(u)
      BY <1>2, <1>3, <2>2
    <3> QED
      BY <1>2, <3>1 DEF Gapless
  <2> QED
    BY <2>1, <2>2
<1>8. Head(v) = IF u = <<>> THEN TagAt(n) ELSE Head(u)
  BY <1>2, <1>3, <1>4, <1>5
<1> QED
  BY <1>1, <1>2, <1>4, <1>6, <1>7, <1>8 DEF Gapless, v

LEMMA TailIs ==
  ASSUME NEW u \in Seq(Tag), u # <<>>, Gapless(u)
  PROVE  /\ Head(u) = TagAt(PlaceOf(Head(u))) /\ Gapless(Tail(u))
         /\ Tail(u) = <<>> => u[Len(u)] = Head(u)
         /\ Tail(u) # <<>> => /\ Tail(u)[Len(Tail(u))] = u[Len(u)]
                              /\ ComesAfter(PlaceOf(Head(u)), PlaceOf(Head(Tail(u))))
<1> DEFINE w == Tail(u)
<1>1. /\ Head(u) \in Tag /\ w \in Seq(Tag) /\ Len(w) = Len(u) - 1
      /\ \A i \in 1..Len(w) : w[i] = u[i + 1]
  BY HeadTailProperties
<1> HIDE DEF w
<1>2. /\ Head(u) = u[1] /\ Len(u) \in Nat \ {0}
      /\ Len(w) \in Nat /\ (w = <<>> <=> Len(w) = 0) /\ (w # <<>> => Head(w) = w[1])
  BY <1>1, SeqIs
<1>3. \A i \in 1..Len(w) : i + 1 \in 1..Len(u)
  BY <1>1, <1>2
<1>4. \A i \in 1..(Len(w) - 1) : i \in 1..Len(w) /\ i + 1 \in 1..Len(w) /\ i + 1 \in 1..(Len(u) - 1)
  BY <1>1, <1>2
<1>5. \A i \in 1..Len(w) : w[i] = TagAt(PlaceOf(w[i]))
  BY <1>1, <1>3 DEF Gapless
<1>6. ASSUME NEW i \in 1..(Len(w) - 1) PROVE ComesAfter(PlaceOf(w[i]), PlaceOf(w[i + 1]))
  BY <1>1, <1>4 DEF Gapless
<1>7. Head(u) = TagAt(PlaceOf(Head(u)))
  <2>1. 1 \in 1..Len(u)
    BY <1>2
  <2> QED
    BY <1>2, <2>1 DEF Gapless
<1>8. ASSUME w # <<>>
      PROVE  w[Len(w)] = u[Len(u)] /\ ComesAfter(PlaceOf(Head(u)), PlaceOf(Head(w)))
  <2>1. 1 \in 1..Len(w) /\ Len(w) \in 1..Len(w) /\ 1 \in 1..(Len(u) - 1) /\ Len(w) + 1 = Len(u)
    BY <1>1, <1>2, <1>8
  <2>2. w[1] = u[1 + 1] /\ w[Len(w)] = u[Len(w) + 1]
    BY <1>1, <2>1
  <2> QED
    BY <1>2, <1>8, <2>1, <2>2 DEF Gapless
<1>9. w = <<>> => u[Len(u)] = Head(u)
  <2>1. w = <<>> => Len(u) = 1
    BY <1>1, <1>2
  <2> QED
    BY <1>2, <2>1
<1> QED
  BY <1>5, <1>6, <1>7, <1>8, <1>9 DEF Gapless, w

\* A step that leaves the video alone.
LEMMA QuietKeeps ==
  ASSUME InOrder, Playing, UNCHANGED <<video, relay, next>>,
         pc' # "loop" \/ UNCHANGED <<pc, current, gotKey, shown>>
  PROVE  InOrder' /\ Playing'
<1>1. Live' = Live
  BY DEF Live, Reads
<1>2. InOrder'
  BY <1>1 DEF InOrder, Gapless, Unread
<1>3. Playing'
  BY <1>1 DEF Playing, Unread, First, Continues
<1> QED
  BY <1>2, <1>3

\* A receiver that is dropped or new has nothing to forward.
LEMMA EmptyKeeps ==
  ASSUME ~Unread(video)', pc' = "loop" => video'.source = current' /\ ~gotKey'
  PROVE  InOrder' /\ Playing'
<1>1. video'.unread = <<>> /\ Len(<<>>) = 0
  BY EmptySeq DEF Unread
<1>2. Gapless(video.unread)'
  BY <1>1 DEF Gapless
<1> QED
  BY <1>1, <1>2 DEF InOrder, Playing, Unread

\* A receiver whose relay is still there had it before a source came or went.
LEMMA StillLive ==
  ASSUME TypeOK, Gone, NEW s \in Source, Connect(s) \/ Disconnect(s), Live'
  PROVE  Live /\ next'[video.source] = next[video.source]
<1>1. video.source \in Source /\ relay'[video.source] # 0 /\ video.gen = relay'[video.source]
  BY DEF Connect, Disconnect, router, Live, Reads
<1>2. video.source # s
  <2>1. CASE Connect(s)
    <3>1. relay'[s] = drops + 1 /\ relay[s] = 0
      BY <2>1 DEF Connect, TypeOK
    <3> QED
      BY <1>1, <3>1, BoundAssumption DEF Gone, TypeOK
  <2>2. CASE Disconnect(s)
    BY <1>1, <2>2 DEF Disconnect, TypeOK
  <2> QED
    BY <2>1, <2>2
<1>3. relay'[video.source] = relay[video.source] /\ next'[video.source] = next[video.source]
  BY <1>1, <1>2 DEF Connect, Disconnect, TypeOK
<1> QED
  BY <1>1, <1>3 DEF Live, Reads

LEMMA ConnectKeeps ==
  ASSUME TypeOK, Gone, InOrder, Playing, NEW s \in Source, Connect(s) \/ Disconnect(s)
  PROVE  InOrder' /\ Playing'
<1>1. UNCHANGED <<video, pc, current, gotKey, shown>>
  BY DEF Connect, Disconnect, router, program
<1>2. Live' => Live /\ next'[video.source] = next[video.source]
  BY StillLive
<1>3. InOrder'
  BY <1>1, <1>2 DEF InOrder, Gapless, Unread
<1>4. Playing'
  <2> SUFFICES ASSUME pc' = "loop" PROVE Playing'
    BY DEF Playing
  <2>1. Live' => next'[current] = next[current]
    BY <1>1, <1>2 DEF Playing
  <2> QED
    BY <1>1, <1>2, <2>1 DEF Playing, Unread, First, Continues
<1> QED
  BY <1>3, <1>4

LEMMA ProduceKeeps ==
  ASSUME KeepsUp, TypeOK, InOrder, Playing, NEW s \in Source, Produce(s)
  PROVE  InOrder' /\ Playing'
<1> DEFINE t == TagAt(next[s])
<1>1. next[s] \in Places /\ t \in Tag /\ PlaceOf(t) = next[s]
  BY TagsAre DEF TypeOK
<1>2. /\ video' = Deliver(video, s, t) /\ relay[s] # 0 /\ Room(video, s)
      /\ UNCHANGED <<relay, pc, current, gotKey, shown>>
  BY DEF Produce, Send, program
<1>3. next'[s] = Follow(next[s]) /\ \A q \in Source : q # s => next'[q] = next[q]
  BY DEF Produce, TypeOK
<1> HIDE DEF t
<1>4. CASE ~Reads(video, s)
  <2>1. video' = video
    BY <1>2, <1>4 DEF Deliver
  <2>2. Live' => Live /\ next'[video.source] = next[video.source]
    BY <1>2, <1>3, <1>4, <2>1 DEF Live, Reads
  <2>3. InOrder'
    BY <2>1, <2>2 DEF InOrder, Gapless, Unread
  <2>4. Playing'
    BY <1>2, <2>1, <2>2 DEF Playing, Unread, First, Continues
  <2> QED
    BY <2>3, <2>4
<1>5. CASE Reads(video, s)
  <2> DEFINE u == video.unread
  <2>1. u \in Seq(Tag) /\ Len(u) < RelayCap
    BY <1>2, <1>5 DEF TypeOK, Receiver, Room
  <2>2. video'.source = s /\ video'.gen = video.gen /\ video'.unread = Append(u, t)
    <3>1. Queued(u, t) = Append(u, t)
      BY <2>1 DEF Queued
    <3> QED
      BY <1>1, <1>2, <1>5, <3>1, DeliverIs DEF Reads, TypeOK
  <2>3. Live /\ video.source = s
    BY <1>2, <1>5 DEF Live, Reads
  <2>4. Gapless(u) /\ (u # <<>> => ComesAfter(PlaceOf(u[Len(u)]), next[s]))
    BY <2>3 DEF InOrder, Unread
  <2> HIDE DEF u
  <2>5. /\ Gapless(Append(u, t)) /\ Append(u, t) # <<>>
        /\ PlaceOf(Append(u, t)[Len(Append(u, t))]) = next[s]
        /\ Head(Append(u, t)) = IF u = <<>> THEN t ELSE Head(u)
    BY <1>1, <2>1, <2>4, AppendIs DEF t
  <2>6. InOrder'
    BY <1>3, <2>2, <2>5 DEF InOrder, Gapless, ComesAfter
  <2>7. Playing'
    <3> SUFFICES ASSUME pc' = "loop" PROVE Playing'
      BY DEF Playing
    <3>1. current = s /\ (gotKey => shown.source = current /\ shown.gen = video.gen)
      BY <1>2, <2>3 DEF Playing
    <3>2. gotKey => Continues(PlaceOf(Head(Append(u, t))))
      <4>1. CASE u = <<>>
        BY <1>1, <1>2, <2>3, <2>5, <3>1, <4>1 DEF Playing, Unread, u
      <4>2. CASE u # <<>>
        BY <1>2, <2>5, <4>2 DEF Playing, Unread, First, u
      <4> QED
        BY <4>1, <4>2
    <3>3. Unread(video)' /\ First(video)' = Head(Append(u, t))
      BY <2>2, <2>5 DEF Unread, First
    <3> QED
      BY <1>2, <2>2, <3>1, <3>2, <3>3 DEF Playing, Continues
  <2> QED
    BY <2>6, <2>7
<1> QED
  BY <1>4, <1>5

\* A video frame that goes out behind another follows it.
LEMMA FrameFollows ==
  ASSUME TypeOK, Playing, CurrentTag, shown' # shown,
         First(video) \in Tag, First(video) = TagAt(PlaceOf(First(video)))
  PROVE  /\ shown' = [source |-> current, gen |-> video.gen, at |-> PlaceOf(First(video))]
         /\ PlaceOf(First(video)) # 0 => shown = [shown' EXCEPT !.at = @ - 1]
<1> DEFINE t == First(video)
<1>1. t.kind = "video" /\ Starts(t)
  BY DEF CurrentTag, Show, Forwarded
<1>2. PlaceOf(t) = t.at /\ t.at \in Position
  BY <1>1 DEF PlaceOf, Tag
<1>3. shown' = [source |-> current, gen |-> video.gen, at |-> t.at]
  BY <1>1 DEF CurrentTag, Show, Forwarded
<1>4. ASSUME t.at # 0 PROVE shown = [shown' EXCEPT !.at = @ - 1]
  <2>1. ~Key(t)
    BY <1>4 DEF Key, Video
  <2>2. gotKey /\ Unread(video) /\ pc = "loop"
    BY <1>1, <2>1 DEF Starts, CurrentTag
  <2>3. shown.source = current /\ shown.gen = video.gen /\ Continues(t.at)
    BY <1>2, <2>2 DEF Playing
  <2>4. shown.at = t.at - 1
    BY <1>2, <1>4, <2>3, BoundAssumption DEF Continues, TypeOK, Position
  <2>5. shown = [source |-> shown.source, gen |-> shown.gen, at |-> shown.at]
    BY DEF TypeOK
  <2> QED
    BY <1>3, <2>3, <2>4, <2>5
<1> QED
  BY <1>2, <1>3, <1>4

LEMMA ForwardKeeps ==
  ASSUME TypeOK, InOrder, Playing, CurrentTag
  PROVE  InOrder' /\ Playing'
<1> DEFINE u == video.unread
           t == First(video)
<1>1. u \in Seq(Tag) /\ u # <<>> /\ Gapless(u) /\ t = Head(u)
  BY DEF CurrentTag, TypeOK, Receiver, Unread, First, InOrder
<1>2. /\ t \in Tag /\ video'.source = video.source /\ video'.gen = video.gen
      /\ video'.unread = Tail(u)
  BY ReadIs DEF CurrentTag, TypeOK
<1>3. /\ t = TagAt(PlaceOf(t)) /\ Gapless(Tail(u))
      /\ Tail(u) = <<>> => u[Len(u)] = t
      /\ Tail(u) # <<>> => /\ Tail(u)[Len(Tail(u))] = u[Len(u)]
                           /\ ComesAfter(PlaceOf(t), PlaceOf(Head(Tail(u))))
  BY <1>1, TailIs
<1>4. UNCHANGED <<relay, next, pc, current>> /\ pc = "loop" /\ video.source = current
  BY DEF CurrentTag, shared, known, Playing
<1>5. Live' = Live /\ (Live => ComesAfter(PlaceOf(u[Len(u)]), next[current]))
  <2>1. Live' = Live
    BY <1>2, <1>4 DEF Live, Reads
  <2>2. Live => ComesAfter(PlaceOf(u[Len(u)]), next[current])
    BY <1>1, <1>4 DEF InOrder, Unread
  <2> QED
    BY <2>1, <2>2
<1> HIDE DEF u
<1>6. InOrder'
  BY <1>2, <1>3, <1>4, <1>5 DEF InOrder, Unread
<1>7. ASSUME gotKey', NEW n, ComesAfter(PlaceOf(t), n)
      PROVE  /\ shown'.source = current /\ shown'.gen = video.gen
             /\ n \in 1..(Gop - 1) => n = shown'.at + 1
  <2>1. Starts(t)
    BY <1>7 DEF CurrentTag
  <2>2. CASE t.kind = "video"
    <3>1. shown' = [source |-> current, gen |-> video.gen, at |-> t.at]
      BY <2>1, <2>2 DEF CurrentTag, Show, Forwarded
    <3>2. PlaceOf(t) = t.at /\ t.at \in Position
      BY <1>2, <2>2 DEF PlaceOf, Tag
    <3>3. Follow(t.at) = t.at + 1
      BY <3>2, BoundAssumption DEF Follow, Position
    <3>4. n \in 1..(Gop - 1) => n # Opening
      BY BoundAssumption DEF Opening
    <3> QED
      BY <1>7, <3>1, <3>2, <3>3, <3>4 DEF ComesAfter
  <2>3. CASE t.kind # "video"
    <3>1. gotKey /\ shown' = shown
      BY <2>1, <2>3 DEF Starts, Key, Video, CurrentTag, Show
    <3>2. shown.source = current /\ shown.gen = video.gen
      BY <1>4, <3>1 DEF Playing, CurrentTag
    <3>3. PlaceOf(t) \in {Gop, Opening, OpeningSound}
      BY <1>2, <2>3 DEF PlaceOf, Tag, Kinds
    <3>4. n \notin 1..(Gop - 1)
      BY <1>7, <3>3, BoundAssumption DEF ComesAfter, Follow, Opening, OpeningSound
    <3> QED
      BY <3>1, <3>2, <3>4
  <2> QED
    BY <2>2, <2>3
<1>8. Playing'
  <2>1. Unread(video)' => First(video)' = Head(Tail(u)) /\ Tail(u) # <<>>
    BY <1>2 DEF Unread, First
  <2>2. ~Unread(video)' => Tail(u) = <<>>
    BY <1>2 DEF Unread
  <2>3. Unread(video)' => ComesAfter(PlaceOf(t), PlaceOf(First(video)'))
    BY <1>3, <2>1
  <2>4. Live' /\ ~Unread(video)' => ComesAfter(PlaceOf(t), next'[current])
    BY <1>3, <1>4, <1>5, <2>2
  <2> HIDE DEF t
  <2>5. ASSUME gotKey' PROVE shown'.source = current /\ shown'.gen = video.gen
    BY <1>7, <2>5 DEF ComesAfter
  <2> QED
    BY <1>2, <1>4, <1>7, <2>3, <2>4, <2>5 DEF Playing, Continues
<1> QED
  BY <1>6, <1>8

\* An encoder that begins anew opens with a header, which continues whatever was shown.
LEMMA BeginKeeps ==
  ASSUME TypeOK, InOrder, Playing, NEW s \in Source, BeginAnew(s)
  PROVE  InOrder' /\ Playing'
<1>1. UNCHANGED <<video, relay, pc, current, gotKey, shown>>
  BY DEF BeginAnew, router, program
<1>2. \A q \in Source : next'[q] = next[q] \/ next'[q] = Opening
  BY DEF BeginAnew, TypeOK
<1>3. Live' = Live /\ (Live => video.source \in Source)
  BY <1>1 DEF Live, Reads
<1>4. InOrder'
  BY <1>1, <1>2, <1>3 DEF InOrder, Gapless, Unread, ComesAfter
<1>5. Opening \notin 1..(Gop - 1)
  BY BoundAssumption DEF Opening
<1>6. Playing'
  BY <1>1, <1>2, <1>3, <1>5 DEF Playing, Unread, First, Continues
<1> QED
  BY <1>4, <1>6

LEMMA NextStreams ==
  ASSUME KeepsUp, TypeOK, Chosen, Gone, InOrder, Playing, Next
  PROVE  InOrder' /\ Playing'
<1>1. CASE Pick \/ SendHeaders \/ WaitRelay
  BY <1>1, QuietKeeps DEF Pick, SendHeaders, WaitRelay, shared, known, router
<1>2. CASE FindRelays
  <2>1. CASE relay[current] = 0
    BY <1>2, <2>1, QuietKeeps DEF FindRelays, shared, known
  <2>2. CASE relay[current] # 0
    <3>1. current \in Source /\ video' = Subscribe(current) /\ ~gotKey' /\ current' = current
      BY <1>2, <2>2 DEF FindRelays, Chosen
    <3> QED
      BY <3>1, SubscribeIs, EmptyKeeps DEF Unread
  <2> QED
    BY <2>1, <2>2
<1>3. CASE RoutingChanged \/ Splice
  <2>1. video' = NoReceiver /\ pc' = "pick"
    BY <1>3 DEF RoutingChanged, Splice, Leave
  <2> QED
    BY <2>1, NoReceiverIs, EmptyKeeps DEF Unread
<1>4. CASE SourceChanged \/ PendingDropped \/ PendingClosed \/ SoundTag \/ SoundClosed
  BY <1>4, QuietKeeps DEF SourceChanged, PendingDropped, PendingClosed, SoundTag, SoundClosed,
     shared, known, program
<1>5. CASE CurrentTag
  BY <1>5, ForwardKeeps
<1>6. CASE Sources
  BY <1>6, ConnectKeeps, BeginKeeps, ProduceKeeps DEF Sources
<1>7. CASE Supervisor \/ Audiodesk
  <2>1. UNCHANGED <<video, relay, next, pc, current, gotKey, shown>>
    BY <1>7 DEF Supervisor, Audiodesk, Route, RouteAudio, router, program
  <2> QED
    BY <2>1, QuietKeeps
<1> QED
  BY <1>1, <1>2, <1>3, <1>4, <1>5, <1>6, <1>7 DEF Next, Router, Enter, Switch

-----------------------------------------------------------------------------
(* The headers come first.                                                 *)

\* All of a queue after a full receiver dropped its oldest tag.
LEMMA QueuedAt ==
  ASSUME NEW q \in Seq(Tag), Len(q) <= RelayCap, NEW t \in Tag
  PROVE  \E d \in {0, 1} :
           LET v == Queued(q, t)
           IN  /\ Len(v) \in Nat \ {0} /\ v[Len(v)] = t
               /\ \A i \in 1..(Len(v) - 1) : i + d \in 1..Len(q) /\ v[i] = q[i + d]
<1>1. Len(q) \in Nat
  BY SeqIs
<1>2. CASE Len(q) < RelayCap
  <2> DEFINE v == Queued(q, t)
  <2>1. Len(v) = Len(q) + 1 /\ v[Len(q) + 1] = t /\ \A i \in 1..Len(q) : v[i] = q[i]
    BY <1>2, AppendProperties DEF Queued
  <2> HIDE DEF v
  <2>2. /\ Len(v) \in Nat \ {0} /\ v[Len(v)] = t
        /\ \A i \in 1..(Len(v) - 1) : i + 0 \in 1..Len(q) /\ v[i] = q[i + 0]
    BY <1>1, <2>1
  <2> QED
    BY <2>2 DEF v
<1>3. CASE ~(Len(q) < RelayCap)
  <2> DEFINE v == Queued(q, t)
             w == Tail(q)
  <2>1. q # <<>>
    BY <1>1, <1>3, SeqIs, BoundAssumption
  <2>2. w \in Seq(Tag) /\ Len(w) = Len(q) - 1 /\ \A i \in 1..Len(w) : w[i] = q[i + 1]
    BY <2>1, HeadTailProperties
  <2>3. Len(v) = Len(w) + 1 /\ v[Len(w) + 1] = t /\ \A i \in 1..Len(w) : v[i] = w[i]
    BY <1>3, <2>2, AppendProperties DEF Queued
  <2> HIDE DEF v, w
  <2>4. Len(w) \in Nat
    BY <2>2, SeqIs
  <2>5. /\ Len(v) \in Nat \ {0} /\ v[Len(v)] = t
        /\ \A i \in 1..(Len(v) - 1) : i + 1 \in 1..Len(q) /\ v[i] = q[i + 1]
    BY <1>1, <2>2, <2>3, <2>4
  <2> QED
    BY <2>5 DEF v
<1> QED
  BY <1>2, <1>3

\* A step that leaves the video alone.
LEMMA QuietOpened ==
  ASSUME HeadersFirst, UNCHANGED <<video, relay, next, anew>>,
         pc' = "loop" /\ gotKey' => pc = "loop" /\ gotKey
  PROVE  HeadersFirst'
<1>1. Live' = Live
  BY DEF Live, Reads
<1> QED
  BY <1>1 DEF HeadersFirst, Opened

LEMMA EmptyOpened ==
  ASSUME ~Unread(video)', ~(pc' = "loop" /\ gotKey')
  PROVE  HeadersFirst'
<1>1. video'.unread = <<>> /\ Len(<<>>) = 0
  BY EmptySeq DEF Unread
<1> QED
  BY <1>1 DEF HeadersFirst, Opened

LEMMA ConnectOpened ==
  ASSUME TypeOK, Gone, HeadersFirst, NEW s \in Source, Connect(s) \/ Disconnect(s)
  PROVE  HeadersFirst'
<1>1. UNCHANGED <<video, pc, gotKey, anew>>
  BY DEF Connect, Disconnect, router, history
<1>2. Live' => Live /\ next'[video.source] = next[video.source]
  BY StillLive
<1> QED
  BY <1>1, <1>2 DEF HeadersFirst, Opened

LEMMA ProduceOpened ==
  ASSUME TypeOK, HeadersFirst, NEW s \in Source, Produce(s)
  PROVE  HeadersFirst'
<1> DEFINE t == TagAt(next[s])
<1>1. /\ next[s] \in Places /\ t \in Tag /\ (Frame(t) <=> next[s] <= Gop)
      /\ (next[s] <= Gop => Follow(next[s]) <= Gop)
  BY TagsAre DEF TypeOK
<1>2. /\ video' = Deliver(video, s, t) /\ relay[s] # 0
      /\ UNCHANGED <<relay, pc, gotKey, anew>>
  BY DEF Produce, Send, history
<1>3. next'[s] = Follow(next[s]) /\ \A q \in Source : q # s => next'[q] = next[q]
  BY DEF Produce, TypeOK
<1> HIDE DEF t
<1>4. CASE ~Reads(video, s)
  <2>1. video' = video
    BY <1>2, <1>4 DEF Deliver
  <2>2. Live' => Live /\ next'[video.source] = next[video.source]
    BY <1>2, <1>3, <1>4, <2>1 DEF Live, Reads
  <2> QED
    BY <1>2, <2>1, <2>2 DEF HeadersFirst, Opened
<1>5. CASE Reads(video, s)
  <2> DEFINE u == video.unread
             v == Queued(u, t)
  <2>1. u \in Seq(Tag) /\ Len(u) <= RelayCap
    BY DEF TypeOK, Receiver, Fits
  <2>2. video'.source = s /\ video'.unread = v /\ video.source = s /\ Live
    BY <1>1, <1>2, <1>5, DeliverIs DEF Reads, Live, TypeOK
  <2>3. PICK d \in {0, 1} :
          /\ Len(v) \in Nat \ {0} /\ v[Len(v)] = t
          /\ \A i \in 1..(Len(v) - 1) : i + d \in 1..Len(u) /\ v[i] = u[i + d]
    BY <1>1, <2>1, QueuedAt
  <2> SUFFICES ASSUME ~anew PROVE HeadersFirst'
    BY <1>2 DEF HeadersFirst
  <2> HIDE DEF u, v
  <2>4. /\ \A i, j \in 1..Len(u) : i < j /\ Frame(u[i]) => Frame(u[j])
        /\ \A i \in 1..Len(u) : Frame(u[i]) => next[s] <= Gop
        /\ pc = "loop" /\ gotKey => next[s] <= Gop /\ \A i \in 1..Len(u) : Frame(u[i])
    BY <2>2 DEF HeadersFirst, Opened, u
  <2>5. \A i \in 1..Len(v) : i = Len(v) \/ i \in 1..(Len(v) - 1)
    BY <2>3
  <2>6. ASSUME NEW i \in 1..Len(v), Frame(v[i]) PROVE next[s] <= Gop
    BY <1>1, <2>3, <2>4, <2>5, <2>6
  <2>7. ASSUME NEW i \in 1..Len(v), NEW j \in 1..Len(v), i < j, Frame(v[i]) PROVE Frame(v[j])
    <3>1. i \in 1..(Len(v) - 1) /\ Len(v) \in Nat
      BY <2>3, <2>7
    <3>2. CASE j = Len(v)
      BY <1>1, <2>3, <2>6, <2>7, <3>2
    <3>3. CASE j # Len(v)
      <4>1. j \in 1..(Len(v) - 1) /\ i + d < j + d
        BY <2>3, <2>5, <2>7, <3>3
      <4>2. i + d \in 1..Len(u) /\ v[i] = u[i + d] /\ j + d \in 1..Len(u) /\ v[j] = u[j + d]
        BY <2>3, <3>1, <4>1
      <4> QED
        BY <2>4, <2>7, <4>1, <4>2
    <3> QED
      BY <3>2, <3>3
  <2>8. ASSUME pc = "loop", gotKey PROVE next[s] <= Gop /\ \A i \in 1..Len(v) : Frame(v[i])
    BY <1>1, <2>3, <2>4, <2>5, <2>8
  <2>9. Opened(video.unread, next[video.source])'
    BY <1>1, <1>3, <2>2, <2>6, <2>7 DEF Opened
  <2> QED
    BY <1>1, <1>2, <1>3, <2>2, <2>8, <2>9 DEF HeadersFirst
<1> QED
  BY <1>4, <1>5

\* Once the keyframe is read, all that waits behind it are frames.
LEMMA ForwardOpened ==
  ASSUME TypeOK, HeadersFirst, CurrentTag
  PROVE  HeadersFirst'
<1> DEFINE u == video.unread
           w == Tail(u)
<1>1. /\ video'.source = video.source /\ video'.gen = video.gen /\ video'.unread = w
      /\ First(video) = u[1] /\ Len(u) \in Nat \ {0} /\ Len(w) = Len(u) - 1
      /\ \A i \in 1..(Len(u) - 1) : w[i] = u[i + 1]
  BY ReadIs DEF CurrentTag, TypeOK
<1>2. UNCHANGED <<relay, next, pc, anew>> /\ pc = "loop" /\ gotKey' = Starts(First(video))
  BY DEF CurrentTag, shared, history
<1>3. Live' = Live
  BY <1>1, <1>2 DEF Live, Reads
<1> SUFFICES ASSUME ~anew PROVE HeadersFirst'
  BY <1>2 DEF HeadersFirst
<1> HIDE DEF u, w
<1>4. /\ \A i, j \in 1..Len(u) : i < j /\ Frame(u[i]) => Frame(u[j])
      /\ \A i \in 1..Len(u) : Live /\ Frame(u[i]) => next[video.source] <= Gop
      /\ gotKey => /\ \A i \in 1..Len(u) : Frame(u[i])
                   /\ Live => next[video.source] <= Gop
  BY <1>2 DEF HeadersFirst, Opened, u
<1>5. \A i \in 1..Len(w) : i + 1 \in 1..Len(u) /\ w[i] = u[i + 1] /\ 1 < i + 1
  BY <1>1
<1>6. \A i, j \in 1..Len(w) : i < j => i + 1 < j + 1
  BY <1>1
<1>7. ASSUME gotKey' PROVE (\A i \in 1..Len(w) : Frame(w[i])) /\ (Live => next[video.source] <= Gop)
  <2>1. CASE gotKey
    BY <1>4, <1>5, <2>1
  <2>2. CASE ~gotKey
    <3>1. Key(u[1])
      BY <1>1, <1>2, <1>7, <2>2, Zenon DEF Starts
    <3>2. Frame(u[1]) /\ 1 \in 1..Len(u)
      BY <1>1, <3>1 DEF Key, Video, Frame
    <3> QED
      BY <1>4, <1>5, <3>2
  <2> QED
    BY <2>1, <2>2
<1>8. \A i, j \in 1..Len(w) : i < j /\ Frame(w[i]) => Frame(w[j])
  BY <1>4, <1>5, <1>6
<1>9. \A i \in 1..Len(w) : Live /\ Frame(w[i]) => next[video.source] <= Gop
  BY <1>4, <1>5
<1>10. Opened(video.unread, next[video.source])'
  BY <1>1, <1>2, <1>3, <1>8, <1>9 DEF Opened
<1> QED
  BY <1>1, <1>2, <1>3, <1>7, <1>10 DEF HeadersFirst

LEMMA NextOpened ==
  ASSUME TypeOK, Chosen, Gone, HeadersFirst, Next
  PROVE  HeadersFirst'
<1>1. CASE Router
  <2>1. UNCHANGED <<relay, next, anew>>
    BY <1>1 DEF Router, Enter, Pick, SendHeaders, FindRelays, WaitRelay, SourceChanged, RoutingChanged,
       Switch, PendingDropped, Splice, PendingClosed, CurrentTag, SoundTag, SoundClosed, shared, history
  <2>2. CASE CurrentTag
    BY <2>2, ForwardOpened
  <2>3. CASE Pick \/ SendHeaders \/ WaitRelay \/ (FindRelays /\ relay[current] = 0)
    <3>1. video' = video /\ pc' # "loop"
      BY <2>3 DEF Pick, SendHeaders, WaitRelay, FindRelays, router
    <3> QED
      BY <2>1, <3>1, QuietOpened
  <2>4. CASE FindRelays /\ relay[current] # 0
    <3>1. current \in Source /\ video' = Subscribe(current) /\ ~gotKey'
      BY <2>4 DEF FindRelays, Chosen
    <3> QED
      BY <3>1, SubscribeIs, EmptyOpened DEF Unread
  <2>5. CASE RoutingChanged \/ Splice
    <3>1. video' = NoReceiver /\ pc' = "pick"
      BY <2>5 DEF RoutingChanged, Splice, Leave
    <3> QED
      BY <3>1, NoReceiverIs, EmptyOpened DEF Unread
  <2>6. CASE SourceChanged \/ PendingDropped \/ PendingClosed \/ SoundTag \/ SoundClosed
    <3>1. UNCHANGED <<video, pc, gotKey>>
      BY <2>6 DEF SourceChanged, PendingDropped, PendingClosed, SoundTag, SoundClosed
    <3> QED
      BY <2>1, <3>1, QuietOpened
  <2> QED
    BY <1>1, <2>2, <2>3, <2>4, <2>5, <2>6 DEF Router, Enter, Switch
<1>2. ASSUME NEW s \in Source, BeginAnew(s) PROVE HeadersFirst'
  BY <1>2 DEF BeginAnew, HeadersFirst
<1>3. CASE Sources
  BY <1>2, <1>3, ConnectOpened, ProduceOpened DEF Sources
<1>4. CASE Supervisor \/ Audiodesk
  <2>1. UNCHANGED <<video, relay, next, pc, gotKey, anew>>
    BY <1>4 DEF Supervisor, Audiodesk, Route, RouteAudio, router, history
  <2> QED
    BY <2>1, QuietOpened
<1> QED
  BY <1>1, <1>3, <1>4 DEF Next

-----------------------------------------------------------------------------
(* The inductive invariant.                                                *)

LEMMA Starting == ASSUME Init PROVE IInv
<1>1. TypeOK
  BY InitTypes
<1>2. Chosen /\ Known /\ Gone
  BY NoReceiverIs, BoundAssumption DEF Init, Chosen, Known, Gone, NoReceiver, Unread
<1>3. InOrder /\ Playing
  <2>1. Gapless(video.unread) /\ ~Unread(video)
    BY NoReceiverIs, EmptySeq DEF Init, Gapless, NoReceiver, Unread
  <2> QED
    BY <2>1 DEF Init, InOrder, Playing
<1>4. HeadersFirst
  BY NoReceiverIs, EmptySeq DEF Init, HeadersFirst, Opened, Unread
<1> QED
  BY <1>1, <1>2, <1>3, <1>4 DEF IInv, Streams

LEMMA Stepping == ASSUME IInv, [Next]_vars PROVE IInv'
<1>1. CASE Next
  <2>1. TypeOK' /\ Chosen' /\ Known' /\ Gone'
    BY <1>1, NextTypes, NextChosen, NextKnown, NextGone DEF IInv
  <2>2. Streams'
    BY <1>1, NextStreams DEF IInv, Streams
  <2>3. HeadersFirst'
    BY <1>1, NextOpened DEF IInv
  <2> QED
    BY <2>1, <2>2, <2>3 DEF IInv
<1>2. CASE UNCHANGED vars
  <2>1. TypeOK' /\ Chosen' /\ Known' /\ Gone'
    BY <1>2 DEF IInv, TypeOK, Chosen, AudioFor, Known, Gone, Unread, Fits, vars, shared, known, router, program, history
  <2>2. Streams'
    BY <1>2, QuietKeeps DEF IInv, Streams, vars, shared, known, router, program
  <2>3. HeadersFirst'
    BY <1>2, QuietOpened DEF IInv, vars, shared, router, history
  <2> QED
    BY <2>1, <2>2, <2>3 DEF IInv
<1> QED
  BY <1>1, <1>2

\* The router and what it forwards are always of the types the model gives them, the
\* unread tags of its receivers within the capacity of a relay.
THEOREM TypeCorrect == Spec => []TypeOK
<1>1. IInv => TypeOK
  BY DEF IInv
<1> QED
  BY <1>1, Starting, Stepping, PTL DEF Spec

\* What is inductive of the router (run_program_router): the source and audio it has
\* chosen, the headers that are known, that no relay comes back under its generation,
\* and, if it keeps up, that what waits goes on from what was shown.
THEOREM Inductive == Spec => []IInv
BY Starting, Stepping, PTL DEF Spec

-----------------------------------------------------------------------------
(* What goes out.                                                          *)

\* The audio of the program is always that of the source the routing names for what
\* is shown, for every routing and however the two relays are read: the audio source
\* is fixed when the loop is entered, and a change of the routing leaves the loop
\* (program.rs 75-82, 215-243).  Nor does the loop put the audio header of another source
\* before it while no encoder has begun anew, though the video source's own would pass: by
\* HeadersFirst it is never behind the keyframe that lets it through (program.rs 219).
THEOREM OneAudioHolds == Spec => OneAudio
<1> DEFINE Right == /\ heard' # heard => heard' = AudioFor(current)
                    /\ tuned' # tuned => tuned' = AudioFor(current) \/ anew
<1>1. ASSUME IInv, [Next]_vars PROVE [~routingNew /\ pc' = "loop" => Right]_vars
  <2> SUFFICES ASSUME Next, ~routingNew, pc' = "loop" PROVE Right
    BY <1>1
  <2>1. CASE CurrentTag
    <3> DEFINE t == First(video)
    <3>1. pc = "loop" /\ audio = AudioFor(current) /\ Show(t)
      BY <1>1, <2>1 DEF CurrentTag, IInv, Chosen
    <3>2. t = video.unread[1] /\ Len(video.unread) \in Nat \ {0}
      BY <1>1, <2>1, ReadIs DEF CurrentTag, IInv, TypeOK
    <3>3. gotKey /\ ~anew => Frame(t)
      BY <1>1, <3>1, <3>2 DEF IInv, HeadersFirst
    <3> QED
      BY <3>1, <3>3 DEF Show, Forwarded, Same, Frame
  <2>2. CASE SoundTag
    BY <1>1, <2>2 DEF SoundTag, IInv, Chosen
  <2>3. CASE ~CurrentTag /\ ~SoundTag
    BY <2>3 DEF Next, Router, Enter, Pick, SendHeaders, FindRelays, WaitRelay, SourceChanged, Leave,
       RoutingChanged, Switch, PendingDropped, Splice, PendingClosed, SoundClosed, program, Sources,
       Connect, Disconnect, BeginAnew, Produce, Send, Supervisor, Audiodesk, Route, RouteAudio
  <2> QED
    BY <2>1, <2>2, <2>3
<1> QED
  BY <1>1, Inductive, PTL DEF Spec, OneAudio

\* A spliced keyframe goes out behind the header of its own source, for any number of
\* sources and cuts, as long as nothing has disconnected: a source's header is known
\* before anything it sends can wait in a receiver (program.rs 172-182).
THEOREM Headers == Spec => SplicedBehindItsHeader
<1>1. ASSUME IInv, [Next]_vars
      PROVE  [shown' # shown /\ pc' = "pick" /\ drops = 0 => header' = shown'.source]_vars
  <2> SUFFICES ASSUME Next, shown' # shown, pc' = "pick", drops = 0 PROVE header' = shown'.source
    BY <1>1
  <2>1. CASE Splice
    BY <1>1, <2>1 DEF Splice, SendsHeaders, HeaderOf, IInv, Known
  <2>2. CASE CurrentTag
    BY <2>2 DEF CurrentTag
  <2>3. CASE ~Splice /\ ~CurrentTag
    BY <2>3 DEF Next, Router, Enter, Pick, SendHeaders, FindRelays, WaitRelay, SourceChanged,
       RoutingChanged, Switch, PendingDropped, PendingClosed, SoundTag, SoundClosed, program, Sources,
       Connect, Disconnect, BeginAnew, Produce, Send, Supervisor, Audiodesk, Route, RouteAudio
  <2> QED
    BY <2>1, <2>2, <2>3
<1> QED
  BY <1>1, Inductive, PTL DEF Spec, SplicedBehindItsHeader

\* A router that keeps up with its relays sends out nothing a viewer cannot decode, for
\* groups of pictures of any length, any number of sources and any reconnections: each
\* frame that refers to the one before it follows that very frame (program.rs 186-213).
THEOREM DecodableHolds == ASSUME KeepsUp PROVE Spec => Decodable
<1>1. ASSUME IInv, [Next]_vars
      PROVE  [shown' # shown /\ shown'.at # 0 => shown = [shown' EXCEPT !.at = @ - 1]]_vars
  <2> SUFFICES ASSUME Next, shown' # shown, shown'.at # 0 PROVE shown = [shown' EXCEPT !.at = @ - 1]
    BY <1>1
  <2>1. TypeOK /\ InOrder /\ Playing
    BY <1>1 DEF IInv, Streams
  <2>2. CASE CurrentTag
    <3>1. video.unread \in Seq(Tag) /\ video.unread # <<>> /\ Gapless(video.unread) /\ First(video) \in Tag
      BY <2>1, <2>2, ReadIs DEF CurrentTag, TypeOK, Receiver, Unread, InOrder
    <3>2. First(video) = TagAt(PlaceOf(First(video)))
      BY <3>1, TailIs DEF First
    <3> QED
      BY <2>1, <2>2, <3>1, <3>2, FrameFollows
  <2>3. CASE Splice
    BY <2>3 DEF Splice
  <2>4. CASE ~Splice /\ ~CurrentTag
    BY <2>4 DEF Next, Router, Enter, Pick, SendHeaders, FindRelays, WaitRelay, SourceChanged,
       RoutingChanged, Switch, PendingDropped, PendingClosed, SoundTag, SoundClosed, program, Sources,
       Connect, Disconnect, BeginAnew, Produce, Send, Supervisor, Audiodesk, Route, RouteAudio
  <2> QED
    BY <2>2, <2>3, <2>4
<1> QED
  BY <1>1, Inductive, PTL DEF Spec, Decodable

=============================================================================
