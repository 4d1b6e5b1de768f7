----------------------------- MODULE WhipProofs -----------------------------
(***************************************************************************)
(* What holds of WebRTC ingest for any number of publishes and calls, and  *)
(* any number of tasks at a time: the map of children has one only while   *)
(* there is a peer, and no ffmpeg runs outside the map; when all is over a *)
(* source without a peer has nothing else; and as long as nobody overlaps, *)
(* an ffmpeg feeds the relay that the router finds and a peer that is left *)
(* is that of a live source.                                               *)
(*                                                                         *)
(* The first invariant is inductive because the child and the peer change  *)
(* hands in one step each, which the normalizers' lock is for.  The second *)
(* says of everything that is there who is still to clear it: a peer, the  *)
(* request that will have one, or a task that is past taking it.  The      *)
(* third is about who may be on with whom: one publish at a time, whose    *)
(* peer is watched until its reader has made the source live.              *)
(***************************************************************************)
EXTENDS Whip, TLAPS

\* The map of children, the map of peers, and what runs.
IInv == TypeOK /\ BridgeHasPeer /\ NoStray

\* The lists of operations are what they look like.
LEMMA ScriptsTyped ==
  /\ <<>> \in Seq(Ops) /\ Whip \in Seq(Ops) /\ Join \in Seq(Ops) /\ Bridge \in Seq(Ops) /\ Delete \in Seq(Ops)
  /\ \A k \in {"persistent", "guest"} : Stop(k) \in Seq(Ops) /\ <<"ifNotLive">> \o Stop(k) \in Seq(Ops)
<1>1. /\ <<>> \in Seq(Ops) /\ Ingest \in Seq(Ops) /\ Bridge \in Seq(Ops)
      /\ <<"ifNotBusy", "ifNoPeer">> \in Seq(Ops) /\ <<"session">> \in Seq(Ops) /\ <<"addRow", "link">> \in Seq(Ops)
  BY DEF Ops, Ingest, Bridge
<1>2. /\ <<"unbridge", "dropFeed", "disconnected">> \in Seq(Ops) /\ <<"deleteRow", "unlink">> \in Seq(Ops)
      /\ <<"forget">> \in Seq(Ops) /\ <<"ifNotLive">> \in Seq(Ops) /\ <<"dropFeed", "dropFeed">> \in Seq(Ops)
      /\ <<"uninstall", "dropFeed", "disconnected">> \in Seq(Ops)
  BY DEF Ops
<1>3. \A s, t \in Seq(Ops) : s \o t \in Seq(Ops)
  OBVIOUS
<1>4. \A k : (IF k = "guest" THEN <<"deleteRow", "unlink">> ELSE <<>>) \in Seq(Ops)
  BY <1>1, <1>2
<1>5. \A k : Stop(k) \in Seq(Ops)
  BY <1>2, <1>3, <1>4, Zenon DEF Stop
<1>6. Delete \in Seq(Ops)
  BY <1>2, <1>3, <1>5, Zenon DEF Delete
<1>7. Whip \in Seq(Ops) /\ Join \in Seq(Ops)
  BY <1>1, <1>3, Zenon DEF Whip, Join
<1> QED
  BY <1>1, <1>2, <1>3, <1>5, <1>6, <1>7

\* A task that has done an operation has the others still to do.
LEMMA DoneKeeps ==
  ASSUME TypeOK, NEW t \in Task, Busy(t), Done(t)
  PROVE  todo' \in [Task -> Seq(Ops)] /\ \A u \in Task : u # t => todo'[u] = todo[u]
<1>1. todo \in [Task -> Seq(Ops)] /\ todo[t] \in Seq(Ops) /\ todo[t] # <<>>
  BY DEF TypeOK, Busy
<1>2. Tail(todo[t]) \in Seq(Ops)
  BY <1>1
<1> QED
  BY <1>1, <1>2 DEF Done

LEMMA TurnKeeps ==
  ASSUME TypeOK, NEW t \in Task, NEW s \in Seq(Ops), Turn(t, s)
  PROVE  /\ todo' \in [Task -> Seq(Ops)] /\ todo'[t] = s
         /\ \A u \in Task : u # t => todo'[u] = todo[u]
  BY DEF TypeOK, Turn

\* The tasks of a publish are tasks, and different ones.
LEMMA Tasks ==
  ASSUME NEW p \in Publish
  PROVE  /\ \A r \in Role : <<p, r>> \in Task
         /\ Request(p) \in Task
         /\ \A q \in Publish : /\ Request(p) # <<q, "bridge">> /\ <<p, "watchdog">> # <<q, "bridge">>
                               /\ <<p, "callback">> # <<q, "bridge">>
                               /\ <<p, "bridge">> = <<q, "bridge">> => p = q
  BY DEF Task, Role, Request

LEMMA CallerNoBridge ==
  ASSUME NEW c \in Caller
  PROVE  c \in Task /\ \A q \in Publish : c # <<q, "bridge">>
<1>1. \A q \in Publish : <<q, "bridge">> \in Publish \X Role
  BY DEF Role
<1> QED
  BY <1>1, WhipAssumption DEF Task

\* Emptying the map kills what is in it.
LEMMA UnbridgedKills ==
  ASSUME TypeOK
  PROVE  /\ Unbridged \in [Publish -> {"unborn", "running", "killed", "exited"}]
         /\ \A p \in Publish : Unbridged[p] = "running" => ffmpeg[p] = "running" /\ child # p
<1>1. CASE child = None
  BY <1>1, WhipAssumption DEF TypeOK, Unbridged
<1>2. CASE child # None
  BY <1>2 DEF TypeOK, Unbridged, Killed
<1> QED
  BY <1>1, <1>2

\* A step of a task that is not about to put an ffmpeg into the map, in which no
\* ffmpeg starts and the child and the peer stay, strays nothing.
LEMMA Quiet ==
  ASSUME IInv, NEW t \in Task,
         \A u \in Task : u # t => todo'[u] = todo[u],
         (\A q \in Publish : t # <<q, "bridge">>) \/ ~At(t, "install"),
         \A q \in Publish : Running(q)' => Running(q),
         UNCHANGED <<child, peer>>
  PROVE  NoStray' /\ BridgeHasPeer'
<1>1. \A q \in Publish : At(<<q, "bridge">>, "install") => At(<<q, "bridge">>, "install")'
  BY Tasks DEF At, Busy, Role
<1>2. NoStray'
  BY <1>1 DEF IInv, NoStray
<1> QED
  BY <1>2 DEF IInv, BridgeHasPeer

\* The same of a step that leaves every list alone.
LEMMA Still ==
  ASSUME IInv, UNCHANGED <<todo, child, peer>>, \A q \in Publish : Running(q)' => Running(q)
  PROVE  NoStray' /\ BridgeHasPeer'
  BY DEF IInv, NoStray, BridgeHasPeer, At, Busy

-----------------------------------------------------------------------------
(* The invariant.                                                          *)

LEMMA InitIInv == Init => IInv
<1> SUFFICES ASSUME Init PROVE IInv
  OBVIOUS
<1>1. TypeOK
  <2>1. todo \in [Task -> Seq(Ops)]
    BY ScriptsTyped DEF Init
  <2>2. took \in [Task -> Publish \cup {None}]
    BY DEF Init
  <2>3. kind \in {"persistent", "guest"} /\ row \in BOOLEAN /\ events \in 0..MaxEvents
    BY WhipAssumption DEF Init
  <2> QED
    BY <2>1, <2>2, <2>3 DEF Init, TypeOK
<1>2. BridgeHasPeer /\ NoStray
  BY DEF Init, BridgeHasPeer, NoStray, Running
<1> QED
  BY <1>1, <1>2 DEF IInv

\* The request (whip.rs, guests.rs, start_ingest()).
LEMMA RequestKeeps == ASSUME IInv, NEW p \in Publish, Asked(p) \/ NegotiationFails(p) \/ Publishes(p) PROVE IInv'
<1> DEFINE t == Request(p)
<1>0. t \in Task /\ (\A q \in Publish : t # <<q, "bridge">>) /\ TypeOK
  BY Tasks DEF IInv
<1>e. Event => events' \in 0..MaxEvents
  BY <1>0, WhipAssumption DEF Event, TypeOK
<1>1. CASE Admit(p)
  <2>1. todo' \in [Task -> Seq(Ops)] /\ \A u \in Task : u # t => todo'[u] = todo[u]
    BY <1>0, <1>1, DoneKeeps, TurnKeeps, ScriptsTyped DEF Admit, At
  <2>2. NoStray' /\ BridgeHasPeer'
    BY <1>0, <1>1, <2>1, Quiet DEF Admit, Running
  <2> QED
    BY <1>0, <1>1, <2>1, <2>2 DEF IInv, TypeOK, Admit, books
<1>2. CASE AddGuest(p)
  <2>1. todo' \in [Task -> Seq(Ops)] /\ \A u \in Task : u # t => todo'[u] = todo[u]
    BY <1>0, <1>2, DoneKeeps DEF AddGuest, At
  <2>2. NoStray' /\ BridgeHasPeer'
    BY <1>0, <1>2, <2>1, Quiet DEF AddGuest, Running
  <2>3. guest' \in {"apart", "connecting", "connected", "left"} /\ row' \in BOOLEAN
    <3>1. row' = TRUE \/ row' = row
      BY <1>2, Zenon DEF AddGuest
    <3>2. guest' = guest \/ guest' = "connecting"
      BY <1>2, Zenon DEF AddGuest
    <3> QED
      BY <1>0, <3>1, <3>2 DEF TypeOK
  <2> QED
    BY <1>0, <1>2, <2>1, <2>2, <2>3 DEF IInv, TypeOK, AddGuest, books
<1>3. CASE GetRelay(p)
  <2>1. todo' \in [Task -> Seq(Ops)] /\ \A u \in Task : u # t => todo'[u] = todo[u]
    BY <1>0, <1>3, DoneKeeps DEF GetRelay, At
  <2>2. NoStray' /\ BridgeHasPeer'
    BY <1>0, <1>3, <2>1, Quiet DEF GetRelay, Running
  <2> QED
    BY <1>0, <1>3, <2>1, <2>2 DEF IInv, TypeOK, GetRelay
<1>4. CASE Answer(p)
  <2>1. todo' \in [Task -> Seq(Ops)] /\ \A u \in Task : u # t => todo'[u] = todo[u]
    BY <1>0, <1>4, DoneKeeps DEF Answer, At
  <2>2. NoStray' /\ BridgeHasPeer'
    BY <1>0, <1>4, <2>1, Quiet DEF Answer, Running
  <2> QED
    BY <1>0, <1>4, <2>1, <2>2 DEF IInv, TypeOK, Answer, books
<1>5. CASE Register(p)
  <2>1. <<p, "watchdog">> \in Task /\ Watch \in Seq(Ops) /\ Tail(todo[t]) \in Seq(Ops)
    <3>1. todo[t] \in Seq(Ops) /\ todo[t] # <<>>
      BY <1>0, <1>5 DEF TypeOK, Register, At, Busy
    <3>2. Watch \in Seq(Ops)
      BY <1>0, ScriptsTyped DEF Watch, TypeOK
    <3>3. Tail(todo[t]) \in Seq(Ops)
      BY <3>1
    <3>4. <<p, "watchdog">> \in Task
      BY Tasks DEF Role
    <3> QED
      BY <3>2, <3>3, <3>4
  <2>2. todo' = [todo EXCEPT ![t] = Tail(todo[t]), ![<<p, "watchdog">>] = Watch]
    BY <1>5, Tasks DEF Register, Request, Role
  <2>3. todo' \in [Task -> Seq(Ops)]
    BY <1>0, <2>1, <2>2 DEF TypeOK
  <2>4. \A q \in Publish : todo'[<<q, "bridge">>] = todo[<<q, "bridge">>]
    <3> SUFFICES ASSUME NEW q \in Publish PROVE todo'[<<q, "bridge">>] = todo[<<q, "bridge">>]
      OBVIOUS
    <3>1. <<q, "bridge">> \in Task /\ <<q, "bridge">> # t /\ <<q, "bridge">> # <<p, "watchdog">>
      BY Tasks DEF Role
    <3> QED
      BY <1>0, <2>1, <2>2, <3>1 DEF TypeOK
  <2>5. NoStray' /\ BridgeHasPeer'
    BY <1>5, <2>4, WhipAssumption DEF IInv, NoStray, BridgeHasPeer, Register, Running, At, Busy
  <2> QED
    BY <1>0, <1>5, <2>3, <2>5 DEF IInv, TypeOK, Register, books
<1>6. CASE NameSession(p)
  <2>1. todo' \in [Task -> Seq(Ops)] /\ \A u \in Task : u # t => todo'[u] = todo[u]
    BY <1>0, <1>6, DoneKeeps DEF NameSession, At
  <2>2. NoStray' /\ BridgeHasPeer'
    BY <1>0, <1>6, <2>1, Quiet DEF NameSession, Running
  <2> QED
    BY <1>0, <1>6, <2>1, <2>2 DEF IInv, TypeOK, NameSession, books
<1>7. CASE NegotiationFails(p)
  <2>1. todo' \in [Task -> Seq(Ops)] /\ \A u \in Task : u # t => todo'[u] = todo[u]
    BY <1>0, <1>7, TurnKeeps, ScriptsTyped DEF NegotiationFails, TypeOK
  <2>2. NoStray' /\ BridgeHasPeer'
    BY <1>0, <1>7, <2>1, Quiet DEF NegotiationFails, Running
  <2> QED
    BY <1>0, <1>e, <1>7, <2>1, <2>2 DEF IInv, TypeOK, NegotiationFails, books
<1>8. CASE Publishes(p)
  <2>1. todo' \in [Task -> Seq(Ops)] /\ \A u \in Task : u # t => todo'[u] = todo[u]
    BY <1>0, <1>8, TurnKeeps, ScriptsTyped DEF Publishes
  <2>2. NoStray' /\ BridgeHasPeer'
    BY <1>0, <1>8, <2>1, Quiet DEF Publishes, Running
  <2>3. alone' \in BOOLEAN
    BY <1>0, <1>8 DEF Publishes, TypeOK
  <2> QED
    BY <1>0, <1>e, <1>8, <2>1, <2>2, <2>3 DEF IInv, TypeOK, Publishes, books
<1> QED
  BY <1>1, <1>2, <1>3, <1>4, <1>5, <1>6, <1>7, <1>8 DEF Asked

\* The bridge: an ffmpeg goes from spawn() into the map, or is dropped
\* (start_ffmpeg()).
LEMMA BridgeKeeps == ASSUME IInv, NEW p \in Publish, Runs(p) PROVE IInv'
<1> DEFINE t == <<p, "bridge">>
<1>0. t \in Task /\ TypeOK /\ \A q \in Publish : q # p => <<q, "bridge">> \in Task /\ <<q, "bridge">> # t
  BY Tasks DEF IInv, Role
<1>e. Event => events' \in 0..MaxEvents
  BY <1>0, WhipAssumption DEF Event, TypeOK
<1>1. CASE VideoArrives(p)
  <2>1. /\ todo' \in [Task -> Seq(Ops)] /\ \A u \in Task : u # t => todo'[u] = todo[u]
        /\ todo'[t] = Bridge \/ todo'[t] = Stop(kind)
    BY <1>0, <1>1, TurnKeeps, ScriptsTyped DEF VideoArrives, TypeOK
  <2>2. \A q \in Publish : q # p => ffmpeg'[q] = ffmpeg[q] /\ todo'[<<q, "bridge">>] = todo[<<q, "bridge">>]
    BY <1>0, <1>1, <2>1 DEF VideoArrives, TypeOK
  <2>3. ffmpeg'[p] = "running" => todo'[t] = Bridge
    <3>1. CASE Turn(t, Bridge)
      BY <1>0, <3>1, TurnKeeps, ScriptsTyped
    <3>2. CASE ffmpeg' = [ffmpeg EXCEPT ![p] = "exited"]
      BY <1>0, <3>2 DEF TypeOK
    <3> QED
      BY <1>1, <3>1, <3>2 DEF VideoArrives
  <2>4. Bridge # <<>> /\ Head(Bridge) = "install"
    BY DEF Bridge
  <2>5. NoStray'
    BY <1>1, <2>2, <2>3, <2>4 DEF IInv, NoStray, VideoArrives, Running, At, Busy
  <2>6. BridgeHasPeer'
    BY <1>1 DEF IInv, BridgeHasPeer, VideoArrives
  <2>7. events' \in 0..MaxEvents
    BY <1>0, <1>e, <1>1 DEF VideoArrives, TypeOK
  <2>8. ffmpeg' \in [Publish -> {"unborn", "running", "killed", "exited"}]
    BY <1>0, <1>1 DEF VideoArrives, TypeOK
  <2>9. UNCHANGED <<kind, row, guest, peer, child, relay, feeds, header, status, session, conn, reader, took, alone, late>>
    BY <1>1 DEF VideoArrives, books
  <2> QED
    BY <1>0, <2>1, <2>5, <2>6, <2>7, <2>8, <2>9 DEF IInv, TypeOK
<1>2. CASE Install(p)
  <2>1. todo' \in [Task -> Seq(Ops)] /\ \A u \in Task : u # t => todo'[u] = todo[u]
    BY <1>0, <1>2, DoneKeeps, TurnKeeps, ScriptsTyped DEF Install, At, TypeOK
  <2>2. \A q \in Publish : q # p => todo'[<<q, "bridge">>] = todo[<<q, "bridge">>]
    BY <1>0, <2>1
  <2>3. CASE peer = None
    <3>1. ffmpeg' = Killed(p) /\ child' = child /\ peer' = peer
      BY <1>2, <2>3 DEF Install
    <3>2. ffmpeg' \in [Publish -> {"unborn", "running", "killed", "exited"}]
      BY <1>0, <3>1 DEF TypeOK, Killed
    <3>3. ffmpeg'[p] # "running" /\ \A q \in Publish : q # p => ffmpeg'[q] = ffmpeg[q]
      BY <1>0, <3>1 DEF TypeOK, Killed
    <3>4. NoStray' /\ BridgeHasPeer'
      BY <2>2, <3>1, <3>3 DEF IInv, NoStray, BridgeHasPeer, Running, At, Busy
    <3> QED
      BY <1>0, <1>2, <2>1, <3>1, <3>2, <3>4 DEF IInv, TypeOK, Install, books
  <2>4. CASE peer # None
    <3>1. ffmpeg' = Unbridged /\ child' = p /\ peer' = peer
      BY <1>2, <2>4 DEF Install
    <3>2. /\ ffmpeg' \in [Publish -> {"unborn", "running", "killed", "exited"}]
          /\ \A q \in Publish : ffmpeg'[q] = "running" => ffmpeg[q] = "running" /\ child # q
      BY <1>0, <3>1, UnbridgedKills
    <3>3. NoStray' /\ BridgeHasPeer'
      BY <2>2, <2>4, <3>1, <3>2 DEF IInv, NoStray, BridgeHasPeer, Running, At, Busy
    <3> QED
      BY <1>0, <1>2, <2>1, <3>1, <3>2, <3>3 DEF IInv, TypeOK, Install, books
  <2> QED
    BY <2>3, <2>4
<1>3. CASE Connecting(p)
  <2>1. todo' \in [Task -> Seq(Ops)] /\ (\A u \in Task : u # t => todo'[u] = todo[u]) /\ ~At(t, "install")
    BY <1>0, <1>3, DoneKeeps DEF Connecting, At
  <2>2. NoStray' /\ BridgeHasPeer'
    BY <1>0, <1>3, <2>1, Quiet DEF Connecting, Running
  <2> QED
    BY <1>0, <1>3, <2>1, <2>2 DEF IInv, TypeOK, Connecting
<1> QED
  BY <1>1, <1>2, <1>3 DEF Runs

\* The readers, the watchdogs and what happens to peers and ffmpegs by themselves.
LEMMA PublishKeeps ==
  ASSUME IInv, NEW p \in Publish, Reads(p) \/ Exits(p) \/ Watchdog(p) \/ Lost(p) \/ Closed(p) PROVE IInv'
<1>0. TypeOK /\ \A r \in Role : <<p, r>> \in Task
  BY Tasks DEF IInv
<1>e. Event => events' \in 0..MaxEvents
  BY <1>0, WhipAssumption DEF Event, TypeOK
<1>1. CASE Reads(p)
  <2>1. NoStray' /\ BridgeHasPeer'
    BY <1>1, Still DEF Reads, ReadFirst, Connected, StoreHeader, OutputEnds, Running
  <2>2. CASE ReadFirst(p)
    <3>1. /\ late' \in BOOLEAN /\ status' \in {"Disconnected", "Connecting", "Live"}
          /\ UNCHANGED <<kind, row, guest, peer, child, relay, feeds, header, session, conn, ffmpeg, todo, took, events, alone>>
      <4>1. late' = late \/ late' = (late \/ peer = None)
        BY <2>2, Zenon DEF ReadFirst
      <4> QED
        BY <1>0, <2>2, <4>1 DEF ReadFirst, TypeOK
    <3>2. reader' \in [Publish -> {"off", "header", "live", "frames", "playing", "gone"}
                                  \cup (IF kind = "guest" THEN {"connected"} ELSE {})]
      BY <1>0, <2>2 DEF ReadFirst, TypeOK
    <3> QED
      BY <1>0, <2>1, <3>1, <3>2 DEF IInv, TypeOK
  <2>3. CASE Connected(p)
    BY <1>0, <2>1, <2>3 DEF IInv, TypeOK, Connected, books
  <2>4. CASE StoreHeader(p)
    BY <1>0, <2>1, <2>4 DEF IInv, TypeOK, StoreHeader
  <2>5. CASE OutputEnds(p)
    BY <1>0, <2>1, <2>5 DEF IInv, TypeOK, OutputEnds, books
  <2> QED
    BY <1>1, <2>2, <2>3, <2>4, <2>5 DEF Reads
<1>2. CASE Exits(p)
  <2>1. ffmpeg' \in [Publish -> {"unborn", "running", "killed", "exited"}] /\ \A q \in Publish : Running(q)' => Running(q)
    BY <1>0, <1>2 DEF Exits, TypeOK, Running
  <2>2. NoStray' /\ BridgeHasPeer'
    BY <1>2, <2>1, Still DEF Exits
  <2> QED
    BY <1>0, <1>e, <1>2, <2>1, <2>2 DEF IInv, TypeOK, Exits, books
<1>3. CASE Watchdog(p)
  <2> DEFINE t == <<p, "watchdog">>
  <2>0. t \in Task /\ (\A q \in Publish : t # <<q, "bridge">>)
    BY Tasks DEF Role
  <2>1. todo' \in [Task -> Seq(Ops)] /\ \A u \in Task : u # t => todo'[u] = todo[u]
    BY <1>0, <1>3, <2>0, DoneKeeps, TurnKeeps, ScriptsTyped DEF Watchdog, Waits, At
  <2>2. NoStray' /\ BridgeHasPeer'
    BY <1>3, <2>0, <2>1, Quiet DEF Watchdog, Running
  <2> QED
    BY <1>0, <1>3, <2>1, <2>2 DEF IInv, TypeOK, Watchdog, books
<1>4. CASE Lost(p) \/ Closed(p)
  <2> DEFINE t == <<p, "callback">>
  <2>0. t \in Task /\ (\A q \in Publish : t # <<q, "bridge">>)
    BY Tasks DEF Role
  <2>1. todo' \in [Task -> Seq(Ops)] /\ \A u \in Task : u # t => todo'[u] = todo[u]
    BY <1>0, <1>4, <2>0, TurnKeeps, ScriptsTyped DEF Lost, Closed, TypeOK
  <2>2. NoStray' /\ BridgeHasPeer'
    BY <1>4, <2>0, <2>1, Quiet DEF Lost, Closed, Running
  <2>3. events' \in 0..MaxEvents
    BY <1>0, <1>e, <1>4 DEF Lost, Closed, TypeOK
  <2>4. /\ conn' \in [Publish -> {"none", "up", "down", "closing", "closed"}]
        /\ UNCHANGED <<kind, row, guest, peer, child, relay, feeds, header, status, session, ffmpeg, reader, took, alone, late>>
    BY <1>0, <1>4 DEF Lost, Closed, TypeOK, books
  <2> QED
    BY <1>0, <2>1, <2>2, <2>3, <2>4 DEF IInv, TypeOK
<1> QED
  BY <1>1, <1>2, <1>3, <1>4

\* stop_ingest() and stop_browser_source(): child and peer go together, or the child
\* alone.
LEMMA StoppingKeeps == ASSUME IInv, NEW t \in Task, Stopping(t) PROVE IInv'
<1>0. /\ TypeOK /\ Done(t) /\ Busy(t) /\ ~At(t, "install")
      /\ todo' \in [Task -> Seq(Ops)] /\ \A u \in Task : u # t => todo'[u] = todo[u]
  <2>1. Done(t) /\ Busy(t) /\ ~At(t, "install")
    BY DEF Stopping, Unbridge, Uninstall, Drop, DropGuest, Forget, At
  <2> QED
    BY <2>1, DoneKeeps DEF IInv
<1>1. CASE Unbridge(t) \/ Uninstall(t)
  <2>1. ffmpeg' = Unbridged /\ child' = None
    BY <1>1 DEF Unbridge, Uninstall
  <2>2. /\ ffmpeg' \in [Publish -> {"unborn", "running", "killed", "exited"}]
        /\ \A q \in Publish : ffmpeg'[q] = "running" => ffmpeg[q] = "running" /\ child # q
    BY <1>0, <2>1, UnbridgedKills
  <2>3. \A q \in Publish : At(<<q, "bridge">>, "install") => At(<<q, "bridge">>, "install")'
    BY <1>0, Tasks DEF At, Busy, Role
  <2>4. NoStray' /\ BridgeHasPeer'
    BY <2>1, <2>2, <2>3 DEF IInv, NoStray, BridgeHasPeer, Running
  <2>5. peer' \in Publish \cup {None} /\ took' \in [Task -> Publish \cup {None}]
    BY <1>0, <1>1 DEF Unbridge, Uninstall, TypeOK
  <2> QED
    BY <1>0, <1>1, <2>1, <2>2, <2>4, <2>5 DEF IInv, TypeOK, Unbridge, Uninstall, books
<1>2. CASE Drop(t)
  <2>1. NoStray' /\ BridgeHasPeer'
    BY <1>0, <1>2, Quiet DEF Drop, Running
  <2> QED
    BY <1>0, <1>2, <2>1 DEF IInv, TypeOK, Drop
<1>3. CASE DropGuest(t)
  <2>1. NoStray' /\ BridgeHasPeer'
    BY <1>0, <1>3, Quiet DEF DropGuest, Running
  <2>2. guest' \in {"apart", "connecting", "connected", "left"} /\ row' \in BOOLEAN
    <3>1. row' = FALSE \/ row' = row
      BY <1>3, Zenon DEF DropGuest
    <3>2. guest' = guest \/ guest' = "left"
      BY <1>3, Zenon DEF DropGuest
    <3> QED
      BY <1>0, <3>1, <3>2 DEF TypeOK
  <2> QED
    BY <1>0, <1>3, <2>1, <2>2 DEF IInv, TypeOK, DropGuest, books
<1>4. CASE Forget(t)
  <2>1. NoStray' /\ BridgeHasPeer'
    BY <1>0, <1>4, Quiet DEF Forget, Running
  <2>2. conn' \in [Publish -> {"none", "up", "down", "closing", "closed"}] /\ took' \in [Task -> Publish \cup {None}]
    BY <1>0, <1>4 DEF Forget, TypeOK
  <2> QED
    BY <1>0, <1>4, <2>1, <2>2 DEF IInv, TypeOK, Forget, books
<1> QED
  BY <1>1, <1>2, <1>3, <1>4 DEF Stopping

\* The calls, and the guest whose record leaves the source.
LEMMA CallKeeps == ASSUME IInv, NEW c \in Caller, Teardown(c) \/ DeleteSource(c) PROVE IInv'
<1>0. TypeOK /\ c \in Task /\ \A q \in Publish : c # <<q, "bridge">>
  BY CallerNoBridge DEF IInv
<1>1. ASSUME NEW s \in Seq(Ops), Call(c, s)
      PROVE  /\ todo' \in [Task -> Seq(Ops)] /\ (\A u \in Task : u # c => todo'[u] = todo[u])
             /\ events' \in 0..MaxEvents /\ alone' \in BOOLEAN
  BY <1>0, <1>1, TurnKeeps, WhipAssumption DEF Call, Event, TypeOK
<1>2. CASE Teardown(c)
  <2>1. Call(c, Stop("persistent"))
    BY <1>2 DEF Teardown
  <2>2. /\ todo' \in [Task -> Seq(Ops)] /\ (\A u \in Task : u # c => todo'[u] = todo[u])
        /\ events' \in 0..MaxEvents /\ alone' \in BOOLEAN
    BY <1>1, <2>1, ScriptsTyped
  <2>3. NoStray' /\ BridgeHasPeer'
    BY <1>0, <1>2, <2>2, Quiet DEF Teardown, Running
  <2> QED
    BY <1>0, <1>2, <2>2, <2>3 DEF IInv, TypeOK, Teardown, books
<1>3. CASE DeleteSource(c)
  <2>1. Call(c, Delete)
    BY <1>3 DEF DeleteSource
  <2>2. /\ todo' \in [Task -> Seq(Ops)] /\ (\A u \in Task : u # c => todo'[u] = todo[u])
        /\ events' \in 0..MaxEvents /\ alone' \in BOOLEAN
    BY <1>1, <2>1, ScriptsTyped
  <2>3. NoStray' /\ BridgeHasPeer'
    BY <1>0, <1>3, <2>2, Quiet DEF DeleteSource, Running
  <2> QED
    BY <1>0, <1>3, <2>2, <2>3 DEF IInv, TypeOK, DeleteSource, books
<1> QED
  BY <1>2, <1>3

LEMMA UnlinkedKeeps == ASSUME IInv, Unlinked PROVE IInv'
<1>1. NoStray' /\ BridgeHasPeer'
  BY Still DEF Unlinked, Running
<1>2. events' \in 0..MaxEvents
  BY WhipAssumption DEF IInv, Unlinked, Event, TypeOK
<1> QED
  BY <1>1, <1>2 DEF IInv, TypeOK, Unlinked, books

\* The inductive invariant: types, the bridge that has a peer, and where an ffmpeg
\* that runs is to be found (webrtc_ingest.rs 559-572, 684-696).
THEOREM Inductive == Spec => []IInv
<1>1. IInv /\ [Next]_vars => IInv'
  <2> SUFFICES ASSUME IInv, [Next]_vars PROVE IInv'
    OBVIOUS
  <2>1. CASE UNCHANGED vars
    BY <2>1 DEF IInv, TypeOK, BridgeHasPeer, NoStray, Running, At, Busy, vars, books
  <2>2. CASE Next
    BY <2>2, RequestKeeps, BridgeKeeps, PublishKeeps, StoppingKeeps, CallKeeps, UnlinkedKeeps DEF Next
  <2> QED
    BY <2>1, <2>2
<1> QED
  BY <1>1, InitIInv, PTL DEF Spec

\* Every variable keeps its type; a persistent source's reader never marks a guest
\* (webrtc_ingest.rs 664).
THEOREM TypeCorrect == Spec => []TypeOK
<1>1. IInv => TypeOK
  BY DEF IInv
<1> QED
  BY <1>1, Inductive, PTL

\* The paired lock works, for any number of publishes, watchdogs, callbacks and
\* deletions at a time: no ffmpeg is in the map of a source without a peer
\* (webrtc_ingest.rs 560-572, 684-696).
THEOREM BridgedHavePeers == Spec => []BridgeHasPeer
<1>1. IInv => BridgeHasPeer
  BY DEF IInv
<1> QED
  BY <1>1, Inductive, PTL

\* No ffmpeg is leaked, however publishes overlap (webrtc_ingest.rs 532-571).
THEOREM NoneStrays == Spec => []NoStray
<1>1. IInv => NoStray
  BY DEF IInv
<1> QED
  BY <1>1, Inductive, PTL

-----------------------------------------------------------------------------
(* What tasks have still to do.                                            *)

\* An operation is still to be done.
Has(s, op) == \E i \in 1..Len(s) : s[i] = op

\* What a request does to publish, what a bridge does, and what takes it all down again.
Building == {"ifNotBusy", "ifNoPeer", "addRow", "link", "relay", "answer", "register", "session"}
Bridging == {"install", "connecting"}
Clearing == {"unbridge", "dropFeed", "disconnected", "deleteRow", "unlink", "forget", "uninstall"}

\* What stop_ingest() does behind taking the child and the peer.
Cleanup(k) == {"dropFeed", "disconnected", "forget"} \cup (IF k = "guest" THEN {"deleteRow", "unlink"} ELSE {})

\* The second of a pair is still to come, and the second of a pair has been.
Follows(k) == {<<"ifNotBusy", "ifNoPeer">>, <<"addRow", "register">>, <<"link", "register">>,
               <<"relay", "register">>, <<"answer", "register">>} \cup ({"unbridge"} \X Cleanup(k))
Barred     == {<<"relay", "ifNoPeer">>, <<"answer", "answer">>, <<"register", "answer">>,
               <<"register", "register">>,
               <<"register", "relay">>, <<"register", "ifNotBusy">>, <<"unbridge", "unbridge">>,
               <<"connecting", "install">>, <<"connecting", "connecting">>}
InOrder(s, k) ==
  /\ \A f \in Follows(k) : \A i \in 1..Len(s) : s[i] = f[1] => \E j \in 1..Len(s) : i < j /\ s[j] = f[2]
  /\ \A f \in Barred : \A i, j \in 1..Len(s) : s[i] = f[1] /\ i < j => s[j] # f[2]

\* A task still has to do op, and does not wait for the time to do it; a request has still to
\* put its peer into the map; and it has passed the check that there is none.
Owes(t, op)    == Has(todo[t], op) /\ ~Waits(t)
Registering(p) == Has(todo[Request(p)], "register")
Admitted(p)    == Registering(p) /\ ~Has(todo[Request(p)], "ifNoPeer")

\* What a persistent source's request does alone, and what a guest's does.
Checks == {"ifNotBusy", "ifNoPeer", "session"}
Adds   == {"addRow", "link"}

\* A list takes down, or it is what its task begins with, or the rest of that.
Fits(t, s) ==
  \/ s \in Seq(Clearing)
  \/ \E p \in Publish : \/ t = Request(p) /\ s \in Seq(Building \ (IF kind = "guest" THEN Checks ELSE Adds))
                        \/ t = <<p, "bridge">> /\ s \in Seq(Bridging)
                        \/ t = <<p, "watchdog">> /\ s = Watch
\* What there is to do fits, and is in order.
Lists == \A t \in Task : Fits(t, todo[t]) /\ InOrder(todo[t], kind)

\* How far a publish has got: its connection, then the map and the watchdog, then ffmpeg and
\* the bridge, then the reader.
Staged(p) ==
  /\ Has(todo[Request(p)], "answer") => conn[p] = "none"
  /\ Registering(p) /\ ~Has(todo[Request(p)], "answer") => conn[p] # "none"
  /\ peer = p => conn[p] # "none"
  /\ conn[p] = "none" \/ Registering(p) => ffmpeg[p] = "unborn" /\ ~Busy(<<p, "watchdog">>)
  /\ Busy(<<p, "bridge">>) => ffmpeg[p] # "unborn" /\ reader[p] = "off"
  /\ reader[p] # "off" => ffmpeg[p] # "unborn"
  /\ Busy(<<p, "callback">>) => conn[p] \notin {"none", "up"}
Stages == \A p \in Publish : Staged(p)

\* A peer that has been taken is still to be closed.
Takes == \A t \in Task : took[t] # None =>
            conn[took[t]] # "none" /\ Has(todo[t], "forget") /\ ~Has(todo[t], "unbridge")
\* Only a relay that is there is fed, a guest has no session, and before anything has
\* happened nothing has begun.
Begins == /\ ~relay => feeds = {}
          /\ kind = "guest" => session = {}
          /\ events = 0 => status # "Live" /\ \A p \in Publish : ~Busy(Request(p)) /\ conn[p] = "none"

\* Somebody is to do op, or will be: there is a peer whose end is still to come, or a
\* request that will have one.
Debt(op) == peer # None \/ (\E p \in Publish : Admitted(p)) \/ \E t \in Task : Owes(t, op)
\* What there is somebody is to clear.
ToClear ==
  /\ relay                               => Debt("dropFeed")
  /\ header /\ ~late                     => Debt("dropFeed")
  /\ status # "Disconnected" /\ ~late    => Debt("disconnected")
  /\ kind = "guest" /\ row                => Debt("deleteRow")
  /\ kind = "guest" /\ Linked             => Debt("unlink")

-----------------------------------------------------------------------------
(* As long as nobody overlaps.                                             *)

\* Something of a publish is left; that is so of one at a time, and no call is on while a
\* request is.
Mine(p) == ~Settled(p) \/ peer = p \/ \E t \in Task : took[t] = p
One     == \A p, q \in Publish : Mine(p) /\ Mine(q) => p = q
Apart   == \A p \in Publish, c \in Caller : Busy(Request(p)) => ~Busy(c)
\* Somebody will take the peer.
Doomed  == \E t \in Task : Owes(t, "unbridge")
\* A publish has dropped before it had an ffmpeg, and will have none; who goes on to clear
\* the relay and the state without having the peer to take was there before its video.
Unfit(p) == ffmpeg[p] = "unborn" /\ conn[p] \notin {"none", "up"}
Spent(t) == ~Has(todo[t], "unbridge") /\ (Has(todo[t], "dropFeed") \/ Has(todo[t], "disconnected"))
SpentEarly == peer # None => \A t \in Task : Spent(t) => Unfit(peer)
\* Who has found the source not live finds it so until its peer is there; a live source's
\* peer has its output read; one that has dropped is taken, or was never bridged; and it is
\* watched until the source is live.
NotYetLive == \A p \in Publish : Registering(p) /\ ~Has(todo[Request(p)], "ifNotBusy") => status # "Live"
LiveIsRead == peer # None /\ status = "Live" => reader[peer] # "off"
DownIsDoomed == peer # None /\ conn[peer] = "down" => Doomed \/ ffmpeg[peer] = "unborn"
Watched == peer # None => Doomed \/ Waits(<<peer, "watchdog">>) \/ (status = "Live" /\ conn[peer] # "down")
\* A peer that does not feed the relay is taken, or will have nothing to feed it with; and
\* that of a request feeds it from its lookup on.
Fed == peer # None /\ peer \notin feeds => Doomed \/ Unfit(peer)
Feeds == \A p \in Publish : Registering(p) /\ ~Has(todo[Request(p)], "relay") =>
             p \in feeds \/ conn[p] \notin {"none", "up"}
InTurns == One /\ Apart /\ SpentEarly /\ NotYetLive /\ LiveIsRead /\ DownIsDoomed /\ Watched /\ Fed /\ Feeds
Turns == alone => InTurns

\* One list behind another.
LEMMA Joined ==
  ASSUME NEW S, NEW s \in Seq(S), NEW t \in Seq(S), NEW u \in Seq(S), Len(u) = Len(s) + Len(t),
         \A i \in 1..Len(s) : u[i] = s[i], \A i \in 1..Len(t) : u[Len(s) + i] = t[i]
  PROVE  s \o t = u
<1>1. s \o t \in Seq(S) /\ Len(s \o t) = Len(u)
  OBVIOUS
<1>2. \A i \in 1..Len(u) : (s \o t)[i] = u[i]
  <2> SUFFICES ASSUME NEW i \in 1..Len(u) PROVE (s \o t)[i] = u[i]
    OBVIOUS
  <2>1. CASE i <= Len(s)
    BY <2>1
  <2>2. CASE i > Len(s)
    <3>1. i - Len(s) \in 1..Len(t) /\ Len(s) + (i - Len(s)) = i
      BY <2>2
    <3>2. (s \o t)[i] = t[i - Len(s)]
      BY <2>2
    <3> QED
      BY <3>1, <3>2
  <2> QED
    BY <2>1, <2>2
<1> QED
  BY <1>1, <1>2

\* The scripts, operation by operation.
LEMMA Scripts ==
  /\ Whip = <<"ifNotBusy", "ifNoPeer", "relay", "answer", "register", "session">>
  /\ Join = <<"addRow", "link", "relay", "answer", "register">>
  /\ Stop("persistent") = <<"unbridge", "dropFeed", "disconnected", "forget">>
  /\ Stop("guest") = <<"unbridge", "dropFeed", "disconnected", "deleteRow", "unlink", "forget">>
  /\ Delete = <<"dropFeed", "dropFeed", "unbridge", "dropFeed", "disconnected", "deleteRow", "unlink", "forget",
                "uninstall", "dropFeed", "disconnected">>
<1>1. <<"ifNotBusy", "ifNoPeer">> \o <<"relay", "answer", "register">>
        = <<"ifNotBusy", "ifNoPeer", "relay", "answer", "register">>
  <2> DEFINE s == <<"ifNotBusy", "ifNoPeer">>
             t == <<"relay", "answer", "register">>
             u == <<"ifNotBusy", "ifNoPeer", "relay", "answer", "register">>
  <2>1. s \in Seq(Ops) /\ t \in Seq(Ops) /\ u \in Seq(Ops) /\ Len(s) = 2 /\ Len(t) = 3 /\ Len(u) = 5
    BY DEF Ops
  <2>2. (\A i \in 1..2 : u[i] = s[i]) /\ \A i \in 1..3 : u[2 + i] = t[i]
    OBVIOUS
  <2> HIDE DEF s, t, u
  <2>3. /\ Len(u) = Len(s) + Len(t)
        /\ \A i \in 1..Len(s) : u[i] = s[i]
        /\ \A i \in 1..Len(t) : u[Len(s) + i] = t[i]
    BY <2>1, <2>2
  <2>4. s \o t = u
    BY <2>1, <2>3, Joined
  <2> QED
    BY <2>4 DEF s, t, u
<1>2. <<"ifNotBusy", "ifNoPeer", "relay", "answer", "register">> \o <<"session">>
        = <<"ifNotBusy", "ifNoPeer", "relay", "answer", "register", "session">>
  <2> DEFINE s == <<"ifNotBusy", "ifNoPeer", "relay", "answer", "register">>
             t == <<"session">>
             u == <<"ifNotBusy", "ifNoPeer", "relay", "answer", "register", "session">>
  <2>1. s \in Seq(Ops) /\ t \in Seq(Ops) /\ u \in Seq(Ops) /\ Len(s) = 5 /\ Len(t) = 1 /\ Len(u) = 6
    BY DEF Ops
  <2>2. (\A i \in 1..5 : u[i] = s[i]) /\ \A i \in 1..1 : u[5 + i] = t[i]
    OBVIOUS
  <2> HIDE DEF s, t, u
  <2>3. /\ Len(u) = Len(s) + Len(t)
        /\ \A i \in 1..Len(s) : u[i] = s[i]
        /\ \A i \in 1..Len(t) : u[Len(s) + i] = t[i]
    BY <2>1, <2>2
  <2>4. s \o t = u
    BY <2>1, <2>3, Joined
  <2> QED
    BY <2>4 DEF s, t, u
<1>3. <<"addRow", "link">> \o <<"relay", "answer", "register">>
        = <<"addRow", "link", "relay", "answer", "register">>
  <2> DEFINE s == <<"addRow", "link">>
             t == <<"relay", "answer", "register">>
             u == <<"addRow", "link", "relay", "answer", "register">>
  <2>1. s \in Seq(Ops) /\ t \in Seq(Ops) /\ u \in Seq(Ops) /\ Len(s) = 2 /\ Len(t) = 3 /\ Len(u) = 5
    BY DEF Ops
  <2>2. (\A i \in 1..2 : u[i] = s[i]) /\ \A i \in 1..3 : u[2 + i] = t[i]
    OBVIOUS
  <2> HIDE DEF s, t, u
  <2>3. /\ Len(u) = Len(s) + Len(t)
        /\ \A i \in 1..Len(s) : u[i] = s[i]
        /\ \A i \in 1..Len(t) : u[Len(s) + i] = t[i]
    BY <2>1, <2>2
  <2>4. s \o t = u
    BY <2>1, <2>3, Joined
  <2> QED
    BY <2>4 DEF s, t, u
<1>4. <<"unbridge", "dropFeed", "disconnected">> \o <<"deleteRow", "unlink">>
        = <<"unbridge", "dropFeed", "disconnected", "deleteRow", "unlink">>
  <2> DEFINE s == <<"unbridge", "dropFeed", "disconnected">>
             t == <<"deleteRow", "unlink">>
             u == <<"unbridge", "dropFeed", "disconnected", "deleteRow", "unlink">>
  <2>1. s \in Seq(Ops) /\ t \in Seq(Ops) /\ u \in Seq(Ops) /\ Len(s) = 3 /\ Len(t) = 2 /\ Len(u) = 5
    BY DEF Ops
  <2>2. (\A i \in 1..3 : u[i] = s[i]) /\ \A i \in 1..2 : u[3 + i] = t[i]
    OBVIOUS
  <2> HIDE DEF s, t, u
  <2>3. /\ Len(u) = Len(s) + Len(t)
        /\ \A i \in 1..Len(s) : u[i] = s[i]
        /\ \A i \in 1..Len(t) : u[Len(s) + i] = t[i]
    BY <2>1, <2>2
  <2>4. s \o t = u
    BY <2>1, <2>3, Joined
  <2> QED
    BY <2>4 DEF s, t, u
<1>5. <<"unbridge", "dropFeed", "disconnected", "deleteRow", "unlink">> \o <<"forget">>
        = <<"unbridge", "dropFeed", "disconnected", "deleteRow", "unlink", "forget">>
  <2> DEFINE s == <<"unbridge", "dropFeed", "disconnected", "deleteRow", "unlink">>
             t == <<"forget">>
             u == <<"unbridge", "dropFeed", "disconnected", "deleteRow", "unlink", "forget">>
  <2>1. s \in Seq(Ops) /\ t \in Seq(Ops) /\ u \in Seq(Ops) /\ Len(s) = 5 /\ Len(t) = 1 /\ Len(u) = 6
    BY DEF Ops
  <2>2. (\A i \in 1..5 : u[i] = s[i]) /\ \A i \in 1..1 : u[5 + i] = t[i]
    OBVIOUS
  <2> HIDE DEF s, t, u
  <2>3. /\ Len(u) = Len(s) + Len(t)
        /\ \A i \in 1..Len(s) : u[i] = s[i]
        /\ \A i \in 1..Len(t) : u[Len(s) + i] = t[i]
    BY <2>1, <2>2
  <2>4. s \o t = u
    BY <2>1, <2>3, Joined
  <2> QED
    BY <2>4 DEF s, t, u
<1>6. <<"unbridge", "dropFeed", "disconnected">> \o <<>>
        = <<"unbridge", "dropFeed", "disconnected">>
  <2> DEFINE s == <<"unbridge", "dropFeed", "disconnected">>
             t == <<>>
             u == <<"unbridge", "dropFeed", "disconnected">>
  <2>1. s \in Seq(Ops) /\ t \in Seq(Ops) /\ u \in Seq(Ops) /\ Len(s) = 3 /\ Len(t) = 0 /\ Len(u) = 3
    BY DEF Ops
  <2>2. (\A i \in 1..3 : u[i] = s[i]) /\ \A i \in 1..0 : u[3 + i] = t[i]
    OBVIOUS
  <2> HIDE DEF s, t, u
  <2>3. /\ Len(u) = Len(s) + Len(t)
        /\ \A i \in 1..Len(s) : u[i] = s[i]
        /\ \A i \in 1..Len(t) : u[Len(s) + i] = t[i]
    BY <2>1, <2>2
  <2>4. s \o t = u
    BY <2>1, <2>3, Joined
  <2> QED
    BY <2>4 DEF s, t, u
<1>7. <<"unbridge", "dropFeed", "disconnected">> \o <<"forget">>
        = <<"unbridge", "dropFeed", "disconnected", "forget">>
  <2> DEFINE s == <<"unbridge", "dropFeed", "disconnected">>
             t == <<"forget">>
             u == <<"unbridge", "dropFeed", "disconnected", "forget">>
  <2>1. s \in Seq(Ops) /\ t \in Seq(Ops) /\ u \in Seq(Ops) /\ Len(s) = 3 /\ Len(t) = 1 /\ Len(u) = 4
    BY DEF Ops
  <2>2. (\A i \in 1..3 : u[i] = s[i]) /\ \A i \in 1..1 : u[3 + i] = t[i]
    OBVIOUS
  <2> HIDE DEF s, t, u
  <2>3. /\ Len(u) = Len(s) + Len(t)
        /\ \A i \in 1..Len(s) : u[i] = s[i]
        /\ \A i \in 1..Len(t) : u[Len(s) + i] = t[i]
    BY <2>1, <2>2
  <2>4. s \o t = u
    BY <2>1, <2>3, Joined
  <2> QED
    BY <2>4 DEF s, t, u
<1>8. <<"dropFeed", "dropFeed">> \o <<"unbridge", "dropFeed", "disconnected", "deleteRow", "unlink", "forget">>
        = <<"dropFeed", "dropFeed", "unbridge", "dropFeed", "disconnected", "deleteRow", "unlink", "forget">>
  <2> DEFINE s == <<"dropFeed", "dropFeed">>
             t == <<"unbridge", "dropFeed", "disconnected", "deleteRow", "unlink", "forget">>
             u == <<"dropFeed", "dropFeed", "unbridge", "dropFeed", "disconnected", "deleteRow", "unlink", "forget">>
  <2>1. s \in Seq(Ops) /\ t \in Seq(Ops) /\ u \in Seq(Ops) /\ Len(s) = 2 /\ Len(t) = 6 /\ Len(u) = 8
    BY DEF Ops
  <2>2. (\A i \in 1..2 : u[i] = s[i]) /\ \A i \in 1..6 : u[2 + i] = t[i]
    OBVIOUS
  <2> HIDE DEF s, t, u
  <2>3. /\ Len(u) = Len(s) + Len(t)
        /\ \A i \in 1..Len(s) : u[i] = s[i]
        /\ \A i \in 1..Len(t) : u[Len(s) + i] = t[i]
    BY <2>1, <2>2
  <2>4. s \o t = u
    BY <2>1, <2>3, Joined
  <2> QED
    BY <2>4 DEF s, t, u
<1>9. <<"dropFeed", "dropFeed", "unbridge", "dropFeed", "disconnected", "deleteRow", "unlink", "forget">> \o <<"uninstall", "dropFeed", "disconnected">>
        = <<"dropFeed", "dropFeed", "unbridge", "dropFeed", "disconnected", "deleteRow", "unlink", "forget", "uninstall", "dropFeed", "disconnected">>
  <2> DEFINE s == <<"dropFeed", "dropFeed", "unbridge", "dropFeed", "disconnected", "deleteRow", "unlink", "forget">>
             t == <<"uninstall", "dropFeed", "disconnected">>
             u == <<"dropFeed", "dropFeed", "unbridge", "dropFeed", "disconnected", "deleteRow", "unlink", "forget", "uninstall", "dropFeed", "disconnected">>
  <2>1. s \in Seq(Ops) /\ t \in Seq(Ops) /\ u \in Seq(Ops) /\ Len(s) = 8 /\ Len(t) = 3 /\ Len(u) = 11
    BY DEF Ops
  <2>2. (\A i \in 1..8 : u[i] = s[i]) /\ \A i \in 1..3 : u[8 + i] = t[i]
    OBVIOUS
  <2> HIDE DEF s, t, u
  <2>3. /\ Len(u) = Len(s) + Len(t)
        /\ \A i \in 1..Len(s) : u[i] = s[i]
        /\ \A i \in 1..Len(t) : u[Len(s) + i] = t[i]
    BY <2>1, <2>2
  <2>4. s \o t = u
    BY <2>1, <2>3, Joined
  <2> QED
    BY <2>4 DEF s, t, u
<1> QED
  BY <1>1, <1>2, <1>3, <1>4, <1>5, <1>6, <1>7, <1>8, <1>9, Zenon DEF Whip, Join, Ingest, Stop, Delete

\* A list that begins with taking the child and the peer, and goes on to clean up, is
\* in order.
LEMMA StopInOrder ==
  ASSUME NEW s, NEW k, Len(s) \in Nat, s[1] = "unbridge",
         \A i \in 1..Len(s) : i > 1 => s[i] \notin {"unbridge"} \cup Building \cup Bridging,
         \A op \in Cleanup(k) : \E j \in 1..Len(s) : 1 < j /\ s[j] = op
  PROVE  InOrder(s, k)
<1>1. /\ \A f \in Follows(k) : f[1] \in {"unbridge"} \cup Building /\ (f[1] = "unbridge" => f[2] \in Cleanup(k))
      /\ \A f \in Barred : f[1] \in {"unbridge"} \cup Building \cup Bridging /\ (f[1] = "unbridge" => f[2] = "unbridge")
  BY DEF Follows, Barred, Building, Bridging
<1>2. \A f \in Follows(k) : \A i \in 1..Len(s) : s[i] = f[1] => \E j \in 1..Len(s) : i < j /\ s[j] = f[2]
  <2> SUFFICES ASSUME NEW f \in Follows(k), NEW i \in 1..Len(s), s[i] = f[1]
               PROVE  \E j \in 1..Len(s) : i < j /\ s[j] = f[2]
    OBVIOUS
  <2>1. i = 1 /\ f[1] = "unbridge"
    BY <1>1
  <2> QED
    BY <1>1, <2>1
<1>3. \A f \in Barred : \A i, j \in 1..Len(s) : s[i] = f[1] /\ i < j => s[j] # f[2]
  <2> SUFFICES ASSUME NEW f \in Barred, NEW i \in 1..Len(s), NEW j \in 1..Len(s), s[i] = f[1], i < j
               PROVE  s[j] # f[2]
    OBVIOUS
  <2>1. i = 1 /\ f[1] = "unbridge"
    BY <1>1
  <2> QED
    BY <1>1, <2>1
<1> QED
  BY <1>2, <1>3 DEF InOrder

\* The scripts are of their kinds, and in order.
LEMMA ScriptsInOrder ==
  ASSUME kind \in {"persistent", "guest"}
  PROVE  /\ Whip \in Seq(Building \ Adds) /\ Join \in Seq(Building \ Checks) /\ Bridge \in Seq(Bridging)
         /\ Stop(kind) \in Seq(Clearing) /\ Delete \in Seq(Clearing)
         /\ \A s \in {<<>>, Whip, Join, Bridge, Stop(kind), Delete} : InOrder(s, kind)
         /\ \A s \in {Whip, Join} : Has(s, "answer") /\ Has(s, "relay")
         /\ Has(Whip, "ifNotBusy") /\ Has(Stop(kind), "unbridge") /\ Has(Delete, "unbridge")
         /\ \A op \in Cleanup(kind) : Has(Stop(kind), op)
<1> USE DEF InOrder, Follows, Barred, Cleanup, Has
<1>1. Whip \in Seq(Building \ Adds) /\ Has(Whip, "answer") /\ Has(Whip, "relay") /\ Has(Whip, "ifNotBusy")
  BY Scripts DEF Building, Adds
<1>2. InOrder(Whip, kind)
  BY Scripts
<1>3. Join \in Seq(Building \ Checks) /\ Has(Join, "answer") /\ Has(Join, "relay")
  BY Scripts DEF Building, Checks
<1>4. InOrder(Join, kind)
  BY Scripts
<1>5. Bridge \in Seq(Bridging) /\ InOrder(Bridge, kind)
  BY DEF Bridge, Bridging
<1>6. InOrder(<<>>, kind)
  OBVIOUS
<1>7. Stop(kind) \in Seq(Clearing) /\ Has(Stop(kind), "unbridge") /\ InOrder(Stop(kind), kind)
      /\ \A op \in Cleanup(kind) : Has(Stop(kind), op)
  <2> DEFINE s == Stop(kind)
  <2>1. /\ s \in Seq(Clearing) /\ s[1] = "unbridge" /\ Len(s) \in {4, 6}
        /\ \A i \in 1..Len(s) : i > 1 => s[i] \notin {"unbridge"} \cup Building \cup Bridging
        /\ \A op \in Cleanup(kind) : \E j \in 1..Len(s) : 1 < j /\ s[j] = op
    <3>1. CASE kind = "guest"
      <4>1. /\ Stop(kind) \in Seq(Clearing) /\ Len(s) = 6 /\ s[1] = "unbridge" /\ s[2] = "dropFeed"
            /\ s[3] = "disconnected" /\ s[4] = "deleteRow" /\ s[5] = "unlink" /\ s[6] = "forget"
        <5>1. Stop(kind) = <<"unbridge", "dropFeed", "disconnected", "deleteRow", "unlink", "forget">>
          BY <3>1, Scripts
        <5> QED
          BY <5>1 DEF Clearing
      <4> HIDE DEF s
      <4>2. \A i \in 1..Len(s) : i > 1 => s[i] \notin {"unbridge"} \cup Building \cup Bridging
        BY <4>1 DEF Building, Bridging
      <4>3. \A op \in Cleanup(kind) : \E j \in 1..Len(s) : 1 < j /\ s[j] = op
        BY <3>1, <4>1
      <4> QED
        BY <4>1, <4>2, <4>3 DEF s
    <3>2. CASE kind = "persistent"
      <4>1. /\ Stop(kind) \in Seq(Clearing) /\ Len(s) = 4 /\ s[1] = "unbridge" /\ s[2] = "dropFeed"
            /\ s[3] = "disconnected" /\ s[4] = "forget"
        <5>1. Stop(kind) = <<"unbridge", "dropFeed", "disconnected", "forget">>
          BY <3>2, Scripts
        <5> QED
          BY <5>1 DEF Clearing
      <4> HIDE DEF s
      <4>2. \A i \in 1..Len(s) : i > 1 => s[i] \notin {"unbridge"} \cup Building \cup Bridging
        BY <4>1 DEF Building, Bridging
      <4>3. \A op \in Cleanup(kind) : \E j \in 1..Len(s) : 1 < j /\ s[j] = op
        BY <3>2, <4>1
      <4> QED
        BY <4>1, <4>2, <4>3 DEF s
    <3> QED
      BY <3>1, <3>2
  <2> HIDE DEF s, InOrder, Follows, Barred, Cleanup
  <2>2. InOrder(s, kind)
    BY <2>1, StopInOrder
  <2>3. 1 \in 1..Len(s) /\ Len(s) \in Nat
    BY <2>1
  <2>4. Has(s, "unbridge") /\ \A op \in Cleanup(kind) : Has(s, op)
    BY <2>1, <2>3
  <2> QED
    BY <2>1, <2>2, <2>4 DEF s
<1>8. Delete \in Seq(Clearing) /\ Has(Delete, "unbridge")
  BY Scripts DEF Clearing
<1>9. InOrder(Delete, kind)
  BY Scripts
<1> HIDE DEF InOrder, Follows, Barred, Cleanup, Has
<1> QED
  BY <1>1, <1>2, <1>3, <1>4, <1>5, <1>6, <1>7, <1>8, <1>9, Zenon

\* Done operations leave the rest: only the first is taken away, and what goes with
\* it comes, or does not come, behind it.
LEMMA RestOf ==
  ASSUME NEW S, NEW s \in Seq(S), s # <<>>, NEW k
  PROVE  /\ Head(s) \in S /\ Tail(s) \in Seq(S)
         /\ \A op : Has(s, op) <=> (Head(s) = op \/ Has(Tail(s), op))
         /\ InOrder(s, k) => /\ InOrder(Tail(s), k)
                             /\ \A f \in Follows(k) : Has(s, f[1]) => Has(s, f[2])
                             /\ \A f \in Follows(k) : Head(s) = f[1] => Has(Tail(s), f[2])
                             /\ \A f \in Barred : Head(s) = f[1] => ~Has(Tail(s), f[2])
<1>1. /\ Tail(s) \in Seq(S) /\ Len(Tail(s)) = Len(s) - 1 /\ Len(s) \in Nat /\ Len(s) > 0
      /\ \A i \in 1..Len(Tail(s)) : Tail(s)[i] = s[i + 1]
      /\ Head(s) = s[1] /\ Head(s) \in S
  OBVIOUS
<1>2. \A j \in 1..Len(s) : 1 < j => j - 1 \in 1..Len(Tail(s)) /\ Tail(s)[j - 1] = s[j]
  <2> SUFFICES ASSUME NEW j \in 1..Len(s), 1 < j PROVE j - 1 \in 1..Len(Tail(s)) /\ Tail(s)[j - 1] = s[j]
    OBVIOUS
  <2>1. j - 1 \in 1..Len(Tail(s)) /\ (j - 1) + 1 = j
    BY <1>1
  <2> QED
    BY <1>1, <2>1
<1>3. ASSUME NEW op PROVE Has(s, op) <=> (Head(s) = op \/ Has(Tail(s), op))
  <2>1. ASSUME Has(s, op), Head(s) # op PROVE Has(Tail(s), op)
    <3>1. PICK i \in 1..Len(s) : s[i] = op
      BY <2>1 DEF Has
    <3>2. 1 < i
      BY <1>1, <2>1, <3>1
    <3> QED
      BY <1>2, <3>1, <3>2 DEF Has
  <2>2. ASSUME Has(Tail(s), op) PROVE Has(s, op)
    <3>1. PICK i \in 1..Len(Tail(s)) : Tail(s)[i] = op
      BY <2>2 DEF Has
    <3>2. i + 1 \in 1..Len(s) /\ s[i + 1] = op
      BY <1>1, <3>1
    <3> QED
      BY <3>2 DEF Has
  <2>3. Has(s, Head(s))
    BY <1>1 DEF Has
  <2> QED
    BY <2>1, <2>2, <2>3
<1>4. ASSUME InOrder(s, k)
      PROVE  /\ \A f \in Follows(k) : Has(s, f[1]) => Has(s, f[2])
             /\ \A f \in Follows(k) : Head(s) = f[1] => Has(Tail(s), f[2])
             /\ \A f \in Barred : Head(s) = f[1] => ~Has(Tail(s), f[2])
  <2>1. ASSUME NEW f \in Follows(k), Has(s, f[1]) PROVE Has(s, f[2])
    BY <1>4, <2>1 DEF InOrder, Has
  <2>2. ASSUME NEW f \in Follows(k), Head(s) = f[1] PROVE Has(Tail(s), f[2])
    <3>1. PICK j \in 1..Len(s) : 1 < j /\ s[j] = f[2]
      BY <1>1, <1>4, <2>2 DEF InOrder
    <3> QED
      BY <1>2, <3>1 DEF Has
  <2>3. ASSUME NEW f \in Barred, Head(s) = f[1], Has(Tail(s), f[2]) PROVE FALSE
    <3>1. PICK i \in 1..Len(Tail(s)) : Tail(s)[i] = f[2]
      BY <2>3 DEF Has
    <3>2. i + 1 \in 1..Len(s) /\ 1 \in 1..Len(s) /\ 1 < i + 1 /\ s[i + 1] = f[2]
      BY <1>1, <3>1
    <3> QED
      BY <1>1, <1>4, <2>3, <3>2 DEF InOrder
  <2> QED
    BY <2>1, <2>2, <2>3
<1>5. ASSUME InOrder(s, k) PROVE InOrder(Tail(s), k)
  <2>1. ASSUME NEW f \in Follows(k), NEW i \in 1..Len(Tail(s)), Tail(s)[i] = f[1]
        PROVE  \E j \in 1..Len(Tail(s)) : i < j /\ Tail(s)[j] = f[2]
    <3>1. i + 1 \in 1..Len(s) /\ s[i + 1] = f[1]
      BY <1>1, <2>1
    <3>2. PICK j \in 1..Len(s) : i + 1 < j /\ s[j] = f[2]
      BY <1>5, <3>1 DEF InOrder
    <3>3. 1 < j /\ i < j - 1
      BY <1>1, <3>2
    <3> QED
      BY <1>2, <3>2, <3>3
  <2>2. ASSUME NEW f \in Barred, NEW i \in 1..Len(Tail(s)), NEW j \in 1..Len(Tail(s)), Tail(s)[i] = f[1], i < j
        PROVE  Tail(s)[j] # f[2]
    <3>1. i + 1 \in 1..Len(s) /\ j + 1 \in 1..Len(s) /\ i + 1 < j + 1 /\ s[i + 1] = f[1]
      BY <1>1, <2>2
    <3>2. s[j + 1] # f[2]
      BY <1>5, <3>1 DEF InOrder
    <3> QED
      BY <1>1, <3>2
  <2> QED
    BY <2>1, <2>2 DEF InOrder
<1> QED
  BY <1>1, <1>3, <1>4, <1>5

\* What is still to do is of the list's kind.
LEMMA HasOf ==
  ASSUME NEW S, NEW s \in Seq(S), NEW op, Has(s, op)
  PROVE  op \in S /\ s # <<>>
<1>1. PICK i \in 1..Len(s) : s[i] = op
  BY DEF Has
<1> QED
  BY <1>1

LEMMA HasNone == \A op : ~Has(<<>>, op)
  BY DEF Has

-----------------------------------------------------------------------------
(* What a step does to the lists.                                          *)

\* What begins to wait is behind its check.
LEMMA WatchIs ==
  ASSUME kind \in {"persistent", "guest"}
  PROVE  /\ Watch \in Seq(Ops) /\ Watch # <<>> /\ Head(Watch) = "ifNotLive" /\ Tail(Watch) = Stop(kind)
         /\ InOrder(Watch, kind)
         /\ \A op : Has(Watch, op) <=> op = "ifNotLive" \/ Has(Stop(kind), op)
<1>1. Stop(kind) \in Seq(Ops) /\ InOrder(Stop(kind), kind)
  BY ScriptsInOrder, ScriptsTyped
<1>2. ASSUME NEW s \in Seq(Ops)
      PROVE  LET w == <<"ifNotLive">> \o s
             IN  w \in Seq(Ops) /\ Len(w) = Len(s) + 1 /\ w[1] = "ifNotLive" /\ Tail(w) = s /\ Head(w) = "ifNotLive"
  <2> DEFINE w == <<"ifNotLive">> \o s
  <2>1. <<"ifNotLive">> \in Seq(Ops) /\ Len(<<"ifNotLive">>) = 1 /\ <<"ifNotLive">>[1] = "ifNotLive"
    BY DEF Ops
  <2>2. w \in Seq(Ops) /\ Len(w) = 1 + Len(s) /\ w[1] = "ifNotLive" /\ \A i \in 1..Len(s) : w[1 + i] = s[i]
    <3>1. ASSUME NEW r \in Seq(Ops), Len(r) = 1
          PROVE  /\ r \o s \in Seq(Ops) /\ Len(r \o s) = 1 + Len(s) /\ (r \o s)[1] = r[1]
                 /\ \A i \in 1..Len(s) : (r \o s)[1 + i] = s[i]
      <4>1. r \o s \in Seq(Ops) /\ Len(r \o s) = Len(r) + Len(s) /\ Len(s) \in Nat
        OBVIOUS
      <4>2. \A i \in 1..Len(r) : (r \o s)[i] = r[i]
        OBVIOUS
      <4>3. \A i \in 1..Len(s) : (r \o s)[Len(r) + i] = s[i]
        <5> SUFFICES ASSUME NEW i \in 1..Len(s) PROVE (r \o s)[Len(r) + i] = s[i]
          OBVIOUS
        <5>1. Len(r) + i \in 1..(Len(r) + Len(s)) /\ Len(r) + i > Len(r) /\ (Len(r) + i) - Len(r) = i
          BY <3>1, <4>1
        <5> QED
          BY <4>1, <5>1
      <4> QED
        BY <3>1, <4>1, <4>2, <4>3
    <3> QED
      BY <2>1, <3>1
  <2> HIDE DEF w
  <2>3. w # <<>> /\ Tail(w) \in Seq(Ops) /\ Len(Tail(w)) = Len(s) /\ Head(w) = w[1]
        /\ \A i \in 1..Len(s) : Tail(w)[i] = s[i]
    BY <2>2
  <2>4. Tail(w) = s
    BY <2>3
  <2> QED
    BY <2>2, <2>3, <2>4 DEF w
<1>3. Watch \in Seq(Ops) /\ Watch # <<>> /\ Head(Watch) = "ifNotLive" /\ Tail(Watch) = Stop(kind)
      /\ Watch[1] = "ifNotLive" /\ Len(Watch) \in Nat
  <2>1. Watch = <<"ifNotLive">> \o Stop(kind)
    BY DEF Watch
  <2>2. Watch \in Seq(Ops) /\ Len(Watch) = Len(Stop(kind)) + 1 /\ Head(Watch) = "ifNotLive"
        /\ Tail(Watch) = Stop(kind) /\ Watch[1] = "ifNotLive"
    BY <1>1, <1>2, <2>1
  <2> QED
    BY <1>1, <2>2
<1>4. InOrder(Watch, kind)
  <2>1. \A f \in Follows(kind) \cup Barred : f[1] # "ifNotLive"
    BY DEF Follows, Barred
  <2>2. \A j \in 1..Len(Watch) : Watch[j] # "ifNotLive" => 1 < j
    BY <1>3
  <2>3. \A j \in 1..Len(Watch) : 1 < j => j - 1 \in 1..Len(Stop(kind)) /\ Stop(kind)[j - 1] = Watch[j]
    <3> SUFFICES ASSUME NEW j \in 1..Len(Watch), 1 < j
                 PROVE  j - 1 \in 1..Len(Stop(kind)) /\ Stop(kind)[j - 1] = Watch[j]
      OBVIOUS
    <3>1. Len(Tail(Watch)) = Len(Watch) - 1 /\ \A i \in 1..Len(Tail(Watch)) : Tail(Watch)[i] = Watch[i + 1]
      BY <1>3
    <3>2. j - 1 \in 1..Len(Tail(Watch)) /\ (j - 1) + 1 = j
      BY <3>1
    <3> QED
      BY <1>3, <3>1, <3>2
  <2>4. \A i \in 1..Len(Stop(kind)) : i + 1 \in 1..Len(Watch) /\ Watch[i + 1] = Stop(kind)[i]
    BY <1>3
  <2>5. ASSUME NEW f \in Follows(kind), NEW i \in 1..Len(Watch), Watch[i] = f[1]
        PROVE  \E j \in 1..Len(Watch) : i < j /\ Watch[j] = f[2]
    <3>1. i - 1 \in 1..Len(Stop(kind)) /\ Stop(kind)[i - 1] = f[1]
      BY <2>1, <2>2, <2>3, <2>5
    <3>2. PICK j \in 1..Len(Stop(kind)) : i - 1 < j /\ Stop(kind)[j] = f[2]
      BY <1>1, <3>1 DEF InOrder
    <3>3. j + 1 \in 1..Len(Watch) /\ i < j + 1 /\ Watch[j + 1] = f[2]
      BY <2>4, <3>2
    <3> QED
      BY <3>3
  <2>6. ASSUME NEW f \in Barred, NEW i \in 1..Len(Watch), NEW j \in 1..Len(Watch), Watch[i] = f[1], i < j
        PROVE  Watch[j] # f[2]
    <3>1. i - 1 \in 1..Len(Stop(kind)) /\ Stop(kind)[i - 1] = f[1]
      BY <2>1, <2>2, <2>3, <2>6
    <3>2. 1 < j /\ j - 1 \in 1..Len(Stop(kind)) /\ i - 1 < j - 1 /\ Stop(kind)[j - 1] = Watch[j]
      BY <2>3, <2>6
    <3> QED
      BY <1>1, <3>1, <3>2 DEF InOrder
  <2> QED
    BY <2>5, <2>6 DEF InOrder
<1>5. \A op : Has(Watch, op) <=> (Head(Watch) = op \/ Has(Tail(Watch), op))
  BY <1>3, RestOf
<1> QED
  BY <1>3, <1>4, <1>5, Zenon

\* An operation of a kind is in a list of that kind.
LEMMA OfKind ==
  ASSUME TypeOK, Lists, NEW t \in Task, NEW op, Has(todo[t], op)
  PROVE  /\ Busy(t)
         /\ op \in Clearing /\ ~Waits(t) => todo[t] \in Seq(Clearing)
         /\ op \in Building => /\ \E p \in Publish : t = Request(p)
                               /\ todo[t] \in Seq(Building)
                               /\ kind = "guest" => op \notin Checks
                               /\ kind # "guest" => op \notin Adds
         /\ op \in Bridging => /\ \E p \in Publish : t = <<p, "bridge">>
                               /\ todo[t] \in Seq(Bridging)
         /\ op = "ifNotLive" => todo[t] = Watch /\ \E p \in Publish : t = <<p, "watchdog">>
<1>1. Building \cap Clearing = {} /\ Building \cap Bridging = {} /\ Clearing \cap Bridging = {}
      /\ "ifNotLive" \notin Building \cup Clearing \cup Bridging
  BY DEF Building, Clearing, Bridging
<1>2. todo[t] \in Seq(Ops) /\ Fits(t, todo[t]) /\ kind \in {"persistent", "guest"}
  BY DEF TypeOK, Lists
<1>3. Busy(t)
  BY <1>2, HasOf DEF Busy
<1>4. CASE todo[t] \in Seq(Clearing)
  <2>1. op \in Clearing
    BY <1>4, HasOf
  <2> QED
    BY <1>1, <1>3, <1>4, <2>1
<1>5. ASSUME NEW p \in Publish, t = Request(p), todo[t] \in Seq(Building \ (IF kind = "guest" THEN Checks ELSE Adds))
      PROVE  /\ op \in Building /\ todo[t] \in Seq(Building)
             /\ kind = "guest" => op \notin Checks
             /\ kind # "guest" => op \notin Adds
  <2>1. op \in Building \ (IF kind = "guest" THEN Checks ELSE Adds)
    BY <1>5, HasOf
  <2>2. todo[t] \in Seq(Building)
    BY <1>5
  <2> QED
    BY <2>1, <2>2
<1>6. ASSUME NEW p \in Publish, t = <<p, "bridge">>, todo[t] \in Seq(Bridging)
      PROVE  op \in Bridging
  BY <1>6, HasOf
<1>7. ASSUME NEW p \in Publish, t = <<p, "watchdog">>, todo[t] = Watch
      PROVE  Waits(t) /\ op \in {"ifNotLive"} \cup Clearing
  <2>1. Stop(kind) \in Seq(Clearing)
    BY <1>2, ScriptsInOrder
  <2>2. Head(Watch) = "ifNotLive" /\ (op = "ifNotLive" \/ Has(Stop(kind), op))
    BY <1>2, <1>7, WatchIs
  <2>3. Waits(t)
    BY <1>3, <1>7, <2>2 DEF Waits, At
  <2> QED
    BY <2>1, <2>2, <2>3, HasOf
<1> QED
  <2>1. CASE \E p \in Publish : t = Request(p) /\ todo[t] \in Seq(Building \ (IF kind = "guest" THEN Checks ELSE Adds))
    BY <1>1, <1>3, <1>5, <2>1
  <2>2. CASE \E p \in Publish : t = <<p, "bridge">> /\ todo[t] \in Seq(Bridging)
    BY <1>1, <1>3, <1>6, <2>2
  <2>3. CASE \E p \in Publish : t = <<p, "watchdog">> /\ todo[t] = Watch
    BY <1>1, <1>3, <1>7, <2>3
  <2> QED
    BY <1>2, <1>4, <2>1, <2>2, <2>3 DEF Fits

\* Nobody has anything to do who is not busy, and what comes first is to be done.
LEMMA Heads ==
  ASSUME TypeOK, NEW t \in Task
  PROVE  /\ ~Busy(t) => \A op : ~Has(todo[t], op)
         /\ \A op : At(t, op) => Has(todo[t], op) /\ Busy(t)
<1>1. todo[t] \in Seq(Ops)
  BY DEF TypeOK
<1>2. ASSUME NEW op, At(t, op) PROVE Has(todo[t], op)
  BY <1>1, <1>2, RestOf DEF At, Busy
<1> QED
  BY <1>2, HasNone DEF At, Busy

\* What goes with an operation comes with it.
LEMMA Orders ==
  ASSUME TypeOK, Lists, NEW t \in Task, NEW f \in Follows(kind), Has(todo[t], f[1])
  PROVE  Has(todo[t], f[2])
<1>1. todo[t] \in Seq(Ops) /\ todo[t] # <<>> /\ InOrder(todo[t], kind)
  BY HasNone DEF TypeOK, Lists
<1> QED
  BY <1>1, RestOf

\* The rest of a list is a list.
LEMMA DoneFits ==
  ASSUME TypeOK, Lists, NEW t \in Task, Busy(t)
  PROVE  Fits(t, Tail(todo[t])) /\ InOrder(Tail(todo[t]), kind)
<1>1. todo[t] \in Seq(Ops) /\ todo[t] # <<>> /\ Fits(t, todo[t]) /\ InOrder(todo[t], kind)
      /\ kind \in {"persistent", "guest"}
  BY DEF TypeOK, Lists, Busy
<1>2. InOrder(Tail(todo[t]), kind)
  BY <1>1, RestOf
<1>s. \A S : todo[t] \in Seq(S) => Tail(todo[t]) \in Seq(S)
  BY <1>1
<1>3. CASE todo[t] \in Seq(Clearing)
  BY <1>2, <1>s, <1>3, Zenon DEF Fits
<1>4. ASSUME NEW p \in Publish, t = Request(p), todo[t] \in Seq(Building \ (IF kind = "guest" THEN Checks ELSE Adds))
      PROVE  Fits(t, Tail(todo[t]))
  BY <1>s, <1>4 DEF Fits
<1>5. ASSUME NEW p \in Publish, t = <<p, "bridge">>, todo[t] \in Seq(Bridging)
      PROVE  Fits(t, Tail(todo[t]))
  BY <1>s, <1>5 DEF Fits
<1>6. CASE todo[t] = Watch
  <2>1. Stop(kind) \in Seq(Clearing)
    BY <1>1, ScriptsInOrder
  <2>2. Tail(Watch) = Stop(kind)
    BY <1>1, WatchIs
  <2> QED
    BY <1>2, <1>6, <2>1, <2>2, Zenon DEF Fits
<1> QED
  BY <1>1, <1>2, <1>3, <1>4, <1>5, <1>6 DEF Fits

\* What fits does so whatever the step, for the kind stays.
LEMMA FitsStays ==
  ASSUME kind' = kind, NEW u \in Task
  PROVE  (Fits(u, todo[u]) /\ InOrder(todo[u], kind))' <=> Fits(u, todo'[u]) /\ InOrder(todo'[u], kind)
<1>1. Watch' = Watch
  BY DEF Watch
<1>2. Fits(u, todo[u])' <=> Fits(u, todo'[u])
  BY <1>1 DEF Fits, Request
<1>3. InOrder(todo[u], kind)' <=> InOrder(todo'[u], kind)
  BY DEF InOrder
<1> QED
  BY <1>2, <1>3

\* A task that has done its first operation, or begins with a list that is fit for it.
LEMMA TurnLists ==
  ASSUME TypeOK, Lists, NEW t \in Task, NEW s, Turn(t, s), Fits(t, s), InOrder(s, kind), kind' = kind
  PROVE  /\ Lists'
         /\ todo'[t] = s /\ \A u \in Task : u # t => todo'[u] = todo[u]
<1>1. todo'[t] = s /\ \A u \in Task : u # t => todo'[u] = todo[u]
  BY DEF Turn, TypeOK
<1>2. \A u \in Task : Fits(u, todo'[u]) /\ InOrder(todo'[u], kind)
  BY <1>1 DEF Lists
<1>3. \A u \in Task : (Fits(u, todo[u]) /\ InOrder(todo[u], kind))'
  BY <1>2, FitsStays
<1> QED
  BY <1>1, <1>3 DEF Lists

\* A task that has done its first operation has the rest still to do.
LEMMA DoneLists ==
  ASSUME TypeOK, Lists, NEW t \in Task, Busy(t), Done(t), kind' = kind
  PROVE  /\ Lists'
         /\ todo'[t] = Tail(todo[t]) /\ \A u \in Task : u # t => todo'[u] = todo[u]
         /\ \A op : Has(todo[t], op) <=> (At(t, op) \/ Has(todo'[t], op))
         /\ \A f \in Follows(kind) : At(t, f[1]) => Has(todo'[t], f[2])
         /\ \A f \in Barred : At(t, f[1]) => ~Has(todo'[t], f[2])
<1>1. Turn(t, Tail(todo[t]))
  BY DEF Done, Turn
<1>2. Lists' /\ todo'[t] = Tail(todo[t]) /\ \A u \in Task : u # t => todo'[u] = todo[u]
  BY <1>1, DoneFits, TurnLists
<1>3. todo[t] \in Seq(Ops) /\ todo[t] # <<>> /\ InOrder(todo[t], kind)
  BY DEF TypeOK, Lists, Busy
<1>4. /\ \A op : Has(todo[t], op) <=> (Head(todo[t]) = op \/ Has(Tail(todo[t]), op))
      /\ \A f \in Follows(kind) : Head(todo[t]) = f[1] => Has(Tail(todo[t]), f[2])
      /\ \A f \in Barred : Head(todo[t]) = f[1] => ~Has(Tail(todo[t]), f[2])
  BY <1>3, RestOf
<1> QED
  BY <1>2, <1>4, Zenon DEF At, Busy

\* The tasks of publishes and callers.
LEMMA TasksAre ==
  /\ \A p \in Publish : /\ Request(p) \in Task /\ <<p, "watchdog">> \in Task
                        /\ <<p, "bridge">> \in Task /\ <<p, "callback">> \in Task
  /\ \A p, q \in Publish : /\ (Request(p) = Request(q) => p = q)
                           /\ (<<p, "watchdog">> = <<q, "watchdog">> => p = q)
                           /\ (<<p, "bridge">> = <<q, "bridge">> => p = q)
                           /\ (<<p, "callback">> = <<q, "callback">> => p = q)
                           /\ Request(p) # <<q, "watchdog">> /\ Request(p) # <<q, "bridge">> /\ Request(p) # <<q, "callback">>
                           /\ <<p, "watchdog">> # <<q, "bridge">> /\ <<p, "watchdog">> # <<q, "callback">>
                           /\ <<p, "bridge">> # <<q, "callback">>
  /\ \A c \in Caller : c \in Task /\ \A p \in Publish : c # Request(p) /\ c # <<p, "watchdog">> /\ c # <<p, "bridge">> /\ c # <<p, "callback">>
<1>1. \A p \in Publish : /\ Request(p) \in Task /\ <<p, "watchdog">> \in Task
                         /\ <<p, "bridge">> \in Task /\ <<p, "callback">> \in Task
                         /\ Request(p) \in Publish \X Role /\ <<p, "watchdog">> \in Publish \X Role
                         /\ <<p, "bridge">> \in Publish \X Role /\ <<p, "callback">> \in Publish \X Role
  BY DEF Task, Role, Request
<1>2. \A c \in Caller : c \in Task /\ c \notin Publish \X Role
  BY WhipAssumption DEF Task
<1>3. \A p, q \in Publish :
        /\ (Request(p) = Request(q) => p = q)
        /\ (<<p, "watchdog">> = <<q, "watchdog">> => p = q)
        /\ (<<p, "bridge">> = <<q, "bridge">> => p = q)
        /\ (<<p, "callback">> = <<q, "callback">> => p = q)
        /\ Request(p) # <<q, "watchdog">> /\ Request(p) # <<q, "bridge">> /\ Request(p) # <<q, "callback">>
        /\ <<p, "watchdog">> # <<q, "bridge">> /\ <<p, "watchdog">> # <<q, "callback">>
        /\ <<p, "bridge">> # <<q, "callback">>
  BY DEF Request
<1> QED
  BY <1>1, <1>2, <1>3

\* The lists stay lists, in every step.
LEMMA ListsKept ==
  ASSUME IInv, Lists, [Next]_vars, kind = "guest" => session = {}
  PROVE  Lists' /\ kind' = kind
<1>0. TypeOK /\ kind \in {"persistent", "guest"}
  BY DEF IInv, TypeOK
<1>d. ASSUME NEW t \in Task, NEW op, At(t, op), Done(t), kind' = kind PROVE Lists'
  BY <1>0, <1>d, Heads, DoneLists, Zenon
<1>t. ASSUME NEW t \in Task, NEW s, Turn(t, s), Fits(t, s), InOrder(s, kind), kind' = kind PROVE Lists'
  BY <1>0, <1>t, TurnLists
<1>u. ASSUME todo' = todo, kind' = kind PROVE Lists'
  <2>1. \A u \in Task : (Fits(u, todo[u]) /\ InOrder(todo[u], kind))'
    BY <1>u, FitsStays DEF Lists
  <2> QED
    BY <2>1 DEF Lists
<1>s. /\ Stop(kind) \in Seq(Clearing) /\ InOrder(Stop(kind), kind)
      /\ Delete \in Seq(Clearing) /\ InOrder(Delete, kind) /\ InOrder(<<>>, kind) /\ <<>> \in Seq(Clearing)
      /\ \A t \in Task, s \in Seq(Clearing) : Fits(t, s)
  BY <1>0, ScriptsInOrder DEF Fits
<1>1. ASSUME NEW p \in Publish, Publishes(p) PROVE Lists' /\ kind' = kind
  <2>1. kind' = kind /\ \/ Turn(Request(p), Whip) /\ kind # "guest"
                        \/ Turn(Request(p), Join) /\ kind = "guest"
    BY <1>1 DEF Publishes
  <2>2. kind = "guest" => Fits(Request(p), Join)
    BY <1>0, ScriptsInOrder DEF Fits
  <2>3. kind # "guest" => Fits(Request(p), Whip)
    BY <1>0, ScriptsInOrder DEF Fits
  <2>4. InOrder(Whip, kind) /\ InOrder(Join, kind)
    BY <1>0, ScriptsInOrder
  <2> QED
    BY <1>t, <2>1, <2>2, <2>3, <2>4, TasksAre
<1>2. ASSUME NEW p \in Publish, Admit(p) PROVE Lists' /\ kind' = kind
  <2>1. kind' = kind /\ \/ \E op : At(Request(p), op) /\ Done(Request(p))
                        \/ Turn(Request(p), <<>>)
    BY <1>2, Zenon DEF Admit
  <2> QED
    BY <1>d, <1>s, <1>t, <2>1, TasksAre
<1>3. ASSUME NEW p \in Publish,
             AddGuest(p) \/ GetRelay(p) \/ Answer(p) \/ NameSession(p)
      PROVE  Lists' /\ kind' = kind
  <2>1. kind' = kind /\ \E op : At(Request(p), op) /\ Done(Request(p))
    BY <1>3, Zenon DEF AddGuest, GetRelay, Answer, NameSession
  <2> QED
    BY <1>d, <2>1, TasksAre
<1>4. ASSUME NEW p \in Publish, Register(p) PROVE Lists' /\ kind' = kind
  <2> DEFINE t == Request(p)
             w == <<p, "watchdog">>
  <2>0. t \in Task /\ w \in Task /\ t # w
    BY TasksAre
  <2>1. kind' = kind /\ At(t, "register") /\ todo' = [todo EXCEPT ![t] = Tail(todo[t]), ![w] = Watch]
    BY <1>4, <2>0 DEF Register
  <2>2. todo'[t] = Tail(todo[t]) /\ todo'[w] = Watch /\ \A u \in Task : u # t /\ u # w => todo'[u] = todo[u]
    BY <1>0, <2>0, <2>1 DEF TypeOK
  <2>3. Fits(t, Tail(todo[t])) /\ InOrder(Tail(todo[t]), kind)
    BY <1>0, <2>0, <2>1, DoneFits DEF At
  <2>4. Fits(w, Watch) /\ InOrder(Watch, kind)
    BY <1>0, WatchIs DEF Fits
  <2>5. \A u \in Task : Fits(u, todo'[u]) /\ InOrder(todo'[u], kind)
    BY <2>2, <2>3, <2>4 DEF Lists
  <2>6. \A u \in Task : (Fits(u, todo[u]) /\ InOrder(todo[u], kind))'
    BY <2>1, <2>5, FitsStays
  <2> QED
    BY <2>1, <2>6 DEF Lists
<1>5. ASSUME NEW p \in Publish, NegotiationFails(p) PROVE Lists' /\ kind' = kind
  BY <1>5, <1>s, <1>t, TasksAre DEF NegotiationFails
<1>6. ASSUME NEW p \in Publish, Watchdog(p) PROVE Lists' /\ kind' = kind
  <2>1. kind' = kind /\ At(<<p, "watchdog">>, "ifNotLive")
        /\ (Turn(<<p, "watchdog">>, <<>>) \/ Done(<<p, "watchdog">>))
    BY <1>6 DEF Watchdog, Waits
  <2> QED
    BY <1>d, <1>s, <1>t, <2>1, TasksAre
<1>7. ASSUME NEW p \in Publish, VideoArrives(p) \/ Install(p) \/ Connecting(p) PROVE Lists' /\ kind' = kind
  <2> DEFINE t == <<p, "bridge">>
  <2>1. kind' = kind /\ (Turn(t, Bridge) \/ Turn(t, Stop(kind)) \/ (Done(t) /\ \E op : At(t, op)))
    BY <1>7, Zenon DEF VideoArrives, Install, Connecting
  <2>2. Fits(t, Bridge) /\ InOrder(Bridge, kind)
    BY <1>0, ScriptsInOrder DEF Fits
  <2> QED
    BY <1>d, <1>s, <1>t, <2>1, <2>2, TasksAre
<1>8. ASSUME NEW p \in Publish, Reads(p) \/ Exits(p) PROVE Lists' /\ kind' = kind
  BY <1>8, <1>u DEF Reads, ReadFirst, Connected, StoreHeader, OutputEnds, Exits
<1>9. ASSUME NEW p \in Publish, Lost(p) \/ Closed(p) PROVE Lists' /\ kind' = kind
  BY <1>9, <1>s, <1>t, TasksAre DEF Lost, Closed
<1>10. ASSUME NEW t \in Task, Stopping(t) PROVE Lists' /\ kind' = kind
  <2>1. kind' = kind /\ Done(t) /\ \E op : At(t, op)
    BY <1>10, Zenon DEF Stopping, Unbridge, Uninstall, Drop, DropGuest, Forget
  <2> QED
    BY <1>d, <2>1
<1>11. ASSUME NEW c \in Caller, Teardown(c) \/ DeleteSource(c) PROVE Lists' /\ kind' = kind
  <2>1. kind' = kind /\ (Turn(c, Stop(kind)) \/ Turn(c, Delete))
    BY <1>0, <1>11 DEF Teardown, DeleteSource, Call
  <2> QED
    BY <1>s, <1>t, <2>1, TasksAre
<1>12. CASE Unlinked
  BY <1>12, <1>u DEF Unlinked
<1>13. CASE UNCHANGED vars
  BY <1>13, <1>u DEF vars
<1> QED
  BY <1>1, <1>2, <1>3, <1>4, <1>5, <1>6, <1>7, <1>8, <1>9, <1>10, <1>11, <1>12, <1>13 DEF Next, Asked, Runs

-----------------------------------------------------------------------------
(* How far a publish has got.                                              *)

\* A task that has done what comes first.
LEMMA StepDone ==
  ASSUME TypeOK, Lists, NEW t \in Task, NEW op, At(t, op), Done(t), kind' = kind
  PROVE  /\ Lists' /\ \A u \in Task : u # t => todo'[u] = todo[u]
         /\ \A o : Has(todo[t], o) <=> (o = op \/ Has(todo'[t], o))
         /\ \A f \in Follows(kind) : f[1] = op => Has(todo'[t], f[2])
         /\ \A f \in Barred : f[1] = op => ~Has(todo'[t], f[2])
         /\ \A u \in Task : (Busy(u)' => Busy(u)) /\ (\A o : Has(todo'[u], o) => Has(todo[u], o))
<1>1. Busy(t) /\ \A o : At(t, o) <=> o = op
  BY DEF At
<1>2. /\ Lists' /\ \A u \in Task : u # t => todo'[u] = todo[u]
      /\ \A o : Has(todo[t], o) <=> (At(t, o) \/ Has(todo'[t], o))
      /\ \A f \in Follows(kind) : At(t, f[1]) => Has(todo'[t], f[2])
      /\ \A f \in Barred : At(t, f[1]) => ~Has(todo'[t], f[2])
  BY <1>1, DoneLists
<1>3. \A u \in Task : Busy(u)' => Busy(u)
  BY <1>1, <1>2 DEF Busy
<1>4. \A u \in Task : \A o : Has(todo'[u], o) => Has(todo[u], o)
  <2> TAKE u \in Task
  <2>1. CASE u = t
    BY <1>2, <2>1, Zenon
  <2>2. CASE u # t
    BY <1>2, <2>2, Zenon
  <2> QED
    BY <2>1, <2>2
<1>5. \A o : Has(todo[t], o) <=> (o = op \/ Has(todo'[t], o))
  BY <1>1, <1>2, Zenon
<1>6. \A f \in Follows(kind) : f[1] = op => Has(todo'[t], f[2])
  BY <1>1, <1>2, Zenon
<1>7. \A f \in Barred : f[1] = op => ~Has(todo'[t], f[2])
  BY <1>1, <1>2, Zenon
<1> QED
  BY <1>2, <1>3, <1>4, <1>5, <1>6, <1>7, Zenon

\* A task that begins with a list, or gives one up for it.
LEMMA StepTurns ==
  ASSUME TypeOK, NEW t \in Task, NEW s, Turn(t, s)
  PROVE  todo'[t] = s /\ \A u \in Task : u # t => todo'[u] = todo[u]
  BY DEF Turn, TypeOK

\* A step that lets no publish get further, and no connection change.
LEMMA StagesStay ==
  ASSUME Stages, conn' = conn, peer' \in {peer, None},
         \A p \in Publish :
           /\ Has(todo'[Request(p)], "answer") => Has(todo[Request(p)], "answer")
           /\ Has(todo'[Request(p)], "register") =>
                Has(todo[Request(p)], "register") /\ (Has(todo[Request(p)], "answer") => Has(todo'[Request(p)], "answer"))
           /\ Busy(<<p, "watchdog">>)' => Busy(<<p, "watchdog">>)
           /\ Busy(<<p, "bridge">>)' => Busy(<<p, "bridge">>)
           /\ Busy(<<p, "callback">>)' => Busy(<<p, "callback">>)
           /\ ffmpeg'[p] = "unborn" <=> ffmpeg[p] = "unborn"
           /\ reader'[p] = "off" <=> reader[p] = "off"
  PROVE  Stages'
<1> SUFFICES ASSUME NEW p \in Publish PROVE Staged(p)'
  BY DEF Stages
<1>1. Staged(p) /\ p # None
  BY WhipAssumption DEF Stages
<1> QED
  BY <1>1 DEF Staged, Registering

\* A done operation lets no publish get further.
LEMMA DoneStays ==
  ASSUME TypeOK, Lists, NEW t \in Task, NEW op, At(t, op), Done(t), kind' = kind, op \notin {"answer", "register"}
  PROVE  \A p \in Publish :
           /\ Has(todo'[Request(p)], "answer") => Has(todo[Request(p)], "answer")
           /\ Has(todo'[Request(p)], "register") =>
                Has(todo[Request(p)], "register") /\ (Has(todo[Request(p)], "answer") => Has(todo'[Request(p)], "answer"))
           /\ Busy(<<p, "watchdog">>)' => Busy(<<p, "watchdog">>)
           /\ Busy(<<p, "bridge">>)' => Busy(<<p, "bridge">>)
           /\ Busy(<<p, "callback">>)' => Busy(<<p, "callback">>)
<1> TAKE p \in Publish
<1>1. /\ \A u \in Task : u # t => todo'[u] = todo[u]
      /\ \A o : Has(todo[t], o) <=> (o = op \/ Has(todo'[t], o))
      /\ \A u \in Task : (Busy(u)' => Busy(u)) /\ (\A o : Has(todo'[u], o) => Has(todo[u], o))
  BY StepDone
<1>2. Has(todo[Request(p)], "answer") => Has(todo'[Request(p)], "answer")
  BY <1>1, TasksAre, Zenon
<1> QED
  BY <1>1, <1>2, TasksAre, Zenon

\* Who begins, or gives up what it has begun with, has taken nothing.
LEMMA EmptyHanded ==
  ASSUME TypeOK, Lists, Takes, NEW t \in Task,
         ~Busy(t) \/ \E op \in Building \cup Bridging \cup {"ifNotLive"} : At(t, op)
  PROVE  took[t] = None
<1> SUFFICES ASSUME took[t] # None PROVE FALSE
  OBVIOUS
<1>1. Has(todo[t], "forget") /\ ~Has(todo[t], "unbridge") /\ kind \in {"persistent", "guest"}
  BY DEF Takes, TypeOK
<1>2. Busy(t)
  BY <1>1, Heads
<1>3. PICK op \in Building \cup Bridging \cup {"ifNotLive"} : At(t, op)
  BY <1>2
<1>4. Has(todo[t], op)
  BY <1>3, Heads
<1>5. CASE op \in Building
  <2>1. todo[t] \in Seq(Building)
    BY <1>4, <1>5, OfKind
  <2> QED
    BY <1>1, <2>1, HasOf DEF Building
<1>6. CASE op \in Bridging
  <2>1. todo[t] \in Seq(Bridging)
    BY <1>4, <1>6, OfKind
  <2> QED
    BY <1>1, <2>1, HasOf DEF Bridging
<1>7. CASE op = "ifNotLive"
  <2>1. todo[t] = Watch /\ Has(Stop(kind), "unbridge")
    BY <1>1, <1>4, <1>7, OfKind, ScriptsInOrder
  <2> QED
    BY <1>1, <2>1, WatchIs
<1> QED
  BY <1>5, <1>6, <1>7

\* What every step does to kinds and bounds.
LEMMA StepTypes ==
  ASSUME IInv, Next
  PROVE  /\ TypeOK /\ kind \in {"persistent", "guest"} /\ kind' = kind
         /\ ffmpeg \in [Publish -> {"unborn", "running", "killed", "exited"}] /\ DOMAIN reader = Publish
         /\ conn \in [Publish -> {"none", "up", "down", "closing", "closed"}]
<1>1. TypeOK /\ kind \in {"persistent", "guest"}
  BY DEF IInv, TypeOK
<1>2. kind' = kind
  BY DEF Next, Publishes, Asked, Admit, AddGuest, GetRelay, Answer, Register, NameSession, NegotiationFails, Watchdog,
         Runs, VideoArrives, Install, Connecting, Reads, ReadFirst, Connected, StoreHeader, OutputEnds, Lost, Closed, Exits,
         Stopping, Unbridge, Uninstall, Drop, DropGuest, Forget, Teardown, DeleteSource, Call, Unlinked
<1> QED
  BY <1>1, <1>2 DEF TypeOK

\* The request's steps (whip.rs, guests.rs, start_ingest()).
LEMMA RequestStages ==
  ASSUME IInv, Lists, Stages, Next, NEW p \in Publish, Publishes(p) \/ Asked(p) \/ NegotiationFails(p)
  PROVE  Stages'
<1> DEFINE t == Request(p)
<1>0. /\ TypeOK /\ kind \in {"persistent", "guest"} /\ kind' = kind /\ t \in Task
      /\ \A q \in Publish : Staged(q) /\ q # None /\ Request(q) \in Task /\ (q # p => Request(q) # t)
      /\ \A q \in Publish : \A r \in {"watchdog", "bridge", "callback"} : <<q, r>> \in Task /\ <<q, r>> # t
      /\ conn \in [Publish -> {"none", "up", "down", "closing", "closed"}]
  BY StepTypes, TasksAre, WhipAssumption DEF Stages
<1>1. CASE Publishes(p)
  <2>1. /\ conn[p] = "none" /\ UNCHANGED <<conn, peer, ffmpeg, reader>>
        /\ \E s \in {Whip, Join} : Turn(t, s)
    BY <1>1 DEF Publishes, Fresh
  <2>2. PICK s \in {Whip, Join} : Turn(t, s)
    BY <2>1
  <2>3. todo'[t] = s /\ Has(s, "answer") /\ \A u \in Task : u # t => todo'[u] = todo[u]
    BY <1>0, <2>2, StepTurns, ScriptsInOrder
  <2>4. Staged(p)'
    BY <1>0, <2>1, <2>3 DEF Staged, Registering, Busy
  <2>5. \A q \in Publish : q # p => Staged(q)'
    BY <1>0, <2>1, <2>3 DEF Staged, Registering, Busy
  <2> QED
    BY <2>4, <2>5 DEF Stages
<1>2. CASE Admit(p) \/ AddGuest(p) \/ GetRelay(p) \/ NameSession(p) \/ NegotiationFails(p)
  <2>1. /\ UNCHANGED <<conn, peer, ffmpeg, reader>>
        /\ \/ Turn(t, <<>>) \/ Turn(t, Stop(kind))
           \/ Done(t) /\ \E op : At(t, op) /\ op \notin {"answer", "register"}
    <3>1. CASE Admit(p)
      BY <3>1 DEF Admit
    <3>2. CASE AddGuest(p)
      <4>1. Done(t) /\ (At(t, "addRow") \/ At(t, "link")) /\ UNCHANGED <<conn, peer, ffmpeg, reader>>
        BY <3>2, Zenon DEF AddGuest
      <4> QED
        BY <4>1
    <3>3. CASE GetRelay(p) \/ NameSession(p) \/ NegotiationFails(p)
      BY <3>3 DEF GetRelay, NameSession, NegotiationFails
    <3> QED
      BY <1>2, <3>1, <3>2, <3>3
  <2>2. ASSUME NEW s \in Seq(Clearing), Turn(t, s) PROVE Stages'
    <3>1. todo'[t] = s /\ ~Has(s, "answer") /\ ~Has(s, "register") /\ \A u \in Task : u # t => todo'[u] = todo[u]
      BY <1>0, <2>2, StepTurns, HasOf DEF Clearing
    <3> QED
      BY <1>0, <2>1, <3>1, StagesStay DEF Busy
  <2>3. ASSUME NEW op, At(t, op), op \notin {"answer", "register"}, Done(t) PROVE Stages'
    BY <1>0, <2>1, <2>3, DoneStays, StagesStay
  <2>4. <<>> \in Seq(Clearing) /\ Stop(kind) \in Seq(Clearing)
    BY <1>0, ScriptsInOrder
  <2> QED
    BY <2>1, <2>2, <2>3, <2>4
<1>3. CASE Answer(p)
  <2>1. /\ At(t, "answer") /\ Done(t) /\ conn' = [conn EXCEPT ![p] = "up"]
        /\ UNCHANGED <<peer, ffmpeg, reader>>
    BY <1>3 DEF Answer
  <2>2. /\ \A u \in Task : u # t => todo'[u] = todo[u]
        /\ Has(todo[t], "answer") /\ ~Has(todo'[t], "answer")
    BY <1>0, <2>1, StepDone DEF Barred
  <2>3. conn[p] = "none" /\ conn'[p] = "up" /\ \A q \in Publish : q # p => conn'[q] = conn[q]
    BY <1>0, <2>1, <2>2 DEF Staged
  <2>4. Has(todo'[t], "register") => Has(todo[t], "register")
    BY <1>0, <2>1, StepDone
  <2>5. Staged(p)'
    BY <1>0, <2>1, <2>2, <2>3, <2>4 DEF Staged, Registering, Busy
  <2>6. \A q \in Publish : q # p => Staged(q)'
    BY <1>0, <2>1, <2>2, <2>3 DEF Staged, Registering, Busy
  <2> QED
    BY <2>5, <2>6 DEF Stages
<1>4. CASE Register(p)
  <2> DEFINE w == <<p, "watchdog">>
  <2>1. /\ At(t, "register") /\ todo' = [todo EXCEPT ![t] = Tail(todo[t]), ![w] = Watch]
        /\ peer' = p /\ UNCHANGED <<conn, ffmpeg, reader>>
    BY <1>4, <1>0 DEF Register
  <2>2. todo'[t] = Tail(todo[t]) /\ \A u \in Task : u # t /\ u # w => todo'[u] = todo[u]
    BY <1>0, <2>1 DEF TypeOK
  <2>3. /\ Has(todo[t], "register") /\ ~Has(todo[t], "answer")
        /\ ~Has(todo'[t], "answer") /\ ~Has(todo'[t], "register")
    <3>1. todo[t] \in Seq(Ops) /\ todo[t] # <<>> /\ Head(todo[t]) = "register" /\ InOrder(todo[t], kind)
      BY <1>0, <2>1 DEF TypeOK, Lists, At, Busy
    <3>2. /\ \A op : Has(todo[t], op) <=> (Head(todo[t]) = op \/ Has(Tail(todo[t]), op))
          /\ \A f \in Barred : Head(todo[t]) = f[1] => ~Has(Tail(todo[t]), f[2])
      BY <3>1, RestOf
    <3>3. ~Has(Tail(todo[t]), "answer") /\ ~Has(Tail(todo[t]), "register")
      BY <3>1, <3>2 DEF Barred
    <3> QED
      BY <2>2, <3>1, <3>2, <3>3
  <2>4. conn[p] # "none"
    BY <1>0, <2>3 DEF Staged, Registering
  <2>5. Staged(p)'
    BY <1>0, <2>1, <2>2, <2>3, <2>4 DEF Staged, Registering, Busy
  <2>6. ASSUME NEW q \in Publish, q # p PROVE Staged(q)'
    <3>1. todo'[Request(q)] = todo[Request(q)] /\ todo'[<<q, "watchdog">>] = todo[<<q, "watchdog">>]
          /\ todo'[<<q, "bridge">>] = todo[<<q, "bridge">>] /\ todo'[<<q, "callback">>] = todo[<<q, "callback">>]
      BY <2>2, <2>6, TasksAre
    <3> QED
      BY <1>0, <2>1, <2>6, <3>1 DEF Staged, Registering, Busy
  <2> QED
    BY <2>5, <2>6 DEF Stages
<1> QED
  BY <1>1, <1>2, <1>3, <1>4 DEF Asked

\* The bridge's and the reader's steps (start_ffmpeg(), read_flv_output()).
LEMMA BridgeStages ==
  ASSUME IInv, Lists, Stages, Next, NEW p \in Publish, Runs(p) \/ Reads(p) \/ Exits(p)
  PROVE  Stages'
<1> DEFINE t == <<p, "bridge">>
<1>0. /\ TypeOK /\ kind \in {"persistent", "guest"} /\ kind' = kind /\ t \in Task
      /\ \A q \in Publish : Staged(q) /\ q # None /\ Request(q) \in Task /\ Request(q) # t
      /\ \A q \in Publish : \A r \in {"watchdog", "bridge", "callback"} : <<q, r>> \in Task
      /\ \A q \in Publish : <<q, "watchdog">> # t /\ <<q, "callback">> # t /\ (q # p => <<q, "bridge">> # t)
      /\ ffmpeg \in [Publish -> {"unborn", "running", "killed", "exited"}] /\ DOMAIN reader = Publish
  BY StepTypes, TasksAre, WhipAssumption DEF Stages
<1>1. CASE VideoArrives(p)
  <2>1. /\ conn[p] = "up" /\ ~Busy(Request(p)) /\ ffmpeg[p] = "unborn"
        /\ UNCHANGED <<conn, peer, reader>>
        /\ \E x \in {"running", "exited"} : ffmpeg' = [ffmpeg EXCEPT ![p] = x]
        /\ \E s : Turn(t, s)
    BY <1>1 DEF VideoArrives
  <2>2. \A u \in Task : u # t => todo'[u] = todo[u]
    BY <1>0, <2>1, StepTurns
  <2>3. ffmpeg'[p] # "unborn" /\ \A q \in Publish : q # p => ffmpeg'[q] = ffmpeg[q]
    BY <1>0, <2>1
  <2>4. ~Has(todo[Request(p)], "register") /\ ~Has(todo[Request(p)], "answer")
    BY <1>0, <2>1, Heads
  <2>5. /\ \A q \in Publish : todo'[Request(q)] = todo[Request(q)] /\ todo'[<<q, "watchdog">>] = todo[<<q, "watchdog">>]
                               /\ todo'[<<q, "callback">>] = todo[<<q, "callback">>]
        /\ Staged(p)
    BY <1>0, <2>2
  <2>6. Staged(p)'
    <3>1. /\ conn'[p] = "up" /\ reader'[p] = "off" /\ ffmpeg'[p] # "unborn"
          /\ ~Has(todo'[Request(p)], "register") /\ ~Has(todo'[Request(p)], "answer")
          /\ ~Busy(<<p, "callback">>)'
      BY <2>1, <2>3, <2>4, <2>5 DEF Staged, Busy
    <3> QED
      BY <3>1, Zenon DEF Staged, Registering
  <2>7. ASSUME NEW q \in Publish, q # p PROVE Staged(q)'
    <3>1. /\ todo'[Request(q)] = todo[Request(q)] /\ todo'[<<q, "watchdog">>] = todo[<<q, "watchdog">>]
          /\ todo'[<<q, "bridge">>] = todo[<<q, "bridge">>] /\ todo'[<<q, "callback">>] = todo[<<q, "callback">>]
          /\ conn' = conn /\ peer' = peer /\ reader'[q] = reader[q] /\ ffmpeg'[q] = ffmpeg[q] /\ Staged(q)
      BY <1>0, <2>1, <2>2, <2>3, <2>7
    <3> QED
      BY <3>1 DEF Staged, Registering, Busy
  <2> QED
    BY <2>6, <2>7 DEF Stages
<1>2. CASE Install(p)
  <2>1. /\ At(t, "install") /\ UNCHANGED <<conn, peer, reader>>
        /\ ffmpeg' = Killed(p) \/ ffmpeg' = Unbridged
        /\ Done(t) \/ Turn(t, Stop(kind))
    BY <1>2 DEF Install
  <2>2. \A q \in Publish : ffmpeg'[q] = "unborn" <=> ffmpeg[q] = "unborn"
    BY <1>0, <2>1 DEF Killed, Unbridged
  <2>3. CASE Done(t)
    BY <1>0, <2>1, <2>2, <2>3, DoneStays, StagesStay
  <2>4. CASE Turn(t, Stop(kind))
    <3>1. Busy(t) /\ \A u \in Task : u # t => todo'[u] = todo[u]
      BY <1>0, <2>1, <2>4, StepTurns DEF At
    <3>2. \A q \in Publish : todo'[Request(q)] = todo[Request(q)]
          /\ (Busy(<<q, "watchdog">>)' => Busy(<<q, "watchdog">>)) /\ (Busy(<<q, "callback">>)' => Busy(<<q, "callback">>))
          /\ (Busy(<<q, "bridge">>)' => Busy(<<q, "bridge">>))
      BY <1>0, <3>1 DEF Busy
    <3> QED
      BY <2>1, <2>2, <3>2, StagesStay
  <2> QED
    BY <2>1, <2>3, <2>4
<1>3. CASE Connecting(p)
  <2>1. /\ At(t, "connecting") /\ Done(t) /\ UNCHANGED <<conn, peer, ffmpeg>>
        /\ reader' = [reader EXCEPT ![p] = "header"]
    BY <1>3 DEF Connecting
  <2>2. /\ \A u \in Task : u # t => todo'[u] = todo[u]
        /\ Has(todo[t], "connecting") /\ ~Has(todo'[t], "connecting") /\ ~Has(todo'[t], "install")
        /\ todo'[t] = Tail(todo[t])
    BY <1>0, <2>1, StepDone, DoneLists DEF Barred, At
  <2>3. todo[t] \in Seq(Bridging) /\ todo[t] # <<>>
    BY <1>0, <2>1, <2>2, OfKind DEF Bridging, At, Busy
  <2>4. todo'[t] = <<>>
    <3> SUFFICES ASSUME todo'[t] # <<>> PROVE FALSE
      OBVIOUS
    <3>1. todo'[t] \in Seq(Bridging)
      BY <2>2, <2>3
    <3>2. Head(todo'[t]) \in Bridging /\ Has(todo'[t], Head(todo'[t]))
      BY <3>1, RestOf
    <3> QED
      BY <2>2, <3>2 DEF Bridging
  <2>5. Busy(t) /\ reader'[p] = "header" /\ \A q \in Publish : q # p => reader'[q] = reader[q]
    BY <1>0, <2>1 DEF At
  <2>8. todo'[Request(p)] = todo[Request(p)] /\ todo'[<<p, "watchdog">>] = todo[<<p, "watchdog">>]
        /\ todo'[<<p, "callback">>] = todo[<<p, "callback">>] /\ Staged(p)
    BY <1>0, <2>2
  <2>6. Staged(p)'
    <3>1. /\ conn' = conn /\ peer' = peer /\ ffmpeg' = ffmpeg /\ ffmpeg[p] # "unborn" /\ ~Busy(t)'
          /\ Has(todo'[Request(p)], "register") = Has(todo[Request(p)], "register")
          /\ Has(todo'[Request(p)], "answer") = Has(todo[Request(p)], "answer")
          /\ Busy(<<p, "callback">>)' = Busy(<<p, "callback">>) /\ Busy(<<p, "watchdog">>)' = Busy(<<p, "watchdog">>)
      BY <2>1, <2>4, <2>5, <2>8 DEF Staged, Busy
    <3> QED
      BY <2>8, <3>1, Zenon DEF Staged, Registering
  <2>7. ASSUME NEW q \in Publish, q # p PROVE Staged(q)'
    <3>1. /\ todo'[Request(q)] = todo[Request(q)] /\ todo'[<<q, "watchdog">>] = todo[<<q, "watchdog">>]
          /\ todo'[<<q, "bridge">>] = todo[<<q, "bridge">>] /\ todo'[<<q, "callback">>] = todo[<<q, "callback">>]
          /\ conn' = conn /\ peer' = peer /\ reader'[q] = reader[q] /\ ffmpeg'[q] = ffmpeg[q] /\ Staged(q)
      BY <1>0, <2>1, <2>2, <2>5, <2>7
    <3> QED
      BY <3>1 DEF Staged, Registering, Busy
  <2> QED
    BY <2>6, <2>7 DEF Stages
<1>4. CASE Reads(p) \/ Exits(p)
  <2>1. UNCHANGED <<conn, peer, todo>>
    BY <1>4 DEF Reads, ReadFirst, Connected, StoreHeader, OutputEnds, Exits
  <2>2. \A q \in Publish : (ffmpeg'[q] = "unborn" <=> ffmpeg[q] = "unborn") /\ (reader'[q] = "off" <=> reader[q] = "off")
    BY <1>0, <1>4 DEF Reads, ReadFirst, Connected, StoreHeader, OutputEnds, Exits, Running
  <2> QED
    BY <2>1, <2>2, StagesStay DEF Busy
<1> QED
  BY <1>1, <1>2, <1>3, <1>4 DEF Runs

\* The watchdog, the callback, stop_ingest() and the calls.
LEMMA OtherStages ==
  ASSUME IInv, Lists, Stages, Takes, Next,
         \/ \E p \in Publish : Watchdog(p) \/ Lost(p) \/ Closed(p)
         \/ \E t \in Task : Stopping(t)
         \/ \E c \in Caller : Teardown(c) \/ DeleteSource(c)
         \/ Unlinked
  PROVE  Stages'
<1>0. /\ TypeOK /\ kind \in {"persistent", "guest"} /\ kind' = kind
      /\ \A q \in Publish : Staged(q) /\ q # None
      /\ ffmpeg \in [Publish -> {"unborn", "running", "killed", "exited"}] /\ DOMAIN reader = Publish
      /\ conn \in [Publish -> {"none", "up", "down", "closing", "closed"}]
  BY StepTypes, WhipAssumption DEF Stages
<1>1. ASSUME NEW p \in Publish, Watchdog(p) PROVE Stages'
  <2> DEFINE t == <<p, "watchdog">>
  <2>1. At(t, "ifNotLive") /\ (Done(t) \/ Turn(t, <<>>)) /\ UNCHANGED <<conn, peer, ffmpeg, reader>> /\ t \in Task
    BY <1>1, TasksAre DEF Watchdog, Waits
  <2>2. CASE Done(t)
    BY <1>0, <2>1, <2>2, DoneStays, StagesStay
  <2>3. CASE Turn(t, <<>>)
    <3>1. todo'[t] = <<>> /\ \A u \in Task : u # t => todo'[u] = todo[u]
      BY <1>0, <2>1, <2>3, StepTurns
    <3>2. \A q \in Publish : todo'[Request(q)] = todo[Request(q)]
          /\ (Busy(<<q, "watchdog">>)' => Busy(<<q, "watchdog">>)) /\ (Busy(<<q, "callback">>)' => Busy(<<q, "callback">>))
          /\ (Busy(<<q, "bridge">>)' => Busy(<<q, "bridge">>))
      BY <3>1, TasksAre DEF Busy
    <3> QED
      BY <2>1, <3>2, StagesStay
  <2> QED
    BY <2>1, <2>2, <2>3
<1>2. ASSUME NEW p \in Publish, Lost(p) \/ Closed(p) PROVE Stages'
  <2> DEFINE t == <<p, "callback">>
  <2>1. /\ Turn(t, Stop(kind)) /\ UNCHANGED <<peer, ffmpeg, reader>> /\ conn[p] # "none"
        /\ conn' = [conn EXCEPT ![p] = "down"] \/ conn' = [conn EXCEPT ![p] = "closed"]
    BY <1>2 DEF Lost, Closed
  <2>2. \A u \in Task : u # t => todo'[u] = todo[u]
    BY <1>0, <2>1, StepTurns, TasksAre
  <2>3. \A q \in Publish : /\ (q # p => conn'[q] = conn[q])
                           /\ todo'[Request(q)] = todo[Request(q)] /\ todo'[<<q, "watchdog">>] = todo[<<q, "watchdog">>]
                           /\ todo'[<<q, "bridge">>] = todo[<<q, "bridge">>]
                           /\ (q # p => todo'[<<q, "callback">>] = todo[<<q, "callback">>])
    BY <1>0, <2>1, <2>2, TasksAre
  <2>4. conn'[p] \notin {"none", "up"}
    BY <1>0, <2>1
  <2>5. Staged(p)'
    BY <1>0, <2>1, <2>3, <2>4 DEF Staged, Registering, Busy
  <2>6. \A q \in Publish : q # p => Staged(q)'
    BY <1>0, <2>1, <2>3 DEF Staged, Registering, Busy
  <2> QED
    BY <2>5, <2>6 DEF Stages
<1>3. ASSUME NEW t \in Task, Stopping(t) PROVE Stages'
  <2>1. /\ Done(t) /\ UNCHANGED reader /\ peer' \in {peer, None}
        /\ ffmpeg' = ffmpeg \/ ffmpeg' = Unbridged
        /\ \E op : At(t, op) /\ op \notin {"answer", "register"}
    <3>1. CASE Unbridge(t) \/ Uninstall(t) \/ Forget(t)
      BY <3>1 DEF Unbridge, Uninstall, Forget
    <3>2. CASE Drop(t)
      BY <3>2 DEF Drop
    <3>3. CASE DropGuest(t)
      <4>1. Done(t) /\ (At(t, "deleteRow") \/ At(t, "unlink")) /\ UNCHANGED <<reader, peer, ffmpeg>>
        BY <3>3, Zenon DEF DropGuest
      <4> QED
        BY <4>1
    <3> QED
      BY <1>3, <3>1, <3>2, <3>3 DEF Stopping
  <2>2. \A q \in Publish : ffmpeg'[q] = "unborn" <=> ffmpeg[q] = "unborn"
    BY <1>0, <2>1 DEF Killed, Unbridged
  <2>3. PICK op : At(t, op) /\ op \notin {"answer", "register"}
    BY <2>1
  <2>4. CASE ~Forget(t)
    <3>1. conn' = conn
      BY <1>3, <2>4 DEF Stopping, Unbridge, Uninstall, Drop, DropGuest
    <3> QED
      BY <1>0, <2>1, <2>2, <2>3, <3>1, DoneStays, StagesStay
  <2>5. CASE Forget(t)
    <3>1. \A q \in Publish : conn'[q] = conn[q] \/ (conn[q] # "none" /\ conn'[q] = "closing")
      BY <1>0, <2>5 DEF Forget, Takes, TypeOK
    <3>2. UNCHANGED <<peer, ffmpeg, reader>>
      BY <2>5 DEF Forget
    <3>3. \A q \in Publish :
           /\ Has(todo'[Request(q)], "answer") => Has(todo[Request(q)], "answer")
           /\ Has(todo'[Request(q)], "register") =>
                Has(todo[Request(q)], "register") /\ (Has(todo[Request(q)], "answer") => Has(todo'[Request(q)], "answer"))
           /\ Busy(<<q, "watchdog">>)' => Busy(<<q, "watchdog">>)
           /\ Busy(<<q, "bridge">>)' => Busy(<<q, "bridge">>)
           /\ Busy(<<q, "callback">>)' => Busy(<<q, "callback">>)
      BY <1>0, <2>1, <2>3, DoneStays
    <3>4. \A q \in Publish : Staged(q)'
      BY <1>0, <3>1, <3>2, <3>3 DEF Staged, Registering
    <3> QED
      BY <3>4 DEF Stages
  <2> QED
    BY <2>4, <2>5
<1>4. ASSUME NEW c \in Caller, Teardown(c) \/ DeleteSource(c) PROVE Stages'
  <2>1. UNCHANGED <<conn, peer, ffmpeg, reader>> /\ \E s : Turn(c, s)
    BY <1>4 DEF Teardown, DeleteSource, Call
  <2>2. \A u \in Task : u # c => todo'[u] = todo[u]
    BY <1>0, <2>1, StepTurns, TasksAre
  <2>3. \A q \in Publish : todo'[Request(q)] = todo[Request(q)]
          /\ (Busy(<<q, "watchdog">>)' => Busy(<<q, "watchdog">>)) /\ (Busy(<<q, "callback">>)' => Busy(<<q, "callback">>))
          /\ (Busy(<<q, "bridge">>)' => Busy(<<q, "bridge">>))
    BY <2>2, TasksAre DEF Busy
  <2> QED
    BY <2>1, <2>3, StagesStay
<1>5. CASE Unlinked
  BY <1>5, StagesStay DEF Unlinked, Busy
<1> QED
  BY <1>1, <1>2, <1>3, <1>4, <1>5

\* No step lets a publish be further than it is.
LEMMA StagesKept == ASSUME IInv, Lists, Stages, Takes, [Next]_vars PROVE Stages'
<1>1. CASE Next
  BY <1>1, RequestStages, BridgeStages, OtherStages DEF Next
<1>2. CASE UNCHANGED vars
  BY <1>2, StagesStay DEF vars, Busy
<1> QED
  BY <1>1, <1>2

\* What a task has taken it has still to close: only a stop takes, and closes.
LEMMA TakesKept == ASSUME IInv, Lists, Stages, Takes, [Next]_vars PROVE Takes'
<1>0. /\ TypeOK /\ None \notin Publish /\ took \in [Task -> Publish \cup {None}]
      /\ kind \in {"persistent", "guest"} /\ <<"unbridge", "forget">> \in Follows(kind)
  BY WhipAssumption DEF IInv, TypeOK, Follows, Cleanup
<1>c. ASSUME Next PROVE \A p \in Publish : conn'[p] = "none" => conn[p] = "none"
  <2>1. /\ kind' = kind
        /\ conn \in [Publish -> {"none", "up", "down", "closing", "closed"}]
    BY <1>c, StepTypes
  <2>2. CASE \E p \in Publish : Answer(p) \/ Lost(p) \/ Closed(p)
    BY <2>1, <2>2 DEF Answer, Lost, Closed
  <2>3. CASE \E t \in Task : Forget(t)
    BY <1>0, <2>1, <2>3 DEF Forget
  <2>4. CASE ~(\E p \in Publish : Answer(p) \/ Lost(p) \/ Closed(p)) /\ ~\E t \in Task : Forget(t)
    <3>1. conn' = conn
      BY <1>c, <2>4 DEF Next, Publishes, Asked, Admit, AddGuest, GetRelay, Register, NameSession, NegotiationFails, Watchdog,
         Runs, VideoArrives, Install, Connecting, Reads, ReadFirst, Connected, StoreHeader, OutputEnds, Exits,
         Stopping, Unbridge, Uninstall, Drop, DropGuest, Teardown, DeleteSource, Call, Unlinked
    <3> QED
      BY <3>1
  <2> QED
    BY <2>2, <2>3, <2>4
\* Nobody takes, and the task that moves has done something else or has nothing.
<1>k. ASSUME Next, took' = took, NEW t \in Task, \A u \in Task : u # t => todo'[u] = todo[u],
             took[t] = None \/ (\E op : At(t, op) /\ op # "forget" /\ Done(t))
      PROVE  Takes'
  <2> SUFFICES ASSUME NEW u \in Task, took[u] # None
               PROVE  conn'[took[u]] # "none" /\ Has(todo'[u], "forget") /\ ~Has(todo'[u], "unbridge")
    BY <1>k DEF Takes
  <2>1. took[u] \in Publish /\ conn[took[u]] # "none" /\ Has(todo[u], "forget") /\ ~Has(todo[u], "unbridge")
    BY <1>0 DEF Takes
  <2>2. conn'[took[u]] # "none"
    BY <1>c, <1>k, <2>1
  <2>3. CASE u # t
    BY <1>k, <2>1, <2>2, <2>3
  <2>4. CASE u = t
    <3>1. PICK op : At(t, op) /\ op # "forget" /\ Done(t)
      BY <1>k, <2>4
    <3>2. kind' = kind
      BY <1>k, StepTypes
    <3>3. \A o : Has(todo[t], o) <=> (o = op \/ Has(todo'[t], o))
      BY <1>0, <3>1, <3>2, StepDone
    <3> QED
      BY <2>1, <2>2, <2>4, <3>1, <3>3
  <2> QED
    BY <2>3, <2>4
<1>l. ASSUME Next, took' = took, todo' = todo PROVE Takes'
  <2> SUFFICES ASSUME NEW u \in Task, took[u] # None
               PROVE  conn'[took[u]] # "none" /\ Has(todo'[u], "forget") /\ ~Has(todo'[u], "unbridge")
    BY <1>l DEF Takes
  <2>1. took[u] \in Publish /\ conn[took[u]] # "none" /\ Has(todo[u], "forget") /\ ~Has(todo[u], "unbridge")
    BY <1>0 DEF Takes
  <2> QED
    BY <1>c, <1>l, <2>1
<1>m. ASSUME NEW t \in Task, NEW s, Turn(t, s) PROVE \A u \in Task : u # t => todo'[u] = todo[u]
  BY <1>0, <1>m, StepTurns
<1>n. ASSUME NEW t \in Task, NEW op, At(t, op), Done(t), Next PROVE \A u \in Task : u # t => todo'[u] = todo[u]
  BY <1>0, <1>n, StepDone, StepTypes
<1>1. ASSUME Next, NEW p \in Publish, Asked(p) \/ NegotiationFails(p) \/ Publishes(p) PROVE Takes'
  <2> DEFINE t == Request(p)
  <2>0. t \in Task /\ took' = took
    BY <1>1, TasksAre DEF Asked, Admit, AddGuest, GetRelay, Answer, Register, NameSession, NegotiationFails, Publishes
  <2>1. took[t] = None
    <3>1. ~Busy(t) \/ \E op \in Building : At(t, op)
      <4>1. CASE Admit(p)
        BY <4>1 DEF Admit, Building
      <4>2. CASE AddGuest(p)
        <5>1. At(t, "addRow") \/ At(t, "link")
          BY <4>2, Zenon DEF AddGuest
        <5> QED
          BY <5>1 DEF Building
      <4>3. CASE GetRelay(p) \/ Answer(p) \/ Register(p) \/ NameSession(p) \/ NegotiationFails(p) \/ Publishes(p)
        BY <4>3 DEF GetRelay, Answer, Register, NameSession, NegotiationFails, Publishes, Fresh, Building
      <4> QED
        BY <1>1, <4>1, <4>2, <4>3 DEF Asked
    <3> QED
      BY <1>0, <2>0, <3>1, EmptyHanded
  <2>2. CASE Register(p)
    <3> DEFINE w == <<p, "watchdog">>
    <3>1. w \in Task /\ w # t
      BY TasksAre
    <3>2. \A u \in Task : u # t /\ u # w => todo'[u] = todo[u]
      BY <1>0, <2>2, <3>1 DEF Register, TypeOK
    <3>3. took[w] = None
      <4>1. Has(todo[t], "register")
        BY <1>0, <2>0, <2>2, Heads DEF Register
      <4>2. ~Busy(w)
        BY <4>1 DEF Stages, Staged, Registering
      <4> QED
        BY <1>0, <3>1, <4>2, EmptyHanded
    <3>4. ASSUME NEW u \in Task, took[u] # None
          PROVE  conn'[took[u]] # "none" /\ Has(todo'[u], "forget") /\ ~Has(todo'[u], "unbridge")
      <4>1. took[u] \in Publish /\ conn[took[u]] # "none" /\ Has(todo[u], "forget") /\ ~Has(todo[u], "unbridge")
        BY <1>0, <3>4 DEF Takes
      <4>2. todo'[u] = todo[u]
        BY <2>1, <3>2, <3>3, <3>4
      <4> QED
        BY <1>c, <1>1, <4>1, <4>2
    <3> QED
      BY <2>0, <3>4 DEF Takes
  <2>3. CASE ~Register(p)
    <3>1. (\E s : Turn(t, s)) \/ (Done(t) /\ \E op : At(t, op))
      <4>1. CASE Admit(p) \/ AddGuest(p)
        BY <4>1, Zenon DEF Admit, AddGuest
      <4>2. CASE GetRelay(p) \/ Answer(p) \/ NameSession(p) \/ NegotiationFails(p) \/ Publishes(p)
        BY <4>2 DEF GetRelay, Answer, NameSession, NegotiationFails, Publishes
      <4> QED
        BY <1>1, <2>3, <4>1, <4>2 DEF Asked
    <3>2. \A u \in Task : u # t => todo'[u] = todo[u]
      BY <1>m, <1>n, <1>1, <2>0, <3>1
    <3> QED
      BY <1>k, <1>1, <2>0, <2>1, <3>2
  <2> QED
    BY <2>2, <2>3
<1>2. ASSUME Next, NEW p \in Publish, Runs(p) PROVE Takes'
  <2> DEFINE t == <<p, "bridge">>
  <2>0. t \in Task /\ took' = took /\ ((\E s : Turn(t, s)) \/ (Done(t) /\ \E op : At(t, op)))
    <3>1. took' = took
      BY <1>2 DEF Runs, VideoArrives, Install, Connecting
    <3>2. (\E s : Turn(t, s)) \/ (Done(t) /\ \E op : At(t, op))
      BY <1>2, Zenon DEF Runs, VideoArrives, Install, Connecting
    <3> QED
      BY <3>1, <3>2, TasksAre
  <2>1. ~Busy(t) \/ \E op \in Bridging : At(t, op)
    <3>1. CASE VideoArrives(p)
      BY <3>1 DEF VideoArrives, Stages, Staged
    <3>2. CASE Install(p) \/ Connecting(p)
      BY <3>2 DEF Install, Connecting, Bridging
    <3> QED
      BY <1>2, <3>1, <3>2 DEF Runs
  <2>2. took[t] = None
    BY <1>0, <2>0, <2>1, EmptyHanded
  <2> QED
    BY <1>k, <1>m, <1>n, <1>2, <2>0, <2>2
<1>3. ASSUME Next, NEW p \in Publish, Watchdog(p) PROVE Takes'
  <2> DEFINE t == <<p, "watchdog">>
  <2>0. t \in Task /\ took' = took /\ At(t, "ifNotLive") /\ (Turn(t, <<>>) \/ Done(t))
    BY <1>3, TasksAre DEF Watchdog, Waits
  <2>1. took[t] = None
    BY <1>0, <2>0, EmptyHanded
  <2> QED
    BY <1>k, <1>m, <1>n, <1>3, <2>0, <2>1
<1>4. ASSUME Next, NEW p \in Publish, Lost(p) \/ Closed(p) PROVE Takes'
  <2> DEFINE t == <<p, "callback">>
  <2>0. t \in Task /\ took' = took /\ Turn(t, Stop(kind)) /\ ~Busy(t)
    BY <1>4, TasksAre DEF Lost, Closed
  <2>1. took[t] = None
    BY <1>0, <2>0, EmptyHanded
  <2> QED
    BY <1>k, <1>m, <1>4, <2>0, <2>1
<1>5. ASSUME Next, NEW p \in Publish, Reads(p) \/ Exits(p) PROVE Takes'
  BY <1>l, <1>5 DEF Reads, ReadFirst, Connected, StoreHeader, OutputEnds, Exits
<1>6. ASSUME Next, NEW c \in Caller, Teardown(c) \/ DeleteSource(c) PROVE Takes'
  <2>0. c \in Task /\ took' = took /\ (\E s : Turn(c, s)) /\ ~Busy(c)
    BY <1>6, TasksAre DEF Teardown, DeleteSource, Call
  <2>1. took[c] = None
    BY <1>0, <2>0, EmptyHanded
  <2> QED
    BY <1>k, <1>m, <1>6, <2>0, <2>1
<1>7. ASSUME Next, Unlinked PROVE Takes'
  BY <1>l, <1>7 DEF Unlinked
<1>8. ASSUME Next, NEW t \in Task, Stopping(t) PROVE Takes'
  <2>1. CASE Unbridge(t)
    <3>1. /\ At(t, "unbridge") /\ Done(t) /\ took' = [took EXCEPT ![t] = peer] /\ conn' = conn /\ kind' = kind
      BY <2>1 DEF Unbridge
    <3>2. /\ \A u \in Task : u # t => todo'[u] = todo[u]
          /\ \A f \in Follows(kind) : f[1] = "unbridge" => Has(todo'[t], f[2])
          /\ \A f \in Barred : f[1] = "unbridge" => ~Has(todo'[t], f[2])
      BY <1>0, <3>1, StepDone
    <3>3. <<"unbridge", "unbridge">> \in Barred
      BY DEF Barred
    <3>4. Has(todo'[t], "forget") /\ ~Has(todo'[t], "unbridge")
      BY <1>0, <3>2, <3>3
    <3>5. ASSUME NEW u \in Task, took'[u] # None
          PROVE  conn'[took'[u]] # "none" /\ Has(todo'[u], "forget") /\ ~Has(todo'[u], "unbridge")
      <4>1. CASE u = t
        <5>1. took'[t] = peer /\ peer \in Publish
          BY <1>0, <3>1, <3>5, <4>1 DEF TypeOK
        <5>2. conn[peer] # "none"
          BY <5>1 DEF Stages, Staged
        <5> QED
          BY <3>1, <3>4, <4>1, <5>1, <5>2
      <4>2. CASE u # t
        <5>1. took'[u] = took[u]
          BY <1>0, <3>1, <4>2
        <5> QED
          BY <3>1, <3>2, <3>5, <4>2, <5>1 DEF Takes
      <4> QED
        BY <4>1, <4>2
    <3> QED
      BY <3>5 DEF Takes
  <2>2. CASE Forget(t)
    <3>1. At(t, "forget") /\ Done(t) /\ took' = [took EXCEPT ![t] = None] /\ kind' = kind
      BY <2>2 DEF Forget
    <3>2. \A u \in Task : u # t => todo'[u] = todo[u]
      BY <1>n, <1>8, <3>1
    <3>3. ASSUME NEW u \in Task, took'[u] # None
          PROVE  conn'[took'[u]] # "none" /\ Has(todo'[u], "forget") /\ ~Has(todo'[u], "unbridge")
      <4>1. u # t /\ took'[u] = took[u] /\ took[u] \in Publish
        BY <1>0, <3>1, <3>3
      <4>2. conn[took[u]] # "none" /\ Has(todo[u], "forget") /\ ~Has(todo[u], "unbridge")
        BY <3>3, <4>1 DEF Takes
      <4> QED
        BY <1>c, <1>8, <3>2, <4>1, <4>2
    <3> QED
      BY <3>3 DEF Takes
  <2>3. CASE Uninstall(t) \/ Drop(t) \/ DropGuest(t)
    <3>1. took' = took /\ Done(t) /\ \E op : At(t, op) /\ op # "forget"
      <4>1. CASE Uninstall(t) \/ Drop(t)
        BY <4>1 DEF Uninstall, Drop
      <4>2. CASE DropGuest(t)
        <5>1. took' = took /\ Done(t) /\ (At(t, "deleteRow") \/ At(t, "unlink"))
          BY <4>2, Zenon DEF DropGuest
        <5> QED
          BY <5>1
      <4> QED
        BY <2>3, <4>1, <4>2
    <3> QED
      BY <1>k, <1>n, <1>8, <3>1
  <2> QED
    BY <1>8, <2>1, <2>2, <2>3 DEF Stopping
<1>9. CASE UNCHANGED vars
  BY <1>9 DEF Takes, vars
<1> QED
  BY <1>1, <1>2, <1>3, <1>4, <1>5, <1>6, <1>7, <1>8, <1>9 DEF Next

\* Before anything has happened nothing has begun, and a guest has no session.
LEMMA BeginsKept == ASSUME IInv, Lists, Stages, Takes, Begins, [Next]_vars PROVE Begins'
<1>0. TypeOK /\ kind \in {"persistent", "guest"} /\ (Next => kind' = kind) /\ events \in Nat
      /\ conn \in [Publish -> {"none", "up", "down", "closing", "closed"}] /\ None \notin Publish
  BY StepTypes, WhipAssumption DEF IInv, TypeOK
<1>e. Event => events' # 0
  BY <1>0 DEF Event
<1> DEFINE Nothing == status # "Live" /\ \A p \in Publish : ~Busy(Request(p)) /\ conn[p] = "none"
<1>b. Begins <=> (~relay => feeds = {}) /\ (kind = "guest" => session = {}) /\ (events = 0 => Nothing)
  BY DEF Begins
<1> HIDE DEF Nothing
<1>n. Begins' <=> (~relay' => feeds' = {}) /\ (kind' = "guest" => session' = {}) /\ (events' = 0 => Nothing')
  BY DEF Begins, Nothing
<1>1. ASSUME NEW p \in Publish, Asked(p) PROVE Begins'
  <2> DEFINE t == Request(p)
  <2>1. Busy(t) /\ events' = events
    BY <1>1 DEF Asked, Admit, AddGuest, GetRelay, Answer, Register, NameSession, At
  <2>2. events' # 0
    BY <2>1 DEF Begins
  <2>3. CASE NameSession(p)
    <3>1. Has(todo[t], "session")
      BY <1>0, <2>3, TasksAre, Heads DEF NameSession
    <3>2. kind # "guest"
      BY <1>0, <3>1, TasksAre, OfKind DEF Building, Checks
    <3> QED
      BY <1>n, <2>2, <2>3, <3>2 DEF NameSession, books, Begins
  <2>4. CASE ~NameSession(p)
    <3>1. session' = session /\ kind' = kind
      BY <1>1, <2>4 DEF Asked, Admit, AddGuest, GetRelay, Answer, Register
    <3>2. UNCHANGED <<relay, feeds>> \/ relay' = TRUE
      BY <1>1, <2>4 DEF Asked, Admit, AddGuest, GetRelay, Answer, Register, books
    <3> QED
      BY <1>n, <2>2, <3>1, <3>2, Zenon DEF Begins
  <2> QED
    BY <2>3, <2>4
<1>2. ASSUME NEW p \in Publish, Publishes(p) \/ NegotiationFails(p) \/ Lost(p) \/ Exits(p) PROVE Begins'
  <2>1. Event /\ UNCHANGED <<kind, relay, feeds, session>>
    BY <1>2 DEF Publishes, NegotiationFails, Lost, Exits, books
  <2> QED
    BY <1>n, <1>e, <2>1, Zenon DEF Begins
<1>3. ASSUME NEW p \in Publish, Runs(p) \/ Watchdog(p) \/ Closed(p) PROVE Begins'
  <2>1. UNCHANGED <<kind, relay, feeds, session>>
    BY <1>3 DEF Runs, VideoArrives, Install, Connecting, Watchdog, Closed, books
  <2>2. events' = 0 => Nothing'
    <3> SUFFICES ASSUME events' = 0 PROVE Nothing'
      OBVIOUS
    <3>1. events' = events \/ Event
      BY <1>3 DEF Runs, VideoArrives, Install, Connecting, Watchdog, Closed
    <3>2. Nothing
      BY <1>b, <1>e, <3>1
    <3>3. ~VideoArrives(p) /\ ~Closed(p)
      BY <3>2 DEF Nothing, VideoArrives, Closed
    <3>4. conn' = conn /\ (status' = status \/ status' = "Connecting")
      BY <1>3, <3>3 DEF Runs, Install, Connecting, Watchdog, books
    <3>5. \A q \in Publish : todo'[Request(q)] = todo[Request(q)]
      <4>1. \E t \in {<<p, "bridge">>, <<p, "watchdog">>} : (\E s : Turn(t, s)) \/ Done(t)
        BY <1>3, <3>3 DEF Runs, Install, Connecting, Watchdog
      <4>2. PICK t \in {<<p, "bridge">>, <<p, "watchdog">>} : \E s : Turn(t, s)
        BY <4>1 DEF Done, Turn
      <4>3. t \in Task /\ \A q \in Publish : Request(q) # t
        BY TasksAre
      <4> QED
        BY <1>0, <4>2, <4>3, StepTurns, TasksAre
    <3> QED
      BY <3>2, <3>4, <3>5 DEF Nothing, Busy
  <2> QED
    BY <1>n, <2>1, <2>2, Zenon DEF Begins
<1>4. ASSUME NEW p \in Publish, Reads(p) PROVE Begins'
  <2>1. UNCHANGED <<kind, relay, feeds, session, conn, todo, events>> /\ reader[p] # "off"
    BY <1>4 DEF Reads, ReadFirst, Connected, StoreHeader, OutputEnds, books
  <2>2. conn[p] # "none"
    BY <2>1 DEF Stages, Staged
  <2>3. events' # 0
    BY <2>1, <2>2 DEF Begins
  <2> QED
    BY <1>n, <2>1, <2>3, Zenon DEF Begins
<1>5. ASSUME NEW t \in Task, Stopping(t) PROVE Begins'
  <2>1. /\ kind' = kind /\ events' = events /\ Done(t) /\ Busy(t)
        /\ session' = session \/ session' = {}
        /\ UNCHANGED <<relay, feeds>> \/ feeds' = {}
        /\ status' = status \/ status' = "Disconnected"
        /\ conn' = conn \/ (took[t] # None /\ conn' = [conn EXCEPT ![took[t]] = "closing"])
    BY <1>5 DEF Stopping, Unbridge, Uninstall, Drop, DropGuest, Forget, books, At
  <2>2. \A q \in Publish : Busy(Request(q))' => Busy(Request(q))
    <3>1. PICK op : At(t, op)
      BY <2>1 DEF At
    <3>2. \A u \in Task : Busy(u)' => Busy(u)
      BY <1>0, <2>1, <3>1, StepDone
    <3> QED
      BY <3>2, TasksAre
  <2>3. events' = 0 => Nothing'
    <3> SUFFICES ASSUME events' = 0 PROVE Nothing'
      OBVIOUS
    <3>1. Nothing
      BY <1>b, <2>1
    <3>2. took[t] = None
      BY <1>0, <3>1 DEF Nothing, Takes, TypeOK
    <3> QED
      BY <2>1, <2>2, <3>1, <3>2 DEF Nothing
  <2>4. ~relay' => feeds' = {}
    <3>1. UNCHANGED <<relay, feeds>> => (~relay' => ~relay) /\ feeds' = feeds
      OBVIOUS
    <3> QED
      BY <2>1, <3>1, <1>b
  <2>5. kind' = "guest" => session' = {}
    BY <2>1, Zenon DEF Begins
  <2> QED
    BY <1>n, <2>3, <2>4, <2>5
<1>6. ASSUME NEW c \in Caller, Teardown(c) \/ DeleteSource(c) PROVE Begins'
  <2>1. Event /\ UNCHANGED <<kind, relay, feeds>> /\ session' \subseteq session
    BY <1>6 DEF Teardown, DeleteSource, Call, books
  <2>2. kind = "guest" => session' = {}
    BY <2>1 DEF Begins
  <2> QED
    BY <1>n, <1>e, <2>1, <2>2, Zenon DEF Begins
<1>7. CASE Unlinked
  <2>1. Event /\ UNCHANGED <<kind, relay, feeds, session>>
    BY <1>7 DEF Unlinked, books
  <2> QED
    BY <1>n, <1>e, <2>1, Zenon DEF Begins
<1>8. CASE UNCHANGED vars
  BY <1>8, Zenon DEF vars, books, Begins, Busy
<1> QED
  BY <1>1, <1>2, <1>3, <1>4, <1>5, <1>6, <1>7, <1>8 DEF Next

-----------------------------------------------------------------------------
(* What is there is still to be cleared.                                   *)

\* Every list is changed by the actions of its task alone.
LEMMA Movers ==
  ASSUME IInv, Lists, Next, NEW u \in Task, todo'[u] # todo[u]
  PROVE  \/ \E p \in Publish : \/ u = Request(p) /\ (Publishes(p) \/ Asked(p) \/ NegotiationFails(p))
                               \/ u = <<p, "watchdog">> /\ (Register(p) \/ Watchdog(p))
                               \/ u = <<p, "bridge">> /\ Runs(p)
                               \/ u = <<p, "callback">> /\ (Lost(p) \/ Closed(p))
         \/ u \in Caller /\ (Teardown(u) \/ DeleteSource(u))
         \/ Stopping(u) /\ Done(u) /\ \E o \in Clearing : At(u, o)
<1>0. TypeOK /\ kind' = kind
  BY StepTypes
<1>m. ASSUME NEW t \in Task, (\E s : Turn(t, s)) \/ (Done(t) /\ \E o : At(t, o)) PROVE t = u
  <2>1. ASSUME NEW s, Turn(t, s) PROVE t = u
    BY <1>0, <2>1, StepTurns
  <2>2. ASSUME NEW o, At(t, o), Done(t) PROVE t = u
    BY <1>0, <2>2, StepDone
  <2> QED
    BY <1>m, <2>1, <2>2
<1>1. ASSUME NEW p \in Publish, Publishes(p) \/ Asked(p) \/ NegotiationFails(p)
      PROVE  u = Request(p) \/ (u = <<p, "watchdog">> /\ Register(p))
  <2> DEFINE t == Request(p)
  <2>1. CASE Register(p)
    BY <1>0, <2>1, TasksAre DEF Register, TypeOK
  <2>2. CASE ~Register(p)
    <3>1. (\E s : Turn(t, s)) \/ (Done(t) /\ \E o : At(t, o))
      <4>1. CASE Admit(p) \/ AddGuest(p)
        BY <4>1, Zenon DEF Admit, AddGuest
      <4>2. CASE GetRelay(p) \/ Answer(p) \/ NameSession(p) \/ NegotiationFails(p) \/ Publishes(p)
        BY <4>2 DEF GetRelay, Answer, NameSession, NegotiationFails, Publishes
      <4> QED
        BY <1>1, <2>2, <4>1, <4>2 DEF Asked
    <3> QED
      BY <1>m, <3>1, TasksAre
  <2> QED
    BY <2>1, <2>2
<1>2. ASSUME NEW p \in Publish, Runs(p) PROVE u = <<p, "bridge">>
  <2>1. (\E s : Turn(<<p, "bridge">>, s)) \/ (Done(<<p, "bridge">>) /\ \E o : At(<<p, "bridge">>, o))
    BY <1>2, Zenon DEF Runs, VideoArrives, Install, Connecting
  <2> QED
    BY <1>m, <2>1, TasksAre
<1>3. ASSUME NEW p \in Publish, Watchdog(p) PROVE u = <<p, "watchdog">>
  <2>1. At(<<p, "watchdog">>, "ifNotLive") /\ (Turn(<<p, "watchdog">>, <<>>) \/ Done(<<p, "watchdog">>))
    BY <1>3 DEF Watchdog, Waits
  <2> QED
    BY <1>m, <2>1, TasksAre
<1>4. ASSUME NEW p \in Publish, Lost(p) \/ Closed(p) PROVE u = <<p, "callback">>
  BY <1>m, <1>4, TasksAre DEF Lost, Closed
<1>5. ~Unlinked /\ ~\E p \in Publish : Reads(p) \/ Exits(p)
  BY DEF Unlinked, Reads, ReadFirst, Connected, StoreHeader, OutputEnds, Exits
<1>6. ASSUME NEW c \in Caller, Teardown(c) \/ DeleteSource(c) PROVE u = c
  <2>1. \E s : Turn(c, s)
    BY <1>6 DEF Teardown, DeleteSource, Call
  <2> QED
    BY <1>m, <2>1, TasksAre
<1>7. ASSUME NEW t \in Task, Stopping(t) PROVE u = t /\ Done(u) /\ \E o \in Clearing : At(u, o)
  <2>1. Done(t) /\ \E o \in Clearing : At(t, o)
    <3>1. CASE DropGuest(t)
      <4>1. Done(t) /\ (At(t, "deleteRow") \/ At(t, "unlink"))
        BY <3>1, Zenon DEF DropGuest
      <4> QED
        BY <4>1 DEF Clearing
    <3>2. CASE ~DropGuest(t)
      BY <1>7, <3>2 DEF Stopping, Unbridge, Uninstall, Drop, Forget, Clearing
    <3> QED
      BY <3>1, <3>2
  <2> QED
    BY <1>m, <2>1
<1> QED
  BY <1>1, <1>2, <1>3, <1>4, <1>5, <1>6, <1>7 DEF Next

\* Who moves is idle, or building, or clearing, one operation at a time.
LEMMA Moves ==
  ASSUME IInv, Lists, Stages, Next, NEW u \in Task
  PROVE  \/ todo'[u] = todo[u]
         \/ ~Busy(u)
         \/ \E o \in Building \cup Bridging \cup {"ifNotLive"} : At(u, o)
         \/ \E o \in Clearing : At(u, o) /\ Done(u) /\ Stopping(u)
<1>0. TypeOK
  BY StepTypes
<1> DEFINE Free(t) == ~Busy(t) \/ \E o \in Building \cup Bridging \cup {"ifNotLive"} : At(t, o)
<1>1. ASSUME NEW p \in Publish, Publishes(p) \/ Asked(p) \/ NegotiationFails(p) PROVE Free(Request(p))
  <2>1. CASE Admit(p)
    BY <2>1 DEF Admit, Building
  <2>2. CASE AddGuest(p)
    <3>1. At(Request(p), "addRow") \/ At(Request(p), "link")
      BY <2>2, Zenon DEF AddGuest
    <3> QED
      BY <3>1 DEF Building
  <2>3. CASE GetRelay(p) \/ Answer(p) \/ Register(p) \/ NameSession(p) \/ NegotiationFails(p) \/ Publishes(p)
    BY <2>3 DEF GetRelay, Answer, Register, NameSession, NegotiationFails, Publishes, Fresh, Building
  <2> QED
    BY <1>1, <2>1, <2>2, <2>3 DEF Asked
<1>2. ASSUME NEW p \in Publish, Runs(p) PROVE Free(<<p, "bridge">>)
  <2>1. CASE VideoArrives(p)
    BY <2>1 DEF VideoArrives, Stages, Staged
  <2>2. CASE Install(p) \/ Connecting(p)
    BY <2>2 DEF Install, Connecting, Bridging
  <2> QED
    BY <1>2, <2>1, <2>2 DEF Runs
<1>3. ASSUME NEW p \in Publish, Register(p) \/ Watchdog(p) PROVE Free(<<p, "watchdog">>)
  <2>1. CASE Register(p)
    BY <1>0, <2>1, TasksAre, Heads DEF Register, Stages, Staged, Registering
  <2>2. CASE Watchdog(p)
    BY <2>2 DEF Watchdog, Waits
  <2> QED
    BY <1>3, <2>1, <2>2
<1>4. ASSUME NEW p \in Publish, Lost(p) \/ Closed(p) PROVE Free(<<p, "callback">>)
  BY <1>4 DEF Lost, Closed
<1>5. ASSUME NEW c \in Caller, Teardown(c) \/ DeleteSource(c) PROVE Free(c)
  BY <1>5 DEF Teardown, DeleteSource, Call
<1> HIDE DEF Free
<1>6. \/ todo'[u] = todo[u] \/ Free(u)
      \/ \E o \in Clearing : At(u, o) /\ Done(u) /\ Stopping(u)
  BY <1>1, <1>2, <1>3, <1>4, <1>5, Movers
<1> QED
  BY <1>6 DEF Free

\* Who clears has nothing but that to do, and does it in order.
LEMMA OwesStay ==
  ASSUME IInv, Lists, Stages, Next, NEW op \in Clearing, NEW u \in Task, Owes(u, op), ~(Stopping(u) /\ At(u, op))
  PROVE  Owes(u, op)'
<1>0. TypeOK /\ kind' = kind
  BY StepTypes
<1>1. todo[u] \in Seq(Clearing) /\ Busy(u) /\ Has(todo[u], op) /\ ~Waits(u)
  BY <1>0, OfKind DEF Owes
<1>2. ~\E o \in Building \cup Bridging \cup {"ifNotLive"} : At(u, o)
  <2>1. Head(todo[u]) \in Clearing
    BY <1>1, RestOf DEF Busy
  <2> QED
    BY <2>1 DEF At, Building, Bridging, Clearing
<1>3. CASE todo'[u] = todo[u]
  BY <1>1, <1>3 DEF Owes, Waits, At, Busy
<1>4. ASSUME NEW o \in Clearing, At(u, o), Done(u), Stopping(u) PROVE Owes(u, op)'
  <2>1. Has(todo'[u], op) /\ todo'[u] = Tail(todo[u])
    <3>1. o # op
      BY <1>4
    <3> QED
      BY <1>0, <1>1, <1>4, <3>1, StepDone, DoneLists
  <2>2. todo'[u] \in Seq(Clearing)
    BY <1>1, <2>1 DEF Busy
  <2>3. todo'[u] # <<>>
    BY <2>1, HasNone
  <2>4. Head(todo'[u]) # "ifNotLive"
    BY <2>2, <2>3, RestOf DEF Clearing
  <2> QED
    BY <2>1, <2>4 DEF Owes, Waits, At, Busy
<1> QED
  BY <1>1, <1>2, <1>3, <1>4, Moves

\* Who begins to stop has all of it to do.
LEMMA StopOwes ==
  ASSUME kind \in {"persistent", "guest"}, kind' = kind, NEW t \in Task, todo'[t] = Stop(kind),
         NEW op \in {"unbridge"} \cup Cleanup(kind)
  PROVE  Owes(t, op)'
<1>1. Stop(kind) \in Seq(Clearing) /\ Has(Stop(kind), op)
  BY ScriptsInOrder
<1>2. Stop(kind) # <<>>
  BY <1>1, HasNone
<1>3. Head(Stop(kind)) \in Clearing
  BY <1>1, <1>2, RestOf
<1>4. Head(Stop(kind)) # "ifNotLive"
  BY <1>3 DEF Clearing
<1> QED
  BY <1>1, <1>4 DEF Owes, Waits, At, Busy

\* A request that is past its check, and has not yet published, is still that, or tears
\* down, or has published.
LEMMA AdmittedStays ==
  ASSUME IInv, Lists, Stages, Next, NEW p \in Publish, Admitted(p), NEW op \in Cleanup(kind)
  PROVE  Admitted(p)' \/ peer' # None \/ Owes(Request(p), op)'
<1> DEFINE t == Request(p)
<1>0. TypeOK /\ kind' = kind /\ kind \in {"persistent", "guest"} /\ t \in Task /\ p # None
  BY StepTypes, TasksAre, WhipAssumption
<1>1. Has(todo[t], "register") /\ ~Has(todo[t], "ifNoPeer") /\ Busy(t)
  BY <1>0, Heads DEF Admitted, Registering
<1>2. CASE todo'[t] = todo[t]
  BY <1>1, <1>2 DEF Admitted, Registering
<1>3. CASE NegotiationFails(p)
  BY <1>0, <1>3, StepTurns, StopOwes DEF NegotiationFails
<1>4. CASE Register(p)
  BY <1>0, <1>4 DEF Register
<1>5. ASSUME NEW o, At(t, o), Done(t), o # "register" PROVE Admitted(p)'
  BY <1>0, <1>1, <1>5, StepDone DEF Admitted, Registering
<1>6. ASSUME Asked(p), ~Register(p) PROVE \E o : At(t, o) /\ Done(t) /\ o # "register"
  <2>1. CASE Admit(p)
    <3>1. ~At(t, "ifNoPeer")
      BY <1>0, <1>1, Heads
    <3>2. <<"ifNotBusy", "ifNoPeer">> \in Follows(kind)
      BY DEF Follows
    <3>3. ~At(t, "ifNotBusy")
      BY <1>0, <1>1, <3>2, Heads, Orders
    <3> QED
      BY <2>1, <3>1, <3>3 DEF Admit
  <2>2. CASE AddGuest(p)
    <3>1. Done(t) /\ (At(t, "addRow") \/ At(t, "link"))
      BY <2>2, Zenon DEF AddGuest
    <3> QED
      BY <3>1
  <2>3. CASE GetRelay(p) \/ Answer(p) \/ NameSession(p)
    BY <2>3 DEF GetRelay, Answer, NameSession
  <2> QED
    BY <1>6, <2>1, <2>2, <2>3 DEF Asked
<1>7. ASSUME ~Asked(p), ~NegotiationFails(p) PROVE todo'[t] = todo[t]
  <2>1. \E o \in Building : At(t, o)
    <3>1. todo[t] \in Seq(Building)
      BY <1>0, <1>1, OfKind DEF Building
    <3> QED
      BY <1>1, <3>1, RestOf DEF At, Busy
  <2>2. ~Publishes(p) /\ ~\E o \in Clearing : At(t, o)
    BY <1>1, <2>1 DEF Publishes, Fresh, At, Building, Clearing
  <2> QED
    BY <1>0, <1>7, <2>2, Movers, TasksAre
<1> QED
  BY <1>2, <1>3, <1>4, <1>5, <1>6, <1>7

\* Who takes the peer has the rest of stop_ingest() to do.
LEMMA UnbridgeOwes ==
  ASSUME IInv, Lists, Next, NEW t \in Task, Unbridge(t), NEW op \in Cleanup(kind)
  PROVE  Owes(t, op)'
<1>0. TypeOK /\ kind' = kind /\ kind \in {"persistent", "guest"}
  BY StepTypes
<1>1. At(t, "unbridge") /\ Done(t) /\ Busy(t)
  BY DEF Unbridge, At
<1>2. Has(todo'[t], op) /\ todo'[t] = Tail(todo[t])
  <2>1. <<"unbridge", op>> \in Follows(kind)
    BY DEF Follows
  <2> QED
    BY <1>0, <1>1, <2>1, StepDone, DoneLists
<1>3. todo'[t] \in Seq(Clearing) /\ todo'[t] # <<>>
  <2>1. Has(todo[t], "unbridge") /\ ~Waits(t)
    BY <1>0, <1>1, Heads DEF Waits, At
  <2>2. todo[t] \in Seq(Clearing)
    BY <1>0, <2>1, OfKind DEF Clearing
  <2>3. todo'[t] \in Seq(Clearing)
    BY <1>1, <1>2, <2>2 DEF Busy
  <2>4. todo'[t] # <<>>
    BY <1>2, HasNone
  <2> QED
    BY <2>3, <2>4
<1>4. Head(todo'[t]) # "ifNotLive"
  BY <1>3, RestOf DEF Clearing
<1> QED
  BY <1>2, <1>4 DEF Owes, Waits, At, Busy

\* Whoever is to clear something still is, until it is done.
LEMMA DebtStays ==
  ASSUME IInv, Lists, Stages, Next, NEW op \in Cleanup(kind) \cap Clearing,
         \A t \in Task : ~(Stopping(t) /\ At(t, op)), Debt(op)
  PROVE  Debt(op)'
<1>1. CASE peer # None
  <2>1. \/ peer' = peer \/ \E p \in Publish : peer' = p
        \/ \E t \in Task : Unbridge(t)
    BY DEF Next, Publishes, Asked, Admit, AddGuest, GetRelay, Answer, Register, NameSession, NegotiationFails, Watchdog,
         Runs, VideoArrives, Install, Connecting, Reads, ReadFirst, Connected, StoreHeader, OutputEnds, Lost, Closed, Exits,
         Stopping, Uninstall, Drop, DropGuest, Forget, Teardown, DeleteSource, Call, Unlinked
  <2>2. CASE \E t \in Task : Unbridge(t)
    BY <2>2, UnbridgeOwes DEF Debt
  <2>3. CASE peer' = peer \/ \E p \in Publish : peer' = p
    BY <1>1, <2>3, WhipAssumption DEF Debt
  <2> QED
    BY <2>1, <2>2, <2>3
<1>2. ASSUME NEW p \in Publish, Admitted(p) PROVE Debt(op)'
  <2>1. Request(p) \in Task
    BY TasksAre
  <2> QED
    BY <1>2, <2>1, AdmittedStays, Zenon DEF Debt
<1>3. ASSUME NEW u \in Task, Owes(u, op) PROVE Debt(op)'
  <2>1. Owes(u, op)'
    BY <1>3, OwesStay
  <2> QED
    BY <2>1 DEF Debt
<1> QED
  BY <1>1, <1>2, <1>3 DEF Debt

\* Who does what clears something, has cleared it.
LEMMA Cleared ==
  ASSUME NEW t \in Task, Stopping(t)
  PROVE  /\ At(t, "dropFeed") => ~relay' /\ ~header'
         /\ At(t, "disconnected") => status' = "Disconnected"
         /\ At(t, "deleteRow") => ~row'
         /\ At(t, "unlink") => ~Linked'
<1>1. CASE Unbridge(t) \/ Uninstall(t) \/ Forget(t)
  BY <1>1 DEF Unbridge, Uninstall, Forget, At
<1>2. CASE Drop(t)
  BY <1>2 DEF Drop, At
<1>3. CASE DropGuest(t)
  <2>1. CASE At(t, "deleteRow")
    BY <1>3, <2>1, Zenon DEF DropGuest, At
  <2>2. CASE At(t, "unlink") /\ ~At(t, "deleteRow")
    <3>1. guest' = IF Linked THEN "left" ELSE guest
      BY <1>3, <2>2, Zenon DEF DropGuest
    <3> QED
      BY <2>2, <3>1 DEF Linked, At
  <2>3. At(t, "deleteRow") \/ At(t, "unlink")
    BY <1>3, Zenon DEF DropGuest
  <2> QED
    BY <2>1, <2>2, <2>3 DEF At
<1> QED
  BY <1>1, <1>2, <1>3 DEF Stopping

\* A request that has passed its checks, and does the next thing, has passed its checks.
LEMMA BuilderAdmitted ==
  ASSUME IInv, Lists, Next, NEW p \in Publish, NEW op \in {"addRow", "link", "relay"},
         At(Request(p), op), Done(Request(p))
  PROVE  Admitted(p)'
<1> DEFINE t == Request(p)
<1>0. TypeOK /\ kind' = kind /\ t \in Task
  BY StepTypes, TasksAre
<1>1. Has(todo'[t], "register")
  <2>1. <<op, "register">> \in Follows(kind)
    BY DEF Follows
  <2> QED
    BY <1>0, <2>1, StepDone
<1>2. ~Has(todo'[t], "ifNoPeer")
  <2>1. CASE op = "relay"
    <3>1. <<op, "ifNoPeer">> \in Barred
      BY <2>1 DEF Barred
    <3> QED
      BY <1>0, <3>1, StepDone
  <2>2. CASE op # "relay"
    <3>1. Has(todo[t], op) /\ op \in Building \cap Adds
      BY <1>0, <2>2, Heads DEF Building, Adds
    <3>2. kind = "guest"
      BY <1>0, <3>1, OfKind
    <3>3. ~Has(todo[t], "ifNoPeer")
      BY <1>0, <3>2, OfKind DEF Building, Checks
    <3> QED
      BY <1>0, <3>3, StepDone
  <2> QED
    BY <2>1, <2>2
<1> QED
  BY <1>1, <1>2 DEF Admitted, Registering

\* What there is to clear somebody is to clear.
LEMMA ToClearKept == ASSUME IInv, Lists, Stages, ToClear, [Next]_vars PROVE ToClear'
<1>1. CASE Next
  <2>0. kind' = kind /\ kind \in {"persistent", "guest"}
    BY <1>1, StepTypes
  <2>1. late => late'
    BY <1>1 DEF Next, Publishes, Asked, Admit, AddGuest, GetRelay, Answer, Register, NameSession, NegotiationFails, Watchdog,
         Runs, VideoArrives, Install, Connecting, Reads, ReadFirst, Connected, StoreHeader, OutputEnds, Lost, Closed, Exits,
         Stopping, Unbridge, Uninstall, Drop, DropGuest, Forget, Teardown, DeleteSource, Call, Unlinked
  <2>2. ASSUME relay' PROVE Debt("dropFeed")'
    <3>1. relay \/ \E p \in Publish : GetRelay(p)
      BY <1>1, <2>2 DEF Next, Publishes, Asked, Admit, AddGuest, Answer, Register, NameSession, NegotiationFails, Watchdog,
         Runs, VideoArrives, Install, Connecting, Reads, ReadFirst, Connected, StoreHeader, OutputEnds, Lost, Closed, Exits,
         Stopping, Unbridge, Uninstall, Drop, DropGuest, Forget, Teardown, DeleteSource, Call, Unlinked, books
    <3>2. CASE relay
      <4>1. "dropFeed" \in Cleanup(kind) \cap Clearing
        BY DEF Cleanup, Clearing
      <4> QED
        BY <1>1, <2>2, <3>2, <4>1, DebtStays, Cleared DEF ToClear
    <3>3. ASSUME NEW p \in Publish, GetRelay(p) PROVE Debt("dropFeed")'
      BY <1>1, <3>3, BuilderAdmitted DEF GetRelay, Debt
    <3> QED
      BY <3>1, <3>2, <3>3
  <2>3. ASSUME header', ~late' PROVE Debt("dropFeed")'
    <3>1. header \/ \E p \in Publish : StoreHeader(p)
      BY <1>1, <2>3 DEF Next, Publishes, Asked, Admit, AddGuest, GetRelay, Answer, Register, NameSession, NegotiationFails, Watchdog,
         Runs, VideoArrives, Install, Connecting, Reads, ReadFirst, Connected, OutputEnds, Lost, Closed, Exits,
         Stopping, Unbridge, Uninstall, Drop, DropGuest, Forget, Teardown, DeleteSource, Call, Unlinked, books
    <3>2. CASE header
      <4>1. "dropFeed" \in Cleanup(kind) \cap Clearing
        BY DEF Cleanup, Clearing
      <4> QED
        BY <1>1, <2>1, <2>3, <3>2, <4>1, DebtStays, Cleared DEF ToClear
    <3>3. ASSUME NEW p \in Publish, StoreHeader(p) PROVE Debt("dropFeed")'
      BY <2>3, <3>3 DEF StoreHeader, Debt
    <3> QED
      BY <3>1, <3>2, <3>3
  <2>4. ASSUME status' # "Disconnected", ~late' PROVE Debt("disconnected")'
    <3>1. status' = status \/ \E p \in Publish : Connecting(p) \/ ReadFirst(p)
      <4>1. CASE \E t \in Task : Drop(t)
        BY <2>4, <4>1 DEF Drop
      <4> QED
        BY <1>1, <4>1 DEF Next, Publishes, Asked, Admit, AddGuest, GetRelay, Answer, Register, NameSession, NegotiationFails, Watchdog,
         Runs, VideoArrives, Install, Reads, Connected, StoreHeader, OutputEnds, Lost, Closed, Exits,
         Stopping, Unbridge, Uninstall, DropGuest, Forget, Teardown, DeleteSource, Call, Unlinked, books
    <3>2. CASE status' = status
      <4>1. "disconnected" \in Cleanup(kind) \cap Clearing
        BY DEF Cleanup, Clearing
      <4> QED
        BY <1>1, <2>1, <2>4, <3>2, <4>1, DebtStays, Cleared DEF ToClear
    <3>3. ASSUME NEW p \in Publish, Connecting(p) \/ ReadFirst(p), status' # status PROVE Debt("disconnected")'
      BY <2>4, <3>3 DEF Connecting, ReadFirst, Debt
    <3> QED
      BY <3>1, <3>2, <3>3
  <2>5. ASSUME kind = "guest", row' PROVE Debt("deleteRow")'
    <3>1. row \/ \E p \in Publish : AddGuest(p) /\ At(Request(p), "addRow")
      <4> SUFFICES ASSUME ~row PROVE \E p \in Publish : AddGuest(p) /\ At(Request(p), "addRow")
        OBVIOUS
      <4>1. row' # row
        BY <2>5
      <4>2. ~\E t \in Task : DropGuest(t)
        <5> SUFFICES ASSUME NEW t \in Task, DropGuest(t) PROVE FALSE
          OBVIOUS
        <5>1. row' = FALSE \/ row' = row
          BY Zenon DEF DropGuest
        <5> QED
          BY <2>5, <4>1, <5>1
      <4>3. ~\E c \in Caller : DeleteSource(c)
        BY <2>5 DEF DeleteSource
      <4>4. \E p \in Publish : AddGuest(p)
        BY <1>1, <4>1, <4>2, <4>3 DEF Next, Publishes, Asked, Admit, GetRelay, Answer, Register, NameSession, NegotiationFails, Watchdog,
         Runs, VideoArrives, Install, Connecting, Reads, ReadFirst, Connected, StoreHeader, OutputEnds, Lost, Closed, Exits,
         Stopping, Unbridge, Uninstall, Drop, Forget, Teardown, Call, Unlinked
      <4> QED
        BY <4>1, <4>4, Zenon DEF AddGuest
    <3>2. CASE row
      <4>1. "deleteRow" \in Cleanup(kind) \cap Clearing
        BY <2>5 DEF Cleanup, Clearing
      <4> QED
        BY <1>1, <2>5, <3>2, <4>1, DebtStays, Cleared DEF ToClear
    <3>3. ASSUME NEW p \in Publish, AddGuest(p), At(Request(p), "addRow") PROVE Debt("deleteRow")'
      <4>1. Done(Request(p))
        BY <3>3 DEF AddGuest
      <4> QED
        BY <1>1, <3>3, <4>1, BuilderAdmitted DEF Debt
    <3> QED
      BY <3>1, <3>2, <3>3
  <2>6. ASSUME kind = "guest", Linked' PROVE Debt("unlink")'
    <3>1. Linked \/ \E p \in Publish : AddGuest(p) /\ At(Request(p), "link")
      <4> SUFFICES ASSUME ~Linked PROVE \E p \in Publish : AddGuest(p) /\ At(Request(p), "link")
        OBVIOUS
      <4>1. guest' # guest /\ guest' \in {"connecting", "connected"}
        BY <2>6 DEF Linked
      <4>2. ~\E t \in Task : DropGuest(t)
        <5> SUFFICES ASSUME NEW t \in Task, DropGuest(t) PROVE FALSE
          OBVIOUS
        <5>1. guest' = guest \/ guest' = IF Linked THEN "left" ELSE guest
          BY Zenon DEF DropGuest
        <5> QED
          BY <4>1, <5>1
      <4>3. ~\E p \in Publish : Connected(p)
        BY <4>1 DEF Connected
      <4>4. \E p \in Publish : AddGuest(p)
        BY <1>1, <4>1, <4>2, <4>3 DEF Next, Publishes, Asked, Admit, GetRelay, Answer, Register, NameSession, NegotiationFails, Watchdog,
         Runs, VideoArrives, Install, Connecting, Reads, ReadFirst, StoreHeader, OutputEnds, Lost, Closed, Exits,
         Stopping, Unbridge, Uninstall, Drop, Forget, Teardown, DeleteSource, Call, Unlinked
      <4> QED
        BY <4>1, <4>4, Zenon DEF AddGuest
    <3>2. CASE Linked
      <4>1. "unlink" \in Cleanup(kind) \cap Clearing
        BY <2>6 DEF Cleanup, Clearing
      <4> QED
        BY <1>1, <2>6, <3>2, <4>1, DebtStays, Cleared DEF ToClear
    <3>3. ASSUME NEW p \in Publish, AddGuest(p), At(Request(p), "link") PROVE Debt("unlink")'
      <4>1. Done(Request(p))
        BY <3>3 DEF AddGuest
      <4> QED
        BY <1>1, <3>3, <4>1, BuilderAdmitted DEF Debt
    <3> QED
      BY <3>1, <3>2, <3>3
  <2> QED
    BY <2>0, <2>2, <2>3, <2>4, <2>5, <2>6, Zenon DEF ToClear
<1>2. CASE UNCHANGED vars
  <2>1. UNCHANGED <<kind, row, guest, peer, relay, header, status, late, todo>>
    BY <1>2 DEF vars, books
  <2> QED
    BY <2>1, Zenon DEF ToClear, Debt, Admitted, Registering, Owes, Waits, At, Busy, Linked
<1> QED
  BY <1>1, <1>2

\* Nothing is to be done, nothing is taken and nothing is there in the beginning.
LEMMA InitDebts == Init => Lists /\ Stages /\ Takes /\ Begins /\ ToClear
<1> SUFFICES ASSUME Init PROVE Lists /\ Stages /\ Takes /\ Begins /\ ToClear
  OBVIOUS
<1>0. /\ \A t \in Task : todo[t] = <<>> /\ took[t] = None /\ ~Busy(t) /\ \A op : ~Has(todo[t], op)
      /\ kind \in {"persistent", "guest"} /\ None \notin Publish
  BY HasNone, WhipAssumption DEF Init, Busy
<1>1. Lists
  <2>1. <<>> \in Seq(Clearing) /\ InOrder(<<>>, kind)
    BY <1>0, ScriptsInOrder
  <2> QED
    BY <1>0, <2>1 DEF Lists, Fits
<1>2. Stages
  <2> SUFFICES ASSUME NEW p \in Publish PROVE Staged(p)
    BY DEF Stages
  <2>1. /\ conn[p] = "none" /\ ffmpeg[p] = "unborn" /\ reader[p] = "off" /\ peer # p
        /\ ~Busy(<<p, "watchdog">>) /\ ~Busy(<<p, "bridge">>) /\ ~Busy(<<p, "callback">>) /\ ~Has(todo[Request(p)], "register")
    BY <1>0, TasksAre DEF Init
  <2> QED
    BY <2>1 DEF Staged, Registering
<1>3. Takes
  BY <1>0 DEF Takes
<1>4. Begins
  <2>1. \A p \in Publish : conn[p] = "none" /\ ~Busy(Request(p))
    BY <1>0, TasksAre DEF Init
  <2> QED
    BY <2>1 DEF Begins, Init
<1>5. ToClear
  BY DEF ToClear, Init, Linked
<1> QED
  BY <1>1, <1>2, <1>3, <1>4, <1>5

\* What is to be done fits and is in order, and what is there somebody is to clear
\* (start_ingest(), stop_ingest(), webrtc_ingest.rs 149-260, 676-737).
THEOREM InductiveDebts == Spec => [](Lists /\ Stages /\ Takes /\ Begins /\ ToClear)
<1> DEFINE J == IInv /\ Lists /\ Stages /\ Takes /\ Begins /\ ToClear
<1>1. Init => J
  BY InitIInv, InitDebts
<1>2. J /\ IInv' /\ [Next]_vars => J'
  <2> SUFFICES ASSUME J, IInv', [Next]_vars PROVE J'
    OBVIOUS
  <2>1. Lists'
    BY ListsKept DEF Begins
  <2>2. Stages' /\ Takes' /\ Begins' /\ ToClear'
    BY StagesKept, TakesKept, BeginsKept, ToClearKept
  <2> QED
    BY <2>1, <2>2
<1>3. J => Lists /\ Stages /\ Takes /\ Begins /\ ToClear
  OBVIOUS
<1> QED
  BY <1>1, <1>2, <1>3, Inductive, PTL DEF Spec

\* When all is over nobody has anything to do.
LEMMA OverIdle ==
  ASSUME TypeOK, Over, peer = None
  PROVE  (\A t \in Task : ~Busy(t)) /\ \A op : ~\E t \in Task : Owes(t, op)
<1>1. ASSUME NEW t \in Task PROVE ~Busy(t)
  <2>1. CASE t \in Caller
    BY <2>1 DEF Over
  <2>2. CASE t \in Publish \X Role
    <3>1. PICK p \in Publish, r \in Role : t = <<p, r>>
      BY <2>2
    <3>2. p # None
      BY WhipAssumption
    <3> QED
      BY <3>1, <3>2 DEF Over, Settled
  <2> QED
    BY <2>1, <2>2 DEF Task
<1> QED
  BY <1>1, Heads DEF Owes

\* Nobody has anything to clear when all is over and there is no peer.
LEMMA NoDebt == ASSUME TypeOK, Over, peer = None, NEW op PROVE ~Debt(op)
<1>1. \A p \in Publish : Request(p) \in Task
  BY TasksAre
<1> QED
  BY <1>1, OverIdle, Heads DEF Debt, Admitted, Registering

\* However requests, watchdogs, callbacks and deletions overlap, when all is over a
\* source without a peer has nothing else (webrtc_ingest.rs 690-732).
THEOREM AlwaysLeavesNothing == Spec => []LeavesNothing
<1>1. IInv /\ ToClear => LeavesNothing
  <2> SUFFICES ASSUME IInv, ToClear, Over, peer = None, ~late
               PROVE  ~relay /\ ~header /\ child = None /\ status = "Disconnected" /\ \A p \in Publish : ~Running(p)
    BY DEF LeavesNothing
  <2>1. \A op : ~Debt(op)
    BY NoDebt DEF IInv
  <2>2. ~relay /\ ~header /\ status = "Disconnected"
    BY <2>1 DEF ToClear
  <2>3. child = None
    BY DEF IInv, BridgeHasPeer
  <2>4. \A p \in Publish : ~Running(p)
    <3>1. \A p \in Publish : ~Busy(<<p, "bridge">>) /\ p # None
      BY OverIdle, TasksAre, WhipAssumption DEF IInv
    <3> QED
      BY <2>3, <3>1 DEF IInv, NoStray, At
  <2> QED
    BY <2>2, <2>3, <2>4
<1> QED
  BY <1>1, Inductive, InductiveDebts, PTL

\* A guest's source goes with the guest, and the record of the guest is not left as
\* connecting or connected (webrtc_ingest.rs 664-668, 709-721).
THEOREM AlwaysGuestLeaves == Spec => []GuestLeaves
<1>1. IInv /\ ToClear => GuestLeaves
  BY NoDebt DEF GuestLeaves, ToClear, IInv
<1> QED
  BY <1>1, Inductive, InductiveDebts, PTL

-----------------------------------------------------------------------------
(* As long as nobody overlaps.                                             *)

\* Whoever has something to do for a publish keeps it from being settled.
LEMMA MineIs ==
  ASSUME NEW p \in Publish
  PROVE  /\ \A r \in Role : Busy(<<p, r>>) => Mine(p)
         /\ Busy(Request(p)) => Mine(p)
         /\ conn[p] \in {"up", "down", "closing"} => Mine(p)
         /\ reader[p] \notin {"off", "gone"} => Mine(p)
         /\ peer = p => Mine(p)
<1>1. (\A r \in Role : Busy(<<p, r>>) => Mine(p)) /\ (Busy(Request(p)) => Mine(p))
  BY DEF Mine, Settled, Request, Role
<1> QED
  BY <1>1 DEF Mine, Settled

\* Only a new publish adds to the publishes that are not settled.
LEMMA MineStays ==
  ASSUME IInv, Lists, Stages, Takes, Next, NEW p \in Publish, Mine(p)',
         todo'[Request(p)] = todo[Request(p)] \/ ~Publishes(p)
  PROVE  Mine(p)
<1>0. /\ TypeOK /\ kind' = kind /\ p # None
      /\ conn \in [Publish -> {"none", "up", "down", "closing", "closed"}] /\ DOMAIN reader = Publish
      /\ took \in [Task -> Publish \cup {None}]
  BY StepTypes, WhipAssumption DEF TypeOK
<1>1. ASSUME NEW r \in Role, Busy(<<p, r>>)' PROVE Mine(p)
  <2> DEFINE u == <<p, r>>
  <2>1. u \in Task
    BY DEF Task
  <2>2. CASE Busy(u)
    BY <2>2, MineIs
  <2>3. CASE ~Busy(u)
    <3>1. todo'[u] # todo[u] /\ ~\E o : At(u, o)
      BY <1>1, <2>3 DEF Busy, At
    <3>2. u \notin Caller
      BY TasksAre, WhipAssumption DEF Task
    <3>3. \/ u = Request(p) /\ (Asked(p) \/ NegotiationFails(p))
          \/ u = <<p, "watchdog">> /\ (Register(p) \/ Watchdog(p))
          \/ u = <<p, "bridge">> /\ Runs(p)
          \/ u = <<p, "callback">> /\ (Lost(p) \/ Closed(p))
      BY <2>1, <3>1, <3>2, Movers, TasksAre DEF Request
    <3>4. CASE u = Request(p) /\ (Asked(p) \/ NegotiationFails(p))
      <4>1. \E o : At(u, o)
        BY <3>4, Zenon DEF Asked, Admit, AddGuest, GetRelay, Answer, Register, NameSession, NegotiationFails
      <4> QED
        BY <3>1, <4>1
    <3>5. CASE u = <<p, "watchdog">> /\ (Register(p) \/ Watchdog(p))
      <4>1. Register(p)
        BY <3>1, <3>5 DEF Watchdog, Waits
      <4> QED
        BY <4>1, MineIs DEF Register, At
    <3>6. CASE u = <<p, "bridge">> /\ Runs(p)
      <4>1. conn[p] = "up"
        BY <3>1, <3>6 DEF Runs, VideoArrives, Install, Connecting
      <4> QED
        BY <4>1, MineIs
    <3>7. CASE u = <<p, "callback">> /\ (Lost(p) \/ Closed(p))
      BY <3>7, MineIs DEF Lost, Closed
    <3> QED
      BY <3>3, <3>4, <3>5, <3>6, <3>7
  <2> QED
    BY <2>2, <2>3
<1>2. ASSUME conn'[p] \in {"up", "down", "closing"} PROVE Mine(p)
  <2>1. CASE conn[p] \in {"up", "down", "closing"}
    BY <2>1, MineIs
  <2>2. CASE conn'[p] # conn[p]
    <3>1. CASE \E q \in Publish : Answer(q)
      <4>1. Answer(p)
        BY <1>0, <2>2, <3>1 DEF Answer
      <4> QED
        BY <4>1, MineIs DEF Answer, At
    <3>2. CASE \E q \in Publish : Lost(q) \/ Closed(q)
      <4>1. Lost(p) \/ Closed(p)
        BY <1>0, <2>2, <3>2 DEF Lost, Closed
      <4> QED
        BY <4>1, MineIs DEF Lost, Closed
    <3>3. ASSUME NEW t \in Task, Forget(t) PROVE Mine(p)
      <4>1. took[t] = p
        BY <1>0, <2>2, <3>3 DEF Forget
      <4> QED
        BY <4>1 DEF Mine
    <3>4. CASE conn' = conn
      BY <2>2, <3>4
    <3> QED
      BY <3>1, <3>2, <3>3, <3>4 DEF Next, Publishes, Asked, Admit, AddGuest, GetRelay, Register, NameSession, NegotiationFails, Watchdog,
         Runs, VideoArrives, Install, Connecting, Reads, ReadFirst, Connected, StoreHeader, OutputEnds, Exits,
         Stopping, Unbridge, Uninstall, Drop, DropGuest, Teardown, DeleteSource, Call, Unlinked
  <2> QED
    BY <1>2, <2>1, <2>2
<1>3. ASSUME reader'[p] \notin {"off", "gone"} PROVE Mine(p)
  <2>1. CASE reader[p] \notin {"off", "gone"}
    BY <2>1, MineIs
  <2>2. CASE reader'[p] # reader[p]
    <3>1. CASE \E q \in Publish : Connecting(q)
      <4>1. Connecting(p)
        BY <1>0, <2>2, <3>1 DEF Connecting
      <4>2. Busy(<<p, "bridge">>) /\ "bridge" \in Role
        BY <4>1 DEF Connecting, At, Role
      <4> QED
        BY <4>2, MineIs
    <3>2. CASE \E q \in Publish : Reads(q)
      <4>1. Reads(p)
        BY <1>0, <2>2, <3>2 DEF Reads, ReadFirst, Connected, StoreHeader, OutputEnds
      <4> QED
        BY <4>1, MineIs DEF Reads, ReadFirst, Connected, StoreHeader, OutputEnds
    <3>3. CASE reader' = reader
      BY <2>2, <3>3
    <3> QED
      BY <3>1, <3>2, <3>3 DEF Next, Publishes, Asked, Admit, AddGuest, GetRelay, Answer, Register, NameSession, NegotiationFails, Watchdog,
         Runs, VideoArrives, Install, Lost, Closed, Exits,
         Stopping, Unbridge, Uninstall, Drop, DropGuest, Forget, Teardown, DeleteSource, Call, Unlinked
  <2> QED
    BY <1>3, <2>1, <2>2
<1>4. ASSUME peer' = p PROVE Mine(p)
  <2>1. peer' = peer \/ peer' = None \/ \E q \in Publish : Register(q) /\ peer' = q
    BY DEF Next, Publishes, Asked, Admit, AddGuest, GetRelay, Answer, Register, NameSession, NegotiationFails, Watchdog,
         Runs, VideoArrives, Install, Connecting, Reads, ReadFirst, Connected, StoreHeader, OutputEnds, Lost, Closed, Exits,
         Stopping, Unbridge, Uninstall, Drop, DropGuest, Forget, Teardown, DeleteSource, Call, Unlinked
  <2>2. CASE Register(p)
    BY <2>2, MineIs DEF Register, At
  <2> QED
    BY <1>0, <1>4, <2>1, <2>2, MineIs
<1>5. ASSUME NEW t \in Task, took'[t] = p PROVE Mine(p)
  <2>1. took' = took \/ \E u \in Task : took' = [took EXCEPT ![u] = peer] \/ took' = [took EXCEPT ![u] = None]
    BY DEF Next, Publishes, Asked, Admit, AddGuest, GetRelay, Answer, Register, NameSession, NegotiationFails, Watchdog,
         Runs, VideoArrives, Install, Connecting, Reads, ReadFirst, Connected, StoreHeader, OutputEnds, Lost, Closed, Exits,
         Stopping, Unbridge, Uninstall, Drop, DropGuest, Forget, Teardown, DeleteSource, Call, Unlinked
  <2>2. took[t] = p \/ peer = p
    BY <1>0, <1>5, <2>1
  <2> QED
    BY <2>2 DEF Mine
<1> QED
  BY <1>1, <1>2, <1>3, <1>4, <1>5 DEF Mine, Settled

\* When all is over there is nobody.
LEMMA OverNobody == ASSUME TypeOK, Lists, Takes, Over, peer = None, NEW p \in Publish PROVE ~Mine(p)
<1>1. \A t \in Task : took[t] = None
  BY OverIdle, Heads DEF Takes
<1>2. p # None
  BY WhipAssumption
<1> QED
  BY <1>1, <1>2 DEF Mine, Over

\* Who is on the way to publish is alone, but for the callback of its own connection.
LEMMA WhoIsBusy ==
  ASSUME TypeOK, Stages, One, Apart, NEW p \in Publish, Registering(p), NEW t \in Task, Busy(t)
  PROVE  t = Request(p) \/ (t = <<p, "callback">> /\ conn[p] \notin {"none", "up"})
<1>1. Busy(Request(p)) /\ Mine(p) /\ Staged(p)
  <2>1. Busy(Request(p))
    BY TasksAre, Heads DEF Registering
  <2> QED
    BY <2>1, MineIs DEF Stages
<1>2. t \notin Caller
  BY <1>1 DEF Apart
<1>3. PICK q \in Publish, r \in Role : t = <<q, r>>
  BY <1>2 DEF Task
<1>4. q = p
  BY <1>1, <1>3, MineIs DEF One
<1> QED
  BY <1>1, <1>3, <1>4 DEF Staged, Role, Request

\* Whose connection can no longer bring an ffmpeg stays so.
LEMMA UnfitStays == ASSUME IInv, Lists, Stages, Takes, Next, NEW p \in Publish, Unfit(p) PROVE Unfit(p)'
<1>0. /\ TypeOK /\ conn \in [Publish -> {"none", "up", "down", "closing", "closed"}] /\ kind' = kind
      /\ ffmpeg \in [Publish -> {"unborn", "running", "killed", "exited"}] /\ took \in [Task -> Publish \cup {None}]
  BY StepTypes DEF TypeOK
<1>1. ffmpeg'[p] = "unborn"
  <2>1. ASSUME NEW q \in Publish, VideoArrives(q) PROVE ffmpeg'[p] = "unborn"
    <3>1. q # p
      BY <2>1 DEF VideoArrives, Unfit
    <3> QED
      BY <1>0, <2>1, <3>1 DEF VideoArrives, Unfit
  <2>2. ASSUME NEW q \in Publish, ffmpeg' = Killed(q) \/ ffmpeg' = Unbridged \/ (Running(q) /\ ffmpeg' = [ffmpeg EXCEPT ![q] = "exited"])
        PROVE  ffmpeg'[p] = "unborn"
    BY <1>0, <2>2 DEF Unfit, Killed, Unbridged, Running
  <2>3. \/ ffmpeg' = ffmpeg \/ ffmpeg' = Unbridged
        \/ \E q \in Publish : VideoArrives(q) \/ ffmpeg' = Killed(q) \/ (Running(q) /\ ffmpeg' = [ffmpeg EXCEPT ![q] = "exited"])
    BY DEF Next, Publishes, Asked, Admit, AddGuest, GetRelay, Answer, Register, NameSession, NegotiationFails, Watchdog,
         Runs, Install, Connecting, Reads, ReadFirst, Connected, StoreHeader, OutputEnds, Lost, Closed, Exits,
         Stopping, Unbridge, Uninstall, Drop, DropGuest, Forget, Teardown, DeleteSource, Call, Unlinked
  <2> QED
    BY <2>1, <2>2, <2>3 DEF Unfit
<1>2. conn'[p] \notin {"none", "up"}
  <2>1. ASSUME NEW q \in Publish, Answer(q) PROVE conn'[p] \notin {"none", "up"}
    <3>1. Has(todo[Request(q)], "answer")
      BY <1>0, <2>1, TasksAre, Heads DEF Answer
    <3>2. q # p
      BY <3>1 DEF Stages, Staged, Unfit
    <3> QED
      BY <1>0, <2>1, <3>2 DEF Answer, Unfit
  <2>2. CASE \E q \in Publish : Lost(q) \/ Closed(q)
    BY <1>0, <2>2 DEF Lost, Closed, Unfit
  <2>3. CASE \E t \in Task : Forget(t)
    BY <1>0, <2>3 DEF Forget, Unfit
  <2>4. CASE conn' = conn
    BY <2>4 DEF Unfit
  <2> QED
    BY <2>1, <2>2, <2>3, <2>4 DEF Next, Publishes, Asked, Admit, AddGuest, GetRelay, Register, NameSession, NegotiationFails, Watchdog,
         Runs, VideoArrives, Install, Connecting, Reads, ReadFirst, Connected, StoreHeader, OutputEnds, Exits,
         Stopping, Unbridge, Uninstall, Drop, DropGuest, Teardown, DeleteSource, Call, Unlinked
<1> QED
  BY <1>1, <1>2 DEF Unfit

\* Who is to take the peer still is, as long as there is one.
LEMMA DoomedStays == ASSUME IInv, Lists, Stages, Next, Doomed, peer' # None PROVE Doomed'
<1>1. PICK u \in Task : Owes(u, "unbridge")
  BY DEF Doomed
<1>2. ~(Stopping(u) /\ At(u, "unbridge"))
  <2> SUFFICES ASSUME Stopping(u), At(u, "unbridge") PROVE FALSE
    OBVIOUS
  <2>1. ~DropGuest(u)
    <3> SUFFICES ASSUME DropGuest(u) PROVE FALSE
      OBVIOUS
    <3>1. At(u, "deleteRow") \/ At(u, "unlink")
      BY Zenon DEF DropGuest
    <3> QED
      BY <3>1 DEF At
  <2> QED
    BY <2>1 DEF Stopping, Unbridge, Uninstall, Drop, Forget, At
<1>3. Owes(u, "unbridge")'
  BY <1>1, <1>2, OwesStay DEF Clearing
<1> QED
  BY <1>3 DEF Doomed

\* How a list changes: it is begun or given up for another, or its first operation is done.
LEMMA HowMoves ==
  ASSUME IInv, Lists, Begins, Next, NEW u \in Task, todo'[u] # todo[u]
  PROVE  \/ \E s \in {<<>>, Whip, Join, Bridge, Stop(kind), Delete} : todo'[u] = s
         \/ \E o : At(u, o) /\ Done(u) /\ (o = "unbridge" => Unbridge(u))
         \/ \E p \in Publish : Register(p) /\ u \in {Request(p), <<p, "watchdog">>}
<1>0. TypeOK /\ kind' = kind /\ kind \in {"persistent", "guest"}
  BY StepTypes
<1>t. ASSUME NEW s, Turn(u, s) PROVE todo'[u] = s
  BY <1>0, <1>t, StepTurns
<1>1. ASSUME NEW p \in Publish, u = Request(p), Publishes(p) \/ NegotiationFails(p)
      PROVE  \E s \in {<<>>, Whip, Join, Bridge, Stop(kind), Delete} : todo'[u] = s
  BY <1>t, <1>1 DEF Publishes, NegotiationFails
<1>2. ASSUME NEW p \in Publish, u = Request(p), Asked(p), ~Register(p)
      PROVE  todo'[u] = <<>> \/ \E o : At(u, o) /\ Done(u) /\ o # "unbridge"
  <2>1. CASE Admit(p)
    BY <1>t, <1>2, <2>1 DEF Admit
  <2>2. CASE AddGuest(p)
    <3>1. Done(u) /\ (At(u, "addRow") \/ At(u, "link"))
      BY <1>2, <2>2, Zenon DEF AddGuest
    <3> QED
      BY <3>1
  <2>3. CASE GetRelay(p) \/ Answer(p) \/ NameSession(p)
    BY <1>2, <2>3 DEF GetRelay, Answer, NameSession
  <2> QED
    BY <1>2, <2>1, <2>2, <2>3 DEF Asked
<1>3. ASSUME NEW p \in Publish, u = <<p, "watchdog">>, Watchdog(p)
      PROVE  todo'[u] = <<>> \/ \E o : At(u, o) /\ Done(u) /\ o # "unbridge"
  BY <1>t, <1>3 DEF Watchdog, Waits
<1>4. ASSUME NEW p \in Publish, u = <<p, "bridge">>, Runs(p)
      PROVE  todo'[u] \in {Bridge, Stop(kind)} \/ \E o : At(u, o) /\ Done(u) /\ o # "unbridge"
  BY <1>t, <1>4 DEF Runs, VideoArrives, Install, Connecting
<1>5. ASSUME NEW p \in Publish, u = <<p, "callback">>, Lost(p) \/ Closed(p) PROVE todo'[u] = Stop(kind)
  BY <1>t, <1>5 DEF Lost, Closed
<1>6. ASSUME Teardown(u) \/ DeleteSource(u) PROVE todo'[u] \in {Stop(kind), Delete}
  <2>1. CASE Teardown(u)
    <3>1. kind = "persistent"
      BY <1>0, <2>1 DEF Teardown, Begins
    <3> QED
      BY <1>t, <2>1, <3>1 DEF Teardown, Call
  <2>2. CASE DeleteSource(u)
    BY <1>t, <2>2 DEF DeleteSource, Call
  <2> QED
    BY <1>6, <2>1, <2>2
<1>7. ASSUME Stopping(u) PROVE \E o : At(u, o) /\ Done(u) /\ (o = "unbridge" => Unbridge(u))
  <2>1. CASE DropGuest(u)
    <3>1. Done(u) /\ (At(u, "deleteRow") \/ At(u, "unlink"))
      BY <2>1, Zenon DEF DropGuest
    <3> QED
      BY <3>1
  <2>2. CASE ~DropGuest(u)
    BY <1>7, <2>2 DEF Stopping, Unbridge, Uninstall, Drop, Forget
  <2> QED
    BY <2>1, <2>2
<1> QED
  <2>1. \/ \E p \in Publish : \/ u = Request(p) /\ (Publishes(p) \/ Asked(p) \/ NegotiationFails(p))
                              \/ u = <<p, "watchdog">> /\ (Register(p) \/ Watchdog(p))
                              \/ u = <<p, "bridge">> /\ Runs(p)
                              \/ u = <<p, "callback">> /\ (Lost(p) \/ Closed(p))
        \/ Teardown(u) \/ DeleteSource(u) \/ Stopping(u)
    BY Movers, Zenon
  <2>2. CASE Teardown(u) \/ DeleteSource(u)
    BY <1>6, <2>2
  <2>3. CASE Stopping(u)
    BY <1>7, <2>3
  <2>4. ASSUME NEW p \in Publish, u = Request(p), Publishes(p) \/ Asked(p) \/ NegotiationFails(p)
        PROVE  \/ \E s \in {<<>>, Whip, Join, Bridge, Stop(kind), Delete} : todo'[u] = s
               \/ \E o : At(u, o) /\ Done(u) /\ (o = "unbridge" => Unbridge(u))
               \/ Register(p)
    BY <1>1, <1>2, <2>4
  <2>5. ASSUME NEW p \in Publish, u = <<p, "watchdog">>, Register(p) \/ Watchdog(p)
        PROVE  \/ \E s \in {<<>>, Whip, Join, Bridge, Stop(kind), Delete} : todo'[u] = s
               \/ \E o : At(u, o) /\ Done(u) /\ (o = "unbridge" => Unbridge(u))
               \/ Register(p)
    BY <1>3, <2>5
  <2>6. ASSUME NEW p \in Publish, (u = <<p, "bridge">> /\ Runs(p)) \/ (u = <<p, "callback">> /\ (Lost(p) \/ Closed(p)))
        PROVE  \/ \E s \in {<<>>, Whip, Join, Bridge, Stop(kind), Delete} : todo'[u] = s
               \/ \E o : At(u, o) /\ Done(u) /\ (o = "unbridge" => Unbridge(u))
    BY <1>4, <1>5, <2>6
  <2> QED
    BY <2>1, <2>2, <2>3, <2>4, <2>5, <2>6

\* What a registration finds, and what it leaves.
LEMMA Registers ==
  ASSUME IInv, Lists, Stages, Next, NEW p \in Publish, Register(p)
  PROVE  /\ Registering(p) /\ ~Has(todo[Request(p)], "ifNotBusy") /\ ~Has(todo[Request(p)], "relay")
         /\ ffmpeg[p] = "unborn" /\ reader[p] = "off" /\ conn[p] # "none"
         /\ peer' = p /\ UNCHANGED <<conn, ffmpeg, reader, status, feeds>>
         /\ todo'[Request(p)] = Tail(todo[Request(p)]) /\ todo'[Request(p)] \in Seq(Building)
         /\ todo'[<<p, "watchdog">>] = Watch
         /\ \A u \in Task : u # Request(p) /\ u # <<p, "watchdog">> => todo'[u] = todo[u]
<1> DEFINE t == Request(p)
<1>0. TypeOK /\ kind' = kind /\ kind \in {"persistent", "guest"} /\ t \in Task /\ <<p, "watchdog">> \in Task
      /\ t # <<p, "watchdog">> /\ Staged(p)
  BY StepTypes, TasksAre DEF Stages
<1>1. /\ At(t, "register") /\ peer' = p /\ UNCHANGED <<conn, ffmpeg, reader, status, feeds>>
      /\ todo' = [todo EXCEPT ![t] = Tail(@), ![<<p, "watchdog">>] = Watch]
  BY DEF Register, books
<1>2. /\ todo'[t] = Tail(todo[t]) /\ todo'[<<p, "watchdog">>] = Watch
      /\ \A u \in Task : u # t /\ u # <<p, "watchdog">> => todo'[u] = todo[u]
  BY <1>0, <1>1 DEF TypeOK
<1>3. Has(todo[t], "register") /\ todo[t] \in Seq(Building) /\ todo[t] # <<>> /\ Head(todo[t]) = "register"
      /\ InOrder(todo[t], kind)
  <2>1. Has(todo[t], "register")
    BY <1>0, <1>1, Heads
  <2>2. todo[t] \in Seq(Building)
    BY <1>0, <2>1, OfKind DEF Building
  <2> QED
    BY <1>0, <1>1, <2>1, <2>2 DEF At, Busy, Lists
<1>4. ~Has(todo[t], "ifNotBusy") /\ ~Has(todo[t], "relay") /\ ~Has(todo[t], "answer")
  <2>1. \A op : Has(todo[t], op) <=> (Head(todo[t]) = op \/ Has(Tail(todo[t]), op))
    BY <1>3, RestOf
  <2>2. \A f \in Barred : Head(todo[t]) = f[1] => ~Has(Tail(todo[t]), f[2])
    BY <1>3, RestOf
  <2>3. <<"register", "ifNotBusy">> \in Barred /\ <<"register", "relay">> \in Barred /\ <<"register", "answer">> \in Barred
    BY DEF Barred
  <2>4. ~Has(Tail(todo[t]), "ifNotBusy") /\ ~Has(Tail(todo[t]), "relay") /\ ~Has(Tail(todo[t]), "answer")
    BY <1>3, <2>2, <2>3
  <2> QED
    BY <1>3, <2>1, <2>4
<1>5. ffmpeg[p] = "unborn" /\ conn[p] # "none"
  BY <1>0, <1>3, <1>4 DEF Staged, Registering
<1>6. reader[p] = "off"
  BY <1>0, <1>5 DEF Staged
<1>7. Tail(todo[t]) \in Seq(Building)
  BY <1>3
<1> QED
  BY <1>1, <1>2, <1>3, <1>4, <1>5, <1>6, <1>7 DEF Registering

\* The peer is there still, or there no more, or it is that of a publish that has come so far.
LEMMA PeerMoves ==
  ASSUME Next, peer' # None
  PROVE  peer' = peer \/ \E p \in Publish : Register(p) /\ peer' = p
  BY DEF Next, Publishes, Asked, Admit, AddGuest, GetRelay, Answer, Register, NameSession, NegotiationFails, Watchdog,
         Runs, VideoArrives, Install, Connecting, Reads, ReadFirst, Connected, StoreHeader, OutputEnds, Lost, Closed, Exits,
         Stopping, Unbridge, Uninstall, Drop, DropGuest, Forget, Teardown, DeleteSource, Call, Unlinked

\* As long as nobody overlaps one publish is on at a time.
LEMMA OneKept == ASSUME IInv, Lists, Stages, Takes, Next, One, alone' PROVE One'
<1>0. TypeOK
  BY StepTypes
<1>1. ASSUME NEW q \in Publish, Publishes(q) PROVE One'
  <2>1. Over /\ peer = None /\ \E s : Turn(Request(q), s)
    BY <1>1 DEF Publishes
  <2>2. \A u \in Task : u # Request(q) => todo'[u] = todo[u]
    BY <1>0, <2>1, StepTurns, TasksAre
  <2>3. ASSUME NEW p \in Publish, p # q PROVE ~Mine(p)'
    <3>1. todo'[Request(p)] = todo[Request(p)]
      BY <2>2, <2>3, TasksAre
    <3> QED
      BY <1>0, <2>1, <3>1, MineStays, OverNobody
  <2> QED
    BY <2>3 DEF One
<1>2. CASE ~\E q \in Publish : Publishes(q)
  <2>1. \A p \in Publish : Mine(p)' => Mine(p)
    BY <1>2, MineStays
  <2> QED
    BY <2>1, Zenon DEF One
<1> QED
  BY <1>1, <1>2

\* Who begins with a request publishes.
LEMMA NewRequest == ASSUME IInv, Lists, Next, NEW p \in Publish, ~Busy(Request(p)), Busy(Request(p))' PROVE Publishes(p)
<1>1. Request(p) \in Task /\ todo'[Request(p)] # todo[Request(p)] /\ ~\E o : At(Request(p), o)
  BY TasksAre DEF Busy, At
<1>2. Publishes(p) \/ Asked(p) \/ NegotiationFails(p)
  BY <1>1, Movers, TasksAre
<1>3. ~Asked(p) /\ ~NegotiationFails(p)
  BY <1>1, Zenon DEF Asked, Admit, AddGuest, GetRelay, Answer, Register, NameSession, NegotiationFails
<1> QED
  BY <1>2, <1>3

\* As long as nobody overlaps no call is on while a request is.
LEMMA ApartKept == ASSUME IInv, Lists, Next, Apart, alone' PROVE Apart'
<1> SUFFICES ASSUME NEW p \in Publish, NEW c \in Caller, Busy(Request(p))', Busy(c)' PROVE FALSE
  BY DEF Apart
<1>0. TypeOK /\ c \in Task /\ Request(p) \in Task /\ c # Request(p)
  BY StepTypes, TasksAre
<1>1. CASE ~Busy(Request(p))
  <2>1. Publishes(p)
    BY <1>1, NewRequest
  <2>2. ~Busy(c) /\ \E s : Turn(Request(p), s)
    BY <2>1 DEF Publishes, Over
  <2>3. todo'[c] = todo[c]
    BY <1>0, <2>2, StepTurns
  <2> QED
    BY <2>2, <2>3 DEF Busy
<1>2. CASE Busy(Request(p))
  <2>1. ~Busy(c)
    BY <1>2 DEF Apart
  <2>2. todo'[c] # todo[c] /\ ~\E o : At(c, o)
    BY <2>1 DEF Busy, At
  <2>3. Teardown(c) \/ DeleteSource(c)
    BY <1>0, <2>2, Movers, TasksAre
  <2> QED
    BY <1>2, <2>3 DEF Teardown, DeleteSource, Call
<1> QED
  BY <1>1, <1>2

\* Nobody goes past taking the peer but by taking it.
LEMMA SpentStays ==
  ASSUME IInv, Lists, Begins, Next, peer' # None, ~\E p \in Publish : Register(p), NEW t \in Task, Spent(t)'
  PROVE  Spent(t)
<1>0. TypeOK /\ kind' = kind /\ kind \in {"persistent", "guest"}
  BY StepTypes
<1>1. CASE todo'[t] = todo[t]
  BY <1>1 DEF Spent
<1>2. ASSUME NEW s \in {<<>>, Whip, Join, Bridge, Stop(kind), Delete}, todo'[t] = s PROVE FALSE
  <2>1. ~Has(s, "unbridge") /\ (Has(s, "dropFeed") \/ Has(s, "disconnected"))
    BY <1>2 DEF Spent
  <2>2. CASE s \in {Stop(kind), Delete}
    BY <1>0, <2>1, <2>2, ScriptsInOrder
  <2>3. CASE s = <<>>
    BY <2>1, <2>3, HasNone
  <2>4. CASE s \in {Whip, Join}
    <3>1. s \in Seq(Building)
      <4>1. Whip \in Seq(Building \ Adds) /\ Join \in Seq(Building \ Checks)
        BY <1>0, ScriptsInOrder
      <4>2. Whip \in Seq(Building) /\ Join \in Seq(Building)
        BY <4>1
      <4> QED
        BY <2>4, <4>2
    <3> QED
      BY <2>1, <3>1, HasOf DEF Building
  <2>5. CASE s = Bridge
    <3>1. s \in Seq(Bridging)
      BY <1>0, <2>5, ScriptsInOrder
    <3> QED
      BY <2>1, <3>1, HasOf DEF Bridging
  <2> QED
    BY <2>2, <2>3, <2>4, <2>5
<1>3. ASSUME NEW o, At(t, o), Done(t), o = "unbridge" => Unbridge(t) PROVE Spent(t)
  <2>1. o # "unbridge"
    BY <1>3 DEF Unbridge
  <2>2. \A x : Has(todo[t], x) <=> (x = o \/ Has(todo'[t], x))
    BY <1>0, <1>3, StepDone
  <2> QED
    BY <2>1, <2>2 DEF Spent
<1> QED
  BY <1>1, <1>2, <1>3, HowMoves

\* Who clears without having the peer to take was there before the peer's video.
LEMMA SpentEarlyKept == ASSUME IInv, Lists, Stages, Takes, Begins, InTurns, Next PROVE SpentEarly'
<1>0. TypeOK /\ kind' = kind /\ kind \in {"persistent", "guest"}
  BY StepTypes
<1> SUFFICES ASSUME peer' # None, NEW t \in Task, Spent(t)' PROVE Unfit(peer)'
  BY DEF SpentEarly
<1>1. ASSUME NEW p \in Publish, Register(p) PROVE Unfit(peer)'
  <2>1. /\ Registering(p) /\ peer' = p /\ ffmpeg[p] = "unborn" /\ UNCHANGED <<conn, ffmpeg>>
        /\ todo'[Request(p)] \in Seq(Building) /\ todo'[<<p, "watchdog">>] = Watch
        /\ \A u \in Task : u # Request(p) /\ u # <<p, "watchdog">> => todo'[u] = todo[u]
    BY <1>1, Registers
  <2>2. t # Request(p)
    BY <2>1, HasOf DEF Spent, Building
  <2>3. t # <<p, "watchdog">>
    <3>1. Has(Watch, "unbridge")
      BY <1>0, WatchIs, ScriptsInOrder
    <3> QED
      BY <2>1, <3>1 DEF Spent
  <2>4. Busy(t)
    BY <1>0, <2>1, <2>2, <2>3, Heads DEF Spent
  <2>5. conn[p] \notin {"none", "up"}
    BY <1>0, <2>1, <2>2, <2>4, WhoIsBusy DEF InTurns
  <2> QED
    BY <2>1, <2>5 DEF Unfit
<1>2. CASE ~\E p \in Publish : Register(p)
  <2>1. peer' = peer /\ Spent(t)
    BY <1>2, PeerMoves, SpentStays
  <2>2. peer \in Publish
    BY <1>0, <2>1 DEF TypeOK
  <2>3. Unfit(peer)
    BY <2>1 DEF InTurns, SpentEarly
  <2>4. \A p \in Publish : Unfit(p) => Unfit(p)'
    BY UnfitStays
  <2>5. Unfit(peer)' <=> (ffmpeg'[peer'] = "unborn" /\ conn'[peer'] \notin {"none", "up"})
    BY DEF Unfit
  <2>6. \A p \in Publish : Unfit(p)' <=> (ffmpeg'[p] = "unborn" /\ conn'[p] \notin {"none", "up"})
    BY DEF Unfit
  <2> QED
    BY <2>1, <2>2, <2>3, <2>4, <2>5, <2>6
<1> QED
  BY <1>1, <1>2

\* The source is made live by its reader alone.
LEMMA GoesLive == ASSUME Next, status' = "Live" PROVE status = "Live" \/ \E p \in Publish : ReadFirst(p) /\ reader[p] = "live"
<1>1. ASSUME NEW p \in Publish, ReadFirst(p), status' # status PROVE reader[p] = "live"
  BY <1>1 DEF ReadFirst
<1>2. status' = status \/ \E p \in Publish : ReadFirst(p)
  BY DEF Next, Publishes, Asked, Admit, AddGuest, GetRelay, Answer, Register, NameSession, NegotiationFails, Watchdog,
         Runs, VideoArrives, Install, Connecting, Reads, Connected, StoreHeader, OutputEnds, Lost, Closed, Exits,
         Stopping, Unbridge, Uninstall, Drop, DropGuest, Forget, Teardown, DeleteSource, Call, Unlinked, books
<1> QED
  BY <1>1, <1>2

\* A publish that has passed its first check finds nobody who would make the source live.
LEMMA NotYetLiveKept == ASSUME IInv, Lists, Stages, Takes, Begins, InTurns, Next PROVE NotYetLive'
<1>0. TypeOK /\ kind' = kind /\ kind \in {"persistent", "guest"}
  BY StepTypes
<1> SUFFICES ASSUME NEW p \in Publish, Registering(p)', ~Has(todo'[Request(p)], "ifNotBusy"), status' = "Live"
             PROVE FALSE
  BY DEF NotYetLive, Registering
<1> DEFINE t == Request(p)
<1>1. t \in Task /\ Has(todo'[t], "register")
  BY TasksAre DEF Registering
<1>2. CASE ~Registering(p)
  <2>1. todo'[t] # todo[t]
    BY <1>1, <1>2 DEF Registering
  <2>2. ~\E o : At(t, o) /\ Done(t)
    BY <1>0, <1>1, <1>2, StepDone DEF Registering
  <2>3. ~\E q \in Publish : Register(q) /\ t \in {Request(q), <<q, "watchdog">>}
    BY <1>0, <1>2, TasksAre, Heads DEF Register, Registering
  <2>4. PICK s \in {<<>>, Whip, Join, Bridge, Stop(kind), Delete} : todo'[t] = s
    BY <1>1, <2>1, <2>2, <2>3, HowMoves
  <2>5. s \notin {<<>>, Stop(kind), Delete, Bridge, Whip}
    <3>1. /\ Stop(kind) \in Seq(Clearing) /\ Delete \in Seq(Clearing) /\ Bridge \in Seq(Bridging) /\ Has(Whip, "ifNotBusy")
      BY <1>0, ScriptsInOrder
    <3>2. "register" \notin Clearing /\ "register" \notin Bridging
      BY DEF Clearing, Bridging
    <3> QED
      BY <1>1, <2>4, <3>1, <3>2, HasNone, HasOf
  <2>6. ~\E o \in Clearing : At(t, o) /\ Done(t)
    BY <2>2
  <2>7. Publishes(p) \/ Asked(p) \/ NegotiationFails(p)
    BY <1>1, <2>1, <2>6, Movers, TasksAre
  <2>8. Publishes(p)
    <3>1. ASSUME ~Publishes(p) PROVE s \in {<<>>, Stop(kind)} \/ \E o : At(t, o) /\ Done(t)
      <4>1. CASE NegotiationFails(p)
        BY <1>0, <1>1, <2>4, <4>1, StepTurns DEF NegotiationFails
      <4>2. CASE Admit(p)
        BY <1>0, <1>1, <2>4, <4>2, StepTurns DEF Admit
      <4>3. CASE AddGuest(p)
        <5>1. Done(t) /\ (At(t, "addRow") \/ At(t, "link"))
          BY <4>3, Zenon DEF AddGuest
        <5> QED
          BY <5>1
      <4>4. CASE GetRelay(p) \/ Answer(p) \/ NameSession(p)
        BY <4>4 DEF GetRelay, Answer, NameSession
      <4>5. ~Register(p)
        BY <2>3
      <4> QED
        BY <2>7, <3>1, <4>1, <4>2, <4>3, <4>4, <4>5 DEF Asked
    <3> QED
      BY <2>2, <2>5, <3>1
  <2>9. kind = "guest"
    <3>1. kind # "guest" => Turn(t, Whip)
      BY <2>8 DEF Publishes
    <3> QED
      BY <1>0, <1>1, <2>4, <2>5, <3>1, StepTurns
  <2>10. events = 0 /\ status' = status
    BY <2>8, <2>9 DEF Publishes, books
  <2> QED
    BY <2>10 DEF Begins
<1>3. CASE Registering(p) /\ ~Has(todo[t], "ifNotBusy")
  <2>1. status # "Live" /\ One /\ Staged(p) /\ Busy(t)
    BY <1>0, <1>1, <1>3, Heads DEF InTurns, NotYetLive, Stages, Registering
  <2>2. PICK q \in Publish : ReadFirst(q) /\ reader[q] = "live"
    BY <2>1, GoesLive
  <2>3. q = p
    BY <2>1, <2>2, MineIs DEF One
  <2> QED
    BY <1>3, <2>1, <2>2, <2>3 DEF Staged
<1>4. CASE Registering(p) /\ Has(todo[t], "ifNotBusy")
  <2>1. todo'[t] # todo[t] /\ Busy(t)
    BY <1>0, <1>1, <1>4, Heads
  <2>2. todo[t] \in Seq(Building) /\ Head(todo[t]) \in Building
    BY <1>0, <1>1, <1>4, <2>1, OfKind, RestOf DEF Building, Busy
  <2>3. ~\E o \in Clearing : At(t, o)
    BY <2>2 DEF At, Building, Clearing
  <2>4. Publishes(p) \/ Asked(p) \/ NegotiationFails(p)
    BY <1>1, <2>1, <2>3, Movers, TasksAre
  <2>5. ASSUME NEW o, At(t, o), Done(t) PROVE o = "ifNotBusy"
    BY <1>0, <1>1, <1>4, <2>5, StepDone
  <2>6. ~Publishes(p)
    BY <2>1 DEF Publishes, Fresh
  <2>7. ~NegotiationFails(p)
    <3> SUFFICES ASSUME NegotiationFails(p) PROVE FALSE
      OBVIOUS
    <3>1. todo'[t] = Stop(kind)
      BY <1>0, <1>1, StepTurns DEF NegotiationFails
    <3>2. Stop(kind) \in Seq(Clearing)
      BY <1>0, ScriptsInOrder
    <3> QED
      BY <1>1, <3>1, <3>2, HasOf DEF Clearing
  <2>8. ~AddGuest(p)
    <3> SUFFICES ASSUME AddGuest(p) PROVE FALSE
      OBVIOUS
    <3>1. Done(t) /\ (At(t, "addRow") \/ At(t, "link"))
      BY Zenon DEF AddGuest
    <3> QED
      BY <2>5, <3>1
  <2>9. ~GetRelay(p) /\ ~Answer(p) /\ ~NameSession(p)
    BY <2>5 DEF GetRelay, Answer, NameSession
  <2>10. ~Register(p)
    BY <1>4, Registers
  <2>11. Admit(p)
    BY <2>4, <2>6, <2>7, <2>8, <2>9, <2>10 DEF Asked
  <2>12. status' = status /\ (status = "Disconnected" \/ todo'[t] = <<>> \/ At(t, "ifNoPeer"))
    BY <1>0, <1>1, <2>11, StepTurns DEF Admit, books
  <2>13. todo'[t] # <<>>
    BY <1>1, HasNone
  <2>14. ~(At(t, "ifNoPeer") /\ Done(t))
    BY <2>5
  <2>15. At(t, "ifNoPeer") => Done(t) \/ todo'[t] = <<>>
    BY <1>0, <1>1, <2>11, StepTurns DEF Admit
  <2> QED
    BY <2>12, <2>13, <2>14, <2>15
<1> QED
  BY <1>2, <1>3, <1>4

\* A peer whose source is live has its output read.
LEMMA LiveIsReadKept == ASSUME IInv, Lists, Stages, Takes, Begins, InTurns, Next PROVE LiveIsRead'
<1>0. TypeOK /\ DOMAIN reader = Publish
  BY StepTypes
<1> SUFFICES ASSUME peer' # None, status' = "Live" PROVE reader'[peer'] # "off"
  BY DEF LiveIsRead
<1>1. ~\E p \in Publish : Register(p)
  <2> SUFFICES ASSUME NEW p \in Publish, Register(p) PROVE FALSE
    OBVIOUS
  <2>1. Registering(p) /\ ~Has(todo[Request(p)], "ifNotBusy") /\ status' = status
    BY Registers
  <2> QED
    BY <2>1 DEF InTurns, NotYetLive
<1>2. peer' = peer /\ peer \in Publish
  BY <1>0, <1>1, PeerMoves DEF TypeOK
<1>3. ASSUME NEW q \in Publish, reader[q] # "off" PROVE reader'[q] # "off"
  BY <1>0, <1>3 DEF Next, Publishes, Asked, Admit, AddGuest, GetRelay, Answer, Register, NameSession, NegotiationFails, Watchdog,
         Runs, VideoArrives, Install, Connecting, Reads, ReadFirst, Connected, StoreHeader, OutputEnds, Lost, Closed, Exits,
         Stopping, Unbridge, Uninstall, Drop, DropGuest, Forget, Teardown, DeleteSource, Call, Unlinked
<1>4. CASE status = "Live"
  BY <1>2, <1>3, <1>4 DEF InTurns, LiveIsRead
<1>5. ASSUME NEW q \in Publish, ReadFirst(q), reader[q] = "live" PROVE reader'[peer'] # "off"
  <2>1. q = peer
    BY <1>2, <1>5, MineIs DEF InTurns, One
  <2> QED
    BY <1>2, <1>3, <1>5, <2>1
<1> QED
  BY <1>4, <1>5, GoesLive

\* Whose connection drops, its callback takes it down.
LEMMA LostDooms ==
  ASSUME IInv, Next, NEW p \in Publish, conn[p] # "down", conn'[p] = "down"
  PROVE  Doomed'
<1>0. TypeOK /\ kind' = kind /\ kind \in {"persistent", "guest"}
      /\ conn \in [Publish -> {"none", "up", "down", "closing", "closed"}]
  BY StepTypes
<1>1. conn' # conn
  OBVIOUS
<1>2. Lost(p)
  <2>1. CASE \E q \in Publish : Answer(q) \/ Closed(q)
    BY <1>0, <2>1 DEF Answer, Closed
  <2>2. CASE \E t \in Task : Forget(t)
    BY <1>0, <2>2 DEF Forget
  <2>3. CASE \E q \in Publish : Lost(q)
    BY <1>0, <2>3 DEF Lost
  <2> QED
    BY <1>1, <2>1, <2>2, <2>3 DEF Next, Publishes, Asked, Admit, AddGuest, GetRelay, Register, NameSession, NegotiationFails, Watchdog,
         Runs, VideoArrives, Install, Connecting, Reads, ReadFirst, Connected, StoreHeader, OutputEnds, Exits,
         Stopping, Unbridge, Uninstall, Drop, DropGuest, Teardown, DeleteSource, Call, Unlinked
<1>3. <<p, "callback">> \in Task /\ Turn(<<p, "callback">>, Stop(kind))
  BY <1>2, TasksAre DEF Lost
<1>4. todo'[<<p, "callback">>] = Stop(kind)
  BY <1>0, <1>3, StepTurns
<1>5. Owes(<<p, "callback">>, "unbridge")'
  BY <1>0, <1>3, <1>4, StopOwes
<1> QED
  BY <1>3, <1>5 DEF Doomed

\* A peer that has dropped is being taken down, or has never had an ffmpeg.
LEMMA DownIsDoomedKept == ASSUME IInv, Lists, Stages, Takes, Begins, InTurns, Next PROVE DownIsDoomed'
<1>0. TypeOK
  BY StepTypes
<1> SUFFICES ASSUME peer' # None, conn'[peer'] = "down" PROVE Doomed' \/ ffmpeg'[peer'] = "unborn"
  BY DEF DownIsDoomed
<1>1. ASSUME NEW p \in Publish, Register(p) PROVE ffmpeg'[peer'] = "unborn"
  BY <1>1, Registers
<1>2. CASE ~\E p \in Publish : Register(p)
  <2>1. peer' = peer /\ peer \in Publish
    BY <1>0, <1>2, PeerMoves DEF TypeOK
  <2>2. CASE conn[peer] # "down"
    BY <2>1, <2>2, LostDooms
  <2>3. CASE conn[peer] = "down" /\ Doomed
    BY <2>3, DoomedStays
  <2>4. CASE conn[peer] = "down" /\ ffmpeg[peer] = "unborn"
    <3>1. \A p \in Publish : Unfit(p) => ffmpeg'[p] = "unborn"
      BY UnfitStays DEF Unfit
    <3>2. Unfit(peer)
      BY <2>4 DEF Unfit
    <3> QED
      BY <2>1, <3>1, <3>2
  <2> QED
    BY <2>1, <2>2, <2>3, <2>4 DEF InTurns, DownIsDoomed
<1> QED
  BY <1>1, <1>2

\* A peer is watched until its source is live; then it has not dropped, or is taken down.
LEMMA WatchedKept == ASSUME IInv, Lists, Stages, Takes, Begins, InTurns, Next PROVE Watched'
<1>0. TypeOK /\ kind' = kind /\ kind \in {"persistent", "guest"}
  BY StepTypes
<1> SUFFICES ASSUME peer' # None
             PROVE  Doomed' \/ Waits(<<peer, "watchdog">>)' \/ (status' = "Live" /\ conn'[peer'] # "down")
  BY DEF Watched
<1>1. ASSUME NEW p \in Publish, Register(p) PROVE Waits(<<peer, "watchdog">>)'
  <2>1. todo'[<<p, "watchdog">>] = Watch /\ peer' = p
    BY <1>1, Registers
  <2>2. todo'[<<peer', "watchdog">>] # <<>> /\ Head(todo'[<<peer', "watchdog">>]) = "ifNotLive"
    BY <1>0, <2>1, WatchIs
  <2> QED
    BY <2>2 DEF Waits, At, Busy
<1>2. ASSUME ~\E p \in Publish : Register(p)
      PROVE  Doomed' \/ Waits(<<peer, "watchdog">>)' \/ (status' = "Live" /\ conn'[peer'] # "down")
  <2>1. peer' = peer /\ peer \in Publish
    BY <1>0, <1>2, PeerMoves DEF TypeOK
  <2> DEFINE w == <<peer, "watchdog">>
  <2>2. Doomed => Doomed'
    BY DoomedStays
  <2>3. CASE ~Doomed /\ Waits(w)
    <3>1. CASE todo'[w] = todo[w]
      <4>1. todo'[<<peer', "watchdog">>] # <<>> /\ Head(todo'[<<peer', "watchdog">>]) = "ifNotLive"
        BY <2>1, <2>3, <3>1 DEF Waits, At, Busy
      <4> QED
        BY <4>1 DEF Waits, At, Busy
    <3>2. CASE todo'[w] # todo[w]
      <4>1. ~\E o \in Clearing : At(w, o)
        BY <2>3 DEF Waits, At, Clearing
      <4>2. Watchdog(peer)
        BY <1>2, <2>1, <3>2, <4>1, Movers, TasksAre
      <4>3. CASE status = "Live"
        <5>1. UNCHANGED <<status, conn>>
          BY <4>2 DEF Watchdog, books
        <5>2. reader[peer] # "off" /\ ffmpeg[peer] # "unborn"
          BY <2>1, <4>3 DEF InTurns, LiveIsRead, Stages, Staged
        <5>3. conn[peer] # "down"
          BY <2>1, <2>3, <5>2, WhipAssumption DEF InTurns, DownIsDoomed
        <5> QED
          BY <2>1, <4>3, <5>1, <5>3
      <4>4. CASE status # "Live"
        <5>1. Done(w) /\ At(w, "ifNotLive") /\ w \in Task
          BY <2>1, <2>3, <4>2, <4>4, TasksAre DEF Watchdog, Waits
        <5>2. todo'[w] = Tail(todo[w]) /\ todo[w] = Watch
          BY <1>0, <5>1, DoneLists, Heads, OfKind DEF At
        <5>3. todo'[w] = Stop(kind)
          BY <1>0, <5>2, WatchIs
        <5>4. \E t \in Task : Owes(t, "unbridge")'
          <6>1. \A t \in Task : todo'[t] = Stop(kind) => Owes(t, "unbridge")'
            BY <1>0, StopOwes
          <6> QED
            BY <5>1, <5>3, <6>1
        <5> QED
          BY <5>4 DEF Doomed
      <4> QED
        BY <4>3, <4>4
    <3> QED
      BY <3>1, <3>2
  <2>4. CASE ~Doomed /\ status = "Live" /\ conn[peer] # "down"
    <3>1. reader[peer] # "off" /\ ffmpeg[peer] # "unborn"
      BY <2>1, <2>4 DEF InTurns, LiveIsRead, Stages, Staged
    <3>2. CASE conn'[peer] = "down"
      BY <2>1, <2>4, <3>2, LostDooms
    <3>3. status' = "Live"
      <4>1. ASSUME NEW t \in Task, Drop(t), status' # status PROVE FALSE
        <5>1. At(t, "disconnected")
          BY <4>1 DEF Drop
        <5>2. Has(todo[t], "disconnected") /\ ~Waits(t)
          BY <1>0, <5>1, Heads DEF Waits, At
        <5>3. CASE Has(todo[t], "unbridge")
          BY <2>4, <5>2, <5>3 DEF Doomed, Owes
        <5>4. CASE ~Has(todo[t], "unbridge")
          <6>1. Unfit(peer)
            BY <2>1, <5>2, <5>4, WhipAssumption DEF InTurns, SpentEarly, Spent
          <6> QED
            BY <3>1, <6>1 DEF Unfit
        <5> QED
          BY <5>3, <5>4
      <4>2. ASSUME NEW q \in Publish, Connecting(q) PROVE FALSE
        <5>1. Busy(<<q, "bridge">>) /\ "bridge" \in Role
          BY <4>2 DEF Connecting, At, Role
        <5>2. q = peer
          BY <2>1, <5>1, MineIs DEF InTurns, One
        <5> QED
          BY <3>1, <5>1, <5>2 DEF Stages, Staged
      <4>3. \/ status' = status \/ status' = "Live"
            \/ \E q \in Publish : Connecting(q)
            \/ \E t \in Task : Drop(t) /\ status' # status
        BY DEF Next, Publishes, Asked, Admit, AddGuest, GetRelay, Answer, Register, NameSession, NegotiationFails, Watchdog,
           Runs, VideoArrives, Install, Reads, ReadFirst, Connected, StoreHeader, OutputEnds, Lost, Closed, Exits,
           Stopping, Unbridge, Uninstall, DropGuest, Forget, Teardown, DeleteSource, Call, Unlinked, books
      <4> QED
        BY <2>4, <4>1, <4>2, <4>3
    <3> QED
      BY <2>1, <3>2, <3>3
  <2> QED
    BY <2>1, <2>2, <2>3, <2>4, WhipAssumption DEF InTurns, Watched
<1> QED
  BY <1>1, <1>2

\* The relay is given up by whoever clears it, and gets another publish by a lookup alone.
LEMMA FeedsMove ==
  ASSUME Next, NEW p \in Publish, p \in feeds, p \notin feeds'
  PROVE  \E t \in Task : Drop(t) /\ At(t, "dropFeed")
<1>1. ASSUME NEW t \in Task, Drop(t) PROVE At(t, "dropFeed")
  BY <1>1 DEF Drop
<1> QED
  BY <1>1 DEF Next, Publishes, Asked, Admit, AddGuest, GetRelay, Answer, Register, NameSession, NegotiationFails, Watchdog,
     Runs, VideoArrives, Install, Connecting, Reads, ReadFirst, Connected, StoreHeader, OutputEnds, Lost, Closed, Exits,
     Stopping, Unbridge, Uninstall, DropGuest, Forget, Teardown, DeleteSource, Call, Unlinked, books

\* A peer whose ffmpeg would not feed the relay is taken down, or will have no ffmpeg.
LEMMA FedKept == ASSUME IInv, Lists, Stages, Takes, Begins, InTurns, Next PROVE Fed'
<1>0. TypeOK
  BY StepTypes
<1>u. \A p \in Publish : Unfit(p) => ffmpeg'[p] = "unborn" /\ conn'[p] \notin {"none", "up"}
  BY UnfitStays DEF Unfit
<1> SUFFICES ASSUME peer' # None, peer' \notin feeds'
             PROVE  Doomed' \/ (ffmpeg'[peer'] = "unborn" /\ conn'[peer'] \notin {"none", "up"})
  BY DEF Fed, Unfit
<1>1. ASSUME NEW p \in Publish, Register(p)
      PROVE  ffmpeg'[peer'] = "unborn" /\ conn'[peer'] \notin {"none", "up"}
  <2>1. /\ Registering(p) /\ ~Has(todo[Request(p)], "relay") /\ ffmpeg[p] = "unborn"
        /\ peer' = p /\ UNCHANGED <<conn, ffmpeg, feeds>>
    BY <1>1, Registers
  <2>2. conn[p] \notin {"none", "up"}
    BY <2>1 DEF InTurns, Feeds
  <2> QED
    BY <2>1, <2>2
<1>2. ASSUME ~\E p \in Publish : Register(p)
      PROVE  Doomed' \/ (ffmpeg'[peer'] = "unborn" /\ conn'[peer'] \notin {"none", "up"})
  <2>1. peer' = peer /\ peer \in Publish
    BY <1>0, <1>2, PeerMoves DEF TypeOK
  <2>2. Doomed => Doomed'
    BY DoomedStays
  <2>3. CASE peer \notin feeds
    BY <1>u, <2>1, <2>2, <2>3, WhipAssumption DEF InTurns, Fed
  <2>4. CASE peer \in feeds
    <3>1. PICK t \in Task : At(t, "dropFeed")
      BY <2>1, <2>4, FeedsMove
    <3>2. Has(todo[t], "dropFeed") /\ ~Waits(t)
      BY <1>0, <3>1, Heads DEF Waits, At
    <3>3. CASE Has(todo[t], "unbridge")
      BY <2>2, <3>2, <3>3 DEF Doomed, Owes
    <3>4. CASE ~Has(todo[t], "unbridge")
      <4>1. Unfit(peer)
        BY <2>1, <3>2, <3>4, WhipAssumption DEF InTurns, SpentEarly, Spent
      <4> QED
        BY <1>u, <2>1, <4>1
    <3> QED
      BY <3>3, <3>4
  <2> QED
    BY <2>3, <2>4
<1> QED
  BY <1>1, <1>2

\* Whose list is to register publishes, or has been to register before.
LEMMA NewRegistering ==
  ASSUME IInv, Lists, Begins, Next, NEW p \in Publish, ~Registering(p), Registering(p)'
  PROVE  Has(todo'[Request(p)], "relay")
<1> DEFINE t == Request(p)
<1>0. TypeOK /\ kind' = kind /\ kind \in {"persistent", "guest"} /\ t \in Task /\ Has(todo'[t], "register")
  BY StepTypes, TasksAre DEF Registering
<1>1. todo'[t] # todo[t]
  BY <1>0 DEF Registering
<1>2. ~\E o : At(t, o) /\ Done(t)
  BY <1>0, StepDone DEF Registering
<1>3. ~\E q \in Publish : Register(q) /\ t \in {Request(q), <<q, "watchdog">>}
  BY <1>0, TasksAre, Heads DEF Register, Registering
<1>4. PICK s \in {<<>>, Whip, Join, Bridge, Stop(kind), Delete} : todo'[t] = s
  BY <1>0, <1>1, <1>2, <1>3, HowMoves
<1>5. s \notin {<<>>, Stop(kind), Delete, Bridge}
  <2>1. Stop(kind) \in Seq(Clearing) /\ Delete \in Seq(Clearing) /\ Bridge \in Seq(Bridging)
    BY <1>0, ScriptsInOrder
  <2>2. "register" \notin Clearing /\ "register" \notin Bridging
    BY DEF Clearing, Bridging
  <2> QED
    BY <1>0, <1>4, <2>1, <2>2, HasNone, HasOf
<1> QED
  BY <1>0, <1>4, <1>5, ScriptsInOrder

\* The relay a publish has looked up stays the source's until the peer is there, unless its
\* connection drops before.
LEMMA FeedsKept == ASSUME IInv, Lists, Stages, Takes, Begins, InTurns, Next PROVE Feeds'
<1>0. TypeOK /\ kind' = kind /\ conn \in [Publish -> {"none", "up", "down", "closing", "closed"}]
  BY StepTypes
<1> SUFFICES ASSUME NEW p \in Publish, Registering(p)', ~Has(todo'[Request(p)], "relay"), p \notin feeds'
             PROVE  conn'[p] \notin {"none", "up"}
  BY DEF Feeds, Registering
<1> DEFINE t == Request(p)
<1>1. t \in Task /\ Has(todo'[t], "register")
  BY TasksAre DEF Registering
<1>2. Registering(p)
  BY NewRegistering
<1>3. ffmpeg[p] = "unborn" /\ Has(todo[t], "register") /\ ~Busy(<<p, "watchdog">>)
  BY <1>2 DEF Stages, Staged, Registering
<1>4. CASE conn[p] \notin {"none", "up"}
  <2>1. Unfit(p)
    BY <1>3, <1>4 DEF Unfit
  <2> QED
    BY <2>1, UnfitStays DEF Unfit
<1>5. CASE Has(todo[t], "relay")
  <2>1. todo'[t] # todo[t] /\ Busy(t)
    BY <1>0, <1>1, <1>5, Heads
  <2>2. PICK o : At(t, o)
    BY <2>1 DEF At
  <2>3. todo[t] \in Seq(Building) /\ Head(todo[t]) \in Building
    BY <1>0, <1>1, <1>3, <2>1, OfKind, RestOf DEF Building, Busy
  <2>4. ~\E x \in Clearing : At(t, x)
    BY <2>3 DEF At, Building, Clearing
  <2>5. Asked(p) \/ NegotiationFails(p)
    <3>1. Publishes(p) \/ Asked(p) \/ NegotiationFails(p)
      BY <1>1, <2>1, <2>4, Movers, TasksAre
    <3> QED
      BY <2>1, <3>1 DEF Publishes, Fresh
  <2>6. ASSUME NEW x, At(t, x), Done(t) PROVE x = "relay"
    BY <1>0, <1>1, <1>5, <2>6, StepDone
  <2>7. todo'[t] # <<>> /\ todo'[t] # Stop(kind)
    <3>1. Stop(kind) \in Seq(Clearing)
      BY <1>0, ScriptsInOrder DEF TypeOK
    <3> QED
      BY <1>1, <3>1, HasNone, HasOf DEF Clearing
  <2>8. ~NegotiationFails(p) /\ ~Admit(p)
    <3>1. ~NegotiationFails(p)
      BY <1>0, <1>1, <2>7, StepTurns DEF NegotiationFails
    <3>2. ~Admit(p)
      BY <1>0, <1>1, <2>6, <2>7, StepTurns DEF Admit
    <3> QED
      BY <3>1, <3>2
  <2>9. ~AddGuest(p)
    <3> SUFFICES ASSUME AddGuest(p) PROVE FALSE
      OBVIOUS
    <3>1. Done(t) /\ (At(t, "addRow") \/ At(t, "link"))
      BY Zenon DEF AddGuest
    <3> QED
      BY <2>6, <3>1
  <2>10. ~Answer(p) /\ ~NameSession(p)
    BY <2>6 DEF Answer, NameSession
  <2>11. ~Register(p)
    BY <1>5, Registers
  <2>12. GetRelay(p)
    BY <2>5, <2>8, <2>9, <2>10, <2>11 DEF Asked
  <2> QED
    BY <2>12 DEF GetRelay
<1>6. CASE ~Has(todo[t], "relay") /\ p \in feeds
  <2>1. PICK u \in Task : At(u, "dropFeed")
    BY <1>6, FeedsMove
  <2>2. Busy(u) /\ Has(todo[u], "dropFeed")
    BY <1>0, <2>1, Heads
  <2>3. u # t
    <3>1. todo[t] \in Seq(Building)
      BY <1>0, <1>1, <1>3, OfKind DEF Building
    <3> QED
      BY <2>2, <3>1, HasOf DEF Building
  <2>4. conn[p] \notin {"none", "up"}
    BY <1>0, <1>2, <2>2, <2>3, WhoIsBusy DEF InTurns
  <2> QED
    BY <1>4, <2>4
<1>7. CASE ~Has(todo[t], "relay") /\ p \notin feeds
  BY <1>2, <1>4, <1>7 DEF InTurns, Feeds
<1> QED
  BY <1>5, <1>6, <1>7

\* As long as nobody overlaps, every step leaves it so.
LEMMA TurnsKept == ASSUME IInv, Lists, Stages, Takes, Begins, Turns, [Next]_vars PROVE Turns'
<1> SUFFICES ASSUME alone' PROVE InTurns'
  BY DEF Turns
<1>1. CASE Next
  <2>1. alone
    BY <1>1 DEF Next, Publishes, Asked, Admit, AddGuest, GetRelay, Answer, Register, NameSession, NegotiationFails, Watchdog,
       Runs, VideoArrives, Install, Connecting, Reads, ReadFirst, Connected, StoreHeader, OutputEnds, Lost, Closed, Exits,
       Stopping, Unbridge, Uninstall, Drop, DropGuest, Forget, Teardown, DeleteSource, Call, Unlinked
  <2>2. InTurns
    BY <2>1 DEF Turns
  <2>3. One' /\ Apart'
    BY <1>1, <2>2, OneKept, ApartKept DEF InTurns
  <2>4. SpentEarly' /\ NotYetLive' /\ LiveIsRead' /\ DownIsDoomed' /\ Watched' /\ Fed' /\ Feeds'
    BY <1>1, <2>2, SpentEarlyKept, NotYetLiveKept, LiveIsReadKept, DownIsDoomedKept, WatchedKept, FedKept, FeedsKept
  <2> QED
    BY <2>3, <2>4, Zenon DEF InTurns
<1>2. CASE UNCHANGED vars
  <2>1. UNCHANGED <<kind, peer, feeds, status, conn, ffmpeg, reader, todo, took, alone>>
    BY <1>2 DEF vars, books
  <2>2. InTurns
    BY <2>1 DEF Turns
  <2> USE <2>1 DEF Busy, At, Waits, Owes, Registering, Mine, Settled, Doomed, Unfit, Spent
  <2>3. One' /\ Apart'
    BY <2>2, Zenon DEF InTurns, One, Apart
  <2>4. SpentEarly' /\ NotYetLive' /\ LiveIsRead'
    BY <2>2, Zenon DEF InTurns, SpentEarly, NotYetLive, LiveIsRead
  <2>5. DownIsDoomed' /\ Watched'
    BY <2>2, Zenon DEF InTurns, DownIsDoomed, Watched
  <2>6. Fed' /\ Feeds'
    BY <2>2, Zenon DEF InTurns, Fed, Feeds
  <2> QED
    BY <2>3, <2>4, <2>5, <2>6, Zenon DEF InTurns
<1> QED
  BY <1>1, <1>2

\* Nobody overlaps, and nothing is there, in the beginning.
LEMMA InitTurns == Init => Turns
<1> SUFFICES ASSUME Init PROVE InTurns
  BY DEF Turns
<1>1. (\A t \in Task : ~Busy(t)) /\ (\A t \in Task : took[t] = None) /\ peer = None
  BY DEF Init, Busy
<1>2. \A p \in Publish : /\ ~Registering(p) /\ ~Busy(Request(p)) /\ p # None
                         /\ conn[p] = "none" /\ reader[p] = "off" /\ \A r \in Role : ~Busy(<<p, r>>)
  <2>1. \A p \in Publish : Request(p) \in Task /\ \A r \in Role : <<p, r>> \in Task
    BY Tasks
  <2> QED
    BY <1>1, <2>1, HasNone, WhipAssumption DEF Init, Registering, Busy
<1>3. One
  <2>1. \A p \in Publish : ~Mine(p)
    BY <1>1, <1>2 DEF Mine, Settled
  <2> QED
    BY <2>1 DEF One
<1>4. Apart /\ SpentEarly /\ NotYetLive /\ LiveIsRead /\ DownIsDoomed /\ Watched /\ Fed /\ Feeds
  BY <1>1, <1>2 DEF Apart, SpentEarly, NotYetLive, LiveIsRead, DownIsDoomed, Watched, Fed, Feeds
<1> QED
  BY <1>3, <1>4 DEF InTurns

\* As long as nobody overlaps one publish is on at a time, its peer is watched, and its
\* ffmpeg feeds the source's relay (start_ingest(), forward_track(), stop_ingest(),
\* webrtc_ingest.rs 157-260, 532-571, 676-737; whip.rs 100-113).
THEOREM InductiveTurns == Spec => []Turns
<1>1. IInv /\ Lists /\ Stages /\ Takes /\ Begins /\ Turns /\ [Next]_vars => Turns'
  BY TurnsKept
<1> QED
  BY <1>1, InitTurns, Inductive, InductiveDebts, PTL DEF Spec

\* As long as nobody overlaps, an ffmpeg whose peer is there feeds the relay the router
\* finds, and a peer that is left is that of a live source and has not dropped
\* (webrtc_ingest.rs 157-179, 238-251, 571).
THEOREM AlwaysInTurn == Spec => []InTurn
<1>1. IInv /\ Begins /\ Turns => InTurn
  <2> SUFFICES ASSUME IInv, Begins, InTurns PROVE
        /\ (\A t \in Task : Busy(t) => Waits(t)) =>
             \A p \in Publish : Running(p) /\ peer = p => relay /\ p \in feeds
        /\ AllDone => peer = None \/ (status = "Live" /\ conn[peer] # "down")
    BY DEF InTurn, Turns
  <2>0. TypeOK
    BY DEF IInv
  <2>1. (\A t \in Task : Busy(t) => Waits(t)) => ~Doomed
    BY <2>0, Heads DEF Doomed, Owes
  <2>2. ASSUME \A t \in Task : Busy(t) => Waits(t), NEW p \in Publish, Running(p), peer = p PROVE relay /\ p \in feeds
    <3>1. p \in feeds
      BY <2>1, <2>2, WhipAssumption DEF InTurns, Fed, Unfit, Running
    <3> QED
      BY <3>1 DEF Begins
  <2>3. ASSUME AllDone, peer # None PROVE status = "Live" /\ conn[peer] # "down"
    <3>1. ~Doomed /\ peer \in Publish
      BY <2>0, <2>1, <2>3 DEF AllDone, TypeOK
    <3>2. ~Waits(<<peer, "watchdog">>)
      BY <2>3, <3>1, TasksAre DEF AllDone, Waits, At
    <3> QED
      BY <2>3, <3>1, <3>2 DEF InTurns, Watched
  <2> QED
    BY <2>2, <2>3
<1> QED
  BY <1>1, Inductive, InductiveDebts, InductiveTurns, PTL
=============================================================================
