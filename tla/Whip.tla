-------------------------------- MODULE Whip --------------------------------
(***************************************************************************)
(* WebRTC ingest (webrtc_ingest.rs): a publisher's offer is answered, its  *)
(* peer connection is put into guest_peers, and only when the first video  *)
(* packet has come is an ffmpeg started that feeds the source's relay.  A  *)
(* persistent source is published to again and again (routes/whip.rs); a   *)
(* guest's is made for the call and goes with it (routes/guests.rs).       *)
(*                                                                         *)
(* stop_ingest() is called by everybody: the request that fails, the       *)
(* bridge that cannot start, the 30 s watchdog, the callback of the peer   *)
(* connection, DELETE of the session and of the source.  It knows the      *)
(* source and not the publish it was called for.                           *)
(***************************************************************************)
EXTENDS Naturals, Sequences, FiniteSets

CONSTANTS
  MaxPublish, \* bound: offers answered; each has its own peer connection and ffmpeg
  Caller,     \* API calls that delete something
  None,       \* no publish
  Kinds,      \* the kinds of source looked at
  MaxEvents,  \* bound: requests, deletions, and things that fail
  Width       \* bound: tasks that are in the middle of something at a time

Publish == 1..MaxPublish
Role == {"request", "watchdog", "bridge", "callback"}
Task == (Publish \X Role) \cup Caller

ASSUME WhipAssumption ==
  /\ None \notin Publish /\ Caller \cap (Publish \X Role) = {}
  /\ Kinds \subseteq {"persistent", "guest"}
  /\ MaxPublish \in Nat /\ MaxEvents \in Nat /\ Width \in Nat \ {0}

VARIABLES
  kind,     \* IngestKind
  row,      \* whether the source is in the database
  guest,    \* the guest's record: its status while it is linked to this source
  peer,     \* guest_peers of this source: whose connection it is
  child,    \* source_normalizers of this source: whose ffmpeg it is
  relay,    \* whether media_relays has the source
  feeds,    \* the publishes whose public_tx sends into that relay
  header,   \* whether sequence_headers has the source
  status,   \* source_states
  session,  \* the publishes whose session is in whip_sessions
  conn,     \* per publish: its peer connection
  ffmpeg,   \* per publish: its ffmpeg
  reader,   \* per publish: where the task that reads ffmpeg's output is
  todo,     \* per task: the operations still to do
  took,     \* per task: the peer it has taken out of the map and not yet closed
  events,
  alone,    \* history: no publish began before all was over with earlier ones, and no
            \* request overlapped another
  late      \* history: a publish wrote the source's state without a peer in the map

books == <<relay, feeds, header, status>>
vars  == <<kind, row, guest, peer, child, books, session, conn, ffmpeg, reader, todo, took, events, alone, late>>

Ops == {"ifNotBusy", "ifNoPeer", "addRow", "link", "relay", "answer", "register",
        "session", "ifNotLive", "install", "connecting", "unbridge", "dropFeed",
        "disconnected", "deleteRow", "unlink", "forget", "uninstall"}

TypeOK ==
  /\ kind \in {"persistent", "guest"} /\ row \in BOOLEAN
  /\ guest \in {"apart", "connecting", "connected", "left"}
  /\ peer \in Publish \cup {None} /\ child \in Publish \cup {None}
  /\ relay \in BOOLEAN /\ header \in BOOLEAN /\ feeds \in SUBSET Publish
  /\ status \in {"Disconnected", "Connecting", "Live"}
  /\ session \in SUBSET Publish
  /\ conn \in [Publish -> {"none", "up", "down", "closing", "closed"}]
  /\ ffmpeg \in [Publish -> {"unborn", "running", "killed", "exited"}]
  /\ reader \in [Publish -> {"off", "header", "live", "frames", "playing", "gone"}
                            \cup (IF kind = "guest" THEN {"connected"} ELSE {})]
  /\ todo \in [Task -> Seq(Ops)]
  /\ took \in [Task -> Publish \cup {None}]
  /\ events \in 0..MaxEvents /\ alone \in BOOLEAN /\ late \in BOOLEAN

-----------------------------------------------------------------------------
(* What there is to do.                                                    *)

\* stop_ingest().
Stop(k) == <<"unbridge", "dropFeed", "disconnected">>
           \o (IF k = "guest" THEN <<"deleteRow", "unlink">> ELSE <<>>) \o <<"forget">>

Ingest == <<"relay", "answer", "register">>
Whip   == <<"ifNotBusy", "ifNoPeer">> \o Ingest \o <<"session">>
Join   == <<"addRow", "link">> \o Ingest
Bridge == <<"install", "connecting">>
Watch  == <<"ifNotLive">> \o Stop(kind)

\* DELETE /sources/{id} stops a listener, a player, a guest and a page in turn,
\* whatever the source is; the first two find no child.
Delete == <<"dropFeed", "dropFeed">> \o Stop("guest")
          \o <<"uninstall", "dropFeed", "disconnected">>

Init ==
  /\ kind \in Kinds /\ row = (kind = "persistent") /\ guest = "apart"
  /\ peer = None /\ child = None /\ relay = FALSE /\ feeds = {} /\ header = FALSE
  /\ status = "Disconnected" /\ session = {}
  /\ conn = [p \in Publish |-> "none"]
  /\ ffmpeg = [p \in Publish |-> "unborn"] /\ reader = [p \in Publish |-> "off"]
  /\ todo = [t \in Task |-> <<>>] /\ took = [t \in Task |-> None]
  /\ events = 0 /\ alone = TRUE /\ late = FALSE

Busy(t)   == todo[t] # <<>>
At(t, op) == Busy(t) /\ Head(todo[t]) = op
Done(t)   == todo' = [todo EXCEPT ![t] = Tail(@)]
Waits(t)  == At(t, "ifNotLive")
Reading   == {p \in Publish : reader[p] \in {"header", "live", "connected", "frames"}}
Room      == Cardinality({t \in Task : Busy(t) /\ ~Waits(t)}) + Cardinality(Reading) < Width
Event     == events < MaxEvents /\ events' = events + 1
Turn(t, ops) == todo' = [todo EXCEPT ![t] = ops]
Linked    == guest \in {"connecting", "connected"}

Running(p) == ffmpeg[p] = "running"
Ended(p)   == ffmpeg[p] \in {"killed", "exited"}
Killed(p)  == [ffmpeg EXCEPT ![p] = IF @ = "running" THEN "killed" ELSE @]
Unbridged  == IF child = None THEN ffmpeg ELSE Killed(child)

\* Nothing is left of a publish but what the maps hold.
Settled(p) == /\ \A r \in Role : ~Busy(<<p, r>>)
              /\ conn[p] \notin {"up", "down", "closing"} /\ reader[p] \in {"off", "gone"}
AllDone    == (\A t \in Task : ~Busy(t)) /\ \A p \in Publish : conn[p] # "closing"
Over       == (\A p \in Publish : peer = p \/ Settled(p)) /\ \A c \in Caller : ~Busy(c)

-----------------------------------------------------------------------------
(* The request: publish(), whip(), start_ingest().                         *)

Request(p) == <<p, "request">>

\* The checks of publish(), and what a guest's request writes to the database.
Admit(p) ==
  LET t == Request(p) IN
  /\ \/ At(t, "ifNotBusy") /\ IF status = "Disconnected" THEN Done(t) ELSE Turn(t, <<>>)
     \/ At(t, "ifNoPeer") /\ IF peer = None THEN Done(t) ELSE Turn(t, <<>>)
  /\ UNCHANGED <<kind, row, guest, peer, child, books, session, conn, ffmpeg, reader, took, events, alone, late>>

AddGuest(p) ==
  LET t == Request(p) IN
  /\ \/ At(t, "addRow") /\ row' = TRUE /\ guest' = guest
     \/ At(t, "link") /\ guest' = "connecting" /\ row' = row
  /\ Done(t)
  /\ UNCHANGED <<kind, peer, child, books, session, conn, ffmpeg, reader, took, events, alone, late>>

\* get_or_create_media_relay(), when the offer is accepted.
GetRelay(p) ==
  /\ At(Request(p), "relay") /\ Done(Request(p))
  /\ relay' = TRUE /\ feeds' = feeds \cup {p}
  /\ UNCHANGED <<kind, row, guest, peer, child, header, status, session, conn, ffmpeg, reader, took, events, alone, late>>

\* The candidates are gathered; from then on the connection has a state.
Answer(p) ==
  /\ At(Request(p), "answer") /\ Done(Request(p))
  /\ conn' = [conn EXCEPT ![p] = "up"]
  /\ UNCHANGED <<kind, row, guest, peer, child, books, session, ffmpeg, reader, took, events, alone, late>>

\* Mutant: the request returns its error, and does not tear down.
NegotiationFailsBare(p) ==
  /\ (At(Request(p), "relay") \/ At(Request(p), "answer")) /\ Event
  /\ Turn(Request(p), <<>>)
  /\ UNCHANGED <<kind, row, guest, peer, child, books, session, conn, ffmpeg, reader, took, alone, late>>

\* The offer or the answer is refused, and the request tears down.
NegotiationFails(p) ==
  /\ (At(Request(p), "relay") \/ At(Request(p), "answer")) /\ Event
  /\ Turn(Request(p), Stop(kind))
  /\ UNCHANGED <<kind, row, guest, peer, child, books, session, conn, ffmpeg, reader, took, alone, late>>

\* Mutant: no watchdog is spawned.
RegisterUnwatched(p) ==
  /\ At(Request(p), "register") /\ Done(Request(p))
  /\ peer' = p
  /\ UNCHANGED <<kind, row, guest, child, books, session, conn, ffmpeg, reader, took, events, alone, late>>

\* Into guest_peers, over whatever is there, and the watchdog begins to wait.
Register(p) ==
  LET t == Request(p) IN
  /\ At(t, "register")
  /\ todo' = [todo EXCEPT ![t] = Tail(@), ![<<p, "watchdog">>] = Watch]
  /\ peer' = p
  /\ UNCHANGED <<kind, row, guest, child, books, session, conn, ffmpeg, reader, took, events, alone, late>>

\* The session takes the place of every other one of its source.
NameSession(p) ==
  /\ At(Request(p), "session") /\ Done(Request(p))
  /\ session' = {p}
  /\ UNCHANGED <<kind, row, guest, peer, child, books, conn, ffmpeg, reader, took, events, alone, late>>

\* 30 s are over: is the source live, by whomever?
Watchdog(p) ==
  LET t == <<p, "watchdog">> IN
  /\ Waits(t) /\ Room
  /\ IF status = "Live" THEN Turn(t, <<>>) ELSE Done(t)
  /\ UNCHANGED <<kind, row, guest, peer, child, books, session, conn, ffmpeg, reader, took, events, alone, late>>

-----------------------------------------------------------------------------
(* The bridge: forward_track(), start_ffmpeg(), read_flv_output().         *)

\* The first video packet is read, and ffmpeg is spawned, once; if that fails, all is
\* torn down.
VideoArrives(p) ==
  LET t == <<p, "bridge">> IN
  /\ conn[p] = "up" /\ ~Busy(Request(p)) /\ ffmpeg[p] = "unborn" /\ Room
  /\ \/ Turn(t, Bridge) /\ ffmpeg' = [ffmpeg EXCEPT ![p] = "running"] /\ UNCHANGED events
     \/ Turn(t, Stop(kind)) /\ ffmpeg' = [ffmpeg EXCEPT ![p] = "exited"] /\ Event
  /\ UNCHANGED <<kind, row, guest, peer, child, books, session, conn, reader, took, alone, late>>

\* Mutant: the peer is not looked for.
InstallUnchecked(p) ==
  /\ At(<<p, "bridge">>, "install") /\ Done(<<p, "bridge">>)
  /\ ffmpeg' = Unbridged /\ child' = p
  /\ UNCHANGED <<kind, row, guest, peer, books, session, conn, reader, took, events, alone, late>>

\* Mutant: without kill_on_drop the child of a bridge that is refused runs on.
InstallRefusedRuns(p) ==
  LET t == <<p, "bridge">> IN
  /\ At(t, "install")
  /\ IF peer = None THEN Turn(t, Stop(kind)) /\ UNCHANGED <<ffmpeg, child>>
                    ELSE Done(t) /\ ffmpeg' = Unbridged /\ child' = p
  /\ UNCHANGED <<kind, row, guest, peer, books, session, conn, reader, took, events, alone, late>>

\* Under the normalizers' lock: without any peer in the map the child is dropped,
\* which kills it, and all is torn down; else it takes the place of the old one.
Install(p) ==
  LET t == <<p, "bridge">> IN
  /\ At(t, "install")
  /\ IF peer = None THEN Turn(t, Stop(kind)) /\ ffmpeg' = Killed(p) /\ child' = child
                    ELSE Done(t) /\ ffmpeg' = Unbridged /\ child' = p
  /\ UNCHANGED <<kind, row, guest, peer, books, session, conn, reader, took, events, alone, late>>

\* Connecting, and the output begins to be read.
Connecting(p) ==
  /\ At(<<p, "bridge">>, "connecting") /\ Done(<<p, "bridge">>)
  /\ status' = "Connecting" /\ reader' = [reader EXCEPT ![p] = "header"]
  /\ late' = (late \/ peer = None)
  /\ UNCHANGED <<kind, row, guest, peer, child, relay, feeds, header, session, conn, ffmpeg, took, events, alone>>

\* Mutant: a persistent source's reader goes on to mark a guest, too.
ReadFirstMarks(p) ==
  /\ \/ reader[p] = "header" /\ reader' = [reader EXCEPT ![p] = "live"] /\ UNCHANGED <<status, late>>
     \/ /\ reader[p] = "live"
        /\ reader' = [reader EXCEPT ![p] = "connected"]
        /\ status' = "Live" /\ late' = (late \/ peer = None)
  /\ UNCHANGED <<kind, row, guest, peer, child, relay, feeds, header, session, conn, ffmpeg, todo, took, events, alone>>

\* The reader may be behind: what ffmpeg has written before its end is still read.
\* The first tag makes the source Live.
ReadFirst(p) ==
  /\ \/ reader[p] = "header" /\ reader' = [reader EXCEPT ![p] = "live"] /\ UNCHANGED <<status, late>>
     \/ /\ reader[p] = "live"
        /\ reader' = [reader EXCEPT ![p] = IF kind = "guest" THEN "connected" ELSE "frames"]
        /\ status' = "Live" /\ late' = (late \/ peer = None)
  /\ UNCHANGED <<kind, row, guest, peer, child, relay, feeds, header, session, conn, ffmpeg, todo, took, events, alone>>

\* Mutant: the guest is marked connected whatever source it is linked to.
ConnectedAnyway(p) ==
  /\ reader[p] = "connected" /\ reader' = [reader EXCEPT ![p] = "frames"]
  /\ guest' = "connected"
  /\ UNCHANGED <<kind, row, peer, child, books, session, conn, ffmpeg, todo, took, events, alone, late>>

\* Its guest is connected, if one is linked to the source.
Connected(p) ==
  /\ reader[p] = "connected" /\ reader' = [reader EXCEPT ![p] = "frames"]
  /\ guest' = IF Linked THEN "connected" ELSE guest
  /\ UNCHANGED <<kind, row, peer, child, books, session, conn, ffmpeg, todo, took, events, alone, late>>

\* A sequence header is stored.
StoreHeader(p) ==
  /\ reader[p] = "frames" /\ reader' = [reader EXCEPT ![p] = "playing"]
  /\ header' = TRUE /\ late' = (late \/ peer = None)
  /\ UNCHANGED <<kind, row, guest, peer, child, relay, feeds, status, session, conn, ffmpeg, todo, took, events, alone>>

\* The output ends, and nobody is told.
OutputEnds(p) ==
  /\ Ended(p) /\ reader[p] \in {"header", "frames", "playing"}
  /\ reader' = [reader EXCEPT ![p] = "gone"]
  /\ UNCHANGED <<kind, row, guest, peer, child, books, session, conn, ffmpeg, todo, took, events, alone, late>>

-----------------------------------------------------------------------------
(* stop_ingest(), and the other stop functions a deletion calls.           *)

\* The child and the peer that are in the maps, under the normalizers' lock.
Unbridge(t) ==
  /\ At(t, "unbridge") /\ Done(t)
  /\ ffmpeg' = Unbridged /\ child' = None
  /\ took' = [took EXCEPT ![t] = peer] /\ peer' = None
  /\ UNCHANGED <<kind, row, guest, books, session, conn, reader, events, alone, late>>

\* stop_browser_source() takes the child alone.
Uninstall(t) ==
  /\ At(t, "uninstall") /\ Done(t)
  /\ ffmpeg' = Unbridged /\ child' = None
  /\ UNCHANGED <<kind, row, guest, peer, books, session, conn, reader, took, events, alone, late>>

\* remove_media_relay() and the sequence headers, whose locks are taken one after the
\* other; then the state.
Drop(t) ==
  /\ \/ At(t, "dropFeed")     /\ relay' = FALSE /\ feeds' = {} /\ header' = FALSE /\ UNCHANGED status
     \/ At(t, "disconnected") /\ status' = "Disconnected" /\ UNCHANGED <<relay, feeds, header>>
  /\ Done(t)
  /\ UNCHANGED <<kind, row, guest, peer, child, session, conn, ffmpeg, reader, took, events, alone, late>>

\* A guest's row goes, and its guest has left.
DropGuest(t) ==
  /\ \/ At(t, "deleteRow") /\ row' = FALSE /\ guest' = guest
     \/ At(t, "unlink") /\ guest' = (IF Linked THEN "left" ELSE guest) /\ row' = row
  /\ Done(t)
  /\ UNCHANGED <<kind, peer, child, books, session, conn, ffmpeg, reader, took, events, alone, late>>

\* The sessions of the source are forgotten, and the peer that was taken is closed
\* by a task of its own.
Forget(t) ==
  /\ At(t, "forget") /\ Done(t)
  /\ session' = {}
  /\ conn' = IF took[t] = None THEN conn ELSE [conn EXCEPT ![took[t]] = "closing"]
  /\ took' = [took EXCEPT ![t] = None]
  /\ UNCHANGED <<kind, row, guest, peer, child, books, ffmpeg, reader, events, alone, late>>

Stopping(t) == Unbridge(t) \/ Uninstall(t) \/ Drop(t) \/ DropGuest(t) \/ Forget(t)

-----------------------------------------------------------------------------
(* What happens to a source.                                               *)

Fresh(p) == conn[p] = "none" /\ ~Busy(Request(p))

\* A publisher posts an offer, with the token of the source that there is; a guest's
\* makes a source of its own.
Publishes(p) ==
  /\ Fresh(p) /\ \A q \in Publish : q < p => kind = "persistent" /\ ~Fresh(q)
  /\ row = (kind = "persistent") /\ (kind = "guest" => events = 0) /\ Event /\ Room
  /\ Turn(Request(p), IF kind = "guest" THEN Join ELSE Whip)
  /\ alone' = (alone /\ Over /\ peer = None)
  /\ UNCHANGED <<kind, row, guest, peer, child, books, session, conn, ffmpeg, reader, took, late>>

\* Failed or Disconnected: the callback stops the ingest of its source.
Lost(p) ==
  /\ conn[p] = "up" /\ ~Busy(<<p, "callback">>) /\ Event /\ Room
  /\ conn' = [conn EXCEPT ![p] = "down"]
  /\ Turn(<<p, "callback">>, Stop(kind))
  /\ UNCHANGED <<kind, row, guest, peer, child, books, session, ffmpeg, reader, took, alone, late>>

\* The task that closes a peer has done so, and the callback stops once more.
Closed(p) ==
  /\ conn[p] = "closing" /\ ~Busy(<<p, "callback">>) /\ Room
  /\ conn' = [conn EXCEPT ![p] = "closed"]
  /\ Turn(<<p, "callback">>, Stop(kind))
  /\ UNCHANGED <<kind, row, guest, peer, child, books, session, ffmpeg, reader, took, events, alone, late>>

\* ffmpeg ends by itself, and nobody is told.
Exits(p) ==
  /\ Running(p) /\ Event
  /\ ffmpeg' = [ffmpeg EXCEPT ![p] = "exited"]
  /\ UNCHANGED <<kind, row, guest, peer, child, books, session, conn, reader, todo, took, alone, late>>

Call(c, ops) ==
  /\ ~Busy(c) /\ Event /\ Room
  /\ Turn(c, ops)
  /\ alone' = (alone /\ (\A d \in Caller : ~Busy(d)) /\ \A p \in Publish : ~Busy(Request(p)))

\* DELETE /whip/{session}.
Teardown(c) ==
  /\ Call(c, Stop("persistent"))
  /\ \E p \in session : session' = session \ {p}
  /\ UNCHANGED <<kind, row, guest, peer, child, books, conn, ffmpeg, reader, took, late>>

\* DELETE /sources/{id}.
DeleteSource(c) ==
  /\ row /\ Call(c, Delete) /\ row' = FALSE
  /\ UNCHANGED <<kind, guest, peer, child, books, session, conn, ffmpeg, reader, took, late>>

\* The guest is deleted, or opens its link again, and its record leaves this source.
Unlinked ==
  /\ Linked /\ Event
  /\ guest' = "apart"
  /\ UNCHANGED <<kind, row, peer, child, books, session, conn, ffmpeg, reader, todo, took, alone, late>>

Asked(p) == Admit(p) \/ AddGuest(p) \/ GetRelay(p) \/ Answer(p) \/ Register(p) \/ NameSession(p)
Runs(p)  == VideoArrives(p) \/ Install(p) \/ Connecting(p)
Reads(p) == ReadFirst(p) \/ Connected(p) \/ StoreHeader(p) \/ OutputEnds(p)

Next == \/ \E p \in Publish : \/ Publishes(p) \/ Asked(p) \/ Watchdog(p) \/ Runs(p) \/ Reads(p)
                              \/ NegotiationFails(p) \/ Lost(p) \/ Closed(p) \/ Exits(p)
        \/ \E t \in Task : Stopping(t)
        \/ \E c \in Caller : Teardown(c) \/ DeleteSource(c)
        \/ Unlinked

Spec == Init /\ [][Next]_vars

-----------------------------------------------------------------------------
(* Properties.                                                             *)

\* The lock that start_ffmpeg() and stop_ingest() pair does what its comment says: no
\* ffmpeg is in the map of a source whose peer has gone, whenever the peer drops
\* during the lazy start (webrtc_ingest.rs 560-572, 684-696).
BridgeHasPeer == child # None => peer # None

\* No ffmpeg is leaked: one that runs is in the map or in the hands of the bridge that
\* is about to put it there (webrtc_ingest.rs 532-571).
NoStray == \A p \in Publish : Running(p) => child = p \/ At(<<p, "bridge">>, "install")

\* However requests, watchdogs, callbacks and deletions overlap, a source that has no
\* peer when all is over has nothing else either, unless a reader or a bridge was
\* late to write its state (webrtc_ingest.rs 690-732).
LeavesNothing == Over /\ peer = None /\ ~late =>
  ~relay /\ ~header /\ child = None /\ status = "Disconnected" /\ \A p \in Publish : ~Running(p)

\* A guest's source goes with the guest, whose record is not left as connecting or
\* connected; not even by a late reader (webrtc_ingest.rs 664-668, 709-721).
GuestLeaves == kind = "guest" /\ Over /\ peer = None => ~row /\ ~Linked

\* As long as nobody overlaps, an ffmpeg whose peer is there feeds the relay that the
\* router finds, which was looked up before the candidates were gathered
\* (webrtc_ingest.rs 179, 571); and when all has been done that had to be, a peer that
\* is left is that of a live source (238-251) and has not dropped, in which case its
\* source would refuse every other publisher (157-172, whip.rs 107).
InTurn == alone =>
  /\ (\A t \in Task : Busy(t) => Waits(t)) =>
       \A p \in Publish : Running(p) /\ peer = p => relay /\ p \in feeds
  /\ AllDone => peer = None \/ (status = "Live" /\ conn[peer] # "down")

\* "Reap the ingest if it never goes live (abandoned publish, or ICE never completes)
\* so it doesn't leak an ffmpeg process, UDP ports, or peer" (webrtc_ingest.rs
\* 238-239): the watchdog of a publish that was bridged and is over reaps no other.
ReapsItsOwn ==
  [][\A p \in Publish : Watchdog(p) /\ status # "Live" /\ reader[p] = "gone" /\ conn[p] = "closed"
                         => peer \in {None, p}]_vars
=============================================================================
