------------------------------- MODULE Ingest -------------------------------
(***************************************************************************)
(* How a source gets its media relay and loses it: RTMP publishers with    *)
(* their normalizer (rtmp/server.rs, source_normalizer.rs), media files    *)
(* (media_player.rs), SRT listeners (srt.rs), browser pages                *)
(* (browser_source.rs), and the handlers that start and delete sources     *)
(* (routes/sources.rs).  All of them keep the ffmpeg child of a source in  *)
(* a map of AppState, from which dropping it kills it, and leave its       *)
(* output to a task that reads until the output ends.                      *)
(*                                                                         *)
(* Sources share nothing but the maps' locks, so one source is modelled,   *)
(* of any kind.  A session or request is an actor with a list of what it   *)
(* has still to do; each entry is what happens between two awaits.         *)
(***************************************************************************)
EXTENDS Naturals, Sequences

CONSTANTS
  Actor,      \* RTMP sessions and API calls that can be under way at a time
  None,       \* no ffmpeg
  Kinds,      \* the kinds of source looked at
  Failures,   \* whether ffmpeg may fail to start or exit by itself, and RTMP connections be reset
  MaxChild,   \* bound: ffmpeg processes ever started
  MaxEvents   \* bound: requests, sessions, exits and resets

Child == 1..MaxChild

ASSUME IngestAssumption ==
  /\ MaxChild \in Nat /\ MaxEvents \in Nat /\ MaxEvents < MaxChild
  /\ None \notin Child /\ Actor \cap Child = {} /\ Failures \in BOOLEAN
  /\ Kinds \subseteq {"rtmp", "file", "srt", "browser"}

VARIABLES
  kind,     \* the source's kind
  row,      \* whether the source is in the database
  relay,    \* whether media_relays has the source
  holders,  \* the actors and ffmpegs' readers that hold a sender of that relay
  header,   \* whether sequence_headers has the source
  status,   \* source_states
  map,      \* the source's child in source_normalizers, media_players or srt_listeners
  ffmpeg,   \* per child: its life
  reader,   \* per child: where the task that reads its output is
  watch,    \* per child: where the task that reads an SRT listener's messages is
  todo,     \* per actor: the operations still to do
  on,       \* per actor: whether an RTMP session publishes (source_id)
  own,      \* per actor: the ffmpeg it has just spawned or writes to (media_tx)
  alone,    \* history: no two actors were active at once, and no ffmpeg was installed
            \* before an earlier one and its readers had ended
  torn,     \* history: a session ended by an error
  events

shared == <<kind, row, relay, holders, header, status>>
vars   == <<shared, map, ffmpeg, reader, watch, todo, on, own, alone, torn, events>>

Ops == {"ifNoRelay", "ifRow", "ifNotPlaying", "relay", "spawn", "install", "live", "connecting",
        "disconnected", "uninstall", "dropRelay", "dropHeaders", "hangUp"}

TypeOK ==
  /\ kind \in {"rtmp", "file", "srt", "browser"}
  /\ row \in BOOLEAN /\ relay \in BOOLEAN /\ header \in BOOLEAN
  /\ holders \in SUBSET (Actor \cup Child)
  /\ status \in {"Disconnected", "Connecting", "Live"}
  /\ map \in Child \cup {None}
  /\ ffmpeg \in [Child -> {"unborn", "running", "killed", "exited"}]
  /\ reader \in [Child -> {"off", "header", "tag", "first", "frames", "ending", "gone"}]
  /\ watch \in [Child -> IF kind = "srt" THEN {"off", "on", "marked", "gone"} ELSE {"off"}]
  /\ todo \in [Actor -> Seq(Ops)]
  /\ on \in [Actor -> BOOLEAN] /\ own \in [Actor -> Child \cup {None}]
  /\ alone \in BOOLEAN /\ torn \in BOOLEAN /\ events \in 0..MaxEvents

-----------------------------------------------------------------------------
(* What there is to do.                                                    *)

Publish      == <<"relay", "spawn", "install", "live">>
PublishPlain == <<"relay", "live">>
Playback     == <<"relay", "spawn", "install">>
Listen       == <<"relay", "spawn", "install", "connecting">>
Ensure       == <<"ifNoRelay", "ifRow", "relay", "spawn", "install">>
FromAsset    == <<"ifNotPlaying", "relay", "spawn", "install">>
Finish       == <<"uninstall", "dropRelay", "dropHeaders", "disconnected", "hangUp">>

\* One of the stop functions that a deletion calls in a row; it finds a child only
\* if the source is of a kind whose children it looks for.
Stop(kinds) == (IF kind \in kinds THEN <<"uninstall">> ELSE <<>>) \o <<"dropRelay", "dropHeaders">>
Delete      == Stop({"srt"}) \o Stop({"file"})
               \o Stop({"rtmp", "browser"}) \o <<"disconnected">>   \* a guest's
               \o Stop({"rtmp", "browser"}) \o <<"disconnected">>   \* a browser page's

\* The task that main() spawns for a source of this kind.
Launch(k) == CASE k = "rtmp" -> <<>>
               [] k = "srt"  -> Listen
               [] k \in {"file", "browser"} -> Playback

Init ==
  /\ kind \in Kinds /\ row = TRUE /\ relay = FALSE /\ holders = {} /\ header = FALSE
  /\ status = IF kind = "file" THEN "Live" ELSE "Disconnected"
  /\ map = None
  /\ ffmpeg = [c \in Child |-> "unborn"]
  /\ reader = [c \in Child |-> "off"] /\ watch = [c \in Child |-> "off"]
  /\ \E a \in Actor : todo = [b \in Actor |-> IF b = a THEN Launch(kind) ELSE <<>>]
  /\ on = [a \in Actor |-> FALSE] /\ own = [a \in Actor |-> None]
  /\ alone = TRUE /\ torn = FALSE /\ events = 0

Busy(a)   == todo[a] # <<>>
Active(a) == Busy(a) \/ on[a]
At(a, op) == Busy(a) /\ Head(todo[a]) = op
Done(a)   == todo' = [todo EXCEPT ![a] = Tail(@)]
GiveUp(a) == todo' = [todo EXCEPT ![a] = <<>>]

\* An ffmpeg that runs, or has left tasks that are still reading.
Running(c) == ffmpeg[c] = "running"
Ended(c)   == ffmpeg[c] \in {"killed", "exited"}
Lingers(c) == Ended(c) /\ (reader[c] \notin {"off", "gone"} \/ watch[c] \notin {"off", "gone"})

\* A child that is taken out of its map is killed, by kill() or by being dropped.
Killed(c) == [ffmpeg EXCEPT ![c] = IF @ = "running" THEN "killed" ELSE @]
Empty     == IF map = None THEN ffmpeg ELSE Killed(map)

-----------------------------------------------------------------------------
(* The operations of sessions and requests.                                *)

\* The checks at the head of a request; its answer may be to do nothing.
Checked(a) ==
  /\ \/ At(a, "ifNoRelay")    /\ IF relay THEN GiveUp(a) ELSE Done(a)
     \/ At(a, "ifRow")        /\ IF row THEN Done(a) ELSE GiveUp(a)
     \/ At(a, "ifNotPlaying") /\ IF map = None THEN Done(a) ELSE GiveUp(a)
  /\ UNCHANGED <<shared, map, ffmpeg, reader, watch, on, own, alone, torn, events>>

\* get_or_create_media_relay().
GetRelay(a) ==
  /\ At(a, "relay") /\ Done(a)
  /\ relay' = TRUE /\ holders' = holders \cup {a}
  /\ UNCHANGED <<kind, row, header, status, map, ffmpeg, reader, watch, on, own, alone, torn, events>>

\* Mutant: the messages of every ffmpeg are read as an SRT listener's are.
SpawnWatched(a) ==
  /\ At(a, "spawn") /\ Done(a)
  /\ \E c \in Child :
       /\ ffmpeg[c] = "unborn" /\ \A d \in Child : ffmpeg[d] = "unborn" => c <= d
       /\ ffmpeg' = [ffmpeg EXCEPT ![c] = "running"]
       /\ own' = [own EXCEPT ![a] = c]
       /\ watch' = [watch EXCEPT ![c] = "on"]
  /\ UNCHANGED <<shared, map, reader, on, alone, torn, events>>

\* The ffmpeg is spawned; an SRT listener's messages are read from then on.
Spawn(a) ==
  /\ At(a, "spawn") /\ Done(a)
  /\ \E c \in Child :
       /\ ffmpeg[c] = "unborn" /\ \A d \in Child : ffmpeg[d] = "unborn" => c <= d
       /\ ffmpeg' = [ffmpeg EXCEPT ![c] = "running"]
       /\ own' = [own EXCEPT ![a] = c]
       /\ watch' = [watch EXCEPT ![c] = IF kind = "srt" THEN "on" ELSE "off"]
  /\ UNCHANGED <<shared, map, reader, on, alone, torn, events>>

\* It cannot be spawned: a publisher then writes into the relay itself, everybody
\* else returns the error.
SpawnFails(a) ==
  /\ Failures /\ At(a, "spawn")
  /\ todo' = [todo EXCEPT ![a] = IF kind = "rtmp" THEN PublishPlain ELSE <<>>]
  /\ holders' = holders \ {a}
  /\ UNCHANGED <<kind, row, relay, header, status, map, ffmpeg, reader, watch, on, own, alone, torn, events>>

\* Mutant: the new child is put into the map before the old one is taken out.
InstallSwapped(a) ==
  /\ At(a, "install") /\ Done(a)
  /\ ffmpeg' = Killed(own[a]) /\ map' = None
  /\ reader' = [reader EXCEPT ![own[a]] = "header"]
  /\ holders' = (holders \ {a}) \cup (IF a \in holders THEN {own[a]} ELSE {})
  /\ own' = IF kind = "rtmp" THEN own ELSE [own EXCEPT ![a] = None]
  /\ UNCHANGED <<kind, row, relay, header, status, watch, on, alone, torn, events>>

\* Into the map, and out with the one that is there; then a task reads the output
\* into the relay that was looked up before.
Install(a) ==
  /\ At(a, "install") /\ Done(a)
  /\ ffmpeg' = Empty /\ map' = own[a]
  /\ reader' = [reader EXCEPT ![own[a]] = "header"]
  /\ holders' = (holders \ {a}) \cup (IF a \in holders THEN {own[a]} ELSE {})
  /\ own' = IF kind = "rtmp" THEN own ELSE [own EXCEPT ![a] = None]
  /\ alone' = (alone /\ ~\E c \in Child \ {own[a]} : Running(c) \/ Lingers(c))
  /\ UNCHANGED <<kind, row, relay, header, status, watch, on, torn, events>>

Report(a) ==
  /\ \/ At(a, "live")         /\ status' = "Live"
     \/ At(a, "connecting")   /\ status' = "Connecting"
     \/ At(a, "disconnected") /\ status' = "Disconnected"
  /\ Done(a)
  /\ UNCHANGED <<kind, row, relay, holders, header, map, ffmpeg, reader, watch, on, own, alone, torn, events>>

\* stop_normalizer(), stop_media_playback(), stop_srt_listener(): the child that is
\* in the map, whoever has put it there.
Uninstall(a) ==
  /\ At(a, "uninstall") /\ Done(a)
  /\ ffmpeg' = Empty /\ map' = None
  /\ UNCHANGED <<shared, reader, watch, on, own, alone, torn, events>>

\* Mutant: the relay stays in the map when its source has gone.
DropRelayNot(a) ==
  /\ At(a, "dropRelay") /\ Done(a)
  /\ UNCHANGED <<shared, map, ffmpeg, reader, watch, on, own, alone, torn, events>>

\* remove_media_relay(): whoever still sends into it sends to nobody.
DropRelay(a) ==
  /\ At(a, "dropRelay") /\ Done(a)
  /\ relay' = FALSE /\ holders' = {}
  /\ UNCHANGED <<kind, row, header, status, map, ffmpeg, reader, watch, on, own, alone, torn, events>>

DropHeaders(a) ==
  /\ At(a, "dropHeaders") /\ Done(a)
  /\ header' = FALSE
  /\ UNCHANGED <<kind, row, relay, holders, status, map, ffmpeg, reader, watch, on, own, alone, torn, events>>

\* media_tx is dropped.
HangUp(a) ==
  /\ At(a, "hangUp") /\ Done(a)
  /\ own' = [own EXCEPT ![a] = None] /\ holders' = holders \ {a}
  /\ UNCHANGED <<kind, row, relay, header, status, map, ffmpeg, reader, watch, on, alone, torn, events>>

Step(a) == Checked(a) \/ GetRelay(a) \/ Spawn(a) \/ SpawnFails(a) \/ Install(a) \/ Report(a)
           \/ Uninstall(a) \/ DropRelay(a) \/ DropHeaders(a) \/ HangUp(a)

-----------------------------------------------------------------------------
(* The ffmpegs and the tasks that read them.                               *)

\* The reader may be behind: what ffmpeg has written before its end is still read.
ReadHeader(c) ==
  /\ reader[c] = "header"
  /\ reader' = [reader EXCEPT ![c] = "tag"]
  /\ UNCHANGED <<shared, map, ffmpeg, watch, todo, on, own, alone, torn, events>>

\* A sequence header is stored; behind the first tag of an SRT listener or a
\* browser page its source is Live.
ReadTag(c) ==
  /\ reader[c] = "tag"
  /\ reader' = [reader EXCEPT ![c] = IF kind \in {"srt", "browser"} THEN "first" ELSE "frames"]
  /\ header' = TRUE
  /\ UNCHANGED <<kind, row, relay, holders, status, map, ffmpeg, watch, todo, on, own, alone, torn, events>>

FirstTag(c) ==
  /\ reader[c] = "first"
  /\ reader' = [reader EXCEPT ![c] = "frames"] /\ status' = "Live"
  /\ UNCHANGED <<kind, row, relay, holders, header, map, ffmpeg, watch, todo, on, own, alone, torn, events>>

\* The output ends.  A reader that has read a header takes the child out of the map.
OutputEnds(c) ==
  /\ Ended(c) /\ reader[c] \in {"header", "tag", "frames"}
  /\ reader' = [reader EXCEPT ![c] = IF kind \in {"rtmp", "file"} /\ @ # "header" THEN "ending" ELSE "gone"]
  /\ holders' = IF reader'[c] = "gone" THEN holders \ {c} ELSE holders
  /\ UNCHANGED <<kind, row, relay, header, status, map, ffmpeg, watch, todo, on, own, alone, torn, events>>

\* Mutant: without kill_on_drop a child taken out of the map runs on.
ForgottenNotKilled(c) ==
  /\ reader[c] = "ending"
  /\ reader' = [reader EXCEPT ![c] = "gone"]
  /\ map' = None /\ holders' = holders \ {c}
  /\ UNCHANGED <<kind, row, relay, header, status, ffmpeg, watch, todo, on, own, alone, torn, events>>

\* The child that is in the map, be it this one or another.
Forgotten(c) ==
  /\ reader[c] = "ending"
  /\ reader' = [reader EXCEPT ![c] = "gone"]
  /\ ffmpeg' = Empty /\ map' = None /\ holders' = holders \ {c}
  /\ UNCHANGED <<kind, row, relay, header, status, watch, todo, on, own, alone, torn, events>>

\* An SRT listener's messages: its output has begun; it has exited.
Watch(c) ==
  /\ \/ /\ watch[c] = "on"
        /\ watch' = [watch EXCEPT ![c] = "marked"] /\ status' = "Live"
     \/ /\ watch[c] \in {"on", "marked"} /\ Ended(c)
        /\ watch' = [watch EXCEPT ![c] = "gone"] /\ status' = "Disconnected"
  /\ UNCHANGED <<kind, row, relay, holders, header, map, ffmpeg, reader, todo, on, own, alone, torn, events>>

\* Nobody writes to a normalizer any more: its input is closed, and it exits.
InputEnds(c) ==
  /\ kind = "rtmp" /\ Running(c) /\ \A a \in Actor : own[a] # c
  /\ ffmpeg' = [ffmpeg EXCEPT ![c] = "exited"]
  /\ UNCHANGED <<shared, map, reader, watch, todo, on, own, alone, torn, events>>

Tasks(c) == ReadHeader(c) \/ ReadTag(c) \/ FirstTag(c) \/ OutputEnds(c) \/ Forgotten(c) \/ Watch(c) \/ InputEnds(c)

-----------------------------------------------------------------------------
(* What happens to a source.                                               *)

Event == events < MaxEvents /\ events' = events + 1

\* An idle actor begins.
Begin(a, ops) ==
  /\ ~Busy(a) /\ Event
  /\ todo' = [todo EXCEPT ![a] = ops]
  /\ alone' = (alone /\ ~\E b \in Actor \ {a} : Active(b))

\* A publisher whose stream key is that of a source.
PublishRequested(a) ==
  /\ kind = "rtmp" /\ row /\ ~on[a] /\ Begin(a, Publish)
  /\ on' = [on EXCEPT ![a] = TRUE]
  /\ UNCHANGED <<shared, map, ffmpeg, reader, watch, own, torn>>

\* A connection that publishes already may do so again.  It overlaps itself; the bound counts
\* it as the end of one publish and the start of another.
PublishAgain(a) ==
  /\ kind = "rtmp" /\ row /\ on[a] /\ ~Busy(a)
  /\ events + 1 < MaxEvents /\ events' = events + 2
  /\ todo' = [todo EXCEPT ![a] = Publish] /\ alone' = FALSE
  /\ UNCHANGED <<shared, map, ffmpeg, reader, watch, on, own, torn>>

\* The publisher says so, or closes the connection.
PublishFinished(a) ==
  /\ on[a] /\ Begin(a, Finish)
  /\ on' = [on EXCEPT ![a] = FALSE]
  /\ UNCHANGED <<shared, map, ffmpeg, reader, watch, own, torn>>

\* Mutant: what the session writes to is kept beyond its end.
ConnectionErrorKeepsInput(a) ==
  /\ Failures /\ on[a] /\ (~Busy(a) \/ At(a, "live")) /\ Event
  /\ GiveUp(a)
  /\ on' = [on EXCEPT ![a] = FALSE]
  /\ torn' = TRUE
  /\ UNCHANGED <<shared, map, ffmpeg, reader, watch, own, alone>>

\* A read or a write fails, as it does when the connection is reset: the session
\* returns at once.  A publish under the key of another source, which overwrites source_id
\* (server.rs 240), leaves the same of this one.
ConnectionError(a) ==
  /\ Failures /\ on[a] /\ (~Busy(a) \/ At(a, "live")) /\ Event
  /\ GiveUp(a)
  /\ on' = [on EXCEPT ![a] = FALSE] /\ own' = [own EXCEPT ![a] = None]
  /\ holders' = holders \ {a} /\ torn' = TRUE
  /\ UNCHANGED <<kind, row, relay, header, status, map, ffmpeg, reader, watch, alone>>

\* ensure_fallback_running(): the supervisor is about to cut to a file.
EnsureFallback(a) ==
  /\ kind = "file" /\ Begin(a, Ensure)
  /\ UNCHANGED <<shared, map, ffmpeg, reader, watch, on, own, torn>>

\* POST /sources/from-asset for an asset that has a source.
CreateFromAsset(a) ==
  /\ kind = "file" /\ row /\ Begin(a, FromAsset)
  /\ UNCHANGED <<shared, map, ffmpeg, reader, watch, on, own, torn>>

\* Mutant: only the row is deleted.
DeleteSourceRowOnly(a) ==
  /\ row /\ ~on[a] /\ Begin(a, <<>>)
  /\ row' = FALSE
  /\ UNCHANGED <<kind, relay, holders, header, status, map, ffmpeg, reader, watch, on, own, torn>>

DeleteSource(a) ==
  /\ row /\ ~on[a] /\ Begin(a, Delete)
  /\ row' = FALSE
  /\ UNCHANGED <<kind, relay, holders, header, status, map, ffmpeg, reader, watch, on, own, torn>>

\* ffmpeg ends by itself: the file is played, the peer has left, or an error.
Exits(c) ==
  /\ Failures /\ Running(c) /\ Event
  /\ ffmpeg' = [ffmpeg EXCEPT ![c] = "exited"]
  /\ UNCHANGED <<shared, map, reader, watch, todo, on, own, alone, torn>>

Requests(a) == PublishRequested(a) \/ PublishAgain(a) \/ PublishFinished(a) \/ ConnectionError(a)
               \/ EnsureFallback(a) \/ CreateFromAsset(a) \/ DeleteSource(a)

Next == (\E a \in Actor : Step(a) \/ Requests(a)) \/ (\E c \in Child : Tasks(c) \/ Exits(c))

Spec == Init /\ [][Next]_vars

\* Every task that the runtime has spawned is polled, and ffmpeg obeys the end of
\* its input.
FairSpec == Spec /\ (\A a \in Actor : WF_vars(Step(a))) /\ (\A c \in Child : WF_vars(Tasks(c)))

-----------------------------------------------------------------------------
(* Properties.                                                             *)

Idle == \A a \in Actor : ~Busy(a)
Over == Idle /\ (\A a \in Actor : ~on[a]) /\ (\A c \in Child : ~Lingers(c))

\* No ffmpeg is leaked: one that runs is in the map, where a stop finds it, or in
\* the hands of the call that will put it there next, however many sessions, restarts,
\* readers and deletions race for the map (source_normalizer.rs 101-107, 215-224).
NoStray == \A c \in Child : Running(c) => map = c \/ \E a \in Actor : At(a, "install") /\ own[a] = c

\* As long as nobody overlaps, what is encoded is seen, and goes on: an ffmpeg that
\* runs feeds the relay that the supervisor and the router find, not one that was dropped
\* (server.rs 139-140, state.rs 97-119); and the normalizer of a session that
\* publishes is stopped by nobody else, the clean-up of an earlier session least of all
\* (server.rs 137-153, source_normalizer.rs 216-217).
InTurn == alone =>
  /\ Idle => \A c \in Child : Running(c) => map = c /\ relay /\ c \in holders
  /\ \A a \in Actor : on[a] /\ own[a] # None => ffmpeg[own[a]] # "killed"

\* However sessions of a source overlap, once all of them have ended in good order
\* it has neither relay nor normalizer, and is not shown as Live
\* (server.rs 137-153, 292-309).
EndsClean == kind = "rtmp" /\ Over /\ ~torn => ~relay /\ map = None /\ status # "Live"

\* A deleted source is gone, unless something overlapped (sources.rs 217-223).
DeletedIsGone == alone /\ ~row /\ Over => ~relay /\ \A c \in Child : ~Running(c)

\* No normalizer outlives its session for long, not even when the connection was
\* reset and the clean-up left out (server.rs 119, source_normalizer.rs 110-132).
Unfed     == \E c \in Child : Running(c) /\ \A a \in Actor : Active(a) => own[a] # c
UnfedEnds == kind = "rtmp" /\ Unfed ~> ~Unfed

\* "Each source gets its own FFmpeg process [...] The normalized output feeds the
\* public media relay" (source_normalizer.rs 4-5): while anybody publishes, and no
\* ffmpeg has failed to start, somebody's normalizer runs.
StillNormalized == Idle /\ (\E a \in Actor : on[a]) => \E a \in Actor : on[a] /\ own[a] # None /\ Running(own[a])
=============================================================================
