--------------------------- MODULE IngestTurnProofs ---------------------------
(***************************************************************************)
(* What a source is left with, for any number of sessions and calls: that  *)
(* whatever a publisher has set up is cleared when all have ended, however *)
(* they overlap (EndsClean), and that as long as nobody overlaps, what is  *)
(* encoded is seen (InTurn) and a deleted source is gone (DeletedIsGone).  *)
(*                                                                         *)
(* All three rest on what the sessions and calls have still to do.         *)
(***************************************************************************)
EXTENDS IngestProofs

\* An operation is still to be done.
Has(s, op) == \E i \in 1..Len(s) : s[i] = op

\* What starts a source, and what ends one: nobody does both in one go.
Building == {"ifNoRelay", "ifRow", "ifNotPlaying", "relay", "spawn", "install", "live", "connecting"}
Clearing == Ops \ Building

\* An ffmpeg is installed once, behind the look-up of the relay it feeds.
InOrder(s) == \A i, j \in 1..Len(s) : s[i] = "install" /\ i < j => s[j] \notin {"relay", "install"}

\* A publisher publishes until it clears, and holds its ffmpeg until it hangs up.
Publisher(a) ==
  /\ on[a] => todo[a] \in Seq(Building)
  /\ Busy(a) /\ todo[a] \in Seq(Building) => on[a]
  /\ own[a] # None => on[a] \/ Has(todo[a], "hangUp")

Listed(a) ==
  /\ todo[a] \in Seq(Building) \cup Seq(Clearing) /\ InOrder(todo[a])
  /\ IF kind = "rtmp" THEN Publisher(a) ELSE ~on[a]
Lists == \A a \in Actor : Listed(a)

\* An ffmpeg is read once it has been put into the map, and its reader ends after it.
Read(c) ==
  /\ ffmpeg[c] = "unborn" => reader[c] = "off" /\ watch[c] = "off"
  /\ reader[c] \in {"ending", "gone"} => Ended(c)
  /\ kind = "rtmp" => reader[c] # "first"
Readers == /\ \A c \in Child : Read(c)
           /\ \A a \in Actor : Installing(a) => ffmpeg[own[a]] # "unborn"

\* What a publisher has set up, somebody has still to clear.
ToClear == kind = "rtmp" /\ ~torn =>
  /\ relay           => \E a \in Actor : on[a] \/ Has(todo[a], "dropRelay")
  /\ map # None      => \E a \in Actor : on[a] \/ Has(todo[a], "uninstall")
  /\ status = "Live" => \E a \in Actor : on[a] \/ Has(todo[a], "disconnected")

\* One at a time.
OneActive == \A a, b \in Actor : Active(a) /\ Active(b) => a = b

Tended(c) == reader[c] \notin {"off", "gone"}
OneTended ==
  /\ \A c, d \in Child : Tended(c) /\ Tended(d) => c = d
  /\ map # None => reader[map] # "off"
  /\ \A a \in Actor : Installing(a) => reader[own[a]] = "off"

Feeding == \A a \in Actor : Has(todo[a], "install") /\ ~Has(todo[a], "relay") => relay /\ a \in holders
Fed == \A c \in Child : Running(c) /\ map = c =>
          (relay /\ c \in holders) \/ \E a \in Actor : Has(todo[a], "uninstall")
StopsFirst == \A a \in Actor : Has(todo[a], "dropRelay") => Has(todo[a], "uninstall") \/ \A c \in Child : ~Running(c)
Spared == \A a \in Actor : on[a] /\ own[a] # None => ffmpeg[own[a]] # "killed"
Deleted == ~row =>
  /\ \A a \in Actor : todo[a] \in Seq(Clearing) \cup {Ensure, Tail(Ensure)}
  /\ relay => \E a \in Actor : Has(todo[a], "dropRelay")
  /\ (\E c \in Child : Running(c)) => \E a \in Actor : Has(todo[a], "uninstall")
InTurns == OneActive /\ OneTended /\ Feeding /\ Fed /\ StopsFirst /\ Spared /\ Deleted
Turns == alone => InTurns

-----------------------------------------------------------------------------
(* Lists of operations.                                                    *)

\* Done operations leave the rest: nothing is added to what is still to do, and
\* only the first is taken away.
LEMMA RestOf ==
  ASSUME NEW S, NEW s \in Seq(S), s # <<>>
  PROVE  /\ Head(s) \in S /\ Tail(s) \in Seq(S) /\ Has(s, Head(s))
         /\ \A op : Has(s, op) <=> Head(s) = op \/ Has(Tail(s), op)
         /\ InOrder(s) => InOrder(Tail(s))
         /\ InOrder(s) /\ Head(s) = "install" => ~Has(s, "relay") /\ ~Has(Tail(s), "install")
<1>1. /\ Tail(s) \in Seq(S) /\ Len(Tail(s)) = Len(s) - 1 /\ Len(s) \in Nat /\ Len(s) > 0
      /\ \A i \in 1..Len(Tail(s)) : Tail(s)[i] = s[i + 1]
      /\ Head(s) = s[1] /\ Head(s) \in S
  OBVIOUS
<1>2. Has(s, Head(s))
  BY <1>1 DEF Has
<1>3. ASSUME NEW op PROVE Has(s, op) <=> Head(s) = op \/ Has(Tail(s), op)
  <2>1. ASSUME Has(s, op), Head(s) # op PROVE Has(Tail(s), op)
    <3>1. PICK i \in 1..Len(s) : s[i] = op
      BY <2>1 DEF Has
    <3>2. i # 1 /\ i - 1 \in 1..Len(Tail(s)) /\ (i - 1) + 1 = i
      BY <1>1, <2>1, <3>1
    <3>3. Tail(s)[i - 1] = op
      BY <1>1, <3>1, <3>2
    <3> QED
      BY <3>2, <3>3 DEF Has
  <2>2. ASSUME Has(Tail(s), op) PROVE Has(s, op)
    <3>1. PICK i \in 1..Len(Tail(s)) : Tail(s)[i] = op
      BY <2>2 DEF Has
    <3>2. i + 1 \in 1..Len(s) /\ s[i + 1] = op
      BY <1>1, <3>1
    <3> QED
      BY <3>2 DEF Has
  <2> QED
    BY <1>2, <2>1, <2>2
<1>4. ASSUME InOrder(s) PROVE InOrder(Tail(s))
  <2> SUFFICES ASSUME NEW i \in 1..Len(Tail(s)), NEW j \in 1..Len(Tail(s)), Tail(s)[i] = "install", i < j
               PROVE  Tail(s)[j] \notin {"relay", "install"}
    BY DEF InOrder
  <2>1. i + 1 \in 1..Len(s) /\ j + 1 \in 1..Len(s) /\ i + 1 < j + 1 /\ s[i + 1] = "install"
    BY <1>1
  <2>2. s[j + 1] \notin {"relay", "install"}
    BY <2>1, <1>4 DEF InOrder
  <2> QED
    BY <1>1, <2>2
<1>5. ASSUME InOrder(s), Head(s) = "install" PROVE ~Has(s, "relay") /\ ~Has(Tail(s), "install")
  <2>1. \A j \in 1..Len(s) : 1 < j => s[j] \notin {"relay", "install"}
    BY <1>1, <1>5 DEF InOrder
  <2>2. \A j \in 1..Len(s) : s[j] # "relay"
    BY <1>1, <1>5, <2>1
  <2>3. \A j \in 1..Len(Tail(s)) : Tail(s)[j] # "install"
    BY <1>1, <2>1
  <2> QED
    BY <2>2, <2>3 DEF Has
<1> QED
  BY <1>1, <1>2, <1>3, <1>4, <1>5

\* Nothing is left to do, or something that is of the list's kind.
LEMMA HasNone == \A op : ~Has(<<>>, op)
  BY DEF Has

\* What is left to do is of the list's kind.
LEMMA HasOf ==
  ASSUME NEW S, NEW s \in Seq(S), NEW op, Has(s, op)
  PROVE  op \in S
  BY DEF Has

\* One list behind another leaves both to do.
LEMMA HasJoined ==
  ASSUME NEW s \in Seq(Clearing), NEW t \in Seq(Clearing), NEW op, Has(s, op) \/ Has(t, op)
  PROVE  Has(s \o t, op)
<1>0. Len(s) \in Nat /\ Len(t) \in Nat /\ Len(s \o t) = Len(s) + Len(t)
  OBVIOUS
<1>a. \A i \in 1..Len(s) : (s \o t)[i] = s[i]
  OBVIOUS
<1>b. \A i \in 1..Len(t) : (s \o t)[Len(s) + i] = t[i]
  <2> SUFFICES ASSUME NEW i \in 1..Len(t) PROVE (s \o t)[Len(s) + i] = t[i]
    OBVIOUS
  <2>1. Len(s) + i \in 1..(Len(s) + Len(t)) /\ Len(s) + i > Len(s) /\ (Len(s) + i) - Len(s) = i
    BY <1>0
  <2> QED
    BY <1>0, <2>1
<1>1. /\ Len(s) \in Nat /\ Len(t) \in Nat /\ Len(s \o t) = Len(s) + Len(t)
      /\ \A i \in 1..Len(s) : (s \o t)[i] = s[i]
      /\ \A i \in 1..Len(t) : (s \o t)[Len(s) + i] = t[i]
  BY <1>0, <1>a, <1>b
<1>2. CASE Has(s, op)
  <2>1. PICK i \in 1..Len(s) : s[i] = op
    BY <1>2 DEF Has
  <2>2. i \in 1..Len(s \o t) /\ (s \o t)[i] = op
    BY <1>1, <2>1
  <2> QED
    BY <2>2 DEF Has
<1>3. CASE Has(t, op)
  <2>1. PICK i \in 1..Len(t) : t[i] = op
    BY <1>3 DEF Has
  <2>2. Len(s) + i \in 1..Len(s \o t) /\ (s \o t)[Len(s) + i] = op
    BY <1>1, <2>1
  <2> QED
    BY <2>2 DEF Has
<1> QED
  BY <1>2, <1>3

\* What clears does not build, and is in order.
LEMMA BuildingIsNotClearing ==
  /\ \A s \in Seq(Building), t \in Seq(Clearing) : s = t => s = <<>>
  /\ \A t \in Seq(Clearing) : InOrder(t) /\ \A op \in Building : ~Has(t, op)
  /\ \A s \in Seq(Building) : \A op \in Clearing : ~Has(s, op)
<1>1. Building \cap Clearing = {} /\ "install" \notin Clearing
  BY DEF Building, Clearing
<1>2. ASSUME NEW s \in Seq(Building), NEW t \in Seq(Clearing), s = t PROVE s = <<>>
  <2> SUFFICES ASSUME s # <<>> PROVE FALSE
    OBVIOUS
  <2>1. Head(s) \in Building
    OBVIOUS
  <2>2. Head(t) \in Clearing
    BY <1>2
  <2> QED
    BY <1>1, <1>2, <2>1, <2>2
<1>3. ASSUME NEW t \in Seq(Clearing) PROVE InOrder(t) /\ \A op \in Building : ~Has(t, op)
  <2>1. \A i \in 1..Len(t) : t[i] \in Clearing
    OBVIOUS
  <2> QED
    BY <1>1, <2>1 DEF InOrder, Has
<1>4. ASSUME NEW s \in Seq(Building) PROVE \A op \in Clearing : ~Has(s, op)
  <2>1. \A i \in 1..Len(s) : s[i] \in Building
    OBVIOUS
  <2> QED
    BY <1>1, <2>1 DEF Has
<1> QED
  BY <1>2, <1>3, <1>4

-----------------------------------------------------------------------------
(* The scripts.                                                            *)

\* A publication, a file's start, a listener's start (server.rs, media_player.rs, srt.rs).
LEMMA Builders ==
  /\ \A s \in {<<>>, Publish, PublishPlain, Playback, Listen, Ensure, Tail(Ensure), FromAsset} :
        s \in Seq(Building) /\ InOrder(s)
  /\ \A s \in {Publish, Playback, Listen, Ensure, FromAsset} : Has(s, "relay")
  /\ \A op : ~Has(<<>>, op)
  /\ ~Has(PublishPlain, "install")
<1> USE DEF InOrder, Has, Building
<1>1. Publish \in Seq(Building) /\ InOrder(Publish) /\ Has(Publish, "relay")
  BY DEF Publish
<1>2. PublishPlain \in Seq(Building) /\ InOrder(PublishPlain) /\ ~Has(PublishPlain, "install")
  BY DEF PublishPlain
<1>3. Playback \in Seq(Building) /\ InOrder(Playback) /\ Has(Playback, "relay")
  BY DEF Playback
<1>4. Listen \in Seq(Building) /\ InOrder(Listen) /\ Has(Listen, "relay")
  BY DEF Listen
<1>5. Ensure \in Seq(Building) /\ InOrder(Ensure) /\ Has(Ensure, "relay")
  BY DEF Ensure
<1>6. FromAsset \in Seq(Building) /\ InOrder(FromAsset) /\ Has(FromAsset, "relay")
  BY DEF FromAsset
<1>7. <<>> \in Seq(Building) /\ InOrder(<<>>) /\ \A op : ~Has(<<>>, op)
  OBVIOUS
<1> HIDE DEF InOrder, Has, Building
<1>8. Ensure # <<>>
  BY DEF Ensure
<1>9. Tail(Ensure) \in Seq(Building) /\ InOrder(Tail(Ensure))
  BY <1>5, <1>8, RestOf
<1> QED
  BY <1>1, <1>2, <1>3, <1>4, <1>5, <1>6, <1>7, <1>9

\* A session's end and a deletion clear everything (server.rs 137-153, sources.rs 217-223).
LEMMA Clearers ==
  ASSUME kind \in {"rtmp", "file", "srt", "browser"}
  PROVE  /\ \A s \in {Finish, Delete} :
              /\ s \in Seq(Clearing)
              /\ Has(s, "uninstall") /\ Has(s, "dropRelay") /\ Has(s, "disconnected")
         /\ Has(Finish, "hangUp") /\ Finish # <<>> /\ Delete # <<>>
<1>1. /\ Finish \in Seq(Clearing) /\ Finish # <<>>
      /\ Has(Finish, "uninstall") /\ Has(Finish, "dropRelay") /\ Has(Finish, "disconnected") /\ Has(Finish, "hangUp")
  BY DEF Finish, Clearing, Building, Ops, Has
<1>2. \A K : /\ Stop(K) \in Seq(Clearing) /\ Has(Stop(K), "dropRelay")
             /\ kind \in K => Has(Stop(K), "uninstall")
  <2> TAKE K
  <2>1. /\ <<"dropRelay", "dropHeaders">> \in Seq(Clearing) /\ Has(<<"dropRelay", "dropHeaders">>, "dropRelay")
        /\ <<"uninstall">> \in Seq(Clearing) /\ Has(<<"uninstall">>, "uninstall") /\ <<>> \in Seq(Clearing)
    BY DEF Clearing, Building, Ops, Has
  <2>2. \A s, t \in Seq(Clearing) : s \o t \in Seq(Clearing)
    OBVIOUS
  <2>3. CASE kind \in K
    <3>1. Stop(K) = <<"uninstall">> \o <<"dropRelay", "dropHeaders">>
      BY <2>3 DEF Stop
    <3> QED
      BY <2>1, <2>2, <2>3, <3>1, HasJoined
  <2>4. CASE kind \notin K
    <3>1. Stop(K) = <<>> \o <<"dropRelay", "dropHeaders">>
      BY <2>4 DEF Stop
    <3> QED
      BY <2>1, <2>2, <2>4, <3>1, HasJoined
  <2> QED
    BY <2>3, <2>4
<1>3. <<"disconnected">> \in Seq(Clearing) /\ Has(<<"disconnected">>, "disconnected")
  BY DEF Clearing, Building, Ops, Has
<1>4. \A s, t \in Seq(Clearing) : s \o t \in Seq(Clearing)
  OBVIOUS
<1> DEFINE A == Stop({"srt"}) \o Stop({"file"})
           B == A \o Stop({"rtmp", "browser"})
           C == B \o <<"disconnected">>
           D == C \o Stop({"rtmp", "browser"})
<1>5. A \in Seq(Clearing) /\ Has(A, "dropRelay") /\ (kind \in {"srt", "file"} => Has(A, "uninstall"))
  BY <1>2, <1>4, HasJoined
<1> HIDE DEF A
<1>6. B \in Seq(Clearing) /\ Has(B, "dropRelay") /\ Has(B, "uninstall")
  BY <1>2, <1>4, <1>5, HasJoined
<1> HIDE DEF B
<1>7. C \in Seq(Clearing) /\ Has(C, "dropRelay") /\ Has(C, "uninstall")
  BY <1>3, <1>4, <1>6, HasJoined
<1> HIDE DEF C
<1>8. D \in Seq(Clearing) /\ Has(D, "dropRelay") /\ Has(D, "uninstall")
  BY <1>2, <1>4, <1>7, HasJoined
<1> HIDE DEF D
<1>9. Delete = D \o <<"disconnected">>
  BY <1>2, <1>3, <1>4 DEF Delete, A, B, C, D
<1>10. Delete \in Seq(Clearing) /\ Has(Delete, "dropRelay") /\ Has(Delete, "uninstall") /\ Has(Delete, "disconnected")
  BY <1>3, <1>4, <1>8, <1>9, HasJoined
<1>11. Delete # <<>>
  BY <1>10, HasNone
<1> QED
  BY <1>1, <1>10, <1>11

-----------------------------------------------------------------------------
(* What the sessions and calls have still to do.                           *)

\* An operation is done, or, where a check or the start of an ffmpeg fails, the rest
\* is given up; nobody else is concerned.
LEMMA StepMoves ==
  ASSUME IInv, NEW a \in Actor, Step(a)
  PROVE  /\ Busy(a) /\ todo[a] \in Seq(Ops) /\ todo[a] # <<>>
         /\ UNCHANGED <<kind, row, on, torn>>
         /\ \A b \in Actor : b # a => todo'[b] = todo[b] /\ own'[b] = own[b]
         /\ \/ todo'[a] = Tail(todo[a])
            \/ /\ Head(todo[a]) \in {"ifNoRelay", "ifRow", "ifNotPlaying", "spawn"}
               /\ todo'[a] = <<>> \/ (todo'[a] = PublishPlain /\ kind = "rtmp" /\ At(a, "spawn"))
               /\ UNCHANGED own
         /\ own'[a] # None => At(a, "spawn") \/ (own[a] # None /\ ~At(a, "hangUp"))
<1> USE DEF IInv, TypeOK, shared
<1>0. todo \in [Actor -> Seq(Ops)] /\ own \in [Actor -> Child \cup {None}]
  OBVIOUS
<1>1. ASSUME Done(a)
      PROVE  todo'[a] = Tail(todo[a]) /\ \A b \in Actor : b # a => todo'[b] = todo[b]
  BY <1>0, <1>1 DEF Done
<1>2. ASSUME NEW s, todo' = [todo EXCEPT ![a] = s]
      PROVE  todo'[a] = s /\ \A b \in Actor : b # a => todo'[b] = todo[b]
  BY <1>0, <1>2
<1> HIDE DEF IInv, TypeOK
<1>3. CASE Checked(a)
  <2>1. /\ At(a, "ifNoRelay") \/ At(a, "ifRow") \/ At(a, "ifNotPlaying")
        /\ Done(a) \/ GiveUp(a)
        /\ UNCHANGED <<kind, row, on, own, torn>>
    BY <1>3 DEF Checked
  <2>2. CASE Done(a)
    BY <1>1, <2>1, <2>2, <1>0 DEF At, Busy
  <2>3. CASE GiveUp(a)
    BY <1>2, <2>1, <2>3, <1>0 DEF At, Busy, GiveUp
  <2> QED
    BY <2>1, <2>2, <2>3
<1>4. CASE GetRelay(a)
  BY <1>0, <1>1, <1>4 DEF GetRelay, At, Busy
<1>5. CASE Spawn(a)
  BY <1>0, <1>1, <1>5 DEF Spawn, At, Busy
<1>6. CASE SpawnFails(a)
  <2>1. PICK s : /\ todo' = [todo EXCEPT ![a] = s]
                 /\ s = <<>> \/ (s = PublishPlain /\ kind = "rtmp")
    BY <1>6 DEF SpawnFails
  <2>2. At(a, "spawn") /\ UNCHANGED <<kind, row, on, own, torn>>
    BY <1>6 DEF SpawnFails
  <2>3. todo'[a] = s /\ \A b \in Actor : b # a => todo'[b] = todo[b]
    BY <1>2, <2>1
  <2> QED
    BY <1>0, <2>1, <2>2, <2>3 DEF At, Busy
<1>7. CASE Install(a)
  <2>1. own[a] \in Child
    BY <1>7 DEF IInv, TodoOK, Installing, Install
  <2>2. own[a] # None
    BY <2>1, IngestAssumption
  <2>3. At(a, "install") /\ Done(a) /\ UNCHANGED <<kind, row, on, torn>> /\ (own' = own \/ own' = [own EXCEPT ![a] = None])
    BY <1>7 DEF Install
  <2> QED
    BY <1>0, <1>1, <2>2, <2>3 DEF At, Busy
<1>8. CASE Report(a)
  BY <1>0, <1>1, <1>8 DEF Report, At, Busy
<1>9. CASE Uninstall(a)
  BY <1>0, <1>1, <1>9 DEF Uninstall, At, Busy
<1>10. CASE DropRelay(a)
  BY <1>0, <1>1, <1>10 DEF DropRelay, At, Busy
<1>11. CASE DropHeaders(a)
  BY <1>0, <1>1, <1>11 DEF DropHeaders, At, Busy
<1>12. CASE HangUp(a)
  BY <1>0, <1>1, <1>12 DEF HangUp, At, Busy
<1> QED
  BY <1>3, <1>4, <1>5, <1>6, <1>7, <1>8, <1>9, <1>10, <1>11, <1>12 DEF Step

\* The tasks of an ffmpeg, and its end, leave the sessions and calls alone.
LEMMA TaskMoves ==
  ASSUME NEW c \in Child, Tasks(c) \/ Exits(c)
  PROVE  UNCHANGED <<kind, row, todo, on, own, alone, torn>>
BY DEF Tasks, Exits, ReadHeader, ReadTag, FirstTag, OutputEnds, Forgotten, Watch, InputEnds, shared

\* Whoever is not concerned keeps what it has.
LEMMA ListedStays ==
  ASSUME NEW b \in Actor, Listed(b),
         kind' = kind, todo'[b] = todo[b], on'[b] = on[b], own'[b] = own[b]
  PROVE  Listed(b)'
BY DEF Listed, Publisher, Busy

\* A step leaves lists that build or clear, and a publisher's session what it is.
LEMMA StepLists == ASSUME IInv, Lists, NEW a \in Actor, Step(a) PROVE Lists'
<1>1. /\ Busy(a) /\ todo[a] \in Seq(Ops) /\ todo[a] # <<>>
      /\ UNCHANGED <<kind, on>>
      /\ \A b \in Actor : b # a => todo'[b] = todo[b] /\ own'[b] = own[b]
      /\ \/ todo'[a] = Tail(todo[a])
         \/ /\ Head(todo[a]) \in {"ifNoRelay", "ifRow", "ifNotPlaying", "spawn"}
            /\ todo'[a] = <<>> \/ (todo'[a] = PublishPlain /\ kind = "rtmp")
            /\ UNCHANGED own
      /\ own'[a] # None => At(a, "spawn") \/ (own[a] # None /\ ~At(a, "hangUp"))
  BY StepMoves
<1>2. Listed(a)
  BY DEF Lists
<1>3. Building \cap Clearing = {} /\ {"ifNoRelay", "ifRow", "ifNotPlaying", "spawn"} \subseteq Building
  BY DEF Building, Clearing
<1>4. todo[a] \in Seq(Building) \cup Seq(Clearing) /\ InOrder(todo[a])
  BY <1>2 DEF Listed
<1>5. Head(todo[a]) \in Building => todo[a] \in Seq(Building)
  BY <1>1, <1>3, <1>4
<1>6. Listed(a)'
  <2>1. CASE todo'[a] = Tail(todo[a])
    <3>1. todo'[a] \in Seq(Building) \cup Seq(Clearing) /\ InOrder(todo'[a])
      BY <1>1, <1>4, <2>1, RestOf
    <3>2. todo[a] \in Seq(Building) => todo'[a] \in Seq(Building)
      BY <1>1, <2>1, RestOf
    <3>3. Busy(a)' /\ todo'[a] \in Seq(Building) => todo[a] \in Seq(Building)
      <4>1. todo[a] \in Seq(Clearing) => todo'[a] \in Seq(Clearing)
        BY <1>1, <2>1, RestOf
      <4> QED
        BY <1>4, <4>1, BuildingIsNotClearing DEF Busy
    <3>4. kind = "rtmp" => Publisher(a)'
      <4> SUFFICES ASSUME kind = "rtmp" PROVE Publisher(a)'
        OBVIOUS
      <4>1. Publisher(a)
        BY <1>2 DEF Listed
      <4>2. own'[a] # None => on'[a] \/ Has(todo'[a], "hangUp")
        <5>1. At(a, "spawn") => on[a]
          BY <1>1, <1>3, <1>5, <4>1 DEF At, Publisher
        <5>2. Has(todo[a], "hangUp") /\ ~At(a, "hangUp") => Has(todo'[a], "hangUp")
          BY <1>1, <2>1, RestOf DEF At
        <5> QED
          BY <1>1, <4>1, <5>1, <5>2 DEF Publisher
      <4> QED
        BY <1>1, <3>2, <3>3, <4>1, <4>2 DEF Publisher
    <3> QED
      BY <1>1, <1>2, <3>1, <3>4 DEF Listed
  <2>2. CASE /\ Head(todo[a]) \in {"ifNoRelay", "ifRow", "ifNotPlaying", "spawn"}
             /\ todo'[a] = <<>> \/ (todo'[a] = PublishPlain /\ kind = "rtmp")
             /\ UNCHANGED own
    <3>1. todo'[a] \in Seq(Building) /\ InOrder(todo'[a])
      BY <2>2, Builders
    <3>2. todo[a] \in Seq(Building)
      BY <1>3, <1>5, <2>2
    <3>3. kind = "rtmp" => on[a]
      BY <1>1, <1>2, <3>2 DEF Listed, Publisher
    <3> QED
      BY <1>1, <1>2, <3>1, <3>3 DEF Listed, Publisher
  <2> QED
    BY <1>1, <2>1, <2>2
<1> QED
  BY <1>1, <1>6, ListedStays DEF Lists

\* So does what begins, and the error that ends a session.
LEMMA RequestLists == ASSUME IInv, Lists, NEW a \in Actor, Requests(a) PROVE Lists'
<1>1. /\ todo \in [Actor -> Seq(Ops)] /\ own \in [Actor -> Child \cup {None}] /\ on \in [Actor -> BOOLEAN]
      /\ kind \in {"rtmp", "file", "srt", "browser"}
  BY DEF IInv, TypeOK
<1>2. kind' = kind
  BY DEF Requests, PublishRequested, PublishAgain, PublishFinished, ConnectionError, EnsureFallback, CreateFromAsset,
         DeleteSource, shared
<1>3. \A b \in Actor : b # a => todo'[b] = todo[b] /\ own'[b] = own[b] /\ on'[b] = on[b]
  BY <1>1 DEF Requests, PublishRequested, PublishAgain, PublishFinished, ConnectionError, EnsureFallback, CreateFromAsset,
              DeleteSource, Begin, GiveUp
<1>4. Listed(a)
  BY DEF Lists
<1>5. \A s \in Seq(Clearing) : s # <<>> => s \notin Seq(Building)
  BY BuildingIsNotClearing
<1>6. Listed(a)'
  <2>1. CASE PublishRequested(a)
    <3>1. todo'[a] = Publish /\ on'[a] /\ kind = "rtmp"
      BY <1>1, <2>1 DEF PublishRequested, Begin
    <3> QED
      BY <1>2, <3>1, Builders DEF Listed, Publisher
  <2>9. CASE PublishAgain(a)
    <3>1. todo'[a] = Publish /\ on'[a] /\ kind = "rtmp"
      BY <1>1, <2>9 DEF PublishAgain
    <3> QED
      BY <1>2, <3>1, Builders DEF Listed, Publisher
  <2>2. CASE PublishFinished(a)
    <3>1. todo'[a] = Finish /\ ~on'[a]
      BY <1>1, <2>2 DEF PublishFinished, Begin
    <3> QED
      BY <1>1, <1>2, <1>5, <3>1, Clearers, BuildingIsNotClearing DEF Listed, Publisher
  <2>3. CASE ConnectionError(a)
    <3>1. todo'[a] = <<>> /\ ~on'[a] /\ own'[a] = None
      BY <1>1, <2>3 DEF ConnectionError, GiveUp
    <3> QED
      BY <1>2, <3>1, Builders DEF Listed, Publisher, Busy
  <2>4. CASE EnsureFallback(a) \/ CreateFromAsset(a)
    <3>1. todo'[a] \in {Ensure, FromAsset} /\ on' = on /\ kind = "file"
      BY <1>1, <2>4 DEF EnsureFallback, CreateFromAsset, Begin
    <3> QED
      BY <1>2, <1>4, <3>1, Builders DEF Listed
  <2>5. CASE DeleteSource(a)
    <3>1. todo'[a] = Delete /\ on' = on /\ own' = own /\ ~on[a] /\ ~Busy(a)
      BY <1>1, <2>5 DEF DeleteSource, Begin
    <3>2. kind = "rtmp" => own[a] = None
      BY <1>4, <3>1, HasNone DEF Listed, Publisher, Busy
    <3> QED
      BY <1>1, <1>2, <1>5, <3>1, <3>2, Clearers, BuildingIsNotClearing DEF Listed, Publisher
  <2> QED
    BY <2>1, <2>2, <2>3, <2>4, <2>5, <2>9 DEF Requests
<1> QED
  BY <1>2, <1>3, <1>6, ListedStays DEF Lists

\* At first a source's own task has its list, and nobody else has one.
LEMMA InitLists == Init => Lists
<1> SUFFICES ASSUME Init, NEW b \in Actor PROVE Listed(b)
  BY DEF Lists
<1>1. PICK a \in Actor : todo = [x \in Actor |-> IF x = a THEN Launch(kind) ELSE <<>>]
  BY DEF Init
<1>2. kind \in {"rtmp", "file", "srt", "browser"} /\ ~on[b] /\ own[b] = None
  BY IngestAssumption DEF Init
<1>3. todo[b] \in {<<>>, Listen, Playback} /\ (kind = "rtmp" => todo[b] = <<>>)
  BY <1>1, <1>2 DEF Launch
<1> QED
  BY <1>2, <1>3, Builders DEF Listed, Publisher, Busy

\* No step spoils a list.
LEMMA ListsKept == ASSUME IInv, Lists, [Next]_vars PROVE Lists'
<1>1. CASE UNCHANGED vars
  BY <1>1, ListedStays DEF Lists, vars, shared
<1>2. ASSUME NEW c \in Child, Tasks(c) \/ Exits(c) PROVE Lists'
  BY <1>2, TaskMoves, ListedStays DEF Lists
<1> QED
  BY <1>1, <1>2, StepLists, RequestLists DEF Next

-----------------------------------------------------------------------------
(* The readers.                                                            *)

\* Nothing unborn, nothing ended, is anything else again but by being spawned.
LEMMA EmptyAges ==
  ASSUME TypeOK, NEW c \in Child
  PROVE  /\ Empty[c] = "unborn" <=> ffmpeg[c] = "unborn"
         /\ Ended(c) => Empty[c] \in {"killed", "exited"}
<1>1. CASE map = None
  BY <1>1 DEF Empty, Ended
<1>2. CASE map # None
  BY <1>2, IngestAssumption DEF TypeOK, Empty, Killed, Ended
<1> QED
  BY <1>1, <1>2

\* What an actor does leaves the readers as they were, but for the one it starts.
LEMMA StepReaders == ASSUME IInv, Readers, NEW a \in Actor, Step(a) PROVE Readers'
<1> USE DEF shared
<1>0. /\ ffmpeg \in [Child -> {"unborn", "running", "killed", "exited"}] /\ own \in [Actor -> Child \cup {None}]
      /\ reader \in [Child -> {"off", "header", "tag", "first", "frames", "ending", "gone"}]
      /\ DOMAIN watch = Child
  BY DEF IInv, TypeOK
<1>1. ASSUME NEW b \in Actor, b # a PROVE Installing(b)' => Installing(b) /\ own'[b] = own[b]
  BY <1>1, StepMoves DEF Installing, At, Busy
<1>2. ASSUME Busy(a), Done(a) PROVE Installing(a)' => At(a, "spawn")
  BY <1>2, DoneKeeps DEF IInv
<1>3. CASE UNCHANGED <<ffmpeg, reader, watch, kind>> /\ ~Installing(a)'
  BY <1>1, <1>3 DEF Readers, Read, Ended
<1>4. CASE Checked(a)
  <2>1. ~Installing(a)'
    BY <1>2, <1>4, ScriptsFresh, FreshKeeps DEF IInv, Checked, At, GiveUp
  <2> QED
    BY <1>3, <1>4, <2>1 DEF Checked
<1>5. CASE SpawnFails(a)
  <2>1. ~Installing(a)'
    BY <1>5, ScriptsFresh, FreshKeeps DEF IInv, SpawnFails
  <2> QED
    BY <1>3, <1>5, <2>1 DEF SpawnFails
<1>6. CASE GetRelay(a) \/ Report(a) \/ DropRelay(a) \/ DropHeaders(a) \/ HangUp(a)
  <2>1. ~Installing(a)'
    BY <1>2, <1>6 DEF GetRelay, Report, DropRelay, DropHeaders, HangUp, At
  <2> QED
    BY <1>3, <1>6, <2>1 DEF GetRelay, Report, DropRelay, DropHeaders, HangUp
<1>7. CASE Spawn(a)
  <2>1. PICK d \in Child : /\ ffmpeg[d] = "unborn"
                           /\ ffmpeg' = [ffmpeg EXCEPT ![d] = "running"]
                           /\ own' = [own EXCEPT ![a] = d]
                           /\ watch' = [watch EXCEPT ![d] = IF kind = "srt" THEN "on" ELSE "off"]
    BY <1>7 DEF Spawn
  <2>2. /\ ffmpeg'[d] = "running" /\ own'[a] = d /\ reader' = reader /\ kind' = kind
        /\ \A c \in Child : c # d => ffmpeg'[c] = ffmpeg[c] /\ watch'[c] = watch[c]
    BY <1>0, <1>7, <2>1 DEF Spawn
  <2>3. reader[d] = "off"
    BY <2>1 DEF Readers, Read
  <2>4. ASSUME NEW c \in Child PROVE Read(c)'
    BY <2>2, <2>3 DEF Readers, Read, Ended
  <2>5. ASSUME NEW b \in Actor, Installing(b)' PROVE ffmpeg'[own'[b]] # "unborn"
    <3>1. CASE b = a
      BY <2>2, <3>1
    <3>2. CASE b # a
      <4>1. Installing(b) /\ own'[b] = own[b] /\ own[b] \in Child
        BY <1>1, <2>5, <3>2 DEF IInv, TodoOK
      <4> QED
        BY <2>2, <4>1 DEF Readers
    <3> QED
      BY <3>1, <3>2
  <2> QED
    BY <2>4, <2>5 DEF Readers
<1>8. CASE Install(a)
  <2>1. /\ own[a] \in Child /\ ffmpeg' = Empty /\ kind' = kind /\ watch' = watch
        /\ reader' = [reader EXCEPT ![own[a]] = "header"] /\ ffmpeg[own[a]] # "unborn"
    BY <1>8 DEF IInv, TodoOK, Install, Installing, Readers
  <2>2. ASSUME NEW c \in Child PROVE Read(c)'
    <3>1. /\ Read(c)
          /\ ffmpeg'[c] = "unborn" <=> ffmpeg[c] = "unborn"
          /\ Ended(c) => Ended(c)'
      BY <2>1, EmptyAges DEF IInv, Readers, Ended
    <3>2. CASE c = own[a]
      BY <1>0, <2>1, <3>1, <3>2 DEF Read
    <3>3. CASE c # own[a]
      BY <1>0, <2>1, <3>1, <3>3 DEF Read
    <3> QED
      BY <3>2, <3>3
  <2>3. ASSUME NEW b \in Actor, Installing(b)' PROVE ffmpeg'[own'[b]] # "unborn"
    <3>1. ~Installing(a)'
      BY <1>2, <1>8 DEF Install, At
    <3>2. Installing(b) /\ own'[b] = own[b] /\ own[b] \in Child
      BY <1>1, <2>3, <3>1 DEF IInv, TodoOK
    <3> QED
      BY <2>1, <3>2, EmptyAges DEF IInv, Readers
  <2> QED
    BY <2>2, <2>3 DEF Readers
<1>9. CASE Uninstall(a)
  <2>1. ffmpeg' = Empty /\ UNCHANGED <<kind, reader, watch>> /\ ~Installing(a)'
    BY <1>2, <1>9 DEF Uninstall, At
  <2>2. ASSUME NEW c \in Child PROVE Read(c)'
    <3>1. /\ Read(c)
          /\ ffmpeg'[c] = "unborn" <=> ffmpeg[c] = "unborn"
          /\ Ended(c) => Ended(c)'
      BY <2>1, EmptyAges DEF IInv, Readers, Ended
    <3> QED
      BY <2>1, <3>1 DEF Read
  <2>3. ASSUME NEW b \in Actor, Installing(b)' PROVE ffmpeg'[own'[b]] # "unborn"
    <3>1. Installing(b) /\ own'[b] = own[b] /\ own[b] \in Child
      BY <1>1, <2>1, <2>3 DEF IInv, TodoOK
    <3> QED
      BY <2>1, <3>1, EmptyAges DEF IInv, Readers
  <2> QED
    BY <2>2, <2>3 DEF Readers
<1> QED
  BY <1>4, <1>5, <1>6, <1>7, <1>8, <1>9 DEF Step

\* What begins, and the error that ends a session, are no installations.
LEMMA RequestMoves ==
  ASSUME IInv, NEW a \in Actor, Requests(a)
  PROVE  /\ UNCHANGED <<kind, relay, header, status, map, ffmpeg, reader, watch>>
         /\ ~Installing(a) /\ ~Installing(a)'
         /\ \A b \in Actor : b # a => todo'[b] = todo[b] /\ own'[b] = own[b] /\ on'[b] = on[b]
<1>0. todo \in [Actor -> Seq(Ops)] /\ own \in [Actor -> Child \cup {None}] /\ on \in [Actor -> BOOLEAN]
  BY DEF IInv, TypeOK
<1>1. /\ UNCHANGED <<kind, relay, header, status, map, ffmpeg, reader, watch>>
      /\ \A b \in Actor : b # a => todo'[b] = todo[b] /\ own'[b] = own[b] /\ on'[b] = on[b]
  BY <1>0 DEF Requests, PublishRequested, PublishAgain, PublishFinished, ConnectionError, EnsureFallback, CreateFromAsset,
              DeleteSource, Begin, GiveUp, shared
<1>2. ~Installing(a)
  BY DEF Requests, PublishRequested, PublishAgain, PublishFinished, ConnectionError, EnsureFallback, CreateFromAsset,
         DeleteSource, Begin, Installing, At
<1>3. \E s : Fresh(s) /\ todo' = [todo EXCEPT ![a] = s]
  BY ScriptsFresh DEF Requests, PublishRequested, PublishAgain, PublishFinished, ConnectionError, EnsureFallback,
     CreateFromAsset, DeleteSource, Begin, GiveUp
<1>4. ~Installing(a)'
  BY <1>3, FreshKeeps DEF IInv
<1> QED
  BY <1>1, <1>2, <1>4

\* A reader ends after its ffmpeg.
LEMMA TaskReaders == ASSUME IInv, Readers, NEW c \in Child, Tasks(c) \/ Exits(c) PROVE Readers'
<1> USE DEF shared
<1>0. /\ ffmpeg \in [Child -> {"unborn", "running", "killed", "exited"}]
      /\ reader \in [Child -> {"off", "header", "tag", "first", "frames", "ending", "gone"}]
      /\ watch \in [Child -> IF kind = "srt" THEN {"off", "on", "marked", "gone"} ELSE {"off"}]
      /\ kind' = kind
  BY TaskMoves DEF IInv, TypeOK
<1>1. ASSUME NEW d \in Child
      PROVE  /\ ffmpeg'[d] = "unborn" <=> ffmpeg[d] = "unborn"
             /\ Ended(d) => Ended(d)'
  <2>1. CASE ffmpeg' = ffmpeg
    BY <2>1 DEF Ended
  <2>2. CASE Forgotten(c)
    BY <2>2, EmptyAges DEF IInv, Forgotten, Ended
  <2>3. CASE InputEnds(c) \/ Exits(c)
    BY <1>0, <2>3 DEF InputEnds, Exits, Ended, Running
  <2> QED
    BY <2>1, <2>2, <2>3 DEF Tasks, ReadHeader, ReadTag, FirstTag, OutputEnds, Watch
<1>2. ASSUME NEW d \in Child PROVE Read(d)'
  <2>0. Read(d)
    BY DEF Readers
  <2>1. CASE UNCHANGED <<reader, watch>>
    BY <1>0, <1>1, <2>0, <2>1 DEF Read
  <2>2. CASE Watch(c)
    BY <1>0, <1>1, <2>0, <2>2 DEF Watch, Read, Ended
  <2>3. CASE ReadHeader(c)
    BY <1>0, <1>1, <2>0, <2>3 DEF ReadHeader, Read
  <2>4. CASE ReadTag(c)
    BY <1>0, <1>1, <2>0, <2>4 DEF ReadTag, Read
  <2>5. CASE FirstTag(c)
    BY <1>0, <1>1, <2>0, <2>5 DEF FirstTag, Read
  <2>6. CASE OutputEnds(c)
    BY <1>0, <1>1, <2>0, <2>6 DEF OutputEnds, Read, Ended
  <2>7. CASE Forgotten(c)
    <3>1. reader' = [reader EXCEPT ![c] = "gone"] /\ watch' = watch /\ reader[c] = "ending"
      BY <2>7 DEF Forgotten
    <3> QED
      BY <1>0, <1>1, <2>0, <3>1 DEF Read
  <2> QED
    BY <2>1, <2>2, <2>3, <2>4, <2>5, <2>6, <2>7 DEF Tasks, InputEnds, Exits
<1>3. ASSUME NEW b \in Actor, Installing(b)' PROVE ffmpeg'[own'[b]] # "unborn"
  <2>1. Installing(b) /\ own' = own /\ own[b] \in Child
    BY <1>3, TaskMoves DEF IInv, TodoOK, Installing, At, Busy
  <2> QED
    BY <1>1, <2>1 DEF Readers
<1> QED
  BY <1>2, <1>3 DEF Readers

\* No step starts a reader without its ffmpeg.
LEMMA ReadersKept == ASSUME IInv, Readers, [Next]_vars PROVE Readers'
<1>1. CASE UNCHANGED vars
  BY <1>1 DEF vars, shared, Readers, Read, Ended, Installing, At, Busy
<1>2. ASSUME NEW a \in Actor, Requests(a) PROVE Readers'
  <2>1. \A b \in Actor : Installing(b)' => Installing(b) /\ own'[b] = own[b]
    BY <1>2, RequestMoves DEF Installing, At, Busy
  <2> QED
    BY <1>2, <2>1, RequestMoves DEF Readers, Read, Ended
<1> QED
  BY <1>1, <1>2, StepReaders, TaskReaders DEF Next

-----------------------------------------------------------------------------
(* What a publisher has set up is cleared.                                 *)

\* What is still to be cleared stays so until it is done.
LEMMA StaysToDo ==
  ASSUME IInv, Lists, NEW a \in Actor, Step(a), NEW b \in Actor, NEW op \in Clearing,
         Has(todo[b], op), ~At(a, op)
  PROVE  Has(todo'[b], op)
<1>1. /\ Busy(a) /\ todo[a] \in Seq(Ops) /\ todo[a] # <<>>
      /\ \A d \in Actor : d # a => todo'[d] = todo[d]
      /\ todo'[a] = Tail(todo[a]) \/ Head(todo[a]) \in {"ifNoRelay", "ifRow", "ifNotPlaying", "spawn"}
  BY StepMoves
<1>2. CASE b # a
  BY <1>1, <1>2
<1>3. CASE b = a
  <2>1. CASE todo'[a] = Tail(todo[a])
    BY <1>1, <1>3, <2>1, RestOf DEF At
  <2>2. CASE Head(todo[a]) \in {"ifNoRelay", "ifRow", "ifNotPlaying", "spawn"}
    <3>1. Head(todo[a]) \in Building /\ Building \cap Clearing = {}
      BY <2>2 DEF Building, Clearing
    <3>2. todo[a] \in Seq(Building)
      BY <1>1, <3>1 DEF Lists, Listed
    <3> QED
      BY <1>3, <3>2, BuildingIsNotClearing
  <2> QED
    BY <1>1, <2>1, <2>2
<1> QED
  BY <1>2, <1>3

\* Whoever builds publishes, if it is a publisher's source.
LEMMA BuildersPublish ==
  ASSUME IInv, Lists, kind = "rtmp", NEW a \in Actor, Busy(a), Head(todo[a]) \in Building
  PROVE  on[a]
<1>1. todo[a] \in Seq(Ops) /\ todo[a] # <<>> /\ Listed(a)
  BY DEF IInv, TypeOK, Busy, Lists
<1>2. todo[a] \in Seq(Building)
  <2>1. Building \cap Clearing = {}
    BY DEF Clearing
  <2> QED
    BY <1>1, <2>1 DEF Listed
<1> QED
  BY <1>1, <1>2 DEF Listed, Publisher

\* An operation that sets something up is a publisher's; one that clears is done once.
LEMMA StepClears == ASSUME IInv, Lists, ToClear, NEW a \in Actor, Step(a) PROVE ToClear'
<1> SUFFICES ASSUME kind = "rtmp", ~torn
             PROVE  /\ relay'           => \E b \in Actor : on'[b] \/ Has(todo'[b], "dropRelay")
                    /\ map' # None      => \E b \in Actor : on'[b] \/ Has(todo'[b], "uninstall")
                    /\ status' = "Live" => \E b \in Actor : on'[b] \/ Has(todo'[b], "disconnected")
  BY StepMoves DEF ToClear
<1>1. on' = on /\ Busy(a)
  BY StepMoves
<1>2. /\ relay' => (relay \/ At(a, "relay")) /\ ~At(a, "dropRelay")
      /\ map' # None => (map # None \/ At(a, "install")) /\ ~At(a, "uninstall")
      /\ status' = "Live" => (status = "Live" \/ At(a, "live")) /\ ~At(a, "disconnected")
  <2> USE DEF shared, At
  <2>1. CASE Checked(a)
    BY <2>1 DEF Checked
  <2>2. CASE GetRelay(a)
    BY <2>2 DEF GetRelay
  <2>3. CASE Spawn(a)
    BY <2>3 DEF Spawn
  <2>4. CASE SpawnFails(a)
    BY <2>4 DEF SpawnFails
  <2>5. CASE Install(a)
    BY <2>5 DEF Install
  <2>6. CASE Report(a)
    BY <2>6 DEF Report
  <2>7. CASE Uninstall(a)
    BY <2>7 DEF Uninstall
  <2>8. CASE DropRelay(a)
    BY <2>8 DEF DropRelay
  <2>9. CASE DropHeaders(a)
    BY <2>9 DEF DropHeaders
  <2>10. CASE HangUp(a)
    BY <2>10 DEF HangUp
  <2> QED
    BY <2>1, <2>2, <2>3, <2>4, <2>5, <2>6, <2>7, <2>8, <2>9, <2>10 DEF Step
<1>3. At(a, "relay") \/ At(a, "install") \/ At(a, "live") => on[a]
  BY <1>1, BuildersPublish DEF At, Building
<1>4. \A b \in Actor, op \in {"dropRelay", "uninstall", "disconnected"} :
        Has(todo[b], op) /\ ~At(a, op) => Has(todo'[b], op)
  <2>1. {"dropRelay", "uninstall", "disconnected"} \subseteq Clearing
    BY DEF Clearing, Building, Ops
  <2> QED
    BY <2>1, StaysToDo
<1>5. /\ relay           => \E b \in Actor : on[b] \/ Has(todo[b], "dropRelay")
      /\ map # None      => \E b \in Actor : on[b] \/ Has(todo[b], "uninstall")
      /\ status = "Live" => \E b \in Actor : on[b] \/ Has(todo[b], "disconnected")
  BY DEF ToClear
<1>6. relay' => \E b \in Actor : on'[b] \/ Has(todo'[b], "dropRelay")
  BY <1>1, <1>2, <1>3, <1>4, <1>5
<1>7. map' # None => \E b \in Actor : on'[b] \/ Has(todo'[b], "uninstall")
  BY <1>1, <1>2, <1>3, <1>4, <1>5
<1>8. status' = "Live" => \E b \in Actor : on'[b] \/ Has(todo'[b], "disconnected")
  BY <1>1, <1>2, <1>3, <1>4, <1>5
<1> QED
  BY <1>6, <1>7, <1>8

\* A session that ends in good order clears; one that has something to clear does not begin.
LEMMA RequestClears == ASSUME IInv, ToClear, NEW a \in Actor, Requests(a) PROVE ToClear'
<1> SUFFICES ASSUME kind = "rtmp", ~torn', NEW op \in {"dropRelay", "uninstall", "disconnected"},
                    NEW b \in Actor, on[b] \/ Has(todo[b], op)
             PROVE  on'[b] \/ Has(todo'[b], op)
  <2>1. UNCHANGED <<kind, relay, status, map>>
    BY RequestMoves
  <2>2. torn' = torn \/ torn'
    BY Zenon DEF Requests, PublishRequested, PublishAgain, PublishFinished, ConnectionError, EnsureFallback, CreateFromAsset,
                 DeleteSource
  <2> QED
    BY <2>1, <2>2 DEF ToClear
<1>1. b = a \/ (todo'[b] = todo[b] /\ on'[b] = on[b])
  BY RequestMoves
<1>2. kind \in {"rtmp", "file", "srt", "browser"} /\ todo \in [Actor -> Seq(Ops)] /\ on \in [Actor -> BOOLEAN]
  BY DEF IInv, TypeOK
<1>3. CASE PublishFinished(a)
  <2>1. todo'[a] = Finish
    BY <1>2, <1>3 DEF PublishFinished, Begin
  <2> QED
    BY <1>1, <1>2, <2>1, Clearers
<1>4. CASE PublishRequested(a)
  BY <1>1, <1>2, <1>4 DEF PublishRequested
<1>5. CASE DeleteSource(a)
  BY <1>1, <1>5, HasNone DEF DeleteSource, Begin, Busy
<1>6. CASE PublishAgain(a)
  BY <1>1, <1>6 DEF PublishAgain
<1> QED
  BY <1>3, <1>4, <1>5, <1>6 DEF Requests, ConnectionError, EnsureFallback, CreateFromAsset

\* A publisher's ffmpeg sets nothing up.
LEMMA TaskClears == ASSUME IInv, Readers, ToClear, NEW c \in Child, Tasks(c) \/ Exits(c) PROVE ToClear'
<1>1. UNCHANGED <<kind, todo, on, torn>>
  BY TaskMoves
<1>2. kind = "rtmp" => watch[c] = "off" /\ reader[c] # "first"
  BY DEF IInv, TypeOK, Readers, Read
<1>3. /\ relay' = relay /\ (map' # None => map # None)
      /\ kind = "rtmp" => status' = status
  BY <1>2 DEF Tasks, Exits, ReadHeader, ReadTag, FirstTag, OutputEnds, Forgotten, Watch, InputEnds, shared
<1> QED
  BY <1>1, <1>3 DEF ToClear

\* The lists, the readers and what is to be cleared, in every reachable state.
THEOREM InductiveLists == Spec => [](Lists /\ Readers /\ ToClear)
<1>1. Init => Lists /\ Readers /\ ToClear
  <2> SUFFICES ASSUME Init PROVE Readers /\ ToClear
    BY InitLists
  <2>1. Readers
    <3>1. \A c \in Child : Read(c)
      BY DEF Init, Read
    <3>2. \A a \in Actor : ~Installing(a)
      <4>1. PICK a \in Actor : todo = [b \in Actor |-> IF b = a THEN Launch(kind) ELSE <<>>]
        BY DEF Init
      <4>2. kind \in {"rtmp", "file", "srt", "browser"}
        BY IngestAssumption DEF Init
      <4> QED
        BY <4>1, <4>2, ScriptsFresh DEF Fresh, Installing, At, Busy
    <3> QED
      BY <3>1, <3>2 DEF Readers
  <2>2. ToClear
    BY DEF Init, ToClear
  <2> QED
    BY <2>1, <2>2
<1>2. IInv /\ Lists /\ Readers /\ ToClear /\ [Next]_vars => (Lists /\ Readers /\ ToClear)'
  <2> SUFFICES ASSUME IInv, Lists, Readers, ToClear, [Next]_vars PROVE ToClear'
    BY ListsKept, ReadersKept
  <2>1. CASE UNCHANGED vars
    BY <2>1 DEF vars, shared, ToClear
  <2> QED
    BY <2>1, StepClears, RequestClears, TaskClears DEF Next
<1> QED
  BY <1>1, <1>2, Inductive, PTL DEF Spec

\* However sessions of a source overlap, once all have ended in good order it has neither
\* relay nor normalizer, and is not shown as Live (server.rs 137-153, 292-309).
THEOREM AlwaysEndsClean == Spec => []EndsClean
<1>1. ToClear => EndsClean
  BY HasNone DEF ToClear, EndsClean, Over, Idle, Busy
<1> QED
  BY <1>1, InductiveLists, PTL

-----------------------------------------------------------------------------
(* As long as nobody overlaps.                                             *)

\* What the operations of a session or a call do to the source.
LEMMA StepEffects ==
  ASSUME IInv, NEW a \in Actor, Step(a)
  PROVE  /\ \A c \in Child : Running(c)' => Running(c) \/ At(a, "spawn")
         /\ At(a, "uninstall") => map' = None /\ \A c \in Child : Running(c)' => Running(c) /\ map # c
         /\ At(a, "dropRelay") => ~relay'
         /\ relay' => relay \/ At(a, "relay")
         /\ relay /\ ~At(a, "dropRelay") => relay'
         /\ At(a, "relay") => relay' /\ a \in holders'
         /\ \A x : x \in holders /\ x # a /\ ~At(a, "dropRelay") => x \in holders'
         /\ a \in holders /\ Head(todo[a]) \notin {"spawn", "install", "dropRelay", "hangUp"} => a \in holders'
         /\ reader' = reader \/ At(a, "install")
         /\ map' = map \/ At(a, "install") \/ At(a, "uninstall")
         /\ ffmpeg' = ffmpeg \/ At(a, "install") \/ At(a, "uninstall") \/ At(a, "spawn")
<1> USE DEF shared, At
<1>0. ffmpeg \in [Child -> {"unborn", "running", "killed", "exited"}]
  BY DEF IInv, TypeOK
<1>1. CASE Checked(a)
  BY <1>1 DEF Checked, Running
<1>2. CASE GetRelay(a)
  BY <1>2 DEF GetRelay, Running
<1>3. CASE Spawn(a)
  BY <1>3 DEF Spawn
<1>4. CASE SpawnFails(a)
  BY <1>4 DEF SpawnFails
<1>5. CASE Install(a)
  <2>1. \A c \in Child : Running(c)' => Running(c)
    BY <1>5, EmptyKills DEF IInv, Install, Running
  <2> QED
    BY <1>5, <2>1 DEF Install
<1>6. CASE Report(a)
  BY <1>6 DEF Report, Running
<1>7. CASE Uninstall(a)
  <2>1. \A c \in Child : Running(c)' => Running(c) /\ map # c
    BY <1>7, EmptyKills DEF IInv, Uninstall, Running
  <2> QED
    BY <1>7, <2>1 DEF Uninstall
<1>8. CASE DropRelay(a)
  BY <1>8 DEF DropRelay, Running
<1>9. CASE DropHeaders(a)
  BY <1>9 DEF DropHeaders, Running
<1>10. CASE HangUp(a)
  BY <1>10 DEF HangUp, Running
<1> QED
  BY <1>1, <1>2, <1>3, <1>4, <1>5, <1>6, <1>7, <1>8, <1>9, <1>10 DEF Step

\* Whoever is at something that builds clears nothing, and the other way round.
LEMMA BuildsOrClears ==
  ASSUME IInv, Lists, NEW a \in Actor, Busy(a)
  PROVE  /\ todo[a] \in Seq(Ops) /\ todo[a] # <<>>
         /\ Head(todo[a]) \in Building => todo[a] \in Seq(Building) /\ \A op \in Clearing : ~Has(todo[a], op)
         /\ Head(todo[a]) \in Clearing => todo[a] \in Seq(Clearing) /\ \A op \in Building : ~Has(todo[a], op)
<1>1. todo[a] \in Seq(Ops) /\ todo[a] # <<>> /\ todo[a] \in Seq(Building) \cup Seq(Clearing)
  BY DEF IInv, TypeOK, Busy, Lists, Listed
<1>2. Building \cap Clearing = {}
  BY DEF Clearing
<1>3. /\ todo[a] \in Seq(Building) => Head(todo[a]) \in Building
      /\ todo[a] \in Seq(Clearing) => Head(todo[a]) \in Clearing
  BY <1>1
<1> QED
  BY <1>1, <1>2, <1>3, BuildingIsNotClearing

\* Nothing is still to be cleared by whoever begins something or fails.
LEMMA RequestStays ==
  ASSUME IInv, Lists, NEW a \in Actor, Requests(a), NEW b \in Actor, NEW op \in Clearing, Has(todo[b], op)
  PROVE  todo'[b] = todo[b]
<1>1. ~Busy(a) \/ At(a, "live")
  BY DEF Requests, PublishRequested, PublishAgain, PublishFinished, ConnectionError, EnsureFallback, CreateFromAsset,
         DeleteSource, Begin
<1>2. b # a
  <2>1. CASE ~Busy(a)
    BY <2>1, HasNone DEF Busy
  <2>2. CASE At(a, "live")
    BY <2>2, BuildsOrClears DEF At, Building
  <2> QED
    BY <1>1, <2>1, <2>2
<1> QED
  BY <1>2, RequestMoves

\* A child's tasks start nothing and put nothing into the map.
LEMMA TaskEffects ==
  ASSUME IInv, Readers, NEW c \in Child, Tasks(c) \/ Exits(c)
  PROVE  /\ \A d \in Child : Running(d)' => Running(d)
         /\ relay' = relay /\ map' \in {map, None}
         /\ \A x : x \in holders /\ x # c => x \in holders'
         /\ Running(c)' => holders' = holders
         /\ \A d \in Child : d # c => reader'[d] = reader[d]
         /\ reader'[c] = "off" <=> reader[c] = "off"
         /\ reader[c] = "gone" => reader'[c] = "gone"
<1> USE DEF shared
<1>0. /\ ffmpeg \in [Child -> {"unborn", "running", "killed", "exited"}]
      /\ reader \in [Child -> {"off", "header", "tag", "first", "frames", "ending", "gone"}]
  BY DEF IInv, TypeOK
<1>1. CASE ReadHeader(c)
  BY <1>0, <1>1 DEF ReadHeader, Running
<1>2. CASE ReadTag(c)
  BY <1>0, <1>2 DEF ReadTag, Running
<1>3. CASE FirstTag(c)
  BY <1>0, <1>3 DEF FirstTag, Running
<1>4. CASE OutputEnds(c)
  BY <1>0, <1>4 DEF OutputEnds, Running, Ended
<1>5. CASE Forgotten(c)
  <2>1. \A d \in Child : Running(d)' => Running(d)
    BY <1>5, EmptyKills DEF IInv, Forgotten, Running
  <2>2. Ended(c)
    BY <1>5 DEF Forgotten, Readers, Read
  <2>3. ~Running(c)'
    BY <2>1, <2>2 DEF Running, Ended
  <2> QED
    BY <1>0, <1>5, <2>1, <2>3 DEF Forgotten
<1>6. CASE Watch(c)
  BY <1>0, <1>6 DEF Watch, Running
<1>7. CASE InputEnds(c)
  BY <1>0, <1>7 DEF InputEnds, Running
<1>8. CASE Exits(c)
  BY <1>0, <1>8 DEF Exits, Running
<1> QED
  BY <1>1, <1>2, <1>3, <1>4, <1>5, <1>6, <1>7, <1>8 DEF Tasks


\* Once two have overlapped, they have.
LEMMA AloneBefore == ASSUME [Next]_vars, alone' PROVE alone
<1>1. CASE UNCHANGED vars
  BY <1>1, Zenon DEF vars
<1>2. ASSUME NEW a \in Actor, Step(a) PROVE alone
  <2>1. alone' = alone \/ (alone' = (alone /\ ~\E c \in Child \ {own[a]} : Running(c) \/ Lingers(c)))
    BY <1>2, Zenon DEF Step, Checked, GetRelay, Spawn, SpawnFails, Install, Report, Uninstall, DropRelay,
                       DropHeaders, HangUp
  <2> QED
    BY <2>1, Zenon
<1>3. ASSUME NEW a \in Actor, Requests(a) PROVE alone
  <2>1. \/ alone' = alone \/ alone' = FALSE
        \/ alone' = (alone /\ ~\E b \in Actor \ {a} : Active(b))
    BY <1>3, Zenon DEF Requests, PublishRequested, PublishAgain, PublishFinished, ConnectionError, EnsureFallback,
                       CreateFromAsset, DeleteSource, Begin
  <2> QED
    BY <2>1, Zenon
<1>4. ASSUME NEW c \in Child, Tasks(c) \/ Exits(c) PROVE alone
  BY <1>4, TaskMoves, Zenon
<1> QED
  BY <1>1, <1>2, <1>3, <1>4, Zenon DEF Next

\* While one is active, the others are not.
LEMMA OthersIdle ==
  ASSUME IInv, OneActive, NEW a \in Actor, Active(a), NEW b \in Actor, b # a
  PROVE  todo[b] = <<>> /\ ~on[b] /\ ~Installing(b) /\ \A op : ~Has(todo[b], op)
<1>1. ~Active(b)
  BY DEF OneActive
<1> QED
  BY <1>1, HasNone DEF Active, Busy, Installing, At

\* Who is about to install has just spawned.
LEMMA SpawnedFirst ==
  ASSUME IInv, NEW a \in Actor, Step(a), Installing(a)'
  PROVE  Spawn(a)
<1>1. todo[a] \in Seq(Ops) /\ todo[a] # <<>> /\ Paired(todo[a]) /\ Fresh(<<>>) /\ Fresh(PublishPlain)
  BY StepMoves, ScriptsFresh DEF IInv, TodoOK
<1>2. todo'[a] = Tail(todo[a]) \/ todo'[a] \in {<<>>, PublishPlain}
  BY StepMoves
<1>3. todo'[a] = Tail(todo[a]) /\ Head(todo[a]) = "spawn"
  BY <1>1, <1>2, TailPaired DEF Installing, At, Busy, Fresh
<1>4. ~SpawnFails(a)
  <2>1. todo \in [Actor -> Seq(Ops)]
    BY DEF IInv, TypeOK
  <2>2. SpawnFails(a) => todo'[a] \in {<<>>, PublishPlain}
    BY <2>1 DEF SpawnFails
  <2> QED
    BY <1>1, <2>2 DEF Installing, At, Busy, Fresh
<1> QED
  BY <1>3, <1>4 DEF Step, Checked, GetRelay, Install, Report, Uninstall, DropRelay, DropHeaders, HangUp, At

\* What is put into the map has not been read; after it nothing else is.
LEMMA StepTended ==
  ASSUME IInv, Readers, OneActive, OneTended, NEW a \in Actor, Step(a), alone'
  PROVE  OneTended'
<1>0. /\ reader \in [Child -> {"off", "header", "tag", "first", "frames", "ending", "gone"}]
      /\ ffmpeg \in [Child -> {"unborn", "running", "killed", "exited"}] /\ own \in [Actor -> Child \cup {None}]
      /\ map \in Child \cup {None} /\ None \notin Child
  BY IngestAssumption DEF IInv, TypeOK
<1>1. \A b \in Actor : Installing(b)' => b = a /\ Spawn(a)
  <2> SUFFICES ASSUME NEW b \in Actor, b # a PROVE ~Installing(b)'
    BY SpawnedFirst
  <2>1. todo[b] = <<>> /\ todo'[b] = todo[b]
    BY OthersIdle, StepMoves DEF Active
  <2> QED
    BY <2>1 DEF Installing, At, Busy
<1>2. CASE Install(a)
  <2>1. own[a] \in Child /\ map' = own[a] /\ reader' = [reader EXCEPT ![own[a]] = "header"]
    BY <1>2 DEF IInv, TodoOK, Install, Installing
  <2>2. ~\E c \in Child \ {own[a]} : Running(c) \/ Lingers(c)
    BY <1>2, Zenon DEF Install
  <2>3. ASSUME NEW c \in Child, c # own[a] PROVE ~Tended(c)
    BY <1>0, <2>2, <2>3 DEF Readers, Read, Tended, Running, Lingers, Ended
  <2>4. ASSUME NEW c \in Child, Tended(c)' PROVE c = own[a]
    BY <1>0, <2>1, <2>3, <2>4 DEF Tended
  <2>5. \A b \in Actor : ~Installing(b)'
    BY <1>1, <1>2 DEF Install, Spawn, At
  <2>6. reader'[map'] # "off"
    BY <1>0, <2>1
  <2> QED
    BY <2>4, <2>5, <2>6 DEF OneTended
<1>3. CASE Spawn(a)
  <2>1. PICK d \in Child : ffmpeg[d] = "unborn" /\ own' = [own EXCEPT ![a] = d]
    BY <1>3 DEF Spawn
  <2>2. reader' = reader /\ map' = map /\ own'[a] = d /\ reader[d] = "off"
    BY <1>0, <1>3, <2>1 DEF Spawn, Readers, Read
  <2> QED
    BY <1>1, <2>2 DEF OneTended, Tended
<1>4. CASE ~Install(a) /\ ~Spawn(a)
  <2>1. reader' = reader /\ map' \in {map, None}
    BY <1>4 DEF Step, Checked, GetRelay, SpawnFails, Report, Uninstall, DropRelay, DropHeaders, HangUp
  <2>2. \A b \in Actor : ~Installing(b)'
    BY <1>1, <1>4
  <2> QED
    BY <2>1, <2>2 DEF OneTended, Tended
<1> QED
  BY <1>2, <1>3, <1>4

\* Who is still to install has looked up the relay or will, and nobody drops it.
LEMMA StepFeeding ==
  ASSUME IInv, Lists, OneActive, Feeding, NEW a \in Actor, Step(a)
  PROVE  Feeding'
<1> SUFFICES ASSUME NEW b \in Actor, Has(todo'[b], "install"), ~Has(todo'[b], "relay")
             PROVE  relay' /\ b \in holders'
  BY DEF Feeding
<1>1. /\ Busy(a) /\ todo[a] \in Seq(Ops) /\ todo[a] # <<>>
      /\ todo'[a] = Tail(todo[a]) \/ todo'[a] \in {<<>>, PublishPlain}
  BY StepMoves
<1>2. b = a
  BY <1>1, StepMoves, OthersIdle DEF Active
<1>3. todo'[a] = Tail(todo[a]) /\ ~SpawnFails(a)
  <2>1. todo \in [Actor -> Seq(Ops)]
    BY DEF IInv, TypeOK
  <2>2. SpawnFails(a) => todo'[a] \in {<<>>, PublishPlain}
    BY <2>1 DEF SpawnFails
  <2> QED
    BY <1>1, <1>2, <2>2, Builders
<1>4. Has(todo[a], "install") /\ (Has(todo[a], "relay") => At(a, "relay"))
  BY <1>1, <1>2, <1>3, RestOf DEF At
<1>5. Head(todo[a]) \in Building
  <2>1. Head(todo[a]) \in Ops /\ "install" \in Building
    BY <1>1 DEF Building
  <2> QED
    BY <1>1, <1>4, <2>1, BuildsOrClears DEF Clearing
<1>6. ~At(a, "dropRelay") /\ ~At(a, "hangUp")
  BY <1>5 DEF At, Building
<1>7. ~At(a, "install")
  BY <1>1, <1>2, <1>3, RestOf DEF At, Lists, Listed
<1>8. CASE At(a, "relay")
  BY <1>2, <1>8, StepEffects
<1>9. CASE ~At(a, "relay")
  <2>1. relay /\ a \in holders
    BY <1>4, <1>9 DEF Feeding
  <2>2. At(a, "spawn") => holders' = holders
    BY <1>3 DEF Step, Checked, GetRelay, Spawn, Install, Report, Uninstall, DropRelay, DropHeaders, HangUp,
                At, shared
  <2> QED
    BY <1>1, <1>2, <1>6, <1>7, <2>1, <2>2, StepEffects DEF At
<1> QED
  BY <1>8, <1>9

\* An ffmpeg in the map feeds the relay, or somebody stops it.
LEMMA StepFed ==
  ASSUME IInv, Lists, Readers, OneActive, OneTended, Feeding, Fed, StopsFirst, NEW a \in Actor, Step(a)
  PROVE  Fed'
<1> SUFFICES ASSUME NEW c \in Child, Running(c)', map' = c
             PROVE  (relay' /\ c \in holders') \/ \E b \in Actor : Has(todo'[b], "uninstall")
  BY DEF Fed
<1>0. c # None /\ c # a /\ todo[a] \in Seq(Ops) /\ todo[a] # <<>>
  BY IngestAssumption, StepMoves
<1>1. CASE Install(a)
  <2>1. own[a] = c /\ relay' = relay /\ (a \in holders => c \in holders')
    BY <1>1 DEF Install
  <2>2. Has(todo[a], "install") /\ ~Has(todo[a], "relay")
    <3>1. Head(todo[a]) = "install" /\ InOrder(todo[a])
      BY <1>1 DEF Install, At, Lists, Listed
    <3> QED
      BY <1>0, <3>1, RestOf
  <2> QED
    BY <2>1, <2>2 DEF Feeding
<1>2. CASE ~Install(a)
  <2>1. ~At(a, "uninstall") /\ map = c
    <3>1. ~At(a, "install")
      BY <1>2 DEF Step, Checked, GetRelay, Spawn, SpawnFails, Report, Uninstall, DropRelay, DropHeaders, HangUp, At
    <3> QED
      BY <1>0, <3>1, StepEffects
  <2>2. Running(c)
    <3>1. CASE Spawn(a)
      <4>1. ffmpeg \in [Child -> {"unborn", "running", "killed", "exited"}] /\ reader[c] # "off" /\ ffmpeg[c] # "unborn"
        BY <1>0, <2>1 DEF IInv, TypeOK, OneTended, Readers, Read
      <4> QED
        BY <3>1, <4>1 DEF Spawn, Running
    <3>2. CASE ~Spawn(a)
      <4>1. At(a, "spawn") => ffmpeg' = ffmpeg
        BY <1>2, <3>2 DEF Step, Checked, GetRelay, SpawnFails, Report, Uninstall, DropRelay, DropHeaders, HangUp, At
      <4> QED
        BY <4>1, StepEffects DEF Running
    <3> QED
      BY <3>1, <3>2
  <2>3. \A b \in Actor : Has(todo[b], "uninstall") => Has(todo'[b], "uninstall")
    <3>1. "uninstall" \in Clearing
      BY DEF Clearing, Building, Ops
    <3> QED
      BY <2>1, <3>1, StaysToDo
  <2>4. CASE relay /\ c \in holders
    <3>1. CASE At(a, "dropRelay")
      <4>1. Has(todo[a], "dropRelay")
        BY <1>0, <3>1, RestOf DEF At
      <4> QED
        BY <2>2, <2>3, <4>1 DEF StopsFirst
    <3>2. CASE ~At(a, "dropRelay")
      BY <1>0, <2>4, <3>2, StepEffects
    <3> QED
      BY <3>1, <3>2
  <2>5. CASE \E b \in Actor : Has(todo[b], "uninstall")
    BY <2>3, <2>5
  <2> QED
    BY <2>1, <2>2, <2>4, <2>5 DEF Fed
<1> QED
  BY <1>1, <1>2

\* Behind a stop nothing runs.
LEMMA StopLeavesNone ==
  ASSUME IInv, OneActive, NEW a \in Actor, Step(a), At(a, "uninstall"), NEW c \in Child
  PROVE  ~Running(c)'
<1> SUFFICES ASSUME Running(c)' PROVE FALSE
  OBVIOUS
<1>1. Running(c) /\ map # c
  BY StepEffects
<1>2. PICK b \in Actor : Installing(b)
  BY <1>1 DEF IInv, Accounted
<1>3. b = a
  BY <1>2, OthersIdle DEF Active, At
<1> QED
  BY <1>2, <1>3 DEF Installing, At

\* A relay is dropped behind the ffmpeg that feeds it.
LEMMA StepStops ==
  ASSUME IInv, Lists, OneActive, StopsFirst, NEW a \in Actor, Step(a)
  PROVE  StopsFirst'
<1> SUFFICES ASSUME NEW b \in Actor, Has(todo'[b], "dropRelay")
             PROVE  Has(todo'[b], "uninstall") \/ \A c \in Child : ~Running(c)'
  BY DEF StopsFirst
<1>1. /\ Busy(a) /\ todo[a] \in Seq(Ops) /\ todo[a] # <<>>
      /\ todo'[a] = Tail(todo[a]) \/ todo'[a] \in {<<>>, PublishPlain}
  BY StepMoves
<1>2. b = a
  BY <1>1, StepMoves, OthersIdle DEF Active
<1>3. "dropRelay" \in Clearing /\ "uninstall" \in Clearing /\ "spawn" \in Building
  BY DEF Clearing, Building, Ops
<1>4. todo'[a] \notin {<<>>, PublishPlain}
  BY <1>2, <1>3, Builders, BuildingIsNotClearing
<1>5. Has(todo[a], "dropRelay")
  BY <1>1, <1>2, <1>4, RestOf
<1>6. ~At(a, "spawn")
  BY <1>1, <1>3, <1>5, BuildsOrClears DEF At
<1>7. CASE At(a, "uninstall")
  BY <1>7, StopLeavesNone
<1>8. CASE Has(todo[a], "uninstall") /\ ~At(a, "uninstall")
  BY <1>2, <1>3, <1>8, StaysToDo
<1>9. CASE \A c \in Child : ~Running(c)
  BY <1>6, <1>9, StepEffects
<1> QED
  BY <1>5, <1>7, <1>8, <1>9 DEF StopsFirst

\* A session that publishes has its normalizer stopped by nobody else.
LEMMA StepSpares ==
  ASSUME IInv, Lists, OneActive, OneTended, Spared, NEW a \in Actor, Step(a)
  PROVE  Spared'
<1> SUFFICES ASSUME NEW b \in Actor, on'[b], own'[b] # None PROVE ffmpeg'[own'[b]] # "killed"
  BY DEF Spared
<1>0. /\ own \in [Actor -> Child \cup {None}] /\ map \in Child \cup {None} /\ None \notin Child
      /\ ffmpeg \in [Child -> {"unborn", "running", "killed", "exited"}]
  BY IngestAssumption DEF IInv, TypeOK
<1>1. Busy(a) /\ on' = on /\ (own'[b] # None => At(a, "spawn") \/ own[a] # None)
  <2>1. Busy(a) /\ on' = on
    BY StepMoves
  <2>2. b = a
    BY <2>1, OthersIdle DEF Active
  <2> QED
    BY <2>1, <2>2, StepMoves
<1>2. b = a /\ on[a]
  BY <1>1, OthersIdle DEF Active
<1>3. CASE Spawn(a)
  <2>1. PICK d \in Child : ffmpeg' = [ffmpeg EXCEPT ![d] = "running"] /\ own' = [own EXCEPT ![a] = d]
    BY <1>3 DEF Spawn
  <2> QED
    BY <1>0, <1>2, <2>1
<1>4. CASE Install(a)
  <2>1. own[a] \in Child /\ ffmpeg' = Empty /\ own'[a] = own[a]
    BY <1>0, <1>2, <1>4 DEF IInv, TodoOK, Installing, Install
  <2>2. map # own[a]
    BY <1>0, <1>4, <2>1 DEF OneTended, Install, Installing
  <2>3. Empty[own[a]] = ffmpeg[own[a]]
    BY <1>0, <2>1, <2>2 DEF Empty, Killed
  <2> QED
    BY <1>0, <1>2, <2>1, <2>3 DEF Spared
<1>5. ~Uninstall(a)
  <2>1. Listed(a) /\ (At(a, "uninstall") => todo[a] \in Seq(Clearing))
    <3>1. "uninstall" \in Clearing
      BY DEF Clearing, Building, Ops
    <3> QED
      BY <1>1, <3>1, BuildsOrClears DEF At, Lists
  <2>2. todo[a] \in Seq(Building)
    BY <1>2, <2>1 DEF Listed, Publisher
  <2> QED
    BY <1>1, <2>1, <2>2, BuildingIsNotClearing DEF Uninstall, Busy
<1>6. CASE ~Spawn(a) /\ ~Install(a)
  <2>1. ffmpeg' = ffmpeg /\ (own' = own \/ own' = [own EXCEPT ![a] = None])
    BY <1>5, <1>6 DEF Step, Checked, GetRelay, SpawnFails, Report, DropRelay, DropHeaders, HangUp, shared
  <2>2. own'[a] = own[a]
    BY <1>0, <1>2, <2>1
  <2> QED
    BY <1>2, <2>1, <2>2 DEF Spared
<1> QED
  BY <1>3, <1>4, <1>6

\* Behind a deletion nothing is started, and what there is will be cleared.
LEMMA StepDeletes ==
  ASSUME IInv, Lists, OneActive, Deleted, NEW a \in Actor, Step(a)
  PROVE  Deleted'
<1> SUFFICES ASSUME ~row
             PROVE  /\ \A b \in Actor : todo'[b] \in Seq(Clearing) \cup {Ensure, Tail(Ensure)}
                    /\ relay' => \E b \in Actor : Has(todo'[b], "dropRelay")
                    /\ (\E c \in Child : Running(c)') => \E b \in Actor : Has(todo'[b], "uninstall")
  BY StepMoves DEF Deleted, Ensure
<1>1. /\ Busy(a) /\ todo[a] \in Seq(Ops) /\ todo[a] # <<>>
      /\ \A b \in Actor : b # a => todo'[b] = todo[b]
      /\ \/ todo'[a] = Tail(todo[a])
         \/ Head(todo[a]) \in {"ifNoRelay", "ifRow", "ifNotPlaying", "spawn"}
  BY StepMoves
<1>2. /\ {"dropRelay", "uninstall"} \subseteq Clearing /\ Building \cap Clearing = {}
      /\ {"ifNoRelay", "ifRow", "ifNotPlaying", "spawn", "relay"} \subseteq Building
  BY DEF Clearing, Building, Ops
<1>3. CASE todo[a] \in Seq(Clearing)
  <2>1. Head(todo[a]) \in Clearing /\ Tail(todo[a]) \in Seq(Clearing)
    BY <1>1, <1>3
  <2>2. todo'[a] \in Seq(Clearing)
    BY <1>1, <1>2, <2>1
  <2>3. \A b \in Actor : todo'[b] \in Seq(Clearing) \cup {Ensure, Tail(Ensure)}
    BY <1>1, <2>2 DEF Deleted
  <2>4. ~At(a, "relay") /\ ~At(a, "spawn")
    BY <1>2, <2>1 DEF At
  <2>5. relay' => \E b \in Actor : Has(todo'[b], "dropRelay")
    <3> SUFFICES ASSUME relay' PROVE \E b \in Actor : Has(todo'[b], "dropRelay")
      OBVIOUS
    <3>1. relay /\ ~At(a, "dropRelay")
      BY <2>4, StepEffects
    <3> QED
      BY <1>2, <3>1, StaysToDo DEF Deleted
  <2>6. (\E c \in Child : Running(c)') => \E b \in Actor : Has(todo'[b], "uninstall")
    <3> SUFFICES ASSUME NEW c \in Child, Running(c)' PROVE \E b \in Actor : Has(todo'[b], "uninstall")
      OBVIOUS
    <3>1. Running(c) /\ ~At(a, "uninstall")
      BY <2>4, StepEffects, StopLeavesNone
    <3> QED
      BY <1>2, <3>1, StaysToDo DEF Deleted
  <2> QED
    BY <2>3, <2>5, <2>6
<1>4. CASE todo[a] \in {Ensure, Tail(Ensure)}
  <2>1. Ensure = <<"ifNoRelay", "ifRow", "relay", "spawn", "install">> /\ Tail(Ensure) = <<"ifRow", "relay", "spawn", "install">>
    BY DEF Ensure
  <2>2. At(a, "ifNoRelay") \/ At(a, "ifRow")
    BY <1>1, <1>4, <2>1 DEF At
  <2>3. Checked(a)
    BY <2>2 DEF Step, Checked, GetRelay, Spawn, SpawnFails, Install, Report, Uninstall, DropRelay, DropHeaders,
                HangUp, At
  <2>4. UNCHANGED <<relay, ffmpeg>>
    BY <2>3 DEF Checked, shared
  <2>5. todo'[a] \in {<<>>, Tail(Ensure)}
    <3>1. todo \in [Actor -> Seq(Ops)]
      BY DEF IInv, TypeOK
    <3>2. CASE todo[a] = Ensure
      <4>1. todo'[a] = Tail(todo[a]) \/ todo'[a] = <<>>
        BY <2>3, <3>1 DEF Checked, Done, GiveUp
      <4> QED
        BY <3>2, <4>1
    <3>3. CASE todo[a] = Tail(Ensure)
      <4>1. Head(todo[a]) = "ifRow"
        BY <2>1, <3>3
      <4>2. GiveUp(a)
        BY <2>3, <4>1 DEF Checked, At
      <4> QED
        BY <3>1, <4>2 DEF GiveUp
    <3> QED
      BY <1>4, <3>2, <3>3
  <2>6. \A b \in Actor : todo'[b] \in Seq(Clearing) \cup {Ensure, Tail(Ensure)}
    <3>1. <<>> \in Seq(Clearing)
      OBVIOUS
    <3>2. \A b \in Actor : todo[b] \in Seq(Clearing) \cup {Ensure, Tail(Ensure)}
      BY Zenon DEF Deleted
    <3> QED
      BY <1>1, <2>5, <3>1, <3>2, Zenon
  <2>7. \A b \in Actor, op \in {"dropRelay", "uninstall"} : Has(todo[b], op) => Has(todo'[b], op)
    BY <1>2, <2>2, StaysToDo DEF At
  <2> QED
    BY <2>4, <2>6, <2>7 DEF Deleted, Running
<1> QED
  BY <1>3, <1>4 DEF Deleted

\* So an operation keeps all of it.
LEMMA StepTurns == ASSUME IInv, Lists, Readers, InTurns, NEW a \in Actor, Step(a), alone' PROVE InTurns'
<1>1. OneActive'
  <2>1. \A b \in Actor : Active(b)' => Active(b)
    BY StepMoves DEF Active, Busy
  <2> QED
    BY <2>1 DEF InTurns, OneActive
<1> QED
  BY <1>1, StepTended, StepFeeding, StepFed, StepStops, StepSpares, StepDeletes DEF InTurns

\* What begins, begins alone.
LEMMA RequestTurns == ASSUME IInv, Lists, Readers, InTurns, NEW a \in Actor, Requests(a), alone' PROVE InTurns'
<1>0. /\ todo \in [Actor -> Seq(Ops)] /\ own \in [Actor -> Child \cup {None}] /\ on \in [Actor -> BOOLEAN]
      /\ kind \in {"rtmp", "file", "srt", "browser"} /\ Actor \cap Child = {}
  BY IngestAssumption DEF IInv, TypeOK
<1>00. ~PublishAgain(a)
  BY DEF PublishAgain
<1>1. ASSUME NEW b \in Actor, b # a
      PROVE  todo[b] = <<>> /\ todo'[b] = <<>> /\ ~on[b] /\ ~on'[b] /\ own'[b] = own[b]
  <2>1. todo'[b] = todo[b] /\ own'[b] = own[b] /\ on'[b] = on[b]
    BY <1>1, RequestMoves
  <2>2. ~Active(b)
    <3>1. CASE ConnectionError(a)
      BY <1>1, <3>1 DEF InTurns, OneActive, Active, ConnectionError
    <3>2. CASE ~ConnectionError(a)
      <4>1. alone' = (alone /\ ~\E d \in Actor \ {a} : Active(d))
        BY <1>00, <3>2, Zenon DEF Requests, PublishRequested, PublishFinished, EnsureFallback, CreateFromAsset,
                           DeleteSource, Begin
      <4> QED
        BY <1>1, <4>1, Zenon
    <3> QED
      BY <3>1, <3>2
  <2> QED
    BY <2>1, <2>2 DEF Active, Busy
<1>2. /\ UNCHANGED <<relay, map, ffmpeg, reader>>
      /\ ~Installing(a)'
      /\ \A x \in Child : x \in holders => x \in holders'
  <2>1. holders' = holders \/ holders' = holders \ {a}
    BY DEF Requests, PublishRequested, PublishAgain, PublishFinished, ConnectionError, EnsureFallback, CreateFromAsset,
           DeleteSource, shared
  <2> QED
    BY <1>0, <2>1, RequestMoves
<1>3. \/ todo'[a] \in {Publish, Ensure, FromAsset, <<>>} /\ row' = row
      \/ todo'[a] \in {Finish, Delete}
  BY <1>0 DEF Requests, PublishRequested, PublishAgain, PublishFinished, ConnectionError, EnsureFallback, CreateFromAsset,
              DeleteSource, Begin, GiveUp, shared
<1>4. {"dropRelay", "uninstall"} \subseteq Clearing /\ "install" \in Building
  BY DEF Clearing, Building, Ops
<1>5. OneActive'
  <2>1. \A b \in Actor : Active(b)' => b = a
    BY <1>1 DEF Active, Busy
  <2> QED
    BY <2>1 DEF OneActive
<1>6. OneTended'
  <2>1. \A b \in Actor : ~Installing(b)'
    BY <1>1, <1>2 DEF Installing, At, Busy
  <2> QED
    BY <1>2, <2>1 DEF InTurns, OneTended, Tended
<1>7. Feeding'
  <2>1. \A b \in Actor : Has(todo'[b], "install") => Has(todo'[b], "relay")
    <3>1. todo'[a] \in {Publish, Ensure, FromAsset, <<>>} => (Has(todo'[a], "install") => Has(todo'[a], "relay"))
      BY Builders
    <3>2. todo'[a] \in {Finish, Delete} => ~Has(todo'[a], "install")
      BY <1>0, <1>4, Clearers, BuildingIsNotClearing
    <3> QED
      BY <1>1, <1>3, <3>1, <3>2, HasNone
  <2> QED
    BY <2>1 DEF Feeding
<1>8. \A b \in Actor, op \in {"dropRelay", "uninstall"} : Has(todo[b], op) => Has(todo'[b], op)
  BY <1>4, RequestStays
<1>9. Fed'
  BY <1>2, <1>8 DEF InTurns, Fed, Running
<1>10. StopsFirst'
  <2>1. todo'[a] \in {Publish, Ensure, FromAsset, <<>>} => ~Has(todo'[a], "dropRelay")
    BY <1>4, Builders, BuildingIsNotClearing
  <2>2. todo'[a] \in {Finish, Delete} => Has(todo'[a], "uninstall")
    BY <1>0, Clearers
  <2>3. \A b \in Actor : Has(todo'[b], "dropRelay") => Has(todo'[b], "uninstall")
    BY <1>1, <1>3, <2>1, <2>2, HasNone
  <2> QED
    BY <2>3 DEF StopsFirst
<1>11. Spared'
  <2> SUFFICES ASSUME NEW b \in Actor, on'[b], own'[b] # None PROVE ffmpeg'[own'[b]] # "killed"
    BY DEF Spared
  <2>1. b = a
    BY <1>1
  <2>2. ~PublishRequested(a)
    <3>1. PublishRequested(a) => ~on[a] /\ todo[a] = <<>> /\ own' = own /\ kind = "rtmp"
      BY DEF PublishRequested, Begin, Busy
    <3> QED
      BY <2>1, <3>1, HasNone DEF Lists, Listed, Publisher
  <2>3. on[a] /\ own'[a] = own[a]
    BY <1>0, <1>00, <2>1, <2>2 DEF Requests, PublishFinished, ConnectionError, EnsureFallback, CreateFromAsset, DeleteSource
  <2> QED
    BY <1>2, <2>1, <2>3 DEF InTurns, Spared
<1>12. Deleted'
  <2>1. <<>> \in Seq(Clearing) /\ \A s \in {Finish, Delete} : s \in Seq(Clearing) /\ Has(s, "dropRelay") /\ Has(s, "uninstall")
    BY <1>0, Clearers
  <2>2. CASE todo'[a] \in {Finish, Delete}
    <3>1. \A b \in Actor : todo'[b] \in Seq(Clearing)
      BY <1>1, <2>1, <2>2
    <3> QED
      BY <2>1, <2>2, <3>1 DEF Deleted
  <2>3. CASE todo'[a] \in {Publish, Ensure, FromAsset, <<>>} /\ row' = row /\ ~row
    <3>1. todo'[a] \in {<<>>, Ensure}
      <4>1. ~PublishRequested(a) /\ ~CreateFromAsset(a) /\ ~DeleteSource(a)
        BY <2>3 DEF PublishRequested, CreateFromAsset, DeleteSource
      <4>2. CASE PublishFinished(a)
        <5>1. todo'[a] = Finish
          BY <1>0, <4>2 DEF PublishFinished, Begin
        <5>2. Finish \notin {Publish, Ensure, FromAsset}
          BY <1>0, Builders, Clearers, BuildingIsNotClearing
        <5> QED
          BY <2>3, <5>1, <5>2
      <4>3. CASE ConnectionError(a)
        BY <1>0, <4>3 DEF ConnectionError, GiveUp
      <4>4. CASE EnsureFallback(a)
        BY <1>0, <4>4 DEF EnsureFallback, Begin
      <4> QED
        BY <1>00, <4>1, <4>2, <4>3, <4>4 DEF Requests
    <3>2. \A b \in Actor : todo'[b] \in Seq(Clearing) \cup {Ensure, Tail(Ensure)}
      BY <1>1, <2>1, <3>1
    <3>3. Deleted
      BY DEF InTurns
    <3> QED
      BY <1>2, <1>8, <2>3, <3>2, <3>3 DEF Deleted, Running, Ensure
  <2>4. CASE row' = row /\ row
    BY <2>4 DEF Deleted
  <2> QED
    BY <1>3, <2>2, <2>3, <2>4
<1> QED
  BY <1>5, <1>6, <1>7, <1>9, <1>10, <1>11, <1>12 DEF InTurns

\* The end of an ffmpeg and its readers takes the map from no other.
LEMMA TaskTurns ==
  ASSUME IInv, Readers, InTurns, NEW c \in Child, Tasks(c) \/ Exits(c)
  PROVE  InTurns'
<1>0. /\ ffmpeg \in [Child -> {"unborn", "running", "killed", "exited"}] /\ Actor \cap Child = {}
      /\ own \in [Actor -> Child \cup {None}] /\ map \in Child \cup {None} /\ None \notin Child
  BY IngestAssumption DEF IInv, TypeOK
<1>1. UNCHANGED <<row, todo, on, own>>
  BY TaskMoves
<1>2. OneActive'
  BY <1>1 DEF InTurns, OneActive, Active, Busy
<1>3. OneTended'
  <2>1. \A d \in Child : Tended(d)' => Tended(d)
    BY TaskEffects DEF Tended
  <2>2. \A d \in Child : reader'[d] = "off" <=> reader[d] = "off"
    BY TaskEffects
  <2>3. map' \in {map, None}
    BY TaskEffects
  <2>4. \A a \in Actor : Installing(a)' => Installing(a) /\ own[a] \in Child
    BY <1>1 DEF Installing, At, Busy, IInv, TodoOK
  <2>5. map' # None => reader'[map'] # "off"
    BY <1>0, <2>2, <2>3 DEF InTurns, OneTended
  <2>6. \A a \in Actor : Installing(a)' => reader'[own'[a]] = "off"
    BY <1>1, <2>2, <2>4 DEF InTurns, OneTended
  <2> QED
    BY <2>1, <2>5, <2>6 DEF InTurns, OneTended
<1>4. Feeding'
  BY <1>0, <1>1, TaskEffects DEF InTurns, Feeding
<1>5. Fed'
  <2> SUFFICES ASSUME NEW d \in Child, Running(d)', map' = d, ~\E a \in Actor : Has(todo[a], "uninstall")
               PROVE  relay' /\ d \in holders'
    BY <1>1 DEF Fed
  <2>1. Running(d) /\ map = d /\ relay' = relay
    BY <1>0, TaskEffects
  <2>2. relay /\ d \in holders
    BY <2>1 DEF InTurns, Fed
  <2> QED
    BY <2>1, <2>2, TaskEffects
<1>6. StopsFirst'
  BY <1>1, TaskEffects DEF InTurns, StopsFirst
<1>7. Spared'
  <2> SUFFICES ASSUME NEW a \in Actor, on[a], own[a] # None PROVE ffmpeg'[own[a]] # "killed"
    BY <1>1 DEF Spared
  <2>1. own[a] \in Child /\ ffmpeg[own[a]] # "killed"
    BY <1>0 DEF InTurns, Spared
  <2>2. CASE ffmpeg' = ffmpeg
    BY <2>1, <2>2
  <2>3. CASE InputEnds(c) \/ Exits(c)
    BY <1>0, <2>1, <2>3 DEF InputEnds, Exits
  <2>4. CASE Forgotten(c)
    <3> SUFFICES ASSUME map = own[a], Running(map) PROVE FALSE
      BY <1>0, <2>1, <2>4 DEF Forgotten, Empty, Killed, Running
    <3>1. Tended(map)
      BY <2>1 DEF Tended, InTurns, OneTended, Readers, Read, Ended, Running
    <3>2. Tended(c) /\ Ended(c)
      BY <2>4 DEF Tended, Forgotten, Readers, Read
    <3> QED
      BY <2>1, <3>1, <3>2 DEF InTurns, OneTended, Running, Ended
  <2> QED
    BY <2>2, <2>3, <2>4 DEF Tasks, ReadHeader, ReadTag, FirstTag, OutputEnds, Watch
<1>8. Deleted'
  <2>1. Deleted
    BY DEF InTurns
  <2> QED
    BY <1>1, <2>1, TaskEffects DEF Deleted, Ensure
<1> QED
  BY <1>2, <1>3, <1>4, <1>5, <1>6, <1>7, <1>8 DEF InTurns

\* As long as nobody overlaps, one is active, one ffmpeg is read, and it feeds the relay that
\* is found until somebody who will clear both has stopped it (server.rs 137-153,
\* source_normalizer.rs 216-224, sources.rs 217-223).
THEOREM InductiveTurns == Spec => []Turns
<1>1. Init => Turns
  <2> SUFFICES ASSUME Init PROVE InTurns
    BY DEF Turns
  <2>1. PICK a \in Actor : todo = [b \in Actor |-> IF b = a THEN Launch(kind) ELSE <<>>]
    BY DEF Init
  <2>2. /\ kind \in {"rtmp", "file", "srt", "browser"} /\ row /\ ~relay /\ map = None
        /\ \A b \in Actor : ~on[b] /\ own[b] = None
        /\ \A c \in Child : ffmpeg[c] = "unborn" /\ reader[c] = "off"
    BY IngestAssumption DEF Init
  <2>3. \A b \in Actor : todo[b] \in {<<>>, Listen, Playback} /\ (b # a => todo[b] = <<>>)
    BY <2>1, <2>2 DEF Launch
  <2>4. \A b \in Actor : ~Installing(b)
    BY <2>1, <2>2, ScriptsFresh DEF Fresh, Installing, At, Busy
  <2>5. OneActive
    BY <2>2, <2>3 DEF OneActive, Active, Busy
  <2>6. OneTended
    BY <2>2, <2>4 DEF OneTended, Tended
  <2>7. Feeding
    BY <2>3, Builders DEF Feeding
  <2>8. StopsFirst /\ Fed
    BY <2>2 DEF StopsFirst, Fed, Running
  <2> QED
    BY <2>2, <2>5, <2>6, <2>7, <2>8 DEF InTurns, Spared, Deleted
<1>2. IInv /\ Lists /\ Readers /\ Turns /\ [Next]_vars => Turns'
  <2> SUFFICES ASSUME IInv, Lists, Readers, Turns, [Next]_vars, alone' PROVE InTurns'
    BY Zenon DEF Turns
  <2>1. InTurns
    BY AloneBefore, Zenon DEF Turns
  <2>2. CASE UNCHANGED vars
    <3>1. UNCHANGED <<row, relay, holders, map, ffmpeg, reader, todo, on, own>>
      BY <2>2 DEF vars, shared
    <3>2. \A a \in Actor : Installing(a)' = Installing(a) /\ Active(a)' = Active(a)
      BY <3>1, Zenon DEF Installing, At, Active, Busy
    <3> QED
      BY <2>1, <3>1, <3>2 DEF InTurns, OneActive, OneTended, Tended, Feeding, Fed, StopsFirst, Spared, Deleted, Running, Ensure
  <2> QED
    BY <2>1, <2>2, StepTurns, RequestTurns, TaskTurns DEF Next
<1> QED
  BY <1>1, <1>2, Inductive, InductiveLists, PTL DEF Spec

\* As long as nobody overlaps, an ffmpeg that runs feeds the relay that the supervisor and the
\* router find, and no session's normalizer is stopped by another (server.rs 137-153,
\* source_normalizer.rs 216-217, state.rs 97-119).
THEOREM AlwaysInTurn == Spec => []InTurn
<1>1. IInv /\ Turns => InTurn
  <2> SUFFICES ASSUME IInv, InTurns
               PROVE  /\ Idle => \A c \in Child : Running(c) => map = c /\ relay /\ c \in holders
                      /\ \A a \in Actor : on[a] /\ own[a] # None => ffmpeg[own[a]] # "killed"
    BY DEF Turns, InTurn
  <2>1. ASSUME Idle, NEW c \in Child, Running(c) PROVE map = c /\ relay /\ c \in holders
    <3>1. \A a \in Actor : ~Installing(a) /\ ~Has(todo[a], "uninstall")
      BY <2>1, HasNone DEF Idle, Busy, Installing, At
    <3> QED
      BY <2>1, <3>1 DEF IInv, Accounted, InTurns, Fed
  <2> QED
    BY <2>1 DEF InTurns, Spared
<1> QED
  BY <1>1, Inductive, InductiveTurns, PTL

\* A deleted source is gone, relay and ffmpegs, unless something overlapped
\* (sources.rs 217-223).
THEOREM DeletedStaysGone == Spec => []DeletedIsGone
<1>1. Turns => DeletedIsGone
  BY HasNone DEF Turns, InTurns, Deleted, DeletedIsGone, Over, Idle, Busy
<1> QED
  BY <1>1, InductiveTurns, PTL
=============================================================================
