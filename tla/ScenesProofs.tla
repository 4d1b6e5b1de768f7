----------------------------- MODULE ScenesProofs -----------------------------
(***************************************************************************)
(* What holds of the compositors for any number of scenes, sources and     *)
(* requests at a time: none runs outside scene_compositors, and a cut or   *)
(* an activation leaves nothing composed but what it put on program.       *)
(***************************************************************************)
EXTENDS Scenes, TLAPS

\* What a request that starts or stops a compositor is about.
Goals ==
  \A a \in Actor :
    \/ req[a].pc \in {"idle", "send", "clear"}
    \/ req[a].pc \in {"all", "each"} /\ req[a].does # "activate"
    \/ req[a].goal \in Scene

\* Compositors that were never begun, and the scenes of the others.
Numbered ==
  \A r \in Run : /\ r > made => ffmpeg[r] = "unborn" /\ reader[r] = "off"
                 /\ r <= made => run[r].scene \in Scene

\* A compositor that is being started is that of one request.
Mine ==
  \A a \in Actor : At(a, "spawn") =>
    /\ req[a].mine \in Run /\ req[a].mine <= made
    /\ run[req[a].mine].scene = req[a].goal

\* As long as requests follow each other: what is still composed when one of them stops
\* the others, starts its own, and sends.
InTurn ==
  ~raced =>
    /\ \A a, b \in Actor : a = b \/ At(a, "idle") \/ At(b, "idle")
    /\ \A a \in Actor :
         /\ At(a, "each") => Composed \subseteq req[a].stops
         /\ req[a].pc \in {"take", "drop", "start", "spawn"} /\ req[a].does = "activate" => Composed = {}
         /\ At(a, "send") => Composed \subseteq {req[a].goal}
         /\ At(a, "refresh") => req[a].does # "activate"

IInv == TypeOK /\ Goals /\ Numbered /\ Mine /\ NoStray

-----------------------------------------------------------------------------
(* What a step does to the requests.                                       *)

\* Only the request that takes a step changes.
Only(a) == req' \in [Actor -> Requests] /\ \A b \in Actor \ {a} : req'[b] = req[b]

LEMMA WriteIs ==
  ASSUME TypeOK, NEW a \in Actor, NEW x \in Requests, req' = [req EXCEPT ![a] = x]
  PROVE  Only(a) /\ req'[a] = x
BY DEF TypeOK, Only

LEMMA DoneIs ==
  ASSUME TypeOK, NEW a \in Actor, Done(a)
  PROVE  Only(a) /\ req'[a] = NoWork
<1>1. NoWork \in Requests
  BY DEF NoWork, Requests, PCs
<1> QED
  BY <1>1, WriteIs DEF Done

LEMMA GoIs ==
  ASSUME TypeOK, NEW a \in Actor, NEW p \in PCs, Go(a, p)
  PROVE  /\ Only(a) /\ req'[a].pc = p /\ req'[a].does = req[a].does /\ req'[a].goal = req[a].goal
         /\ req'[a].mine = req[a].mine
BY DEF TypeOK, Only, Go, Requests

\* A request that has the scenes S still to stop.
Left(a, S) == [req[a] EXCEPT !.stops = S, !.pc = IF S = {} THEN AfterAll(a) ELSE "each"]

LEMMA LeftIs ==
  ASSUME NEW a \in Actor, req[a] \in Requests, NEW S \in SUBSET Scene
  PROVE  /\ Left(a, S) \in Requests /\ Left(a, S).stops = S
         /\ Left(a, S).goal = req[a].goal /\ Left(a, S).does = req[a].does
         /\ Left(a, S).pc \in {AfterAll(a), "each"}
         /\ Left(a, S).pc # "each" => S = {}
<1> DEFINE p == IF S = {} THEN AfterAll(a) ELSE "each"
<1>1. p \in PCs /\ p \in {AfterAll(a), "each"} /\ (p # "each" => S = {})
  BY DEF AfterAll, PCs
<1>2. Left(a, S) = [req[a] EXCEPT !.stops = S, !.pc = p]
  BY DEF Left
<1> HIDE DEF p
<1> QED
  BY <1>1, <1>2 DEF Requests

LEMMA StopAllIs ==
  ASSUME TypeOK, NEW a \in Actor, StopAll(a)
  PROVE  /\ Only(a) /\ req'[a].pc \in {AfterAll(a), "each"} /\ req[a].pc = "all"
         /\ req'[a].stops = Composed /\ (req'[a].pc # "each" => Composed = {})
         /\ req'[a].goal = req[a].goal /\ req'[a].does = req[a].does
<1>1. req[a] \in Requests /\ Composed \in SUBSET Scene
  BY DEF TypeOK, Composed
<1>2. req' = [req EXCEPT ![a] = Left(a, Composed)] /\ req[a].pc = "all"
  BY DEF StopAll, Left, At
<1>3. Only(a) /\ req'[a] = Left(a, Composed)
  BY <1>1, <1>2, LeftIs, WriteIs
<1> QED
  BY <1>1, <1>2, <1>3, LeftIs

LEMMA StopEachIs ==
  ASSUME TypeOK, NEW a \in Actor, StopEach(a)
  PROVE  \E s \in Scene :
           /\ s \in req[a].stops /\ Stop(s) /\ req[a].pc = "each"
           /\ Only(a) /\ req'[a].pc \in {AfterAll(a), "each"}
           /\ req'[a].stops = req[a].stops \ {s} /\ (req'[a].pc # "each" => req[a].stops = {s})
           /\ req'[a].goal = req[a].goal /\ req'[a].does = req[a].does
<1>1. PICK s \in req[a].stops :
        /\ Stop(s)
        /\ req' = [req EXCEPT ![a].stops = @ \ {s},
                              ![a].pc = IF req[a].stops = {s} THEN AfterAll(a) ELSE "each"]
  BY DEF StopEach
<1>2. req[a] \in Requests /\ s \in Scene /\ req[a].pc = "each"
  BY DEF TypeOK, Requests, StopEach, At
<1> DEFINE S == req[a].stops \ {s}
<1>3. S \in SUBSET Scene
  BY <1>2 DEF Requests
<1>4. S = {} <=> req[a].stops = {s}
  BY <1>1
<1>5. req' = [req EXCEPT ![a] = Left(a, S)]
  BY <1>1, <1>4 DEF Left
<1> HIDE DEF S
<1>6. Only(a) /\ req'[a] = Left(a, S)
  BY <1>2, <1>3, <1>5, LeftIs, WriteIs
<1>7. /\ req'[a].pc \in {AfterAll(a), "each"} /\ req'[a].stops = S
      /\ (req'[a].pc # "each" => req[a].stops = {s})
      /\ req'[a].goal = req[a].goal /\ req'[a].does = req[a].does
  BY <1>2, <1>3, <1>4, <1>6, LeftIs
<1> QED
  BY <1>1, <1>2, <1>6, <1>7 DEF S

LEMMA BeginIs ==
  ASSUME TypeOK, NEW a \in Actor, NEW d \in {"activate", "edit", "cut", "auto"},
         NEW g \in Pictures \cup {None}, NEW p \in PCs, Begin(a, d, g, p)
  PROVE  /\ Only(a) /\ req'[a].pc = p /\ req'[a].does = d /\ req'[a].goal = g
         /\ events' \in 0..MaxEvents /\ raced' \in BOOLEAN /\ behind' = behind
<1> DEFINE x == [req[a] EXCEPT !.pc = p, !.does = d, !.goal = g]
<1>1. req' = [req EXCEPT ![a] = x]
  BY DEF Begin
<1>2. x \in Requests /\ x.pc = p /\ x.does = d /\ x.goal = g
  <2>1. req[a] \in Requests
    BY DEF TypeOK
  <2> QED
    BY <2>1 DEF Requests
<1>3. events' \in 0..MaxEvents /\ behind' = behind
  BY ScenesAssumption DEF Begin, Event, TypeOK
<1>4. raced' \in BOOLEAN
  BY Zenon DEF Begin, TypeOK
<1> HIDE DEF x
<1> QED
  BY <1>1, <1>2, <1>3, <1>4, WriteIs

\* A child that is killed is not running any more, and the others go on.
LEMMA KilledIs ==
  ASSUME TypeOK, NEW k \in Run \cup {None}
  PROVE  /\ Killed(k) \in [Run -> {"unborn", "running", "dead"}]
         /\ \A r \in Run : /\ Killed(k)[r] = "running" <=> ffmpeg[r] = "running" /\ r # k
                           /\ Killed(k)[r] = "unborn" <=> ffmpeg[r] = "unborn"
<1>1. CASE k = None
  BY <1>1, ScenesAssumption DEF Killed, TypeOK
<1>2. CASE k # None
  BY <1>2 DEF Killed, TypeOK
<1> QED
  BY <1>1, <1>2

-----------------------------------------------------------------------------
(* Types.                                                                  *)

LEMMA AskedTypes == ASSUME TypeOK, Asked PROVE TypeOK'
<1>p. {"all", "clear", "refresh"} \subseteq PCs
  BY DEF PCs
<1>e. Event => events' \in 0..MaxEvents
  BY ScenesAssumption DEF Event, TypeOK
<1>1. ASSUME NEW a \in Actor, NEW s \in Scene, Activate(a, s) PROVE TypeOK'
  BY <1>1, <1>p, BeginIs DEF Activate, Only, TypeOK, Pictures, database, state, switch, process, router
<1>2. ASSUME NEW a \in Actor, NEW x \in Pictures, Cut(a, x) PROVE TypeOK'
  BY <1>2, <1>p, BeginIs DEF Cut, Only, TypeOK, database, state, switch, process, router
<1>3. ASSUME NEW a \in Actor, AutoTransition(a) PROVE TypeOK'
  <2>1. preview \in Pictures \cup {None}
    BY DEF TypeOK
  <2> QED
    BY <1>3, <1>p, <2>1, BeginIs DEF AutoTransition, Only, TypeOK, database, state, process, router
<1>4. ASSUME NEW a \in Actor, NEW s \in Scene, NEW new \in SUBSET Source, EditLayers(a, s, new) PROVE TypeOK'
  BY <1>4, <1>p, BeginIs DEF EditLayers, Only, TypeOK, Pictures, state, switch, process, router
<1>5. ASSUME NEW x \in Pictures, SetPreview(x) PROVE TypeOK'
  BY <1>5, <1>e DEF SetPreview, TypeOK, database, state, process, router, history
<1>6. ASSUME NEW s \in Scene, CreateScene(s, Source) PROVE TypeOK'
  BY <1>6 DEF CreateScene, TypeOK, state, switch, process, router, history
<1>7. ASSUME NEW s \in Scene, DeleteScene(s) PROVE TypeOK'
  BY <1>7, <1>e DEF DeleteScene, TypeOK, state, switch, process, router, history
<1> QED
  BY <1>1, <1>2, <1>3, <1>4, <1>5, <1>6, <1>7 DEF Asked

LEMMA MishapTypes == ASSUME TypeOK, Mishaps PROVE TypeOK'
<1>e. Event => events' \in 0..MaxEvents
  BY ScenesAssumption DEF Event, TypeOK
<1>1. ASSUME NEW a \in Actor, GiveUp(a) PROVE TypeOK'
  BY <1>1, <1>e, DoneIs DEF GiveUp, Only, TypeOK, database, state, switch, process, router, history
<1>2. ASSUME NEW x \in Source, Disconnect(x) PROVE TypeOK'
  BY <1>2, <1>e DEF Disconnect, TypeOK, database, switch, process, router, history
<1>3. ASSUME NEW r \in Run, Exit(r) PROVE TypeOK'
  BY <1>3, <1>e DEF Exit, TypeOK, database, state, switch, router, history
<1>4. CASE AudioChanged
  BY <1>4, <1>e DEF AudioChanged, Leave, TypeOK, Places, database, state, switch, process, history
<1> QED
  BY <1>1, <1>2, <1>3, <1>4 DEF Mishaps

LEMMA RouterTypes == ASSUME TypeOK, Router PROVE TypeOK'
<1>1. \A x \in Pictures \cup {None} : RelayOf(x) \in Feed
  BY DEF TypeOK, RelayOf, Feed, Pictures
<1>2. CASE Enter
  BY <1>1, <1>2 DEF Enter, NoSwitch, TypeOK, Places, Feed, database, state, process
<1>3. CASE SourceChanged
  BY <1>1, <1>3 DEF SourceChanged, TypeOK, database, state, process, history
<1>4. CASE WaitRelay
  BY <1>4 DEF WaitRelay, Leave, TypeOK, Places, database, state, process, history
<1>5. CASE Splice \/ Abandon
  BY <1>5 DEF Splice, Abandon, NoSwitch, Leave, TypeOK, Places, Feed, database, state, switch, process, history
<1> QED
  BY <1>2, <1>3, <1>4, <1>5 DEF Router

\* Reading a compositor's output.
LEMMA ReadingTypes == ASSUME TypeOK, Numbered, NEW r \in Run, Reading(r) PROVE TypeOK'
<1>1. reader[r] \in {"header", "tags"} => run[r].scene \in Scene
  <2>1. r <= made \/ r > made
    BY DEF Run, TypeOK
  <2> QED
    BY <2>1 DEF Numbered
<1>2. CASE NoHeader(r)
  BY <1>2 DEF NoHeader, TypeOK, database, state, switch, router, history
<1>3. CASE ReadFirst(r)
  BY <1>1, <1>3 DEF ReadFirst, TypeOK, database, switch, router, history
<1>4. CASE ReadEnd(r)
  <2>1. run[r].scene \in Scene /\ child[run[r].scene] \in Run \cup {None}
    BY <1>1, <1>4 DEF ReadEnd, TypeOK
  <2>2. ffmpeg' \in [Run -> {"unborn", "running", "dead"}]
    BY <1>4, <2>1, KilledIs DEF ReadEnd
  <2>3. raced' \in BOOLEAN
    BY <1>4, Zenon DEF ReadEnd, TypeOK
  <2> QED
    BY <1>4, <2>1, <2>2, <2>3 DEF ReadEnd, TypeOK, database, switch, router
<1> QED
  BY <1>2, <1>3, <1>4 DEF Reading

\* A request that goes on.
LEMMA WorkTypes == ASSUME TypeOK, Goals, Mine, NEW a \in Actor, Work(a) PROVE TypeOK'
<1>p. PCs \cap {"take", "drop", "start", "spawn", "send", "each"} = {"take", "drop", "start", "spawn", "send", "each"}
  BY DEF PCs
<1>r. /\ req[a] \in Requests /\ req[a].goal \in Pictures \cup {None} /\ req[a].stops \subseteq Scene
      /\ req[a].pc \in {"take", "drop", "start", "spawn"} => req[a].goal \in Scene
  BY DEF TypeOK, Requests, Goals
<1>1. CASE ClearPreview(a)
  BY <1>1, DoneIs DEF ClearPreview, Only, TypeOK, database, state, process, router, history
<1>2. CASE Refresh(a)
  BY <1>2, <1>p, DoneIs, GoIs DEF Refresh, Only, TypeOK, database, state, switch, process, router, history
<1>3. CASE StopAll(a)
  <2>1. Only(a)
    BY <1>3, StopAllIs
  <2> QED
    BY <1>3, <2>1 DEF StopAll, Only, TypeOK, database, state, switch, process, router, history
<1>4. CASE StopEach(a)
  <2>1. PICK s \in Scene : Stop(s) /\ Only(a)
    BY <1>4, StopEachIs
  <2>2. child[s] \in Run \cup {None}
    BY DEF TypeOK
  <2>3. ffmpeg' \in [Run -> {"unborn", "running", "dead"}]
    BY <2>1, <2>2, KilledIs DEF Stop
  <2> QED
    BY <1>4, <2>1, <2>2, <2>3 DEF StopEach, Stop, Only, TypeOK, database, switch, router, history
<1>5. CASE Take(a)
  <2>1. req[a].goal \in Scene /\ child[req[a].goal] \in Run \cup {None}
    BY <1>5, <1>r DEF Take, At, TypeOK
  <2>2. ffmpeg' \in [Run -> {"unborn", "running", "dead"}] /\ Only(a)
    BY <1>5, <1>p, <2>1, KilledIs, GoIs DEF Take
  <2> QED
    BY <1>5, <2>1, <2>2 DEF Take, Only, TypeOK, database, switch, router, history
<1>6. CASE Drop(a)
  BY <1>6, <1>p, GoIs DEF Drop, Only, TypeOK, database, switch, process, router, history
<1>7. CASE NoLayers(a)
  BY <1>7, DoneIs DEF NoLayers, Only, TypeOK, database, state, switch, process, router, history
<1>8. CASE GetRelay(a)
  <2> DEFINE s == req[a].goal
             n == made + 1
             w == IF relay[s] = None THEN n ELSE relay[s]
             x == [req[a] EXCEPT !.mine = n, !.pc = "spawn"]
  <2>1. s \in Scene /\ n \in Run /\ w \in Run
    BY <1>8, <1>r DEF GetRelay, At, TypeOK
  <2>2. x \in Requests
    BY <1>p, <1>r, <2>1 DEF Requests
  <2>3. req' = [req EXCEPT ![a] = x]
    BY <1>8 DEF GetRelay
  <2>4. Only(a)
    BY <2>2, <2>3, WriteIs
  <2>5. run' \in [Run -> [scene : Scene \cup {None}, relay : Run \cup {None}]]
    BY <1>8, <2>1 DEF GetRelay, TypeOK
  <2>6. behind' \in BOOLEAN
    BY <1>8, Zenon DEF GetRelay, TypeOK
  <2>7. made' \in 0..MaxRun /\ relay' \in [Scene -> Run \cup {None}]
    BY <1>8, <2>1 DEF GetRelay, TypeOK, Run
  <2> QED
    BY <1>8, <2>4, <2>5, <2>6, <2>7 DEF GetRelay, Only, TypeOK, database, switch, router
<1>9. CASE Install(a)
  <2> DEFINE s == req[a].goal
             n == req[a].mine
  <2>1. s \in Scene /\ n \in Run /\ child[s] \in Run \cup {None}
    BY <1>9, <1>r DEF Install, At, Mine, TypeOK
  <2>2. Only(a)
    BY <1>9, <1>p, DoneIs, GoIs DEF Install, Installed
  <2>3. ffmpeg' \in [Run -> {"unborn", "running", "dead"}]
    BY <1>9, <2>1, KilledIs DEF Install
  <2> QED
    BY <1>9, <2>1, <2>2, <2>3 DEF Install, Only, TypeOK, database, switch, router, history
<1>10. CASE SendIntent(a)
  BY <1>10, <1>r, DoneIs DEF SendIntent, Only, TypeOK, database, state, process, router, history
<1> QED
  BY <1>1, <1>2, <1>3, <1>4, <1>5, <1>6, <1>7, <1>8, <1>9, <1>10 DEF Work

LEMMA Types == ASSUME IInv, [Next]_vars PROVE TypeOK'
<1>1. CASE UNCHANGED vars
  BY <1>1 DEF vars, database, state, switch, process, router, history, IInv, TypeOK
<1> QED
  BY <1>1, WorkTypes, ReadingTypes, RouterTypes, AskedTypes, MishapTypes DEF Next, IInv

-----------------------------------------------------------------------------
(* Compositors.                                                            *)

\* A step of a request that begins no compositor, and leaves those there are alone.
LEMMA Quiet ==
  ASSUME IInv, NEW a \in Actor, Only(a), req'[a].pc # "spawn", UNCHANGED <<child, process>>
  PROVE  Numbered' /\ Mine' /\ NoStray'
BY DEF IInv, Only, Numbered, Mine, NoStray, At, process

LEMMA Still ==
  ASSUME IInv, UNCHANGED <<req, child, process>>
  PROVE  Goals' /\ Numbered' /\ Mine' /\ NoStray'
BY DEF IInv, Goals, Numbered, Mine, NoStray, At, process

\* What a request is about stays what it is about.
LEMMA GoalsKept ==
  ASSUME IInv, NEW a \in Actor, Only(a),
         \/ req'[a].pc \in {"idle", "send", "clear"}
         \/ req'[a].pc \in {"all", "each"} /\ req'[a].does # "activate"
         \/ req'[a].goal \in Scene
  PROVE  Goals'
BY DEF IInv, Goals, Only

\* Taking the child of a scene out of the map, whosever it is.
LEMMA Removed ==
  ASSUME IInv, NEW s \in Scene, child' = [child EXCEPT ![s] = None], ffmpeg' = Killed(child[s]),
         run' = run, made' = made
  PROVE  NoStray' /\ \A r \in Run : ffmpeg'[r] = "unborn" <=> ffmpeg[r] = "unborn"
<1>1. child[s] \in Run \cup {None}
  BY DEF IInv, TypeOK
<1> QED
  BY <1>1, KilledIs DEF IInv, TypeOK, NoStray

\* A reader that comes late removes the child of another, which is killed.
LEMMA ReadingKeeps ==
  ASSUME IInv, NEW r \in Run, Reading(r)
  PROVE  Goals' /\ Numbered' /\ Mine' /\ NoStray'
<1>1. req' = req /\ run' = run /\ made' = made
  BY DEF Reading, NoHeader, ReadFirst, ReadEnd
<1>2. r <= made
  BY DEF IInv, TypeOK, Numbered, Reading, NoHeader, ReadFirst, ReadEnd, Run
<1>3. /\ Goals' /\ Mine'
      /\ \A q \in Run : q # r => reader'[q] = reader[q]
  BY <1>1 DEF IInv, TypeOK, Goals, Mine, At, Reading, NoHeader, ReadFirst, ReadEnd
<1>4. CASE UNCHANGED <<child, ffmpeg>>
  BY <1>1, <1>2, <1>3, <1>4 DEF IInv, TypeOK, Numbered, NoStray, Run
<1>5. CASE ReadEnd(r)
  <2>1. run[r].scene \in Scene
    BY <1>2 DEF IInv, Numbered
  <2>2. NoStray' /\ \A q \in Run : ffmpeg'[q] = "unborn" <=> ffmpeg[q] = "unborn"
    BY <1>1, <1>5, <2>1, Removed DEF ReadEnd
  <2> QED
    BY <1>1, <1>2, <1>3, <2>2 DEF IInv, TypeOK, Numbered, Run
<1> QED
  BY <1>3, <1>4, <1>5 DEF Reading, NoHeader, ReadFirst, state

\* Stopping and starting.
LEMMA WorkKeeps ==
  ASSUME IInv, NEW a \in Actor, Work(a)
  PROVE  Goals' /\ Numbered' /\ Mine' /\ NoStray'
<1>t. TypeOK
  BY DEF IInv
<1>p. {"take", "drop", "start", "spawn", "send", "each"} \subseteq PCs
  BY DEF PCs
<1>g. req[a].pc \in {"refresh", "take", "drop", "start", "spawn"} => req[a].goal \in Scene
  BY DEF IInv, Goals
<1>1. CASE ClearPreview(a) \/ NoLayers(a) \/ SendIntent(a)
  <2>1. Only(a) /\ req'[a].pc = "idle" /\ UNCHANGED <<child, process>>
    BY <1>t, <1>1, DoneIs DEF ClearPreview, NoLayers, SendIntent, NoWork, state
  <2> QED
    BY <2>1, Quiet, GoalsKept
<1>2. CASE Refresh(a)
  <2>1. /\ Only(a) /\ UNCHANGED <<child, process>>
        /\ \/ req'[a].pc = "idle"
           \/ req'[a].pc = "take" /\ req'[a].goal \in Scene
    BY <1>t, <1>2, <1>p, <1>g, DoneIs, GoIs DEF Refresh, NoWork, state, At
  <2> QED
    BY <2>1, Quiet, GoalsKept
<1>3. CASE StopAll(a)
  <2>1. /\ Only(a) /\ req'[a].pc \in {AfterAll(a), "each"} /\ req[a].pc = "all"
        /\ req'[a].goal = req[a].goal /\ req'[a].does = req[a].does
    BY <1>t, <1>3, StopAllIs
  <2>2. UNCHANGED <<child, process>>
    BY <1>3 DEF StopAll, state
  <2>3. req[a].does # "activate" \/ req[a].goal \in Scene
    BY <2>1 DEF IInv, Goals
  <2> QED
    BY <2>1, <2>2, <2>3, Quiet, GoalsKept DEF AfterAll
<1>4. CASE StopEach(a)
  <2>1. PICK s \in Scene :
          /\ Stop(s) /\ Only(a) /\ req[a].pc = "each" /\ req'[a].pc \in {AfterAll(a), "each"}
          /\ req'[a].goal = req[a].goal /\ req'[a].does = req[a].does
    BY <1>t, <1>4, StopEachIs
  <2>2. req[a].does # "activate" \/ req[a].goal \in Scene
    BY <2>1 DEF IInv, Goals
  <2>3. Goals'
    BY <2>1, <2>2, GoalsKept DEF AfterAll
  <2>4. UNCHANGED <<made, run, reader>>
    BY <1>4 DEF StopEach
  <2>5. NoStray' /\ \A q \in Run : ffmpeg'[q] = "unborn" <=> ffmpeg[q] = "unborn"
    BY <2>1, <2>4, Removed DEF Stop
  <2>6. Numbered' /\ Mine'
    BY <2>1, <2>4, <2>5 DEF IInv, Numbered, Mine, At, Only, AfterAll
  <2> QED
    BY <2>3, <2>5, <2>6
<1>5. CASE Take(a)
  <2>1. /\ Only(a) /\ req'[a].pc = "drop" /\ req'[a].goal = req[a].goal /\ req[a].goal \in Scene
        /\ UNCHANGED <<made, run, reader>>
    BY <1>t, <1>5, <1>p, <1>g, GoIs DEF Take, At
  <2>2. NoStray' /\ \A q \in Run : ffmpeg'[q] = "unborn" <=> ffmpeg[q] = "unborn"
    BY <1>5, <2>1, Removed DEF Take
  <2>3. Numbered' /\ Mine'
    BY <2>1, <2>2 DEF IInv, Numbered, Mine, At, Only
  <2> QED
    BY <2>1, <2>2, <2>3, GoalsKept
<1>6. CASE Drop(a)
  <2>1. /\ Only(a) /\ req'[a].pc = "start" /\ req'[a].goal \in Scene /\ UNCHANGED <<child, process>>
    BY <1>t, <1>6, <1>p, <1>g, GoIs DEF Drop, At
  <2> QED
    BY <2>1, Quiet, GoalsKept
<1>7. CASE GetRelay(a)
  <2> DEFINE s == req[a].goal
             n == made + 1
             x == [req[a] EXCEPT !.mine = n, !.pc = "spawn"]
  <2>1. s \in Scene /\ n \in Run /\ made \in Nat /\ made' = n /\ UNCHANGED <<child, ffmpeg, reader>>
    BY <1>t, <1>7, <1>g DEF GetRelay, At, TypeOK
  <2>2. x \in Requests /\ x.goal = s /\ x.mine = n /\ x.pc = "spawn"
    BY <1>t, <1>p, <2>1 DEF TypeOK, Requests
  <2>3. req' = [req EXCEPT ![a] = x]
    BY <1>7 DEF GetRelay
  <2> HIDE DEF x
  <2>4. Only(a) /\ req'[a] = x
    BY <1>t, <2>2, <2>3, WriteIs
  <2>5. run'[n].scene = s /\ \A q \in Run \ {n} : run'[q] = run[q]
    BY <1>t, <1>7, <2>1 DEF GetRelay, TypeOK
  <2>6. \A q \in Run : q <= n => q = n \/ q <= made
    BY <2>1 DEF Run
  <2>7. Numbered'
    BY <2>1, <2>5, <2>6 DEF IInv, Numbered, Run
  <2>8. Mine'
    BY <2>1, <2>2, <2>4, <2>5 DEF IInv, Mine, At, Only, Run
  <2>9. ffmpeg[n] = "unborn"
    BY <2>1 DEF IInv, Numbered
  <2>10. NoStray'
    BY <2>1, <2>5, <2>9 DEF IInv, NoStray
  <2>11. Goals'
    BY <2>1, <2>2, <2>4, GoalsKept
  <2> QED
    BY <2>7, <2>8, <2>10, <2>11
<1>8. CASE Install(a)
  <2> DEFINE s == req[a].goal
             n == req[a].mine
  <2>1. s \in Scene /\ n \in Run /\ n <= made /\ run[n].scene = s /\ UNCHANGED <<made, run>>
    BY <1>8, <1>g DEF Install, At, IInv, Mine
  <2>2. Only(a) /\ req'[a].pc \in {"send", "idle"}
    BY <1>t, <1>8, <1>p, DoneIs, GoIs DEF Install, Installed, NoWork
  <2>3. child[s] \in Run \cup {None}
    BY <1>t, <2>1 DEF TypeOK
  <2>4. /\ child' = [child EXCEPT ![s] = n] /\ reader' = [reader EXCEPT ![n] = "header"]
        /\ ffmpeg' = [Killed(child[s]) EXCEPT ![n] = "running"]
    BY <1>8 DEF Install
  <2>5. \A q \in Run \ {n} : /\ ffmpeg'[q] = "running" <=> ffmpeg[q] = "running" /\ q # child[s]
                             /\ ffmpeg'[q] = "unborn" <=> ffmpeg[q] = "unborn"
    BY <1>t, <2>1, <2>3, <2>4, KilledIs
  <2>6. NoStray'
    BY <1>t, <2>1, <2>4, <2>5 DEF IInv, NoStray, TypeOK
  <2>7. Numbered'
    BY <1>t, <2>1, <2>4, <2>5 DEF IInv, Numbered, TypeOK, Run
  <2>8. Mine' /\ Goals'
    BY <2>1, <2>2, GoalsKept DEF IInv, Mine, At, Only
  <2> QED
    BY <2>6, <2>7, <2>8
<1> QED
  BY <1>1, <1>2, <1>3, <1>4, <1>5, <1>6, <1>7, <1>8 DEF Work

LEMMA NextIInv == IInv /\ [Next]_vars => IInv'
<1> SUFFICES ASSUME IInv, [Next]_vars PROVE IInv'
  OBVIOUS
<1>t. TypeOK /\ TypeOK'
  BY Types DEF IInv
<1>1. CASE UNCHANGED vars
  BY <1>t, <1>1, Still DEF vars, state, IInv
<1>2. ASSUME NEW a \in Actor, Work(a) PROVE IInv'
  BY <1>t, <1>2, WorkKeeps DEF IInv
<1>3. ASSUME NEW r \in Run, Reading(r) PROVE IInv'
  BY <1>t, <1>3, ReadingKeeps DEF IInv
<1>4. CASE Router
  <2>1. UNCHANGED <<req, child, process>>
    BY <1>4 DEF Router, Enter, WaitRelay, SourceChanged, Splice, Abandon, state
  <2> QED
    BY <1>t, <2>1, Still DEF IInv
<1>5. CASE Asked
  <2>p. {"all", "clear", "refresh"} \subseteq PCs
    BY DEF PCs
  <2>1. ASSUME NEW a \in Actor,
               \/ \E s \in Scene : Activate(a, s)
               \/ \E x \in Pictures : Cut(a, x)
               \/ \E s \in Scene, new \in SUBSET Source : EditLayers(a, s, new)
        PROVE IInv'
    <3>1. ASSUME NEW d \in {"activate", "edit", "cut", "auto"}, NEW g \in Pictures, NEW p \in {"all", "refresh"},
                 Begin(a, d, g, p), g \in Scene \/ (p = "all" /\ d # "activate")
          PROVE  /\ Only(a) /\ req'[a].pc \in {"all", "refresh"}
                 /\ req'[a].goal \in Scene \/ (req'[a].pc = "all" /\ req'[a].does # "activate")
      BY <1>t, <2>p, <3>1, BeginIs
    <3>2. /\ Only(a) /\ req'[a].pc \in {"all", "refresh"}
          /\ req'[a].goal \in Scene \/ (req'[a].pc = "all" /\ req'[a].does # "activate")
      <4>1. CASE \E s \in Scene : Activate(a, s)
        BY <3>1, <4>1 DEF Activate, Pictures
      <4>2. CASE \E x \in Pictures : Cut(a, x)
        BY <3>1, <4>2 DEF Cut
      <4>3. CASE \E s \in Scene, new \in SUBSET Source : EditLayers(a, s, new)
        BY <3>1, <4>3 DEF EditLayers, Pictures
      <4> QED
        BY <2>1, <4>1, <4>2, <4>3
    <3>3. UNCHANGED <<child, process>>
      BY <2>1 DEF Activate, Cut, EditLayers, state
    <3> QED
      BY <1>t, <3>2, <3>3, Quiet, GoalsKept DEF IInv
  <2>2. ASSUME NEW a \in Actor, AutoTransition(a) PROVE IInv'
    <3>1. preview \in Pictures \cup {None}
      BY <1>t DEF TypeOK
    <3>2. Only(a) /\ req'[a].pc = "clear"
      BY <1>t, <2>2, <2>p, <3>1, BeginIs DEF AutoTransition
    <3>3. UNCHANGED <<child, process>>
      BY <2>2 DEF AutoTransition, state
    <3> QED
      BY <1>t, <3>2, <3>3, Quiet, GoalsKept DEF IInv
  <2>3. CASE (\E x \in Pictures : SetPreview(x)) \/ \E s \in Scene : CreateScene(s, Source) \/ DeleteScene(s)
    <3>1. UNCHANGED <<req, child, process>>
      BY <2>3 DEF SetPreview, CreateScene, DeleteScene, state
    <3> QED
      BY <1>t, <3>1, Still DEF IInv
  <2> QED
    BY <1>5, <2>1, <2>2, <2>3 DEF Asked
<1>6. CASE Mishaps
  <2>1. ASSUME NEW a \in Actor, GiveUp(a) PROVE IInv'
    <3>1. Only(a) /\ req'[a].pc = "idle" /\ UNCHANGED <<child, process>>
      BY <1>t, <2>1, DoneIs DEF GiveUp, NoWork, state
    <3> QED
      BY <1>t, <3>1, Quiet, GoalsKept DEF IInv
  <2>2. CASE (\E x \in Source : Disconnect(x)) \/ AudioChanged
    <3>1. UNCHANGED <<req, child, process>>
      BY <2>2 DEF Disconnect, AudioChanged, state
    <3> QED
      BY <1>t, <3>1, Still DEF IInv
  <2>3. ASSUME NEW r \in Run, Exit(r) PROVE IInv'
    <3>1. /\ UNCHANGED <<req, child, made, run, reader>>
          /\ ffmpeg[r] = "running" /\ ffmpeg' = [ffmpeg EXCEPT ![r] = "dead"]
      BY <2>3 DEF Exit, state
    <3>2. Goals' /\ Numbered' /\ Mine' /\ NoStray'
      BY <1>t, <3>1 DEF IInv, TypeOK, Goals, Numbered, Mine, NoStray, At
    <3> QED
      BY <1>t, <3>2 DEF IInv
  <2> QED
    BY <1>6, <2>1, <2>2, <2>3 DEF Mishaps
<1> QED
  BY <1>1, <1>2, <1>3, <1>4, <1>5, <1>6 DEF Next

LEMMA InitIInv == Init => IInv
<1> SUFFICES ASSUME Init PROVE IInv
  OBVIOUS
<1>1. NoWork \in Requests
  BY DEF NoWork, Requests, PCs
<1>2. row \in [Scene -> {"new", "there", "deleted"}] /\ layers \in [Scene -> SUBSET Source]
  BY DEF Init
<1>3. TypeOK
  <2>1. /\ run \in [Run -> [scene : Scene \cup {None}, relay : Run \cup {None}]]
        /\ ffmpeg \in [Run -> {"unborn", "running", "dead"}]
        /\ reader \in [Run -> {"off", "header", "tags", "gone"}]
    BY DEF Init
  <2>2. /\ child \in [Scene -> Run \cup {None}] /\ relay \in [Scene -> Run \cup {None}]
        /\ req \in [Actor -> Requests]
    BY <1>1 DEF Init
  <2>3. /\ at \in [place : Places, is : Pictures \cup {None}, feed : Feed]
        /\ next \in [is : Pictures \cup {None}, feed : Feed]
    BY DEF Init, NoSwitch, Places, Feed
  <2>4. events \in 0..MaxEvents /\ made \in 0..MaxRun
    BY ScenesAssumption DEF Init
  <2>5. /\ live \in SUBSET Source /\ shown \in SUBSET Scene /\ intent \in Pictures \cup {None}
        /\ changed \in BOOLEAN /\ preview \in Pictures \cup {None}
        /\ raced \in BOOLEAN /\ behind \in BOOLEAN
    BY DEF Init
  <2> QED
    BY <1>2, <2>1, <2>2, <2>3, <2>4, <2>5 DEF TypeOK
<1>4. Goals /\ Mine /\ NoStray
  BY DEF Init, NoWork, Goals, Mine, NoStray, At
<1>5. Numbered
  BY DEF Init, Numbered, Run
<1> QED
  BY <1>3, <1>4, <1>5 DEF IInv

\* The inductive invariant of the compositors and the requests that start and stop them.
THEOREM Inductive == Spec => []IInv
BY InitIInv, NextIInv, PTL DEF Spec

\* Every variable keeps its type, for any scenes, sources, requests and bounds.
THEOREM TypeCorrect == Spec => []TypeOK
<1>1. IInv => TypeOK
  BY DEF IInv
<1> QED
  BY <1>1, Inductive, PTL

\* A compositor that runs is the one scene_compositors has for its scene (kill_on_drop).
THEOREM NoneStray == Spec => []NoStray
<1>1. IInv => NoStray
  BY DEF IInv
<1> QED
  BY <1>1, Inductive, PTL

-----------------------------------------------------------------------------
(* One scene composed.                                                     *)

\* A child that is taken out of the map leaves the others.
LEMMA FewerComposed ==
  ASSUME IInv, NEW s \in Scene, child' = [child EXCEPT ![s] = None]
  PROVE  Composed' = Composed \ {s}
BY DEF IInv, TypeOK, Composed

\* A request that goes on alone: what it has to keep is its own.
LEMMA Alone ==
  ASSUME InTurn, NEW a \in Actor, ~At(a, "idle"), Only(a), raced' = raced,
         ~raced => /\ At(a, "each")' => Composed' \subseteq req'[a].stops
                   /\ req'[a].pc \in {"take", "drop", "start", "spawn"} /\ req'[a].does = "activate" => Composed' = {}
                   /\ At(a, "send")' => Composed' \subseteq {req'[a].goal}
                   /\ At(a, "refresh")' => req'[a].does # "activate"
  PROVE  InTurn'
<1>1. ~raced => \A b \in Actor \ {a} : req[b].pc = "idle" /\ req'[b].pc = "idle"
  BY DEF InTurn, At, Only
<1> QED
  BY <1>1 DEF InTurn, At

\* One that ends keeps nothing.
LEMMA AloneEnds ==
  ASSUME InTurn, NEW a \in Actor, ~At(a, "idle"), Only(a), raced' = raced, req'[a].pc = "idle"
  PROVE  InTurn'
BY Alone DEF At

\* Others do not compose.
LEMMA Bystander ==
  ASSUME InTurn, req' = req, raced => raced', Composed' \subseteq Composed
  PROVE  InTurn'
BY DEF InTurn, At

\* One that begins is noted if it is not alone.
LEMMA BeginsAlone ==
  ASSUME TypeOK, InTurn, NEW a \in Actor, NEW d \in {"activate", "edit", "cut", "auto"},
         NEW g \in Pictures \cup {None}, NEW p \in {"all", "clear", "refresh"}, Begin(a, d, g, p),
         p = "refresh" => d # "activate"
  PROVE  InTurn'
<1>1. p \in PCs
  BY DEF PCs
<1>2. Only(a) /\ req'[a].pc = p /\ req'[a].does = d
  BY <1>1, BeginIs
<1>3. ~raced' => \A b \in Actor \ {a} : req[b].pc = "idle" /\ req'[b].pc = "idle"
  BY <1>2, Zenon DEF Begin, At, Only
<1> QED
  BY <1>2, <1>3 DEF InTurn, At

LEMMA WorkInTurn == ASSUME IInv, InTurn, NEW a \in Actor, Work(a) PROVE InTurn'
<1>t. TypeOK /\ req[a] \in Requests
  BY DEF IInv, TypeOK
<1>p. {"take", "drop", "start", "spawn", "send", "each"} \subseteq PCs
  BY DEF PCs
<1>n. ~At(a, "idle") /\ raced' = raced
  BY DEF Work, ClearPreview, Refresh, StopAll, StopEach, Take, Drop, NoLayers, GetRelay, Install, SendIntent,
         At, history
<1>g. req[a].pc \in {"take", "drop", "start", "spawn"} => req[a].goal \in Scene
  BY DEF IInv, Goals
<1>1. CASE ClearPreview(a) \/ NoLayers(a) \/ SendIntent(a)
  BY <1>t, <1>n, <1>1, DoneIs, AloneEnds DEF ClearPreview, NoLayers, SendIntent, NoWork
<1>2. CASE Refresh(a)
  <2>1. \/ Only(a) /\ req'[a].pc = "idle"
        \/ Only(a) /\ req'[a].pc = "take" /\ req'[a].does = req[a].does
    BY <1>t, <1>2, <1>p, DoneIs, GoIs DEF Refresh, NoWork
  <2>2. ~raced => req[a].does # "activate"
    BY <1>2 DEF Refresh, InTurn
  <2> QED
    BY <1>n, <2>1, <2>2, Alone DEF At
<1>3. CASE StopAll(a)
  <2>1. /\ Only(a) /\ req'[a].pc \in {"take", "send", "each"}
        /\ req'[a].stops = Composed /\ (req'[a].pc # "each" => Composed = {})
    BY <1>t, <1>3, StopAllIs DEF AfterAll
  <2>2. Composed' = Composed
    BY <1>3 DEF StopAll, state, Composed
  <2> QED
    BY <1>n, <2>1, <2>2, Alone DEF At
<1>4. CASE StopEach(a)
  <2>1. PICK s \in Scene :
          /\ Stop(s) /\ Only(a) /\ req'[a].pc \in {"take", "send", "each"}
          /\ req'[a].stops = req[a].stops \ {s} /\ (req'[a].pc # "each" => req[a].stops = {s})
    BY <1>t, <1>4, StopEachIs DEF AfterAll
  <2>2. Composed' = Composed \ {s}
    BY <2>1, FewerComposed DEF Stop
  <2>3. ~raced => Composed \subseteq req[a].stops
    BY <1>4 DEF StopEach, InTurn
  <2> QED
    BY <1>n, <2>1, <2>2, <2>3, Alone DEF At
<1>5. CASE Take(a)
  <2>1. Only(a) /\ req'[a].pc = "drop" /\ req'[a].does = req[a].does /\ req[a].pc = "take"
    BY <1>t, <1>5, <1>p, GoIs DEF Take, At
  <2>2. Composed' = Composed \ {req[a].goal}
    BY <1>5, <1>g, <2>1, FewerComposed DEF Take
  <2>3. ~raced /\ req[a].does = "activate" => Composed = {}
    BY <2>1 DEF InTurn
  <2> QED
    BY <1>n, <2>1, <2>2, <2>3, Alone DEF At
<1>6. CASE Drop(a)
  <2>1. /\ Only(a) /\ req'[a].pc = "start" /\ req'[a].does = req[a].does /\ req[a].pc = "drop"
        /\ Composed' = Composed
    BY <1>t, <1>6, <1>p, GoIs DEF Drop, At, Composed
  <2>2. ~raced /\ req[a].does = "activate" => Composed = {}
    BY <2>1 DEF InTurn
  <2> QED
    BY <1>n, <2>1, <2>2, Alone DEF At
<1>7. CASE GetRelay(a)
  <2> DEFINE x == [req[a] EXCEPT !.mine = made + 1, !.pc = "spawn"]
  <2>1. x \in Requests /\ x.pc = "spawn" /\ x.does = req[a].does
    BY <1>t, <1>p, <1>7 DEF Requests, GetRelay
  <2>2. req' = [req EXCEPT ![a] = x] /\ req[a].pc = "start" /\ Composed' = Composed
    BY <1>7 DEF GetRelay, At, Composed
  <2> HIDE DEF x
  <2>3. Only(a) /\ req'[a] = x
    BY <1>t, <2>1, <2>2, WriteIs
  <2>4. ~raced /\ req[a].does = "activate" => Composed = {}
    BY <2>2 DEF InTurn
  <2> QED
    BY <1>n, <2>1, <2>2, <2>3, <2>4, Alone DEF At
<1>8. CASE Install(a)
  <2>1. \/ Only(a) /\ req'[a].pc = "idle"
        \/ Only(a) /\ req'[a].pc = "send" /\ req'[a].goal = req[a].goal /\ req[a].does = "activate"
    BY <1>t, <1>8, <1>p, DoneIs, GoIs DEF Install, Installed, NoWork
  <2>2. Composed' \subseteq Composed \cup {req[a].goal}
    BY <1>t, <1>8 DEF Install, Composed, TypeOK
  <2>3. ~raced /\ req[a].does = "activate" => Composed = {}
    BY <1>8 DEF Install, InTurn, At
  <2> QED
    BY <1>n, <2>1, <2>2, <2>3, Alone DEF At
<1> QED
  BY <1>1, <1>2, <1>3, <1>4, <1>5, <1>6, <1>7, <1>8 DEF Work

LEMMA InTurnKept == ASSUME IInv, InTurn, [Next]_vars PROVE InTurn'
<1>t. TypeOK
  BY DEF IInv
<1>1. CASE UNCHANGED vars
  BY <1>1, Bystander DEF vars, state, history, Composed
<1>2. ASSUME NEW r \in Run, Reading(r) PROVE InTurn'
  <2>1. CASE NoHeader(r) \/ ReadFirst(r)
    BY <2>1, Bystander DEF NoHeader, ReadFirst, state, history, Composed
  <2>2. CASE ReadEnd(r)
    <3>1. run[r].scene \in Scene
      BY <1>t, <2>2 DEF ReadEnd, IInv, Numbered, TypeOK, Run
    <3>2. Composed' = Composed \ {run[r].scene}
      BY <2>2, <3>1, FewerComposed DEF ReadEnd
    <3>3. raced => raced'
      BY <2>2, Zenon DEF ReadEnd
    <3> QED
      BY <2>2, <3>2, <3>3, Bystander DEF ReadEnd
  <2> QED
    BY <1>2, <2>1, <2>2 DEF Reading
<1>3. CASE Router
  BY <1>3, Bystander DEF Router, Enter, WaitRelay, SourceChanged, Splice, Abandon, state, history, Composed
<1>4. CASE Asked
  <2>1. ASSUME NEW a \in Actor, NEW s \in Scene, Activate(a, s) PROVE InTurn'
    BY <1>t, <2>1, BeginsAlone DEF Activate, Pictures
  <2>2. ASSUME NEW a \in Actor, NEW x \in Pictures, Cut(a, x) PROVE InTurn'
    BY <1>t, <2>2, BeginsAlone DEF Cut
  <2>3. ASSUME NEW a \in Actor, AutoTransition(a) PROVE InTurn'
    <3>1. preview \in Pictures \cup {None}
      BY <1>t DEF TypeOK
    <3> QED
      BY <1>t, <2>3, <3>1, BeginsAlone DEF AutoTransition
  <2>4. ASSUME NEW a \in Actor, NEW s \in Scene, NEW new \in SUBSET Source, EditLayers(a, s, new) PROVE InTurn'
    BY <1>t, <2>4, BeginsAlone DEF EditLayers, Pictures
  <2>5. CASE (\E x \in Pictures : SetPreview(x)) \/ \E s \in Scene : CreateScene(s, Source) \/ DeleteScene(s)
    BY <2>5, Bystander DEF SetPreview, CreateScene, DeleteScene, state, history, Composed
  <2> QED
    BY <1>4, <2>1, <2>2, <2>3, <2>4, <2>5 DEF Asked
<1>5. CASE Mishaps
  <2>1. ASSUME NEW a \in Actor, GiveUp(a) PROVE InTurn'
    BY <1>t, <2>1, DoneIs, AloneEnds DEF GiveUp, NoWork, history
  <2>2. CASE (\E x \in Source : Disconnect(x)) \/ AudioChanged \/ \E r \in Run : Exit(r)
    BY <2>2, Bystander DEF Disconnect, AudioChanged, Exit, state, history, Composed
  <2> QED
    BY <1>5, <2>1, <2>2 DEF Mishaps
<1> QED
  BY <1>1, <1>2, <1>3, <1>4, <1>5, WorkInTurn DEF Next

LEMMA InitInTurn == Init => InTurn
BY DEF Init, InTurn, NoWork, At

\* A request that goes on leaves the others where they are.
LEMMA WorkMoves ==
  ASSUME TypeOK, NEW a \in Actor, Work(a) \/ GiveUp(a)
  PROVE  \A b \in Actor \ {a} : req'[b] = req[b]
<1>1. CASE ClearPreview(a) \/ Refresh(a) \/ StopAll(a) \/ StopEach(a) \/ Take(a) \/ Drop(a)
  BY <1>1 DEF ClearPreview, Refresh, StopAll, StopEach, Take, Drop, Done, Go, TypeOK
<1>2. CASE NoLayers(a) \/ GetRelay(a) \/ Install(a) \/ SendIntent(a) \/ GiveUp(a)
  BY <1>2 DEF NoLayers, GetRelay, Install, Installed, SendIntent, GiveUp, Done, Go, TypeOK
<1> QED
  BY <1>1, <1>2 DEF Work

LEMMA AskedMoves ==
  ASSUME TypeOK, Asked
  PROVE  \A b \in Actor : At(b, "idle") \/ req'[b] = req[b]
BY DEF Asked, Activate, Cut, AutoTransition, EditLayers, Begin, SetPreview, CreateScene, DeleteScene, TypeOK, At

\* The answer to a cut or an activation.
LEMMA AnswerStep ==
  ASSUME IInv, InTurn, [Next]_vars, NEW a \in Actor,
         At(a, "send"), ~At(a, "send")', intent' = req[a].goal, ~raced'
  PROVE  Composed' \subseteq {intent'}
<1>t. TypeOK
  BY DEF IInv
<1>1. req'[a] # req[a]
  BY DEF At
<1>2. CASE GiveUp(a) \/ SendIntent(a)
  BY <1>2 DEF GiveUp, SendIntent, state, history, InTurn, Composed
<1>3. Work(a) => SendIntent(a)
  BY DEF Work, ClearPreview, Refresh, StopAll, StopEach, Take, Drop, NoLayers, GetRelay, Install, At
<1>4. ~Asked
  BY <1>t, <1>1, AskedMoves DEF At
<1>5. \A b \in Actor : Work(b) \/ GiveUp(b) => a = b
  BY <1>t, <1>1, WorkMoves
<1>6. ~(Router \/ (\E r \in Run : Reading(r)) \/ UNCHANGED vars)
  BY <1>1 DEF Router, Enter, WaitRelay, SourceChanged, Splice, Abandon, Reading, NoHeader, ReadFirst, ReadEnd, vars
<1>7. Mishaps => \E b \in Actor : GiveUp(b)
  BY <1>1 DEF Mishaps, Disconnect, Exit, AudioChanged
<1> QED
  BY <1>2, <1>3, <1>4, <1>5, <1>6, <1>7 DEF Next

\* A cut or an activation that no other request overlaps leaves nothing composed but
\* what it put on program (stop_all_compositors()), for any scenes and requests.
THEOREM OneScene == Spec => OneComposed
<1>1. Spec => [](IInv /\ InTurn)
  <2>1. IInv /\ InTurn /\ [Next]_vars => (IInv /\ InTurn)'
    BY NextIInv, InTurnKept
  <2> QED
    BY <2>1, InitIInv, InitInTurn, PTL DEF Spec
<1>2. IInv /\ InTurn /\ [Next]_vars
      => [\A a \in Actor : At(a, "send") /\ ~At(a, "send")' /\ intent' = req[a].goal /\ ~raced'
                           => Composed' \subseteq {intent'}]_vars
  BY AnswerStep
<1> QED
  BY <1>1, <1>2, PTL DEF Spec, OneComposed
=============================================================================
