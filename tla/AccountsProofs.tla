---------------------------- MODULE AccountsProofs ----------------------------
(***************************************************************************)
(* What holds of users, sessions and set-ups for any number of requests at *)
(* a time: no session outlives its user, an administrator remains, and one *)
(* set-up hands out a key.                                                 *)
(*                                                                         *)
(* Each handler decides in one statement and acts in a later one.  The     *)
(* invariant says what each request under way may still rely on.           *)
(***************************************************************************)
EXTENDS Accounts, FiniteSetTheorems, TLAPS

\* Ids are given out once.
Fresh ==
  /\ users \subseteq used.user
  /\ \A a \in Actor : req[a].user # None => req[a].user \in used.user

\* Who inserts or updates a user has a name and a role for it.
Named == \A a \in Actor : req[a].pc \in {"create", "update"} => req[a].name \in Name /\ req[a].role \in Role

\* Nothing else deletes, and nothing else changes the user that a request changes.
OneChanges ==
  ~crossed => \A a, b \in Actor :
    \/ a = b
    \/ /\ ~(Deleting(a) /\ Deleting(b))
       /\ At(a, "update") /\ (At(b, "update") \/ Deleting(b)) => req[a].user # req[b].user

\* An update under way writes back that an administrator is one.
KeepsRole ==
  ~crossed /\ ~demoted => \A a \in Actor :
    At(a, "update") /\ req[a].user \in Admins => req[a].role = "admin"

\* A deletion that was let through leaves an administrator.
Another(a) == \E v \in Admins : v # req[a].user
LeavesAnother ==
  ~crossed /\ ~demoted => \A a \in Actor :
    /\ At(a, "role") /\ ~req[a].last => Another(a)
    /\ req[a].pc \in {"tokens", "user"} /\ Admins # {} => Another(a)

AdminInv == OneChanges /\ KeepsRole /\ LeavesAnother

\* As long as nobody is renamed or deleted, the name of the administrator is taken once
\* a set-up got past its insert, and no other one does.
OneSeat ==
  ~unseated =>
    /\ initial # {} => Taken(AdminName)
    /\ \A a \in Actor : At(a, "key") => /\ Taken(AdminName) /\ initial = {}
                                        /\ \A b \in Actor : At(b, "key") => a = b
    /\ \A k, l \in initial : k = l

IInv == TypeOK /\ Named /\ SessionOwned /\ Fresh /\ AdminInv /\ OneSeat

-----------------------------------------------------------------------------
(* What a step does to the requests.                                       *)

\* A request that ends is idle, and the others are where they were.
LEMMA DoneIs ==
  ASSUME TypeOK, NEW a \in Actor, Done(a)
  PROVE  req' \in [Actor -> Requests] /\ req'[a] = NoWork /\ \A b \in Actor \ {a} : req'[b] = req[b]
<1>1. NoWork \in Requests
  BY DEF NoWork, Requests, PCs
<1> QED
  BY <1>1 DEF TypeOK, Done

\* One that goes on keeps its locals.
LEMMA GoIs ==
  ASSUME TypeOK, NEW a \in Actor, NEW p \in PCs, Go(a, p)
  PROVE  /\ req' \in [Actor -> Requests] /\ req'[a].pc = p
         /\ req'[a].user = req[a].user /\ req'[a].last = req[a].last
         /\ \A b \in Actor \ {a} : req'[b] = req[b]
BY DEF TypeOK, Go, Requests

\* A request that begins replaces an idle one.
LEMMA BeginIs ==
  ASSUME TypeOK, NEW a \in Actor, NEW x \in Requests, req' = [req EXCEPT ![a] = x]
  PROVE  req' \in [Actor -> Requests] /\ req'[a] = x /\ \A b \in Actor \ {a} : req'[b] = req[b]
BY DEF TypeOK

LEMMA LoginIs ==
  ASSUME TypeOK, NEW a \in Actor, NEW u \in users, Login(a, u)
  PROVE  /\ req' \in [Actor -> Requests] /\ req'[a].pc = "login" /\ req'[a].user = u
         /\ \A b \in Actor \ {a} : req'[b] = req[b]
<1> DEFINE x == [req[a] EXCEPT !.pc = "login", !.user = u]
<1>1. req[a] \in Requests /\ u \in User
  BY DEF TypeOK
<1>2. x \in Requests /\ x.pc = "login" /\ x.user = u
  BY <1>1 DEF Requests, PCs
<1>3. req' = [req EXCEPT ![a] = x]
  BY DEF Login
<1> HIDE DEF x
<1> QED
  BY <1>2, <1>3, BeginIs

LEMMA CreateUserIs ==
  ASSUME TypeOK, NEW a \in Actor, NEW n \in Name, NEW r \in Role, CreateUser(a, n, r)
  PROVE  /\ req' \in [Actor -> Requests] /\ req'[a].pc = "create" /\ req'[a].user = None
         /\ req'[a].name \in Name /\ req'[a].role \in Role
         /\ \A b \in Actor \ {a} : req'[b] = req[b]
<1>1. [NoWork EXCEPT !.pc = "create", !.name = n, !.role = r] \in Requests
  BY DEF NoWork, Requests, PCs
<1> QED
  BY <1>1, BeginIs DEF CreateUser, NoWork

LEMMA UpdateUserIs ==
  ASSUME TypeOK, NEW a \in Actor, NEW u \in users, NEW n \in Name \cup {None}, NEW r \in Role \cup {None},
         UpdateUser(a, u, n, r)
  PROVE  /\ req' \in [Actor -> Requests] /\ req'[a].pc = "update" /\ req'[a].user = u
         /\ req'[a].role = (IF r = None THEN row[u].role ELSE r)
         /\ req'[a].name \in Name /\ req'[a].role \in Role
         /\ \A b \in Actor \ {a} : req'[b] = req[b]
<1> DEFINE m == IF n = None THEN row[u].name ELSE n
           q == IF r = None THEN row[u].role ELSE r
           x == [NoWork EXCEPT !.pc = "update", !.user = u, !.name = m, !.role = q]
<1>1. req' = [req EXCEPT ![a] = x]
  BY DEF UpdateUser
<1>2. m \in Name /\ q \in Role /\ u \in User
  BY DEF TypeOK
<1>3. q = (IF r = None THEN row[u].role ELSE r)
  OBVIOUS
<1> HIDE DEF m, q
<1>4. x \in Requests /\ x.pc = "update" /\ x.user = u /\ x.name = m /\ x.role = q
  BY <1>2 DEF NoWork, Requests, PCs
<1> HIDE DEF x
<1> QED
  BY <1>1, <1>2, <1>3, <1>4, BeginIs

LEMMA DeleteUserIs ==
  ASSUME TypeOK, NEW a \in Actor, NEW u \in users, DeleteUser(a, u)
  PROVE  /\ req' \in [Actor -> Requests] /\ req'[a].pc = "role" /\ req'[a].user = u
         /\ req'[a].last = (Cardinality(Admins) <= 1)
         /\ \A b \in Actor \ {a} : req'[b] = req[b]
<1> DEFINE few == Cardinality(Admins) <= 1
           x   == [NoWork EXCEPT !.pc = "role", !.user = u, !.last = few]
<1>1. req' = [req EXCEPT ![a] = x]
  BY DEF DeleteUser
<1>2. u \in User /\ few \in BOOLEAN
  BY DEF TypeOK
<1>3. few = (Cardinality(Admins) <= 1)
  OBVIOUS
<1> HIDE DEF few
<1>4. x \in Requests /\ x.pc = "role" /\ x.user = u /\ x.last = few
  BY <1>2 DEF NoWork, Requests, PCs
<1> HIDE DEF x
<1> QED
  BY <1>1, <1>3, <1>4, BeginIs

\* Two administrators are one besides any user.
LEMMA TwoAdmins ==
  ASSUME TypeOK, NEW u, ~(Cardinality(Admins) <= 1)
  PROVE  \E v \in Admins : v # u
<1> SUFFICES ASSUME Admins \subseteq {u} PROVE FALSE
  OBVIOUS
<1>1. IsFiniteSet({u}) /\ Cardinality({u}) = 1
  BY FS_Singleton
<1>2. Cardinality(Admins) <= 1
  BY <1>1, FS_Subset
<1> QED
  BY <1>2

-----------------------------------------------------------------------------
(* Types, ids, and the owners of sessions.                                 *)

\* The tables a step writes, and the requests, keep their types.
LEMMA WorkTypes == ASSUME TypeOK, Named, NEW a \in Actor, Work(a) PROVE TypeOK'
<1>e. Event => events' \in 0..MaxEvents
  BY AccountsAssumption DEF Event, TypeOK
<1>d. Done(a) => req' \in [Actor -> Requests]
  BY DoneIs
<1>g. \A p \in PCs : Go(a, p) => req' \in [Actor -> Requests]
  BY GoIs
<1>r. req[a] \in Requests /\ AdminName \in Name /\ "admin" \in Role
  BY AccountsAssumption DEF TypeOK
<1>1. CASE Seat(a)
  <2>1. "key" \in PCs
    BY DEF PCs
  <2>2. req' \in [Actor -> Requests]
    BY <1>1, <1>d, <1>g, <2>1 DEF Seat, Seated
  <2> QED
    BY <1>1, <1>r, <2>2 DEF Seat, Seated, TypeOK, history
<1>2. CASE HandOutKey(a)
  BY <1>2, <1>d DEF HandOutKey, TypeOK
<1>3. CASE Issue(a)
  <2>1. req[a].user \in User \cup {None}
    BY <1>r DEF Requests
  <2> QED
    BY <1>3, <1>d, <2>1 DEF Issue, Issued, TypeOK, history
<1>4. CASE Insert(a)
  <2>1. CASE Taken(req[a].name) /\ UNCHANGED <<users, row, used>>
    BY <1>4, <1>d, <2>1 DEF Insert, TypeOK, history
  <2>2. ASSUME NEW u \in User \ used.user, ~Taken(req[a].name),
               users' = users \cup {u}, used' = [used EXCEPT !.user = @ \cup {u}],
               row' = [row EXCEPT ![u] = [name |-> req[a].name, role |-> req[a].role]]
        PROVE TypeOK'
    <3>1. req[a].name \in Name /\ req[a].role \in Role
      BY <1>4 DEF Insert, Named, At
    <3> QED
      BY <1>4, <1>d, <2>2, <3>1 DEF Insert, TypeOK, history
  <2> QED
    BY <1>4, <2>1, <2>2 DEF Insert
<1>5. CASE Update(a)
  <2>1. req[a].name \in Name /\ req[a].role \in Role
    BY <1>5 DEF Update, Named, At
  <2>2. unseated' \in BOOLEAN
    BY <1>5, Zenon DEF Update, TypeOK
  <2>3. req[a].user \in users => req[a].user \in User
    BY DEF TypeOK
  <2> QED
    BY <1>5, <1>d, <2>1, <2>2, <2>3 DEF Update, TypeOK
<1>6. CASE ReadRole(a)
  <2>1. "tokens" \in PCs
    BY DEF PCs
  <2> QED
    BY <1>6, <1>d, <1>g, <2>1 DEF ReadRole, TypeOK, tables, history
<1>7. CASE DeleteSessions(a)
  <2>1. "user" \in PCs
    BY DEF PCs
  <2> QED
    BY <1>7, <1>g, <2>1 DEF DeleteSessions, TypeOK, history
<1>8. CASE DeleteRow(a)
  BY <1>8, <1>d DEF DeleteRow, TypeOK
<1>9. CASE GiveUp(a)
  BY <1>9, <1>d, <1>e DEF GiveUp, TypeOK, tables, history
<1> QED
  BY <1>1, <1>2, <1>3, <1>4, <1>5, <1>6, <1>7, <1>8, <1>9 DEF Work

LEMMA AskedTypes == ASSUME TypeOK, NEW a \in Actor, Asked(a) PROVE TypeOK'
<1>e. Event => events' \in 0..MaxEvents
  BY AccountsAssumption DEF Event, TypeOK
<1>1. CASE Setup(a)
  <2>1. "seat" \in PCs
    BY DEF PCs
  <2> QED
    BY <1>1, <1>e, <2>1, GoIs DEF Setup, TypeOK, tables, history
<1>2. ASSUME NEW u \in users, Login(a, u) PROVE TypeOK'
  BY <1>2, <1>e, LoginIs DEF Login, TypeOK, tables, history
<1>3. ASSUME NEW n \in Name, NEW r \in Role, CreateUser(a, n, r) PROVE TypeOK'
  BY <1>3, <1>e, CreateUserIs DEF CreateUser, TypeOK, tables, history
<1>4. ASSUME NEW u \in users, NEW n \in Name \cup {None}, NEW r \in Role \cup {None}, UpdateUser(a, u, n, r)
      PROVE TypeOK'
  <2>1. req' \in [Actor -> Requests]
    BY <1>4, UpdateUserIs
  <2>2. demoted' \in BOOLEAN /\ crossed' \in BOOLEAN
    BY <1>4, Zenon DEF UpdateUser, TypeOK
  <2> QED
    BY <1>4, <1>e, <2>1, <2>2 DEF UpdateUser, TypeOK, tables
<1>5. ASSUME NEW u \in users, DeleteUser(a, u) PROVE TypeOK'
  <2>1. req' \in [Actor -> Requests]
    BY <1>5, DeleteUserIs
  <2>2. crossed' \in BOOLEAN
    BY <1>5, Zenon DEF DeleteUser, TypeOK
  <2> QED
    BY <1>5, <1>e, <2>1, <2>2 DEF DeleteUser, TypeOK, tables
<1> QED
  BY <1>1, <1>2, <1>3, <1>4, <1>5 DEF Asked

\* What comes and goes by itself.
Others ==
  \/ \E t \in Token : Logout(t) \/ Expire(t)
  \/ \E k \in Key : CreateKey(k) \/ DeleteKey(k)

LEMMA OthersTypes == ASSUME TypeOK, Others PROVE TypeOK'
<1>1. ASSUME NEW t \in Token, Logout(t) \/ Expire(t) PROVE TypeOK'
  BY <1>1 DEF Logout, Expire, TypeOK, history
<1>2. ASSUME NEW k \in Key, CreateKey(k) \/ DeleteKey(k) PROVE TypeOK'
  BY <1>2 DEF CreateKey, DeleteKey, TypeOK, history
<1> QED
  BY <1>1, <1>2 DEF Others

LEMMA Types == ASSUME TypeOK, Named, [Next]_vars PROVE TypeOK'
<1>1. CASE UNCHANGED vars
  BY <1>1 DEF vars, tables, history, TypeOK
<1> QED
  BY <1>1, WorkTypes, AskedTypes, OthersTypes DEF Next, Others

\* A step of a request is its own: it ends, or goes on with the same user.
LEMMA WorkMoves ==
  ASSUME TypeOK, NEW a \in Actor, Work(a)
  PROVE  /\ \A b \in Actor \ {a} : req'[b] = req[b]
         /\ \/ req'[a] = NoWork
            \/ /\ req'[a].pc \in {"key", "tokens", "user"}
               /\ req'[a].user = req[a].user /\ req'[a].last = req[a].last
<1>p. {"key", "tokens", "user"} \subseteq PCs
  BY DEF PCs
<1> QED
  BY <1>p, DoneIs, GoIs
  DEF Work, Seat, Seated, HandOutKey, Issue, Insert, Update, ReadRole, DeleteSessions, DeleteRow, GiveUp

\* One that begins is about a user there is, and changes no table.
LEMMA AskedMoves ==
  ASSUME TypeOK, NEW a \in Actor, Asked(a)
  PROVE  /\ \A b \in Actor \ {a} : req'[b] = req[b]
         /\ req'[a].pc \in {"seat", "login", "create", "update", "role"}
         /\ req'[a].pc = "seat" \/ req'[a].user \in users \cup {None}
         /\ req'[a].pc = "seat" => req'[a].user = req[a].user
         /\ req'[a].pc \in {"create", "update"} => req'[a].name \in Name /\ req'[a].role \in Role
         /\ UNCHANGED <<tables, used, initial, unseated>>
<1>1. CASE Setup(a)
  <2>1. "seat" \in PCs
    BY DEF PCs
  <2> QED
    BY <1>1, <2>1, GoIs DEF Setup, history
<1>2. ASSUME NEW u \in users, Login(a, u)
      PROVE req'[a].pc = "login" /\ req'[a].user = u /\ UNCHANGED <<tables, used, initial, unseated>>
            /\ \A b \in Actor \ {a} : req'[b] = req[b]
  BY <1>2, LoginIs DEF Login, history
<1>3. ASSUME NEW n \in Name, NEW r \in Role, CreateUser(a, n, r)
      PROVE /\ req'[a].pc = "create" /\ req'[a].user = None /\ UNCHANGED <<tables, used, initial, unseated>>
            /\ req'[a].name \in Name /\ req'[a].role \in Role
            /\ \A b \in Actor \ {a} : req'[b] = req[b]
  BY <1>3, CreateUserIs DEF CreateUser, history
<1>4. ASSUME NEW u \in users, NEW n \in Name \cup {None}, NEW r \in Role \cup {None}, UpdateUser(a, u, n, r)
      PROVE /\ req'[a].pc = "update" /\ req'[a].user = u /\ UNCHANGED <<tables, used, initial, unseated>>
            /\ req'[a].name \in Name /\ req'[a].role \in Role
            /\ \A b \in Actor \ {a} : req'[b] = req[b]
  BY <1>4, UpdateUserIs DEF UpdateUser
<1>5. ASSUME NEW u \in users, DeleteUser(a, u)
      PROVE req'[a].pc = "role" /\ req'[a].user = u /\ UNCHANGED <<tables, used, initial, unseated>>
            /\ \A b \in Actor \ {a} : req'[b] = req[b]
  BY <1>5, DeleteUserIs DEF DeleteUser
<1> QED
  BY <1>1, <1>2, <1>3, <1>4, <1>5 DEF Asked

\* The users there are after a step of a request, and the ids given out.
LEMMA WorkUsers ==
  ASSUME TypeOK, Fresh, NEW a \in Actor, Work(a)
  PROVE  used.user \subseteq used'.user /\ users' \subseteq used'.user
<1>1. CASE Seat(a) \/ Insert(a)
  BY <1>1 DEF Seat, Seated, Insert, TypeOK, Fresh
<1>2. CASE HandOutKey(a) \/ Issue(a)
  BY <1>2 DEF HandOutKey, Issue, Issued, TypeOK, Fresh
<1>3. CASE Update(a) \/ ReadRole(a) \/ DeleteSessions(a) \/ DeleteRow(a) \/ GiveUp(a)
  BY <1>3 DEF Update, ReadRole, DeleteSessions, DeleteRow, GiveUp, tables, Fresh
<1> QED
  BY <1>1, <1>2, <1>3 DEF Work

\* Others leave requests, users and history alone.
LEMMA OthersMove ==
  ASSUME TypeOK, Others
  PROVE  UNCHANGED <<users, row, req, history>> /\ used'.user = used.user
BY DEF Others, Logout, Expire, CreateKey, DeleteKey, TypeOK

LEMMA FreshKept == ASSUME TypeOK, Named, Fresh, [Next]_vars PROVE Named' /\ Fresh'
<1>1. CASE UNCHANGED vars
  BY <1>1 DEF vars, tables, Named, Fresh
<1>2. ASSUME NEW a \in Actor, Work(a) PROVE Named' /\ Fresh'
  BY <1>2, WorkMoves, WorkUsers DEF Named, Fresh, NoWork
<1>3. ASSUME NEW a \in Actor, Asked(a) PROVE Named' /\ Fresh'
  BY <1>3, AskedMoves DEF Named, Fresh, tables
<1>4. CASE Others
  BY <1>4, OthersMove DEF Named, Fresh
<1> QED
  BY <1>1, <1>2, <1>3, <1>4 DEF Next, Others

\* A session's user is there when it is issued, and takes its sessions along.
LEMMA SessionsKept == ASSUME TypeOK, SessionOwned, [Next]_vars PROVE SessionOwned'
<1>1. CASE UNCHANGED vars
  BY <1>1 DEF vars, tables, SessionOwned
<1>2. ASSUME NEW a \in Actor, Work(a) PROVE SessionOwned'
  <2>1. CASE Seat(a) \/ Insert(a) \/ HandOutKey(a) \/ Update(a) \/ ReadRole(a) \/ GiveUp(a)
    BY <2>1 DEF Seat, Seated, Insert, HandOutKey, Update, ReadRole, GiveUp, tables, SessionOwned
  <2>2. CASE Issue(a)
    BY <2>2 DEF Issue, Issued, SessionOwned, TypeOK
  <2>3. CASE DeleteSessions(a) \/ DeleteRow(a)
    BY <2>3 DEF DeleteSessions, DeleteRow, SessionsOf, SessionOwned
  <2> QED
    BY <1>2, <2>1, <2>2, <2>3 DEF Work
<1>3. ASSUME NEW a \in Actor, Asked(a) PROVE SessionOwned'
  BY <1>3, AskedMoves DEF tables, SessionOwned
<1>4. CASE Others
  BY <1>4 DEF Others, Logout, Expire, CreateKey, DeleteKey, SessionOwned
<1> QED
  BY <1>1, <1>2, <1>3, <1>4 DEF Next, Others

-----------------------------------------------------------------------------
(* Administrators.                                                         *)

\* A step that takes the role from nobody, gives it to none whom another request
\* changes, and begins neither an update nor a deletion.
LEMMA Beside ==
  ASSUME AdminInv, NEW a \in Actor,
         \A b \in Actor \ {a} : req'[b] = req[b],
         req'[a].pc \notin {"update", "role", "tokens", "user"},
         UNCHANGED <<crossed, demoted>>,
         ~crossed /\ ~demoted => Admins \subseteq Admins',
         ~crossed => \A v \in Admins' \ Admins, b \in Actor \ {a} :
                       At(b, "update") \/ Deleting(b) => req[b].user # v
  PROVE  AdminInv'
<1>1. OneChanges'
  BY DEF AdminInv, OneChanges, At, Deleting
<1>2. KeepsRole'
  BY DEF AdminInv, KeepsRole, At, Deleting
<1>3. ASSUME ~crossed, ~demoted, NEW b \in Actor, b # a PROVE Another(b) => Another(b)'
  BY <1>3 DEF Another
<1>4. LeavesAnother'
  BY <1>3 DEF AdminInv, LeavesAnother, At, Deleting, Another
<1> QED
  BY <1>1, <1>2, <1>4 DEF AdminInv

\* The users are as they were.
LEMMA BesideSame ==
  ASSUME AdminInv, NEW a \in Actor,
         \A b \in Actor \ {a} : req'[b] = req[b],
         req'[a].pc \notin {"update", "role", "tokens", "user"},
         UNCHANGED <<crossed, demoted, users, row>>
  PROVE  AdminInv'
<1>1. Admins' = Admins
  BY DEF Admins
<1> QED
  BY <1>1, Beside

\* Inserting a user with a new id.
LEMMA BesideNew ==
  ASSUME TypeOK, Fresh, AdminInv, NEW a \in Actor,
         \A b \in Actor \ {a} : req'[b] = req[b],
         req'[a].pc \notin {"update", "role", "tokens", "user"},
         UNCHANGED <<crossed, demoted>>,
         NEW u \in User \ used.user, NEW x, users' = users \cup {u}, row' = [row EXCEPT ![u] = x]
  PROVE  AdminInv'
<1>1. u \notin users /\ \A b \in Actor : req[b].user # u
  BY AccountsAssumption DEF Fresh
<1>2. \A v \in users : row'[v] = row[v] /\ v \in users'
  BY <1>1 DEF TypeOK
<1>3. Admins \subseteq Admins' /\ \A v \in Admins' \ Admins : v = u
  BY <1>2 DEF Admins
<1> QED
  BY <1>1, <1>3, Beside

\* What an update writes.
LEMMA UpdateAdmins == ASSUME TypeOK, AdminInv, NEW a \in Actor, Update(a) PROVE AdminInv'
<1> DEFINE u == req[a].user
<1>1. req'[a] = NoWork /\ (\A b \in Actor \ {a} : req'[b] = req[b]) /\ UNCHANGED <<crossed, demoted>>
  BY DoneIs DEF Update
<1>2. users' = users /\ \A v \in users : v # u => row'[v] = row[v]
  BY DEF Update, TypeOK
<1>3. u \in users => row'[u] = row[u] \/ row'[u].role = req[a].role
  BY DEF Update, TypeOK
<1>4. ~crossed /\ ~demoted /\ u \in Admins => req[a].role = "admin"
  BY DEF AdminInv, KeepsRole, Update
<1>5. ~crossed /\ ~demoted => Admins \subseteq Admins'
  BY <1>2, <1>3, <1>4 DEF Admins
<1>6. \A v \in Admins' \ Admins : v = u
  BY <1>2 DEF Admins
<1>7. ~crossed => \A b \in Actor \ {a} : At(b, "update") \/ Deleting(b) => req[b].user # u
  BY DEF AdminInv, OneChanges, Update
<1> QED
  BY <1>1, <1>5, <1>6, <1>7, Beside DEF NoWork

\* How a deletion goes on.
LEMMA DeletionAdmins ==
  ASSUME TypeOK, Fresh, AdminInv, NEW a \in Actor, ReadRole(a) \/ DeleteSessions(a) \/ DeleteRow(a)
  PROVE  AdminInv'
<1>1. CASE ReadRole(a) /\ Done(a)
  BY <1>1, DoneIs, BesideSame DEF ReadRole, tables, history, NoWork
<1>2. CASE ReadRole(a) /\ Go(a, "tokens")
  <2>1. /\ req'[a].pc = "tokens" /\ req'[a].user = req[a].user
        /\ \A b \in Actor \ {a} : req'[b] = req[b]
    BY <1>2, GoIs DEF PCs
  <2>2. Admins' = Admins /\ UNCHANGED <<crossed, demoted>> /\ At(a, "role")
    BY <1>2 DEF ReadRole, tables, history, Admins
  <2>3. row[req[a].user].role = "admin" => ~req[a].last
    <3> SUFFICES ASSUME row[req[a].user].role = "admin", req[a].last PROVE FALSE
      OBVIOUS
    <3>1. req' = [req EXCEPT ![a] = NoWork]
      BY <1>2 DEF ReadRole, Done
    <3>2. req'[a].pc = "idle"
      BY <3>1 DEF TypeOK, NoWork
    <3> QED
      BY <2>1, <3>2
  <2>4. OneChanges' /\ KeepsRole'
    BY <2>1, <2>2 DEF AdminInv, OneChanges, KeepsRole, At, Deleting
  <2>5. ~crossed /\ ~demoted /\ Admins # {} => Another(a)
    BY <2>2, <2>3 DEF AdminInv, LeavesAnother, Another, Admins
  <2>6. LeavesAnother'
    BY <2>1, <2>2, <2>5 DEF AdminInv, LeavesAnother, Another, At
  <2> QED
    BY <2>4, <2>6 DEF AdminInv
<1>3. CASE DeleteSessions(a)
  <2>1. /\ req'[a].pc = "user" /\ req'[a].user = req[a].user /\ req[a].pc = "tokens"
        /\ \A b \in Actor \ {a} : req'[b] = req[b]
    BY <1>3, GoIs DEF DeleteSessions, PCs, At
  <2>2. Admins' = Admins /\ UNCHANGED <<crossed, demoted>>
    BY <1>3 DEF DeleteSessions, history, Admins
  <2>3. OneChanges' /\ KeepsRole'
    BY <2>1, <2>2 DEF AdminInv, OneChanges, KeepsRole, At, Deleting
  <2>4. LeavesAnother'
    BY <2>1, <2>2 DEF AdminInv, LeavesAnother, Another, At
  <2> QED
    BY <2>3, <2>4 DEF AdminInv
<1>4. CASE DeleteRow(a)
  <2>1. /\ req'[a].pc = "idle" /\ req[a].pc = "user"
        /\ \A b \in Actor \ {a} : req'[b] = req[b]
    BY <1>4, DoneIs DEF DeleteRow, At, NoWork
  <2>2. Admins' \subseteq Admins /\ UNCHANGED <<crossed, demoted>>
    BY <1>4 DEF DeleteRow, Admins
  <2>3. OneChanges' /\ KeepsRole'
    BY <2>1, <2>2 DEF AdminInv, OneChanges, KeepsRole, At, Deleting
  <2>4. ~crossed => \A b \in Actor : ~Deleting(b)'
    BY <2>1 DEF AdminInv, OneChanges, Deleting
  <2>5. LeavesAnother'
    BY <2>2, <2>4 DEF LeavesAnother, At, Deleting
  <2> QED
    BY <2>3, <2>5 DEF AdminInv
<1> QED
  BY <1>1, <1>2, <1>3, <1>4 DEF ReadRole

\* An update begins with what the row says.
LEMMA BeginUpdateAdmins ==
  ASSUME TypeOK, AdminInv, NEW a \in Actor, NEW u \in users, NEW n \in Name \cup {None},
         NEW r \in Role \cup {None}, UpdateUser(a, u, n, r)
  PROVE  AdminInv'
<1>0. At(a, "idle")
  BY DEF UpdateUser
<1>1. /\ req'[a].pc = "update" /\ req'[a].user = u
      /\ req'[a].role = (IF r = None THEN row[u].role ELSE r)
      /\ \A b \in Actor \ {a} : req'[b] = req[b]
  BY UpdateUserIs
<1>2. Admins' = Admins
  BY DEF UpdateUser, tables, Admins
<1>3. /\ ~crossed' => ~crossed /\ \A b \in Actor : ~Updating(b, u) /\ ~(Deleting(b) /\ req[b].user = u)
      /\ ~demoted' => ~demoted /\ r \in {None, "admin"}
  BY Zenon DEF UpdateUser
<1>4. OneChanges'
  BY <1>0, <1>1, <1>3 DEF AdminInv, OneChanges, At, Deleting, Updating
<1>5. KeepsRole'
  BY <1>0, <1>1, <1>2, <1>3 DEF AdminInv, KeepsRole, At, Admins
<1>6. LeavesAnother'
  BY <1>0, <1>1, <1>2, <1>3 DEF AdminInv, LeavesAnother, Another, At
<1> QED
  BY <1>4, <1>5, <1>6 DEF AdminInv

\* A deletion begins with the count.
LEMMA BeginDeleteAdmins ==
  ASSUME TypeOK, AdminInv, NEW a \in Actor, NEW u \in users, DeleteUser(a, u)
  PROVE  AdminInv'
<1>1. /\ req'[a].pc = "role" /\ req'[a].user = u /\ At(a, "idle")
      /\ req'[a].last = (Cardinality(Admins) <= 1)
      /\ \A b \in Actor \ {a} : req'[b] = req[b]
  BY DeleteUserIs DEF DeleteUser
<1>2. Admins' = Admins /\ demoted' = demoted
  BY DEF DeleteUser, tables, Admins
<1>3. ~crossed' => ~crossed /\ \A b \in Actor : ~Updating(b, u) /\ ~Deleting(b)
  BY Zenon DEF DeleteUser
<1>4. OneChanges'
  BY <1>1, <1>3 DEF AdminInv, OneChanges, At, Deleting, Updating
<1>5. KeepsRole'
  BY <1>1, <1>2, <1>3 DEF AdminInv, KeepsRole, At
<1>6. ~req'[a].last => Another(a)'
  <2> SUFFICES ASSUME ~req'[a].last PROVE Another(a)'
    OBVIOUS
  <2>1. ~(Cardinality(Admins) <= 1)
    BY <1>1, Zenon
  <2>2. \E v \in Admins : v # u
    BY <2>1, TwoAdmins
  <2> QED
    BY <1>1, <1>2, <2>2, Zenon DEF Another
<1>7. LeavesAnother'
  BY <1>1, <1>2, <1>3, <1>6 DEF AdminInv, LeavesAnother, Another, At
<1> QED
  BY <1>4, <1>5, <1>7 DEF AdminInv

LEMMA AdminsKept == ASSUME TypeOK, Fresh, AdminInv, [Next]_vars PROVE AdminInv'
<1>1. CASE UNCHANGED <<users, row, req, history>>
  BY <1>1 DEF AdminInv, OneChanges, KeepsRole, LeavesAnother, Another, At, Deleting, Admins, history
<1>2. ASSUME NEW a \in Actor, Work(a) PROVE AdminInv'
  <2>1. \A b \in Actor \ {a} : req'[b] = req[b]
    BY <1>2, WorkMoves
  <2>2. CASE Seat(a)
    <3>1. req'[a].pc \notin {"update", "role", "tokens", "user"} /\ UNCHANGED <<crossed, demoted>>
      BY <2>2, DoneIs, GoIs DEF Seat, Seated, PCs, NoWork, history
    <3> QED
      BY <2>1, <2>2, <3>1, BesideSame, BesideNew DEF Seat, Seated
  <2>3. CASE Insert(a)
    <3>1. req'[a].pc \notin {"update", "role", "tokens", "user"} /\ UNCHANGED <<crossed, demoted>>
      BY <2>3, DoneIs DEF Insert, NoWork, history
    <3> QED
      BY <2>1, <2>3, <3>1, BesideSame, BesideNew DEF Insert
  <2>4. CASE HandOutKey(a) \/ Issue(a) \/ GiveUp(a)
    <3>1. req'[a].pc \notin {"update", "role", "tokens", "user"}
      BY <2>4, DoneIs DEF HandOutKey, Issue, GiveUp, NoWork
    <3>2. UNCHANGED <<crossed, demoted, users, row>>
      BY <2>4 DEF HandOutKey, Issue, GiveUp, tables, history
    <3> QED
      BY <2>1, <3>1, <3>2, BesideSame
  <2>5. CASE Update(a)
    BY <2>5, UpdateAdmins
  <2>6. CASE ReadRole(a) \/ DeleteSessions(a) \/ DeleteRow(a)
    BY <2>6, DeletionAdmins
  <2> QED
    BY <1>2, <2>2, <2>3, <2>4, <2>5, <2>6 DEF Work
<1>3. ASSUME NEW a \in Actor, Asked(a) PROVE AdminInv'
  <2>1. CASE Setup(a) \/ (\E u \in users : Login(a, u)) \/ \E n \in Name, r \in Role : CreateUser(a, n, r)
    <3>1. /\ req'[a].pc \notin {"update", "role", "tokens", "user"}
          /\ \A b \in Actor \ {a} : req'[b] = req[b]
      BY <2>1, GoIs, LoginIs, CreateUserIs DEF Setup, PCs
    <3>2. UNCHANGED <<crossed, demoted, users, row>>
      BY <2>1 DEF Setup, Login, CreateUser, tables, history
    <3> QED
      BY <3>1, <3>2, BesideSame
  <2> QED
    BY <1>3, <2>1, BeginUpdateAdmins, BeginDeleteAdmins DEF Asked
<1> QED
  BY <1>1, <1>2, <1>3, OthersMove DEF Next, Others, vars, tables

-----------------------------------------------------------------------------
(* Set-ups.                                                                *)

\* A step that takes no name away, and brings no set-up past its insert.
LEMMA NoSeat ==
  ASSUME OneSeat, NEW a \in Actor,
         \A b \in Actor \ {a} : req'[b] = req[b],
         req'[a].pc # "key", initial' = initial,
         ~unseated' => ~unseated /\ (Taken(AdminName) => Taken(AdminName)')
  PROVE  OneSeat'
BY DEF OneSeat, At

\* A new user takes no name away.
LEMMA TakenStays ==
  ASSUME TypeOK, Fresh, NEW u \in User \ used.user, NEW x,
         users' = users \cup {u}, row' = [row EXCEPT ![u] = x]
  PROVE  (Taken(AdminName) => Taken(AdminName)') /\ row'[u] = x
<1>1. \A v \in users : row'[v] = row[v] /\ v \in users'
  BY DEF TypeOK, Fresh
<1> QED
  BY <1>1 DEF Taken, TypeOK

LEMMA SeatKept == ASSUME TypeOK, Fresh, OneSeat, [Next]_vars PROVE OneSeat'
<1>1. CASE UNCHANGED <<users, row, req, history>>
  BY <1>1 DEF OneSeat, Taken, At, history
<1>2. ASSUME NEW a \in Actor, Work(a) PROVE OneSeat'
  <2>1. \A b \in Actor \ {a} : req'[b] = req[b]
    BY <1>2, WorkMoves
  <2>2. CASE Seat(a)
    <3>1. CASE Taken(AdminName)
      <4>1. req'[a].pc # "key" /\ UNCHANGED <<users, row, initial, unseated>>
        BY <2>2, <3>1, DoneIs DEF Seat, NoWork, history
      <4>2. Taken(AdminName)' = Taken(AdminName)
        BY <4>1 DEF Taken
      <4> QED
        BY <2>1, <4>1, <4>2, NoSeat
    <3>2. ASSUME NEW u \in User \ used.user, ~Taken(AdminName), Seated(a, u) PROVE OneSeat'
      <4>1. row'[u].name = AdminName /\ u \in users'
        <5> DEFINE x == [name |-> AdminName, role |-> "admin"]
        <5>1. users' = users \cup {u} /\ row' = [row EXCEPT ![u] = x]
          BY <3>2 DEF Seated
        <5>2. x.name = AdminName
          OBVIOUS
        <5> HIDE DEF x
        <5>3. row'[u] = x
          BY <3>2, <5>1, TakenStays
        <5> QED
          BY <5>1, <5>2, <5>3
      <4>2. Taken(AdminName)' /\ UNCHANGED <<initial, unseated>>
        BY <2>2, <4>1 DEF Taken, Seat, history
      <4>3. ~unseated => initial = {} /\ \A b \in Actor : ~At(b, "key")
        BY <3>2 DEF OneSeat
      <4> QED
        BY <2>1, <4>2, <4>3 DEF OneSeat, At
    <3> QED
      BY <2>2, <3>1, <3>2 DEF Seat
  <2>3. CASE HandOutKey(a)
    <3>1. req'[a].pc = "idle" /\ At(a, "key") /\ UNCHANGED <<users, row, unseated>>
      BY <2>3, DoneIs DEF HandOutKey, NoWork
    <3>2. PICK k \in Key : initial' = initial \cup {k}
      BY <2>3 DEF HandOutKey
    <3>3. ~unseated => /\ Taken(AdminName) /\ initial = {}
                       /\ \A b \in Actor : At(b, "key") => a = b
      BY <3>1 DEF OneSeat
    <3>4. ~unseated => Taken(AdminName)' /\ \A b \in Actor : ~At(b, "key")'
      BY <2>1, <3>1, <3>3 DEF Taken, At
    <3> QED
      BY <3>1, <3>2, <3>3, <3>4 DEF OneSeat
  <2>4. CASE Insert(a)
    <3>1. req'[a].pc # "key" /\ UNCHANGED <<initial, unseated>>
      BY <2>4, DoneIs DEF Insert, NoWork, history
    <3>2. Taken(AdminName) => Taken(AdminName)'
      <4>1. CASE UNCHANGED <<users, row>>
        BY <4>1 DEF Taken
      <4> QED
        BY <2>4, <4>1, TakenStays DEF Insert
    <3> QED
      BY <2>1, <3>1, <3>2, NoSeat
  <2>5. CASE Update(a)
    <3>1. req'[a].pc # "key" /\ initial' = initial /\ users' = users
      BY <2>5, DoneIs DEF Update, NoWork
    <3>2. ~unseated' => ~unseated /\ \A v \in users : row'[v].name = row[v].name
      <4>1. CASE UNCHANGED <<row, unseated>>
        BY <4>1
      <4>2. ASSUME req[a].user \in users,
                   row' = [row EXCEPT ![req[a].user] = [name |-> req[a].name, role |-> req[a].role]],
                   unseated' = (unseated \/ row[req[a].user].name # req[a].name), ~unseated'
            PROVE  ~unseated /\ \A v \in users : row'[v].name = row[v].name
        <5>1. ~unseated /\ row[req[a].user].name = req[a].name
          BY <4>2, Zenon
        <5> QED
          BY <4>2, <5>1 DEF TypeOK
      <4> QED
        BY <2>5, <4>1, <4>2 DEF Update
    <3> QED
      BY <2>1, <3>1, <3>2, NoSeat DEF Taken
  <2>6. CASE DeleteRow(a)
    BY <2>6 DEF DeleteRow, OneSeat
  <2>7. CASE Issue(a) \/ ReadRole(a) \/ DeleteSessions(a) \/ GiveUp(a)
    <3>1. req'[a].pc # "key"
      BY <2>7, DoneIs, GoIs DEF Issue, ReadRole, DeleteSessions, GiveUp, NoWork, PCs
    <3>2. UNCHANGED <<users, row, initial, unseated>>
      BY <2>7 DEF Issue, ReadRole, DeleteSessions, GiveUp, tables, history
    <3> QED
      BY <2>1, <3>1, <3>2, NoSeat DEF Taken
  <2> QED
    BY <1>2, <2>2, <2>3, <2>4, <2>5, <2>6, <2>7 DEF Work
<1>3. ASSUME NEW a \in Actor, Asked(a) PROVE OneSeat'
  BY <1>3, AskedMoves, NoSeat DEF tables, Taken
<1> QED
  BY <1>1, <1>2, <1>3, OthersMove DEF Next, Others, vars, tables

-----------------------------------------------------------------------------
(* The theorems.                                                           *)

LEMMA InitIInv == Init => IInv
<1> SUFFICES ASSUME Init PROVE IInv
  OBVIOUS
<1>1. NoWork \in Requests
  BY DEF NoWork, Requests, PCs
<1>2. keys \in SUBSET Key
  BY DEF Init
<1>3. TypeOK
  <2>1. row \in [User -> [name : Name, role : Role]] /\ owner \in [Token -> User \cup {None}]
    BY AccountsAssumption DEF Init
  <2>2. used \in [user : SUBSET User, token : SUBSET Token, key : SUBSET Key]
    BY <1>2 DEF Init
  <2>3. req \in [Actor -> Requests] /\ events \in 0..MaxEvents
    BY <1>1, AccountsAssumption DEF Init
  <2> QED
    BY <1>2, <2>1, <2>2, <2>3 DEF Init, TypeOK
<1>4. Named /\ Fresh /\ SessionOwned /\ OneSeat
  BY DEF Init, Named, Fresh, SessionOwned, OneSeat, NoWork, At
<1>5. AdminInv
  BY DEF Init, AdminInv, OneChanges, KeepsRole, LeavesAnother, NoWork, At, Deleting
<1> QED
  BY <1>3, <1>4, <1>5 DEF IInv

LEMMA NextIInv == IInv /\ [Next]_vars => IInv'
BY Types, FreshKept, SessionsKept, AdminsKept, SeatKept DEF IInv

\* The inductive invariant of users, sessions and the requests that change them.
THEOREM Inductive == Spec => []IInv
BY InitIInv, NextIInv, PTL DEF Spec

\* Every variable keeps its type, whatever requests overlap.
THEOREM TypeCorrect == Spec => []TypeOK
<1>1. IInv => TypeOK
  BY DEF IInv
<1> QED
  BY <1>1, Inductive, PTL

\* No session outlives its user (ON DELETE CASCADE, and the insert that fails).
THEOREM SessionsOwned == Spec => []SessionOwned
<1>1. IInv => SessionOwned
  BY DEF IInv
<1> QED
  BY <1>1, Inductive, PTL

\* Of the set-ups of an instance one hands out a key (UNIQUE on the user's name).
THEOREM OneSetup == Spec => []SetupOnce
<1>1. IInv => SetupOnce
  BY DEF IInv, OneSeat, SetupOnce
<1> QED
  BY <1>1, Inductive, PTL

\* What a step does to the administrators, when nobody was asked to be demoted.
LEMMA AdminStep ==
  ASSUME IInv, [Next]_vars, Admins # {}, ~demoted', ~crossed'
  PROVE  Admins' # {}
<1>1. CASE UNCHANGED <<users, row>>
  BY <1>1 DEF Admins
<1>2. ASSUME NEW a \in Actor, Work(a) PROVE Admins' # {}
  <2>1. CASE \E u \in User \ used.user, x \in [name : Name, role : Role] :
               users' = users \cup {u} /\ row' = [row EXCEPT ![u] = x]
    <3>1. \A v \in users : row'[v] = row[v] /\ v \in users'
      BY <2>1 DEF IInv, TypeOK, Fresh
    <3> QED
      BY <3>1 DEF Admins
  <2>2. CASE Update(a)
    <3>1. ~crossed /\ ~demoted /\ At(a, "update") /\ users' = users
      BY <2>2 DEF Update
    <3>2. req[a].user \in Admins => req[a].role = "admin"
      BY <3>1 DEF IInv, AdminInv, KeepsRole
    <3>3. ASSUME NEW v \in Admins PROVE row'[v].role = "admin"
      <4>1. CASE row' = row
        BY <4>1 DEF Admins
      <4>2. CASE row' = [row EXCEPT ![req[a].user] = [name |-> req[a].name, role |-> req[a].role]]
        BY <3>2, <4>2 DEF Admins, IInv, TypeOK
      <4> QED
        BY <2>2, <4>1, <4>2 DEF Update
    <3> QED
      BY <3>1, <3>3 DEF Admins
  <2>3. CASE DeleteRow(a)
    <3>1. ~crossed /\ ~demoted /\ At(a, "user")
      BY <2>3 DEF DeleteRow
    <3>2. Another(a)
      BY <3>1 DEF IInv, AdminInv, LeavesAnother, At
    <3> QED
      BY <2>3, <3>2 DEF DeleteRow, Another, Admins
  <2>4. AdminName \in Name /\ "admin" \in Role
    BY AccountsAssumption
  <2>5. CASE Seat(a)
    BY <1>1, <2>1, <2>4, <2>5 DEF Seat, Seated
  <2>6. CASE Insert(a)
    <3>1. req[a].name \in Name /\ req[a].role \in Role
      BY <2>6 DEF Insert, IInv, Named, At
    <3> QED
      BY <1>1, <2>1, <2>6, <3>1 DEF Insert
  <2>7. CASE HandOutKey(a) \/ Issue(a) \/ ReadRole(a) \/ DeleteSessions(a) \/ GiveUp(a)
    BY <1>1, <2>7 DEF HandOutKey, Issue, ReadRole, DeleteSessions, GiveUp, tables
  <2> QED
    BY <1>2, <2>2, <2>3, <2>5, <2>6, <2>7 DEF Work
<1>3. ASSUME NEW a \in Actor, Asked(a) PROVE Admins' # {}
  BY <1>1, <1>3, AskedMoves DEF IInv, tables
<1> QED
  BY <1>1, <1>2, <1>3, OthersMove DEF Next, Others, vars, tables, IInv

\* An administrator remains (the check of delete_user()), for any number of requests.
THEOREM AdminsRemain == Spec => AdminRemains
<1>1. IInv /\ [Next]_vars => [Admins # {} /\ ~demoted' /\ ~crossed' => Admins' # {}]_vars
  BY AdminStep
<1> QED
  BY <1>1, Inductive, PTL DEF Spec, AdminRemains
=============================================================================
