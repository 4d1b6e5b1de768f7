------------------------------- MODULE Accounts -------------------------------
(***************************************************************************)
(* Users, their sessions and the API keys: the first set-up                *)
(* (routes/setup.rs), signing in and out and the handlers that keep users  *)
(* (routes/auth.rs), keys (routes/keys.rs) and the check every request but *)
(* a set-up and a login passes (auth.rs).                                  *)
(*                                                                         *)
(* The handlers read and write in separate statements without a            *)
(* transaction, on a pool of five connections: a request is an actor, and  *)
(* each of its steps is one SQL statement.  SQLite checks that user names  *)
(* are unique and that a session has its user.  A password, once it is     *)
(* verified, decides nothing: passwords are left out.  Ids, tokens and     *)
(* keys are random and new each time.                                      *)
(***************************************************************************)
EXTENDS Naturals, FiniteSets

CONSTANTS
  User,       \* ids that users can get
  Name,       \* user names
  AdminName,  \* the name a set-up gives
  Role,       \* "admin" and the others
  Token,      \* session tokens
  Key,        \* API keys
  Actor,      \* requests that can be under way at a time
  SystemToken,\* whether the instance has a token that is always valid
  None,       \* no user, name or role
  MaxEvents   \* bound: requests, and handlers that do not finish

ASSUME AccountsAssumption ==
  /\ AdminName \in Name /\ "admin" \in Role
  /\ None \notin User \cup Name \cup Role
  /\ IsFiniteSet(User) /\ MaxEvents \in Nat /\ SystemToken \in BOOLEAN

VARIABLES
  \* the database
  users,     \* the users there are
  row,       \* per user: its name and role
  sessions,  \* the tokens in the sessions table
  owner,     \* per token: the user it was issued to
  expired,   \* the tokens whose expires_at has passed
  keys,      \* api_keys
  \* ids, tokens and keys that were given out once
  used,
  \* requests
  req,       \* per actor: the statement it is about to make, and its locals
  \* history
  initial,   \* the API keys that a set-up handed out
  unseated,  \* a user was renamed or deleted
  demoted,   \* an update was asked to take a user's role of administrator
  crossed,   \* two requests that delete, or that change one user, overlapped
  events

tables  == <<users, row, sessions, owner, expired, keys>>
history == <<initial, unseated, demoted, crossed>>
vars    == <<tables, used, req, history, events>>

PCs == {"idle", "seat", "key", "login", "create", "update", "role", "tokens", "user"}

\* last: the request counted at most one administrator.
Requests == [pc : PCs, user : User \cup {None}, name : Name \cup {None}, role : Role \cup {None},
             last : BOOLEAN]
NoWork   == [pc |-> "idle", user |-> None, name |-> None, role |-> None, last |-> FALSE]

TypeOK ==
  /\ users \in SUBSET User /\ row \in [User -> [name : Name, role : Role]]
  /\ sessions \in SUBSET Token /\ owner \in [Token -> User \cup {None}] /\ expired \in SUBSET Token
  /\ keys \in SUBSET Key
  /\ used \in [user : SUBSET User, token : SUBSET Token, key : SUBSET Key]
  /\ req \in [Actor -> Requests]
  /\ initial \in SUBSET Key
  /\ unseated \in BOOLEAN /\ demoted \in BOOLEAN /\ crossed \in BOOLEAN /\ events \in 0..MaxEvents

\* A new database, or one into which main.rs put the key of MUXSHED_API_KEY.
Init ==
  /\ users = {} /\ row = [u \in User |-> [name |-> AdminName, role |-> "admin"]]
  /\ sessions = {} /\ owner = [t \in Token |-> None] /\ expired = {}
  /\ keys \in {{}} \cup {{k} : k \in Key}
  /\ used = [user |-> {}, token |-> {}, key |-> keys]
  /\ req = [a \in Actor |-> NoWork]
  /\ initial = {} /\ unseated = FALSE /\ demoted = FALSE /\ crossed = FALSE
  /\ events = 0

Event    == events < MaxEvents /\ events' = events + 1
At(a, p) == req[a].pc = p
Done(a)  == req' = [req EXCEPT ![a] = NoWork]
Go(a, p) == req' = [req EXCEPT ![a].pc = p]

Admins   == {u \in users : row[u].role = "admin"}
Taken(n) == \E u \in users : row[u].name = n

\* auth_middleware(): somebody can show the system token, a session or an API key;
\* the role is not looked at.
Authorized == SystemToken \/ keys # {} \/ sessions \ expired # {}

Updating(b, u) == At(b, "update") /\ req[b].user = u
Deleting(b)    == req[b].pc \in {"role", "tokens", "user"}

-----------------------------------------------------------------------------
(* The set-up: it counts the users, inserts one, and hands out a key.      *)

Setup(a) ==
  /\ At(a, "idle") /\ users = {} /\ Event
  /\ Go(a, "seat")
  /\ UNCHANGED <<tables, used, history>>

Seated(a, u) ==
  /\ users' = users \cup {u} /\ row' = [row EXCEPT ![u] = [name |-> AdminName, role |-> "admin"]]
  /\ used' = [used EXCEPT !.user = @ \cup {u}]
  /\ Go(a, "key")

\* Mutant: INSERT OR IGNORE, so that the name that is taken stops nobody.
SeatIgnored(a) ==
  /\ At(a, "seat")
  /\ \/ \E u \in User \ used.user : ~Taken(AdminName) /\ Seated(a, u)
     \/ Taken(AdminName) /\ Go(a, "key") /\ UNCHANGED <<users, row, used>>
  /\ UNCHANGED <<sessions, owner, expired, keys, history, events>>

Seat(a) ==
  /\ At(a, "seat")
  /\ \/ \E u \in User \ used.user : ~Taken(AdminName) /\ Seated(a, u)
     \/ Taken(AdminName) /\ Done(a) /\ UNCHANGED <<users, row, used>>
  /\ UNCHANGED <<sessions, owner, expired, keys, history, events>>

HandOutKey(a) ==
  /\ At(a, "key") /\ Done(a)
  /\ \E k \in Key \ used.key : /\ keys' = keys \cup {k} /\ initial' = initial \cup {k}
                               /\ used' = [used EXCEPT !.key = @ \cup {k}]
  /\ UNCHANGED <<users, row, sessions, owner, expired, unseated, demoted, crossed, events>>

-----------------------------------------------------------------------------
(* Sessions and keys.                                                      *)

\* The user is read and the password verified.
Login(a, u) ==
  /\ At(a, "idle") /\ u \in users /\ Event
  /\ req' = [req EXCEPT ![a].pc = "login", ![a].user = u]
  /\ UNCHANGED <<tables, used, history>>

Issued(a, t) ==
  /\ sessions' = sessions \cup {t} /\ owner' = [owner EXCEPT ![t] = req[a].user]
  /\ used' = [used EXCEPT !.token = @ \cup {t}]

\* Mutant: the sessions table does not refer to the users.
IssueUnowned(a) ==
  /\ At(a, "login") /\ Done(a)
  /\ \E t \in Token \ used.token : Issued(a, t)
  /\ UNCHANGED <<users, row, expired, keys, history, events>>

\* The insert fails when the user is gone.
Issue(a) ==
  /\ At(a, "login") /\ Done(a)
  /\ \/ \E t \in Token \ used.token : req[a].user \in users /\ Issued(a, t)
     \/ req[a].user \notin users /\ UNCHANGED <<sessions, owner, used>>
  /\ UNCHANGED <<users, row, expired, keys, history, events>>

Logout(t) ==
  /\ Authorized /\ t \in sessions
  /\ sessions' = sessions \ {t}
  /\ UNCHANGED <<users, row, owner, expired, keys, used, req, history, events>>

\* Thirty days pass.
Expire(t) ==
  /\ t \in sessions \ expired
  /\ expired' = expired \cup {t}
  /\ UNCHANGED <<users, row, sessions, owner, keys, used, req, history, events>>

CreateKey(k) ==
  /\ Authorized /\ k \in Key \ used.key
  /\ keys' = keys \cup {k} /\ used' = [used EXCEPT !.key = @ \cup {k}]
  /\ UNCHANGED <<users, row, sessions, owner, expired, req, history, events>>

DeleteKey(k) ==
  /\ Authorized /\ k \in keys
  /\ keys' = keys \ {k}
  /\ UNCHANGED <<users, row, sessions, owner, expired, used, req, history, events>>

-----------------------------------------------------------------------------
(* Users.                                                                  *)

\* The name is looked up first, and may be taken by the time of the insert.
CreateUser(a, n, r) ==
  /\ At(a, "idle") /\ Authorized /\ ~Taken(n) /\ Event
  /\ req' = [req EXCEPT ![a] = [NoWork EXCEPT !.pc = "create", !.name = n, !.role = r]]
  /\ UNCHANGED <<tables, used, history>>

Insert(a) ==
  /\ At(a, "create") /\ Done(a)
  /\ \/ \E u \in User \ used.user :
          /\ ~Taken(req[a].name)
          /\ users' = users \cup {u} /\ used' = [used EXCEPT !.user = @ \cup {u}]
          /\ row' = [row EXCEPT ![u] = [name |-> req[a].name, role |-> req[a].role]]
     \/ Taken(req[a].name) /\ UNCHANGED <<users, row, used>>
  /\ UNCHANGED <<sessions, owner, expired, keys, history, events>>

\* Mutant: what is not asked for is written as NULL.
UpdateUserNulls(a, u, n, r) ==
  /\ At(a, "idle") /\ Authorized /\ u \in users /\ Event
  /\ req' = [req EXCEPT ![a] = [NoWork EXCEPT !.pc = "update", !.user = u, !.name = n, !.role = r]]
  /\ demoted' = (demoted \/ r \notin {None, "admin"})
  /\ crossed' = (crossed \/ \E b \in Actor : Updating(b, u) \/ (Deleting(b) /\ req[b].user = u))
  /\ UNCHANGED <<tables, used, initial, unseated>>

\* What is not asked for (None) is what the row says now, and is written back.
UpdateUser(a, u, n, r) ==
  /\ At(a, "idle") /\ Authorized /\ u \in users /\ Event
  /\ req' = [req EXCEPT ![a] = [NoWork EXCEPT !.pc = "update", !.user = u,
                                  !.name = IF n = None THEN row[u].name ELSE n,
                                  !.role = IF r = None THEN row[u].role ELSE r]]
  /\ demoted' = (demoted \/ r \notin {None, "admin"})
  /\ crossed' = (crossed \/ \E b \in Actor : Updating(b, u) \/ (Deleting(b) /\ req[b].user = u))
  /\ UNCHANGED <<tables, used, initial, unseated>>

\* The statement fails if another user has the name, and finds no row if the user is gone.
Update(a) ==
  LET u == req[a].user
  IN  /\ At(a, "update") /\ Done(a)
      /\ \/ /\ u \in users /\ \A v \in users \ {u} : row[v].name # req[a].name
            /\ row' = [row EXCEPT ![u] = [name |-> req[a].name, role |-> req[a].role]]
            /\ unseated' = (unseated \/ row[u].name # req[a].name)
         \/ /\ u \notin users \/ \E v \in users \ {u} : row[v].name = req[a].name
            /\ UNCHANGED <<row, unseated>>
      /\ UNCHANGED <<users, sessions, owner, expired, keys, used, initial, demoted, crossed, events>>

\* SELECT COUNT(*) FROM users WHERE role = 'admin'.
DeleteUser(a, u) ==
  /\ At(a, "idle") /\ Authorized /\ Event
  /\ req' = [req EXCEPT ![a] = [NoWork EXCEPT !.pc = "role", !.user = u,
                                  !.last = Cardinality(Admins) <= 1]]
  /\ crossed' = (crossed \/ \E b \in Actor : Updating(b, u) \/ Deleting(b))
  /\ UNCHANGED <<tables, used, initial, unseated, demoted>>

\* Mutant: the count is compared with 0.
ReadRoleOffByOne(a) ==
  /\ At(a, "role")
  /\ IF req[a].user \notin users THEN Done(a) ELSE Go(a, "tokens")
  /\ UNCHANGED <<tables, used, history, events>>

ReadRole(a) ==
  /\ At(a, "role")
  /\ IF \/ req[a].user \notin users
        \/ row[req[a].user].role = "admin" /\ req[a].last
     THEN Done(a) ELSE Go(a, "tokens")
  /\ UNCHANGED <<tables, used, history, events>>

SessionsOf(u) == {t \in sessions : owner[t] = u}

DeleteSessions(a) ==
  /\ At(a, "tokens") /\ Go(a, "user")
  /\ sessions' = sessions \ SessionsOf(req[a].user)
  /\ UNCHANGED <<users, row, owner, expired, keys, used, history, events>>

\* Sessions issued since go with the user (ON DELETE CASCADE).
DeleteRow(a) ==
  /\ At(a, "user") /\ Done(a)
  /\ users' = users \ {req[a].user} /\ sessions' = sessions \ SessionsOf(req[a].user)
  /\ unseated' = TRUE
  /\ UNCHANGED <<row, owner, expired, keys, used, initial, demoted, crossed, events>>

\* A statement fails, the server is killed, or the client hangs up and the handler is
\* dropped at an await: what it did so far stays.
GiveUp(a) ==
  /\ ~At(a, "idle") /\ Event /\ Done(a)
  /\ UNCHANGED <<tables, used, history>>

-----------------------------------------------------------------------------

Work(a) ==
  \/ Seat(a) \/ HandOutKey(a) \/ Issue(a) \/ Insert(a) \/ Update(a)
  \/ ReadRole(a) \/ DeleteSessions(a) \/ DeleteRow(a) \/ GiveUp(a)

Asked(a) ==
  \/ Setup(a)
  \/ \E u \in users : Login(a, u)
  \/ \E n \in Name, r \in Role : CreateUser(a, n, r)
  \/ \E u \in users, n \in Name \cup {None}, r \in Role \cup {None} : UpdateUser(a, u, n, r)
  \/ \E u \in users : DeleteUser(a, u)

Next ==
  \/ \E a \in Actor : Work(a) \/ Asked(a)
  \/ \E t \in Token : Logout(t) \/ Expire(t)
  \/ \E k \in Key : CreateKey(k) \/ DeleteKey(k)

Spec == Init /\ [][Next]_vars

-----------------------------------------------------------------------------
(* Properties.                                                             *)

\* Whoever is deleted is signed out: no session, not even one whose login was under way
\* while its user was deleted (routes/auth.rs 62-70, 339-346), belongs to a user that is gone.
SessionOwned == \A t \in sessions : owner[t] \in users

\* "cannot delete the last admin user" (routes/auth.rs 336): an instance that has an
\* administrator keeps one, whatever is created, renamed, demoted and deleted, as long
\* as no update asks to take the role from somebody, and no two deletions, and no
\* two requests that change one user, overlap.
AdminRemains ==
  [][Admins # {} /\ ~demoted' /\ ~crossed' => Admins' # {}]_vars

\* "setup already completed" (setup.rs 51): of set-ups that overlap, or follow
\* one that did not finish, only one hands out a key, unless a user, whoever it is, was
\* renamed or deleted.
SetupOnce == unseated \/ \A k, l \in initial : k = l
=============================================================================
