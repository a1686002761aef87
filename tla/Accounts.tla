------------------------------ MODULE Accounts ------------------------------
(***************************************************************************)
(* Users, sessions and grants (internal/auth, internal/api/users.go,       *)
(* sessions.go, auth_handlers.go, middleware.go).                          *)
(*                                                                         *)
(* Requests run concurrently.  Each reads what it checks in queries of     *)
(* their own and then writes in one transaction, so what it checked may    *)
(* have changed by then.  Rows are addressed by id, and SQLite hands out   *)
(* the largest id plus one: the id of a deleted row comes back.            *)
(***************************************************************************)
EXTENDS Integers, FiniteSets, FiniteSetsExt

CONSTANTS
    Requests,       \* requests the server may have in hand at a time
    NoRow,
    MaxUser, MaxSession,        \* ids, bounds of the model
    MaxPersons, MaxPasswords    \* accounts and password changes, bounds too

ASSUME AccountsAssumption ==
    /\ {MaxUser, MaxSession, MaxPersons, MaxPasswords} \subseteq Nat \ {0}
    /\ NoRow \notin Nat \cup [person : Nat, role : {"admin", "user"}, pw : Nat]
    /\ NoRow \notin [user : Nat, proof : Nat \X Nat] \cup (Nat \X Nat)

VARIABLES
    users,      \* table users: who the account was made for, role, password
    sessions,   \* table sessions; `proof` is who and which password login
                \* verified, or Late if that had changed when the row was written
    grants,     \* table library_access of one library: for whom, or Late
    request,    \* the request in each slot
    persons,    \* accounts created so far
    passwords   \* passwords set so far

vars == <<users, sessions, grants, request, persons, passwords>>

UserIds == 1..MaxUser
SessionIds == 1..MaxSession

UserRow == [person : 1..MaxPersons, role : {"admin", "user"}, pw : 1..MaxPasswords]
Late == 0
ProofOf(row) == <<row.person, row.pw>>
Proof == (1..MaxPersons) \X (1..MaxPasswords)
SessionRow == [user : UserIds, proof : Proof \cup {<<Late, Late>>}]

AdminOps == {"create", "demote", "promote", "password", "delete", "grant"}
Free == [op |-> "none", phase |-> "begin", me |-> 1, at |-> 1, saw |-> NoRow,
         crossed |-> FALSE]

Request == [op : {"none", "login", "logout", "revoke"} \cup AdminOps,
            phase : {"begin", "count", "write"},
            me : UserIds,                   \* the principal, while it matters
            at : Nat,                       \* the id it is about
            saw : Proof \cup {NoRow},       \* whose row it checked
            \* whether another request took, past the check and before the write,
            \* what it relied on
            crossed : BOOLEAN]

Present(table) == {i \in DOMAIN table : table[i] # NoRow}

\* INTEGER PRIMARY KEY without AUTOINCREMENT.
NextId(table) == IF Present(table) = {} THEN 1 ELSE Max(Present(table)) + 1

TypeOK ==
    /\ users \in [UserIds -> UserRow \cup {NoRow}]
    /\ sessions \in [SessionIds -> SessionRow \cup {NoRow}]
    /\ \A s \in Present(sessions) : users[sessions[s].user] # NoRow
    /\ grants \in [UserIds -> 0..MaxPersons \cup {NoRow}]
    /\ Present(grants) \subseteq Present(users)
    /\ request \in [Requests -> Request]
    /\ persons \in 1..MaxPersons /\ passwords \in 1..MaxPasswords

\* A first start leaves one admin.
Init ==
    /\ users = [u \in UserIds |->
                  IF u = 1 THEN [person |-> 1, role |-> "admin", pw |-> 1] ELSE NoRow]
    /\ sessions = [s \in SessionIds |-> NoRow]
    /\ grants = [u \in UserIds |-> NoRow]
    /\ request = [r \in Requests |-> Free]
    /\ persons = 1 /\ passwords = 1

-----------------------------------------------------------------------------
(* Requests up to their write.                                             *)

\* Request r is over; it crossed the requests in `others`.
EndCrossing(r, others) ==
    request' = [x \in Requests |->
                  IF x = r THEN Free
                  ELSE IF x \in others THEN [request[x] EXCEPT !.crossed = TRUE]
                  ELSE request[x]]

End(r) == EndCrossing(r, {})

\* Login: the row of the user name is read and the password verified.
BeginLogin(r) ==
    /\ request[r] = Free
    /\ \E u \in Present(users) :
         request' = [request EXCEPT ![r] =
           [Free EXCEPT !.op = "login", !.phase = "write", !.at = u,
                        !.saw = ProofOf(users[u])]]
    /\ UNCHANGED <<users, sessions, grants, persons, passwords>>

\* withSession resolves the cookie to a principal, requireUser and
\* requireAdmin let it through.  When a session expires does not matter here:
\* an expired one is removed by the next request that carries its cookie.
BeginCall(r) ==
    /\ request[r] = Free
    /\ \E s \in Present(sessions) :
         LET row == sessions[s]
             by == [Free EXCEPT !.me = row.user]
         IN  \* Logging out, or carrying the cookie of a session that expired.
             \/ request' = [request EXCEPT ![r] =
                  [by EXCEPT !.op = "logout", !.phase = "write", !.at = s]]
             \/ \E t \in SessionIds :
                  request' = [request EXCEPT ![r] = [by EXCEPT !.op = "revoke", !.at = t]]
             \/ /\ users[row.user].role = "admin"
                /\ \E op \in AdminOps, t \in UserIds :
                     /\ op = "delete" => t # row.user
                     /\ op = "create" => t = 1
                     /\ request' = [request EXCEPT ![r] = [Free EXCEPT !.op = op, !.at = t]]
    /\ UNCHANGED <<users, sessions, grants, persons, passwords>>

\* (Operators whose name starts with "Slip" are the mistakes the model checker
\* is asked to notice: no action uses them.)
SlipCheckOwner(r) ==
    LET q == request[r]
    IN  /\ q.op = "revoke" /\ q.phase = "begin"
        /\ IF sessions[q.at] # NoRow
           THEN request' = [request EXCEPT ![r].phase = "write"]
           ELSE End(r)
        /\ UNCHANGED <<users, sessions, grants, persons, passwords>>

\* DeleteSession reads the owner first.
CheckOwner(r) ==
    LET q == request[r]
    IN  /\ q.op = "revoke" /\ q.phase = "begin"
        /\ IF sessions[q.at] # NoRow /\ sessions[q.at].user = q.me
           THEN request' = [request EXCEPT ![r].phase = "write"]
           ELSE End(r)
        /\ UNCHANGED <<users, sessions, grants, persons, passwords>>

\* UpdateUser and DeleteUser read the row, setUserLibraries whether it exists.
CheckUser(r) ==
    LET q == request[r]
        row == users[q.at]
        seen == IF q.op = "grant" THEN ProofOf(row) ELSE NoRow
        counts == q.op \in {"demote", "delete"} /\ row.role = "admin"
    IN  /\ q.op \in AdminOps \ {"create"} /\ q.phase = "begin"
        /\ IF row = NoRow THEN End(r)
           ELSE request' = [request EXCEPT ![r] =
                  [q EXCEPT !.saw = seen, !.phase = IF counts THEN "count" ELSE "write"]]
        /\ UNCHANGED <<users, sessions, grants, persons, passwords>>

SlipOtherAdmins(id) == {u \in Present(users) : users[u].role = "admin"}

\* adminCount counts these.
OtherAdmins(id) == {u \in Present(users) \ {id} : users[u].role = "admin"}

\* The last admin is not to be removed: ErrLastAdmin.
CheckLastAdmin(r) ==
    LET q == request[r]
    IN  /\ q.phase = "count"
        /\ IF OtherAdmins(q.at) = {} THEN End(r)
           ELSE request' = [request EXCEPT ![r].phase = "write"]
        /\ UNCHANGED <<users, sessions, grants, persons, passwords>>

-----------------------------------------------------------------------------
(* Transactions.                                                           *)

Writes(r, op) == request[r].op = op /\ request[r].phase = "write"

\* The requests past the check for the last admin.
Removing == {x \in Requests : Writes(x, "demote") \/ Writes(x, "delete")}

\* Those that hold the id of a session.
Holding(id) ==
    {x \in Requests : request[x].op \in {"logout", "revoke"} /\ request[x].at = id}

\* The session is inserted; its foreign key needs a user of that id.
InsertSession(r) ==
    LET q == request[r]
        id == NextId(sessions)
        row == users[q.at]
    IN  /\ Writes(r, "login")
        /\ \/ /\ row = NoRow
              /\ End(r)
              /\ UNCHANGED sessions
           \/ /\ row # NoRow /\ id <= MaxSession
              /\ sessions' = [sessions EXCEPT ![id] =
                   [user |-> q.at, proof |-> IF ProofOf(row) = q.saw
                                             THEN ProofOf(row) ELSE <<Late, Late>>]]
              /\ EndCrossing(r, Holding(id))
        /\ UNCHANGED <<users, grants, persons, passwords>>

\* Logout, an expired cookie, DeleteSession: by id.
DeleteSession(r) ==
    LET q == request[r]
    IN  /\ q.op \in {"logout", "revoke"} /\ q.phase = "write"
        /\ sessions' = [sessions EXCEPT ![q.at] = NoRow]
        /\ End(r)
        /\ UNCHANGED <<users, grants, persons, passwords>>

WithoutSessionsOf(u) ==
    [s \in SessionIds |->
       IF sessions[s] # NoRow /\ sessions[s].user = u THEN NoRow ELSE sessions[s]]

CreateUser(r) ==
    LET id == NextId(users)
    IN  /\ request[r].op = "create"
        /\ id <= MaxUser /\ persons < MaxPersons
        /\ \E role \in {"admin", "user"} :
             users' = [users EXCEPT ![id] =
               [person |-> persons + 1, role |-> role, pw |-> 1]]
        /\ persons' = persons + 1
        /\ End(r)
        /\ UNCHANGED <<sessions, grants, passwords>>

\* Whose check the update belies: a demotion takes an admin that others may
\* have counted on, a promotion makes one of a user who was found to be none.
Misled(q) ==
    {x \in Removing : q.op = "demote" \/ (q.op = "promote" /\ request[x].at = q.at)}

SlipUpdateUser(r) ==
    LET q == request[r]
        there == users[q.at] # NoRow
    IN  /\ q.op \in {"demote", "promote", "password"} /\ q.phase = "write"
        /\ \/ /\ q.op # "password"
              /\ users' = IF there
                          THEN [users EXCEPT ![q.at].role =
                                  IF q.op = "demote" THEN "user" ELSE "admin"]
                          ELSE users
              /\ UNCHANGED <<sessions, passwords>>
           \/ /\ q.op = "password" /\ passwords < MaxPasswords
              /\ passwords' = passwords + 1
              /\ users' = IF there THEN [users EXCEPT ![q.at].pw = passwords + 1] ELSE users
              /\ UNCHANGED sessions
        /\ EndCrossing(r, Misled(q))
        /\ UNCHANGED <<grants, persons>>

\* UpdateUser: the row may be gone by now; a new password takes the user's
\* sessions with it.
UpdateUser(r) ==
    LET q == request[r]
        there == users[q.at] # NoRow
    IN  /\ q.op \in {"demote", "promote", "password"} /\ q.phase = "write"
        /\ \/ /\ q.op # "password"
              /\ users' = IF there
                          THEN [users EXCEPT ![q.at].role =
                                  IF q.op = "demote" THEN "user" ELSE "admin"]
                          ELSE users
              /\ UNCHANGED <<sessions, passwords>>
           \/ /\ q.op = "password" /\ passwords < MaxPasswords
              /\ passwords' = passwords + 1
              /\ users' = IF there THEN [users EXCEPT ![q.at].pw = passwords + 1] ELSE users
              /\ sessions' = WithoutSessionsOf(q.at)
        /\ EndCrossing(r, Misled(q))
        /\ UNCHANGED <<grants, persons>>

SlipDeleteUser(r) ==
    LET q == request[r]
    IN  /\ Writes(r, "delete")
        /\ users' = [users EXCEPT ![q.at] = NoRow]
        /\ sessions' = WithoutSessionsOf(q.at)
        /\ EndCrossing(r, Removing)
        /\ UNCHANGED <<grants, persons, passwords>>

\* DeleteUser: sessions and grants go by cascade.
DeleteUser(r) ==
    LET q == request[r]
    IN  /\ Writes(r, "delete")
        /\ users' = [users EXCEPT ![q.at] = NoRow]
        /\ sessions' = WithoutSessionsOf(q.at)
        /\ grants' = [grants EXCEPT ![q.at] = NoRow]
        /\ EndCrossing(r, Removing)
        /\ UNCHANGED <<persons, passwords>>

\* setUserLibraries replaces the grants of a user.
SetGrants(r) ==
    LET q == request[r]
        row == users[q.at]
    IN  /\ Writes(r, "grant")
        /\ \E granted \in {TRUE, FALSE} :
             grants' = [grants EXCEPT ![q.at] =
               IF row = NoRow THEN @
               ELSE IF ~granted THEN NoRow
               ELSE IF row.person = q.saw[1] THEN row.person ELSE Late]
        /\ End(r)
        /\ UNCHANGED <<users, sessions, persons, passwords>>

\* The browser goes away, or the database answers with an error: the
\* transaction is rolled back.
Fail(r) ==
    /\ request[r] # Free
    /\ End(r)
    /\ UNCHANGED <<users, sessions, grants, persons, passwords>>

\* The process starts again: requests are lost, and without any user
\* bootstrapAdmin makes one.
Restart ==
    /\ request' = [r \in Requests |-> Free]
    /\ \/ Present(users) # {} /\ UNCHANGED <<users, persons>>
       \/ /\ Present(users) = {} /\ persons < MaxPersons
          /\ users' = [users EXCEPT ![1] =
               [person |-> persons + 1, role |-> "admin", pw |-> 1]]
          /\ persons' = persons + 1
    /\ UNCHANGED <<sessions, grants, passwords>>

Next ==
    \/ Restart
    \/ \E r \in Requests :
          \/ BeginLogin(r) \/ BeginCall(r) \/ CheckOwner(r) \/ CheckUser(r)
          \/ CheckLastAdmin(r) \/ InsertSession(r) \/ DeleteSession(r)
          \/ CreateUser(r) \/ UpdateUser(r) \/ DeleteUser(r) \/ SetGrants(r) \/ Fail(r)

Spec == Init /\ [][Next]_vars

-----------------------------------------------------------------------------
(* Properties.                                                             *)

\* A session or a grant belongs to the person it was made for, although ids of
\* users come back, and a session to the password that was verified for it;
\* only a row whose user changed between the check and the write may differ
\* (Login, UpdateUser, DeleteUser, setUserLibraries).
RowsFollowTheirUser ==
    /\ \A s \in Present(sessions) :
         sessions[s].proof \in {<<Late, Late>>, ProofOf(users[sessions[s].user])}
    /\ \A u \in Present(grants) : grants[u] \in {Late, users[u].person}

\* What ErrLastAdmin is for: no operation leaves the system without an admin.
\* False, see README: the admins are counted before the transaction, and two
\* requests that count at the same time each leave the other's admin.
AdminRemains == \E u \in Present(users) : users[u].role = "admin"

\* It takes two requests past their checks at once to lose the last admin: role
\* changes, deletions, promotions and returning ids in any other order do not
\* (UpdateUser, DeleteUser, adminCount).
AdminLostOnlyByCrossing ==
    [][AdminRemains /\ ~AdminRemains' =>
         \E r \in Requests : request[r].crossed /\ request'[r] = Free]_vars

\* Logging out, expiring and revoking remove no session of another user,
\* unless its id was handed out again to a login while the request held it
\* (DeleteSession, "but only if it belongs to userID"; Lookup, Logout).
OthersSessionsSpared ==
    [][\A s \in Present(sessions), r \in Requests :
         /\ request[r].op \in {"logout", "revoke"} /\ request'[r] = Free
         /\ sessions'[s] = NoRow
         => sessions[s].user = request[r].me \/ request[r].crossed]_vars
=============================================================================
