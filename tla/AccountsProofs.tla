--------------------------- MODULE AccountsProofs ---------------------------
(***************************************************************************)
(* Theorems about Accounts, for any number of requests at a time and any   *)
(* number of users, sessions and passwords; and about LoginLimiter, its    *)
(* types and its limit, for any names, addresses, limits and window.       *)
(***************************************************************************)
EXTENDS MCAccounts, WellFoundedInduction, TLAPS

-----------------------------------------------------------------------------
(* Natural numbers.                                                        *)

LEMMA LeastNat ==
  ASSUME NEW T, T \subseteq Nat, T # {}
  PROVE  \E m \in T : \A k \in T : ~(k < m)
  <1>1. PICK less : less = OpToRel(<, Nat) /\ \A i, j \in Nat : i < j <=> <<i, j>> \in less
    <2>1. \A i, j : <<i, j>>[1] = i /\ <<i, j>>[2] = j
      OBVIOUS
    <2>2. ASSUME NEW i \in Nat, NEW j \in Nat
          PROVE  i < j <=> <<i, j>> \in OpToRel(<, Nat)
      BY <2>1, Zenon DEF OpToRel
    <2> QED
      BY <2>2, Zenon
  <1>2. IsWellFoundedOn(less, Nat)
    BY <1>1, NatLessThanWellFounded
  <1>3. PICK m \in T : \A k \in T : ~(<<k, m>> \in less)
    <2>1. T \subseteq Nat /\ T # {}
      OBVIOUS
    <2> QED
      BY ONLY <1>2, <2>1, WFMin
  <1> QED
    BY <1>1, <1>3

\* Induction, for a property given as the set of the numbers that have it.
LEMMA InEveryNat ==
  ASSUME NEW S, 0 \in S, \A n \in Nat : n \in S => n + 1 \in S
  PROVE  \A n \in Nat : n \in S
  <1> SUFFICES ASSUME NEW n \in Nat, n \notin S PROVE FALSE
    OBVIOUS
  <1>1. PICK m \in Nat \ S : \A k \in Nat \ S : ~(k < m)
    <2>1. Nat \ S \subseteq Nat /\ Nat \ S # {}
      OBVIOUS
    <2> QED
      BY ONLY <2>1, LeastNat
  <1>2. m - 1 \in Nat /\ m - 1 < m
    BY <1>1
  <1>3. m - 1 \in S
    BY <1>1, <1>2
  <1>4. m \in S
    <2>1. (m - 1) + 1 \in S
      BY <1>2, <1>3
    <2> QED
      BY <1>1, <2>1
  <1> QED
    BY <1>1, <1>4

-----------------------------------------------------------------------------
(* NextId hands out an id that no row has.                                 *)

LEMMA MaxIsGreatest ==
  ASSUME NEW n \in Nat, NEW S \in SUBSET (1..n), S # {}
  PROVE  Max(S) \in S /\ \A y \in S : Max(S) >= y
  <1>1. PICK above : above = {k \in Nat : \A y \in S : k >= y}
    OBVIOUS
  <1>2. n \in above /\ above \subseteq Nat
    BY <1>1
  <1>3. PICK m \in above : \A k \in above : ~(k < m)
    BY <1>2, LeastNat
  <1>4. m \in Nat
    BY <1>2
  <1>5. m \in S
    <2>1. CASE m = 0
      <3>1. PICK y \in S : y \in 1..n
        OBVIOUS
      <3> QED
        BY <1>1, <2>1, <3>1
    <2>2. CASE m # 0 /\ m \notin S
      <3>1. m - 1 \in Nat /\ m - 1 < m
        BY <1>2, <2>2
      <3>2. \A y \in S : m - 1 >= y
        BY <1>1, <1>2, <2>2
      <3>3. m - 1 \in above
        BY <1>1, <3>1, <3>2
      <3> QED
        BY <1>3, <3>1, <3>3
    <2> QED
      BY <2>1, <2>2
  <1>6. \A y \in S : m >= y
    BY <1>1
  <1> QED
    BY <1>5, <1>6 DEF Max

LEMMA NextIdFree ==
  ASSUME NEW n \in Nat, NEW table, DOMAIN table = 1..n
  PROVE  NextId(table) \in Nat \ {0} /\ NextId(table) \notin Present(table)
  <1>1. Present(table) \in SUBSET (1..n)
    BY DEF Present
  <1>2. CASE Present(table) = {}
    BY <1>2 DEF NextId
  <1>3. CASE Present(table) # {}
    <2>1. PICK m \in 1..n : m = Max(Present(table)) /\ \A y \in Present(table) : m >= y
      BY <1>1, <1>3, MaxIsGreatest
    <2>2. NextId(table) = m + 1
      BY <1>3, <2>1 DEF NextId
    <2> QED
      BY <1>1, <2>1, <2>2
  <1> QED
    BY <1>2, <1>3

-----------------------------------------------------------------------------
(* The inductive invariant.                                                *)

\* What a request carries, as far as it has come.
RequestSound(q) ==
    /\ q.op \in AdminOps \cup {"login"} => q.at \in UserIds
    /\ q.op \in {"logout", "revoke"} => q.at \in SessionIds
    /\ q.phase = "count" => q.op \in {"demote", "delete"}
    /\ q.op \in {"login"} \/ (q.op = "grant" /\ q.phase = "write") => q.saw \in Proof

\* An admin besides the user `id`.
AnotherAdmin(table, id) ==
    \E u \in UserIds \ {id} : table[u] # NoRow /\ table[u].role = "admin"

\* What the check for the last admin found still stands, unless another request
\* crossed this one: there is another admin, or the user is none.
CheckStands(q, table) ==
    q.op \in {"demote", "delete"} /\ q.phase = "write" /\ ~q.crossed =>
        \/ AnotherAdmin(table, q.at)
        \/ table[q.at] # NoRow /\ table[q.at].role # "admin"

\* The session to be removed is the caller's, or gone, unless its id was handed
\* out meanwhile.
OwnSession(q, table) ==
    q.op \in {"logout", "revoke"} /\ q.phase = "write" /\ ~q.crossed =>
        table[q.at] = NoRow \/ table[q.at].user = q.me

RequestsSound ==
    \A r \in Requests : /\ RequestSound(request[r])
                        /\ CheckStands(request[r], users)
                        /\ OwnSession(request[r], sessions)

IInv == TypeOK /\ RowsFollowTheirUser /\ RequestsSound

RowsTyped ==
    /\ users \in [UserIds -> UserRow \cup {NoRow}]
    /\ sessions \in [SessionIds -> SessionRow \cup {NoRow}]
    /\ \A s \in Present(sessions) : users[sessions[s].user] # NoRow
    /\ grants \in [UserIds -> 0..MaxPersons \cup {NoRow}]
    /\ Present(grants) \subseteq Present(users)

LEMMA RowsAreNoNoRow ==
  /\ \A row \in UserRow : row # NoRow
  /\ \A row \in SessionRow : row # NoRow
  /\ \A n \in Nat : n # NoRow
  /\ \A p \in Proof : p # NoRow
  <1>1. ASSUME NEW row \in UserRow
        PROVE  row # NoRow
    <2>1. row \in [person : Nat, role : {"admin", "user"}, pw : Nat]
      BY DEF UserRow
    <2> QED
      BY <2>1, AccountsAssumption
  <1>2. ASSUME NEW row \in SessionRow
        PROVE  row # NoRow
    <2>1. row \in [user : Nat, proof : Nat \X Nat]
      BY AccountsAssumption DEF SessionRow, UserIds, Proof, Late
    <2> QED
      BY <2>1, AccountsAssumption
  <1>3. \A n \in Nat : n # NoRow
    BY AccountsAssumption
  <1>4. ASSUME NEW p \in Proof
        PROVE  p # NoRow
    <2>1. p \in Nat \X Nat
      BY DEF Proof
    <2> QED
      BY <2>1, AccountsAssumption
  <1> QED
    BY <1>1, <1>2, <1>3, <1>4

LEMMA FreeIsSound ==
  /\ Free \in Request
  /\ RequestSound(Free)
  /\ \A table : CheckStands(Free, table) /\ OwnSession(Free, table)
  <1>1. 1 \in UserIds
    BY AccountsAssumption DEF UserIds
  <1> QED
    BY <1>1 DEF Free, Request, RequestSound, AdminOps, CheckStands, OwnSession

\* The end of a request does nothing to the others but cross some of them.
LEMMA EndKeeps ==
  ASSUME IInv, NEW r \in Requests, NEW others, EndCrossing(r, others)
  PROVE  /\ request' \in [Requests -> Request]
         /\ request'[r] = Free
         /\ \A x \in Requests : request'[x] = Free => x = r \/ request[x] = Free
         /\ \A x \in Requests : RequestSound(request'[x])
         /\ \A x \in Requests :
              \/ request'[x] = Free
              \/ request'[x].crossed
              \/ request'[x] = request[x] /\ x \notin others /\ x # r
  <1>1. request \in [Requests -> Request] /\ Free \in Request
    BY FreeIsSound DEF IInv, TypeOK
  <1>2. \A q \in Request : [q EXCEPT !.crossed = TRUE] \in Request
    BY DEF Request
  <1>3. request' \in [Requests -> Request]
    BY <1>1, <1>2 DEF EndCrossing
  <1>4. ASSUME NEW x \in Requests, x # r
        PROVE  \/ request'[x] = request[x] /\ x \notin others
               \/ request'[x] = [request[x] EXCEPT !.crossed = TRUE]
    BY <1>4 DEF EndCrossing
  <1>5. request'[r] = Free
    BY DEF EndCrossing
  <1>6. ASSUME NEW q \in Request, RequestSound(q)
        PROVE  RequestSound([q EXCEPT !.crossed = TRUE])
    BY <1>6 DEF RequestSound, Request
  <1>7. \A x \in Requests : RequestSound(request'[x])
    BY <1>1, <1>4, <1>5, <1>6, FreeIsSound DEF IInv, RequestsSound
  <1>8. \A q \in Request : [q EXCEPT !.crossed = TRUE].crossed
    BY DEF Request
  <1>9. \A q \in Request : [q EXCEPT !.crossed = TRUE] # Free
    BY DEF Request, Free
  <1> QED
    BY <1>1, <1>3, <1>4, <1>5, <1>7, <1>8, <1>9

-----------------------------------------------------------------------------
(* What the requests read and what they write.                             *)

Reads == UNCHANGED <<users, sessions, grants, persons, passwords>>

LEMMA RowsUnchanged ==
  ASSUME IInv, Reads
  PROVE  RowsTyped' /\ RowsFollowTheirUser'
         /\ persons' \in 1..MaxPersons /\ passwords' \in 1..MaxPasswords
  BY DEF IInv, TypeOK, Reads, RowsTyped, RowsFollowTheirUser, Present, ProofOf

LEMMA ReadKeeps ==
  ASSUME IInv, Reads, NEW r \in Requests, NEW q \in Request, RequestSound(q),
         CheckStands(q, users), OwnSession(q, sessions),
         request' = [request EXCEPT ![r] = q]
  PROVE  IInv'
  <1>1. request \in [Requests -> Request]
    BY DEF IInv, TypeOK
  <1>2. request' \in [Requests -> Request]
    BY <1>1
  <1>3. \A x \in Requests : request'[x] = IF x = r THEN q ELSE request[x]
    BY <1>1
  <1>4. users' = users /\ sessions' = sessions
    BY DEF Reads
  <1>5. RequestsSound'
    BY <1>3, <1>4 DEF IInv, RequestsSound
  <1>6. RowsTyped' /\ RowsFollowTheirUser'
         /\ persons' \in 1..MaxPersons /\ passwords' \in 1..MaxPasswords
    BY ONLY IInv, Reads, RowsUnchanged
  <1> QED
    BY <1>2, <1>5, <1>6 DEF IInv, TypeOK, RowsTyped

LEMMA WriteKeeps ==
  ASSUME IInv, NEW r \in Requests, NEW others, EndCrossing(r, others),
         RowsTyped', RowsFollowTheirUser',
         persons' \in 1..MaxPersons, passwords' \in 1..MaxPasswords,
         \A x \in Requests \ {r} : x \notin others =>
           CheckStands(request[x], users') /\ OwnSession(request[x], sessions')
  PROVE  IInv'
  <1>1. /\ request' \in [Requests -> Request]
        /\ \A x \in Requests : RequestSound(request'[x])
        /\ \A x \in Requests :
             \/ request'[x] = Free
             \/ request'[x].crossed
             \/ request'[x] = request[x] /\ x \notin others /\ x # r
    BY ONLY IInv, EndCrossing(r, others), EndKeeps
  <1>2. ASSUME NEW x \in Requests
        PROVE  CheckStands(request'[x], users') /\ OwnSession(request'[x], sessions')
    <2>1. CASE request'[x] = Free
      BY <2>1, FreeIsSound
    <2>2. CASE request'[x].crossed
      BY <2>2 DEF CheckStands, OwnSession
    <2>3. CASE request'[x] = request[x] /\ x \notin others /\ x # r
      BY <2>3
    <2> QED
      BY <1>1, <2>1, <2>2, <2>3
  <1>3. RequestsSound'
    BY <1>1, <1>2 DEF RequestsSound
  <1> QED
    BY <1>1, <1>3 DEF IInv, TypeOK, RowsTyped

LEMMA EndReadKeeps ==
  ASSUME IInv, Reads, NEW r \in Requests, End(r)
  PROVE  IInv'
  <1>1. EndCrossing(r, {})
    BY DEF End
  <1>2. RowsTyped' /\ RowsFollowTheirUser'
         /\ persons' \in 1..MaxPersons /\ passwords' \in 1..MaxPasswords
    BY ONLY IInv, Reads, RowsUnchanged
  <1>3. \A x \in Requests \ {r} : x \notin {} =>
           CheckStands(request[x], users') /\ OwnSession(request[x], sessions')
    BY DEF Reads, IInv, RequestsSound
  <1> QED
    BY ONLY IInv, <1>1, <1>2, <1>3, WriteKeeps

LEMMA BeginLoginKeeps ==
  ASSUME IInv, NEW r \in Requests, BeginLogin(r)
  PROVE  IInv'
  <1>1. PICK u \in Present(users) :
          request' = [request EXCEPT ![r] =
           [Free EXCEPT !.op = "login", !.phase = "write", !.at = u,
                        !.saw = ProofOf(users[u])]]
    BY DEF BeginLogin
  <1>2. u \in UserIds /\ users[u] \in UserRow
    BY DEF Present, IInv, TypeOK
  <1>3. ProofOf(users[u]) \in Proof
    BY <1>2 DEF ProofOf, Proof, UserRow
  <1> DEFINE q == [Free EXCEPT !.op = "login", !.phase = "write", !.at = u,
                               !.saw = ProofOf(users[u])]
  <1>4. q \in Request /\ RequestSound(q)
    <2>1. u \in Nat
      BY <1>2 DEF UserIds
    <2> QED
      BY <1>2, <1>3, <2>1, FreeIsSound DEF Request, RequestSound, Free, AdminOps
  <1>5. CheckStands(q, users) /\ OwnSession(q, sessions)
    BY DEF CheckStands, OwnSession, Free
  <1>6. Reads /\ request' = [request EXCEPT ![r] = q]
    BY <1>1 DEF BeginLogin, Reads
  <1> HIDE DEF q
  <1> QED
    BY ONLY IInv, <1>4, <1>5, <1>6, ReadKeeps

LEMMA BeginCallKeeps ==
  ASSUME IInv, NEW r \in Requests, BeginCall(r)
  PROVE  IInv'
  <1>1. PICK s \in Present(sessions) :
         LET row == sessions[s]
             by == [Free EXCEPT !.me = row.user]
         IN  \/ request' = [request EXCEPT ![r] =
                  [by EXCEPT !.op = "logout", !.phase = "write", !.at = s]]
             \/ \E t \in SessionIds :
                  request' = [request EXCEPT ![r] = [by EXCEPT !.op = "revoke", !.at = t]]
             \/ \E op \in AdminOps, t \in UserIds :
                  request' = [request EXCEPT ![r] = [Free EXCEPT !.op = op, !.at = t]]
    BY DEF BeginCall
  <1>2. s \in SessionIds /\ sessions[s] \in SessionRow /\ sessions[s].user \in UserIds
    BY DEF Present, IInv, TypeOK, SessionRow
  <1>3. UserIds \subseteq Nat /\ SessionIds \subseteq Nat
    BY DEF UserIds, SessionIds
  <1>4. Reads
    BY DEF BeginCall, Reads
  <1>5. ASSUME NEW q, q.phase = "write" => q.op = "logout" /\ sessions[q.at].user = q.me
        PROVE  CheckStands(q, users) /\ OwnSession(q, sessions)
    BY <1>5 DEF CheckStands, OwnSession
  <1>6. ASSUME NEW q \in Request, RequestSound(q),
               q.phase = "write" => q.op = "logout" /\ sessions[q.at].user = q.me,
               request' = [request EXCEPT ![r] = q]
        PROVE  IInv'
    <2>1. CheckStands(q, users) /\ OwnSession(q, sessions)
      BY ONLY <1>5, <1>6
    <2> QED
      BY ONLY IInv, <1>4, <1>6, <2>1, ReadKeeps
  <1> DEFINE by == [Free EXCEPT !.me = sessions[s].user]
  <1>7. by \in Request /\ by.phase = "begin" /\ by.saw = NoRow /\ by.me = sessions[s].user
    BY <1>2, FreeIsSound DEF Request, Free
  <1>8. CASE request' = [request EXCEPT ![r] =
                  [by EXCEPT !.op = "logout", !.phase = "write", !.at = s]]
    <2> DEFINE q == [by EXCEPT !.op = "logout", !.phase = "write", !.at = s]
    <2> HIDE DEF by
    <2>1. q \in Request /\ RequestSound(q)
      BY <1>2, <1>3, <1>7 DEF Request, RequestSound, AdminOps
    <2>2. q.op = "logout" /\ sessions[q.at].user = q.me
      BY <1>7 DEF Request
    <2> HIDE DEF q
    <2> QED
      BY <1>6, <1>8, <2>1, <2>2 DEF q
  <1>9. ASSUME NEW t \in SessionIds,
               request' = [request EXCEPT ![r] = [by EXCEPT !.op = "revoke", !.at = t]]
        PROVE  IInv'
    <2> DEFINE q == [by EXCEPT !.op = "revoke", !.at = t]
    <2> HIDE DEF by
    <2>1. q \in Request /\ RequestSound(q) /\ q.phase # "write"
      BY <1>3, <1>7 DEF Request, RequestSound, AdminOps
    <2> HIDE DEF q
    <2> QED
      BY <1>6, <1>9, <2>1 DEF q
  <1>10. ASSUME NEW op \in AdminOps, NEW t \in UserIds,
                request' = [request EXCEPT ![r] = [Free EXCEPT !.op = op, !.at = t]]
         PROVE  IInv'
    <2> DEFINE q == [Free EXCEPT !.op = op, !.at = t]
    <2>1. q \in Request /\ RequestSound(q) /\ q.phase # "write"
      BY <1>3, FreeIsSound DEF Request, RequestSound, AdminOps, Free
    <2> HIDE DEF q
    <2> QED
      BY <1>6, <1>10, <2>1 DEF q
  <1> QED
    BY <1>1, <1>8, <1>9, <1>10

LEMMA CheckOwnerKeeps ==
  ASSUME IInv, NEW r \in Requests, CheckOwner(r)
  PROVE  IInv'
  <1> DEFINE q == request[r]
             p == [q EXCEPT !.phase = "write"]
  <1>1. request \in [Requests -> Request] /\ q \in Request /\ RequestSound(q)
    BY DEF IInv, TypeOK, RequestsSound
  <1>2. Reads
    BY DEF CheckOwner, Reads
  <1>3. CASE End(r)
    BY ONLY IInv, <1>2, <1>3, EndReadKeeps
  <1>4. CASE /\ sessions[q.at].user = q.me
             /\ request' = [request EXCEPT ![r].phase = "write"]
    <2>1. request' = [request EXCEPT ![r] = p]
      BY <1>1, <1>4
    <2>2. q.op = "revoke"
      BY DEF CheckOwner
    <2>3. p \in Request /\ RequestSound(p) /\ p.op = "revoke" /\ p.at = q.at /\ p.me = q.me
      BY <1>1, <2>2 DEF Request, RequestSound, AdminOps
    <2>4. CheckStands(p, users) /\ OwnSession(p, sessions)
      BY <1>4, <2>3 DEF CheckStands, OwnSession
    <2> HIDE DEF p
    <2> QED
      BY ONLY IInv, <1>2, <2>1, <2>3, <2>4, ReadKeeps
  <1> QED
    BY <1>3, <1>4 DEF CheckOwner

LEMMA CheckUserKeeps ==
  ASSUME IInv, NEW r \in Requests, CheckUser(r)
  PROVE  IInv'
  <1> DEFINE q == request[r]
             row == users[q.at]
             seen == IF q.op = "grant" THEN ProofOf(row) ELSE NoRow
             counts == q.op \in {"demote", "delete"} /\ row.role = "admin"
             p == [q EXCEPT !.saw = seen, !.phase = IF counts THEN "count" ELSE "write"]
  <1>1. q \in Request /\ RequestSound(q) /\ q.op \in AdminOps \ {"create"}
    BY DEF IInv, TypeOK, RequestsSound, CheckUser
  <1>2. Reads
    BY DEF CheckUser, Reads
  <1>3. CASE End(r)
    BY ONLY IInv, <1>2, <1>3, EndReadKeeps
  <1>4. CASE row # NoRow /\ request' = [request EXCEPT ![r] = p]
    <2>1. q.at \in UserIds
      BY <1>1 DEF RequestSound
    <2>2. row \in UserRow
      BY <1>4, <2>1 DEF IInv, TypeOK
    <2>3. ProofOf(row) \in Proof
      BY <2>2 DEF ProofOf, Proof, UserRow
    <2>4. seen \in Proof \cup {NoRow} /\ (q.op = "grant" => seen \in Proof)
      BY <2>3
    <2> HIDE DEF seen, row
    <2>5. /\ p \in Request /\ p.op = q.op /\ p.at = q.at /\ p.saw = seen
          /\ p.phase = IF counts THEN "count" ELSE "write"
      BY <1>1, <2>4 DEF Request
    <2> HIDE DEF p
    <2>6. RequestSound(p)
      BY <1>1, <2>1, <2>4, <2>5 DEF RequestSound, AdminOps
    <2>7. CheckStands(p, users)
      <3> SUFFICES ASSUME p.op \in {"demote", "delete"}, p.phase = "write"
                   PROVE  users[p.at] # NoRow /\ users[p.at].role # "admin"
        BY DEF CheckStands
      <3> QED
        BY <1>4, <2>5 DEF row
    <2>8. OwnSession(p, sessions)
      BY <1>1, <2>5 DEF OwnSession, AdminOps
    <2> QED
      BY ONLY IInv, <1>2, <1>4, <2>5, <2>6, <2>7, <2>8, ReadKeeps
  <1> QED
    BY <1>3, <1>4 DEF CheckUser

LEMMA CheckLastAdminKeeps ==
  ASSUME IInv, NEW r \in Requests, CheckLastAdmin(r)
  PROVE  IInv'
  <1> DEFINE q == request[r]
             p == [q EXCEPT !.phase = "write"]
  <1>1. request \in [Requests -> Request] /\ q \in Request /\ RequestSound(q)
    BY DEF IInv, TypeOK, RequestsSound
  <1>2. Reads /\ q.phase = "count" /\ q.op \in {"demote", "delete"}
    BY <1>1 DEF CheckLastAdmin, Reads, RequestSound
  <1>3. CASE End(r)
    BY ONLY IInv, <1>2, <1>3, EndReadKeeps
  <1>4. CASE OtherAdmins(q.at) # {} /\ request' = [request EXCEPT ![r].phase = "write"]
    <2>1. request' = [request EXCEPT ![r] = p]
      BY <1>1, <1>4
    <2>2. p \in Request /\ p.op = q.op /\ p.at = q.at /\ RequestSound(p)
      BY <1>1, <1>2 DEF Request, RequestSound, AdminOps
    <2>3. AnotherAdmin(users, q.at)
      BY <1>4 DEF OtherAdmins, AnotherAdmin, Present, IInv, TypeOK
    <2>4. CheckStands(p, users) /\ OwnSession(p, sessions)
      BY <1>2, <2>2, <2>3 DEF CheckStands, OwnSession
    <2> HIDE DEF p
    <2> QED
      BY ONLY IInv, <1>2, <2>1, <2>2, <2>4, ReadKeeps
  <1> QED
    BY <1>3, <1>4 DEF CheckLastAdmin

LEMMA FailKeeps ==
  ASSUME IInv, NEW r \in Requests, Fail(r)
  PROVE  IInv'
  <1>1. Reads /\ End(r)
    BY DEF Fail, Reads
  <1> QED
    BY ONLY IInv, <1>1, EndReadKeeps

LEMMA InsertSessionKeeps ==
  ASSUME IInv, NEW r \in Requests, InsertSession(r)
  PROVE  IInv'
  <1> DEFINE q == request[r]
             id == NextId(sessions)
             row == users[q.at]
             new == [user |-> q.at, proof |-> IF ProofOf(row) = q.saw
                                              THEN ProofOf(row) ELSE <<Late, Late>>]
  <1>1. CASE End(r) /\ UNCHANGED sessions
    <2>1. Reads
      BY <1>1 DEF InsertSession, Reads
    <2> QED
      BY ONLY IInv, <1>1, <2>1, EndReadKeeps
  <1>2. CASE /\ row # NoRow /\ id <= MaxSession
             /\ sessions' = [sessions EXCEPT ![id] = new]
             /\ EndCrossing(r, Holding(id))
    <2>1. q.at \in UserIds /\ q.saw \in Proof
      BY DEF IInv, RequestsSound, RequestSound, InsertSession, Writes
    <2>2. id \in SessionIds /\ sessions[id] = NoRow
      <3>1. DOMAIN sessions = 1..MaxSession /\ MaxSession \in Nat
        BY AccountsAssumption DEF IInv, TypeOK, SessionIds
      <3>2. id \in Nat \ {0} /\ id \notin Present(sessions)
        BY <3>1, NextIdFree
      <3>3. id \in 1..MaxSession
        BY <1>2, <3>1, <3>2
      <3> QED
        BY <3>1, <3>2, <3>3 DEF Present, SessionIds
    <2>3. users[q.at] \in UserRow
      BY <1>2, <2>1 DEF IInv, TypeOK
    <2>4. new \in SessionRow /\ new.user = q.at
          /\ new.proof \in {<<Late, Late>>, ProofOf(row)}
      <3>1. ProofOf(row) \in Proof
        BY <2>3 DEF ProofOf, Proof, UserRow
      <3> HIDE DEF row
      <3> QED
        BY <2>1, <3>1 DEF SessionRow
    <2>5. UNCHANGED <<users, grants, persons, passwords>>
      BY DEF InsertSession
    <2> HIDE DEF new, id
    <2>6. /\ sessions' \in [SessionIds -> SessionRow \cup {NoRow}]
          /\ \A s \in SessionIds : sessions'[s] = IF s = id THEN new ELSE sessions[s]
      BY <1>2, <2>2, <2>4 DEF IInv, TypeOK
    <2>7. RowsTyped' /\ RowsFollowTheirUser'
      BY <1>2, <2>4, <2>5, <2>6
         DEF IInv, TypeOK, RowsTyped, RowsFollowTheirUser, Present, ProofOf
    <2>8. ASSUME NEW x \in Requests \ {r}, x \notin Holding(id)
          PROVE  CheckStands(request[x], users') /\ OwnSession(request[x], sessions')
      <3>1. CheckStands(request[x], users) /\ OwnSession(request[x], sessions)
            /\ RequestSound(request[x])
        BY DEF IInv, RequestsSound
      <3>2. request[x].op \in {"logout", "revoke"} => request[x].at \in SessionIds \ {id}
        BY <2>8, <3>1 DEF Holding, RequestSound
      <3> QED
        BY <2>5, <2>6, <3>1, <3>2 DEF OwnSession
    <2>9. persons' \in 1..MaxPersons /\ passwords' \in 1..MaxPasswords
      BY <2>5 DEF IInv, TypeOK
    <2> QED
      BY ONLY IInv, <1>2, <2>7, <2>8, <2>9, WriteKeeps
  <1> QED
    BY <1>1, <1>2 DEF InsertSession

\* Taking sessions away disturbs no row and no request.
LEMMA FewerSessions ==
  ASSUME IInv, NEW gone,
         sessions' = [s \in SessionIds |-> IF s \in gone THEN NoRow ELSE sessions[s]]
  PROVE  /\ sessions' \in [SessionIds -> SessionRow \cup {NoRow}]
         /\ Present(sessions') = Present(sessions) \ gone
         /\ \A s \in Present(sessions') : sessions'[s] = sessions[s]
         /\ \A x \in Requests : OwnSession(request[x], sessions')
  <1>1. sessions \in [SessionIds -> SessionRow \cup {NoRow}]
    BY DEF IInv, TypeOK
  <1>2. \A s \in SessionIds : sessions'[s] = IF s \in gone THEN NoRow ELSE sessions[s]
    OBVIOUS
  <1>3. /\ sessions' \in [SessionIds -> SessionRow \cup {NoRow}]
        /\ Present(sessions') = Present(sessions) \ gone
        /\ \A s \in Present(sessions') : sessions'[s] = sessions[s]
    BY <1>1 DEF Present
  <1>4. ASSUME NEW x \in Requests
        PROVE  OwnSession(request[x], sessions')
    BY <1>2 DEF IInv, RequestsSound, RequestSound, OwnSession
  <1> QED
    BY <1>3, <1>4

LEMMA DeleteSessionKeeps ==
  ASSUME IInv, NEW r \in Requests, DeleteSession(r)
  PROVE  IInv'
  <1> DEFINE gone == {request[r].at}
  <1>1. sessions' = [s \in SessionIds |-> IF s \in gone THEN NoRow ELSE sessions[s]]
    BY DEF IInv, TypeOK, DeleteSession
  <1>2. EndCrossing(r, {}) /\ UNCHANGED <<users, grants, persons, passwords>>
    BY DEF DeleteSession, End
  <1> HIDE DEF gone
  <1>3. /\ sessions' \in [SessionIds -> SessionRow \cup {NoRow}]
        /\ Present(sessions') = Present(sessions) \ gone
        /\ \A s \in Present(sessions') : sessions'[s] = sessions[s]
        /\ \A x \in Requests : OwnSession(request[x], sessions')
    BY ONLY IInv, <1>1, FewerSessions
  <1>4. RowsTyped' /\ RowsFollowTheirUser'
    BY <1>2, <1>3 DEF IInv, TypeOK, RowsTyped, RowsFollowTheirUser, ProofOf, Present
  <1>5. \A x \in Requests \ {r} : x \notin {} =>
           CheckStands(request[x], users') /\ OwnSession(request[x], sessions')
    BY <1>2, <1>3 DEF IInv, RequestsSound
  <1>6. persons' \in 1..MaxPersons /\ passwords' \in 1..MaxPasswords
    BY <1>2 DEF IInv, TypeOK
  <1> QED
    BY ONLY IInv, <1>2, <1>4, <1>5, <1>6, WriteKeeps

LEMMA CreateUserKeeps ==
  ASSUME IInv, NEW r \in Requests, CreateUser(r)
  PROVE  IInv'
  <1> DEFINE id == NextId(users)
  <1>1. PICK role \in {"admin", "user"} :
             users' = [users EXCEPT ![id] =
               [person |-> persons + 1, role |-> role, pw |-> 1]]
    BY DEF CreateUser
  <1> DEFINE new == [person |-> persons + 1, role |-> role, pw |-> 1]
  <1>2. id <= MaxUser /\ persons < MaxPersons /\ persons' = persons + 1
        /\ EndCrossing(r, {}) /\ UNCHANGED <<sessions, grants, passwords>>
    BY DEF CreateUser, End
  <1>3. id \in UserIds /\ users[id] = NoRow
    <2>1. DOMAIN users = 1..MaxUser /\ MaxUser \in Nat
      BY AccountsAssumption DEF IInv, TypeOK, UserIds
    <2>2. id \in Nat \ {0} /\ id \notin Present(users)
      BY <2>1, NextIdFree
    <2>3. id \in 1..MaxUser
      BY <1>2, <2>1, <2>2
    <2> QED
      BY <2>1, <2>2, <2>3 DEF Present, UserIds
  <1>4. new \in UserRow /\ new # NoRow /\ persons' \in 1..MaxPersons
        /\ passwords' \in 1..MaxPasswords
    BY <1>2, AccountsAssumption, RowsAreNoNoRow DEF IInv, TypeOK, UserRow
  <1> HIDE DEF id, new
  <1>5. /\ users' \in [UserIds -> UserRow \cup {NoRow}]
        /\ \A u \in UserIds : users'[u] = IF u = id THEN new ELSE users[u]
    BY <1>1, <1>3, <1>4 DEF IInv, TypeOK, new
  <1>6. RowsTyped'
    BY <1>2, <1>3, <1>4, <1>5 DEF IInv, TypeOK, RowsTyped, Present, SessionRow
  <1>7. RowsFollowTheirUser'
    <2>1. \A s \in Present(sessions') :
            sessions'[s].user \in UserIds /\ users'[sessions'[s].user] = users[sessions[s].user]
      BY <1>2, <1>3, <1>5 DEF IInv, TypeOK, Present, SessionRow
    <2>2. \A u \in Present(grants') : users'[u] = users[u]
      BY <1>2, <1>3, <1>5 DEF IInv, TypeOK, Present
    <2> QED
      BY <1>2, <2>1, <2>2 DEF IInv, RowsFollowTheirUser, ProofOf
  <1>8. ASSUME NEW x \in Requests \ {r}
        PROVE  CheckStands(request[x], users') /\ OwnSession(request[x], sessions')
    <2>1. CheckStands(request[x], users) /\ OwnSession(request[x], sessions)
          /\ RequestSound(request[x])
      BY DEF IInv, RequestsSound
    <2>2. request[x].op \in {"demote", "delete"} => request[x].at \in UserIds
      BY <2>1 DEF RequestSound, AdminOps
    <2>3. \A t \in UserIds : AnotherAdmin(users, t) => AnotherAdmin(users', t)
      BY <1>3, <1>5 DEF AnotherAdmin
    <2>4. \A t \in UserIds : users[t] # NoRow => users'[t] = users[t]
      BY <1>3, <1>5
    <2> QED
      BY <1>2, <2>1, <2>2, <2>3, <2>4 DEF CheckStands
  <1>9. \A x \in Requests \ {r} : x \notin {} =>
           CheckStands(request[x], users') /\ OwnSession(request[x], sessions')
    BY <1>8
  <1> QED
    BY ONLY IInv, <1>2, <1>4, <1>6, <1>7, <1>9, WriteKeeps

LEMMA SetGrantsKeeps ==
  ASSUME IInv, NEW r \in Requests, SetGrants(r)
  PROVE  IInv'
  <1> DEFINE q == request[r]
             row == users[q.at]
  <1>1. PICK granted \in {TRUE, FALSE} :
             grants' = [grants EXCEPT ![q.at] =
               IF row = NoRow THEN @
               ELSE IF ~granted THEN NoRow
               ELSE IF row.person = q.saw[1] THEN row.person ELSE Late]
    BY DEF SetGrants
  <1>2. EndCrossing(r, {}) /\ UNCHANGED <<users, sessions, persons, passwords>>
    BY DEF SetGrants, End
  <1>3. q.at \in UserIds
    BY DEF IInv, RequestsSound, RequestSound, SetGrants, Writes, AdminOps
  <1> DEFINE new == IF row = NoRow THEN grants[q.at]
                    ELSE IF ~granted THEN NoRow
                    ELSE IF row.person = q.saw[1] THEN row.person ELSE Late
  <1>4. /\ new \in 0..MaxPersons \cup {NoRow}
        /\ row = NoRow => new = grants[q.at]
        /\ row # NoRow /\ new # NoRow => new \in {Late, row.person}
    <2>1. row \in UserRow \cup {NoRow} /\ grants[q.at] \in 0..MaxPersons \cup {NoRow}
      BY <1>3 DEF IInv, TypeOK
    <2>2. row # NoRow => row.person \in 1..MaxPersons
      BY <2>1 DEF UserRow
    <2> HIDE DEF row
    <2> QED
      BY <2>1, <2>2, AccountsAssumption DEF Late
  <1>5. grants' = [grants EXCEPT ![q.at] = new]
    BY <1>1
  <1> HIDE DEF new
  <1>6. /\ grants' \in [UserIds -> 0..MaxPersons \cup {NoRow}]
        /\ \A u \in UserIds : grants'[u] = IF u = q.at THEN new ELSE grants[u]
    BY <1>3, <1>4, <1>5 DEF IInv, TypeOK
  <1>7. RowsTyped' /\ RowsFollowTheirUser'
    <2>1. \A u \in Present(grants') :
            u \in Present(users) /\ grants'[u] \in {Late, users[u].person}
      BY <1>3, <1>4, <1>6 DEF IInv, TypeOK, RowsFollowTheirUser, Present
    <2> QED
      BY <1>2, <1>6, <2>1
         DEF IInv, TypeOK, RowsTyped, RowsFollowTheirUser, Present, ProofOf
  <1>8. \A x \in Requests \ {r} : x \notin {} =>
           CheckStands(request[x], users') /\ OwnSession(request[x], sessions')
    BY <1>2 DEF IInv, RequestsSound
  <1>9. persons' \in 1..MaxPersons /\ passwords' \in 1..MaxPasswords
    BY <1>2 DEF IInv, TypeOK
  <1> QED
    BY ONLY IInv, <1>2, <1>7, <1>8, <1>9, WriteKeeps

LEMMA DeleteUserKeeps ==
  ASSUME IInv, NEW r \in Requests, DeleteUser(r)
  PROVE  IInv'
  <1> DEFINE q == request[r]
             gone == {s \in SessionIds : sessions[s] # NoRow /\ sessions[s].user = q.at}
  <1>1. sessions' = [s \in SessionIds |-> IF s \in gone THEN NoRow ELSE sessions[s]]
    BY DEF DeleteUser, WithoutSessionsOf
  <1>2. EndCrossing(r, Removing) /\ UNCHANGED <<persons, passwords>>
    BY DEF DeleteUser
  <1>3. q.at \in UserIds
    BY DEF IInv, RequestsSound, RequestSound, DeleteUser, Writes, AdminOps
  <1>4. /\ users' \in [UserIds -> UserRow \cup {NoRow}]
        /\ \A u \in UserIds : users'[u] = IF u = q.at THEN NoRow ELSE users[u]
        /\ grants' \in [UserIds -> 0..MaxPersons \cup {NoRow}]
        /\ \A u \in UserIds : grants'[u] = IF u = q.at THEN NoRow ELSE grants[u]
    BY <1>3 DEF DeleteUser, IInv, TypeOK
  <1>5. \A s \in Present(sessions) \ gone : sessions[s].user \in UserIds \ {q.at}
    BY DEF Present, IInv, TypeOK, SessionRow
  <1> HIDE DEF gone
  <1>6. /\ sessions' \in [SessionIds -> SessionRow \cup {NoRow}]
        /\ Present(sessions') = Present(sessions) \ gone
        /\ \A s \in Present(sessions') : sessions'[s] = sessions[s]
        /\ \A x \in Requests : OwnSession(request[x], sessions')
    BY ONLY IInv, <1>1, FewerSessions
  <1>7. RowsTyped'
    BY <1>4, <1>5, <1>6 DEF IInv, TypeOK, RowsTyped, Present
  <1>8. RowsFollowTheirUser'
    <2>1. \A s \in Present(sessions') :
            users'[sessions'[s].user] = users[sessions[s].user] /\ s \in Present(sessions)
            /\ sessions'[s] = sessions[s]
      BY <1>4, <1>5, <1>6
    <2>2. \A u \in Present(grants') :
            users'[u] = users[u] /\ grants'[u] = grants[u] /\ u \in Present(grants)
      BY <1>4 DEF Present, IInv, TypeOK
    <2> QED
      BY <2>1, <2>2 DEF IInv, RowsFollowTheirUser, ProofOf
  <1>9. \A x \in Requests \ {r} : x \notin Removing =>
           CheckStands(request[x], users') /\ OwnSession(request[x], sessions')
    BY <1>6 DEF Removing, Writes, CheckStands
  <1>10. persons' \in 1..MaxPersons /\ passwords' \in 1..MaxPasswords
    BY <1>2 DEF IInv, TypeOK
  <1> QED
    BY ONLY IInv, <1>2, <1>7, <1>8, <1>9, <1>10, WriteKeeps

LEMMA UpdateUserKeeps ==
  ASSUME IInv, NEW r \in Requests, UpdateUser(r)
  PROVE  IInv'
  <1> DEFINE q == request[r]
  <1>1. /\ EndCrossing(r, Misled(q)) /\ UNCHANGED <<grants, persons>>
        /\ q.op \in {"demote", "promote", "password"} /\ q.phase = "write"
    BY DEF UpdateUser
  <1>2. q.at \in UserIds
    BY <1>1 DEF IInv, RequestsSound, RequestSound, AdminOps
  <1>3. CASE users[q.at] = NoRow /\ users' = users /\ UNCHANGED <<sessions, passwords>>
    <2>1. Reads
      BY <1>1, <1>3 DEF Reads
    <2>2. RowsTyped' /\ RowsFollowTheirUser'
          /\ persons' \in 1..MaxPersons /\ passwords' \in 1..MaxPasswords
      BY ONLY IInv, <2>1, RowsUnchanged
    <2>3. \A x \in Requests \ {r} : x \notin Misled(q) =>
           CheckStands(request[x], users') /\ OwnSession(request[x], sessions')
      BY <1>3 DEF IInv, RequestsSound
    <2> QED
      BY ONLY IInv, <1>1, <2>2, <2>3, WriteKeeps
  <1>4. CASE /\ q.op # "password" /\ users[q.at] # NoRow
             /\ users' = [users EXCEPT ![q.at].role =
                            IF q.op = "demote" THEN "user" ELSE "admin"]
             /\ UNCHANGED <<sessions, passwords>>
    <2> DEFINE role == IF q.op = "demote" THEN "user" ELSE "admin"
               new == [users[q.at] EXCEPT !.role = role]
    <2>1. users[q.at] \in UserRow
      BY <1>2, <1>4 DEF IInv, TypeOK
    <2>2. /\ new \in UserRow /\ new # NoRow /\ new.role = role
          /\ ProofOf(new) = ProofOf(users[q.at]) /\ new.person = users[q.at].person
      <3>1. new \in UserRow
        BY <2>1 DEF UserRow
      <3> QED
        BY <2>1, <3>1, RowsAreNoNoRow DEF UserRow, ProofOf
    <2>3. users' = [users EXCEPT ![q.at] = new]
      BY <1>2, <1>4 DEF IInv, TypeOK
    <2> HIDE DEF new
    <2>4. /\ users' \in [UserIds -> UserRow \cup {NoRow}]
          /\ \A u \in UserIds : users'[u] = IF u = q.at THEN new ELSE users[u]
      BY <1>2, <2>2, <2>3 DEF IInv, TypeOK
    <2>5. \A u \in UserIds : (users'[u] = NoRow <=> users[u] = NoRow)
      BY <1>4, <2>2, <2>4
    <2>6. RowsTyped'
      BY <1>1, <1>4, <2>4, <2>5 DEF IInv, TypeOK, RowsTyped, Present, SessionRow
    <2>7. RowsFollowTheirUser'
      <3>1. \A u \in UserIds : ProofOf(users'[u]) = ProofOf(users[u])
                               /\ users'[u].person = users[u].person
        BY <2>2, <2>4
      <3>2. \A s \in Present(sessions) : sessions[s].user \in UserIds
        BY DEF IInv, TypeOK, Present, SessionRow
      <3>3. Present(grants) \subseteq UserIds
        BY DEF IInv, TypeOK, Present
      <3> QED
        BY <1>1, <1>4, <3>1, <3>2, <3>3 DEF IInv, RowsFollowTheirUser
    <2>8. ASSUME NEW x \in Requests \ {r}, x \notin Misled(q)
          PROVE  CheckStands(request[x], users') /\ OwnSession(request[x], sessions')
      <3>1. CheckStands(request[x], users) /\ OwnSession(request[x], sessions)
            /\ RequestSound(request[x])
        BY DEF IInv, RequestsSound
      <3>2. SUFFICES ASSUME x \in Removing
                     PROVE  CheckStands(request[x], users')
        BY <1>4, <3>1 DEF CheckStands, Removing, Writes
      <3>3. q.op = "promote" /\ request[x].at # q.at
        BY <1>1, <1>4, <2>8, <3>2 DEF Misled
      <3>4. request[x].at \in UserIds
        BY <3>1, <3>2 DEF RequestSound, AdminOps, Removing, Writes
      <3>5. \A t \in UserIds : AnotherAdmin(users, t) => AnotherAdmin(users', t)
        BY <2>2, <2>4, <3>3 DEF AnotherAdmin
      <3>6. users'[request[x].at] = users[request[x].at]
        BY <2>4, <3>3, <3>4
      <3> QED
        BY <3>1, <3>4, <3>5, <3>6 DEF CheckStands
    <2>9. persons' \in 1..MaxPersons /\ passwords' \in 1..MaxPasswords
      BY <1>1, <1>4 DEF IInv, TypeOK
    <2> QED
      BY ONLY IInv, <1>1, <2>6, <2>7, <2>8, <2>9, WriteKeeps
  <1>5. CASE /\ q.op = "password" /\ passwords < MaxPasswords
             /\ passwords' = passwords + 1
             /\ users' = IF users[q.at] # NoRow
                         THEN [users EXCEPT ![q.at].pw = passwords + 1] ELSE users
             /\ sessions' = WithoutSessionsOf(q.at)
    <2> DEFINE new == IF users[q.at] # NoRow
                      THEN [users[q.at] EXCEPT !.pw = passwords + 1] ELSE NoRow
               gone == {s \in SessionIds : sessions[s] # NoRow /\ sessions[s].user = q.at}
    <2>1. persons' \in 1..MaxPersons /\ passwords' \in 1..MaxPasswords
      BY <1>1, <1>5, AccountsAssumption DEF IInv, TypeOK
    <2>2. users[q.at] \in UserRow \cup {NoRow}
      BY <1>2 DEF IInv, TypeOK
    <2>3. /\ new \in UserRow \cup {NoRow}
          /\ new = NoRow <=> users[q.at] = NoRow
          /\ new # NoRow => new.role = users[q.at].role /\ new.person = users[q.at].person
      <3>1. CASE users[q.at] = NoRow
        BY <3>1
      <3>2. CASE users[q.at] # NoRow
        <4>1. users[q.at] \in UserRow /\ passwords + 1 \in 1..MaxPasswords
          BY <1>5, <2>1, <2>2, <3>2
        <4>2. [users[q.at] EXCEPT !.pw = passwords + 1] \in UserRow
          BY <4>1 DEF UserRow
        <4>3. new = [users[q.at] EXCEPT !.pw = passwords + 1]
          BY <3>2
        <4>4. new.role = users[q.at].role /\ new.person = users[q.at].person
          BY <4>1, <4>3 DEF UserRow
        <4> QED
          BY <3>2, <4>2, <4>3, <4>4, RowsAreNoNoRow
      <3> QED
        BY <3>1, <3>2
    <2>4. users' = [users EXCEPT ![q.at] = new]
      BY <1>2, <1>5 DEF IInv, TypeOK
    <2>5. sessions' = [s \in SessionIds |-> IF s \in gone THEN NoRow ELSE sessions[s]]
      BY <1>5 DEF WithoutSessionsOf
    <2> HIDE DEF new
    <2>6. /\ users' \in [UserIds -> UserRow \cup {NoRow}]
          /\ \A u \in UserIds : users'[u] = IF u = q.at THEN new ELSE users[u]
      BY <1>2, <2>3, <2>4 DEF IInv, TypeOK
    <2>7. \A s \in Present(sessions) \ gone : sessions[s].user \in UserIds \ {q.at}
      BY DEF Present, IInv, TypeOK, SessionRow
    <2> HIDE DEF gone
    <2>8. /\ sessions' \in [SessionIds -> SessionRow \cup {NoRow}]
          /\ Present(sessions') = Present(sessions) \ gone
          /\ \A s \in Present(sessions') : sessions'[s] = sessions[s]
          /\ \A x \in Requests : OwnSession(request[x], sessions')
      BY ONLY IInv, <2>5, FewerSessions
    <2>9. \A u \in UserIds : users'[u] = NoRow <=> users[u] = NoRow
      BY <2>3, <2>6
    <2>10. RowsTyped'
      BY <1>1, <2>6, <2>7, <2>8, <2>9 DEF IInv, TypeOK, RowsTyped, Present
    <2>11. RowsFollowTheirUser'
      <3>1. \A s \in Present(sessions') :
              users'[sessions'[s].user] = users[sessions[s].user] /\ s \in Present(sessions)
              /\ sessions'[s] = sessions[s]
        BY <2>6, <2>7, <2>8
      <3>2. \A u \in Present(grants) : u \in UserIds /\ users[u] # NoRow
        BY DEF Present, IInv, TypeOK
      <3>3. \A u \in Present(grants) : users'[u].person = users[u].person
        BY <2>3, <2>6, <3>2
      <3> QED
        BY <1>1, <3>1, <3>3 DEF IInv, RowsFollowTheirUser, ProofOf
    <2>12. ASSUME NEW x \in Requests
           PROVE  CheckStands(request[x], users')
      <3>1. CheckStands(request[x], users) /\ RequestSound(request[x])
        BY DEF IInv, RequestsSound
      <3>2. request[x].op \in {"demote", "delete"} => request[x].at \in UserIds
        BY <3>1 DEF RequestSound, AdminOps
      <3>3. \A u \in UserIds : users[u] # NoRow => users'[u].role = users[u].role
        BY <2>3, <2>6
      <3>4. \A t \in UserIds : AnotherAdmin(users, t) => AnotherAdmin(users', t)
        BY <2>9, <3>3 DEF AnotherAdmin
      <3> QED
        BY <2>9, <3>1, <3>2, <3>3, <3>4 DEF CheckStands
    <2>13. \A x \in Requests \ {r} : x \notin Misled(q) =>
           CheckStands(request[x], users') /\ OwnSession(request[x], sessions')
      BY <2>8, <2>12
    <2> QED
      BY ONLY IInv, <1>1, <2>1, <2>10, <2>11, <2>13, WriteKeeps
  <1> QED
    BY <1>3, <1>4, <1>5 DEF UpdateUser

LEMMA RestartKeeps ==
  ASSUME IInv, Restart
  PROVE  IInv'
  <1>1. request' \in [Requests -> Request] /\ \A r \in Requests : request'[r] = Free
    BY FreeIsSound DEF Restart
  <1>2. RequestsSound'
    BY <1>1, FreeIsSound DEF RequestsSound
  <1>3. CASE UNCHANGED <<users, persons>>
    <2>1. Reads
      BY <1>3 DEF Restart, Reads
    <2>2. RowsTyped' /\ RowsFollowTheirUser'
          /\ persons' \in 1..MaxPersons /\ passwords' \in 1..MaxPasswords
      BY ONLY IInv, <2>1, RowsUnchanged
    <2> QED
      BY <1>1, <1>2, <2>2 DEF IInv, TypeOK, RowsTyped
  <1>4. CASE /\ Present(users) = {} /\ persons < MaxPersons
             /\ users' = [users EXCEPT ![1] =
                  [person |-> persons + 1, role |-> "admin", pw |-> 1]]
             /\ persons' = persons + 1
    <2>1. UNCHANGED <<sessions, grants, passwords>>
      BY DEF Restart
    <2>2. Present(sessions) = {} /\ Present(grants) = {}
      <3>1. \A s \in Present(sessions) : sessions[s].user \in Present(users)
        BY DEF IInv, TypeOK, Present, SessionRow
      <3> QED
        BY <1>4, <3>1 DEF IInv, TypeOK
    <2>3. /\ [person |-> persons + 1, role |-> "admin", pw |-> 1] \in UserRow
          /\ persons' \in 1..MaxPersons /\ passwords' \in 1..MaxPasswords
      BY <1>4, <2>1, AccountsAssumption DEF IInv, TypeOK, UserRow
    <2>4. users' \in [UserIds -> UserRow \cup {NoRow}]
      BY <1>4, <2>3 DEF IInv, TypeOK
    <2>5. RowsTyped' /\ RowsFollowTheirUser'
      BY <2>1, <2>2, <2>4 DEF IInv, TypeOK, RowsTyped, RowsFollowTheirUser, Present
    <2> QED
      BY <1>1, <1>2, <2>3, <2>5 DEF IInv, TypeOK, RowsTyped
  <1> QED
    BY <1>3, <1>4 DEF Restart

-----------------------------------------------------------------------------
(* The theorems.                                                           *)

LEMMA InitSound ==
  ASSUME Init
  PROVE  IInv
  <1> DEFINE first == [person |-> 1, role |-> "admin", pw |-> 1]
  <1>1. first \in UserRow /\ 1 \in UserIds /\ first # NoRow
    BY AccountsAssumption, RowsAreNoNoRow DEF UserRow, UserIds
  <1>2. users = [u \in UserIds |-> IF u = 1 THEN first ELSE NoRow]
    BY DEF Init
  <1> HIDE DEF first
  <1>3. users \in [UserIds -> UserRow \cup {NoRow}]
    BY <1>1, <1>2
  <1>4. Present(sessions) = {} /\ Present(grants) = {}
    BY DEF Init, Present
  <1>5. persons \in 1..MaxPersons /\ passwords \in 1..MaxPasswords
    BY AccountsAssumption DEF Init
  <1>6. TypeOK
    BY <1>3, <1>4, <1>5, FreeIsSound DEF Init, TypeOK
  <1>7. RowsFollowTheirUser
    BY <1>4 DEF RowsFollowTheirUser
  <1>8. RequestsSound
    BY FreeIsSound DEF Init, RequestsSound
  <1> QED
    BY <1>6, <1>7, <1>8 DEF IInv

LEMMA StepKeeps ==
  ASSUME IInv, [Next]_vars
  PROVE  IInv'
  <1>1. CASE Restart
    BY <1>1, RestartKeeps
  <1>2. ASSUME NEW r \in Requests,
               \/ BeginLogin(r) \/ BeginCall(r) \/ CheckOwner(r) \/ CheckUser(r)
               \/ CheckLastAdmin(r) \/ InsertSession(r) \/ DeleteSession(r)
               \/ CreateUser(r) \/ UpdateUser(r) \/ DeleteUser(r) \/ SetGrants(r) \/ Fail(r)
        PROVE  IInv'
    BY <1>2, BeginLoginKeeps, BeginCallKeeps, CheckOwnerKeeps, CheckUserKeeps,
       CheckLastAdminKeeps, InsertSessionKeeps, DeleteSessionKeeps, CreateUserKeeps,
       UpdateUserKeeps, DeleteUserKeeps, SetGrantsKeeps, FailKeeps
  <1>3. CASE UNCHANGED vars
    BY <1>3 DEF vars, IInv, TypeOK, RowsFollowTheirUser, RequestsSound, Present, ProofOf
  <1> QED
    BY <1>1, <1>2, <1>3 DEF Next

\* IInv is an invariant of the accounts: of users, sessions and grants, and of
\* what every request relies on.
THEOREM InvHolds == Spec => []IInv
  BY InitSound, StepKeeps, PTL DEF Spec

\* The tables and the requests keep their types; every session is of a user
\* there is, and so is every grant.
THEOREM TypeCorrect == Spec => []TypeOK
  <1>1. IInv => TypeOK
    BY DEF IInv
  <1> QED
    BY <1>1, InvHolds, PTL

\* However ids of users come back, a session belongs to the person and the
\* password that login verified, and a grant to the person it was made for,
\* except where the row changed between the check and the write (Login,
\* UpdateUser, DeleteUser, setUserLibraries).
THEOREM RowsAreOfTheirUser == Spec => []RowsFollowTheirUser
  <1>1. IInv => RowsFollowTheirUser
    BY DEF IInv
  <1> QED
    BY <1>1, InvHolds, PTL

\* The admins there are survive any request that is not past the check for the
\* last of them.
LEMMA OnlyRemovalsTakeAdmins ==
  ASSUME IInv, [Next]_vars, AdminRemains, ~AdminRemains'
  PROVE  \E r \in Requests :
           \/ UpdateUser(r) /\ request[r].op = "demote"
           \/ DeleteUser(r)
  <1> SUFFICES ASSUME \A r \in Requests :
                        /\ UpdateUser(r) => request[r].op # "demote"
                        /\ ~DeleteUser(r)
               PROVE  FALSE
    OBVIOUS
  <1>1. PICK a \in UserIds : users[a] \in UserRow /\ users[a].role = "admin"
    BY DEF AdminRemains, Present, IInv, TypeOK
  <1>2. users[a] # NoRow
    BY <1>1, RowsAreNoNoRow
  <1>3. ASSUME users' \in [UserIds -> UserRow \cup {NoRow}],
               users'[a] # NoRow, users'[a].role = "admin"
        PROVE  FALSE
    BY <1>3 DEF AdminRemains, Present
  <1>4. users' \in [UserIds -> UserRow \cup {NoRow}]
    BY StepKeeps DEF IInv, TypeOK
  <1>5. ASSUME users' = users
        PROVE  FALSE
    BY <1>1, <1>2, <1>3, <1>4, <1>5
  <1>6. CASE Restart
    <2>1. Present(users) # {}
      BY <1>1, <1>2 DEF Present, IInv, TypeOK
    <2> QED
      BY <1>5, <1>6, <2>1 DEF Restart
  <1>7. ASSUME NEW r \in Requests, CreateUser(r)
        PROVE  FALSE
    <2>1. NextId(users) \notin Present(users)
      BY AccountsAssumption, NextIdFree DEF IInv, TypeOK, UserIds
    <2>2. a # NextId(users)
      BY <1>2, <2>1 DEF Present, IInv, TypeOK
    <2>3. users'[a] = users[a]
      BY <1>7, <2>2 DEF CreateUser, IInv, TypeOK
    <2> QED
      BY <1>1, <1>2, <1>3, <1>4, <2>3
  <1>8. ASSUME NEW r \in Requests, UpdateUser(r)
        PROVE  FALSE
    <2> DEFINE q == request[r]
    <2>1. q.op # "demote"
      BY <1>8
    <2>2. CASE users' = users
      BY <1>5, <2>2
    <2>3. CASE users' = [users EXCEPT ![q.at].role = "admin"]
      <3>1. users'[a] = users[a] \/ users'[a] = [users[a] EXCEPT !.role = "admin"]
        BY <2>3 DEF IInv, TypeOK
      <3>2. users'[a].role = "admin"
        BY <1>1, <3>1 DEF UserRow
      <3>3. [users[a] EXCEPT !.role = "admin"] \in UserRow
        BY <1>1 DEF UserRow
      <3>4. users'[a] # NoRow
        BY <1>2, <3>1, <3>3, RowsAreNoNoRow
      <3> QED
        BY <1>3, <1>4, <3>2, <3>4
    <2>4. CASE /\ passwords < MaxPasswords /\ q.op = "password"
               /\ users' = [users EXCEPT ![q.at].pw = passwords + 1]
      <3>1. users'[a] = users[a] \/ users'[a] = [users[a] EXCEPT !.pw = passwords + 1]
        BY <2>4 DEF IInv, TypeOK
      <3>2. [users[a] EXCEPT !.pw = passwords + 1] \in UserRow
            /\ [users[a] EXCEPT !.pw = passwords + 1].role = "admin"
        BY <1>1, <2>4, AccountsAssumption DEF UserRow, IInv, TypeOK
      <3>3. users'[a] # NoRow /\ users'[a].role = "admin"
        BY <1>1, <1>2, <3>1, <3>2, RowsAreNoNoRow
      <3> QED
        BY <1>3, <1>4, <3>3
    <2> QED
      BY <1>8, <2>1, <2>2, <2>3, <2>4 DEF UpdateUser
  <1>9. ASSUME NEW r \in Requests,
               BeginLogin(r) \/ BeginCall(r) \/ CheckOwner(r) \/ CheckUser(r)
               \/ CheckLastAdmin(r) \/ InsertSession(r) \/ DeleteSession(r)
               \/ SetGrants(r) \/ Fail(r)
        PROVE  FALSE
    <2>1. users' = users
      BY <1>9 DEF BeginLogin, BeginCall, CheckOwner, CheckUser, CheckLastAdmin,
                  InsertSession, DeleteSession, SetGrants, Fail
    <2> QED
      BY <1>5, <2>1
  <1>10. CASE UNCHANGED vars
    BY <1>5, <1>10 DEF vars
  <1> QED
    BY <1>6, <1>7, <1>8, <1>9, <1>10 DEF Next

\* A removal that no other request crossed leaves an admin.
LEMMA RemovalLeavesAnAdmin ==
  ASSUME IInv, AdminRemains, NEW r \in Requests, ~request[r].crossed,
         request[r].op \in {"demote", "delete"}, request[r].phase = "write",
         \A u \in UserIds \ {request[r].at} : users'[u] = users[u],
         DOMAIN users' = UserIds
  PROVE  AdminRemains'
  <1>1. CheckStands(request[r], users)
    BY DEF IInv, RequestsSound
  <1>2. \E u \in UserIds \ {request[r].at} : users[u] # NoRow /\ users[u].role = "admin"
    <2>1. CASE AnotherAdmin(users, request[r].at)
      BY <2>1 DEF AnotherAdmin
    <2>2. CASE users[request[r].at].role # "admin"
      BY <2>2 DEF AdminRemains, Present, IInv, TypeOK
    <2> QED
      BY <1>1, <2>1, <2>2 DEF CheckStands
  <1> QED
    BY <1>2 DEF AdminRemains, Present

\* No operation takes the last admin away, neither a change of role nor a
\* deletion, unless another request overtook it between its check and its write
\* (UpdateUser, DeleteUser, adminCount, ErrLastAdmin).
THEOREM LastAdminLostOnlyByCrossing == Spec => AdminLostOnlyByCrossing
  <1>1. ASSUME IInv, [Next]_vars, AdminRemains, ~AdminRemains'
        PROVE  \E r \in Requests : request[r].crossed /\ request'[r] = Free
    <2>1. PICK r \in Requests :
            \/ UpdateUser(r) /\ request[r].op = "demote"
            \/ DeleteUser(r)
      BY <1>1, OnlyRemovalsTakeAdmins
    <2>2. request'[r] = Free
      BY <2>1 DEF UpdateUser, DeleteUser, EndCrossing
    <2>3. request[r].op \in {"demote", "delete"} /\ request[r].phase = "write"
      BY <2>1 DEF UpdateUser, DeleteUser, Writes
    <2>4. DOMAIN users' = UserIds
      BY <1>1, StepKeeps DEF IInv, TypeOK
    <2>5. \A u \in UserIds \ {request[r].at} : users'[u] = users[u]
      BY <1>1, <2>1 DEF UpdateUser, DeleteUser, IInv, TypeOK
    <2>6. request[r].crossed
      BY <1>1, <2>3, <2>4, <2>5, RemovalLeavesAnAdmin
    <2> QED
      BY <2>2, <2>6
  <1>2. IInv /\ [Next]_vars =>
          [AdminRemains /\ ~AdminRemains' =>
             \E r \in Requests : request[r].crossed /\ request'[r] = Free]_vars
    BY <1>1
  <1> QED
    BY <1>2, InvHolds, PTL DEF Spec, AdminLostOnlyByCrossing

\* A request for a session that ends and takes a session with it took its own:
\* it is the caller's, unless the id had come back meanwhile (DeleteSession,
\* Lookup, Logout).
THEOREM OthersSessionsAreSpared == Spec => OthersSessionsSpared
  <1> DEFINE Spared ==
        \A s \in Present(sessions), r \in Requests :
         /\ request[r].op \in {"logout", "revoke"} /\ request'[r] = Free
         /\ sessions'[s] = NoRow
         => sessions[s].user = request[r].me \/ request[r].crossed
  <1>1. ASSUME IInv, Next,
               NEW s \in Present(sessions), NEW r \in Requests,
               request[r].op \in {"logout", "revoke"}, request'[r] = Free,
               sessions'[s] = NoRow
        PROVE  sessions[s].user = request[r].me \/ request[r].crossed
    <2>1. sessions[s] # NoRow /\ s \in SessionIds /\ request[r] # Free
      BY <1>1 DEF Present, IInv, TypeOK, Free
    <2>2. ASSUME NEW others, NEW x \in Requests, EndCrossing(x, others)
          PROVE  x = r
      BY ONLY <1>1, <2>1, <2>2, EndKeeps
    <2>3. ASSUME NEW x \in Requests, DeleteSession(x)
          PROVE  sessions[s].user = request[r].me \/ request[r].crossed
      <3>1. x = r
        BY <2>2, <2>3 DEF DeleteSession, End
      <3>2. s = request[r].at /\ request[r].phase = "write"
        BY <1>1, <2>1, <2>3, <3>1 DEF DeleteSession, IInv, TypeOK
      <3>3. OwnSession(request[r], sessions)
        BY <1>1 DEF IInv, RequestsSound
      <3> QED
        BY <1>1, <2>1, <3>2, <3>3 DEF OwnSession, IInv, RequestsSound, TypeOK
    <2>4. ASSUME NEW x \in Requests, UpdateUser(x) \/ DeleteUser(x)
          PROVE  FALSE
      <3>1. x = r
        BY <2>2, <2>4 DEF UpdateUser, DeleteUser
      <3> QED
        BY <1>1, <2>4, <3>1 DEF UpdateUser, DeleteUser, Writes
    <2>5. ASSUME NEW x \in Requests, InsertSession(x)
          PROVE  FALSE
      <3>1. CASE EndCrossing(x, {}) \/ EndCrossing(x, Holding(NextId(sessions)))
        <4>1. x = r
          BY <2>2, <3>1
        <4> QED
          BY <1>1, <2>5, <4>1 DEF InsertSession, Writes
      <3> QED
        BY <2>5, <3>1 DEF InsertSession, End
    <2>6. ASSUME sessions' = sessions
          PROVE  FALSE
      BY <1>1, <2>1, <2>6
    <2> QED
      BY <1>1, <2>3, <2>4, <2>5, <2>6
         DEF Next, Restart, BeginLogin, BeginCall, CheckOwner, CheckUser, CheckLastAdmin,
             CreateUser, SetGrants, Fail
  <1>2. IInv /\ [Next]_vars => [Spared]_vars
    BY <1>1
  <1> QED
    BY <1>2, InvHolds, PTL DEF Spec, OthersSessionsSpared

-----------------------------------------------------------------------------
(* The login rate limiter.                                                 *)

LEMMA LesserOfTwo ==
  ASSUME NEW i \in Nat, NEW j \in Nat
  PROVE  /\ Min({i, j}) \in 0..j
         /\ i <= j => Min({i, j}) = i
         /\ j <= i => Min({i, j}) = j
  BY DEF Min

LEMMA OlderKeeps ==
  ASSUME NEW keys, NEW limit \in Nat, NEW limiter \in Limiter(keys, limit)
  PROVE  Older(limiter) \in Limiter(keys, limit)
  <1>1. Min({limiter.gc + 1, Window}) \in 0..Window
    BY LesserOfTwo, LimiterAssumption DEF Limiter
  <1>2. ASSUME NEW b \in [count : 0..limit, age : 0..Oldest]
        PROVE  [b EXCEPT !.age = Min({@ + 1, Oldest})] \in [count : 0..limit, age : 0..Oldest]
    BY LesserOfTwo, LimiterAssumption DEF Oldest
  <1> QED
    BY <1>1, <1>2 DEF Limiter, Older

LEMMA CollectedKeeps ==
  ASSUME NEW keys, NEW limit \in Nat, NEW limiter \in Limiter(keys, limit)
  PROVE  Collected(limiter) \in Limiter(keys, limit)
  BY LimiterAssumption DEF Limiter, Collected

LEMMA AllowKeeps ==
  ASSUME NEW keys, NEW limit \in Nat, NEW limiter \in Limiter(keys, limit), NEW k \in keys
  PROVE  Allow(limiter, k, limit).limiter \in Limiter(keys, limit)
  <1> DEFINE clean == Collected(limiter)
             b == BucketFor(clean, k)
             entry == IF b.count < limit THEN [b EXCEPT !.count = b.count + 1] ELSE b
  <1>1. clean \in Limiter(keys, limit)
    BY CollectedKeeps
  <1>2. b \in [count : 0..limit, age : 0..Oldest]
    BY <1>1, LimiterAssumption DEF Limiter, BucketFor, Oldest
  <1>3. Allow(limiter, k, limit).limiter = [clean EXCEPT !.buckets[k] = entry]
    BY DEF Allow
  <1> HIDE DEF clean, b
  <1>4. entry \in [count : 0..limit, age : 0..Oldest]
    BY <1>2
  <1> HIDE DEF entry
  <1> QED
    BY <1>1, <1>3, <1>4 DEF Limiter

LEMMA ResetKeeps ==
  ASSUME NEW keys, NEW limit \in Nat, NEW limiter \in Limiter(keys, limit), NEW k \in keys
  PROVE  Reset(limiter, k) \in Limiter(keys, limit)
  BY DEF Limiter, Reset

LEMMA CountedKeeps ==
  ASSUME LimiterTypeOK, NEW keys
  PROVE  Counted(keys) \in [Keys -> [0..Window - 1 -> Nat]]
  BY LimiterAssumption DEF LimiterTypeOK, Counted

LEMMA NoLoginIs ==
  NoLogin \in [phase : {"free", "address", "verify"}, name : Names, address : Addresses]
  BY LimiterAssumption DEF NoLogin

LEMMA LimiterInitTyped ==
  LimiterInit => LimiterTypeOK
  BY NoLoginIs, LimiterAssumption
     DEF LimiterInit, LimiterTypeOK, NewLimiter, Never, Limiter, Keys

LEMMA LimiterStepTyped ==
  ASSUME LimiterTypeOK, [LimiterNext]_limiterVars
  PROVE  LimiterTypeOK'
  <1> USE DEF LimiterTypeOK
  <1>1. CASE UNCHANGED limiterVars
    BY <1>1 DEF limiterVars
  <1>2. CASE LimiterTick
    <2>1. byName' \in Limiter(Names, NameLimit) /\ byAddress' \in Limiter(Addresses, AddressLimit)
      BY <1>2, OlderKeeps, LimiterAssumption DEF LimiterTick
    <2>2. ASSUME NEW k \in Keys, NEW t \in 0..Window - 1
          PROVE  (IF t = 0 THEN 0 ELSE admitted[k][t - 1]) \in Nat
      <3>1. t # 0 => t - 1 \in 0..Window - 1
        BY LimiterAssumption
      <3> QED
        BY <3>1
    <2>3. admitted' \in [Keys -> [0..Window - 1 -> Nat]]
      BY <1>2, <2>2 DEF LimiterTick
    <2> QED
      BY <1>2, <2>1, <2>3 DEF LimiterTick
  <1>3. ASSUME NEW r \in Logins, NEW n \in Names, NEW a \in Addresses, AskByName(r, n, a)
        PROVE  LimiterTypeOK'
    <2>1. byName' \in Limiter(Names, NameLimit)
      BY <1>3, AllowKeeps, LimiterAssumption DEF AskByName
    <2>2. admitted' \in [Keys -> [0..Window - 1 -> Nat]]
      BY <1>3, CountedKeeps DEF AskByName
    <2> QED
      BY <1>3, <2>1, <2>2 DEF AskByName
  <1>4. ASSUME NEW r \in Logins, AskByAddress(r)
        PROVE  LimiterTypeOK'
    <2>1. byAddress' \in Limiter(Addresses, AddressLimit)
      BY <1>4, AllowKeeps, LimiterAssumption DEF AskByAddress
    <2>2. admitted' \in [Keys -> [0..Window - 1 -> Nat]]
      BY <1>4, CountedKeeps DEF AskByAddress
    <2> QED
      BY <1>4, <2>1, <2>2, NoLoginIs DEF AskByAddress
  <1>5. ASSUME NEW r \in Logins, WrongPassword(r)
        PROVE  LimiterTypeOK'
    BY <1>5, NoLoginIs DEF WrongPassword
  <1>6. ASSUME NEW r \in Logins, Accepted(r)
        PROVE  LimiterTypeOK'
    <2>1. login[r].name \in Names
      OBVIOUS
    <2>2. byName' \in Limiter(Names, NameLimit)
      BY <1>6, <2>1, ResetKeeps, LimiterAssumption DEF Accepted
    <2>3. admitted' \in [Keys -> [0..Window - 1 -> Nat]]
      BY <1>6, LimiterAssumption DEF Accepted, Never
    <2> QED
      BY <1>6, <2>2, <2>3, NoLoginIs DEF Accepted
  <1> QED
    BY <1>1, <1>2, <1>3, <1>4, <1>5, <1>6 DEF LimiterNext

\* Whatever is asked and forgotten in whatever order, no bucket counts beyond its
\* limit, and no age beyond what the limiter can tell apart (Allow, gc, Reset).
THEOREM LimiterTypeCorrect == LimiterSpec => []LimiterTypeOK
  BY LimiterInitTyped, LimiterStepTyped, PTL DEF LimiterSpec

-----------------------------------------------------------------------------
(* How many attempts a log counts.                                         *)

Log == [0..Window - 1 -> Nat]

\* The log one tick later.
Shifted(log) == [t \in 0..Window - 1 |-> IF t = 0 THEN 0 ELSE log[t - 1]]

\* What Attempts defines recursively exists.
LEMMA UpToExists ==
  ASSUME NEW log \in Log
  PROVE  \E g \in [0..Window -> Nat] :
           \A n \in 0..Window : g[n] = IF n = 0 THEN 0 ELSE g[n - 1] + log[n - 1]
  <1> DEFINE Good(g, m) == \A n \in 0..m : g[n] = IF n = 0 THEN 0 ELSE g[n - 1] + log[n - 1]
             S == {m \in Nat : m <= Window => \E g \in [0..m -> Nat] : Good(g, m)}
  <1>1. 0 \in S
    <2> DEFINE g == [n \in 0..0 |-> 0]
    <2>1. g \in [0..0 -> Nat] /\ Good(g, 0)
      OBVIOUS
    <2> QED
      BY <2>1
  <1>2. ASSUME NEW m \in Nat, m \in S PROVE m + 1 \in S
    <2> SUFFICES ASSUME m + 1 <= Window
                 PROVE  \E g \in [0..m + 1 -> Nat] : Good(g, m + 1)
      BY SMTT(20)
    <2>1. Window \in Nat
      BY LimiterAssumption
    <2>2. PICK g \in [0..m -> Nat] : Good(g, m)
      BY <1>2, <2>1
    <2>3. g[m] \in Nat /\ log[m] \in Nat
      BY <2>1 DEF Log
    <2> DEFINE h == [n \in 0..m + 1 |-> IF n <= m THEN g[n] ELSE g[m] + log[m]]
    <2>4. h \in [0..m + 1 -> Nat]
      BY <2>3
    <2>5. ASSUME NEW n \in 0..m + 1
          PROVE  h[n] = IF n = 0 THEN 0 ELSE h[n - 1] + log[n - 1]
      <3>1. CASE n <= m
        <4>1. n \in 0..m /\ h[n] = g[n]
          BY <3>1
        <4>2. n # 0 => n - 1 \in 0..m + 1 /\ n - 1 <= m /\ h[n - 1] = g[n - 1]
          BY <3>1
        <4>3. g[n] = IF n = 0 THEN 0 ELSE g[n - 1] + log[n - 1]
          BY <2>2, <4>1
        <4> QED
          BY <4>1, <4>2, <4>3
      <3>2. CASE n = m + 1
        BY <3>2
      <3> QED
        BY <3>1, <3>2
    <2> QED
      BY <2>4, <2>5
  <1> HIDE DEF S
  <1>3. Window \in Nat /\ Window \in S
    BY <1>1, <1>2, InEveryNat, LimiterAssumption
  <1> QED
    BY <1>3 DEF S

LEMMA AttemptsIs ==
  ASSUME NEW log \in Log
  PROVE  /\ Attempts(log) \in [0..Window -> Nat]
         /\ Attempts(log)[0] = 0
         /\ \A n \in 0..Window - 1 : Attempts(log)[n + 1] = Attempts(log)[n] + log[n]
  <1> DEFINE F(g) == [n \in 0..Window |-> IF n = 0 THEN 0 ELSE g[n - 1] + log[n - 1]]
  <1>1. PICK g \in [0..Window -> Nat] : g = F(g)
    <2>1. PICK g \in [0..Window -> Nat] :
            \A n \in 0..Window : g[n] = IF n = 0 THEN 0 ELSE g[n - 1] + log[n - 1]
      BY UpToExists
    <2> QED
      BY <2>1
  <1>2. Attempts(log) = CHOOSE f : f = F(f)
    BY DEF Attempts
  <1> HIDE DEF F
  <1>3. Attempts(log) = F(Attempts(log))
    BY <1>1, <1>2
  <1>4. PICK f : f = Attempts(log)
    OBVIOUS
  <1>5. /\ DOMAIN f = 0..Window
        /\ \A n \in 0..Window : f[n] = IF n = 0 THEN 0 ELSE f[n - 1] + log[n - 1]
    BY <1>3, <1>4 DEF F
  <1>6. /\ f[0] = 0
        /\ \A n \in 0..Window - 1 : f[n + 1] = f[n] + log[n]
    <2>1. Window \in Nat
      BY LimiterAssumption
    <2>2. f[0] = 0
      BY <1>5, <2>1
    <2>3. ASSUME NEW n \in 0..Window - 1 PROVE f[n + 1] = f[n] + log[n]
      <3>1. n + 1 \in 0..Window /\ n + 1 # 0 /\ (n + 1) - 1 = n
        BY <2>1
      <3> QED
        BY <1>5, <3>1
    <2> QED
      BY <2>2, <2>3
  <1> DEFINE S == {n \in Nat : n <= Window => f[n] \in Nat}
  <1>7. 0 \in S
    BY <1>6
  <1>8. ASSUME NEW n \in Nat, n \in S PROVE n + 1 \in S
    <2> SUFFICES ASSUME n + 1 <= Window PROVE f[n + 1] \in Nat
      OBVIOUS
    <2>1. n \in 0..Window - 1 /\ f[n] \in Nat
      BY <1>8, LimiterAssumption
    <2>2. log[n] \in Nat /\ f[n + 1] = f[n] + log[n]
      BY <1>6, <2>1 DEF Log
    <2> QED
      BY <2>1, <2>2
  <1>9. \A n \in 0..Window : f[n] \in Nat
    <2>1. \A n \in Nat : n \in S
      <3> HIDE DEF S
      <3> QED
        BY <1>7, <1>8, InEveryNat
    <2> QED
      BY <2>1, LimiterAssumption
  <1>10. f \in [0..Window -> Nat]
    <2>1. f = [n \in 0..Window |-> f[n]]
      BY <1>3, <1>4 DEF F
    <2> QED
      BY <1>9, <2>1
  <1> QED
    BY <1>4, <1>6, <1>10

LEMMA ShiftedAttempts ==
  ASSUME NEW log \in Log
  PROVE  /\ Shifted(log) \in Log
         /\ \A n \in 0..Window - 1 : Attempts(Shifted(log))[n + 1] = Attempts(log)[n]
  <1>1. /\ Window \in Nat \ {0} /\ Shifted(log) \in Log
        /\ Shifted(log)[0] = 0
        /\ \A t \in 0..Window - 2 : Shifted(log)[t + 1] = log[t]
    <2>1. Window \in Nat \ {0}
      BY LimiterAssumption
    <2>2. ASSUME NEW t \in 0..Window - 1
          PROVE  (IF t = 0 THEN 0 ELSE log[t - 1]) \in Nat
      <3>1. t # 0 => t - 1 \in 0..Window - 1
        BY <2>1
      <3> QED
        BY <3>1 DEF Log
    <2>3. Shifted(log) \in Log
      BY <2>2 DEF Shifted, Log
    <2>4. Shifted(log)[0] = 0
      BY <2>1 DEF Shifted
    <2>5. ASSUME NEW t \in 0..Window - 2 PROVE Shifted(log)[t + 1] = log[t]
      <3>1. t + 1 \in 0..Window - 1 /\ t + 1 # 0 /\ (t + 1) - 1 = t
        BY <2>1
      <3> QED
        BY <3>1 DEF Shifted
    <2> QED
      BY <2>1, <2>3, <2>4, <2>5
  <1>2. PICK f, g : f = Attempts(log) /\ g = Attempts(Shifted(log))
    OBVIOUS
  <1>3. /\ f \in [0..Window -> Nat] /\ f[0] = 0
        /\ \A n \in 0..Window - 1 : f[n + 1] = f[n] + log[n]
    BY <1>2, AttemptsIs
  <1>4. /\ g \in [0..Window -> Nat] /\ g[0] = 0
        /\ \A n \in 0..Window - 1 : g[n + 1] = g[n] + Shifted(log)[n]
    BY <1>1, <1>2, AttemptsIs
  <1> DEFINE S == {n \in Nat : n < Window => g[n + 1] = f[n]}
  <1>5. 0 \in S
    <2>1. 0 \in 0..Window - 1
      BY <1>1
    <2>2. g[0 + 1] = g[0] + Shifted(log)[0]
      BY <1>4, <2>1
    <2> QED
      BY <1>1, <1>3, <1>4, <2>2
  <1>6. ASSUME NEW n \in Nat, n \in S PROVE n + 1 \in S
    <2> SUFFICES ASSUME n + 1 < Window PROVE g[(n + 1) + 1] = f[n + 1]
      OBVIOUS
    <2>1. n \in 0..Window - 2 /\ n \in 0..Window - 1 /\ n + 1 \in 0..Window - 1
      BY <1>1
    <2>2. g[n + 1] = f[n]
      BY <1>1, <1>6
    <2>3. g[(n + 1) + 1] = g[n + 1] + Shifted(log)[n + 1]
      BY <1>4, <2>1
    <2>4. Shifted(log)[n + 1] = log[n] /\ f[n + 1] = f[n] + log[n]
      BY <1>1, <1>3, <2>1
    <2> QED
      BY <2>2, <2>3, <2>4
  <1>7. \A n \in Nat : n \in S
    <2> HIDE DEF S
    <2> QED
      BY <1>5, <1>6, InEveryNat
  <1> QED
    BY <1>1, <1>2, <1>7

\* One more attempt, just now.
LEMMA OneMoreAttempt ==
  ASSUME NEW log \in Log, NEW more, more = [log EXCEPT ![0] = @ + 1]
  PROVE  /\ more \in Log
         /\ \A n \in 1..Window : Attempts(more)[n] = Attempts(log)[n] + 1
  <1>1. /\ Window \in Nat \ {0} /\ more \in Log /\ more[0] = log[0] + 1 /\ log[0] \in Nat
        /\ \A t \in 0..Window - 1 : t # 0 => more[t] = log[t]
    BY LimiterAssumption DEF Log
  <1>2. PICK f, g : f = Attempts(log) /\ g = Attempts(more)
    OBVIOUS
  <1>3. /\ f \in [0..Window -> Nat] /\ f[0] = 0
        /\ \A n \in 0..Window - 1 : f[n + 1] = f[n] + log[n]
    BY <1>2, AttemptsIs
  <1>4. /\ g \in [0..Window -> Nat] /\ g[0] = 0
        /\ \A n \in 0..Window - 1 : g[n + 1] = g[n] + more[n]
    BY <1>1, <1>2, AttemptsIs
  <1> DEFINE S == {n \in Nat : n < Window => g[n + 1] = f[n + 1] + 1}
  <1>5. 0 \in S
    <2>1. 0 \in 0..Window - 1
      BY <1>1
    <2>2. g[0 + 1] = g[0] + more[0] /\ f[0 + 1] = f[0] + log[0]
      BY <1>3, <1>4, <2>1
    <2> QED
      BY <1>1, <1>3, <1>4, <2>2
  <1>6. ASSUME NEW n \in Nat, n \in S PROVE n + 1 \in S
    <2> SUFFICES ASSUME n + 1 < Window PROVE g[(n + 1) + 1] = f[(n + 1) + 1] + 1
      OBVIOUS
    <2>1. n + 1 \in 0..Window - 1 /\ n + 1 # 0
      BY <1>1
    <2>2. g[n + 1] = f[n + 1] + 1
      BY <1>1, <1>6
    <2>3. /\ g[(n + 1) + 1] = g[n + 1] + more[n + 1]
          /\ f[(n + 1) + 1] = f[n + 1] + log[n + 1]
          /\ more[n + 1] = log[n + 1]
      BY <1>1, <1>3, <1>4, <2>1
    <2>4. log[n + 1] \in Nat /\ f[n + 1] \in Nat
      BY <1>1, <1>3, <2>1 DEF Log
    <2> QED
      BY <2>2, <2>3, <2>4
  <1>7. \A n \in Nat : n \in S
    <2> HIDE DEF S
    <2> QED
      BY <1>5, <1>6, InEveryNat
  <1>8. ASSUME NEW n \in 1..Window PROVE g[n] = f[n] + 1
    <2>1. n - 1 \in Nat /\ n - 1 < Window /\ (n - 1) + 1 = n
      BY <1>1
    <2>2. n - 1 \in S
      BY <1>7, <2>1
    <2>3. g[(n - 1) + 1] = f[(n - 1) + 1] + 1
      BY <2>1, <2>2
    <2> QED
      BY <2>1, <2>3
  <1> QED
    BY <1>1, <1>2, <1>8

LEMMA NoAttempts ==
  Never \in Log /\ Attempts(Never)[Window] = 0
  <1>1. Never \in Log /\ Window \in Nat /\ \A t \in 0..Window - 1 : Never[t] = 0
    BY LimiterAssumption DEF Never, Log
  <1>2. PICK f : f = Attempts(Never)
    OBVIOUS
  <1>3. f[0] = 0 /\ \A n \in 0..Window - 1 : f[n + 1] = f[n] + Never[n]
    BY <1>1, <1>2, AttemptsIs
  <1> DEFINE S == {n \in Nat : n <= Window => f[n] = 0}
  <1>4. 0 \in S
    BY <1>3
  <1>5. ASSUME NEW n \in Nat, n \in S PROVE n + 1 \in S
    <2> SUFFICES ASSUME n + 1 <= Window PROVE f[n + 1] = 0
      OBVIOUS
    <2>1. n \in 0..Window - 1 /\ f[n] = 0
      BY <1>1, <1>5
    <2> QED
      BY <1>1, <1>3, <2>1
  <1>6. Window \in S
    <2> HIDE DEF S
    <2> QED
      BY <1>1, <1>4, <1>5, InEveryNat
  <1> QED
    BY <1>1, <1>2, <1>6

-----------------------------------------------------------------------------
(* The limiters hold their limit.                                          *)

Bucket(limit) == [count : 0..limit, age : 0..Oldest] \cup {NoBucket}

Expired(b) == b = NoBucket \/ b.age >= Window

\* A bucket counts what came after the attempt that opened it, and until it
\* opens no more than its predecessor's count but one is left in the window.
FewEnough(b, log, limit) ==
    LET upTo == Attempts(log)
    IN  IF Expired(b) THEN upTo[Window] <= limit - 1
        ELSE upTo[b.age] <= b.count - 1 /\ upTo[Window] <= limit - 1 + b.count

LEMMA NoBucketApart ==
  ASSUME NEW limit \in Nat, NEW b \in [count : 0..limit, age : 0..Oldest]
  PROVE  b # NoBucket
  <1>1. b \in [count : Nat, age : Nat]
    BY LimiterAssumption DEF Oldest
  <1> QED
    BY <1>1, LimiterAssumption

OlderBucket(b) ==
    IF b = NoBucket THEN b ELSE [b EXCEPT !.age = Min({@ + 1, Oldest})]

LEMMA OlderFew ==
  ASSUME NEW limit \in Nat \ {0}, NEW b \in Bucket(limit), NEW log \in Log,
         FewEnough(b, log, limit)
  PROVE  FewEnough(OlderBucket(b), Shifted(log), limit)
  <1>1. PICK f, g : f = Attempts(log) /\ g = Attempts(Shifted(log))
    OBVIOUS
  <1>2. /\ Window \in Nat \ {0} /\ Shifted(log) \in Log
        /\ f \in [0..Window -> Nat] /\ g \in [0..Window -> Nat]
        /\ \A n \in 0..Window - 1 : f[n + 1] = f[n] + log[n] /\ log[n] \in Nat
        /\ \A n \in 0..Window - 1 : g[n + 1] = f[n]
    BY <1>1, AttemptsIs, ShiftedAttempts, LimiterAssumption DEF Log
  <1>3. g[Window] <= f[Window] /\ f[Window] \in Nat /\ g[Window] \in Nat
    <2>1. Window - 1 \in 0..Window - 1 /\ (Window - 1) + 1 = Window
      BY <1>2
    <2>2. /\ f[(Window - 1) + 1] = f[Window - 1] + log[Window - 1]
          /\ g[(Window - 1) + 1] = f[Window - 1]
          /\ log[Window - 1] \in Nat /\ f[Window - 1] \in Nat
      BY <1>2, <2>1
    <2> QED
      BY <1>2, <2>1, <2>2
  <1>4. CASE b = NoBucket
    BY <1>1, <1>3, <1>4 DEF FewEnough, OlderBucket, Expired
  <1>5. CASE b # NoBucket
    <2>1. /\ b \in [count : 0..limit, age : 0..Oldest]
          /\ b.age \in Nat /\ b.count \in 0..limit
          /\ Oldest \in Nat /\ Oldest = 2 * Window
      BY <1>2, <1>5 DEF Bucket, Oldest
    <2> DEFINE age == Min({b.age + 1, Oldest})
    <2>2. /\ age \in 0..Oldest
          /\ b.age + 1 <= Oldest => age = b.age + 1
          /\ Oldest <= b.age + 1 => age = Oldest
      <3>1. b.age + 1 \in Nat
        BY <2>1
      <3> QED
        BY <2>1, <3>1, LesserOfTwo
    <2>3. PICK q \in [count : 0..limit, age : 0..Oldest] :
            /\ q = OlderBucket(b) /\ q.count = b.count
            /\ q.age = age
      <3> DEFINE q == [b EXCEPT !.age = age]
      <3>1. q = OlderBucket(b)
        BY <1>5 DEF OlderBucket
      <3> HIDE DEF age
      <3>2. /\ q \in [count : 0..limit, age : 0..Oldest]
            /\ q.count = b.count /\ q.age = age
        BY <2>1, <2>2
      <3> QED
        BY <3>1, <3>2
    <2> HIDE DEF age
    <2>4. q # NoBucket /\ b.age \in Nat /\ b.count \in 0..limit
      BY <2>1, NoBucketApart
    <2>5. CASE b.age >= Window
      <3>1. q.age >= Window
        <4>1. q.age = age /\ Window \in Nat \ {0}
          BY <1>2, <2>3
        <4>2. CASE b.age + 1 <= Oldest
          BY <2>1, <2>2, <2>5, <4>1, <4>2
        <4>3. CASE Oldest <= b.age + 1
          BY <2>1, <2>2, <4>1, <4>3
        <4> QED
          BY <2>1, <4>2, <4>3
      <3>2. f[Window] <= limit - 1
        BY <1>1, <2>5 DEF FewEnough, Expired
      <3> QED
        BY <1>1, <1>3, <2>3, <3>1, <3>2 DEF FewEnough, Expired
    <2>6. CASE b.age < Window
      <3>1. b.age + 1 <= Oldest
        BY <1>2, <2>1, <2>6
      <3>2. q.age = b.age + 1
        BY <2>3, <2>2, <3>1
      <3>3. f[b.age] <= b.count - 1 /\ f[Window] <= limit - 1 + b.count
        BY <1>1, <1>2, <1>5, <2>4, <2>6 DEF FewEnough, Expired
      <3>4. g[b.age + 1] = f[b.age] /\ f[b.age] \in Nat
        BY SMTT(20), <1>2, <2>4, <2>6
      <3>5. CASE b.age + 1 = Window
        <4>1. g[Window] <= limit - 1
          BY <2>4, <3>3, <3>4, <3>5
        <4> QED
          BY <1>1, <1>2, <2>3, <3>2, <3>5, <4>1 DEF FewEnough, Expired
      <3>6. CASE b.age + 1 < Window
        <4>1. ~Expired(q)
          BY <1>2, <2>4, <3>2, <3>6 DEF Expired
        <4>2. g[q.age] <= q.count - 1 /\ g[Window] <= limit - 1 + q.count
          <5>1. q.age = b.age + 1 /\ q.count = b.count
            BY <2>3, <3>2
          <5>2. g[q.age] <= q.count - 1
            BY <3>3, <3>4, <5>1
          <5>3. f[Window] <= limit - 1 + q.count
            BY <3>3, <5>1
          <5>4. q.count \in Nat
            BY <2>4, <5>1
          <5> QED
            BY <1>3, <5>2, <5>3, <5>4
        <4> QED
          BY <1>1, <2>3, <4>1, <4>2 DEF FewEnough
      <3>7. b.age + 1 = Window \/ b.age + 1 < Window
        <4>1. Window \in Nat /\ b.age \in Nat
          BY <1>2, <2>1
        <4> QED
          BY <2>6, <4>1
      <3> QED
        BY <3>5, <3>6, <3>7
    <2> QED
      BY <1>2, <2>4, <2>5, <2>6
  <1> QED
    BY <1>4, <1>5

\* Collecting a bucket leaves no less in the window.
LEMMA CollectedFew ==
  ASSUME NEW keys, NEW limit \in Nat, NEW limiter \in Limiter(keys, limit),
         NEW k \in keys, NEW log, FewEnough(limiter.buckets[k], log, limit)
  PROVE  FewEnough(Collected(limiter).buckets[k], log, limit)
  <1> DEFINE b == limiter.buckets[k]
  <1>1. Collected(limiter).buckets[k] = b
        \/ (Expired(b) /\ Collected(limiter).buckets[k] = NoBucket)
    BY DEF Collected, Limiter, Expired
  <1> QED
    BY <1>1 DEF FewEnough, Expired

\* An attempt is counted where it is let through.
LEMMA AllowFew ==
  ASSUME NEW keys, NEW limit \in Nat \ {0}, NEW limiter \in Limiter(keys, limit),
         NEW k \in keys, NEW log \in Log, FewEnough(limiter.buckets[k], log, limit),
         NEW more, more = [log EXCEPT ![0] = @ + 1],
         NEW asked, asked = Allow(limiter, k, limit)
  PROVE  FewEnough(asked.limiter.buckets[k], IF asked.ok THEN more ELSE log, limit)
  <1> DEFINE clean == Collected(limiter)
             c == clean.buckets[k]
             b == BucketFor(clean, k)
             ok == b.count < limit
             entry == IF ok THEN [b EXCEPT !.count = b.count + 1] ELSE b
  <1>1. clean \in Limiter(keys, limit) /\ FewEnough(c, log, limit)
    BY CollectedKeeps, CollectedFew
  <1>2. c \in Bucket(limit)
    BY <1>1 DEF Limiter, Bucket
  <1>3. b = IF Expired(c) THEN [count |-> 0, age |-> 0] ELSE c
    BY DEF BucketFor, Expired
  <1>4. asked.ok = ok /\ asked.limiter = [clean EXCEPT !.buckets[k] = entry]
    BY DEF Allow
  <1> HIDE DEF clean, b
  <1>5. asked.limiter.buckets[k] = entry
    BY <1>1, <1>4 DEF Limiter
  <1>6. PICK f, g : f = Attempts(log) /\ g = Attempts(more)
    OBVIOUS
  <1>7. /\ Window \in Nat \ {0} /\ more \in Log
        /\ f \in [0..Window -> Nat] /\ g \in [0..Window -> Nat]
        /\ g[0] = 0 /\ \A n \in 1..Window : g[n] = f[n] + 1
    BY <1>6, AttemptsIs, OneMoreAttempt, LimiterAssumption
  <1> HIDE DEF c, entry, ok
  <1>8. CASE Expired(c)
    <2>1. b.count = 0 /\ b.age = 0 /\ b = [count |-> 0, age |-> 0]
      BY <1>3, <1>8
    <2>2. ok
      BY <2>1 DEF ok
    <2>3. entry = [count |-> 1, age |-> 0]
      BY <2>1, <2>2 DEF entry
    <2>4. ~Expired(entry) /\ entry.age = 0 /\ entry.count = 1
      <3>1. entry \in [count : 0..limit, age : 0..Oldest]
        BY <1>7, <2>3 DEF Oldest
      <3> QED
        BY <1>7, <2>3, <3>1, NoBucketApart DEF Expired
    <2>5. f[Window] <= limit - 1
      BY <1>1, <1>6, <1>8 DEF FewEnough
    <2>6. g[0] <= 1 - 1 /\ g[Window] <= limit - 1 + 1
      BY <1>7, <2>5
    <2> QED
      BY <1>4, <1>5, <1>6, <2>2, <2>4, <2>6 DEF FewEnough
  <1>9. CASE ~Expired(c)
    <2>1. /\ c \in [count : 0..limit, age : 0..Oldest] /\ b = c
          /\ c.age \in 0..Window - 1 /\ c.count \in 0..limit
      BY <1>2, <1>3, <1>7, <1>9 DEF Bucket, Expired, Oldest
    <2>2. f[c.age] <= c.count - 1 /\ f[Window] <= limit - 1 + c.count
      BY <1>1, <1>6, <1>9 DEF FewEnough
    <2>3. CASE ok
      <3>1. PICK e \in [count : 0..limit, age : 0..Oldest] :
              e = entry /\ e.count = c.count + 1 /\ e.age = c.age
        <4> DEFINE e == [c EXCEPT !.count = c.count + 1]
        <4>1. /\ e \in [count : 0..limit, age : 0..Oldest]
              /\ e.count = c.count + 1 /\ e.age = c.age
          BY <2>1, <2>3 DEF ok
        <4>2. e = entry
          BY <2>1, <2>3 DEF entry
        <4> QED
          BY <4>1, <4>2
      <3>2. ~Expired(e)
        BY SMTT(20), <1>7, <2>1, <3>1, NoBucketApart DEF Expired
      <3>3. g[e.age] <= e.count - 1
        <4>1. c.age = 0 \/ c.age \in 1..Window
          BY SMTT(20), <1>7, <2>1
        <4>2. c.age \in 0..Window
          BY <1>7, <2>1
        <4>3. f[c.age] \in Nat
          BY <1>7, <4>2
        <4>4. CASE c.age = 0
          BY <1>7, <2>1, <3>1, <4>4
        <4>5. CASE c.age \in 1..Window
          <5>1. g[c.age] = f[c.age] + 1
            BY <1>7, <4>5
          <5> QED
            BY <2>1, <2>2, <3>1, <4>3, <5>1
        <4> QED
          BY <4>1, <4>4, <4>5
      <3>4. g[Window] <= limit - 1 + e.count
        BY SMTT(20), <1>7, <2>1, <2>2, <3>1
      <3> QED
        BY <1>4, <1>5, <1>6, <2>3, <3>1, <3>2, <3>3, <3>4 DEF FewEnough
    <2>4. CASE ~ok
      <3>1. entry = c
        BY <2>1, <2>4 DEF entry
      <3> QED
        BY <1>1, <1>4, <1>5, <2>4, <3>1
    <2> QED
      BY <2>3, <2>4
  <1> QED
    BY <1>8, <1>9

\* The other keys of a limiter that was asked.
LEMMA AllowOthersFew ==
  ASSUME NEW keys, NEW limit \in Nat, NEW limiter \in Limiter(keys, limit),
         NEW k \in keys, NEW j \in keys \ {k}, NEW log,
         FewEnough(limiter.buckets[j], log, limit)
  PROVE  FewEnough(Allow(limiter, k, limit).limiter.buckets[j], log, limit)
  <1>1. PICK clean \in Limiter(keys, limit) : clean = Collected(limiter)
    BY CollectedKeeps
  <1>2. \E e : Allow(limiter, k, limit).limiter = [clean EXCEPT !.buckets[k] = e]
    BY <1>1 DEF Allow
  <1>3. Allow(limiter, k, limit).limiter.buckets[j] = clean.buckets[j]
    BY <1>1, <1>2 DEF Limiter
  <1> QED
    BY <1>1, <1>3, CollectedFew

\* What is left of all that was let through is few enough for every bucket.
NamesFew ==
    \A n \in Names : FewEnough(byName.buckets[n], admitted[<<"name", n>>], NameLimit)
AddressesFew ==
    \A a \in Addresses :
      FewEnough(byAddress.buckets[a], admitted[<<"address", a>>], AddressLimit)

LimiterInv == LimiterTypeOK /\ NamesFew /\ AddressesFew

LEMMA KeyIs ==
  /\ \A n \in Names : <<"name", n>> \in Keys
  /\ \A a \in Addresses : <<"address", a>> \in Keys
  /\ \A n \in Names, a \in Addresses : <<"name", n>> # <<"address", a>>
  BY DEF Keys

LEMMA InitFew ==
  LimiterInit => LimiterInv
  <1> SUFFICES ASSUME LimiterInit PROVE NamesFew /\ AddressesFew
    BY LimiterInitTyped DEF LimiterInv
  <1>1. \A limit \in Nat \ {0} : FewEnough(NoBucket, Never, limit)
    BY NoAttempts DEF FewEnough, Expired
  <1>2. \A n \in Names : byName.buckets[n] = NoBucket /\ admitted[<<"name", n>>] = Never
    BY KeyIs DEF LimiterInit, NewLimiter
  <1>3. \A a \in Addresses : byAddress.buckets[a] = NoBucket
                             /\ admitted[<<"address", a>>] = Never
    BY KeyIs DEF LimiterInit, NewLimiter
  <1> QED
    BY <1>1, <1>2, <1>3, LimiterAssumption DEF NamesFew, AddressesFew

LEMMA TickFew ==
  ASSUME LimiterInv, LimiterTick
  PROVE  NamesFew' /\ AddressesFew'
  <1>1. /\ \A k \in Keys : admitted[k] \in Log /\ admitted'[k] = Shifted(admitted[k])
        /\ NameLimit \in Nat \ {0} /\ AddressLimit \in Nat \ {0}
    BY LimiterAssumption DEF LimiterTick, LimiterInv, LimiterTypeOK, Log, Shifted
  <1>2. ASSUME NEW n \in Names
        PROVE  /\ byName.buckets[n] \in Bucket(NameLimit)
               /\ byName'.buckets[n] = OlderBucket(byName.buckets[n])
    BY DEF LimiterTick, Older, OlderBucket, LimiterInv, LimiterTypeOK, Limiter, Bucket
  <1>3. ASSUME NEW a \in Addresses
        PROVE  /\ byAddress.buckets[a] \in Bucket(AddressLimit)
               /\ byAddress'.buckets[a] = OlderBucket(byAddress.buckets[a])
    BY DEF LimiterTick, Older, OlderBucket, LimiterInv, LimiterTypeOK, Limiter, Bucket
  <1>4. NamesFew'
    BY <1>1, <1>2, KeyIs, OlderFew DEF NamesFew, LimiterInv
  <1>5. AddressesFew'
    BY <1>1, <1>3, KeyIs, OlderFew DEF AddressesFew, LimiterInv
  <1> QED
    BY <1>4, <1>5

LEMMA AskByNameFew ==
  ASSUME LimiterInv, NEW r \in Logins, NEW n \in Names, NEW a \in Addresses,
         AskByName(r, n, a)
  PROVE  NamesFew' /\ AddressesFew'
  <1>1. /\ byName \in Limiter(Names, NameLimit) /\ NameLimit \in Nat \ {0}
        /\ \A k \in Keys : admitted[k] \in Log
    BY LimiterAssumption DEF LimiterInv, LimiterTypeOK, Log
  <1>2. PICK asked : asked = Allow(byName, n, NameLimit)
    OBVIOUS
  <1>3. /\ byName' = asked.limiter /\ byAddress' = byAddress
        /\ admitted' = Counted(IF asked.ok THEN {<<"name", n>>} ELSE {})
    BY <1>2 DEF AskByName
  <1>4. /\ admitted'[<<"name", n>>] =
             IF asked.ok THEN [admitted[<<"name", n>>] EXCEPT ![0] = @ + 1]
             ELSE admitted[<<"name", n>>]
        /\ \A k \in Keys \ {<<"name", n>>} : admitted'[k] = admitted[k]
    BY <1>3, KeyIs DEF Counted
  <1>5. ASSUME NEW m \in Names
        PROVE  FewEnough(byName'.buckets[m], admitted'[<<"name", m>>], NameLimit)
    <2>1. FewEnough(byName.buckets[m], admitted[<<"name", m>>], NameLimit)
      BY DEF LimiterInv, NamesFew
    <2>2. CASE m = n
      <3>1. admitted[<<"name", n>>] \in Log
        BY <1>1, KeyIs
      <3> QED
        BY <1>1, <1>2, <1>3, <1>4, <2>1, <2>2, <3>1, AllowFew
    <2>3. CASE m # n
      <3>1. <<"name", m>> \in Keys \ {<<"name", n>>}
        BY <2>3, KeyIs
      <3> QED
        BY <1>1, <1>2, <1>3, <1>4, <2>1, <2>3, <3>1, AllowOthersFew
    <2> QED
      BY <2>2, <2>3
  <1>6. \A b \in Addresses : admitted'[<<"address", b>>] = admitted[<<"address", b>>]
    BY <1>4, KeyIs
  <1> QED
    BY <1>3, <1>5, <1>6 DEF NamesFew, AddressesFew, LimiterInv

LEMMA AskByAddressFew ==
  ASSUME LimiterInv, NEW r \in Logins, AskByAddress(r)
  PROVE  NamesFew' /\ AddressesFew'
  <1>1. /\ byAddress \in Limiter(Addresses, AddressLimit) /\ AddressLimit \in Nat \ {0}
        /\ \A k \in Keys : admitted[k] \in Log
    BY LimiterAssumption DEF LimiterInv, LimiterTypeOK, Log
  <1>2. PICK a \in Addresses : a = login[r].address
    BY DEF LimiterInv, LimiterTypeOK
  <1>3. PICK asked : asked = Allow(byAddress, a, AddressLimit)
    OBVIOUS
  <1>4. /\ byAddress' = asked.limiter /\ byName' = byName
        /\ admitted' = Counted(IF asked.ok THEN {<<"address", a>>} ELSE {})
    BY <1>2, <1>3 DEF AskByAddress
  <1>5. /\ admitted'[<<"address", a>>] =
             IF asked.ok THEN [admitted[<<"address", a>>] EXCEPT ![0] = @ + 1]
             ELSE admitted[<<"address", a>>]
        /\ \A k \in Keys \ {<<"address", a>>} : admitted'[k] = admitted[k]
    BY <1>4, KeyIs DEF Counted
  <1>6. ASSUME NEW b \in Addresses
        PROVE  FewEnough(byAddress'.buckets[b], admitted'[<<"address", b>>], AddressLimit)
    <2>1. FewEnough(byAddress.buckets[b], admitted[<<"address", b>>], AddressLimit)
      BY DEF LimiterInv, AddressesFew
    <2>2. CASE b = a
      <3>1. admitted[<<"address", a>>] \in Log
        BY <1>1, KeyIs
      <3> QED
        BY <1>1, <1>3, <1>4, <1>5, <2>1, <2>2, <3>1, AllowFew
    <2>3. CASE b # a
      <3>1. <<"address", b>> \in Keys \ {<<"address", a>>}
        BY <2>3, KeyIs
      <3> QED
        BY <1>1, <1>3, <1>4, <1>5, <2>1, <2>3, <3>1, AllowOthersFew
    <2> QED
      BY <2>2, <2>3
  <1>7. \A n \in Names : admitted'[<<"name", n>>] = admitted[<<"name", n>>]
    BY <1>5, KeyIs
  <1> QED
    BY <1>4, <1>6, <1>7 DEF NamesFew, AddressesFew, LimiterInv

\* A name that is forgotten starts anew.
LEMMA AcceptedFew ==
  ASSUME LimiterInv, NEW r \in Logins, Accepted(r)
  PROVE  NamesFew' /\ AddressesFew'
  <1>1. PICK n \in Names : n = login[r].name
    BY DEF LimiterInv, LimiterTypeOK
  <1>2. /\ byName' = [byName EXCEPT !.buckets[n] = NoBucket] /\ byAddress' = byAddress
        /\ admitted' = [admitted EXCEPT ![<<"name", n>>] = Never]
    BY <1>1 DEF Accepted, Reset
  <1>3. /\ byName'.buckets[n] = NoBucket
        /\ \A m \in Names \ {n} : byName'.buckets[m] = byName.buckets[m]
    BY <1>2 DEF LimiterInv, LimiterTypeOK, Limiter
  <1>4. /\ admitted'[<<"name", n>>] = Never
        /\ \A k \in Keys \ {<<"name", n>>} : admitted'[k] = admitted[k]
    BY <1>2, KeyIs DEF LimiterInv, LimiterTypeOK
  <1>5. FewEnough(NoBucket, Never, NameLimit)
    BY NoAttempts, LimiterAssumption DEF FewEnough, Expired
  <1>6. \A m \in Names \ {n} : admitted'[<<"name", m>>] = admitted[<<"name", m>>]
    BY <1>4, KeyIs
  <1>7. \A b \in Addresses : admitted'[<<"address", b>>] = admitted[<<"address", b>>]
    BY <1>4, KeyIs
  <1> QED
    BY <1>2, <1>3, <1>4, <1>5, <1>6, <1>7 DEF NamesFew, AddressesFew, LimiterInv

LEMMA LimiterStepFew ==
  ASSUME LimiterInv, [LimiterNext]_limiterVars
  PROVE  LimiterInv'
  <1>1. LimiterTypeOK'
    BY LimiterStepTyped DEF LimiterInv
  <1>2. CASE UNCHANGED limiterVars
    BY <1>1, <1>2 DEF limiterVars, LimiterInv, NamesFew, AddressesFew
  <1>3. CASE LimiterTick
    BY <1>1, <1>3, TickFew DEF LimiterInv
  <1>4. ASSUME NEW r \in Logins, NEW n \in Names, NEW a \in Addresses, AskByName(r, n, a)
        PROVE  LimiterInv'
    BY <1>1, <1>4, AskByNameFew DEF LimiterInv
  <1>5. ASSUME NEW r \in Logins, AskByAddress(r) PROVE LimiterInv'
    BY <1>1, <1>5, AskByAddressFew DEF LimiterInv
  <1>6. ASSUME NEW r \in Logins, WrongPassword(r) PROVE LimiterInv'
    BY <1>1, <1>6 DEF WrongPassword, LimiterInv, NamesFew, AddressesFew
  <1>7. ASSUME NEW r \in Logins, Accepted(r) PROVE LimiterInv'
    BY <1>1, <1>7, AcceptedFew DEF LimiterInv
  <1> QED
    BY <1>2, <1>3, <1>4, <1>5, <1>6, <1>7 DEF LimiterNext

LEMMA FewIsBelow ==
  ASSUME NEW limit \in Nat \ {0}, NEW b \in Bucket(limit), NEW log \in Log,
         FewEnough(b, log, limit)
  PROVE  Attempts(log)[Window] < 2 * limit
  <1>1. Attempts(log)[Window] \in Nat
    <2>1. Window \in 0..Window
      BY LimiterAssumption
    <2> QED
      BY <2>1, AttemptsIs
  <1>2. CASE Expired(b)
    BY <1>1, <1>2 DEF FewEnough
  <1>3. CASE ~Expired(b)
    <2>1. b.count \in 0..limit
      BY <1>3 DEF Bucket, Expired
    <2> QED
      BY <1>1, <1>3, <2>1 DEF FewEnough
  <1> QED
    BY <1>2, <1>3

\* In no stretch of time as long as the window does a limiter let through as
\* much as twice its limit, for any limits and any window, however the requests
\* interleave and whatever is refused, collected or forgotten (Allow, gc, Reset,
\* login).
THEOREM LimitIsHeld == LimiterSpec => []LimitHolds
  <1>1. LimiterInv => LimitHolds
    <2> SUFFICES ASSUME LimiterInv PROVE LimitHolds
      OBVIOUS
    <2>1. \A k \in Keys : admitted[k] \in Log
      BY DEF LimiterInv, LimiterTypeOK, Log
    <2>2. ASSUME NEW n \in Names PROVE InWindow(<<"name", n>>) < 2 * NameLimit
      <3>1. byName.buckets[n] \in Bucket(NameLimit)
        BY DEF LimiterInv, LimiterTypeOK, Limiter, Bucket
      <3>2. FewEnough(byName.buckets[n], admitted[<<"name", n>>], NameLimit)
        BY DEF LimiterInv, NamesFew
      <3> QED
        BY <2>1, <3>1, <3>2, KeyIs, FewIsBelow, LimiterAssumption DEF InWindow
    <2>3. ASSUME NEW a \in Addresses PROVE InWindow(<<"address", a>>) < 2 * AddressLimit
      <3>1. byAddress.buckets[a] \in Bucket(AddressLimit)
        BY DEF LimiterInv, LimiterTypeOK, Limiter, Bucket
      <3>2. FewEnough(byAddress.buckets[a], admitted[<<"address", a>>], AddressLimit)
        BY DEF LimiterInv, AddressesFew
      <3> QED
        BY <2>1, <3>1, <3>2, KeyIs, FewIsBelow, LimiterAssumption DEF InWindow
    <2> QED
      BY <2>2, <2>3 DEF LimitHolds
  <1> QED
    BY <1>1, InitFew, LimiterStepFew, PTL DEF LimiterSpec

\* Side by side in one server neither disturbs the other: both keep their types
\* (MCAccounts's specification, for every value of its constants).
THEOREM MCTypeCorrect == MCSpec => []MCTypeOK
  <1>1. MCInit => IInv /\ LimiterTypeOK
    BY InitSound, LimiterInitTyped DEF MCInit
  <1>2. ASSUME IInv /\ LimiterTypeOK, [MCNext]_<<part, vars, limiterVars>>
        PROVE  (IInv /\ LimiterTypeOK)'
    <2>1. [Next]_vars /\ [LimiterNext]_limiterVars
      BY <1>2 DEF MCNext
    <2> QED
      BY <1>2, <2>1, StepKeeps, LimiterStepTyped
  <1>3. IInv /\ LimiterTypeOK => MCTypeOK
    BY DEF MCTypeOK, IInv
  <1> QED
    BY <1>1, <1>2, <1>3, PTL DEF MCSpec
=============================================================================
