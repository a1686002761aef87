---------------------------- MODULE LoginLimiter ----------------------------
(***************************************************************************)
(* The login rate limiter (internal/auth/ratelimit.go) as the login        *)
(* handler uses it (internal/api/auth_handlers.go): one limiter by user    *)
(* name, one by client address, asked one after the other.                 *)
(*                                                                         *)
(* A limiter only compares ages, so times are ages in ticks: how long ago  *)
(* a bucket was started, how long ago the table was cleaned.  An age       *)
(* beyond two windows counts as two windows.                               *)
(***************************************************************************)
EXTENDS Integers, FiniteSetsExt

CONSTANTS
    Names, Addresses,       \* user names and client addresses
    Logins,                 \* login requests in hand at a time
    NoBucket,
    NameLimit, AddressLimit,
    Window                  \* in ticks

ASSUME LimiterAssumption ==
    /\ Names # {} /\ Addresses # {}
    /\ {NameLimit, AddressLimit, Window} \subseteq Nat \ {0}
    /\ NoBucket \notin [count : Nat, age : Nat]

VARIABLES
    byName, byAddress,  \* the two limiters: buckets and the age of the last gc
    login,              \* the login handler of each request
    admitted            \* history: how many attempts the limiters let through
                        \* in each of the last ticks, per address, and per name
                        \* since it was last forgotten

limiterVars == <<byName, byAddress, login, admitted>>

Keys == ({"name"} \X Names) \cup ({"address"} \X Addresses)
Oldest == 2 * Window

Limiter(keys, limit) ==
    [buckets : [keys -> [count : 0..limit, age : 0..Oldest] \cup {NoBucket}],
     gc : 0..Window]

LimiterTypeOK ==
    /\ byName \in Limiter(Names, NameLimit)
    /\ byAddress \in Limiter(Addresses, AddressLimit)
    /\ login \in [Logins -> [phase : {"free", "address", "verify"},
                             name : Names, address : Addresses]]
    /\ admitted \in [Keys -> [0..Window - 1 -> Nat]]

NewLimiter(keys) == [buckets |-> [k \in keys |-> NoBucket], gc |-> Window]
NoLogin == [phase |-> "free", name |-> CHOOSE n \in Names : TRUE,
            address |-> CHOOSE a \in Addresses : TRUE]
Never == [t \in 0..Window - 1 |-> 0]

LimiterInit ==
    /\ byName = NewLimiter(Names) /\ byAddress = NewLimiter(Addresses)
    /\ login = [r \in Logins |-> NoLogin]
    /\ admitted = [k \in Keys |-> Never]

-----------------------------------------------------------------------------

\* gc, at most once per window.
Collected(limiter) ==
    IF limiter.gc < Window THEN limiter
    ELSE [gc |-> 0,
          buckets |-> [k \in DOMAIN limiter.buckets |->
             LET b == limiter.buckets[k]
             IN  IF b # NoBucket /\ b.age >= Window THEN NoBucket ELSE b]]

\* (Operators whose name starts with "Slip" are the mistakes the model checker
\* is asked to notice: no action uses them.)
\* The start of an expired bucket is kept.
SlipBucketFor(limiter, key) ==
    LET b == limiter.buckets[key]
    IN  IF b = NoBucket THEN [count |-> 0, age |-> 0]
        ELSE IF b.age >= Window THEN [b EXCEPT !.count = 0] ELSE b

\* The bucket an attempt is counted in.
BucketFor(limiter, key) ==
    LET b == limiter.buckets[key]
    IN  IF b = NoBucket \/ b.age >= Window THEN [count |-> 0, age |-> 0] ELSE b

\* Allow: the limiter after one more attempt, and whether it may go on.
Allow(limiter, key, limit) ==
    LET clean == Collected(limiter)
        b == BucketFor(clean, key)
        ok == b.count < limit
    IN  [ok |-> ok,
         limiter |-> [clean EXCEPT !.buckets[key] =
                        IF ok THEN [b EXCEPT !.count = b.count + 1] ELSE b]]

Counted(keys) == [k \in Keys |-> IF k \in keys THEN [admitted[k] EXCEPT ![0] = @ + 1]
                                 ELSE admitted[k]]

Reset(limiter, key) == [limiter EXCEPT !.buckets[key] = NoBucket]

\* An attempt that is refused goes no further.
AskByName(r, n, a) ==
    LET asked == Allow(byName, n, NameLimit)
    IN  /\ login[r].phase = "free"
        /\ byName' = asked.limiter
        /\ login' = [login EXCEPT ![r] =
             IF asked.ok THEN [phase |-> "address", name |-> n, address |-> a] ELSE @]
        /\ admitted' = Counted(IF asked.ok THEN {<<"name", n>>} ELSE {})
        /\ UNCHANGED byAddress

AskByAddress(r) ==
    LET a == login[r].address
        asked == Allow(byAddress, a, AddressLimit)
    IN  /\ login[r].phase = "address"
        /\ byAddress' = asked.limiter
        /\ login' = [login EXCEPT ![r] =
             IF asked.ok THEN [@ EXCEPT !.phase = "verify"] ELSE NoLogin]
        /\ admitted' = Counted(IF asked.ok THEN {<<"address", a>>} ELSE {})
        /\ UNCHANGED byName

WrongPassword(r) ==
    /\ login[r].phase = "verify"
    /\ login' = [login EXCEPT ![r] = NoLogin]
    /\ UNCHANGED <<byName, byAddress, admitted>>

\* Anything but wrong credentials forgets the name, an internal error too.
Accepted(r) ==
    /\ login[r].phase = "verify"
    /\ byName' = Reset(byName, login[r].name)
    /\ admitted' = [admitted EXCEPT ![<<"name", login[r].name>>] = Never]
    /\ login' = [login EXCEPT ![r] = NoLogin]
    /\ UNCHANGED byAddress

Older(limiter) ==
    [gc |-> Min({limiter.gc + 1, Window}),
     buckets |-> [k \in DOMAIN limiter.buckets |->
        LET b == limiter.buckets[k]
        IN  IF b = NoBucket THEN b ELSE [b EXCEPT !.age = Min({@ + 1, Oldest})]]]

LimiterTick ==
    /\ byName' = Older(byName) /\ byAddress' = Older(byAddress)
    /\ admitted' = [k \in Keys |-> [t \in 0..Window - 1 |->
                                      IF t = 0 THEN 0 ELSE admitted[k][t - 1]]]
    /\ UNCHANGED login

LimiterNext ==
    \/ LimiterTick
    \/ \E r \in Logins :
          \/ \E n \in Names, a \in Addresses : AskByName(r, n, a)
          \/ AskByAddress(r) \/ WrongPassword(r) \/ Accepted(r)

LimiterSpec == LimiterInit /\ [][LimiterNext]_limiterVars

-----------------------------------------------------------------------------
(* Properties.                                                             *)

\* How many attempts a log counts in the last n ticks, for each n.
Attempts(log) ==
    LET upTo[n \in 0..Window] == IF n = 0 THEN 0 ELSE upTo[n - 1] + log[n - 1]
    IN  upTo

InWindow(k) == Attempts(admitted[k])[Window]

\* In no stretch of time as long as the window does a limiter let through more
\* attempts than one short of twice its limit: its windows are fixed, so the
\* end of one and the start of the next add up, but the attempt that opened the
\* first is over by then.  Concurrent logins, refusals by the other limiter and
\* names that are forgotten do not change that (Allow, login).
LimitHolds ==
    /\ \A n \in Names : InWindow(<<"name", n>>) < 2 * NameLimit
    /\ \A a \in Addresses : InWindow(<<"address", a>>) < 2 * AddressLimit

=============================================================================
