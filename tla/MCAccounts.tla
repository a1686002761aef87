----------------------------- MODULE MCAccounts -----------------------------
(***************************************************************************)
(* Small instances of Accounts and LoginLimiter for TLC.  The two share no *)
(* state: a behaviour is one of the one or of the other.                   *)
(***************************************************************************)
EXTENDS Accounts, LoginLimiter, TLC

VARIABLE part

RequestSymmetry == Permutations(Requests)

MCInit == part \in {"accounts", "limiter"} /\ Init /\ LimiterInit

MCNext ==
    /\ UNCHANGED part
    /\ \/ part = "accounts" /\ Next /\ UNCHANGED limiterVars
       \/ part = "limiter" /\ LimiterNext /\ UNCHANGED vars

\* Type correctness of both.
MCTypeOK == TypeOK /\ LimiterTypeOK

MCSpec == MCInit /\ [][MCNext]_<<part, vars, limiterVars>>
=============================================================================
