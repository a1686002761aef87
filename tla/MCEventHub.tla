----------------------------- MODULE MCEventHub -----------------------------
(***************************************************************************)
(* Small instances of EventHub for TLC.  A behaviour is one of a single    *)
(* device, with overlapping streams and a restart, or one of two devices   *)
(* of a user in one run of the server, with a stream each.                 *)
(***************************************************************************)
EXTENDS EventHub, TLC

CONSTANTS c1, c2, u1

SameUser == c1 :> u1 @@ c2 :> u1

VARIABLE alone

\* The other device of a lone one never connects; it only shares its fate
\* when all the sessions of the user go.
Bounds ==
    /\ alone => /\ drops + life <= MaxDrops + 1
                /\ \A k \in Slots : stream[c2][k].phase = "free"
                /\ \/ session[c2] = "valid" /\ session[c1] # "purged"
                   \/ session[c2] = session[c1] /\ session[c2] # "deleted"
    /\ ~alone => /\ life = 1 /\ lastID < MaxId /\ drops < MaxDrops
                 /\ \A c \in Clients : stream[c][2].phase = "free"

MCInit == alone \in BOOLEAN /\ Init

MCNext == UNCHANGED alone /\ Next /\ Bounds'

\* As Fairness, but a device that is not there does not connect.
MCFairness ==
    \A c \in Clients :
        /\ WF_vars((alone => c = c1) /\ Connect(c))
        /\ \A k \in Slots :
             /\ WF_vars(Subscribe(c, k))
             /\ WF_vars(WriteFrame(c, k))
             /\ WF_vars(EndOfStream(c, k))
             /\ WF_vars(Unsubscribe(c, k))

MCSpec == MCInit /\ [][MCNext]_<<vars, alone>> /\ MCFairness
=============================================================================
