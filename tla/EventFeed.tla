----------------------------- MODULE EventFeed ------------------------------
(***************************************************************************)
(* What the event hub and its clients promise together, whatever becomes   *)
(* of buffers, queues, streams and connections: a client that has begun to *)
(* listen gets every event issued to it from then on, in order, or is told *)
(* to refetch instead, which excuses what it is owed.  A client that was   *)
(* mistaken for one of the present run of the server is excepted until it  *)
(* is told to refetch.  EventHub implements this.                          *)
(***************************************************************************)
CONSTANTS
    Clients,
    Events,
    NoEvent,        \* nothing received yet
    Newer(_, _)     \* issued later

VARIABLES
    last,       \* of each client: the event it received last
    owed,       \* events issued to it since, neither received nor excused
    excepted,   \* clients this promise does not hold for, at present
    listening   \* clients that mean to go on

feedVars == <<last, owed, excepted, listening>>

FeedInit ==
    /\ last = [c \in Clients |-> NoEvent]
    /\ owed = [c \in Clients |-> {}]
    /\ excepted = [c \in Clients |-> FALSE]
    /\ listening = [c \in Clients |-> TRUE]

Issue(e, to) ==
    /\ \A c \in to : /\ last[c] # NoEvent
                     /\ \A f \in owed[c] \cup {last[c]} : Newer(e, f)
    /\ owed' = [c \in Clients |-> IF c \in to THEN owed[c] \cup {e} ELSE owed[c]]
    /\ UNCHANGED <<last, excepted, listening>>

\* Nothing owed is skipped.  A copy of an event already excused may come late.
Deliver(c, e) ==
    /\ last[c] # NoEvent => Newer(e, last[c])
    /\ ~excepted[c] => \A f \in owed[c] \ {e} : Newer(f, e)
    /\ last' = [last EXCEPT ![c] = e]
    /\ owed' = [owed EXCEPT ![c] = @ \ {e}]
    /\ UNCHANGED <<excepted, listening>>

Refetch(c) ==
    /\ owed' = [owed EXCEPT ![c] = {}]
    /\ excepted' = [excepted EXCEPT ![c] = FALSE]
    /\ UNCHANGED <<last, listening>>

Mistake(c) ==
    /\ excepted' = [excepted EXCEPT ![c] = TRUE]
    /\ UNCHANGED <<last, owed, listening>>

Leave(those) ==
    /\ listening' = [c \in Clients |-> listening[c] /\ c \notin those]
    /\ UNCHANGED <<last, owed, excepted>>

FeedNext ==
    \/ \E e \in Events, to \in SUBSET Clients : Issue(e, to)
    \/ \E c \in Clients : \/ \E e \in Events : Deliver(c, e)
                          \/ Refetch(c) \/ Mistake(c)
    \/ \E those \in SUBSET Clients : Leave(those)

\* The client that is owed something hears of it, while it listens.
Inform(c) ==
    /\ listening[c] /\ ~excepted[c] /\ owed[c] # {}
    /\ Refetch(c) \/ \E e \in owed[c] : Deliver(c, e)

FeedSafety == FeedInit /\ [][FeedNext]_feedVars

FeedSpec ==
    /\ FeedSafety
    /\ \A c \in Clients : WF_feedVars(Inform(c))
=============================================================================
