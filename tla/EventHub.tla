------------------------------ MODULE EventHub ------------------------------
(***************************************************************************)
(* The server-sent-events hub (internal/events/hub.go) and its clients.    *)
(*                                                                         *)
(* The hub numbers events with one counter, keeps the newest of each user  *)
(* in a bounded buffer for replay, and feeds a bounded channel per live    *)
(* stream; a stream that falls behind is dropped.  Every operation of the  *)
(* hub holds one mutex, so each is one action; a stream's Serve loop       *)
(* interleaves with them frame by frame.                                   *)
(*                                                                         *)
(* A client (web/src/lib/events.svelte.ts) reads one stream at a time and  *)
(* reconnects with the id of the last event it received.  Connections      *)
(* break at any moment, the server may restart (the hub is memory only),   *)
(* and sessions are revoked while their streams are up.                    *)
(*                                                                         *)
(* An event is its id together with the life of the hub that issued it;    *)
(* names and payloads do not matter here.                                  *)
(***************************************************************************)
EXTENDS Integers, Sequences, FiniteSets

CONSTANTS
    Users, Clients,
    UserOf,         \* the user each client is logged in as
    Slots,          \* streams of one client the server may still have open
    MaxEvents,      \* buffered events per user (defaultMaxEvents)
    QueueCap,       \* frames queued per stream (subscriberBuffer)
    NoEvent,        \* the client has no Last-Event-ID
    MaxId, MaxDrops, MaxLives   \* bounds of the model, not of the code

ASSUME HubAssumption ==
    /\ UserOf \in [Clients -> Users]
    /\ MaxEvents \in Nat \ {0}
    /\ QueueCap \in Nat \ {0}
    /\ MaxLives \in Nat \ {0} /\ MaxId \in Nat /\ MaxDrops \in Nat
    /\ NoEvent \notin [life : Nat, id : Nat]

VARIABLES
    life,       \* which run of the server process this is
    lastID,     \* Hub.lastID
    known,      \* users with a userState in Hub.users
    buf,        \* userState.buf: ids, oldest first
    stream,     \* the Serve call in each slot of each client
    panicked,   \* a closed channel was closed or sent to
    session,    \* "valid"; row gone, alone ("deleted") or with all of the
                \* user's ("purged"); hub told as well ("closed")
    last,       \* client: the last event received
    owed,       \* client: events published since, neither received nor excused
    stale,      \* client: resumed, without resync, from an id of an earlier life
    drops       \* connections broken so far

hubVars == <<life, lastID, known, buf>>
vars == <<hubVars, stream, panicked, session, last, owed, stale, drops>>

Event == [life : Nat, id : Nat]
Resync == 0     \* the resync frame, among event frames; ids start at 1

Stream == [phase : {"free", "requested", "live"},
           from : Event \cup {NoEvent},     \* Last-Event-ID of the request
           pending : Seq(Nat),              \* resync and replay, still to write
           queue : Seq(Nat),                \* subscriber.ch
           registered : BOOLEAN,            \* in userState.subs
           closed : BOOLEAN,                \* subscriber.ch is closed
           attached : BOOLEAN]              \* the client reads this one

FreeStream == [phase |-> "free", from |-> NoEvent, pending |-> <<>>,
               queue |-> <<>>, registered |-> FALSE, closed |-> FALSE,
               attached |-> FALSE]

Newer(e, f) == e.life > f.life \/ (e.life = f.life /\ e.id > f.id)

TypeOK ==
    /\ life \in 1..MaxLives
    /\ lastID \in Nat
    /\ known \subseteq Users
    /\ buf \in [Users -> Seq(1..lastID)]
    /\ \A u \in Users : Len(buf[u]) <= MaxEvents
    /\ stream \in [Clients -> [Slots -> Stream]]
    /\ \A c \in Clients, k \in Slots : Len(stream[c][k].queue) <= QueueCap
    /\ panicked \in BOOLEAN
    /\ session \in [Clients -> {"valid", "deleted", "purged", "closed"}]
    /\ last \in [Clients -> Event \cup {NoEvent}]
    /\ owed \in [Clients -> SUBSET Event]
    /\ stale \in [Clients -> BOOLEAN]
    /\ drops \in 0..MaxDrops

Init ==
    /\ life = 1
    /\ lastID = 0
    /\ known = {}
    /\ buf = [u \in Users |-> <<>>]
    /\ stream = [c \in Clients |-> [k \in Slots |-> FreeStream]]
    /\ panicked = FALSE
    /\ session = [c \in Clients |-> "valid"]
    /\ last = [c \in Clients |-> NoEvent]
    /\ owed = [c \in Clients |-> {}]
    /\ stale = [c \in Clients |-> FALSE]
    /\ drops = 0

-----------------------------------------------------------------------------
(* Buffer and channel helpers.                                             *)

\* pruneLocked drops a prefix: what is beyond MaxEvents, and what is older than
\* the maximum age, which is any further prefix as far as the model's clock
\* goes.
Pruned(s) ==
    {SubSeq(s, n + 1, Len(s)) : n \in {m \in 0..Len(s) : Len(s) - m <= MaxEvents}}

\* (Operators whose name starts with "Slip" are the mistakes the model checker
\* is asked to notice: no action uses them.)
SlipAfter(s, id) == s

\* The records of s after id: ids in a buffer increase, so they are a suffix.
After(s, id) ==
    SubSeq(s, 1 + Cardinality({i \in DOMAIN s : s[i] <= id}), Len(s))

\* close(s.ch), which panics when done twice.
ClosePanics(st) == st.closed

Deregistered(st) == [st EXCEPT !.registered = FALSE, !.closed = TRUE]

\* Queue the frame whether or not there is room.
SlipFedUnbounded(st, id) ==
    IF st.registered THEN [st EXCEPT !.queue = Append(@, id)] ELSE st

\* fanout: hand the frame to every registered stream, dropping those whose
\* queue is full.  Sending to a closed channel panics.
Fed(st, id) ==
    IF ~st.registered THEN st
    ELSE IF Len(st.queue) < QueueCap THEN [st EXCEPT !.queue = Append(@, id)]
    ELSE Deregistered(st)

FeedPanics(st) == st.registered /\ st.closed

\* Publish an event to the users in `to`: number it, buffer it and prune, feed
\* the streams.  Every client that has a last event is owed the new one.
Send(to) ==
    LET id == lastID + 1
    IN  /\ id <= MaxId
        /\ lastID' = id
        /\ \E kept \in [to -> UNION {Pruned(Append(buf[u], id)) : u \in to}] :
             /\ \A u \in to : kept[u] \in Pruned(Append(buf[u], id))
             /\ buf' = [u \in Users |-> IF u \in to THEN kept[u] ELSE buf[u]]
        /\ stream' = [c \in Clients |-> [k \in Slots |->
                        IF UserOf[c] \in to THEN Fed(stream[c][k], id)
                        ELSE stream[c][k]]]
        /\ panicked' = (panicked \/ \E c \in Clients, k \in Slots :
                          UserOf[c] \in to /\ FeedPanics(stream[c][k]))
        /\ owed' = [c \in Clients |->
                      IF UserOf[c] \in to /\ last[c] # NoEvent
                      THEN owed[c] \cup {[life |-> life, id |-> id]}
                      ELSE owed[c]]
        /\ UNCHANGED <<life, session, last, stale, drops>>

-----------------------------------------------------------------------------
(* Operations of the hub.                                                  *)

Publish(u) ==
    /\ known' = known \cup {u}
    /\ Send({u})

\* Only users with a buffer or a stream get a broadcast.
Broadcast ==
    /\ UNCHANGED known
    /\ Send(known)

SlipCloseStreams(of) ==
    /\ stream' = [c \in Clients |-> [k \in Slots |->
                    IF stream[c][k].registered THEN Deregistered(stream[c][k])
                    ELSE stream[c][k]]]
    /\ panicked' = panicked

\* Close the registered streams of the given clients.
CloseStreams(of) ==
    /\ stream' = [c \in Clients |-> [k \in Slots |->
                    IF c \in of /\ stream[c][k].registered
                    THEN Deregistered(stream[c][k])
                    ELSE stream[c][k]]]
    /\ panicked' = (panicked \/ \E c \in of, k \in Slots :
                      stream[c][k].registered /\ ClosePanics(stream[c][k]))

\* Logout and revocation delete one session row, a password change or the
\* deletion of the account all of a user's, and only then is the hub told.
DeleteSession(c) ==
    /\ session[c] = "valid"
    /\ session' = [session EXCEPT ![c] = "deleted"]
    /\ UNCHANGED <<hubVars, stream, panicked, last, owed, stale, drops>>

CloseSession(c) ==
    /\ session[c] = "deleted"
    /\ session' = [session EXCEPT ![c] = "closed"]
    /\ CloseStreams({c})
    /\ UNCHANGED <<hubVars, last, owed, stale, drops>>

ClientsOf(u) == {c \in Clients : UserOf[c] = u}

PurgeSessions(u) ==
    /\ \E c \in ClientsOf(u) : session[c] = "valid"
    /\ session' = [c \in Clients |->
                     IF UserOf[c] = u /\ session[c] = "valid" THEN "purged"
                     ELSE session[c]]
    /\ UNCHANGED <<hubVars, stream, panicked, last, owed, stale, drops>>

CloseUser(u) ==
    /\ \E c \in ClientsOf(u) : session[c] = "purged"
    /\ session' = [c \in Clients |->
                     IF UserOf[c] = u /\ session[c] = "purged" THEN "closed"
                     ELSE session[c]]
    /\ CloseStreams(ClientsOf(u))
    /\ UNCHANGED <<hubVars, last, owed, stale, drops>>

-----------------------------------------------------------------------------
(* The Serve loop of one stream.                                           *)

\* What subscribe decides for a buffer s: the frames to write first.
Resume(s, from) ==
    IF from = NoEvent THEN <<>>
    ELSE IF s = <<>> THEN IF from.id > 0 THEN <<Resync>> ELSE <<>>
    ELSE IF from.id + 1 < s[1] THEN <<Resync>>
    ELSE After(s, from.id)

\* Register the stream and take the replay in one critical section.
Subscribe(c, k) ==
    LET st == stream[c][k]
        u == UserOf[c]
    IN  /\ st.phase = "requested"
        /\ known' = known \cup {u}
        /\ \E s \in Pruned(buf[u]) :
             LET first == Resume(s, st.from)
             IN  /\ buf' = [buf EXCEPT ![u] = s]
                 /\ stream' = [stream EXCEPT ![c][k] =
                      [st EXCEPT !.phase = "live", !.from = NoEvent,
                                 !.pending = first, !.registered = TRUE]]
                 /\ stale' = [stale EXCEPT ![c] =
                      @ \/ (/\ st.attached /\ st.from # NoEvent
                            /\ st.from.life < life /\ first # <<Resync>>)]
        /\ UNCHANGED <<life, lastID, panicked, session, last, owed, drops>>

\* What the client does with a frame it receives: it remembers the id of an
\* event, and refetches everything on a resync.
Receive(c, frame) ==
    IF frame = Resync
    THEN /\ owed' = [owed EXCEPT ![c] = {}]
         /\ stale' = [stale EXCEPT ![c] = FALSE]
         /\ UNCHANGED last
    ELSE LET e == [life |-> life, id |-> frame]
         IN  /\ last' = [last EXCEPT ![c] = e]
             /\ owed' = [owed EXCEPT ![c] = @ \ {e}]
             /\ UNCHANGED stale

\* Serve writes one frame: replay first, then the channel, which hands out
\* what it holds even once it is closed.  A frame written to a connection the
\* client has left is lost.
WriteFrame(c, k) ==
    LET st == stream[c][k]
        source == IF st.pending # <<>> THEN st.pending ELSE st.queue
    IN  /\ st.phase = "live"
        /\ source # <<>>
        /\ stream' = [stream EXCEPT ![c][k] =
                        IF st.pending # <<>> THEN [st EXCEPT !.pending = Tail(@)]
                        ELSE [st EXCEPT !.queue = Tail(@)]]
        /\ IF st.attached THEN Receive(c, Head(source))
           ELSE UNCHANGED <<last, owed, stale>>
        /\ UNCHANGED <<hubVars, panicked, session, drops>>

\* The channel is closed and drained: Serve returns, the client sees the end.
\* (The deferred unsubscribe finds the stream gone from subs.)
EndOfStream(c, k) ==
    LET st == stream[c][k]
    IN  /\ st.phase = "live" /\ st.closed
        /\ st.pending = <<>> /\ st.queue = <<>>
        /\ stream' = [stream EXCEPT ![c][k] = FreeStream]
        /\ UNCHANGED <<hubVars, panicked, session, last, owed, stale, drops>>

SlipUnsubscribeCloses(st) == TRUE

\* Serve returns because the client is gone; unsubscribe closes the channel
\* unless the stream was dropped or closed before.
UnsubscribeCloses(st) == st.registered

Unsubscribe(c, k) ==
    LET st == stream[c][k]
    IN  /\ st.phase # "free" /\ ~st.attached
        /\ panicked' = (panicked \/ (st.phase = "live" /\ UnsubscribeCloses(st)
                                     /\ ClosePanics(st)))
        /\ stream' = [stream EXCEPT ![c][k] = FreeStream]
        /\ UNCHANGED <<hubVars, session, last, owed, stale, drops>>

-----------------------------------------------------------------------------
(* Clients and their connections.                                          *)

Attached(c) == \E k \in Slots : stream[c][k].attached

\* The client opens a stream; the middleware finds its session.
Connect(c) ==
    /\ session[c] = "valid"
    /\ ~Attached(c)
    /\ \E k \in Slots :
         /\ stream[c][k].phase = "free"
         /\ stream' = [stream EXCEPT ![c][k] =
              [FreeStream EXCEPT !.phase = "requested", !.from = last[c],
                                 !.attached = TRUE]]
    /\ UNCHANGED <<hubVars, panicked, session, last, owed, stale, drops>>

\* The connection breaks, or the client gives it up to reconnect: a hidden
\* page coming back, the watchdog, the network.
Disconnect(c, k) ==
    /\ stream[c][k].attached
    /\ drops < MaxDrops
    /\ drops' = drops + 1
    /\ stream' = [stream EXCEPT ![c][k].attached = FALSE]
    /\ UNCHANGED <<hubVars, panicked, session, last, owed, stale>>

\* The server restarts: the hub starts empty, ids start over.
Restart ==
    /\ life < MaxLives
    /\ life' = life + 1
    /\ lastID' = 0
    /\ known' = {}
    /\ buf' = [u \in Users |-> <<>>]
    /\ stream' = [c \in Clients |-> [k \in Slots |-> FreeStream]]
    /\ UNCHANGED <<panicked, session, last, owed, stale, drops>>

Next ==
    \/ \E u \in Users : Publish(u)
    \/ Broadcast
    \/ \E c \in Clients : DeleteSession(c) \/ CloseSession(c) \/ Connect(c)
    \/ \E u \in Users : PurgeSessions(u) \/ CloseUser(u)
    \/ \E c \in Clients, k \in Slots :
          \/ Subscribe(c, k) \/ WriteFrame(c, k) \/ EndOfStream(c, k)
          \/ Unsubscribe(c, k) \/ Disconnect(c, k)
    \/ Restart

\* Go schedules every Serve goroutine, a broken connection is noticed at the
\* next ping at the latest, and the client retries for as long as it runs
\* (EventSource, and the watchdog behind it).  Nobody has to publish.
Fairness ==
    \A c \in Clients :
        /\ WF_vars(Connect(c))
        /\ \A k \in Slots :
             /\ WF_vars(Subscribe(c, k))
             /\ WF_vars(WriteFrame(c, k))
             /\ WF_vars(EndOfStream(c, k))
             /\ WF_vars(Unsubscribe(c, k))

Spec == Init /\ [][Next]_vars /\ Fairness

-----------------------------------------------------------------------------
(* Properties.                                                             *)

\* No channel is closed twice or sent to once closed, whichever of fanout,
\* CloseSession, CloseUser and unsubscribe gets to a stream first: each closes
\* only what it takes out of subs.
NoChannelPanic ==
    /\ ~panicked
    /\ \A c \in Clients, k \in Slots :
         stream[c][k].registered => stream[c][k].phase = "live" /\ ~stream[c][k].closed

\* A stream is taken out only for a cause of its own: its queue was full, its
\* client left, its session is gone, the server restarted.  A slow device or a
\* revoked session never costs another device of the user its stream (fanout,
\* CloseSession).
DroppedForCause ==
    [][\A c \in Clients, k \in Slots :
         LET st == stream[c][k]
         IN  st.registered /\ ~stream'[c][k].registered =>
               \/ Len(st.queue) = QueueCap
               \/ ~st.attached
               \/ session[c] # "valid"
               \/ life' # life]_vars

\* What the hub and its clients promise together.  Across broken connections,
\* full queues, pruned buffers and restarts, events come in order, none is
\* skipped in silence (subscribe, "no event can slip between the replay snapshot
\* and the live feed"), and whoever is behind catches up while its session stands.
\* A client that resumed from an id of an earlier life is excepted.
Feed == INSTANCE EventFeed
            WITH Events <- [life : 1..MaxLives, id : 1..MaxId],
                 excepted <- stale,
                 listening <- [c \in Clients |-> session[c] = "valid"]

ImplementsFeed == Feed!FeedSpec
=============================================================================
