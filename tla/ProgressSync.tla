---------------------------- MODULE ProgressSync ----------------------------
(***************************************************************************)
(* One book of one user on several devices: the reporter, the journal and  *)
(* the resume rule of the web client (web/src/lib/player), the requests on *)
(* the wire, the progress endpoint and the event stream behind it.         *)
(*                                                                         *)
(* Handlers of a page run to completion and interleave at every await.     *)
(* The network loses requests and replies and delays them up to MaxDelay;  *)
(* a page is frozen, killed and launched again at any moment, and only its *)
(* journal survives.                                                       *)
(* The store is ProgressStore reduced to one row, the stream is what       *)
(* EventFeed promises: in order, and nothing skipped but in a resync,      *)
(* which loses the page what was still to come to it.                      *)
(*                                                                         *)
(* One unit of time and of position is more than the two seconds the code  *)
(* takes for "the same", which is therefore one unit of time and equality  *)
(* of positions.                                                           *)
(***************************************************************************)
EXTENDS Integers, Sequences, FiniteSets

CONSTANTS
    Devices,
    Positions,          \* an interval from 0
    Skew,               \* device clock minus server clock
    TieWindow, AdoptThreshold,
    MaxDelay,           \* how long a report can be on its way
    None,
    MaxTime, MaxActs, MaxFaults, MaxKills   \* bounds of the model

ASSUME SyncAssumption ==
    /\ Positions \subseteq Nat /\ 0 \in Positions
    /\ Skew \in [Devices -> Int]
    /\ TieWindow \in Nat /\ AdoptThreshold \in Nat /\ MaxDelay \in Nat

VARIABLES
    now,        \* server clock
    rec,        \* the progress row
    wire,       \* reports on their way to the server
    handled,    \* reports stored or rejected, not yet published and answered
    stream,     \* events on their way to each device
    page,       \* each device's player and reporter
    journal,    \* each device's localStorage entry
    reply,      \* answer to the request a device awaits
    fetch,      \* the GET a device awaits: none, asked, or its answer
    acts, faults, kills,    \* user actions, lost messages, kills so far
    misled      \* history: devices set back by news that newer had overtaken,
                \* or cut off from the last of the news by a resync

vars == <<now, rec, wire, handled, stream, page, journal, reply, fetch,
          acts, faults, kills, misled>>
budget == <<acts, faults, kills>>

Record == [pos : Positions, at : Int, dev : Devices]

Report == [dev : Devices, kind : {"put", "flush", "beacon"}, pos : Positions,
           age : Int, built : Nat]

Answer == [dev : Devices, kind : {"put", "flush", "beacon"}, won : BOOLEAN,
           rec : Record]

Entry == [pos : Positions, ts : Int, sAt : Int, synced : BOOLEAN]

Page == [state : {"dead", "flushing", "restoring", "browsing", "loaded"},
         playing : BOOLEAN, hidden : BOOLEAN, pos : Positions,
         listened : Int,        \* player.lastListenedAt, device clock
         sAt : Int,             \* player.serverListenedAt
         awaits : {"nothing", "put", "flush"},   \* Reporter.inflight
         pending : BOOLEAN,     \* Reporter.pending
         sent : Positions \cup {None},     \* position of the last report
         left : Entry \cup {None}]         \* journal the page before it died with

DeadPage == [state |-> "dead", playing |-> FALSE, hidden |-> FALSE, pos |-> 0,
             listened |-> 0, sAt |-> 0, awaits |-> "nothing",
             pending |-> FALSE, sent |-> None,
             left |-> None]

ASSUME NoneAssumption == None \notin Entry \cup Answer

NoFetch == <<"none", None>>

SystemOK ==
    /\ now \in Nat
    /\ rec \in Record \cup {None}
    /\ wire \subseteq Report
    /\ handled \subseteq Answer
    /\ stream \in [Devices -> Seq(Record)]
    /\ page \in [Devices -> Page]
    /\ journal \in [Devices -> Entry \cup {None}]
    /\ reply \in [Devices -> Answer \cup {None}]
    /\ fetch \in [Devices -> {"none", "asked"} \X {None}
                  \cup {"answered"} \X (Record \cup {None})]

TypeOK == SystemOK /\ misled \subseteq Devices

Init ==
    /\ now = 1
    /\ rec = None
    /\ wire = {} /\ handled = {}
    /\ stream = [d \in Devices |-> <<>>]
    /\ page \in [Devices -> {DeadPage, [DeadPage EXCEPT !.state = "browsing"]}]
    /\ journal = [d \in Devices |-> None]
    /\ reply = [d \in Devices |-> None]
    /\ fetch = [d \in Devices |-> NoFetch]
    /\ acts = 0 /\ faults = 0 /\ kills = 0 /\ misled = {}

Clock(d) == now + Skew[d]

-----------------------------------------------------------------------------
(* What a page does, as functions of its state p.                          *)

\* Reporter.report: the age is that of the last listen; a listen time of zero
\* is "unknown" and reported as now, one in the future is cut to now.
ReportOf(d, p, kind) ==
    [dev |-> d, kind |-> kind, pos |-> p.pos, built |-> now,
     age |-> IF p.listened = 0 \/ p.listened > Clock(d) THEN 0
             ELSE Clock(d) - p.listened]

\* (Operators whose name starts with "Slip" are the mistakes the model checker
\* is asked to notice: no action uses them.)
\* Reporter.send: one request at a time, later ones coalesce into `pending`.
SlipSending(p) ==
    IF p.awaits # "nothing" THEN p
    ELSE [p EXCEPT !.awaits = "put", !.sent = p.pos]

Sending(p) ==
    IF p.awaits # "nothing" THEN [p EXCEPT !.pending = TRUE]
    ELSE [p EXCEPT !.awaits = "put", !.sent = p.pos]

\* The page of d becomes p and sends, or becomes p.
SendAs(d, p) ==
    /\ page' = [page EXCEPT ![d] = Sending(p)]
    /\ wire' = IF p.awaits = "nothing" THEN wire \cup {ReportOf(d, p, "put")}
               ELSE wire

BecomeAs(d, p) ==
    /\ page' = [page EXCEPT ![d] = p]
    /\ UNCHANGED wire

\* The `finally` of send: whatever came up meanwhile goes out in one report.
Settle(d, p) ==
    LET q == [p EXCEPT !.awaits = "nothing", !.pending = FALSE]
    IN  IF p.pending THEN SendAs(d, q) ELSE BecomeAs(d, q)

\* PlayerEngine.writeJournal.
JournalEntry(d, p, synced) ==
    [pos |-> p.pos, ts |-> Clock(d), sAt |-> p.sAt, synced |-> synced]

WriteJournal(d, p, synced) ==
    journal' = [journal EXCEPT ![d] = JournalEntry(d, p, synced)]

\* Reporter.accept.
Accepted(p, r) == [p EXCEPT !.sAt = r.at]

\* The page an adopted record leaves behind, and whether it sends: adopting
\* moves the player with seekTo, which counts as listening now and reports.
Moves(p, r) == r.pos # p.pos

Moved(d, p, r) ==
    IF Moves(p, r)
    THEN [p EXCEPT !.pos = r.pos, !.listened = Clock(d), !.sAt = r.at]
    ELSE Accepted(p, r)

SlipNewer(p, r) == r.at < p.sAt + AdoptThreshold

\* What counts as somebody else's newer listen.
Newer(p, r) == r.at > p.sAt + AdoptThreshold

-----------------------------------------------------------------------------
(* The listener.                                                           *)

\* On the page, or from the lock screen while it is hidden.
Act(d) ==
    /\ page[d].state = "loaded"
    /\ acts < MaxActs
    /\ acts' = acts + 1
    /\ UNCHANGED <<now, rec, handled, stream, reply, fetch, faults, kills, misled>>

Listened(d, p) == [p EXCEPT !.listened = Clock(d)]

Play(d) ==
    /\ Act(d)
    /\ ~page[d].playing
    /\ BecomeAs(d, [Listened(d, page[d]) EXCEPT !.playing = TRUE])
    /\ UNCHANGED journal

\* The book is not over.
SlipHasMore(p) == p.pos \in Positions
HasMore(p) == p.pos + 1 \in Positions

\* timeupdate: the position moves on and is journalled; every now and then
\* the heartbeat reports it.  Goes on while the page is hidden.
Listen(d) ==
    /\ page[d].state = "loaded" /\ page[d].playing
    /\ HasMore(page[d])
    /\ LET p == [Listened(d, page[d]) EXCEPT !.pos = @ + 1]
       IN  /\ SendAs(d, p) \/ BecomeAs(d, p)
           /\ WriteJournal(d, p, FALSE)
    /\ UNCHANGED <<now, rec, handled, stream, reply, fetch, budget, misled>>

\* The element's pause event, and a stall, which is journalled otherwise.
Pause(d) ==
    /\ Act(d)
    /\ page[d].playing
    /\ LET p == [page[d] EXCEPT !.playing = FALSE]
       IN  /\ SendAs(d, p)
           /\ WriteJournal(d, p, TRUE) \/ WriteJournal(d, p, FALSE)

Seek(d, pos) ==
    /\ Act(d)
    /\ LET p == [Listened(d, page[d]) EXCEPT !.pos = pos]
       IN  /\ SendAs(d, p)
           /\ WriteJournal(d, p, TRUE)

\* A change of rate is reported; it is no listen.
ChangeRate(d) ==
    /\ Act(d) /\ ~page[d].hidden
    /\ SendAs(d, page[d])
    /\ UNCHANGED journal

-----------------------------------------------------------------------------
(* The page's life.                                                        *)

\* onHidden and sendOnHide: the journal keeps its flag but takes a new time
\* stamp, and a beacon leaves that nobody will read the answer of.  A page that
\* is hidden and then left does it twice.
Hide(d) ==
    /\ Act(d)
    /\ page' = [page EXCEPT ![d].hidden = TRUE]
    /\ wire' = wire \cup {ReportOf(d, page[d], "beacon")}
    /\ WriteJournal(d, page[d], journal[d] # None /\ journal[d].synced)

\* onVisible: Reporter.reconcile asks for the record.
Show(d) ==
    /\ page[d].state = "loaded" /\ page[d].hidden
    /\ page' = [page EXCEPT ![d].hidden = FALSE]
    /\ fetch' = [fetch EXCEPT ![d] = IF @ = NoFetch THEN <<"asked", None>> ELSE @]
    /\ UNCHANGED <<now, rec, wire, handled, stream, journal, reply, budget, misled>>

\* Nobody reads the answers of d's requests any more.
Orphaned(set, d) ==
    {IF m.dev = d THEN [m EXCEPT !.kind = "beacon"] ELSE m : m \in set}

\* The page is killed: what it had sent may still arrive, all it knew is lost.
Kill(d) ==
    /\ page[d].state # "dead"
    /\ kills < MaxKills
    /\ kills' = kills + 1
    /\ page' = [page EXCEPT ![d] = [DeadPage EXCEPT
         !.left = IF page[d].state = "loaded" THEN journal[d] ELSE page[d].left]]
    /\ wire' = Orphaned(wire, d)
    /\ handled' = Orphaned(handled, d)
    /\ stream' = [stream EXCEPT ![d] = <<>>]
    /\ reply' = [reply EXCEPT ![d] = None]
    /\ fetch' = [fetch EXCEPT ![d] = NoFetch]
    /\ misled' = misled \ {d}
    /\ UNCHANGED <<now, rec, journal, acts, faults>>

\* Restoring the last book begins with asking the server for it.
Restoring(d) ==
    /\ page' = [page EXCEPT ![d].state = "restoring", ![d].awaits = "nothing"]
    /\ fetch' = [fetch EXCEPT ![d] = <<"asked", None>>]

\* The page comes up: flushUnsynced first, then restoreLastBook.
Launch(d) ==
    /\ page[d].state = "dead"
    /\ CASE journal[d] = None ->
              /\ page' = [page EXCEPT ![d].state = "browsing"]
              /\ UNCHANGED <<wire, fetch>>
         [] journal[d] # None /\ journal[d].synced ->
              Restoring(d) /\ UNCHANGED wire
         [] OTHER ->
              /\ page' = [page EXCEPT ![d].state = "flushing", ![d].awaits = "flush"]
              /\ wire' = wire \cup
                   {[dev |-> d, kind |-> "flush", pos |-> journal[d].pos,
                     age |-> Clock(d) - journal[d].ts, built |-> now]}
              /\ UNCHANGED fetch
    /\ UNCHANGED <<now, rec, handled, stream, journal, reply, budget, misled>>

\* The book's page is opened, and its record fetched with it.
OpenBookPage(d) ==
    /\ page[d].state = "browsing" /\ fetch[d] = NoFetch
    /\ fetch' = [fetch EXCEPT ![d] = <<"asked", None>>]
    /\ UNCHANGED <<now, rec, wire, handled, stream, page, journal, reply, budget, misled>>

-----------------------------------------------------------------------------
(* The server.                                                             *)

Wins(r, at) ==
    rec # None =>
        \/ at > rec.at
        \/ rec.at - at <= TieWindow /\ r.pos >= rec.pos

\* Store.Report, in one transaction.
Store(r) ==
    LET at == now - (IF r.age < 0 THEN 0 ELSE r.age)
        new == [pos |-> r.pos, at |-> at, dev |-> r.dev]
    IN  /\ r \in wire
        /\ wire' = wire \ {r}
        /\ IF Wins(r, at)
           THEN rec' = new
           ELSE UNCHANGED rec
        /\ handled' = handled \cup {[dev |-> r.dev, kind |-> r.kind,
                                     won |-> Wins(r, at), rec |-> rec']}
        /\ UNCHANGED <<now, stream, page, journal, reply, fetch, budget, misled>>

\* putProgressRate: the row as it stands is published again, to be dealt with
\* like any other.  Who asked for it is no matter.  The row it makes for a book
\* nobody has listened to is left out.
EditRate ==
    /\ rec # None
    /\ acts < MaxActs
    /\ acts' = acts + 1
    /\ handled' = handled \cup {[dev |-> rec.dev, kind |-> "beacon",
                                 won |-> TRUE, rec |-> rec]}
    /\ UNCHANGED <<now, rec, wire, stream, page, journal, reply, fetch, faults, kills,
                   misled>>

\* putProgress goes on after the transaction: publish, then answer.
Respond(a) ==
    /\ a \in handled
    /\ handled' = handled \ {a}
    /\ stream' = [d \in Devices |->
                    IF a.won /\ page[d].state # "dead" THEN Append(stream[d], a.rec)
                    ELSE stream[d]]
    /\ reply' = IF a.kind = "beacon" THEN reply ELSE [reply EXCEPT ![a.dev] = a]
    /\ UNCHANGED <<now, rec, wire, page, journal, fetch, budget, misled>>

\* getProgress, or the book with its progress.
AnswerFetch(d) ==
    /\ fetch[d] = <<"asked", None>>
    /\ fetch' = [fetch EXCEPT ![d] = <<"answered", rec>>]
    /\ UNCHANGED <<now, rec, wire, handled, stream, page, journal, reply, budget, misled>>

-----------------------------------------------------------------------------
(* Answers and events.                                                     *)

\* The device is still to hear of the record.
News(d) ==
    \/ \E a \in handled : a.won /\ a.rec = rec
    \/ \E i \in DOMAIN stream[d] : stream[d][i] = rec

Unsynced(d) == journal[d] # None /\ ~journal[d].synced

\* History: it acts on r, and is set back if r has been overtaken and either
\* takes back what it knew or passes for an answer to its unsynced listen.
Hears(d, r) ==
    misled' = IF r = rec THEN misled \ {d}
              ELSE IF ~News(d) /\ (r.at < page[d].sAt \/ Unsynced(d))
              THEN misled \cup {d}
              ELSE misled

\* 200 to a report.
TakeAccepted(d) ==
    /\ reply[d] # None /\ reply[d].kind = "put" /\ reply[d].won
    /\ LET p == Accepted(page[d], reply[d].rec)
       IN Settle(d, p) /\ WriteJournal(d, p, TRUE)
    /\ reply' = [reply EXCEPT ![d] = None]
    /\ Hears(d, reply[d].rec)
    /\ UNCHANGED <<now, rec, handled, stream, fetch, budget>>

\* 409 to a report: somebody else listened more recently.
TakeConflict(d) ==
    /\ reply[d] # None /\ reply[d].kind = "put" /\ ~reply[d].won
    /\ LET r == reply[d].rec
           p == IF r.dev = d THEN Accepted(page[d], r) ELSE Moved(d, page[d], r)
           q == IF r.dev # d /\ Moves(page[d], r) THEN [p EXCEPT !.pending = TRUE] ELSE p
       IN  Settle(d, q) /\ WriteJournal(d, p, TRUE)
    /\ reply' = [reply EXCEPT ![d] = None]
    /\ Hears(d, reply[d].rec)
    /\ UNCHANGED <<now, rec, handled, stream, fetch, budget>>

\* The answer to a flushed entry goes into the journal: the listen stands, or
\* the record it lost to takes its place.
TakeFlushed(d) ==
    /\ reply[d] # None /\ reply[d].kind = "flush"
    /\ LET r == reply[d].rec
           e == [journal[d] EXCEPT !.synced = TRUE, !.sAt = r.at]
       IN  journal' = [journal EXCEPT ![d] =
             IF reply[d].won THEN e
             ELSE [e EXCEPT !.pos = r.pos, !.ts = Clock(d)]]
    /\ Restoring(d)
    /\ reply' = [reply EXCEPT ![d] = None]
    /\ UNCHANGED <<now, rec, wire, handled, stream, budget, misled>>

\* A request fails: it never arrived, or its answer was lost.
RequestFails(d) ==
    /\ page[d].awaits # "nothing" /\ reply[d] = None
    /\ faults < MaxFaults
    /\ faults' = faults + 1
    /\ \E left \in {{m \in wire : m.dev # d \/ m.kind = "beacon"}, Orphaned(wire, d)} :
         IF page[d].awaits = "flush"
         THEN wire' = left /\ Restoring(d) /\ UNCHANGED journal
         ELSE LET q == [page[d] EXCEPT !.awaits = "nothing", !.pending = FALSE]
              IN  /\ page' = [page EXCEPT ![d] = IF page[d].pending THEN Sending(q) ELSE q]
                  /\ wire' = IF page[d].pending THEN left \cup {ReportOf(d, q, "put")}
                             ELSE left
                  /\ WriteJournal(d, page[d], FALSE)
                  /\ UNCHANGED fetch
    /\ handled' = Orphaned(handled, d)
    /\ UNCHANGED <<now, rec, stream, reply, acts, kills, misled>>

\* A GET that fails ends a reconcile or a restore without effect.
FetchFails(d) ==
    /\ fetch[d] # NoFetch
    /\ faults < MaxFaults
    /\ faults' = faults + 1
    /\ fetch' = [fetch EXCEPT ![d] = NoFetch]
    /\ page' = [page EXCEPT ![d].state = IF @ = "restoring" THEN "browsing" ELSE @]
    /\ UNCHANGED <<now, rec, wire, handled, stream, journal, reply, acts, kills, misled>>

\* maybeAdopt for a record that is no conflict.
MaybeAdopt(d, r) ==
    IF r.dev = d
    THEN LET p == Accepted(page[d], r)
         IN  BecomeAs(d, p) /\ WriteJournal(d, p, TRUE) /\ Hears(d, r)
    ELSE IF ~Newer(page[d], r) THEN UNCHANGED <<page, wire, journal, misled>>
    ELSE LET p == Moved(d, page[d], r)
         IN  /\ IF Moves(page[d], r) THEN SendAs(d, p) ELSE BecomeAs(d, p)
             /\ WriteJournal(d, p, TRUE)
             /\ Hears(d, r)

\* reconcile with the answer: a page that is playing asserts itself.
TakeReconciled(d) ==
    /\ page[d].state = "loaded" /\ fetch[d][1] = "answered"
    /\ IF fetch[d][2] = None THEN UNCHANGED <<page, wire, journal, misled>>
       ELSE IF page[d].playing THEN SendAs(d, page[d]) /\ UNCHANGED <<journal, misled>>
       ELSE MaybeAdopt(d, fetch[d][2])
    /\ fetch' = [fetch EXCEPT ![d] = NoFetch]
    /\ UNCHANGED <<now, rec, handled, stream, reply, budget>>

\* onRemoteProgress: an event of its own is an answer, one of another device
\* is adopted unless this one is playing.
TakeEvent(d) ==
    /\ stream[d] # <<>>
    /\ stream' = [stream EXCEPT ![d] = Tail(@)]
    /\ LET r == Head(stream[d])
       IN  IF page[d].state # "loaded" \/ (page[d].playing /\ r.dev # d)
           THEN UNCHANGED <<page, wire, journal, misled>>
           ELSE MaybeAdopt(d, r)
    /\ UNCHANGED <<now, rec, handled, reply, fetch, budget>>

\* A resync in the place of the first event, or of so many: the page forgets
\* what it showed in lists, but the reporter is not told.  History: a page at
\* rest that was still to hear of the record from it is left behind.
Resync(d) ==
    /\ stream[d] # <<>>
    /\ stream' = [stream EXCEPT ![d] = Tail(@)]
    /\ UNCHANGED <<now, rec, wire, handled, page, journal, reply, fetch, budget>>
    /\ misled' = IF page[d].state = "loaded" /\ ~page[d].playing
                    /\ Head(stream[d]) = rec /\ ~News(d)'
                 THEN misled \cup {d}
                 ELSE misled

\* startState: what a player starts from.  The journal stands while it is
\* unsynced, and while the server knows nothing newer than it acknowledged.
SlipOwnStands(e, server) == server = None \/ server.at <= e.sAt + AdoptThreshold

OwnStands(e, server) ==
    ~e.synced \/ server = None \/ server.at <= e.sAt + AdoptThreshold

StartFrom(d, server) ==
    LET e == journal[d]
    IN  IF e # None /\ OwnStands(e, server)
        THEN [pos |-> e.pos,
              listened |-> IF e.synced /\ (server # None \/ e.sAt # 0)
                           THEN e.sAt ELSE e.ts]
        ELSE IF server # None
        THEN [pos |-> server.pos, listened |-> server.at]
        ELSE [pos |-> 0, listened |-> 0]

\* PlayerEngine.load.
Loaded(d, server) ==
    LET start == StartFrom(d, server)
        sAt == IF server = None THEN 0 ELSE server.at
    IN  [DeadPage EXCEPT !.state = "loaded", !.pos = start.pos, !.sAt = sAt,
                         !.listened = IF start.listened > 0 THEN start.listened ELSE sAt,
                         !.sent = start.pos]

\* The restored player is paused, and its last listen is that of its position.
TakeRestored(d) ==
    /\ page[d].state = "restoring" /\ fetch[d][1] = "answered"
    /\ page' = [page EXCEPT ![d] = Loaded(d, fetch[d][2])]
    /\ fetch' = [fetch EXCEPT ![d] = NoFetch]
    /\ misled' = IF fetch[d][2] = rec \/ News(d) THEN misled ELSE misled \cup {d}
    /\ UNCHANGED <<now, rec, wire, handled, stream, journal, reply, budget>>

\* The listener presses play on the book's page, however old its record is.
PlayBook(d) ==
    /\ page[d].state = "browsing" /\ fetch[d][1] = "answered"
    /\ page' = [page EXCEPT ![d] =
                  [Listened(d, Loaded(d, fetch[d][2])) EXCEPT !.playing = TRUE]]
    /\ fetch' = [fetch EXCEPT ![d] = NoFetch]
    /\ UNCHANGED <<now, rec, wire, handled, stream, journal, reply, budget, misled>>

\* Time passes; a page that plays keeps its listen time current (timeupdate,
\* several times within one unit).
Tick ==
    /\ now < MaxTime
    /\ \A r \in wire : now < r.built + MaxDelay
    /\ now' = now + 1
    /\ page' = [d \in Devices |->
                  IF page[d].playing
                  THEN [page[d] EXCEPT !.listened = Clock(d) + 1]
                  ELSE page[d]]
    /\ UNCHANGED <<rec, wire, handled, stream, journal, reply, fetch, budget, misled>>

Take(d) ==
    \/ TakeAccepted(d) \/ TakeConflict(d) \/ TakeFlushed(d)
    \/ TakeReconciled(d) \/ TakeRestored(d) \/ TakeEvent(d)

Next ==
    \/ \E d \in Devices :
         \/ Play(d) \/ Listen(d) \/ Pause(d) \/ ChangeRate(d)
         \/ \E pos \in Positions : Seek(d, pos)
         \/ Hide(d) \/ Show(d) \/ Kill(d) \/ Launch(d)
         \/ OpenBookPage(d) \/ PlayBook(d)
         \/ AnswerFetch(d) \/ RequestFails(d) \/ FetchFails(d)
         \/ Take(d) \/ Resync(d)
    \/ EditRate
    \/ \E r \in wire : Store(r)
    \/ \E a \in handled : Respond(a)
    \/ Tick

Spec == Init /\ [][Next]_vars

-----------------------------------------------------------------------------
(* Properties.                                                             *)

Quiet ==
    /\ wire = {} /\ handled = {}
    /\ \A d \in Devices : stream[d] = <<>> /\ reply[d] = None /\ fetch[d] = NoFetch

\* When everything sent has arrived and been dealt with, a paused player shows
\* the position the server holds, unless it knows a record as recent, within the
\* adoption threshold, holds a listen the server was never reached with, was set
\* back by the last it heard, which newer news had overtaken on the way, or was
\* to hear of the record in what a resync lost.
\* (reporter.ts: conflicts, events and reconciling together.)
Converged ==
    Quiet => \A d \in Devices :
        page[d].state = "loaded" /\ ~page[d].playing /\ rec # None
        => \/ page[d].pos = rec.pos
           \/ rec.at <= page[d].sAt + AdoptThreshold
           \/ Unsynced(d)
           \/ d \in misled

\* Where a player stopped has been reported, or will be: a move made while a
\* report is under way is never dropped, whatever that report comes to
\* (reporter.ts:107-112 and 127-134, "never drop a report").
NewestIsReported ==
    \A d \in Devices :
        page[d].state = "loaded" /\ ~page[d].playing /\ page[d].sent # None
        => page[d].pos = page[d].sent \/ page[d].pending

Restores(d) == page[d].state = "restoring" /\ page'[d].state = "loaded"

\* A listen the server was never reached with survives the page: the next one
\* resumes there, or where a listen was that the server answered this device
\* with, in the GET of the restore or to the flush before it, and that is at
\* least as recent by the server's clock (journal.ts, resume.ts and
\* flushUnsynced together).
UnsyncedIsResumed ==
    [][\A d \in Devices : Restores(d) /\ page[d].left # None /\ ~page[d].left.synced =>
         LET heard == page[d].left.ts - Skew[d]
         IN  \/ page'[d].pos = page[d].left.pos
             \/ /\ fetch[d][2] # None
                /\ page'[d].pos = fetch[d][2].pos /\ fetch[d][2].at >= heard
             \/ /\ journal[d].synced
                /\ page'[d].pos = journal[d].pos /\ journal[d].sAt >= heard]_page

=============================================================================
