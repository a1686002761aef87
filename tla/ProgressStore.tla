--------------------------- MODULE ProgressStore ---------------------------
(***************************************************************************)
(* The listening-position store (internal/progress/store.go): one row per  *)
(* (user, book), written by the "most recent listen wins" rule, numbered   *)
(* by one global counter, with every report appended to progress_log.      *)
(*                                                                         *)
(* Every operation of the store runs inside db.Write (internal/db/db.go),  *)
(* one serialised SQLite transaction, so each is one action here.  The     *)
(* store only uses the difference of the two client clocks of a report,    *)
(* its age; the model's input is that difference, which a client whose     *)
(* clock is stepped can make negative.                                     *)
(*                                                                         *)
(* The process that reads `GET /progress?since=` is a client outside src/, *)
(* modelled from docs/API.md: it keeps the rows it was sent and asks for   *)
(* what came after the largest seq among them.                             *)
(***************************************************************************)
EXTENDS Integers, FiniteSets

CONSTANTS
    Users, Books, Devices,
    Positions,      \* position_ms values a report may carry
    Durations,      \* duration_ms values of a book; 0 is "unknown"
    Ages,           \* client_now - client_listened_at of a report
    Rates,          \* playback_rate values, NoRate (SQL NULL) among them
    NoRate,
    NoDevice,       \* device_id '' of a row that no listen wrote
    NoRecord,       \* no progress row for this (user, book)
    NoBook,         \* no books row with this id
    MaxReportAge, TieWindow, LogRetention, PruneInterval, PruneEveryN,
    StartTime,      \* server clock when the database is created
    MaxTime, MaxSeq, MaxLogRows   \* bounds of the model, not of the code

ASSUME DataAssumption ==
    /\ Positions \subseteq Nat
    /\ Durations \subseteq Nat
    /\ Ages \subseteq Int
    /\ NoRate \in Rates
    /\ NoDevice \notin Devices
    /\ NoBook \notin Nat
ASSUME ClockAssumption ==
    /\ MaxReportAge \in Nat
    /\ TieWindow \in Nat
    /\ LogRetention \in Nat
    /\ PruneInterval \in Nat
    /\ PruneEveryN \in Nat \ {0}
    \* The clock is Unix time: the epoch is further back than any report.
    /\ StartTime \in Nat
    /\ StartTime > MaxReportAge

VARIABLES
    now,        \* db.Now(), the server clock
    book,       \* duration_ms of each books row, or NoBook
    progress,   \* the progress table
    counter,    \* counters.progress_seq
    log,        \* progress_log; rows equal in every column are one element
    lastPrune, writeCount,  \* process globals of shouldPrune
    cursor, view            \* the client: largest seq seen, listens kept

vars == <<now, book, progress, counter, log, lastPrune, writeCount,
          cursor, view>>

\* The part of a row that a report writes, and the whole row.
ListenRow == [pos : Nat, dur : Nat, seq : Nat, listenedAt : Nat,
              receivedAt : Nat, device : Devices \cup {NoDevice},
              finished : BOOLEAN]

Row == [pos : Nat, dur : Nat, seq : Nat, listenedAt : Nat, receivedAt : Nat,
        device : Devices \cup {NoDevice}, finished : BOOLEAN, rate : Rates]

ASSUME NoRecordAssumption == NoRecord \notin Row \cup ListenRow

\* What a report writes, as opposed to what SetPlaybackRate writes.
Listen(r) == [pos |-> r.pos, dur |-> r.dur, seq |-> r.seq,
              listenedAt |-> r.listenedAt, receivedAt |-> r.receivedAt,
              device |-> r.device, finished |-> r.finished]

LogRow == [user : Users, book : Books, pos : Nat, device : Devices,
           listenedAt : Int, receivedAt : Nat, accepted : BOOLEAN]

Finish == {"true", "false", "absent"}   \* the optional `finished` of a report

TypeOK ==
    /\ now \in Nat /\ now >= StartTime
    /\ book \in [Books -> Durations \cup {NoBook}]
    /\ progress \in [Users -> [Books -> Row \cup {NoRecord}]]
    /\ counter \in Nat
    /\ log \subseteq LogRow
    /\ lastPrune \in Nat
    /\ writeCount \in Nat
    /\ cursor \in [Users -> Nat]
    /\ view \in [Users -> [Books -> ListenRow \cup {NoRecord}]]

Init ==
    /\ now = StartTime
    /\ book \in [Books -> Durations \cup {NoBook}]
    /\ progress = [u \in Users |-> [b \in Books |-> NoRecord]]
    /\ counter = 0
    /\ log = {}
    /\ lastPrune = 0
    /\ writeCount = 0
    /\ cursor = [u \in Users |-> 0]
    /\ view = [u \in Users |-> [b \in Books |-> NoRecord]]

-----------------------------------------------------------------------------
(* Helpers of Report.                                                      *)

\* (Operators whose name starts with "Slip" are the mistakes the model checker
\* is asked to notice: no action uses them.)
SlipAge(a) == a

\* The age of a report, clamped: a client clock stepped back between the
\* listen and the report gives a negative difference.
Age(a) == IF a < 0 THEN 0 ELSE a

\* A position past the end of a book of known duration is the end.
Clamp(pos, dur) == IF dur > 0 /\ pos > dur THEN dur ELSE pos

Distance(x, y) == IF x > y THEN x - y ELSE y - x

SlipShouldAccept(cur, listenedAt, pos) ==
    cur # NoRecord =>
        \/ listenedAt > cur.listenedAt
        \/ Distance(listenedAt, cur.listenedAt) <= TieWindow

\* The write rule.
ShouldAccept(cur, listenedAt, pos) ==
    cur # NoRecord =>
        \/ listenedAt > cur.listenedAt
        \/ /\ Distance(listenedAt, cur.listenedAt) <= TieWindow
           /\ pos >= cur.pos

\* MAX(seq) + 1, the scheme migration 00002 turns down.
SlipNextSeq ==
    LET seqs == {progress[u][b].seq : u \in Users,
                   b \in {c \in Books : \A v \in Users : progress[v][c] # NoRecord}}
    IN  IF seqs = {} THEN 1
        ELSE 1 + (CHOOSE m \in seqs : \A n \in seqs : n <= m)

NextSeq == counter + 1

\* Pruning is opportunistic: every PruneEveryN accepted writes, or when the
\* last one is more than PruneInterval ago.
ShouldPrune ==
    \/ (writeCount + 1) % PruneEveryN = 0
    \/ now - lastPrune > PruneInterval

SlipKept(rows) == {r \in rows : r.listenedAt >= now - LogRetention}

Kept(rows) == {r \in rows : r.receivedAt >= now - LogRetention}

\* The user where the device belongs.
SlipLogEntry(u, b, d, pos, listenedAt, accepted) ==
    [user |-> u, book |-> b, pos |-> pos, device |-> u,
     listenedAt |-> listenedAt, receivedAt |-> now, accepted |-> accepted]

LogEntry(u, b, d, pos, listenedAt, accepted) ==
    [user |-> u, book |-> b, pos |-> pos, device |-> d,
     listenedAt |-> listenedAt, receivedAt |-> now, accepted |-> accepted]

\* `finished` and `rate` carry over from the stored row.
Winner(cur, b, d, pos, listenedAt, fin) ==
    [pos |-> pos, dur |-> book[b], seq |-> NextSeq, listenedAt |-> listenedAt,
     receivedAt |-> now, device |-> d,
     finished |-> CASE fin = "true" -> TRUE
                    [] fin = "false" -> FALSE
                    [] OTHER -> cur # NoRecord /\ cur.finished,
     rate |-> IF cur = NoRecord THEN NoRate ELSE cur.rate]

RoomToLog == Cardinality(log) < MaxLogRows

-----------------------------------------------------------------------------
(* Report.  A report for a book that is gone is refused with ErrNoBook and *)
(* its transaction rolled back: no state changes, so it is no action.      *)

\* Older than MaxReportAge: logged as rejected before anything is read, even
\* for a book that is gone; answered with ErrStale.
ReportStale(u, b, d, age, pos) ==
    /\ Age(age) > MaxReportAge
    /\ RoomToLog
    /\ log' = log \cup {LogEntry(u, b, d, pos, now - Age(age), FALSE)}
    /\ UNCHANGED <<now, book, progress, counter, lastPrune, writeCount,
                   cursor, view>>

\* Loses against the stored row, which the caller is answered with.
ReportRejected(u, b, d, age, pos) ==
    LET p == Clamp(pos, book[b])
        at == now - Age(age)
    IN  /\ Age(age) <= MaxReportAge
        /\ book[b] # NoBook
        /\ ~ShouldAccept(progress[u][b], at, p)
        /\ RoomToLog
        /\ log' = log \cup {LogEntry(u, b, d, p, at, FALSE)}
        /\ UNCHANGED <<now, book, progress, counter, lastPrune, writeCount,
                       cursor, view>>

\* Wins: takes the next seq, replaces the row, is logged, and may prune.
ReportAccepted(u, b, d, age, pos, fin) ==
    LET p == Clamp(pos, book[b])
        at == now - Age(age)
        cur == progress[u][b]
        logged == log \cup {LogEntry(u, b, d, p, at, TRUE)}
    IN  /\ Age(age) <= MaxReportAge
        /\ book[b] # NoBook
        /\ ShouldAccept(cur, at, p)
        /\ counter < MaxSeq /\ RoomToLog
        /\ counter' = NextSeq
        /\ progress' = [progress EXCEPT ![u][b] = Winner(cur, b, d, p, at, fin)]
        /\ writeCount' = writeCount + 1
        /\ IF ShouldPrune
           THEN log' = Kept(logged) /\ lastPrune' = now
           ELSE log' = logged /\ UNCHANGED lastPrune
        /\ UNCHANGED <<now, book, cursor, view>>

Report(u, b, d, age, pos, fin) ==
    \/ ReportStale(u, b, d, age, pos)
    \/ ReportRejected(u, b, d, age, pos)
    \/ ReportAccepted(u, b, d, age, pos, fin)

-----------------------------------------------------------------------------
SlipRateOnlyRow(b, rate) ==
    [pos |-> 0, dur |-> book[b], seq |-> 0, listenedAt |-> now,
     receivedAt |-> now, device |-> NoDevice, finished |-> FALSE,
     rate |-> rate]

\* The row a rate edit creates: no listen, so seq and listened_at are zero.
RateOnlyRow(b, rate) ==
    [pos |-> 0, dur |-> book[b], seq |-> 0, listenedAt |-> 0,
     receivedAt |-> now, device |-> NoDevice, finished |-> FALSE,
     rate |-> rate]

\* SetPlaybackRate: touches nothing but the rate of a row that exists.
SetPlaybackRate(u, b, rate) ==
    /\ book[b] # NoBook
    /\ progress' = [progress EXCEPT ![u][b] =
                       IF @ = NoRecord THEN RateOnlyRow(b, rate)
                       ELSE [@ EXCEPT !.rate = rate]]
    /\ UNCHANGED <<now, book, counter, log, lastPrune, writeCount,
                   cursor, view>>

\* The rows `GET /progress?since=` returns, by their book.
ListSince(u, since) ==
    {b \in Books : progress[u][b] # NoRecord /\ progress[u][b].seq > since}

\* The client asks for what is new, keeps it, and moves its cursor to the
\* last row: rows come ordered by seq.
Sync(u) ==
    LET new == ListSince(u, cursor[u])
    IN  \E last \in new :
          /\ \A b \in new : progress[u][b].seq <= progress[u][last].seq
          /\ cursor' = [cursor EXCEPT ![u] = progress[u][last].seq]
          /\ view' = [view EXCEPT ![u] =
                        [b \in Books |-> IF b \in new THEN Listen(progress[u][b])
                                         ELSE view[u][b]]]
          /\ UNCHANGED <<now, book, progress, counter, log, lastPrune,
                         writeCount>>

-----------------------------------------------------------------------------
(* What the rest of the server does to the same tables.                    *)

\* The scanner adds a book, under a fresh id or, SQLite reusing the rowid of
\* a deleted last row, under an old one; or a rescan changes its duration.
ScanBook(b, dur) ==
    /\ book[b] # dur
    /\ book' = [book EXCEPT ![b] = dur]
    /\ UNCHANGED <<now, progress, counter, log, lastPrune, writeCount,
                   cursor, view>>

\* removeStale, or the deletion of a library: progress rows cascade,
\* progress_log has no foreign key and stays.
RemoveBook(b) ==
    /\ book[b] # NoBook
    /\ book' = [book EXCEPT ![b] = NoBook]
    /\ progress' = [u \in Users |-> [progress[u] EXCEPT ![b] = NoRecord]]
    /\ UNCHANGED <<now, counter, log, lastPrune, writeCount, cursor, view>>

\* The process restarts: the tables survive, the pruning globals do not.
Restart ==
    /\ lastPrune' = 0
    /\ writeCount' = 0
    /\ UNCHANGED <<now, book, progress, counter, log, cursor, view>>

Tick ==
    /\ now < MaxTime
    /\ now' = now + 1
    /\ UNCHANGED <<book, progress, counter, log, lastPrune, writeCount,
                   cursor, view>>

Next ==
    \/ \E u \in Users, b \in Books, d \in Devices, age \in Ages,
          pos \in Positions, fin \in Finish : Report(u, b, d, age, pos, fin)
    \/ \E u \in Users, b \in Books, rate \in Rates : SetPlaybackRate(u, b, rate)
    \/ \E u \in Users : Sync(u)
    \/ \E b \in Books, dur \in Durations : ScanBook(b, dur)
    \/ \E b \in Books : RemoveBook(b)
    \/ Restart
    \/ Tick

Spec == Init /\ [][Next]_vars

-----------------------------------------------------------------------------
(* Properties.                                                             *)

Listens(u) == {b \in Books : progress[u][b] # NoRecord /\ progress[u][b].seq > 0}

\* A client that syncs by cursor misses no listen: whatever row the cursor has
\* passed is in the client's copy exactly as the server has it, across deleted
\* books, reused ids and restarts.  This is what the global counter is for
\* (nextSeq, migration 00002).
CursorComplete ==
    \A u \in Users : \A b \in Listens(u) :
        progress[u][b].seq <= cursor[u] => view[u][b] = Listen(progress[u][b])

\* Every listen on record can be explained: as long as it was received within
\* the retention time, progress_log still holds the accepted report that wrote
\* it, whatever rejected reports and prunes came since (appendLog, the DELETE
\* of Report).
LogExplainsRecord ==
    \A u \in Users : \A b \in Listens(u) :
        LET r == progress[u][b]
        IN  r.receivedAt >= now - LogRetention =>
                \E e \in log :
                    /\ e.accepted /\ e.user = u /\ e.book = b
                    /\ e.pos = r.pos /\ e.device = r.device
                    /\ e.listenedAt = r.listenedAt
                    /\ e.receivedAt = r.receivedAt

\* No stored listen lies in the server's future, where it would shut out every
\* real listen until the clock catches up, and none is older than MaxReportAge
\* allows or past the end of its book (the age rebasing of Report).
ListenSound ==
    \A u \in Users : \A b \in Listens(u) :
        LET r == progress[u][b]
        IN  /\ r.listenedAt <= r.receivedAt
            /\ r.receivedAt <= now
            /\ r.receivedAt - r.listenedAt <= MaxReportAge
            /\ r.dur > 0 => r.pos <= r.dur

\* A row that only a rate edit wrote never looks like a listen: it is at zero
\* in every field a report is compared with, while a real listen never is, so
\* the first report always wins over it (SetPlaybackRate).
RateRowsAreNotListens ==
    \A u \in Users, b \in Books :
        progress[u][b] # NoRecord =>
            IF progress[u][b].seq = 0
            THEN /\ progress[u][b].pos = 0
                 /\ progress[u][b].listenedAt = 0
                 /\ progress[u][b].device = NoDevice
                 /\ ~progress[u][b].finished
            ELSE progress[u][b].listenedAt > 0

\* One listen replaces another only under the write rule and a seq never issued
\* before; no step changes both a listen and the rate, so rate edits and
\* reports never overwrite one another.
ListenReplaced(old, new) ==
    /\ new.seq = counter' /\ counter' > counter
    /\ new.rate = old.rate
    /\ \/ new.listenedAt > old.listenedAt
       \/ /\ old.listenedAt - new.listenedAt <= TieWindow
          /\ new.pos >= old.pos

ListenReplacedByWinner ==
    [][\A u \in Users, b \in Books :
         progress[u][b] # NoRecord /\ progress'[u][b] # NoRecord =>
            \/ Listen(progress'[u][b]) = Listen(progress[u][b])
            \/ ListenReplaced(progress[u][b], progress'[u][b])]_vars

\* What the package comment says of the rule: a late report of an old listen
\* "cannot clobber a newer position".  No row is behind an accepted listen
\* more than the tie window newer than it.  False, see README: within the tie
\* window the stored listen time may move back, and does so again and again.
OldListenCannotClobber ==
    \A u \in Users : \A b \in Listens(u) : \A e \in log :
        e.accepted /\ e.user = u /\ e.book = b
          /\ e.listenedAt > progress[u][b].listenedAt + TieWindow
        => e.pos <= progress[u][b].pos
=============================================================================
