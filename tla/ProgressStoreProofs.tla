------------------------- MODULE ProgressStoreProofs ------------------------
(***************************************************************************)
(* Theorems about ProgressStore, for every set of users, books, devices,   *)
(* positions and ages and every setting of the store's constants.          *)
(***************************************************************************)
EXTENDS ProgressStore, TLAPS

\* No seq on record, and no cursor, is past the counter.
SeqBounded ==
    /\ \A u \in Users, b \in Books :
          progress[u][b] # NoRecord => progress[u][b].seq <= counter
    /\ \A u \in Users : cursor[u] <= counter

-----------------------------------------------------------------------------
(* What the helpers of Report return.                                      *)

\* The age of a report is a natural number whatever its clocks say.
LEMMA AgeNat == \A a \in Ages : Age(a) \in Nat
  BY DataAssumption DEF Age

\* A clamped position is within the book.
LEMMA ClampSound ==
  ASSUME NEW pos \in Positions, NEW dur \in Durations
  PROVE  /\ Clamp(pos, dur) \in Nat
         /\ dur > 0 => Clamp(pos, dur) <= dur
  BY DataAssumption DEF Clamp

\* A report that is not stale has a listen time that is positive and not in
\* the future, and no further back than MaxReportAge.
LEMMA RebasedListen ==
  ASSUME TypeOK, NEW age \in Ages, Age(age) <= MaxReportAge
  PROVE  /\ now - Age(age) \in Nat
         /\ now - Age(age) > 0
         /\ now - Age(age) <= now
         /\ now - (now - Age(age)) <= MaxReportAge
  BY AgeNat, ClockAssumption DEF TypeOK

\* The row an accepted report writes is a row, at the next seq, with the rate
\* that was there.
LEMMA WinnerRow ==
  ASSUME TypeOK, NEW u \in Users, NEW b \in Books, NEW d \in Devices,
         NEW pos \in Nat, NEW at \in Nat, NEW fin \in Finish,
         book[b] # NoBook
  PROVE  LET w == Winner(progress[u][b], b, d, pos, at, fin)
         IN  /\ w \in Row
             /\ w.pos = pos /\ w.listenedAt = at /\ w.receivedAt = now
             /\ w.seq = counter + 1 /\ w.device = d /\ w.dur = book[b]
             /\ progress[u][b] # NoRecord => w.rate = progress[u][b].rate
  <1>1. book[b] \in Nat
    BY DataAssumption DEF TypeOK
  <1>2. progress[u][b] # NoRecord => progress[u][b] \in Row
    BY DEF TypeOK
  <1>3. (CASE fin = "true" -> TRUE
           [] fin = "false" -> FALSE
           [] OTHER -> progress[u][b] # NoRecord /\ progress[u][b].finished)
          \in BOOLEAN
    BY <1>2 DEF Finish, Row
  <1>4. (IF progress[u][b] = NoRecord THEN NoRate ELSE progress[u][b].rate)
          \in Rates
    BY <1>2, DataAssumption DEF Row
  <1>5. now \in Nat /\ counter + 1 \in Nat
    BY DEF TypeOK
  <1> QED
    BY <1>1, <1>3, <1>4, <1>5 DEF Winner, NextSeq, Row

\* A row's listen is a ListenRow, and says what the row says.
LEMMA ListenOfRow == \A r \in Row : Listen(r) \in ListenRow
  BY DEF Listen, Row, ListenRow

\* Editing the rate of a row leaves a row with the same listen.
LEMMA RateEditedRow ==
  ASSUME NEW r \in Row, NEW rate \in Rates
  PROVE  /\ [r EXCEPT !.rate = rate] \in Row
         /\ Listen([r EXCEPT !.rate = rate]) = Listen(r)
         /\ [r EXCEPT !.rate = rate].seq = r.seq
  BY DEF Row, Listen

-----------------------------------------------------------------------------
(* Every variable keeps its type.                                          *)

LEMMA TypeOKInit == Init => TypeOK
  BY ClockAssumption DEF Init, TypeOK

LEMMA TypeOKStep == TypeOK /\ [Next]_vars => TypeOK'
  <1> SUFFICES ASSUME TypeOK, [Next]_vars PROVE TypeOK'
    OBVIOUS
  <1>1. ASSUME NEW u \in Users, NEW b \in Books, NEW d \in Devices,
               NEW age \in Ages, NEW pos \in Positions,
               ReportStale(u, b, d, age, pos)
        PROVE  TypeOK'
    <2>1. LogEntry(u, b, d, pos, now - Age(age), FALSE) \in LogRow
      BY AgeNat, DataAssumption DEF TypeOK, LogEntry, LogRow
    <2> QED
      BY <1>1, <2>1 DEF ReportStale, TypeOK
  <1>2. ASSUME NEW u \in Users, NEW b \in Books, NEW d \in Devices,
               NEW age \in Ages, NEW pos \in Positions,
               ReportRejected(u, b, d, age, pos)
        PROVE  TypeOK'
    <2>1. book[b] \in Durations
      BY <1>2 DEF ReportRejected, TypeOK
    <2>2. LogEntry(u, b, d, Clamp(pos, book[b]), now - Age(age), FALSE)
             \in LogRow
      BY <2>1, AgeNat, ClampSound DEF TypeOK, LogEntry, LogRow
    <2> QED
      BY <1>2, <2>2 DEF ReportRejected, TypeOK
  <1>3. ASSUME NEW u \in Users, NEW b \in Books, NEW d \in Devices,
               NEW age \in Ages, NEW pos \in Positions, NEW fin \in Finish,
               ReportAccepted(u, b, d, age, pos, fin)
        PROVE  TypeOK'
    <2> DEFINE p == Clamp(pos, book[b])
               at == now - Age(age)
               logged == log \cup {LogEntry(u, b, d, p, at, TRUE)}
    <2>1. book[b] \in Durations /\ book[b] # NoBook
      BY <1>3 DEF ReportAccepted, TypeOK
    <2>2. p \in Nat /\ at \in Nat
      BY <2>1, <1>3, ClampSound, RebasedListen DEF ReportAccepted
    <2>3. Winner(progress[u][b], b, d, p, at, fin) \in Row
      BY <2>1, <2>2, WinnerRow
    <2>4. progress' \in [Users -> [Books -> Row \cup {NoRecord}]]
      BY <1>3, <2>3 DEF ReportAccepted, TypeOK
    <2>5. LogEntry(u, b, d, p, at, TRUE) \in LogRow
      BY <2>2 DEF TypeOK, LogEntry, LogRow
    <2>6. log' \subseteq LogRow
      BY <1>3, <2>5 DEF ReportAccepted, TypeOK, Kept
    <2>7. /\ counter' = counter + 1 /\ writeCount' = writeCount + 1
          /\ lastPrune' \in {now, lastPrune}
          /\ UNCHANGED <<now, book, cursor, view>>
      BY <1>3 DEF ReportAccepted, NextSeq
    <2> QED
      BY <2>4, <2>6, <2>7 DEF TypeOK
  <1>4. ASSUME NEW u \in Users, NEW b \in Books, NEW rate \in Rates,
               SetPlaybackRate(u, b, rate)
        PROVE  TypeOK'
    <2>1. RateOnlyRow(b, rate) \in Row
      BY <1>4, DataAssumption DEF SetPlaybackRate, TypeOK, RateOnlyRow, Row
    <2>2. ASSUME progress[u][b] # NoRecord
          PROVE  [progress[u][b] EXCEPT !.rate = rate] \in Row
      BY <2>2, RateEditedRow DEF TypeOK
    <2> QED
      BY <1>4, <2>1, <2>2 DEF SetPlaybackRate, TypeOK
  <1>5. ASSUME NEW u \in Users, Sync(u) PROVE TypeOK'
    <2> DEFINE new == ListSince(u, cursor[u])
    <2>1. \A b \in new : progress[u][b] \in Row
      BY DEF ListSince, TypeOK
    <2>2. PICK last \in new : cursor' = [cursor EXCEPT ![u] = progress[u][last].seq]
      BY <1>5 DEF Sync
    <2>3. cursor' \in [Users -> Nat]
      BY <2>1, <2>2 DEF TypeOK, Row
    <2>4. view' \in [Users -> [Books -> ListenRow \cup {NoRecord}]]
      BY <1>5, <2>1, ListenOfRow DEF Sync, TypeOK
    <2> QED
      BY <1>5, <2>3, <2>4 DEF Sync, TypeOK
  <1>6. ASSUME NEW b \in Books, NEW dur \in Durations, ScanBook(b, dur)
        PROVE  TypeOK'
    BY <1>6 DEF ScanBook, TypeOK
  <1>7. ASSUME NEW b \in Books, RemoveBook(b) PROVE TypeOK'
    BY <1>7 DEF RemoveBook, TypeOK
  <1>8. CASE Restart
    BY <1>8 DEF Restart, TypeOK
  <1>9. CASE Tick
    BY <1>9, ClockAssumption DEF Tick, TypeOK
  <1>10. CASE UNCHANGED vars
    BY <1>10 DEF vars, TypeOK
  <1> QED
    BY <1>1, <1>2, <1>3, <1>4, <1>5, <1>6, <1>7, <1>8, <1>9, <1>10
       DEF Next, Report

\* Every reachable state of the store is well typed: in particular no listen
\* time before the epoch is ever stored.
THEOREM TypeCorrect == Spec => []TypeOK
  <1>1. Init => TypeOK
    BY TypeOKInit
  <1>2. TypeOK /\ [Next]_vars => TypeOK'
    BY TypeOKStep
  <1> QED
    BY <1>1, <1>2, PTL DEF Spec

-----------------------------------------------------------------------------
(* What each writer of the progress table does to it, row by row.          *)

\* An accepted report replaces one row by a sound listen at a fresh seq, logs
\* it, and leaves every other row alone.
LEMMA AcceptedEffect ==
  ASSUME TypeOK, NEW u \in Users, NEW b \in Books, NEW d \in Devices,
         NEW age \in Ages, NEW pos \in Positions, NEW fin \in Finish,
         ReportAccepted(u, b, d, age, pos, fin)
  PROVE  /\ \A v \in Users, c \in Books :
               <<v, c>> # <<u, b>> => progress'[v][c] = progress[v][c]
         /\ progress'[u][b] \in Row
         /\ progress'[u][b].seq = counter + 1 /\ counter' = counter + 1
         /\ progress'[u][b].receivedAt = now
         /\ progress'[u][b].listenedAt > 0
         /\ progress'[u][b].listenedAt <= now
         /\ now - progress'[u][b].listenedAt <= MaxReportAge
         /\ progress'[u][b].dur > 0
               => progress'[u][b].pos <= progress'[u][b].dur
         /\ progress[u][b] # NoRecord
               => progress'[u][b].rate = progress[u][b].rate
         /\ ShouldAccept(progress[u][b], progress'[u][b].listenedAt,
                         progress'[u][b].pos)
         /\ UNCHANGED <<now, cursor, view>>
  <1> DEFINE p == Clamp(pos, book[b])
             at == now - Age(age)
             w == Winner(progress[u][b], b, d, p, at, fin)
  <1>1. book[b] \in Durations /\ book[b] # NoBook /\ Age(age) <= MaxReportAge
    BY DEF ReportAccepted, TypeOK
  <1>2. /\ p \in Nat /\ (book[b] > 0 => p <= book[b])
        /\ at \in Nat /\ at > 0 /\ at <= now /\ now - at <= MaxReportAge
    BY <1>1, ClampSound, RebasedListen
  <1>3. /\ w \in Row
        /\ w.pos = p /\ w.listenedAt = at /\ w.receivedAt = now
        /\ w.seq = counter + 1 /\ w.device = d /\ w.dur = book[b]
        /\ progress[u][b] # NoRecord => w.rate = progress[u][b].rate
    BY <1>1, <1>2, WinnerRow
  <1>4. /\ progress' = [progress EXCEPT ![u][b] = w]
        /\ counter' = counter + 1
        /\ ShouldAccept(progress[u][b], at, p)
        /\ UNCHANGED <<now, cursor, view>>
    BY DEF ReportAccepted, NextSeq
  <1>5. progress'[u][b] = w
    BY <1>4 DEF TypeOK
  <1>6. \A v \in Users, c \in Books :
           <<v, c>> # <<u, b>> => progress'[v][c] = progress[v][c]
    BY <1>4 DEF TypeOK
  <1> HIDE DEF p, at, w
  <1> QED
    BY <1>2, <1>3, <1>4, <1>5, <1>6

\* A rate edit leaves every other row alone, and of its own row the listen: a
\* row it creates has none.
LEMMA RateEditEffect ==
  ASSUME TypeOK, NEW u \in Users, NEW b \in Books, NEW rate \in Rates,
         SetPlaybackRate(u, b, rate)
  PROVE  /\ \A v \in Users, c \in Books :
               <<v, c>> # <<u, b>> => progress'[v][c] = progress[v][c]
         /\ progress[u][b] # NoRecord =>
               /\ progress'[u][b] # NoRecord
               /\ Listen(progress'[u][b]) = Listen(progress[u][b])
         /\ progress[u][b] = NoRecord => progress'[u][b] = RateOnlyRow(b, rate)
         /\ UNCHANGED <<now, counter, log, cursor, view>>
  <1>1. /\ progress' = [progress EXCEPT ![u][b] =
                          IF @ = NoRecord THEN RateOnlyRow(b, rate)
                          ELSE [@ EXCEPT !.rate = rate]]
        /\ UNCHANGED <<now, counter, log, cursor, view>>
    BY DEF SetPlaybackRate
  <1>2. progress'[u][b] = IF progress[u][b] = NoRecord THEN RateOnlyRow(b, rate)
                          ELSE [progress[u][b] EXCEPT !.rate = rate]
    BY <1>1 DEF TypeOK
  <1>3. \A v \in Users, c \in Books :
           <<v, c>> # <<u, b>> => progress'[v][c] = progress[v][c]
    BY <1>1 DEF TypeOK
  <1>4. progress[u][b] # NoRecord => progress[u][b] \in Row
    BY DEF TypeOK
  <1> QED
    BY <1>1, <1>2, <1>3, <1>4, RateEditedRow, NoRecordAssumption

\* A removed book takes its rows with it and nothing else.
LEMMA RemoveEffect ==
  ASSUME TypeOK, NEW b \in Books, RemoveBook(b)
  PROVE  /\ \A v \in Users : progress'[v][b] = NoRecord
         /\ \A v \in Users, c \in Books :
               c # b => progress'[v][c] = progress[v][c]
         /\ UNCHANGED <<now, counter, log, cursor, view>>
  BY DEF RemoveBook, TypeOK

\* Listens agree exactly when every column a report writes agrees.
LEMMA SameListen ==
  ASSUME NEW r \in Row, NEW s \in Row, Listen(r) = Listen(s)
  PROVE  /\ r.pos = s.pos /\ r.dur = s.dur /\ r.seq = s.seq
         /\ r.listenedAt = s.listenedAt /\ r.receivedAt = s.receivedAt
         /\ r.device = s.device /\ r.finished = s.finished
  <1>1. /\ Listen(r).pos = Listen(s).pos /\ Listen(r).dur = Listen(s).dur
        /\ Listen(r).seq = Listen(s).seq
        /\ Listen(r).listenedAt = Listen(s).listenedAt
        /\ Listen(r).receivedAt = Listen(s).receivedAt
        /\ Listen(r).device = Listen(s).device
        /\ Listen(r).finished = Listen(s).finished
    OBVIOUS
  <1> QED
    BY <1>1 DEF Listen

\* Steps that do not write the progress table.
Quiet == progress' = progress /\ counter' = counter /\ now' >= now

\* A step is one of these, as far as the progress table is concerned.
LEMMA StepCases ==
  ASSUME TypeOK, [Next]_vars
  PROVE  \/ /\ Quiet
            /\ log \subseteq log'
            /\ UNCHANGED <<cursor, view>>
         \/ \E u \in Users, b \in Books, d \in Devices, age \in Ages,
               pos \in Positions, fin \in Finish :
               ReportAccepted(u, b, d, age, pos, fin)
         \/ \E u \in Users, b \in Books, rate \in Rates :
               SetPlaybackRate(u, b, rate)
         \/ \E u \in Users : Sync(u)
         \/ \E b \in Books : RemoveBook(b)
  <1>1. ASSUME NEW u \in Users, NEW b \in Books, NEW d \in Devices,
               NEW age \in Ages, NEW pos \in Positions,
               \/ ReportStale(u, b, d, age, pos)
               \/ ReportRejected(u, b, d, age, pos)
        PROVE  Quiet /\ log \subseteq log' /\ UNCHANGED <<cursor, view>>
    <2>1. log \subseteq log'
      BY <1>1, Zenon DEF ReportStale, ReportRejected
    <2>2. UNCHANGED <<now, progress, counter, cursor, view>>
      BY <1>1 DEF ReportStale, ReportRejected
    <2> QED
      BY <2>1, <2>2 DEF Quiet, TypeOK
  <1>2. ASSUME NEW b \in Books, NEW dur \in Durations, ScanBook(b, dur)
        PROVE  Quiet /\ log \subseteq log' /\ UNCHANGED <<cursor, view>>
    BY <1>2 DEF ScanBook, Quiet, TypeOK
  <1>3. ASSUME Restart \/ Tick \/ UNCHANGED vars
        PROVE  Quiet /\ log \subseteq log' /\ UNCHANGED <<cursor, view>>
    BY <1>3 DEF Restart, Tick, vars, Quiet, TypeOK
  <1> QED
    BY <1>1, <1>2, <1>3 DEF Next, Report

\* An accepted report is logged, and the prune it may run removes no row still
\* within the retention time.
LEMMA AcceptedLogged ==
  ASSUME TypeOK, NEW u \in Users, NEW b \in Books, NEW d \in Devices,
         NEW age \in Ages, NEW pos \in Positions, NEW fin \in Finish,
         ReportAccepted(u, b, d, age, pos, fin)
  PROVE  /\ \A e \in log : e.receivedAt >= now - LogRetention => e \in log'
         /\ \E e \in log' :
               /\ e.accepted /\ e.user = u /\ e.book = b
               /\ e.pos = progress'[u][b].pos
               /\ e.device = progress'[u][b].device
               /\ e.listenedAt = progress'[u][b].listenedAt
               /\ e.receivedAt = progress'[u][b].receivedAt
  <1> DEFINE p == Clamp(pos, book[b])
             at == now - Age(age)
             entry == LogEntry(u, b, d, p, at, TRUE)
             w == Winner(progress[u][b], b, d, p, at, fin)
  <1>1. log' = Kept(log \cup {entry}) \/ log' = log \cup {entry}
    BY DEF ReportAccepted
  <1>2. /\ entry.accepted /\ entry.user = u /\ entry.book = b
        /\ entry.pos = p /\ entry.device = d
        /\ entry.listenedAt = at /\ entry.receivedAt = now
    BY DEF LogEntry
  <1>3. w.pos = p /\ w.device = d /\ w.listenedAt = at /\ w.receivedAt = now
    BY DEF Winner
  <1>4. progress'[u][b] = w
    BY DEF ReportAccepted, TypeOK
  <1>5. now >= now - LogRetention
    BY ClockAssumption DEF TypeOK
  <1> HIDE DEF p, at, entry, w
  <1>6. \A e \in log : e.receivedAt >= now - LogRetention => e \in log'
    BY <1>1 DEF Kept
  <1>7. entry \in log'
    BY <1>1, <1>2, <1>5 DEF Kept
  <1> QED
    BY <1>2, <1>3, <1>4, <1>6, <1>7

-----------------------------------------------------------------------------
(* The inductive invariant.                                                *)

IInv ==
    /\ TypeOK
    /\ SeqBounded
    /\ CursorComplete
    /\ LogExplainsRecord
    /\ ListenSound
    /\ RateRowsAreNotListens

LEMMA IInvInit == Init => IInv
  BY TypeOKInit DEF Init, IInv, TypeOK, SeqBounded, CursorComplete,
     LogExplainsRecord, ListenSound, RateRowsAreNotListens, Listens

\* A step that leaves the progress table alone keeps the invariant: the clock
\* only widens what the invariant allows.
LEMMA QuietStep ==
  ASSUME IInv, TypeOK', Quiet, log \subseteq log', UNCHANGED <<cursor, view>>
  PROVE  IInv'
  <1>1. now \in Nat /\ now' \in Nat /\ now' >= now
    BY DEF IInv, TypeOK, Quiet
  <1>2. \A u \in Users, b \in Books :
           progress[u][b] # NoRecord =>
             /\ progress[u][b].seq \in Nat /\ progress[u][b].receivedAt \in Nat
             /\ progress[u][b].listenedAt \in Nat
    BY DEF IInv, TypeOK, Row
  <1>3. SeqBounded' /\ CursorComplete' /\ RateRowsAreNotListens'
    BY DEF IInv, Quiet, SeqBounded, CursorComplete, RateRowsAreNotListens,
           Listens
  <1>4. ListenSound'
    BY <1>1, <1>2 DEF IInv, Quiet, ListenSound, Listens
  <1>5. LogExplainsRecord'
    <2> SUFFICES ASSUME NEW u \in Users, NEW b \in Listens(u)',
                        progress'[u][b].receivedAt >= now' - LogRetention
                 PROVE  \E e \in log' :
                          /\ e.accepted /\ e.user = u /\ e.book = b
                          /\ e.pos = progress'[u][b].pos
                          /\ e.device = progress'[u][b].device
                          /\ e.listenedAt = progress'[u][b].listenedAt
                          /\ e.receivedAt = progress'[u][b].receivedAt
      BY DEF LogExplainsRecord
    <2>1. b \in Listens(u) /\ progress' = progress
      BY DEF Quiet, Listens
    <2>2. progress[u][b].receivedAt >= now - LogRetention
      BY <1>1, <1>2, <2>1, ClockAssumption DEF Listens
    <2> QED
      BY <2>1, <2>2 DEF IInv, LogExplainsRecord
  <1> QED
    BY <1>3, <1>4, <1>5 DEF IInv

LEMMA AcceptedStep ==
  ASSUME IInv, TypeOK', NEW u \in Users, NEW b \in Books, NEW d \in Devices,
         NEW age \in Ages, NEW pos \in Positions, NEW fin \in Finish,
         ReportAccepted(u, b, d, age, pos, fin)
  PROVE  IInv'
  <1> USE AcceptedEffect DEF IInv
  <1>1. \A v \in Users, c \in Books :
           progress[v][c] # NoRecord =>
             /\ progress[v][c] \in Row /\ progress[v][c].seq \in Nat
             /\ progress[v][c].seq <= counter
    BY DEF TypeOK, SeqBounded, Row
  <1>2. /\ counter \in Nat /\ counter' = counter + 1 /\ now \in Nat
        /\ \A v \in Users : cursor[v] \in Nat /\ cursor[v] <= counter
    BY DEF TypeOK, SeqBounded
  <1>3. progress'[u][b] # NoRecord /\ progress'[u][b].seq = counter + 1
    BY NoRecordAssumption
  <1>4. SeqBounded'
    <2>1. ASSUME NEW v \in Users, NEW c \in Books, progress'[v][c] # NoRecord
          PROVE  progress'[v][c].seq <= counter + 1
      BY <1>1, <1>2, <1>3, <2>1
    <2> QED
      BY <1>2, <2>1 DEF SeqBounded
  <1>5. CursorComplete'
    <2> SUFFICES ASSUME NEW v \in Users, NEW c \in Listens(v)',
                        progress'[v][c].seq <= cursor'[v]
                 PROVE  view'[v][c] = Listen(progress'[v][c])
      BY DEF CursorComplete
    <2>1. cursor' = cursor /\ view' = view
      OBVIOUS
    <2>2. <<v, c>> # <<u, b>>
      BY <1>2, <1>3, <2>1
    <2>3. c \in Books /\ progress'[v][c] = progress[v][c]
      BY <2>2 DEF Listens
    <2> QED
      BY <2>1, <2>3 DEF CursorComplete, Listens
  <1>6. ListenSound'
    <2> SUFFICES ASSUME NEW v \in Users, NEW c \in Listens(v)'
                 PROVE  /\ progress'[v][c].listenedAt <= progress'[v][c].receivedAt
                        /\ progress'[v][c].receivedAt <= now'
                        /\ progress'[v][c].receivedAt - progress'[v][c].listenedAt
                              <= MaxReportAge
                        /\ progress'[v][c].dur > 0
                              => progress'[v][c].pos <= progress'[v][c].dur
      BY DEF ListenSound
    <2>1. c \in Books /\ now' = now
      BY DEF Listens
    <2>2. CASE <<v, c>> = <<u, b>>
      <3>1. /\ progress'[u][b].receivedAt = now
            /\ progress'[u][b].listenedAt <= now
            /\ now - progress'[u][b].listenedAt <= MaxReportAge
            /\ progress'[u][b].dur > 0
                  => progress'[u][b].pos <= progress'[u][b].dur
        OBVIOUS
      <3> QED
        BY <1>2, <2>1, <2>2, <3>1
    <2>3. CASE <<v, c>> # <<u, b>>
      BY <2>1, <2>3 DEF ListenSound, Listens
    <2> QED
      BY <2>2, <2>3
  <1>7. RateRowsAreNotListens'
    <2> SUFFICES ASSUME NEW v \in Users, NEW c \in Books,
                        progress'[v][c] # NoRecord
                 PROVE  IF progress'[v][c].seq = 0
                        THEN /\ progress'[v][c].pos = 0
                             /\ progress'[v][c].listenedAt = 0
                             /\ progress'[v][c].device = NoDevice
                             /\ ~progress'[v][c].finished
                        ELSE progress'[v][c].listenedAt > 0
      BY DEF RateRowsAreNotListens
    <2>1. CASE <<v, c>> = <<u, b>>
      BY <1>2, <2>1
    <2>2. CASE <<v, c>> # <<u, b>>
      BY <2>2 DEF RateRowsAreNotListens
    <2> QED
      BY <2>1, <2>2
  <1>8. LogExplainsRecord'
    <2> SUFFICES ASSUME NEW v \in Users, NEW c \in Listens(v)',
                        progress'[v][c].receivedAt >= now' - LogRetention
                 PROVE  \E e \in log' :
                          /\ e.accepted /\ e.user = v /\ e.book = c
                          /\ e.pos = progress'[v][c].pos
                          /\ e.device = progress'[v][c].device
                          /\ e.listenedAt = progress'[v][c].listenedAt
                          /\ e.receivedAt = progress'[v][c].receivedAt
      BY DEF LogExplainsRecord
    <2>1. c \in Books /\ now' = now
      BY DEF Listens
    <2>2. CASE <<v, c>> = <<u, b>>
      BY <2>2, AcceptedLogged
    <2>3. CASE <<v, c>> # <<u, b>>
      <3>1. progress'[v][c] = progress[v][c] /\ c \in Listens(v)
        BY <2>1, <2>3 DEF Listens
      <3>2. PICK e \in log :
               /\ e.accepted /\ e.user = v /\ e.book = c
               /\ e.pos = progress[v][c].pos
               /\ e.device = progress[v][c].device
               /\ e.listenedAt = progress[v][c].listenedAt
               /\ e.receivedAt = progress[v][c].receivedAt
        BY <2>1, <3>1 DEF LogExplainsRecord
      <3>3. e \in log'
        BY <2>1, <3>1, <3>2, AcceptedLogged
      <3> QED
        BY <3>1, <3>2, <3>3
    <2> QED
      BY <2>2, <2>3
  <1> QED
    BY <1>4, <1>5, <1>6, <1>7, <1>8

LEMMA RateEditStep ==
  ASSUME IInv, TypeOK', NEW u \in Users, NEW b \in Books, NEW rate \in Rates,
         SetPlaybackRate(u, b, rate)
  PROVE  IInv'
  <1> USE RateEditEffect DEF IInv
  \* The listens of the table are the same before and after.
  <1>1. \A v \in Users, c \in Books :
           /\ progress[v][c] # NoRecord =>
                /\ progress[v][c] \in Row
                /\ progress'[v][c] \in Row
                /\ Listen(progress'[v][c]) = Listen(progress[v][c])
           /\ progress[v][c] = NoRecord /\ progress'[v][c] # NoRecord =>
                progress'[v][c] = RateOnlyRow(c, rate)
    <2> TAKE v \in Users, c \in Books
    <2>1. CASE <<v, c>> = <<u, b>>
      BY <2>1 DEF TypeOK
    <2>2. CASE <<v, c>> # <<u, b>>
      BY <2>2 DEF TypeOK
    <2> QED
      BY <2>1, <2>2
  <1>r. \A c \in Books :
           LET r == RateOnlyRow(c, rate)
           IN  /\ r.seq = 0 /\ r.pos = 0 /\ r.listenedAt = 0
               /\ r.device = NoDevice /\ r.finished = FALSE
    BY DEF RateOnlyRow
  <1>2. ASSUME NEW v \in Users, NEW c \in Listens(v)'
        PROVE  /\ c \in Listens(v)
               /\ progress'[v][c] \in Row /\ progress[v][c] \in Row
               /\ Listen(progress'[v][c]) = Listen(progress[v][c])
    <2>1. c \in Books /\ progress'[v][c] # NoRecord /\ progress'[v][c].seq > 0
      BY DEF Listens
    <2>2. progress[v][c] # NoRecord
      BY <1>1, <1>r, <2>1
    <2>3. progress'[v][c].seq = progress[v][c].seq
      BY <1>1, <2>1, <2>2, SameListen
    <2> QED
      BY <1>1, <2>1, <2>2, <2>3 DEF Listens
  <1>3. UNCHANGED <<now, counter, log, cursor, view>>
    OBVIOUS
  <1>4. SeqBounded'
    <2>1. ASSUME NEW v \in Users, NEW c \in Books, progress'[v][c] # NoRecord
          PROVE  progress'[v][c].seq <= counter'
      <3>1. CASE progress[v][c] = NoRecord
        BY <1>1, <1>r, <1>3, <2>1, <3>1 DEF TypeOK
      <3>2. CASE progress[v][c] # NoRecord
        BY <1>1, <1>3, <3>2, SameListen DEF SeqBounded
      <3> QED
        BY <3>1, <3>2
    <2> QED
      BY <1>3, <2>1 DEF SeqBounded
  <1>5. CursorComplete'
    BY <1>2, <1>3, SameListen DEF CursorComplete
  <1>6. ListenSound'
    BY <1>2, <1>3, SameListen DEF ListenSound
  <1>7. LogExplainsRecord'
    BY <1>2, <1>3, SameListen DEF LogExplainsRecord
  <1>8. RateRowsAreNotListens'
    <2>1. ASSUME NEW v \in Users, NEW c \in Books, progress'[v][c] # NoRecord,
                 progress[v][c] = NoRecord
          PROVE  /\ progress'[v][c].seq = 0 /\ progress'[v][c].pos = 0
                 /\ progress'[v][c].listenedAt = 0
                 /\ progress'[v][c].device = NoDevice
                 /\ ~progress'[v][c].finished
      BY <1>1, <1>r, <2>1
    <2>2. ASSUME NEW v \in Users, NEW c \in Books, progress[v][c] # NoRecord
          PROVE  /\ progress'[v][c].seq = progress[v][c].seq
                 /\ progress'[v][c].pos = progress[v][c].pos
                 /\ progress'[v][c].listenedAt = progress[v][c].listenedAt
                 /\ progress'[v][c].device = progress[v][c].device
                 /\ progress'[v][c].finished = progress[v][c].finished
      BY <1>1, <2>2, SameListen
    <2> QED
      BY <2>1, <2>2 DEF RateRowsAreNotListens
  <1> QED
    BY <1>4, <1>5, <1>6, <1>7, <1>8

\* The rows a sync fetches are those past the cursor, and the cursor moves to
\* the last of them: a row at or below the new cursor was either fetched now or
\* passed before.
LEMMA SyncStep ==
  ASSUME IInv, TypeOK', NEW u \in Users, Sync(u)
  PROVE  IInv'
  <1> DEFINE new == ListSince(u, cursor[u])
  <1>1. PICK last \in new :
           /\ \A b \in new : progress[u][b].seq <= progress[u][last].seq
           /\ cursor' = [cursor EXCEPT ![u] = progress[u][last].seq]
           /\ view' = [view EXCEPT ![u] =
                         [b \in Books |-> IF b \in new THEN Listen(progress[u][b])
                                          ELSE view[u][b]]]
           /\ UNCHANGED <<now, book, progress, counter, log, lastPrune,
                          writeCount>>
    BY DEF Sync
  <1>2. \A v \in Users : Listens(v)' = Listens(v)
    BY <1>1 DEF Listens
  <1>3. ListenSound' /\ RateRowsAreNotListens' /\ LogExplainsRecord'
    BY <1>1, <1>2 DEF IInv, ListenSound, RateRowsAreNotListens,
                      LogExplainsRecord
  <1>4. /\ last \in Books /\ progress[u][last] # NoRecord
        /\ progress[u][last].seq <= counter
    BY DEF IInv, SeqBounded, ListSince
  <1>5. \A v \in Users : cursor'[v] = IF v = u THEN progress[u][last].seq
                                      ELSE cursor[v]
    BY <1>1 DEF IInv, TypeOK
  <1>6. SeqBounded'
    BY <1>1, <1>4, <1>5 DEF IInv, SeqBounded
  <1>7. CursorComplete'
    <2> SUFFICES ASSUME NEW v \in Users, NEW c \in Listens(v),
                        progress[v][c].seq <= cursor'[v]
                 PROVE  view'[v][c] = Listen(progress[v][c])
      BY <1>1, <1>2 DEF CursorComplete
    <2>1. c \in Books /\ progress[v][c] # NoRecord
      BY DEF Listens
    <2>2. CASE v # u
      <3>1. view'[v] = view[v] /\ cursor'[v] = cursor[v]
        BY <1>1, <1>5, <2>2 DEF IInv, TypeOK
      <3> QED
        BY <3>1 DEF IInv, CursorComplete
    <2>3. CASE v = u
      <3>1. view'[u][c] = IF c \in new THEN Listen(progress[u][c])
                          ELSE view[u][c]
        BY <1>1, <2>1 DEF IInv, TypeOK
      <3>2. CASE c \in new
        BY <2>3, <3>1, <3>2
      <3>3. CASE c \notin new
        <4>1. progress[u][c].seq <= cursor[u]
          BY <2>1, <2>3, <3>3 DEF ListSince, IInv, TypeOK, Row
        <4> QED
          BY <2>3, <3>1, <3>3, <4>1 DEF IInv, CursorComplete
      <3> QED
        BY <3>2, <3>3
    <2> QED
      BY <2>2, <2>3
  <1> QED
    BY <1>3, <1>6, <1>7 DEF IInv

LEMMA RemoveStep ==
  ASSUME IInv, TypeOK', NEW b \in Books, RemoveBook(b)
  PROVE  IInv'
  <1> USE RemoveEffect DEF IInv
  <1>1. \A v \in Users, c \in Books :
           progress'[v][c] # NoRecord => progress'[v][c] = progress[v][c]
    OBVIOUS
  <1>2. \A v \in Users : \A c \in Listens(v)' :
           c \in Listens(v) /\ progress'[v][c] = progress[v][c]
    BY <1>1 DEF Listens
  <1>3. UNCHANGED <<now, counter, log, cursor, view>>
    OBVIOUS
  <1>4. SeqBounded' /\ RateRowsAreNotListens'
    BY <1>1, <1>3 DEF SeqBounded, RateRowsAreNotListens
  <1>5. CursorComplete' /\ ListenSound' /\ LogExplainsRecord'
    BY <1>2, <1>3 DEF CursorComplete, ListenSound, LogExplainsRecord
  <1> QED
    BY <1>4, <1>5

LEMMA IInvStep == IInv /\ [Next]_vars => IInv'
  <1> SUFFICES ASSUME IInv, [Next]_vars PROVE IInv'
    OBVIOUS
  <1>1. TypeOK /\ TypeOK'
    BY TypeOKStep DEF IInv
  <1>2. \/ Quiet /\ log \subseteq log' /\ UNCHANGED <<cursor, view>>
        \/ \E u \in Users, b \in Books, d \in Devices, age \in Ages,
              pos \in Positions, fin \in Finish :
              ReportAccepted(u, b, d, age, pos, fin)
        \/ \E u \in Users, b \in Books, rate \in Rates :
              SetPlaybackRate(u, b, rate)
        \/ \E u \in Users : Sync(u)
        \/ \E b \in Books : RemoveBook(b)
    BY <1>1, StepCases
  <1> QED
    BY <1>1, <1>2, QuietStep, AcceptedStep, RateEditStep, SyncStep, RemoveStep

\* The conjunction of everything below holds in every reachable state.
THEOREM Invariance == Spec => []IInv
  <1>1. Init => IInv
    BY IInvInit
  <1>2. IInv /\ [Next]_vars => IInv'
    BY IInvStep
  <1> QED
    BY <1>1, <1>2, PTL DEF Spec

\* A client that syncs by cursor misses no listen.
THEOREM CursorSyncIsComplete == Spec => []CursorComplete
  <1>1. IInv => CursorComplete
    BY DEF IInv
  <1> QED
    BY <1>1, Invariance, PTL

\* progress_log explains every listen received within the retention time.
THEOREM EveryListenIsLogged == Spec => []LogExplainsRecord
  <1>1. IInv => LogExplainsRecord
    BY DEF IInv
  <1> QED
    BY <1>1, Invariance, PTL

\* Stored listens lie neither in the future nor too far back.
THEOREM StoredListensAreSound == Spec => []ListenSound
  <1>1. IInv => ListenSound
    BY DEF IInv
  <1> QED
    BY <1>1, Invariance, PTL

\* A rate edit never fabricates a listen.
THEOREM RateEditsAreNotListens == Spec => []RateRowsAreNotListens
  <1>1. IInv => RateRowsAreNotListens
    BY DEF IInv
  <1> QED
    BY <1>1, Invariance, PTL

\* A listen is only ever replaced by one that wins under the write rule, at a
\* seq never issued before, and never together with the rate.
THEOREM ReplacedByWinner == Spec => ListenReplacedByWinner
  <1> DEFINE Replace(u, b) ==
               progress[u][b] # NoRecord /\ progress'[u][b] # NoRecord =>
                  \/ Listen(progress'[u][b]) = Listen(progress[u][b])
                  \/ ListenReplaced(progress[u][b], progress'[u][b])
  <1>1. ASSUME TypeOK, [Next]_vars, NEW v \in Users, NEW c \in Books
        PROVE  Replace(v, c)
    <2>1. CASE Quiet
      BY <2>1 DEF Quiet
    <2>2. ASSUME NEW u \in Users, NEW b \in Books, NEW d \in Devices,
                 NEW age \in Ages, NEW pos \in Positions, NEW fin \in Finish,
                 ReportAccepted(u, b, d, age, pos, fin)
          PROVE  Replace(v, c)
      <3>1. CASE <<v, c>> # <<u, b>>
        BY <1>1, <2>2, <3>1, AcceptedEffect
      <3>2. CASE <<v, c>> = <<u, b>>
        <4> DEFINE old == progress[u][b]
                   new == progress'[u][b]
        <4>1. /\ new \in Row /\ new.seq = counter' /\ counter' = counter + 1
              /\ old # NoRecord => new.rate = old.rate
              /\ ShouldAccept(old, new.listenedAt, new.pos)
          BY <1>1, <2>2, AcceptedEffect
        <4>2. counter \in Nat /\ (old # NoRecord => old \in Row)
          BY <1>1 DEF TypeOK
        <4>3. ASSUME old # NoRecord PROVE ListenReplaced(old, new)
          <5>1. /\ old.listenedAt \in Nat /\ new.listenedAt \in Nat
                /\ old.pos \in Nat /\ new.pos \in Nat
            BY <4>1, <4>2, <4>3 DEF Row
          <5>2. \/ new.listenedAt > old.listenedAt
                \/ /\ old.listenedAt - new.listenedAt <= TieWindow
                   /\ new.pos >= old.pos
            BY <4>1, <4>3, <5>1, ClockAssumption DEF ShouldAccept, Distance
          <5> QED
            BY <4>1, <4>2, <4>3, <5>2 DEF ListenReplaced
        <4> QED
          BY <3>2, <4>3
      <3> QED
        BY <3>1, <3>2
    <2>3. ASSUME NEW u \in Users, NEW b \in Books, NEW rate \in Rates,
                 SetPlaybackRate(u, b, rate)
          PROVE  Replace(v, c)
      <3>1. CASE <<v, c>> # <<u, b>>
        BY <1>1, <2>3, <3>1, RateEditEffect
      <3>2. CASE <<v, c>> = <<u, b>>
        BY <1>1, <2>3, <3>2, RateEditEffect
      <3> QED
        BY <3>1, <3>2
    <2>4. ASSUME NEW u \in Users, Sync(u) PROVE Replace(v, c)
      BY <2>4 DEF Sync
    <2>5. ASSUME NEW b \in Books, RemoveBook(b) PROVE Replace(v, c)
      BY <1>1, <2>5, RemoveEffect
    <2> HIDE DEF Replace
    <2> QED
      BY <1>1, <2>1, <2>2, <2>3, <2>4, <2>5, StepCases
  <1>2. TypeOK /\ [Next]_vars =>
          [\A u \in Users, b \in Books : Replace(u, b)]_vars
    BY <1>1
  <1> QED
    BY <1>2, TypeCorrect, PTL DEF Spec, ListenReplacedByWinner
=============================================================================
