------------------------- MODULE ProgressSyncProofs -------------------------
(***************************************************************************)
(* Safety theorems about ProgressSync, for any devices, any skew of their  *)
(* clocks, any delay of messages, and any number of losses and kills.      *)
(***************************************************************************)
EXTENDS ProgressSync, TLAPS

-----------------------------------------------------------------------------
(* The inductive invariant, device by device.                              *)

\* Requests of a page somebody waits for: not arrived, or handled and not
\* answered yet.
Sent(d) == {m \in wire : m.dev = d /\ m.kind # "beacon"}
Served(d) == {a \in handled : a.dev = d /\ a.kind # "beacon"}

\* What a page can be waiting for.
Awaiting(d) ==
    /\ page[d].awaits = "flush" <=> page[d].state = "flushing"
    /\ page[d].awaits = "put" => page[d].state = "loaded"

\* One request at a time, on its way or answered, and what comes back answers it.
OneExchange(d) ==
    /\ \A m \in Sent(d) : m.kind = page[d].awaits /\ reply[d] = None /\ Served(d) = {}
    /\ \A a \in Served(d) : a.kind = page[d].awaits /\ reply[d] = None
    /\ reply[d] # None => reply[d].kind = page[d].awaits
    /\ \A m, n \in Sent(d) : m = n
    /\ \A a, b \in Served(d) : a = b
    /\ page[d].awaits # "nothing" => Sent(d) # {} \/ Served(d) # {} \/ reply[d] # None

\* While an entry is flushed it stays as it is; its report tells its age, and
\* the answer is a record at least as recent.
Answers(a, d) == a.rec.at >= journal[d].ts - Skew[d]

Flushes(d) ==
    /\ page[d].state = "flushing" => Unsynced(d)
    /\ \A m \in Sent(d) : m.kind = "flush" =>
         m.built - m.age = journal[d].ts - Skew[d]
    /\ \A a \in Served(d) : a.kind = "flush" => Answers(a, d)
    /\ reply[d] # None /\ reply[d].kind = "flush" => Answers(reply[d], d)

\* Until it is resumed from, the journal is what the last page left, or an
\* answer as recent as that.
LeftStands(d) ==
    page[d].state # "loaded" /\ page[d].left # None /\ ~page[d].left.synced =>
        \/ journal[d] = page[d].left
        \/ /\ journal[d] # None /\ journal[d].synced
           /\ journal[d].sAt >= page[d].left.ts - Skew[d]

\* NewestIsReported, of one page; a report that is kept back waits for another.
UpToDate(p) ==
    /\ ~p.playing /\ p.sent # None => p.pos = p.sent \/ p.pending
    /\ p.pending => p.awaits # "nothing"

Sound(d) ==
    /\ Awaiting(d) /\ OneExchange(d) /\ Flushes(d)
    /\ LeftStands(d)
    /\ page[d].state = "loaded" => UpToDate(page[d])
    /\ journal[d] # None => journal[d].ts <= Clock(d)

IInv ==
    /\ SystemOK
    /\ \A m \in wire : m.built <= now
    /\ \A d \in Devices : Sound(d)

-----------------------------------------------------------------------------
(* What a step of one page leaves alone, and what it may say.              *)

\* Nothing of device e changes.
Spared(e) ==
    /\ page'[e] = page[e] /\ journal'[e] = journal[e] /\ reply'[e] = reply[e]
    /\ Sent(e)' = Sent(e) /\ Served(e)' = Served(e)

LEMMA SparedStays ==
  ASSUME NEW e \in Devices, SystemOK, Sound(e), Spared(e), now' \in Int, now' >= now
  PROVE  Sound(e)'
  <1>1. Awaiting(e)'
    BY DEF Sound, Awaiting, Spared
  <1>2. OneExchange(e)'
    BY DEF Sound, OneExchange, Spared
  <1>3. Flushes(e)'
    BY DEF Sound, Flushes, Unsynced, Answers, Spared
  <1>4. LeftStands(e)'
    BY DEF Sound, LeftStands, Spared
  <1>5. (page[e].state = "loaded" => UpToDate(page[e]))'
    BY DEF Sound, UpToDate, Spared
  <1>6. ASSUME journal'[e] # None PROVE journal'[e].ts <= Clock(e)'
    <2>1. journal[e] \in Entry /\ journal'[e] = journal[e] /\ journal[e].ts <= Clock(e)
      BY <1>6 DEF Sound, Spared, SystemOK
    <2>2. journal[e].ts \in Int /\ now \in Int /\ Skew[e] \in Int
      BY <2>1, SyncAssumption DEF SystemOK, Entry
    <2> QED
      BY <2>1, <2>2 DEF Clock
  <1> QED
    BY <1>1, <1>2, <1>3, <1>4, <1>5, <1>6 DEF Sound

\* The page of d, loaded, is q now: it waits for nothing, has just sent a
\* report, or waits for what it waited for.
Talk(d, q) ==
    \/ /\ q.awaits = "put" /\ Served(d)' = {} /\ reply'[d] = None
       /\ \E m : m.kind = "put" /\ Sent(d)' = {m}
    \/ q.awaits = "nothing" /\ Sent(d)' = {} /\ Served(d)' = {} /\ reply'[d] = None
    \/ /\ q.awaits = page[d].awaits /\ q.awaits # "flush"
       /\ Sent(d)' = Sent(d) /\ Served(d)' = Served(d) /\ reply'[d] = reply[d]

Step(d, q) ==
    /\ q \in Page /\ q.state = "loaded" /\ page' = [page EXCEPT ![d] = q]
    /\ UpToDate(q)
    /\ wire' \subseteq Report /\ \A m \in wire' : m.built <= now
    /\ \A e \in Devices \ {d} : Sent(e)' = Sent(e)
    /\ Talk(d, q)

\* The journal of d stays or is written.
Jots(d) ==
    \/ journal' = journal
    \/ \E e \in Entry : e.ts = Clock(d) /\ journal' = [journal EXCEPT ![d] = e]

FetchOK ==
    fetch' \in [Devices -> {"none", "asked"} \X {None}
                \cup {"answered"} \X (Record \cup {None})]

LEMMA StepKeeps ==
  ASSUME IInv, NEW d \in Devices, NEW q, Step(d, q), Jots(d),
         now' = now, rec' = rec, handled' \subseteq Answer,
         \A e \in Devices \ {d} : Served(e)' = Served(e) /\ reply'[e] = reply[e],
         reply' \in [Devices -> Answer \cup {None}],
         stream' \in [Devices -> Seq(Record)], FetchOK
  PROVE  IInv'
  <1>1. /\ page' \in [Devices -> Page] /\ page'[d] = q
        /\ \A e \in Devices \ {d} : page'[e] = page[e]
    BY DEF Step, IInv, SystemOK
  <1>2. /\ journal' \in [Devices -> Entry \cup {None}]
        /\ \A e \in Devices \ {d} : journal'[e] = journal[e]
        /\ journal'[d] # None => journal'[d].ts <= Clock(d)
    <2>1. Clock(d) \in Int
      BY SyncAssumption DEF Clock, IInv, SystemOK
    <2>2. CASE journal' = journal
      BY <2>2 DEF IInv, SystemOK, Sound
    <2>3. CASE \E e \in Entry : e.ts = Clock(d) /\ journal' = [journal EXCEPT ![d] = e]
      BY <2>1, <2>3 DEF IInv, SystemOK
    <2> QED
      BY <2>2, <2>3 DEF Jots
  <1>3. SystemOK'
    BY <1>1, <1>2 DEF IInv, SystemOK, Step, FetchOK
  <1>4. Awaiting(d)' /\ q.awaits \in {"nothing", "put"}
    BY <1>1 DEF Step, Talk, Awaiting, Page
  <1>5. OneExchange(d)'
    <2>1. CASE /\ q.awaits = "put" /\ Served(d)' = {} /\ reply'[d] = None
               /\ \E m : m.kind = "put" /\ Sent(d)' = {m}
      BY <1>1, <2>1 DEF OneExchange
    <2>2. CASE q.awaits = "nothing" /\ Sent(d)' = {} /\ Served(d)' = {} /\ reply'[d] = None
      BY <1>1, <2>2 DEF OneExchange
    <2>3. CASE /\ q.awaits = page[d].awaits
               /\ Sent(d)' = Sent(d) /\ Served(d)' = Served(d) /\ reply'[d] = reply[d]
      BY <1>1, <2>3, SMTT(20) DEF OneExchange, IInv, Sound
    <2> QED
      BY <2>1, <2>2, <2>3 DEF Step, Talk
  <1>6. Flushes(d)'
    BY <1>1, <1>4, <1>5 DEF Flushes, OneExchange, Step
  <1>7. Sound(d)'
    BY <1>1, <1>2, <1>4, <1>5, <1>6 DEF Sound, LeftStands, Step, Clock
  <1>8. ASSUME NEW e \in Devices \ {d} PROVE Sound(e)'
    <2>1. Spared(e)
      BY <1>1, <1>2 DEF Spared, Step
    <2>2. now' \in Int /\ now' >= now
      BY DEF IInv, SystemOK
    <2> QED
      BY <2>1, <2>2, SparedStays DEF IInv
  <1>9. \A m \in wire' : m.built <= now'
    BY DEF Step
  <1> QED
    BY <1>3, <1>7, <1>8, <1>9 DEF IInv

-----------------------------------------------------------------------------
(* Sending.                                                                *)

LEMMA ReportIs ==
  ASSUME SystemOK, NEW d \in Devices, NEW p \in Page, NEW kind \in {"put", "beacon"}
  PROVE  /\ ReportOf(d, p, kind) \in Report
         /\ ReportOf(d, p, kind).dev = d /\ ReportOf(d, p, kind).kind = kind
         /\ ReportOf(d, p, kind).built = now
  <1>1. Clock(d) \in Int /\ p.listened \in Int /\ p.pos \in Positions /\ now \in Nat
    BY SyncAssumption DEF Clock, SystemOK, Page
  <1> QED
    BY <1>1 DEF ReportOf, Report

\* A page that waits for nothing has nothing on its way.
LEMMA NothingOut ==
  ASSUME SystemOK, NEW d \in Devices, OneExchange(d), page[d].awaits = "nothing"
  PROVE  Sent(d) = {} /\ Served(d) = {} /\ reply[d] = None
  <1>1. ASSUME NEW m \in Sent(d) PROVE FALSE
    <2>1. m \in Report /\ m.kind # "beacon" /\ m.kind = "nothing"
      BY <1>1 DEF Sent, OneExchange, SystemOK
    <2> QED
      BY <2>1 DEF Report
  <1>2. ASSUME NEW a \in Served(d) PROVE FALSE
    <2>1. a \in Answer /\ a.kind = "nothing"
      BY <1>2 DEF Served, OneExchange, SystemOK
    <2> QED
      BY <2>1 DEF Answer
  <1>3. reply[d] = None
    <2> SUFFICES ASSUME reply[d] # None PROVE FALSE
      OBVIOUS
    <2>1. reply[d] \in Answer /\ reply[d].kind = "nothing"
      BY DEF OneExchange, SystemOK
    <2> QED
      BY <2>1 DEF Answer
  <1> QED
    BY <1>1, <1>2, <1>3

LEMMA SendingIs ==
  ASSUME NEW p \in Page
  PROVE  /\ Sending(p) \in Page
         /\ Sending(p).state = p.state /\ Sending(p).playing = p.playing
         /\ UpToDate(Sending(p))
         /\ p.awaits = "nothing" => Sending(p).awaits = "put"
         /\ p.awaits # "nothing" => Sending(p).awaits = p.awaits
  <1>1. CASE p.awaits = "nothing"
    BY <1>1 DEF Sending, Page, UpToDate
  <1>2. CASE p.awaits # "nothing"
    BY <1>2 DEF Sending, Page, UpToDate
  <1> QED
    BY <1>1, <1>2

\* One more message of d on the wire.
LEMMA WireGrows ==
  ASSUME IInv, NEW d \in Devices, NEW m \in Report, m.dev = d, m.built = now,
         wire' = wire \cup {m}
  PROVE  /\ wire' \subseteq Report /\ \A k \in wire' : k.built <= now
         /\ \A e \in Devices \ {d} : Sent(e)' = Sent(e)
         /\ m.kind = "beacon" => Sent(d)' = Sent(d)
         /\ m.kind # "beacon" => Sent(d)' = Sent(d) \cup {m}
  <1>1. wire' \subseteq Report /\ \A k \in wire' : k.built <= now
    BY DEF IInv, SystemOK
  <1>2. \A e \in Devices \ {d} : Sent(e)' = Sent(e)
    BY DEF Sent
  <1>3. m.kind = "beacon" => Sent(d)' = Sent(d)
    BY DEF Sent
  <1>4. m.kind # "beacon" => Sent(d)' = Sent(d) \cup {m}
    BY DEF Sent
  <1> QED
    BY <1>1, <1>2, <1>3, <1>4

\* A loaded page that says p, whatever it waits for: one step of d.
LEMMA SendStep ==
  ASSUME IInv, NEW d \in Devices, page[d].state = "loaded",
         NEW p \in Page, p.state = "loaded", p.awaits = page[d].awaits, SendAs(d, p),
         handled' = handled, reply' = reply
  PROVE  \E q : Step(d, q)
  <1> DEFINE q == Sending(p)
             m == ReportOf(d, p, "put")
  <1>1. /\ q \in Page /\ q.state = "loaded" /\ page' = [page EXCEPT ![d] = q]
        /\ UpToDate(q)
        /\ p.awaits = "nothing" => q.awaits = "put"
        /\ p.awaits # "nothing" => q.awaits = p.awaits
    BY SendingIs DEF SendAs
  <1>2. m \in Report /\ m.dev = d /\ m.kind = "put" /\ m.built = now
    BY ReportIs DEF IInv
  <1>3. wire' = IF p.awaits = "nothing" THEN wire \cup {m} ELSE wire
    BY DEF SendAs
  <1> HIDE DEF q, m
  <1>4. \A e \in Devices : Served(e)' = Served(e)
    BY DEF Served
  <1>5. CASE p.awaits = "nothing"
    <2>1. Sent(d) = {} /\ Served(d) = {} /\ reply[d] = None
      BY <1>5, NothingOut DEF IInv, Sound
    <2>2. wire' = wire \cup {m}
      BY <1>3, <1>5
    <2>3. /\ wire' \subseteq Report /\ \A k \in wire' : k.built <= now
          /\ \A e \in Devices \ {d} : Sent(e)' = Sent(e)
          /\ Sent(d)' = Sent(d) \cup {m}
      BY <1>2, <2>2, WireGrows
    <2>4. Talk(d, q)
      BY <1>1, <1>2, <1>4, <1>5, <2>1, <2>3 DEF Talk
    <2> QED
      BY <1>1, <2>3, <2>4 DEF Step
  <1>6. CASE p.awaits # "nothing"
    <2>1. wire' = wire
      BY <1>3, <1>6
    <2>2. \A e \in Devices : Sent(e)' = Sent(e)
      BY <2>1 DEF Sent
    <2>3. q.awaits # "flush"
      BY <1>1, <1>6 DEF IInv, Sound, Awaiting
    <2>4. Talk(d, q)
      BY <1>1, <1>4, <1>6, <2>2, <2>3 DEF Talk
    <2> QED
      BY <1>1, <2>1, <2>2, <2>4 DEF Step, IInv, SystemOK
  <1> QED
    BY <1>5, <1>6

\* A loaded page that says nothing.
LEMMA BecomeStep ==
  ASSUME IInv, NEW d \in Devices, page[d].state = "loaded",
         NEW p \in Page, p.state = "loaded", p.awaits = page[d].awaits, UpToDate(p),
         BecomeAs(d, p), handled' = handled, reply' = reply
  PROVE  \E q : Step(d, q)
  <1>1. page' = [page EXCEPT ![d] = p] /\ wire' = wire
    BY DEF BecomeAs
  <1>2. \A e \in Devices : Sent(e)' = Sent(e) /\ Served(e)' = Served(e)
    BY <1>1 DEF Sent, Served
  <1>3. p.awaits # "flush"
    BY DEF IInv, Sound, Awaiting
  <1>4. Talk(d, p)
    BY <1>2, <1>3 DEF Talk
  <1> QED
    BY <1>1, <1>2, <1>4 DEF Step, IInv, SystemOK

\* A loaded page that deals with what it waited for, answered or failed.
LEMMA SettleStep ==
  ASSUME IInv, NEW d \in Devices, NEW p \in Page, p.state = "loaded",
         p.awaits # "nothing", UpToDate(p), NEW left,
         left \subseteq Report, \A m \in left : m.built <= now,
         \A e \in Devices \ {d} : {m \in left : m.dev = e /\ m.kind # "beacon"} = Sent(e),
         \A m \in left : m.dev = d => m.kind = "beacon",
         Served(d)' = {}, reply'[d] = None,
         NEW q, q = [p EXCEPT !.awaits = "nothing", !.pending = FALSE],
         page' = [page EXCEPT ![d] = IF p.pending THEN Sending(q) ELSE q],
         wire' = IF p.pending THEN left \cup {ReportOf(d, q, "put")} ELSE left
  PROVE  \E r : Step(d, r)
  <1>1. /\ q \in Page /\ q.state = "loaded" /\ q.awaits = "nothing"
        /\ q.pos = p.pos /\ q.sent = p.sent /\ q.playing = p.playing
    BY DEF Page
  <1>2. CASE p.pending
    <2>1. PICK r \in Page : /\ r = Sending(q) /\ r.state = "loaded" /\ r.awaits = "put"
                            /\ UpToDate(r)
      BY <1>1, SendingIs
    <2>2. PICK m \in Report : /\ m = ReportOf(d, q, "put")
                              /\ m.dev = d /\ m.kind = "put" /\ m.built = now
      BY <1>1, ReportIs DEF IInv
    <2>3. page' = [page EXCEPT ![d] = r] /\ wire' = left \cup {m}
      BY <1>2, <2>1, <2>2
    <2>4. wire' \subseteq Report /\ \A k \in wire' : k.built <= now
      BY <2>2, <2>3 DEF IInv, SystemOK
    <2>5. \A e \in Devices \ {d} : Sent(e)' = Sent(e)
      BY <2>2, <2>3 DEF Sent
    <2>6. Sent(d)' = {m}
      BY <2>2, <2>3 DEF Sent
    <2>7. Talk(d, r)
      BY <2>1, <2>2, <2>6 DEF Talk
    <2> QED
      BY <2>1, <2>3, <2>4, <2>5, <2>7 DEF Step
  <1>3. CASE ~p.pending
    <2>1. page' = [page EXCEPT ![d] = q] /\ wire' = left
      BY <1>3
    <2>2. UpToDate(q)
      BY <1>1, <1>3 DEF UpToDate
    <2>3. \A e \in Devices \ {d} : Sent(e)' = Sent(e)
      BY <2>1 DEF Sent
    <2>4. Sent(d)' = {}
      BY <2>1 DEF Sent
    <2>5. Talk(d, q)
      BY <1>1, <2>4 DEF Talk
    <2> QED
      BY <1>1, <2>1, <2>2, <2>3, <2>5 DEF Step
  <1> QED
    BY <1>2, <1>3

-----------------------------------------------------------------------------
(* What a loaded page makes of a record.                                   *)

LEMMA AcceptedIs ==
  ASSUME NEW p \in Page, NEW r \in Record
  PROVE  /\ Accepted(p, r) \in Page
         /\ Accepted(p, r).state = p.state /\ Accepted(p, r).awaits = p.awaits
         /\ Accepted(p, r).pending = p.pending
         /\ UpToDate(p) => UpToDate(Accepted(p, r))
  BY DEF Accepted, Page, Record, UpToDate

LEMMA MovedIs ==
  ASSUME SystemOK, NEW d \in Devices, NEW p \in Page, NEW r \in Record
  PROVE  /\ Moved(d, p, r) \in Page
         /\ Moved(d, p, r).state = p.state /\ Moved(d, p, r).awaits = p.awaits
         /\ Moved(d, p, r).pending = p.pending
         /\ ~Moves(p, r) /\ UpToDate(p) => UpToDate(Moved(d, p, r))
  <1>1. Clock(d) \in Int
    BY SyncAssumption DEF Clock, SystemOK
  <1>2. CASE Moves(p, r)
    BY <1>1, <1>2 DEF Moved, Page, Record
  <1>3. CASE ~Moves(p, r)
    BY <1>3, AcceptedIs DEF Moved
  <1> QED
    BY <1>2, <1>3

LEMMA WriteIs ==
  ASSUME SystemOK, NEW d \in Devices, NEW p \in Page, NEW synced \in BOOLEAN,
         WriteJournal(d, p, synced)
  PROVE  Jots(d)
  <1>1. Clock(d) \in Int /\ p.pos \in Positions /\ p.sAt \in Int
    BY SyncAssumption DEF Clock, SystemOK, Page
  <1>2. JournalEntry(d, p, synced) \in Entry /\ JournalEntry(d, p, synced).ts = Clock(d)
    BY <1>1 DEF JournalEntry, Entry
  <1> QED
    BY <1>2 DEF WriteJournal, Jots

\* Nothing of the page changes.
LEMMA SameStep ==
  ASSUME IInv, NEW d \in Devices, page[d].state = "loaded",
         page' = page, wire' = wire, handled' = handled, reply' = reply
  PROVE  \E q : Step(d, q)
  <1>1. page[d] \in Page /\ UpToDate(page[d])
    BY DEF IInv, SystemOK, Sound
  <1>2. BecomeAs(d, page[d])
    BY DEF BecomeAs, IInv, SystemOK
  <1> QED
    BY <1>1, <1>2, BecomeStep

LEMMA AdoptStep ==
  ASSUME IInv, NEW d \in Devices, page[d].state = "loaded", NEW r \in Record,
         MaybeAdopt(d, r), handled' = handled, reply' = reply
  PROVE  (\E q : Step(d, q)) /\ Jots(d)
  <1>1. page[d] \in Page /\ UpToDate(page[d])
    BY DEF IInv, SystemOK, Sound
  <1>2. CASE r.dev = d
    <2>1. PICK p \in Page : /\ p = Accepted(page[d], r) /\ p.state = "loaded"
                            /\ p.awaits = page[d].awaits /\ UpToDate(p)
      BY <1>1, AcceptedIs
    <2>2. BecomeAs(d, p) /\ WriteJournal(d, p, TRUE)
      BY <1>2, <2>1 DEF MaybeAdopt
    <2> QED
      BY <2>1, <2>2, BecomeStep, WriteIs DEF IInv
  <1>3. CASE r.dev # d /\ ~Newer(page[d], r)
    <2>1. page' = page /\ wire' = wire /\ journal' = journal
      BY <1>3 DEF MaybeAdopt
    <2> QED
      BY <2>1, SameStep DEF Jots
  <1>4. CASE r.dev # d /\ Newer(page[d], r)
    <2>1. PICK p \in Page : /\ p = Moved(d, page[d], r) /\ p.state = "loaded"
                            /\ p.awaits = page[d].awaits
                            /\ ~Moves(page[d], r) => UpToDate(p)
      BY <1>1, MovedIs DEF IInv
    <2>2. WriteJournal(d, p, TRUE)
      BY <1>4, <2>1 DEF MaybeAdopt
    <2>3. CASE Moves(page[d], r)
      <3>1. SendAs(d, p)
        BY <1>4, <2>1, <2>3 DEF MaybeAdopt
      <3> QED
        BY <2>1, <2>2, <3>1, SendStep, WriteIs DEF IInv
    <2>4. CASE ~Moves(page[d], r)
      <3>1. BecomeAs(d, p)
        BY <1>4, <2>1, <2>4 DEF MaybeAdopt
      <3> QED
        BY <2>1, <2>2, <2>4, <3>1, BecomeStep, WriteIs DEF IInv
    <2> QED
      BY <2>3, <2>4
  <1> QED
    BY <1>2, <1>3, <1>4

-----------------------------------------------------------------------------
(* The listener's actions keep the invariant.                              *)

\* A step of a loaded page that leaves server and network alone.
LEMMA OwnStepKeeps ==
  ASSUME IInv, NEW d \in Devices, \E q : Step(d, q), Jots(d),
         now' = now, rec' = rec, handled' = handled, reply' = reply,
         stream' \in [Devices -> Seq(Record)], FetchOK
  PROVE  IInv'
  <1>1. PICK q : Step(d, q)
    OBVIOUS
  <1>2. \A e \in Devices \ {d} : Served(e)' = Served(e) /\ reply'[e] = reply[e]
    BY DEF Served
  <1>3. handled' \subseteq Answer /\ reply' \in [Devices -> Answer \cup {None}]
    BY DEF IInv, SystemOK
  <1> QED
    BY <1>1, <1>2, <1>3, StepKeeps

LEMMA ActKeeps ==
  ASSUME IInv, NEW d \in Devices, Act(d), \E q : Step(d, q), Jots(d)
  PROVE  IInv'
  <1>1. /\ now' = now /\ rec' = rec /\ handled' = handled /\ reply' = reply
        /\ stream' = stream /\ fetch' = fetch
    BY DEF Act
  <1>2. stream' \in [Devices -> Seq(Record)] /\ FetchOK
    BY <1>1 DEF IInv, SystemOK, FetchOK
  <1> QED
    BY <1>1, <1>2, OwnStepKeeps

\* The page after a listen.
LEMMA ListenedIs ==
  ASSUME SystemOK, NEW d \in Devices, NEW p \in Page
  PROVE  /\ Listened(d, p) \in Page
         /\ Listened(d, p).state = p.state /\ Listened(d, p).awaits = p.awaits
         /\ Listened(d, p).pos = p.pos /\ (p.playing => Listened(d, p).playing)
         /\ UpToDate(p) => UpToDate(Listened(d, p))
  <1>1. Clock(d) \in Int
    BY SyncAssumption DEF Clock, SystemOK
  <1> QED
    BY <1>1 DEF Listened, Page, UpToDate

\* A page but for one field.
LEMMA PlayingIs ==
  ASSUME NEW p \in Page, NEW v \in BOOLEAN
  PROVE  \E q \in Page : /\ q = [p EXCEPT !.playing = v]
                         /\ q.state = p.state /\ q.awaits = p.awaits
                         /\ v /\ UpToDate(p) => UpToDate(q)
  <1> DEFINE q == [p EXCEPT !.playing = v]
  <1>1. /\ q \in Page /\ q.state = p.state /\ q.awaits = p.awaits
        /\ v /\ UpToDate(p) => UpToDate(q)
    BY DEF Page, UpToDate
  <1> QED
    BY <1>1

LEMMA HiddenIs ==
  ASSUME NEW p \in Page, NEW v \in BOOLEAN
  PROVE  \E q \in Page : /\ q = [p EXCEPT !.hidden = v]
                         /\ q.state = p.state /\ q.awaits = p.awaits
                         /\ UpToDate(p) => UpToDate(q)
  <1> DEFINE q == [p EXCEPT !.hidden = v]
  <1>1. /\ q \in Page /\ q.state = p.state /\ q.awaits = p.awaits
        /\ UpToDate(p) => UpToDate(q)
    BY DEF Page, UpToDate
  <1> QED
    BY <1>1

LEMMA PosIs ==
  ASSUME NEW p \in Page, NEW pos \in Positions
  PROVE  \E q \in Page : /\ q = [p EXCEPT !.pos = pos]
                         /\ q.state = p.state /\ q.awaits = p.awaits
                         /\ p.playing /\ UpToDate(p) => UpToDate(q)
  <1> DEFINE q == [p EXCEPT !.pos = pos]
  <1>1. /\ q \in Page /\ q.state = p.state /\ q.awaits = p.awaits
        /\ p.playing /\ UpToDate(p) => UpToDate(q)
    BY DEF Page, UpToDate
  <1> QED
    BY <1>1

LEMMA PlayKeeps ==
  ASSUME IInv, NEW d \in Devices, Play(d)
  PROVE  IInv'
  <1>1. /\ Act(d) /\ page[d].state = "loaded" /\ page[d] \in Page /\ journal' = journal
        /\ UpToDate(page[d])
        /\ handled' = handled /\ reply' = reply
    BY DEF Play, Act, IInv, SystemOK, Sound
  <1>2. PICK l \in Page : /\ l = Listened(d, page[d]) /\ l.state = "loaded"
                          /\ l.awaits = page[d].awaits /\ UpToDate(l)
    BY <1>1, ListenedIs DEF IInv
  <1>3. PICK p \in Page : /\ p = [l EXCEPT !.playing = TRUE] /\ p.state = "loaded"
                          /\ p.awaits = page[d].awaits /\ UpToDate(p)
    BY <1>2, PlayingIs
  <1>4. BecomeAs(d, p)
    BY <1>2, <1>3 DEF Play
  <1> QED
    BY <1>1, <1>3, <1>4, BecomeStep, ActKeeps DEF Jots

LEMMA ListenKeeps ==
  ASSUME IInv, NEW d \in Devices, Listen(d)
  PROVE  IInv'
  <1>1. /\ page[d].state = "loaded" /\ page[d] \in Page /\ page[d].playing
        /\ page[d].pos + 1 \in Positions /\ UpToDate(page[d])
        /\ now' = now /\ rec' = rec /\ handled' = handled /\ reply' = reply
        /\ stream' = stream /\ fetch' = fetch
    BY DEF Listen, HasMore, budget, IInv, SystemOK, Sound
  <1>2. PICK l \in Page : /\ l = Listened(d, page[d]) /\ l.state = "loaded"
                          /\ l.awaits = page[d].awaits /\ l.pos = page[d].pos
                          /\ l.playing /\ UpToDate(l)
    BY <1>1, ListenedIs DEF IInv
  <1>3. PICK p \in Page : /\ p = [l EXCEPT !.pos = @ + 1] /\ p.state = "loaded"
                          /\ p.awaits = page[d].awaits /\ UpToDate(p)
    BY <1>1, <1>2, PosIs
  <1>4. (SendAs(d, p) \/ BecomeAs(d, p)) /\ WriteJournal(d, p, FALSE)
    BY <1>2, <1>3 DEF Listen
  <1>5. (\E q : Step(d, q)) /\ Jots(d)
    BY <1>1, <1>3, <1>4, SendStep, BecomeStep, WriteIs DEF IInv
  <1>6. stream' \in [Devices -> Seq(Record)] /\ FetchOK
    BY <1>1 DEF IInv, SystemOK, FetchOK
  <1> QED
    BY <1>1, <1>5, <1>6, OwnStepKeeps

LEMMA PauseKeeps ==
  ASSUME IInv, NEW d \in Devices, Pause(d)
  PROVE  IInv'
  <1>1. /\ Act(d) /\ page[d].state = "loaded" /\ page[d] \in Page
        /\ handled' = handled /\ reply' = reply
    BY DEF Pause, Act, IInv, SystemOK
  <1>2. PICK p \in Page : /\ p = [page[d] EXCEPT !.playing = FALSE] /\ p.state = "loaded"
                          /\ p.awaits = page[d].awaits
    <2>1. \E q \in Page : /\ q = [page[d] EXCEPT !.playing = FALSE]
                          /\ q.state = page[d].state /\ q.awaits = page[d].awaits
                          /\ FALSE => UpToDate(q)
      BY <1>1, PlayingIs, Zenon
    <2> QED
      BY <1>1, <2>1
  <1>3. SendAs(d, p) /\ (WriteJournal(d, p, TRUE) \/ WriteJournal(d, p, FALSE))
    BY <1>2 DEF Pause
  <1>4. Jots(d)
    BY <1>3, WriteIs DEF IInv
  <1> QED
    BY <1>1, <1>2, <1>3, <1>4, SendStep, ActKeeps

LEMMA SeekKeeps ==
  ASSUME IInv, NEW d \in Devices, NEW pos \in Positions, Seek(d, pos)
  PROVE  IInv'
  <1>1. /\ Act(d) /\ page[d].state = "loaded" /\ page[d] \in Page
        /\ handled' = handled /\ reply' = reply
    BY DEF Seek, Act, IInv, SystemOK
  <1>2. PICK l \in Page : /\ l = Listened(d, page[d]) /\ l.state = "loaded"
                          /\ l.awaits = page[d].awaits
    BY <1>1, ListenedIs DEF IInv
  <1>3. PICK p \in Page : /\ p = [l EXCEPT !.pos = pos] /\ p.state = "loaded"
                          /\ p.awaits = page[d].awaits
    BY <1>2, PosIs
  <1>4. SendAs(d, p) /\ WriteJournal(d, p, TRUE)
    BY <1>2, <1>3 DEF Seek
  <1>5. Jots(d)
    BY <1>4, WriteIs DEF IInv
  <1> QED
    BY <1>1, <1>3, <1>4, <1>5, SendStep, ActKeeps

LEMMA ChangeRateKeeps ==
  ASSUME IInv, NEW d \in Devices, ChangeRate(d)
  PROVE  IInv'
  <1>1. /\ Act(d) /\ page[d].state = "loaded" /\ page[d] \in Page
        /\ handled' = handled /\ reply' = reply
        /\ SendAs(d, page[d]) /\ journal' = journal
    BY DEF ChangeRate, Act, IInv, SystemOK
  <1> QED
    BY <1>1, SendStep, ActKeeps DEF Jots

LEMMA HideKeeps ==
  ASSUME IInv, NEW d \in Devices, Hide(d)
  PROVE  IInv'
  <1>1. /\ Act(d) /\ page[d].state = "loaded" /\ page[d] \in Page
        /\ UpToDate(page[d]) /\ page[d].awaits # "flush"
        /\ handled' = handled /\ reply' = reply
    BY DEF Hide, Act, IInv, SystemOK, Sound, Awaiting
  <1>2. PICK q \in Page : /\ q = [page[d] EXCEPT !.hidden = TRUE] /\ q.state = "loaded"
                          /\ q.awaits = page[d].awaits /\ UpToDate(q)
    BY <1>1, HiddenIs
  <1>3. PICK m \in Report : /\ m = ReportOf(d, page[d], "beacon")
                            /\ m.dev = d /\ m.kind = "beacon" /\ m.built = now
    BY <1>1, ReportIs DEF IInv
  <1>4. page' = [page EXCEPT ![d] = q] /\ wire' = wire \cup {m}
    BY <1>2, <1>3, <1>1 DEF Hide, IInv, SystemOK
  <1>5. /\ wire' \subseteq Report /\ \A k \in wire' : k.built <= now
        /\ \A e \in Devices \ {d} : Sent(e)' = Sent(e)
        /\ Sent(d)' = Sent(d)
    BY <1>3, <1>4, WireGrows
  <1>6. Served(d)' = Served(d)
    BY <1>1 DEF Served
  <1>7. Talk(d, q)
    BY <1>1, <1>2, <1>5, <1>6 DEF Talk
  <1>8. Step(d, q)
    BY <1>2, <1>4, <1>5, <1>7 DEF Step
  <1>9. Jots(d)
    <2>1. (journal[d] # None /\ journal[d].synced) \in BOOLEAN
      OBVIOUS
    <2>2. WriteJournal(d, page[d], journal[d] # None /\ journal[d].synced)
      BY DEF Hide
    <2> QED
      BY <1>1, <2>1, <2>2, WriteIs DEF IInv
  <1> QED
    BY <1>1, <1>8, <1>9, ActKeeps

LEMMA ShowKeeps ==
  ASSUME IInv, NEW d \in Devices, Show(d)
  PROVE  IInv'
  <1>1. /\ page[d].state = "loaded" /\ page[d] \in Page /\ UpToDate(page[d])
        /\ now' = now /\ rec' = rec /\ handled' = handled /\ reply' = reply
        /\ stream' = stream /\ wire' = wire /\ journal' = journal
    BY DEF Show, budget, IInv, SystemOK, Sound
  <1>2. PICK q \in Page : /\ q = [page[d] EXCEPT !.hidden = FALSE] /\ q.state = "loaded"
                          /\ q.awaits = page[d].awaits /\ UpToDate(q)
    BY <1>1, HiddenIs
  <1>3. BecomeAs(d, q)
    BY <1>1, <1>2 DEF Show, BecomeAs, IInv, SystemOK
  <1>4. FetchOK
    BY DEF Show, FetchOK, IInv, SystemOK
  <1>5. stream' \in [Devices -> Seq(Record)]
    BY <1>1 DEF IInv, SystemOK
  <1> QED
    BY <1>1, <1>2, <1>3, <1>4, <1>5, BecomeStep, OwnStepKeeps DEF Jots

-----------------------------------------------------------------------------
(* Answers and events keep the invariant.                                  *)

\* Only what is queued for a page, or fetched, changes.
LEMMA QuietKeeps ==
  ASSUME IInv, now' = now, rec' = rec, wire' = wire, handled' = handled, page' = page,
         journal' = journal, reply' = reply, stream' \in [Devices -> Seq(Record)], FetchOK
  PROVE  IInv'
  <1>1. SystemOK' /\ \A m \in wire' : m.built <= now'
    BY DEF IInv, SystemOK, FetchOK
  <1>2. ASSUME NEW e \in Devices PROVE Sound(e)'
    <2>1. Spared(e)
      BY DEF Spared, Sent, Served
    <2>2. now' \in Int /\ now' >= now
      BY DEF IInv, SystemOK
    <2> QED
      BY <2>1, <2>2, SparedStays DEF IInv
  <1> QED
    BY <1>1, <1>2 DEF IInv

LEMMA OpenBookPageKeeps ==
  ASSUME IInv, NEW d \in Devices, OpenBookPage(d)
  PROVE  IInv'
  <1>1. /\ now' = now /\ rec' = rec /\ wire' = wire /\ handled' = handled /\ page' = page
        /\ journal' = journal /\ reply' = reply /\ stream' = stream
        /\ fetch' = [fetch EXCEPT ![d] = <<"asked", None>>]
    BY DEF OpenBookPage
  <1>2. stream' \in [Devices -> Seq(Record)] /\ FetchOK
    BY <1>1 DEF IInv, SystemOK, FetchOK
  <1> QED
    BY <1>1, <1>2, QuietKeeps

LEMMA AnswerFetchKeeps ==
  ASSUME IInv, NEW d \in Devices, AnswerFetch(d)
  PROVE  IInv'
  <1>1. /\ now' = now /\ rec' = rec /\ wire' = wire /\ handled' = handled /\ page' = page
        /\ journal' = journal /\ reply' = reply /\ stream' = stream
        /\ fetch' = [fetch EXCEPT ![d] = <<"answered", rec>>]
    BY DEF AnswerFetch
  <1>2. stream' \in [Devices -> Seq(Record)] /\ FetchOK
    BY <1>1 DEF IInv, SystemOK, FetchOK
  <1> QED
    BY <1>1, <1>2, QuietKeeps

\* What was fetched.
LEMMA FetchedIs ==
  ASSUME SystemOK, NEW d \in Devices, fetch[d][1] = "answered"
  PROVE  fetch[d][2] \in Record \cup {None}
  BY DEF SystemOK

LEMMA FetchEnds ==
  ASSUME SystemOK, NEW d \in Devices, fetch' = [fetch EXCEPT ![d] = NoFetch]
  PROVE  FetchOK
  BY DEF SystemOK, FetchOK, NoFetch

LEMMA TakeReconciledKeeps ==
  ASSUME IInv, NEW d \in Devices, TakeReconciled(d)
  PROVE  IInv'
  <1>1. /\ page[d].state = "loaded" /\ page[d] \in Page
        /\ now' = now /\ rec' = rec /\ handled' = handled /\ reply' = reply
        /\ stream' = stream
        /\ fetch[d][2] \in Record \cup {None}
    BY FetchedIs DEF TakeReconciled, budget, IInv, SystemOK
  <1>2. stream' \in [Devices -> Seq(Record)] /\ FetchOK
    BY <1>1, FetchEnds DEF TakeReconciled, IInv, SystemOK
  <1>3. (\E q : Step(d, q)) /\ Jots(d)
    <2>1. CASE fetch[d][2] = None
      <3>1. page' = page /\ wire' = wire /\ journal' = journal
        BY <2>1 DEF TakeReconciled
      <3> QED
        BY <1>1, <3>1, SameStep DEF Jots
    <2>2. CASE fetch[d][2] # None /\ page[d].playing
      <3>1. SendAs(d, page[d]) /\ journal' = journal
        BY <2>2 DEF TakeReconciled
      <3> QED
        BY <1>1, <3>1, SendStep DEF Jots
    <2>3. CASE fetch[d][2] # None /\ ~page[d].playing
      <3>1. MaybeAdopt(d, fetch[d][2])
        BY <2>3 DEF TakeReconciled
      <3> QED
        BY <1>1, <2>3, <3>1, AdoptStep
    <2> QED
      BY <2>1, <2>2, <2>3
  <1> QED
    BY <1>1, <1>2, <1>3, OwnStepKeeps

LEMMA TakeEventKeeps ==
  ASSUME IInv, NEW d \in Devices, TakeEvent(d)
  PROVE  IInv'
  <1>1. /\ now' = now /\ rec' = rec /\ handled' = handled /\ reply' = reply
        /\ fetch' = fetch
    BY DEF TakeEvent, budget
  <1>2. PICK r \in Record : r = Head(stream[d])
    BY DEF TakeEvent, IInv, SystemOK
  <1>3. stream' \in [Devices -> Seq(Record)]
    BY DEF TakeEvent, IInv, SystemOK
  <1>4. FetchOK
    BY <1>1 DEF IInv, SystemOK, FetchOK
  <1>5. CASE page[d].state # "loaded" \/ (page[d].playing /\ r.dev # d)
    <2>1. page' = page /\ wire' = wire /\ journal' = journal
      BY <1>2, <1>5 DEF TakeEvent
    <2> QED
      BY <1>1, <1>3, <1>4, <2>1, QuietKeeps
  <1>6. CASE ~(page[d].state # "loaded" \/ (page[d].playing /\ r.dev # d))
    <2>1. MaybeAdopt(d, r) /\ page[d].state = "loaded"
      BY <1>2, <1>6 DEF TakeEvent
    <2>2. (\E q : Step(d, q)) /\ Jots(d)
      BY <1>1, <2>1, AdoptStep
    <2> QED
      BY <1>1, <1>3, <1>4, <2>2, OwnStepKeeps
  <1> QED
    BY <1>5, <1>6

\* An answer to a report of a loaded page is taken.
LEMMA SettleKeeps ==
  ASSUME IInv, NEW d \in Devices, reply[d] # None, reply[d].kind = "put",
         NEW p \in Page, p.state = "loaded", p.awaits = page[d].awaits, UpToDate(p),
         Settle(d, p), Jots(d), reply' = [reply EXCEPT ![d] = None],
         now' = now, rec' = rec, handled' = handled, stream' = stream, fetch' = fetch
  PROVE  IInv'
  <1>1. /\ page[d].awaits = "put" /\ Sent(d) = {} /\ Served(d) = {}
    BY DEF IInv, Sound, OneExchange
  <1>2. PICK q \in Page : q = [p EXCEPT !.awaits = "nothing", !.pending = FALSE]
    BY DEF Page
  <1>3. q.awaits = "nothing"
    BY <1>2 DEF Page
  <1>4. /\ page' = [page EXCEPT ![d] = IF p.pending THEN Sending(q) ELSE q]
        /\ wire' = IF p.pending THEN wire \cup {ReportOf(d, q, "put")} ELSE wire
    BY <1>2, <1>3 DEF Settle, SendAs, BecomeAs
  <1>5. Served(d)' = {} /\ reply'[d] = None
    BY <1>1 DEF Served, IInv, SystemOK
  <1>6. \A m \in wire : m.dev = d => m.kind = "beacon"
    BY <1>1 DEF Sent
  <1>7. \A e \in Devices \ {d} : {m \in wire : m.dev = e /\ m.kind # "beacon"} = Sent(e)
    BY DEF Sent
  <1>8. wire \subseteq Report /\ \A m \in wire : m.built <= now
    BY DEF IInv, SystemOK
  <1>9. p.awaits # "nothing"
    BY <1>1
  <1>10. \E r : Step(d, r)
    BY <1>2, <1>4, <1>5, <1>6, <1>7, <1>8, <1>9, SettleStep
  <1>11. /\ \A e \in Devices \ {d} : Served(e)' = Served(e) /\ reply'[e] = reply[e]
         /\ handled' \subseteq Answer /\ reply' \in [Devices -> Answer \cup {None}]
         /\ stream' \in [Devices -> Seq(Record)] /\ FetchOK
    BY DEF Served, IInv, SystemOK, FetchOK
  <1> QED
    BY <1>10, <1>11, StepKeeps

\* A report that was answered is a loaded page's.
LEMMA RepliedIs ==
  ASSUME IInv, NEW d \in Devices, reply[d] # None
  PROVE  /\ reply[d].rec \in Record /\ reply[d].kind = page[d].awaits
         /\ reply[d].kind = "put" =>
              page[d].state = "loaded" /\ page[d] \in Page /\ UpToDate(page[d])
         /\ reply[d].kind = "flush" => page[d].state = "flushing"
  BY DEF IInv, SystemOK, Sound, OneExchange, Awaiting, Answer

LEMMA TakeAcceptedKeeps ==
  ASSUME IInv, NEW d \in Devices, TakeAccepted(d)
  PROVE  IInv'
  <1>1. /\ reply[d] # None /\ reply[d].kind = "put"
        /\ now' = now /\ rec' = rec /\ handled' = handled /\ stream' = stream
        /\ fetch' = fetch /\ reply' = [reply EXCEPT ![d] = None]
    BY DEF TakeAccepted, budget
  <1>2. PICK p \in Page : /\ p = Accepted(page[d], reply[d].rec) /\ p.state = "loaded"
                          /\ p.awaits = page[d].awaits /\ UpToDate(p)
    BY <1>1, RepliedIs, AcceptedIs
  <1>3. Settle(d, p) /\ WriteJournal(d, p, TRUE)
    BY <1>2 DEF TakeAccepted
  <1>4. Jots(d)
    BY <1>3, WriteIs DEF IInv
  <1> QED
    BY <1>1, <1>2, <1>3, <1>4, SettleKeeps

LEMMA TakeConflictKeeps ==
  ASSUME IInv, NEW d \in Devices, TakeConflict(d)
  PROVE  IInv'
  <1>1. /\ reply[d] # None /\ reply[d].kind = "put"
        /\ now' = now /\ rec' = rec /\ handled' = handled /\ stream' = stream
        /\ fetch' = fetch /\ reply' = [reply EXCEPT ![d] = None]
    BY DEF TakeConflict, budget
  <1>2. PICK r \in Record : r = reply[d].rec
    BY <1>1, RepliedIs
  <1>3. PICK p \in Page :
          /\ p = IF r.dev = d THEN Accepted(page[d], r) ELSE Moved(d, page[d], r)
          /\ p.state = "loaded" /\ p.awaits = page[d].awaits
          /\ r.dev = d \/ ~Moves(page[d], r) => UpToDate(p)
    BY <1>1, RepliedIs, AcceptedIs, MovedIs DEF IInv
  <1>4. PICK q \in Page :
          /\ q = IF r.dev # d /\ Moves(page[d], r) THEN [p EXCEPT !.pending = TRUE] ELSE p
          /\ q.state = "loaded" /\ q.awaits = page[d].awaits /\ UpToDate(q)
    <2>1. CASE r.dev # d /\ Moves(page[d], r)
      <3> DEFINE s == [p EXCEPT !.pending = TRUE]
      <3>1. s \in Page /\ s.state = "loaded" /\ s.awaits = page[d].awaits /\ UpToDate(s)
        BY <1>1, <1>3, RepliedIs DEF Page, UpToDate
      <3> QED
        BY <2>1, <3>1
    <2>2. CASE ~(r.dev # d /\ Moves(page[d], r))
      BY <1>3, <2>2
    <2> QED
      BY <2>1, <2>2
  <1>5. Settle(d, q) /\ WriteJournal(d, p, TRUE)
    BY <1>2, <1>3, <1>4 DEF TakeConflict
  <1>6. Jots(d)
    BY <1>5, WriteIs DEF IInv
  <1> QED
    BY <1>1, <1>4, <1>5, <1>6, SettleKeeps

\* What a player starts from.
LEMMA LoadedIs ==
  ASSUME SystemOK, NEW d \in Devices, NEW server \in Record \cup {None}
  PROVE  /\ Loaded(d, server) \in Page
         /\ Loaded(d, server).state = "loaded" /\ Loaded(d, server).awaits = "nothing"
         /\ Loaded(d, server).pos = StartFrom(d, server).pos
         /\ UpToDate(Loaded(d, server))
  <1>1. /\ StartFrom(d, server).pos \in Positions
        /\ StartFrom(d, server).listened \in Int
    <2>1. journal[d] # None => journal[d] \in Entry
      BY DEF SystemOK
    <2>2. CASE journal[d] # None /\ OwnStands(journal[d], server)
      BY <2>1, <2>2 DEF StartFrom, Entry
    <2>3. CASE ~(journal[d] # None /\ OwnStands(journal[d], server)) /\ server # None
      BY <2>3 DEF StartFrom, Record
    <2>4. CASE ~(journal[d] # None /\ OwnStands(journal[d], server)) /\ server = None
      BY <2>4, SyncAssumption DEF StartFrom
    <2> QED
      BY <2>2, <2>3, <2>4
  <1>2. server # None => server.at \in Int
    BY DEF Record
  <1> DEFINE start == StartFrom(d, server)
             sAt == IF server = None THEN 0 ELSE server.at
             heard == IF start.listened > 0 THEN start.listened ELSE sAt
  <1>3. sAt \in Int /\ heard \in Int /\ start.pos \in Positions
    BY <1>1, <1>2
  <1>4. Loaded(d, server) = [DeadPage EXCEPT !.state = "loaded", !.pos = start.pos,
                               !.sAt = sAt, !.listened = heard, !.sent = start.pos]
    BY DEF Loaded
  <1> HIDE DEF start, sAt, heard
  <1>5. /\ Loaded(d, server) \in Page
        /\ Loaded(d, server).state = "loaded" /\ Loaded(d, server).awaits = "nothing"
        /\ Loaded(d, server).pos = start.pos
        /\ UpToDate(Loaded(d, server))
    BY <1>3, <1>4 DEF DeadPage, Page, UpToDate
  <1> QED
    BY <1>5 DEF start

\* The page of d is loaded, and waits for nothing as before.
LEMMA LoadKeeps ==
  ASSUME IInv, NEW d \in Devices, page[d].awaits = "nothing",
         NEW q \in Page, q.state = "loaded", q.awaits = "nothing", UpToDate(q),
         page' = [page EXCEPT ![d] = q], FetchOK,
         now' = now, rec' = rec, wire' = wire, handled' = handled, stream' = stream,
         journal' = journal, reply' = reply
  PROVE  IInv'
  <1>1. \A e \in Devices : Sent(e)' = Sent(e) /\ Served(e)' = Served(e)
    BY DEF Sent, Served
  <1>2. Talk(d, q)
    BY <1>1 DEF Talk
  <1>3. Step(d, q)
    BY <1>1, <1>2 DEF Step, IInv, SystemOK
  <1>4. stream' \in [Devices -> Seq(Record)]
    BY DEF IInv, SystemOK
  <1> QED
    BY <1>3, <1>4, OwnStepKeeps DEF Jots

LEMMA TakeRestoredKeeps ==
  ASSUME IInv, NEW d \in Devices, TakeRestored(d)
  PROVE  IInv'
  <1>1. /\ page[d].state = "restoring" /\ fetch[d][2] \in Record \cup {None}
        /\ now' = now /\ rec' = rec /\ wire' = wire /\ handled' = handled
        /\ stream' = stream /\ journal' = journal /\ reply' = reply
    BY FetchedIs DEF TakeRestored, budget, IInv
  <1>2. page[d].awaits = "nothing"
    BY <1>1 DEF IInv, Sound, Awaiting, SystemOK, Page
  <1>3. PICK q \in Page : /\ q = Loaded(d, fetch[d][2]) /\ q.state = "loaded"
                          /\ q.awaits = "nothing" /\ UpToDate(q)
    BY <1>1, LoadedIs DEF IInv
  <1>4. page' = [page EXCEPT ![d] = q] /\ FetchOK
    BY <1>3, FetchEnds DEF TakeRestored, IInv
  <1> QED
    BY <1>1, <1>2, <1>3, <1>4, LoadKeeps

LEMMA PlayBookKeeps ==
  ASSUME IInv, NEW d \in Devices, PlayBook(d)
  PROVE  IInv'
  <1>1. /\ page[d].state = "browsing" /\ fetch[d][2] \in Record \cup {None}
        /\ now' = now /\ rec' = rec /\ wire' = wire /\ handled' = handled
        /\ stream' = stream /\ journal' = journal /\ reply' = reply
    BY FetchedIs DEF PlayBook, budget, IInv
  <1>2. page[d].awaits = "nothing"
    BY <1>1 DEF IInv, Sound, Awaiting, SystemOK, Page
  <1>3. PICK p \in Page : /\ p = Loaded(d, fetch[d][2]) /\ p.state = "loaded"
                          /\ p.awaits = "nothing" /\ UpToDate(p)
    BY <1>1, LoadedIs DEF IInv
  <1>4. PICK l \in Page : /\ l = Listened(d, p) /\ l.state = "loaded"
                          /\ l.awaits = "nothing" /\ UpToDate(l)
    BY <1>3, ListenedIs DEF IInv
  <1>5. PICK q \in Page : /\ q = [l EXCEPT !.playing = TRUE] /\ q.state = "loaded"
                          /\ q.awaits = "nothing" /\ UpToDate(q)
    BY <1>4, PlayingIs
  <1>6. page' = [page EXCEPT ![d] = q] /\ FetchOK
    BY <1>3, <1>4, <1>5, FetchEnds DEF PlayBook, IInv
  <1> QED
    BY <1>1, <1>2, <1>5, <1>6, LoadKeeps

-----------------------------------------------------------------------------
(* The page's life keeps the invariant.                                    *)

\* The other devices are spared.
LEMMA OffKeeps ==
  ASSUME IInv, NEW d \in Devices, SystemOK', \A m \in wire' : m.built <= now',
         now' = now, \A e \in Devices \ {d} : Spared(e), Sound(d)'
  PROVE  IInv'
  <1>1. ASSUME NEW e \in Devices \ {d} PROVE Sound(e)'
    <2>1. now' \in Int /\ now' >= now
      BY DEF IInv, SystemOK
    <2> QED
      BY <2>1, SparedStays DEF IInv
  <1> QED
    BY <1>1 DEF IInv

\* What is on its way when nobody waits for the answers any more.
LEMMA OrphanedIs ==
  ASSUME IInv, NEW d \in Devices
  PROVE  /\ Orphaned(wire, d) \subseteq Report
         /\ \A m \in Orphaned(wire, d) : m.built <= now /\ (m.dev = d => m.kind = "beacon")
         /\ \A e \in Devices \ {d} :
              {m \in Orphaned(wire, d) : m.dev = e /\ m.kind # "beacon"} = Sent(e)
         /\ Orphaned(handled, d) \subseteq Answer
         /\ \A a \in Orphaned(handled, d) : a.dev = d => a.kind = "beacon"
         /\ \A e \in Devices \ {d} :
              {a \in Orphaned(handled, d) : a.dev = e /\ a.kind # "beacon"} = Served(e)
  <1>1. \A m \in wire : /\ [m EXCEPT !.kind = "beacon"] \in Report
                        /\ [m EXCEPT !.kind = "beacon"].kind = "beacon"
                        /\ [m EXCEPT !.kind = "beacon"].dev = m.dev
                        /\ [m EXCEPT !.kind = "beacon"].built = m.built
    BY DEF IInv, SystemOK, Report
  <1>2. /\ Orphaned(wire, d) \subseteq Report
        /\ \A m \in Orphaned(wire, d) : m.built <= now /\ (m.dev = d => m.kind = "beacon")
    <2>1. wire \subseteq Report /\ \A m \in wire : m.built <= now
      BY DEF IInv, SystemOK
    <2> SUFFICES ASSUME NEW o \in Orphaned(wire, d)
                 PROVE  o \in Report /\ o.built <= now /\ (o.dev = d => o.kind = "beacon")
      OBVIOUS
    <2>2. PICK m \in wire : o = IF m.dev = d THEN [m EXCEPT !.kind = "beacon"] ELSE m
      BY DEF Orphaned
    <2> QED
      BY <1>1, <2>1, <2>2
  <1>3. \A e \in Devices \ {d} :
          {m \in Orphaned(wire, d) : m.dev = e /\ m.kind # "beacon"} = Sent(e)
    BY <1>1 DEF Orphaned, Sent
  <1>4. \A a \in handled : /\ [a EXCEPT !.kind = "beacon"] \in Answer
                           /\ [a EXCEPT !.kind = "beacon"].kind = "beacon"
                           /\ [a EXCEPT !.kind = "beacon"].dev = a.dev
    BY DEF IInv, SystemOK, Answer
  <1>5. /\ Orphaned(handled, d) \subseteq Answer
        /\ \A a \in Orphaned(handled, d) : a.dev = d => a.kind = "beacon"
    <2>1. handled \subseteq Answer
      BY DEF IInv, SystemOK
    <2> SUFFICES ASSUME NEW o \in Orphaned(handled, d)
                 PROVE  o \in Answer /\ (o.dev = d => o.kind = "beacon")
      OBVIOUS
    <2>2. PICK a \in handled : o = IF a.dev = d THEN [a EXCEPT !.kind = "beacon"] ELSE a
      BY DEF Orphaned
    <2> QED
      BY <1>4, <2>1, <2>2
  <1>6. \A e \in Devices \ {d} :
          {a \in Orphaned(handled, d) : a.dev = e /\ a.kind # "beacon"} = Served(e)
    BY <1>4 DEF Orphaned, Served
  <1> QED
    BY <1>2, <1>3, <1>5, <1>6

\* A page that is not loaded, and waits for nothing.
LEMMA IdleSound ==
  ASSUME NEW d \in Devices, page'[d].state \notin {"loaded", "flushing"},
         page'[d].awaits = "nothing",
         Sent(d)' = {}, Served(d)' = {}, reply'[d] = None, LeftStands(d)',
         journal'[d] # None => journal'[d].ts <= Clock(d)'
  PROVE  Sound(d)'
  BY DEF Sound, Awaiting, OneExchange, Flushes

\* What a page that dies leaves.
LEMMA LeavesIs ==
  ASSUME NEW left \in Entry \cup {None}
  PROVE  \E q \in Page : /\ q = [DeadPage EXCEPT !.left = left] /\ q.state = "dead"
                         /\ q.awaits = "nothing" /\ q.left = left
  <1>1. PICK p \in Page : p = DeadPage /\ p.state = "dead" /\ p.awaits = "nothing"
    <2>1. DeadPage \in Page /\ DeadPage.state = "dead" /\ DeadPage.awaits = "nothing"
      BY SyncAssumption DEF DeadPage, Page
    <2> QED
      BY <2>1
  <1> DEFINE q == [p EXCEPT !.left = left]
  <1>2. q \in Page /\ q.state = "dead" /\ q.awaits = "nothing" /\ q.left = left
    BY <1>1 DEF Page
  <1> QED
    BY <1>1, <1>2

LEMMA KillKeeps ==
  ASSUME IInv, NEW d \in Devices, Kill(d)
  PROVE  IInv'
  <1>1. /\ now' = now /\ rec' = rec /\ journal' = journal
        /\ wire' = Orphaned(wire, d) /\ handled' = Orphaned(handled, d)
        /\ stream' = [stream EXCEPT ![d] = <<>>]
        /\ reply' = [reply EXCEPT ![d] = None]
        /\ fetch' = [fetch EXCEPT ![d] = NoFetch]
    BY DEF Kill
  <1> DEFINE left == IF page[d].state = "loaded" THEN journal[d] ELSE page[d].left
  <1>2. left \in Entry \cup {None}
    BY DEF IInv, SystemOK, Page
  <1>3. page' = [page EXCEPT ![d] = [DeadPage EXCEPT !.left = left]]
    BY DEF Kill
  <1>4. LeftStands(d) /\ (page[d].state = "loaded" => left = journal[d])
        /\ (page[d].state # "loaded" => left = page[d].left)
    BY DEF IInv, Sound
  <1> HIDE DEF left
  <1>5. PICK q \in Page : /\ q = [DeadPage EXCEPT !.left = left] /\ q.state = "dead"
                          /\ q.awaits = "nothing" /\ q.left = left
    BY <1>2, LeavesIs
  <1>6. /\ page' \in [Devices -> Page] /\ page'[d] = q
        /\ \A e \in Devices \ {d} : page'[e] = page[e]
    BY <1>3, <1>5 DEF IInv, SystemOK
  <1>7. /\ wire' \subseteq Report /\ \A m \in wire' : m.built <= now'
        /\ handled' \subseteq Answer
        /\ Sent(d)' = {} /\ Served(d)' = {}
        /\ \A e \in Devices \ {d} : Sent(e)' = Sent(e) /\ Served(e)' = Served(e)
    BY <1>1, OrphanedIs DEF Sent, Served
  <1>8. /\ stream' \in [Devices -> Seq(Record)]
        /\ reply' \in [Devices -> Answer \cup {None}] /\ reply'[d] = None
        /\ \A e \in Devices \ {d} : reply'[e] = reply[e]
        /\ FetchOK
    <2>1. stream' \in [Devices -> Seq(Record)]
      BY <1>1 DEF IInv, SystemOK
    <2>2. /\ reply' \in [Devices -> Answer \cup {None}] /\ reply'[d] = None
          /\ \A e \in Devices \ {d} : reply'[e] = reply[e]
      BY <1>1 DEF IInv, SystemOK
    <2>3. FetchOK
      BY <1>1, FetchEnds DEF IInv
    <2> QED
      BY <2>1, <2>2, <2>3
  <1>9. SystemOK'
    BY <1>1, <1>6, <1>7, <1>8 DEF IInv, SystemOK, FetchOK
  <1>10. \A e \in Devices \ {d} : Spared(e)
    BY <1>1, <1>6, <1>7, <1>8 DEF Spared
  <1>11. LeftStands(d)'
    BY <1>1, <1>4, <1>5, <1>6 DEF LeftStands
  <1>12. journal'[d] # None => journal'[d].ts <= Clock(d)'
    BY <1>1 DEF IInv, Sound, Clock
  <1>13. Sound(d)'
    BY <1>5, <1>6, <1>7, <1>8, <1>11, <1>12, IdleSound
  <1> QED
    BY <1>1, <1>7, <1>9, <1>10, <1>13, OffKeeps

\* The page of d, that waited for nothing, goes on to a state in which it waits
\* for nothing either.
LEMMA IdleKeeps ==
  ASSUME IInv, NEW d \in Devices, page[d].awaits = "nothing", page[d].state # "loaded",
         NEW q \in Page, q.state \notin {"loaded", "flushing"}, q.awaits = "nothing",
         q.left = page[d].left, page' = [page EXCEPT ![d] = q],
         now' = now, rec' = rec, wire' = wire, handled' = handled, journal' = journal,
         reply' = reply, stream' = stream, FetchOK
  PROVE  IInv'
  <1>1. /\ page' \in [Devices -> Page] /\ page'[d] = q
        /\ \A e \in Devices \ {d} : page'[e] = page[e]
    BY DEF IInv, SystemOK
  <1>2. SystemOK' /\ \A m \in wire' : m.built <= now'
    BY <1>1 DEF IInv, SystemOK, FetchOK
  <1>3. \A e \in Devices : Sent(e)' = Sent(e) /\ Served(e)' = Served(e)
    BY DEF Sent, Served
  <1>4. \A e \in Devices \ {d} : Spared(e)
    BY <1>1, <1>3 DEF Spared
  <1>5. Sent(d)' = {} /\ Served(d)' = {} /\ reply'[d] = None
    BY <1>3, NothingOut DEF IInv, Sound
  <1>6. LeftStands(d)'
    BY <1>1 DEF IInv, Sound, LeftStands
  <1>7. journal'[d] # None => journal'[d].ts <= Clock(d)'
    BY DEF IInv, Sound, Clock
  <1>8. Sound(d)'
    BY <1>1, <1>5, <1>6, <1>7, IdleSound
  <1> QED
    BY <1>2, <1>4, <1>8, OffKeeps

\* A page in another state, and waiting for something else.
LEMMA StateIs ==
  ASSUME NEW p \in Page,
         NEW state \in {"dead", "flushing", "restoring", "browsing", "loaded"},
         NEW awaits \in {"nothing", "put", "flush"}
  PROVE  \E q \in Page : /\ q = [p EXCEPT !.state = state, !.awaits = awaits]
                         /\ q.state = state /\ q.awaits = awaits /\ q.left = p.left
  <1> DEFINE q == [p EXCEPT !.state = state, !.awaits = awaits]
  <1>1. q \in Page /\ q.state = state /\ q.awaits = awaits /\ q.left = p.left
    BY DEF Page
  <1> QED
    BY <1>1

\* Beginning to restore.
LEMMA RestoringIs ==
  ASSUME SystemOK, NEW d \in Devices, Restoring(d)
  PROVE  /\ FetchOK
         /\ \E q \in Page : /\ q.state = "restoring" /\ q.awaits = "nothing"
                            /\ q.left = page[d].left /\ page' = [page EXCEPT ![d] = q]
  <1>1. page[d] \in Page
    BY DEF SystemOK
  <1>2. PICK q \in Page : /\ q = [page[d] EXCEPT !.state = "restoring", !.awaits = "nothing"]
                          /\ q.state = "restoring" /\ q.awaits = "nothing"
                          /\ q.left = page[d].left
    BY <1>1, StateIs
  <1>3. page' = [page EXCEPT ![d] = q]
    <2>1. page' = [page EXCEPT ![d] = [page[d] EXCEPT !.state = "restoring", !.awaits = "nothing"]]
      BY DEF Restoring, SystemOK
    <2> QED
      BY <1>2, <2>1
  <1>4. FetchOK
    BY DEF Restoring, FetchOK, SystemOK
  <1> QED
    BY <1>2, <1>3, <1>4

LEMMA LaunchKeeps ==
  ASSUME IInv, NEW d \in Devices, Launch(d)
  PROVE  IInv'
  <1>1. /\ page[d].state = "dead" /\ page[d] \in Page
        /\ now' = now /\ rec' = rec /\ handled' = handled /\ stream' = stream
        /\ journal' = journal /\ reply' = reply
    BY DEF Launch, budget, IInv, SystemOK
  <1>2. page[d].awaits = "nothing"
    BY <1>1 DEF IInv, Sound, Awaiting, Page
  <1>3. CASE journal[d] = None
    <2>1. PICK q \in Page : /\ q = [page[d] EXCEPT !.state = "browsing", !.awaits = "nothing"]
                            /\ q.state = "browsing" /\ q.awaits = "nothing"
                            /\ q.left = page[d].left
      BY <1>1, StateIs
    <2>2. /\ page' = [page EXCEPT ![d].state = "browsing"]
          /\ wire' = wire /\ fetch' = fetch
      BY <1>3 DEF Launch
    <2>3. [page[d] EXCEPT !.state = "browsing"] = q
      BY <1>1, <1>2, <2>1 DEF Page
    <2>4. page' = [page EXCEPT ![d] = q]
      BY <2>2, <2>3
    <2>5. FetchOK
      BY <2>2 DEF IInv, SystemOK, FetchOK
    <2> QED
      BY <1>1, <1>2, <2>1, <2>2, <2>4, <2>5, IdleKeeps
  <1>4. CASE journal[d] # None /\ journal[d].synced
    <2>1. Restoring(d) /\ wire' = wire
      BY <1>4 DEF Launch
    <2>2. PICK q \in Page : /\ q.state = "restoring" /\ q.awaits = "nothing"
                            /\ q.left = page[d].left /\ page' = [page EXCEPT ![d] = q]
      BY <2>1, RestoringIs DEF IInv
    <2>3. FetchOK
      BY <2>1, RestoringIs DEF IInv
    <2> QED
      BY <1>1, <1>2, <2>1, <2>2, <2>3, IdleKeeps
  <1>5. CASE journal[d] # None /\ ~journal[d].synced
    <2> DEFINE m == [dev |-> d, kind |-> "flush", pos |-> journal[d].pos,
                     age |-> Clock(d) - journal[d].ts, built |-> now]
    <2>1. /\ page' = [page EXCEPT ![d].state = "flushing", ![d].awaits = "flush"]
          /\ wire' = wire \cup {m} /\ fetch' = fetch
      BY <1>5 DEF Launch
    <2>2. /\ journal[d] \in Entry /\ journal[d].ts \in Int /\ Skew[d] \in Int /\ now \in Nat
      BY <1>5, SyncAssumption DEF IInv, SystemOK, Entry
    <2>3. /\ m \in Report /\ m.dev = d /\ m.kind = "flush" /\ m.built = now
          /\ m.built - m.age = journal[d].ts - Skew[d]
      BY <2>2 DEF Clock, Report, Entry
    <2> HIDE DEF m
    <2>4. PICK q \in Page : /\ q = [page[d] EXCEPT !.state = "flushing", !.awaits = "flush"]
                            /\ q.state = "flushing" /\ q.awaits = "flush"
                            /\ q.left = page[d].left
      BY <1>1, StateIs
    <2>5. page' = [page EXCEPT ![d] = q]
      <3>1. page' = [page EXCEPT ![d] = [page[d] EXCEPT !.state = "flushing", !.awaits = "flush"]]
        BY <2>1 DEF IInv, SystemOK
      <3> QED
        BY <2>4, <3>1
    <2>6. /\ page' \in [Devices -> Page] /\ page'[d] = q
          /\ \A e \in Devices \ {d} : page'[e] = page[e]
      BY <2>5 DEF IInv, SystemOK
    <2>7. Sent(d) = {} /\ Served(d) = {} /\ reply[d] = None
      BY <1>2, NothingOut DEF IInv, Sound
    <2>8. /\ wire' \subseteq Report /\ \A k \in wire' : k.built <= now
          /\ \A e \in Devices \ {d} : Sent(e)' = Sent(e)
          /\ Sent(d)' = {m}
      BY <2>1, <2>3, <2>7, WireGrows
    <2>9. \A e \in Devices : Served(e)' = Served(e)
      BY <1>1 DEF Served
    <2>10. SystemOK'
      BY <1>1, <2>1, <2>6, <2>8 DEF IInv, SystemOK
    <2>11. \A e \in Devices \ {d} : Spared(e)
      BY <1>1, <2>6, <2>8, <2>9 DEF Spared
    <2>12. Awaiting(d)' /\ OneExchange(d)'
      BY <1>1, <2>3, <2>4, <2>6, <2>7, <2>8, <2>9 DEF Awaiting, OneExchange
    <2>13. Flushes(d)'
      BY <1>1, <1>5, <2>3, <2>7, <2>8, <2>9 DEF Flushes, Unsynced
    <2>14. LeftStands(d)'
      BY <1>1, <2>4, <2>6 DEF IInv, Sound, LeftStands
    <2>15. Sound(d)'
      BY <1>1, <2>4, <2>6, <2>12, <2>13, <2>14 DEF IInv, Sound, Clock
    <2> QED
      BY <1>1, <2>8, <2>10, <2>11, <2>15, OffKeeps
  <1> QED
    BY <1>3, <1>4, <1>5

LEMMA FetchFailsKeeps ==
  ASSUME IInv, NEW d \in Devices, FetchFails(d)
  PROVE  IInv'
  <1>1. /\ now' = now /\ rec' = rec /\ wire' = wire /\ handled' = handled
        /\ stream' = stream /\ journal' = journal /\ reply' = reply
        /\ page[d] \in Page
        /\ page' = [page EXCEPT ![d].state =
                      IF page[d].state = "restoring" THEN "browsing" ELSE page[d].state]
    BY DEF FetchFails, IInv, SystemOK
  <1>2. FetchOK /\ stream' \in [Devices -> Seq(Record)]
    BY <1>1, FetchEnds DEF FetchFails, IInv, SystemOK
  <1>3. CASE page[d].state = "restoring"
    <2>1. page[d].awaits = "nothing"
      BY <1>1, <1>3 DEF IInv, Sound, Awaiting, Page
    <2>2. PICK q \in Page : /\ q = [page[d] EXCEPT !.state = "browsing", !.awaits = "nothing"]
                            /\ q.state = "browsing" /\ q.awaits = "nothing"
                            /\ q.left = page[d].left
      BY <1>1, StateIs
    <2>3. [page[d] EXCEPT !.state = "browsing"] = q
      BY <1>1, <2>1, <2>2 DEF Page
    <2>4. page' = [page EXCEPT ![d] = q]
      BY <1>1, <1>3, <2>3
    <2> QED
      BY <1>1, <1>2, <1>3, <2>1, <2>2, <2>4, IdleKeeps
  <1>4. CASE page[d].state # "restoring"
    <2>1. page' = page
      BY <1>1, <1>4 DEF IInv, SystemOK, Page
    <2> QED
      BY <1>1, <1>2, <2>1, QuietKeeps
  <1> QED
    BY <1>3, <1>4

\* The answer to a flush is as recent as the entry, and takes its place.
LEMMA TakeFlushedKeeps ==
  ASSUME IInv, NEW d \in Devices, TakeFlushed(d)
  PROVE  IInv'
  <1>1. /\ reply[d] # None /\ reply[d].kind = "flush"
        /\ now' = now /\ rec' = rec /\ wire' = wire /\ handled' = handled
        /\ stream' = stream /\ reply' = [reply EXCEPT ![d] = None]
        /\ Restoring(d)
    BY DEF TakeFlushed, budget
  <1>2. PICK r \in Record : r = reply[d].rec
    BY <1>1, RepliedIs
  <1>3. /\ page[d].state = "flushing" /\ Unsynced(d) /\ journal[d] \in Entry
        /\ r.at >= journal[d].ts - Skew[d]
        /\ Sent(d) = {} /\ Served(d) = {}
    BY <1>1, <1>2, RepliedIs DEF IInv, SystemOK, Sound, Flushes, Unsynced, Answers, OneExchange
  <1>4. Clock(d) \in Int /\ journal[d].ts <= Clock(d)
    BY <1>3, SyncAssumption DEF Clock, IInv, SystemOK, Sound, Unsynced
  <1>5. PICK e \in Entry : /\ journal' = [journal EXCEPT ![d] = e]
                           /\ e.synced /\ e.sAt = r.at /\ e.ts <= Clock(d)
    <2> DEFINE won == [journal[d] EXCEPT !.synced = TRUE, !.sAt = r.at]
               lost == [won EXCEPT !.pos = r.pos, !.ts = Clock(d)]
    <2>1. won \in Entry /\ won.synced /\ won.sAt = r.at /\ won.ts <= Clock(d)
      BY <1>3, <1>4 DEF Entry, Record
    <2>2. lost \in Entry /\ lost.synced /\ lost.sAt = r.at /\ lost.ts <= Clock(d)
      <3> HIDE DEF won
      <3>1. \A n \in Int, pos \in Positions :
              /\ [won EXCEPT !.pos = pos, !.ts = n] \in Entry
              /\ won.synced => [won EXCEPT !.pos = pos, !.ts = n].synced
              /\ [won EXCEPT !.pos = pos, !.ts = n].sAt = won.sAt
              /\ [won EXCEPT !.pos = pos, !.ts = n].ts = n
        BY <2>1 DEF Entry
      <3>2. r.pos \in Positions /\ Clock(d) <= Clock(d)
        BY <1>4 DEF Record
      <3> QED
        BY <1>4, <2>1, <3>1, <3>2
    <2>3. journal' = [journal EXCEPT ![d] = IF reply[d].won THEN won ELSE lost]
      BY <1>2 DEF TakeFlushed
    <2> QED
      BY <2>1, <2>2, <2>3
  <1>6. PICK q \in Page : /\ q.state = "restoring" /\ q.awaits = "nothing"
                          /\ q.left = page[d].left /\ page' = [page EXCEPT ![d] = q]
    BY <1>1, RestoringIs DEF IInv
  <1>7. /\ page' \in [Devices -> Page] /\ page'[d] = q
        /\ \A x \in Devices \ {d} : page'[x] = page[x]
    BY <1>6 DEF IInv, SystemOK
  <1>8. /\ journal' \in [Devices -> Entry \cup {None}] /\ journal'[d] = e
        /\ \A x \in Devices \ {d} : journal'[x] = journal[x]
    BY <1>5 DEF IInv, SystemOK
  <1>9. /\ reply' \in [Devices -> Answer \cup {None}] /\ reply'[d] = None
        /\ \A x \in Devices \ {d} : reply'[x] = reply[x]
    BY <1>1 DEF IInv, SystemOK
  <1>10. FetchOK
    BY <1>1, RestoringIs DEF IInv
  <1>11. SystemOK' /\ \A m \in wire' : m.built <= now'
    BY <1>1, <1>7, <1>8, <1>9, <1>10 DEF IInv, SystemOK, FetchOK
  <1>12. \A x \in Devices : Sent(x)' = Sent(x) /\ Served(x)' = Served(x)
    BY <1>1 DEF Sent, Served
  <1>13. \A x \in Devices \ {d} : Spared(x)
    BY <1>7, <1>8, <1>9, <1>12 DEF Spared
  <1>14. LeftStands(d)'
    <2> SUFFICES ASSUME q.left # None, ~q.left.synced
                 PROVE  journal'[d] # None /\ journal'[d].synced
                        /\ journal'[d].sAt >= q.left.ts - Skew[d]
      BY <1>7 DEF LeftStands
    <2>1. journal[d] = q.left
      BY <1>3, <1>6 DEF IInv, Sound, LeftStands, Unsynced
    <2> QED
      BY <1>3, <1>5, <1>8, <2>1, NoneAssumption
  <1>15. journal'[d] # None => journal'[d].ts <= Clock(d)'
    BY <1>1, <1>5, <1>8 DEF Clock
  <1>16. Sound(d)'
    BY <1>3, <1>6, <1>7, <1>9, <1>12, <1>14, <1>15, IdleSound
  <1> QED
    BY <1>1, <1>11, <1>13, <1>16, OffKeeps

LEMMA RequestFailsKeeps ==
  ASSUME IInv, NEW d \in Devices, RequestFails(d)
  PROVE  IInv'
  <1>1. /\ page[d].awaits # "nothing" /\ page[d] \in Page /\ reply[d] = None
        /\ now' = now /\ rec' = rec /\ stream' = stream /\ reply' = reply
        /\ handled' = Orphaned(handled, d)
    BY DEF RequestFails, IInv, SystemOK
  <1>2. PICK left \in {{m \in wire : m.dev # d \/ m.kind = "beacon"}, Orphaned(wire, d)} :
         IF page[d].awaits = "flush"
         THEN wire' = left /\ Restoring(d) /\ journal' = journal
         ELSE LET q == [page[d] EXCEPT !.awaits = "nothing", !.pending = FALSE]
              IN  /\ page' = [page EXCEPT ![d] = IF page[d].pending THEN Sending(q) ELSE q]
                  /\ wire' = IF page[d].pending THEN left \cup {ReportOf(d, q, "put")}
                             ELSE left
                  /\ WriteJournal(d, page[d], FALSE)
                  /\ fetch' = fetch
    BY DEF RequestFails
  <1>3. /\ left \subseteq Report /\ \A m \in left : m.built <= now
        /\ \A e \in Devices \ {d} : {m \in left : m.dev = e /\ m.kind # "beacon"} = Sent(e)
        /\ \A m \in left : m.dev = d => m.kind = "beacon"
    <2>1. CASE left = {m \in wire : m.dev # d \/ m.kind = "beacon"}
      BY <2>1 DEF IInv, SystemOK, Sent
    <2>2. CASE left = Orphaned(wire, d)
      BY <2>2, OrphanedIs
    <2> QED
      BY <2>1, <2>2
  <1>4. /\ handled' \subseteq Answer /\ Served(d)' = {}
        /\ \A e \in Devices \ {d} : Served(e)' = Served(e)
    BY <1>1, OrphanedIs DEF Served
  <1>5. reply' \in [Devices -> Answer \cup {None}] /\ stream' \in [Devices -> Seq(Record)]
    BY <1>1 DEF IInv, SystemOK
  <1>6. CASE page[d].awaits = "flush"
    <2>1. wire' = left /\ Restoring(d) /\ journal' = journal
      BY <1>2, <1>6
    <2>2. PICK q \in Page : /\ q.state = "restoring" /\ q.awaits = "nothing"
                            /\ q.left = page[d].left /\ page' = [page EXCEPT ![d] = q]
      BY <2>1, RestoringIs DEF IInv
    <2>3. /\ page' \in [Devices -> Page] /\ page'[d] = q
          /\ \A e \in Devices \ {d} : page'[e] = page[e]
      BY <2>2 DEF IInv, SystemOK
    <2>4. FetchOK
      BY <2>1, RestoringIs DEF IInv
    <2>5. SystemOK' /\ \A m \in wire' : m.built <= now'
      BY <1>1, <1>3, <1>4, <1>5, <2>1, <2>3, <2>4 DEF IInv, SystemOK, FetchOK
    <2>6. Sent(d)' = {} /\ \A e \in Devices \ {d} : Sent(e)' = Sent(e)
      BY <1>3, <2>1 DEF Sent
    <2>7. \A e \in Devices \ {d} : Spared(e)
      BY <1>1, <1>4, <2>1, <2>3, <2>6 DEF Spared
    <2>8. LeftStands(d)'
      <3>1. page[d].state = "flushing"
        BY <1>6 DEF IInv, Sound, Awaiting
      <3> QED
        BY <2>1, <2>2, <2>3, <3>1 DEF IInv, Sound, LeftStands
    <2>9. journal'[d] # None => journal'[d].ts <= Clock(d)'
      BY <1>1, <2>1 DEF IInv, Sound, Clock
    <2>10. Sound(d)'
      BY <1>1, <1>4, <2>2, <2>3, <2>6, <2>8, <2>9, IdleSound
    <2> QED
      BY <1>1, <2>5, <2>7, <2>10, OffKeeps
  <1>7. CASE page[d].awaits # "flush"
    <2>1. page[d].state = "loaded" /\ UpToDate(page[d])
      BY <1>1, <1>7 DEF IInv, Sound, Awaiting, Page
    <2>2. PICK q \in Page : q = [page[d] EXCEPT !.awaits = "nothing", !.pending = FALSE]
      <3>1. [page[d] EXCEPT !.awaits = "nothing", !.pending = FALSE] \in Page
        BY <1>1 DEF Page
      <3> QED
        BY <3>1
    <2>3. /\ page' = [page EXCEPT ![d] = IF page[d].pending THEN Sending(q) ELSE q]
          /\ wire' = IF page[d].pending THEN left \cup {ReportOf(d, q, "put")} ELSE left
          /\ WriteJournal(d, page[d], FALSE)
          /\ fetch' = fetch
      BY <1>2, <1>7, <2>2
    <2>4. reply'[d] = None
      BY <1>1
    <2>5. \E r : Step(d, r)
      BY <1>1, <1>3, <1>4, <2>1, <2>2, <2>3, <2>4, SettleStep
    <2>6. Jots(d)
      BY <1>1, <2>3, WriteIs DEF IInv
    <2>7. FetchOK
      BY <2>3 DEF IInv, SystemOK, FetchOK
    <2> QED
      BY <1>1, <1>4, <1>5, <2>5, <2>6, <2>7, StepKeeps
  <1> QED
    BY <1>6, <1>7

-----------------------------------------------------------------------------
(* The server and time keep the invariant.                                 *)

\* What is stored, or stands, is at least as recent as the report.
LEMMA StoreKeeps ==
  ASSUME IInv, NEW r \in wire, Store(r)
  PROVE  IInv'
  <1> DEFINE at == now - (IF r.age < 0 THEN 0 ELSE r.age)
             new == [pos |-> r.pos, at |-> at, dev |-> r.dev]
             won == Wins(r, at)
  <1>1. /\ now' = now /\ stream' = stream /\ page' = page /\ journal' = journal
        /\ reply' = reply /\ fetch' = fetch /\ wire' = wire \ {r}
        /\ rec' = IF won THEN new ELSE rec
        /\ handled' = handled \cup {[dev |-> r.dev, kind |-> r.kind,
                                     won |-> won, rec |-> rec']}
    BY DEF Store, budget
  <1>2. /\ r \in Report /\ r.age \in Int /\ r.built \in Nat /\ now \in Nat /\ r.built <= now
        /\ r.dev \in Devices
    BY DEF IInv, SystemOK, Report
  <1>3. at \in Int /\ (at = now \/ at >= r.built - r.age)
    BY <1>2
  <1>4. won \in BOOLEAN /\ (~won => rec \in Record /\ rec.at >= at)
    <2>1. rec # None => rec \in Record /\ rec.at \in Int
      BY DEF IInv, SystemOK, Record
    <2> QED
      BY <1>3, <2>1 DEF Wins
  <1>5. new \in Record /\ new.at = at
    BY <1>2, <1>3 DEF Record, Report
  <1> HIDE DEF at, new, won
  <1>6. rec' \in Record /\ rec'.at >= at
    BY <1>1, <1>3, <1>4, <1>5
  <1>7. PICK a \in Answer : /\ handled' = handled \cup {a}
                            /\ a.dev = r.dev /\ a.kind = r.kind /\ a.rec = rec'
    <2> DEFINE b == [dev |-> r.dev, kind |-> r.kind, won |-> won, rec |-> rec']
    <2>1. b \in Answer /\ b.dev = r.dev /\ b.kind = r.kind /\ b.rec = rec'
      BY <1>2, <1>4, <1>6 DEF Answer, Report
    <2> QED
      BY <1>1, <2>1
  <1>8. SystemOK' /\ \A m \in wire' : m.built <= now'
    BY <1>1, <1>6, <1>7 DEF IInv, SystemOK
  <1>9. PICK d \in Devices : d = r.dev
    BY <1>2
  <1>10. \A e \in Devices \ {d} : Sent(e)' = Sent(e) /\ Served(e)' = Served(e)
    BY <1>1, <1>7, <1>9 DEF Sent, Served
  <1>11. \A e \in Devices \ {d} : Spared(e)
    BY <1>1, <1>10 DEF Spared
  <1>12. CASE r.kind = "beacon"
    <2>1. Sent(d)' = Sent(d) /\ Served(d)' = Served(d)
      BY <1>1, <1>7, <1>12 DEF Sent, Served
    <2>2. Spared(d)
      BY <1>1, <2>1 DEF Spared
    <2>3. Sound(d)'
      BY <1>1, <1>2, <2>2, SparedStays DEF IInv
    <2> QED
      BY <1>1, <1>8, <1>11, <2>3, OffKeeps
  <1>13. CASE r.kind # "beacon"
    <2>1. r \in Sent(d) /\ OneExchange(d) /\ Flushes(d) /\ Awaiting(d)
      BY <1>9, <1>13 DEF Sent, IInv, Sound
    <2>2. /\ Sent(d) = {r} /\ Served(d) = {} /\ reply[d] = None
          /\ r.kind = page[d].awaits
      BY <2>1 DEF OneExchange
    <2>3. Sent(d)' = {}
      BY <1>1, <2>2 DEF Sent
    <2>4. Served(d)' = {a}
      BY <1>7, <1>9, <1>13, <2>2 DEF Served
    <2>5. Awaiting(d)' /\ OneExchange(d)'
      BY <1>1, <1>7, <2>1, <2>2, <2>3, <2>4 DEF Awaiting, OneExchange
    <2>6. r.kind = "flush" => a.rec.at >= journal[d].ts - Skew[d]
      <3> SUFFICES ASSUME r.kind = "flush" PROVE a.rec.at >= journal[d].ts - Skew[d]
        OBVIOUS
      <3>1. r.built - r.age = journal[d].ts - Skew[d]
        BY <2>1 DEF Flushes
      <3>2. a.rec.at \in Int
        BY <1>6, <1>7 DEF Record
      <3>3. journal[d] \in Entry /\ journal[d].ts <= now + Skew[d]
        BY <2>1, <2>2 DEF Flushes, Awaiting, Unsynced, IInv, SystemOK, Sound, Clock
      <3>4. journal[d].ts \in Int /\ Skew[d] \in Int
        BY <3>3, SyncAssumption DEF Entry
      <3> QED
        BY <1>2, <1>3, <1>6, <1>7, <3>1, <3>2, <3>3, <3>4
    <2>7. Flushes(d)'
      <3>1. (page[d].state = "flushing" => Unsynced(d))'
        BY <1>1, <2>1 DEF Flushes, Unsynced
      <3>2. \A b \in Served(d)' : b.kind = "flush" => Answers(b, d)'
        BY <1>1, <1>7, <2>4, <2>6 DEF Answers
      <3> QED
        BY <1>1, <2>2, <2>3, <3>1, <3>2 DEF Flushes
    <2>8. Sound(d)'
      BY <1>1, <2>5, <2>7 DEF IInv, Sound, LeftStands, Clock
    <2> QED
      BY <1>1, <1>8, <1>11, <2>8, OffKeeps
  <1> QED
    BY <1>12, <1>13

LEMMA RespondKeeps ==
  ASSUME IInv, NEW a \in handled, Respond(a)
  PROVE  IInv'
  <1>1. /\ now' = now /\ rec' = rec /\ page' = page /\ journal' = journal
        /\ wire' = wire /\ fetch' = fetch /\ handled' = handled \ {a}
        /\ reply' = IF a.kind = "beacon" THEN reply ELSE [reply EXCEPT ![a.dev] = a]
    BY DEF Respond, budget
  <1>2. a \in Answer /\ a.dev \in Devices /\ a.rec \in Record
    BY DEF IInv, SystemOK, Answer
  <1>3. stream' \in [Devices -> Seq(Record)]
    BY <1>2 DEF Respond, IInv, SystemOK
  <1>4. reply' \in [Devices -> Answer \cup {None}]
    BY <1>1, <1>2 DEF IInv, SystemOK
  <1>5. SystemOK' /\ \A m \in wire' : m.built <= now'
    BY <1>1, <1>3, <1>4 DEF IInv, SystemOK
  <1>6. PICK d \in Devices : d = a.dev
    BY <1>2
  <1>7. \A e \in Devices : Sent(e)' = Sent(e)
    BY <1>1 DEF Sent
  <1>8. \A e \in Devices \ {d} : Served(e)' = Served(e) /\ reply'[e] = reply[e]
    BY <1>1, <1>6 DEF Served, IInv, SystemOK
  <1>9. \A e \in Devices \ {d} : Spared(e)
    BY <1>1, <1>7, <1>8 DEF Spared
  <1>10. CASE a.kind = "beacon"
    <2>1. Spared(d)
      BY <1>1, <1>7, <1>10 DEF Spared, Served
    <2>2. now' \in Int /\ now' >= now
      BY <1>1 DEF IInv, SystemOK
    <2>3. Sound(d)'
      BY <2>1, <2>2, SparedStays DEF IInv
    <2> QED
      BY <1>1, <1>5, <1>9, <2>3, OffKeeps
  <1>11. CASE a.kind # "beacon"
    <2>1. a \in Served(d) /\ OneExchange(d) /\ Flushes(d) /\ Awaiting(d)
      BY <1>6, <1>11 DEF Served, IInv, Sound
    <2>2. Served(d) = {a} /\ Sent(d) = {} /\ a.kind = page[d].awaits
      BY <2>1 DEF OneExchange
    <2>3. Served(d)' = {} /\ Sent(d)' = {} /\ reply'[d] = a
      <3>1. reply'[d] = a
        BY <1>1, <1>6, <1>11 DEF IInv, SystemOK
      <3>2. Served(d)' = {}
        BY <1>1, <2>2 DEF Served
      <3> QED
        BY <1>7, <2>2, <3>1, <3>2
    <2>4. Awaiting(d)' /\ OneExchange(d)'
      BY <1>1, <1>2, <2>1, <2>2, <2>3, NoneAssumption DEF Awaiting, OneExchange
    <2>5. Flushes(d)'
      BY <1>1, <2>1, <2>2, <2>3 DEF Flushes, Unsynced, Answers
    <2>6. Sound(d)'
      BY <1>1, <2>4, <2>5 DEF IInv, Sound, LeftStands, Clock
    <2> QED
      BY <1>1, <1>5, <1>9, <2>6, OffKeeps
  <1> QED
    BY <1>10, <1>11

\* Events are lost; the page does not notice.
LEMMA ResyncKeeps ==
  ASSUME IInv, NEW d \in Devices, Resync(d)
  PROVE  IInv'
  <1>1. /\ now' = now /\ rec' = rec /\ wire' = wire /\ handled' = handled /\ page' = page
        /\ journal' = journal /\ reply' = reply /\ fetch' = fetch
        /\ stream[d] # <<>> /\ stream' = [stream EXCEPT ![d] = Tail(stream[d])]
    BY DEF Resync
  <1>2. stream' \in [Devices -> Seq(Record)] /\ FetchOK
    BY <1>1 DEF IInv, SystemOK, FetchOK
  <1> QED
    BY <1>1, <1>2, QuietKeeps

\* A record published again answers nobody's request.
LEMMA EditRateKeeps ==
  ASSUME IInv, EditRate
  PROVE  IInv'
  <1> DEFINE a == [dev |-> rec.dev, kind |-> "beacon", won |-> TRUE, rec |-> rec]
  <1>1. /\ now' = now /\ rec' = rec /\ wire' = wire /\ page' = page
        /\ journal' = journal /\ reply' = reply /\ stream' = stream /\ fetch' = fetch
        /\ handled' = handled \cup {a} /\ rec # None
    BY DEF EditRate
  <1>2. a \in Answer /\ a.kind = "beacon"
    BY <1>1 DEF IInv, SystemOK, Record, Answer
  <1> HIDE DEF a
  <1>3. SystemOK' /\ \A m \in wire' : m.built <= now'
    BY <1>1, <1>2 DEF IInv, SystemOK
  <1>4. \A e \in Devices : Spared(e)
    BY <1>1, <1>2 DEF Spared, Sent, Served
  <1>5. now' \in Int /\ now' >= now
    BY <1>1 DEF IInv, SystemOK
  <1>6. \A e \in Devices : Sound(e)'
    BY <1>4, <1>5, SparedStays DEF IInv
  <1> QED
    BY <1>3, <1>6 DEF IInv

LEMMA TickKeeps ==
  ASSUME IInv, Tick
  PROVE  IInv'
  <1>1. /\ now' = now + 1 /\ rec' = rec /\ wire' = wire /\ handled' = handled
        /\ stream' = stream /\ journal' = journal /\ reply' = reply /\ fetch' = fetch
        /\ now \in Nat
    BY DEF Tick, IInv, SystemOK
  <1>2. page' = [d \in Devices |->
                   IF page[d].playing
                   THEN [page[d] EXCEPT !.listened = Clock(d) + 1]
                   ELSE page[d]]
    BY DEF Tick
  <1>3. ASSUME NEW d \in Devices
        PROVE  /\ page'[d] \in Page
               /\ page'[d].state = page[d].state /\ page'[d].awaits = page[d].awaits
               /\ page'[d].left = page[d].left
               /\ UpToDate(page[d]) => UpToDate(page'[d])
    <2>1. Clock(d) + 1 \in Int /\ page[d] \in Page
      BY SyncAssumption DEF Clock, IInv, SystemOK
    <2> DEFINE q == [page[d] EXCEPT !.listened = Clock(d) + 1]
    <2>2. /\ q \in Page /\ q.state = page[d].state /\ q.awaits = page[d].awaits
          /\ q.left = page[d].left /\ (UpToDate(page[d]) => UpToDate(q))
      BY <2>1 DEF Page, UpToDate
    <2>3. page'[d] = IF page[d].playing THEN q ELSE page[d]
      BY <1>2
    <2> HIDE DEF q
    <2> QED
      BY <2>1, <2>2, <2>3
  <1>4. page' \in [Devices -> Page]
    BY <1>2, <1>3
  <1>5. SystemOK'
    BY <1>1, <1>4 DEF IInv, SystemOK
  <1>6. \A m \in wire' : m.built <= now'
    BY <1>1 DEF IInv, SystemOK, Report
  <1>7. ASSUME NEW d \in Devices PROVE Sound(d)'
    <2>1. Sent(d)' = Sent(d) /\ Served(d)' = Served(d)
      BY <1>1 DEF Sent, Served
    <2>2. Awaiting(d)' /\ OneExchange(d)'
      BY <1>1, <1>3, <2>1 DEF IInv, Sound, Awaiting, OneExchange
    <2>3. Flushes(d)'
      BY <1>1, <1>3, <2>1 DEF IInv, Sound, Flushes, Unsynced, Answers
    <2>4. LeftStands(d)'
      BY <1>1, <1>3 DEF IInv, Sound, LeftStands
    <2>5. (page[d].state = "loaded" => UpToDate(page[d]))'
      <3>1. page[d].state = "loaded" => UpToDate(page[d])
        BY DEF IInv, Sound
      <3>2. page'[d].state = "loaded" => UpToDate(page'[d])
        BY <1>3, <3>1
      <3> QED
        BY <3>2 DEF UpToDate
    <2>6. ASSUME journal'[d] # None PROVE journal'[d].ts <= Clock(d)'
      <3>1. journal[d] \in Entry /\ journal[d].ts <= Clock(d)
        BY <1>1, <2>6 DEF IInv, SystemOK, Sound
      <3> QED
        BY <1>1, <3>1, SyncAssumption DEF Clock, Entry
    <2> QED
      BY <2>2, <2>3, <2>4, <2>5, <2>6 DEF Sound
  <1> QED
    BY <1>5, <1>6, <1>7 DEF IInv

-----------------------------------------------------------------------------
(* Resuming.                                                               *)

\* Only TakeRestored makes a restoring page a loaded one.
LEMMA OnlyTakeRestored ==
  ASSUME IInv, Next, NEW d \in Devices, Restores(d)
  PROVE  TakeRestored(d)
  <1>1. page[d].state = "restoring" /\ page'[d].state = "loaded" /\ page[d] \in Page
    BY DEF Restores, IInv, SystemOK
  <1>2. \A e \in Devices : \A q : page' = [page EXCEPT ![e] = q] /\ e # d => FALSE
    BY <1>1 DEF IInv, SystemOK
  <1>3. \A e \in Devices : \A p : SendAs(e, p) \/ BecomeAs(e, p) \/ Settle(e, p) => e = d
    BY <1>2 DEF SendAs, BecomeAs, Settle
  <1>4. ASSUME NEW e \in Devices,
               \/ Play(e) \/ Listen(e) \/ Pause(e) \/ ChangeRate(e)
               \/ \E pos \in Positions : Seek(e, pos)
        PROVE  FALSE
    <2>1. e = d
      BY <1>3, <1>4 DEF Play, Listen, Pause, ChangeRate, Seek
    <2>2. page[e].state = "loaded"
      BY <1>4 DEF Play, Listen, Pause, ChangeRate, Seek, Act
    <2> QED
      BY <1>1, <2>1, <2>2
  <1>5. ASSUME NEW e \in Devices, Hide(e) \/ Show(e) PROVE FALSE
    <2>1. page[e].state = "loaded"
      BY <1>5 DEF Hide, Show, Act
    <2>2. page'[d] = page[d]
      BY <1>1, <1>5, <2>1 DEF Hide, Show, IInv, SystemOK
    <2> QED
      BY <1>1, <2>2
  <1>6. ASSUME NEW e \in Devices, Kill(e) PROVE FALSE
    <2>1. page'[e].state = "dead"
      BY <1>6 DEF Kill, DeadPage, IInv, SystemOK
    <2>2. e # d => page'[d] = page[d]
      BY <1>6 DEF Kill, IInv, SystemOK
    <2> QED
      BY <1>1, <2>1, <2>2
  <1>7. ASSUME NEW e \in Devices, Launch(e) PROVE FALSE
    <2>1. page[e].state = "dead"
      BY <1>7 DEF Launch
    <2>2. e # d => page'[d] = page[d]
      BY <1>7 DEF Launch, Restoring, IInv, SystemOK
    <2> QED
      BY <1>1, <2>1, <2>2
  <1>8. ASSUME NEW e \in Devices, OpenBookPage(e) \/ AnswerFetch(e) PROVE FALSE
    BY <1>1, <1>8 DEF OpenBookPage, AnswerFetch
  <1>9. ASSUME NEW e \in Devices, PlayBook(e) PROVE FALSE
    <2>1. page[e].state = "browsing"
      BY <1>9 DEF PlayBook
    <2>2. e # d => page'[d] = page[d]
      BY <1>9 DEF PlayBook, IInv, SystemOK
    <2> QED
      BY <1>1, <2>1, <2>2
  <1>10. ASSUME NEW e \in Devices, FetchFails(e) PROVE FALSE
    <2>1. page'[d].state = page[d].state \/ page'[d].state = "browsing"
      BY <1>1, <1>10 DEF FetchFails, IInv, SystemOK, Page
    <2> QED
      BY <1>1, <2>1
  <1>11. ASSUME NEW e \in Devices, TakeFlushed(e) PROVE FALSE
    <2>1. PICK q \in Page : q.state = "restoring" /\ page' = [page EXCEPT ![e] = q]
      BY <1>11, RestoringIs DEF TakeFlushed, IInv
    <2> QED
      BY <1>1, <2>1 DEF IInv, SystemOK
  <1>12. ASSUME NEW e \in Devices, RequestFails(e) PROVE FALSE
    <2>1. CASE page[e].awaits = "flush"
      <3>1. Restoring(e)
        BY <1>12, <2>1 DEF RequestFails
      <3>2. PICK q \in Page : q.state = "restoring" /\ page' = [page EXCEPT ![e] = q]
        BY <3>1, RestoringIs DEF IInv
      <3> QED
        BY <1>1, <3>2 DEF IInv, SystemOK
    <2>2. CASE page[e].awaits # "flush"
      <3>1. page[e].state = "loaded"
        BY <1>12, <2>2 DEF RequestFails, IInv, Sound, Awaiting, SystemOK, Page
      <3>2. e # d => page'[d] = page[d]
        BY <1>12, <2>2 DEF RequestFails, IInv, SystemOK
      <3> QED
        BY <1>1, <3>1, <3>2
    <2> QED
      BY <2>1, <2>2
  <1>13. ASSUME NEW e \in Devices, TakeAccepted(e) \/ TakeConflict(e) PROVE FALSE
    <2>1. reply[e] # None /\ reply[e].kind = "put"
      BY <1>13 DEF TakeAccepted, TakeConflict
    <2>2. page[e].state = "loaded"
      BY <2>1, RepliedIs
    <2>3. e = d
      BY <1>3, <1>13 DEF TakeAccepted, TakeConflict
    <2> QED
      BY <1>1, <2>2, <2>3
  <1>14. ASSUME NEW e \in Devices, TakeReconciled(e) \/ TakeEvent(e) PROVE FALSE
    <2>1. page' # page
      BY <1>1
    <2>2. \A r : MaybeAdopt(e, r) => e = d
      BY <1>3, <2>1 DEF MaybeAdopt
    <2>3. page[e].state = "loaded" /\ e = d
      BY <1>3, <1>14, <2>1, <2>2 DEF TakeReconciled, TakeEvent
    <2> QED
      BY <1>1, <2>3
  <1>15. ASSUME NEW e \in Devices, TakeRestored(e) PROVE e = d
    <2>1. e # d => page'[d] = page[d]
      BY <1>15 DEF TakeRestored, IInv, SystemOK
    <2> QED
      BY <1>1, <2>1
  <1>16. ASSUME \/ \E r \in wire : Store(r)
                \/ \E a \in handled : Respond(a)
                \/ EditRate
                \/ \E e \in Devices : Resync(e)
         PROVE  FALSE
    BY <1>1, <1>16 DEF Store, Respond, EditRate, Resync
  <1>17. ASSUME Tick PROVE FALSE
    <2>1. page'[d].state = page[d].state
      BY <1>1, <1>17 DEF Tick, Page
    <2> QED
      BY <1>1, <2>1
  <1> QED
    BY <1>4, <1>5, <1>6, <1>7, <1>8, <1>9, <1>10, <1>11, <1>12, <1>13, <1>14, <1>15, <1>16,
       <1>17 DEF Next, Take

LEMMA RestoredIsResumed ==
  ASSUME IInv, NEW d \in Devices, TakeRestored(d),
         page[d].left # None, ~page[d].left.synced
  PROVE  LET heard == page[d].left.ts - Skew[d]
         IN  \/ page'[d].pos = page[d].left.pos
             \/ /\ fetch[d][2] # None
                /\ page'[d].pos = fetch[d][2].pos /\ fetch[d][2].at >= heard
             \/ /\ journal[d].synced
                /\ page'[d].pos = journal[d].pos /\ journal[d].sAt >= heard
  <1> DEFINE heard == page[d].left.ts - Skew[d]
  <1>1. PICK server \in Record \cup {None} : server = fetch[d][2]
    BY FetchedIs DEF TakeRestored, IInv
  <1>2. page'[d] = Loaded(d, server)
    BY <1>1 DEF TakeRestored, IInv, SystemOK
  <1>3. page'[d].pos = StartFrom(d, server).pos
    BY <1>2, LoadedIs DEF IInv
  <1>4. /\ page[d].left \in Entry /\ heard \in Int
        /\ \/ journal[d] = page[d].left
           \/ journal[d] # None /\ journal[d].synced /\ journal[d].sAt >= heard
    <2>1. page[d].left \in Entry
      BY DEF IInv, SystemOK, Page
    <2>2. page[d].left.ts \in Int /\ Skew[d] \in Int
      BY <2>1, SyncAssumption DEF Entry
    <2> QED
      BY <2>1, <2>2 DEF TakeRestored, IInv, Sound, LeftStands
  <1> HIDE DEF heard
  <1>5. CASE journal[d] = page[d].left
    <2>1. OwnStands(journal[d], server)
      BY <1>5 DEF OwnStands
    <2>2. page'[d].pos = journal[d].pos
      BY <1>3, <1>5, <2>1 DEF StartFrom
    <2> QED
      BY <1>5, <2>2
  <1>6. CASE journal[d] # None /\ journal[d].synced /\ journal[d].sAt >= heard
    <2>1. CASE OwnStands(journal[d], server)
      <3>1. page'[d].pos = journal[d].pos
        BY <1>3, <1>6, <2>1 DEF StartFrom
      <3> QED
        BY <1>6, <3>1 DEF heard
    <2>2. CASE ~OwnStands(journal[d], server)
      <3>1. server # None /\ ~(server.at <= journal[d].sAt + AdoptThreshold)
        BY <2>2 DEF OwnStands
      <3>2. server.at \in Int /\ journal[d].sAt \in Int
        BY <1>6, <3>1 DEF Record, Entry, IInv, SystemOK
      <3>3. server.at >= heard
        BY <1>4, <1>6, <3>1, <3>2, SyncAssumption
      <3>4. page'[d].pos = server.pos
        BY <1>3, <2>2, <3>1 DEF StartFrom
      <3> QED
        BY <1>1, <3>1, <3>3, <3>4 DEF heard
    <2> QED
      BY <2>1, <2>2
  <1> QED
    BY <1>4, <1>5, <1>6

-----------------------------------------------------------------------------
(* Convergence: at any moment a paused player agrees with the record, or   *)
(* what will make it agree is under way.                                   *)

Agrees(d) ==
    \/ page[d].pos = rec.pos
    \/ rec.at <= page[d].sAt + AdoptThreshold
    \/ Unsynced(d)
    \/ d \in misled

\* The device has a report to be stored, or an answer with the record to come.
Asserts(d) == page[d].pending \/ Sent(d) # {}
Answered(d) ==
    \/ \E a \in Served(d) : a.rec = rec
    \/ reply[d] # None /\ reply[d].rec = rec

Paused(d) == page[d].state = "loaded" /\ ~page[d].playing /\ rec # None

Converging(d) == Paused(d) => Agrees(d) \/ News(d) \/ Asserts(d) \/ Answered(d)

AllConverge == \A d \in Devices : Converging(d)

\* No answer that brings the record as news gets lost.
TellsAll ==
    \A a \in handled : a.won /\ a.rec = rec => \E b \in handled' : b.won /\ b.rec = rec

-----------------------------------------------------------------------------
(* Steps that leave a player as far from the record as it was.             *)

\* The player stands still, and nothing that is to come to it gets lost.
LEMMA StillConverging ==
  ASSUME NEW e, Converging(e), rec' = rec,
         Paused(e)' =>
           /\ Paused(e)
           /\ page'[e].pos = page[e].pos /\ page'[e].sAt = page[e].sAt
           /\ page[e].pending => page'[e].pending,
         Unsynced(e) => Unsynced(e)', e \in misled => e \in misled',
         News(e) => News(e)', Sent(e) # {} => Sent(e)' # {}, Answered(e) => Answered(e)'
  PROVE  Converging(e)'
  BY DEF Converging, Paused, Agrees, Asserts

\* Nothing of device e changes, nor of what the server is about to tell.
LEMMA SparedConverges ==
  ASSUME NEW e, Converging(e), Spared(e), rec' = rec, stream'[e] = stream[e], TellsAll,
         e \in misled => e \in misled'
  PROVE  Converging(e)'
  <1>1. Unsynced(e) => Unsynced(e)'
    BY DEF Spared, Unsynced
  <1>2. News(e) => News(e)'
    BY DEF News, TellsAll
  <1>3. Answered(e) => Answered(e)'
    BY DEF Answered, Spared
  <1> QED
    BY <1>1, <1>2, <1>3, StillConverging DEF Spared, Paused

\* A step of d alone.
LEMMA OwnStepConverges ==
  ASSUME AllConverge, NEW d \in Devices, rec' = rec, TellsAll,
         \A e \in Devices \ {d} : Spared(e) /\ stream'[e] = stream[e]
                                  /\ (e \in misled => e \in misled'),
         Converging(d)'
  PROVE  AllConverge'
  BY SparedConverges DEF AllConverge

\* A step of a page that leaves the server alone spares the other devices.
LEMMA OthersSpared ==
  ASSUME SystemOK, NEW d \in Devices, NEW q, page' = [page EXCEPT ![d] = q],
         \A e \in Devices \ {d} : journal'[e] = journal[e] /\ reply'[e] = reply[e]
                                  /\ Sent(e)' = Sent(e),
         handled' = handled
  PROVE  TellsAll /\ \A e \in Devices \ {d} : Spared(e)
  BY DEF TellsAll, Spared, Served, SystemOK

LEMMA WrittenIs ==
  ASSUME SystemOK, NEW d \in Devices, NEW p \in Page, NEW synced \in BOOLEAN,
         WriteJournal(d, p, synced)
  PROVE  /\ \A e \in Devices \ {d} : journal'[e] = journal[e]
         /\ Unsynced(d)' <=> ~synced
  <1>1. Clock(d) \in Int /\ p.pos \in Positions /\ p.sAt \in Int
    BY SyncAssumption DEF Clock, SystemOK, Page
  <1>2. JournalEntry(d, p, synced) \in Entry /\ (JournalEntry(d, p, synced).synced <=> synced)
    BY <1>1 DEF JournalEntry, Entry
  <1>3. /\ journal'[d] = JournalEntry(d, p, synced)
        /\ \A e \in Devices \ {d} : journal'[e] = journal[e]
    BY DEF WriteJournal, SystemOK
  <1> QED
    BY <1>2, <1>3, NoneAssumption DEF Unsynced

-----------------------------------------------------------------------------
(* A player that reports asserts itself until the server has answered.     *)

LEMMA SendAsserts ==
  ASSUME SystemOK, NEW d \in Devices, NEW p \in Page, SendAs(d, p)
  PROVE  /\ page' = [page EXCEPT ![d] = Sending(p)]
         /\ \A e \in Devices \ {d} : Sent(e)' = Sent(e)
         /\ Asserts(d)'
  <1> DEFINE m == ReportOf(d, p, "put")
  <1>1. m.dev = d /\ m.kind = "put"
    BY ReportIs
  <1>2. /\ page' = [page EXCEPT ![d] = Sending(p)]
        /\ wire' = IF p.awaits = "nothing" THEN wire \cup {m} ELSE wire
    BY DEF SendAs
  <1> HIDE DEF m
  <1>3. \A e \in Devices \ {d} : Sent(e)' = Sent(e)
    BY <1>1, <1>2 DEF Sent
  <1>4. CASE p.awaits = "nothing"
    <2>1. m \in Sent(d)'
      BY <1>1, <1>2, <1>4 DEF Sent
    <2> QED
      BY <1>2, <1>3, <2>1 DEF Asserts
  <1>5. CASE p.awaits # "nothing"
    <2>1. Sending(p) = [p EXCEPT !.pending = TRUE]
      BY <1>5 DEF Sending
    <2>2. page'[d].pending
      BY <1>2, <2>1 DEF SystemOK, Page
    <2> QED
      BY <1>2, <1>3, <2>2 DEF Asserts
  <1> QED
    BY <1>4, <1>5

\* The journal of no other device is written.
Writes(d) == \A e \in Devices \ {d} : journal'[e] = journal[e]

\* Nothing changes but what is fetched.
LEMMA NothingNew ==
  ASSUME AllConverge, page' = page, wire' = wire, handled' = handled, journal' = journal,
         reply' = reply, stream' = stream, rec' = rec, misled' = misled
  PROVE  AllConverge'
  BY DEF AllConverge, Converging, Paused, Agrees, Asserts, Answered, Sent, Served, News,
         Unsynced

\* A page that plays, or is not loaded, is not compared.
LEMMA AwayConverges ==
  ASSUME IInv, AllConverge, NEW d \in Devices, NEW q \in Page,
         page' = [page EXCEPT ![d] = q], q.state # "loaded" \/ q.playing,
         Writes(d), rec' = rec, TellsAll,
         \A e \in Devices \ {d} : /\ Sent(e)' = Sent(e) /\ Served(e)' = Served(e)
                                  /\ reply'[e] = reply[e] /\ stream'[e] = stream[e]
                                  /\ e \in misled => e \in misled'
  PROVE  AllConverge'
  <1>1. page'[d] = q /\ \A e \in Devices \ {d} : page'[e] = page[e]
    BY DEF IInv, SystemOK
  <1>2. \A e \in Devices \ {d} : Spared(e)
    BY <1>1 DEF Spared, Writes
  <1>3. Converging(d)'
    BY <1>1 DEF Converging, Paused
  <1> QED
    BY <1>2, <1>3, OwnStepConverges

LEMMA SendConverges ==
  ASSUME IInv, AllConverge, NEW d \in Devices, NEW p \in Page, SendAs(d, p), Writes(d),
         rec' = rec, handled' = handled, reply' = reply,
         \A e \in Devices \ {d} : stream'[e] = stream[e] /\ (e \in misled => e \in misled')
  PROVE  AllConverge'
  <1>1. /\ page' = [page EXCEPT ![d] = Sending(p)] /\ Asserts(d)'
        /\ \A e \in Devices \ {d} : Sent(e)' = Sent(e)
    BY SendAsserts DEF IInv
  <1>2. TellsAll /\ \A e \in Devices \ {d} : Spared(e)
    BY <1>1, OthersSpared DEF IInv, Writes
  <1> QED
    BY <1>1, <1>2, OwnStepConverges DEF Converging

\* A player that plays is not compared.
LEMMA PlayingConverges ==
  ASSUME IInv, AllConverge, NEW d \in Devices, NEW p \in Page, BecomeAs(d, p), p.playing,
         Writes(d), rec' = rec, handled' = handled, reply' = reply, stream' = stream,
         misled' = misled
  PROVE  AllConverge'
  <1>1. page' = [page EXCEPT ![d] = p] /\ page'[d].playing
    BY DEF BecomeAs, IInv, SystemOK
  <1>2. \A e \in Devices \ {d} : Sent(e)' = Sent(e)
    BY DEF BecomeAs, Sent
  <1>3. TellsAll /\ \A e \in Devices \ {d} : Spared(e)
    BY <1>1, <1>2, OthersSpared DEF IInv, Writes
  <1> QED
    BY <1>1, <1>3, OwnStepConverges DEF Converging, Paused

LEMMA PlayConverges ==
  ASSUME IInv, AllConverge, NEW d \in Devices, Play(d)
  PROVE  AllConverge'
  <1>1. /\ page[d] \in Page /\ Writes(d) /\ rec' = rec /\ handled' = handled
        /\ reply' = reply /\ stream' = stream /\ misled' = misled
    BY DEF Play, Act, Writes, IInv, SystemOK
  <1>2. PICK p \in Page : p = [Listened(d, page[d]) EXCEPT !.playing = TRUE] /\ p.playing
    <2>1. PICK l \in Page : l = Listened(d, page[d])
      BY <1>1, ListenedIs DEF IInv
    <2> DEFINE p == [l EXCEPT !.playing = TRUE]
    <2>2. p \in Page /\ p.playing
      BY DEF Page
    <2> QED
      BY <2>1, <2>2
  <1>3. BecomeAs(d, p)
    BY <1>2 DEF Play
  <1> QED
    BY <1>1, <1>2, <1>3, PlayingConverges

LEMMA ListenConverges ==
  ASSUME IInv, AllConverge, NEW d \in Devices, Listen(d)
  PROVE  AllConverge'
  <1>1. /\ page[d] \in Page /\ page[d].playing /\ page[d].pos + 1 \in Positions
        /\ rec' = rec /\ handled' = handled
        /\ reply' = reply /\ stream' = stream /\ misled' = misled
    BY DEF Listen, HasMore, IInv, SystemOK
  <1>2. PICK p \in Page : p = [Listened(d, page[d]) EXCEPT !.pos = @ + 1] /\ p.playing
    <2>1. PICK l \in Page : l = Listened(d, page[d]) /\ l.playing /\ l.pos = page[d].pos
      BY <1>1, ListenedIs DEF IInv
    <2> DEFINE p == [l EXCEPT !.pos = @ + 1]
    <2>2. p \in Page /\ p.playing
      BY <1>1, <2>1 DEF Page
    <2> QED
      BY <2>1, <2>2
  <1>3. (SendAs(d, p) \/ BecomeAs(d, p)) /\ WriteJournal(d, p, FALSE)
    BY <1>2 DEF Listen
  <1>4. Writes(d)
    BY <1>3, WrittenIs DEF IInv, Writes
  <1> QED
    BY <1>1, <1>2, <1>3, <1>4, PlayingConverges, SendConverges

LEMMA PauseConverges ==
  ASSUME IInv, AllConverge, NEW d \in Devices, Pause(d)
  PROVE  AllConverge'
  <1>1. /\ page[d] \in Page /\ rec' = rec /\ handled' = handled
        /\ reply' = reply /\ stream' = stream /\ misled' = misled
    BY DEF Pause, Act, IInv, SystemOK
  <1>2. PICK p \in Page : p = [page[d] EXCEPT !.playing = FALSE]
    BY <1>1, PlayingIs
  <1>3. SendAs(d, p) /\ (WriteJournal(d, p, TRUE) \/ WriteJournal(d, p, FALSE))
    BY <1>2 DEF Pause
  <1>4. Writes(d)
    BY <1>3, WrittenIs DEF IInv, Writes
  <1> QED
    BY <1>1, <1>3, <1>4, SendConverges

LEMMA SeekConverges ==
  ASSUME IInv, AllConverge, NEW d \in Devices, NEW pos \in Positions, Seek(d, pos)
  PROVE  AllConverge'
  <1>1. /\ page[d] \in Page /\ rec' = rec /\ handled' = handled
        /\ reply' = reply /\ stream' = stream /\ misled' = misled
    BY DEF Seek, Act, IInv, SystemOK
  <1>2. PICK p \in Page : p = [Listened(d, page[d]) EXCEPT !.pos = pos]
    BY <1>1, ListenedIs, PosIs DEF IInv
  <1>3. SendAs(d, p) /\ WriteJournal(d, p, TRUE)
    BY <1>2 DEF Seek
  <1>4. Writes(d)
    BY <1>3, WrittenIs DEF IInv, Writes
  <1> QED
    BY <1>1, <1>3, <1>4, SendConverges

LEMMA ChangeRateConverges ==
  ASSUME IInv, AllConverge, NEW d \in Devices, ChangeRate(d)
  PROVE  AllConverge'
  <1>1. /\ page[d] \in Page /\ rec' = rec /\ handled' = handled /\ Writes(d)
        /\ reply' = reply /\ stream' = stream /\ misled' = misled /\ SendAs(d, page[d])
    BY DEF ChangeRate, Act, IInv, SystemOK, Writes
  <1> QED
    BY <1>1, SendConverges

\* Whether the page is on screen makes no difference.
LEMMA HideConverges ==
  ASSUME IInv, AllConverge, NEW d \in Devices, Hide(d)
  PROVE  AllConverge'
  <1>1. /\ page[d] \in Page /\ rec' = rec /\ handled' = handled
        /\ reply' = reply /\ stream' = stream /\ misled' = misled
        /\ page' = [page EXCEPT ![d].hidden = TRUE]
        /\ wire' = wire \cup {ReportOf(d, page[d], "beacon")}
    BY DEF Hide, Act, IInv, SystemOK
  <1>2. PICK synced \in BOOLEAN : /\ synced <=> journal[d] # None /\ journal[d].synced
                                  /\ WriteJournal(d, page[d], synced)
    BY DEF Hide
  <1>3. Writes(d) /\ (Unsynced(d) => Unsynced(d)')
    BY <1>1, <1>2, WrittenIs DEF IInv, Writes, Unsynced
  <1>4. PICK m : m = ReportOf(d, page[d], "beacon") /\ m.kind = "beacon"
    BY <1>1, ReportIs DEF IInv
  <1>5. \A e \in Devices : Sent(e)' = Sent(e)
    BY <1>1, <1>4 DEF Sent
  <1>6. PICK q \in Page : /\ page' = [page EXCEPT ![d] = q] /\ page'[d] = q
                          /\ q.state = page[d].state /\ (q.playing <=> page[d].playing)
                          /\ q.pos = page[d].pos /\ q.sAt = page[d].sAt
                          /\ (q.pending <=> page[d].pending)
    <2> DEFINE q == [page[d] EXCEPT !.hidden = TRUE]
    <2>1. /\ q \in Page /\ q.state = page[d].state /\ (q.playing <=> page[d].playing)
          /\ q.pos = page[d].pos /\ q.sAt = page[d].sAt
          /\ (q.pending <=> page[d].pending)
      BY <1>1 DEF Page
    <2>2. page' = [page EXCEPT ![d] = q]
      BY <1>1
    <2> HIDE DEF q
    <2>3. page'[d] = q
      BY <2>2 DEF IInv, SystemOK
    <2> QED
      BY <2>1, <2>2, <2>3
  <1>7. TellsAll /\ \A e \in Devices \ {d} : Spared(e)
    BY <1>1, <1>3, <1>5, <1>6, OthersSpared DEF IInv, Writes
  <1>8. Converging(d)'
    <2>1. (News(d) => News(d)') /\ (Answered(d) => Answered(d)')
      BY <1>1 DEF News, Answered, Served
    <2> QED
      BY <1>1, <1>3, <1>5, <1>6, <2>1, StillConverging DEF AllConverge, Paused
  <1> QED
    BY <1>1, <1>7, <1>8, OwnStepConverges

LEMMA ShowConverges ==
  ASSUME IInv, AllConverge, NEW d \in Devices, Show(d)
  PROVE  AllConverge'
  <1>1. /\ page[d] \in Page /\ rec' = rec /\ handled' = handled /\ wire' = wire
        /\ reply' = reply /\ stream' = stream /\ misled' = misled /\ journal' = journal
        /\ page' = [page EXCEPT ![d].hidden = FALSE]
    BY DEF Show, IInv, SystemOK
  <1>2. PICK q \in Page : /\ page' = [page EXCEPT ![d] = q] /\ page'[d] = q
                          /\ q.state = page[d].state /\ (q.playing <=> page[d].playing)
                          /\ q.pos = page[d].pos /\ q.sAt = page[d].sAt
                          /\ (q.pending <=> page[d].pending)
    <2> DEFINE q == [page[d] EXCEPT !.hidden = FALSE]
    <2>1. /\ q \in Page /\ q.state = page[d].state /\ (q.playing <=> page[d].playing)
          /\ q.pos = page[d].pos /\ q.sAt = page[d].sAt
          /\ (q.pending <=> page[d].pending)
      BY <1>1 DEF Page
    <2>2. page' = [page EXCEPT ![d] = q]
      BY <1>1
    <2> HIDE DEF q
    <2>3. page'[d] = q
      BY <2>2 DEF IInv, SystemOK
    <2> QED
      BY <2>1, <2>2, <2>3
  <1>3. \A e \in Devices : Sent(e)' = Sent(e)
    BY <1>1 DEF Sent
  <1>4. TellsAll /\ \A e \in Devices \ {d} : Spared(e)
    BY <1>1, <1>2, <1>3, OthersSpared DEF IInv
  <1>5. Converging(d)'
    <2>1. (News(d) => News(d)') /\ (Answered(d) => Answered(d)')
          /\ (Unsynced(d) => Unsynced(d)')
      BY <1>1 DEF News, Answered, Served, Unsynced
    <2> QED
      BY <1>1, <1>2, <1>3, <2>1, StillConverging DEF AllConverge, Paused
  <1> QED
    BY <1>1, <1>4, <1>5, OwnStepConverges

-----------------------------------------------------------------------------
(* A player that hears of a record.                                        *)

\* It is set back by news that had been overtaken, or is as near as it was.
LEMMA HeardAgrees ==
  ASSUME NEW d, page[d] \in Page, NEW r \in Record, rec \in Record, Hears(d, r), rec' = rec,
         page'[d].pos = page[d].pos, page'[d].sAt = r.at,
         News(d) /\ r # rec => News(d)',
         Agrees(d) \/ News(d) \/ r = rec
  PROVE  Agrees(d)' \/ News(d)'
  <1>1. /\ rec.at \in Int /\ r.at \in Int /\ page[d].sAt \in Int /\ AdoptThreshold \in Nat
    BY SyncAssumption DEF Record, Page
  <1>2. CASE r = rec
    BY <1>1, <1>2 DEF Agrees
  <1>3. CASE r # rec /\ News(d)
    BY <1>3
  <1>4. CASE r # rec /\ ~News(d)
    <2>1. CASE r.at < page[d].sAt \/ Unsynced(d)
      BY <1>4, <2>1 DEF Hears, Agrees
    <2>2. CASE ~(r.at < page[d].sAt \/ Unsynced(d))
      <3>1. misled' = misled
        BY <1>4, <2>2 DEF Hears
      <3>2. rec.at <= page[d].sAt + AdoptThreshold => rec.at <= r.at + AdoptThreshold
        BY <1>1, <2>2
      <3> QED
        BY <1>4, <2>2, <3>1, <3>2 DEF Agrees
    <2> QED
      BY <2>1, <2>2
  <1> QED
    BY <1>2, <1>3, <1>4

LEMMA HearsOnly ==
  ASSUME NEW d, NEW r, Hears(d, r), NEW e, e # d
  PROVE  e \in misled => e \in misled'
  BY DEF Hears

\* The page acknowledges r, and stays where it is.
LEMMA AcceptConverges ==
  ASSUME IInv, AllConverge, NEW d \in Devices, NEW r \in Record,
         BecomeAs(d, Accepted(page[d], r)), Writes(d), Hears(d, r),
         rec' = rec, handled' = handled, reply' = reply,
         \A e \in Devices \ {d} : stream'[e] = stream[e],
         News(d) /\ r # rec => News(d)'
  PROVE  AllConverge'
  <1>1. page[d] \in Page
    BY DEF IInv, SystemOK
  <1>2. PICK q \in Page : /\ page' = [page EXCEPT ![d] = q] /\ page'[d] = q
                          /\ q.state = page[d].state /\ (q.playing <=> page[d].playing)
                          /\ q.pos = page[d].pos /\ q.sAt = r.at
                          /\ (q.pending <=> page[d].pending)
    <2> DEFINE q == [page[d] EXCEPT !.sAt = r.at]
    <2>1. /\ q \in Page /\ q.state = page[d].state /\ (q.playing <=> page[d].playing)
          /\ q.pos = page[d].pos /\ q.sAt = r.at /\ (q.pending <=> page[d].pending)
      BY <1>1 DEF Page, Record
    <2>2. page' = [page EXCEPT ![d] = q]
      BY DEF BecomeAs, Accepted
    <2> HIDE DEF q
    <2>3. page'[d] = q
      BY <2>2 DEF IInv, SystemOK
    <2> QED
      BY <2>1, <2>2, <2>3
  <1>3. \A e \in Devices : Sent(e)' = Sent(e)
    BY DEF Sent, BecomeAs
  <1>4. TellsAll /\ \A e \in Devices \ {d} : Spared(e)
    BY <1>2, <1>3, OthersSpared DEF IInv, Writes
  <1>5. Converging(d)'
    <2> SUFFICES ASSUME Paused(d)'
                 PROVE  Agrees(d)' \/ News(d)' \/ Asserts(d)' \/ Answered(d)'
      BY DEF Converging
    <2>1. Paused(d) /\ rec \in Record
      BY <1>2 DEF Paused, IInv, SystemOK
    <2>2. Asserts(d) => Asserts(d)'
      BY <1>2, <1>3 DEF Asserts
    <2>3. Answered(d) => Answered(d)'
      BY DEF Answered, Served
    <2>4. Agrees(d) \/ News(d) => Agrees(d)' \/ News(d)'
      BY <1>1, <1>2, <2>1, HeardAgrees
    <2> QED
      BY <2>1, <2>2, <2>3, <2>4 DEF AllConverge, Converging
  <1>6. \A e \in Devices \ {d} : e \in misled => e \in misled'
    BY HearsOnly
  <1> QED
    BY <1>4, <1>5, <1>6, OwnStepConverges

LEMMA AdoptConverges ==
  ASSUME IInv, AllConverge, NEW d \in Devices, NEW r \in Record, MaybeAdopt(d, r),
         rec' = rec, handled' = handled, reply' = reply,
         \A e \in Devices \ {d} : stream'[e] = stream[e],
         News(d) /\ r # rec => News(d)'
  PROVE  AllConverge'
  <1>1. page[d] \in Page
    BY DEF IInv, SystemOK
  <1>2. CASE r.dev = d
    <2>1. PICK p \in Page : p = Accepted(page[d], r)
      BY <1>1, AcceptedIs
    <2>2. BecomeAs(d, p) /\ WriteJournal(d, p, TRUE) /\ Hears(d, r)
      BY <1>2, <2>1 DEF MaybeAdopt
    <2>3. Writes(d)
      BY <2>2, WrittenIs DEF IInv, Writes
    <2> QED
      BY <2>1, <2>2, <2>3, AcceptConverges
  <1>3. CASE r.dev # d /\ ~Newer(page[d], r)
    <2>1. page' = page /\ wire' = wire /\ journal' = journal /\ misled' = misled
      BY <1>3 DEF MaybeAdopt
    <2>2. \A e \in Devices : Sent(e)' = Sent(e)
      BY <2>1 DEF Sent
    <2>3. TellsAll /\ \A e \in Devices \ {d} : Spared(e)
      BY <2>1, <2>2 DEF TellsAll, Spared, Served
    <2>4. Converging(d)'
      <3> SUFFICES ASSUME Paused(d)'
                   PROVE  Agrees(d)' \/ News(d)' \/ Asserts(d)' \/ Answered(d)'
        BY DEF Converging
      <3>1. Paused(d) /\ rec \in Record
        BY <2>1 DEF Paused, IInv, SystemOK
      <3>2. /\ Asserts(d) => Asserts(d)'
            /\ Answered(d) => Answered(d)'
            /\ Agrees(d) => Agrees(d)'
        BY <2>1, <2>2 DEF Asserts, Answered, Served, Agrees, Unsynced
      <3>3. r = rec => Agrees(d)
        BY <1>1, <1>3, <3>1, SyncAssumption DEF Newer, Agrees, Page, Record
      <3> QED
        BY <3>1, <3>2, <3>3 DEF AllConverge, Converging
    <2> QED
      BY <2>1, <2>3, <2>4, OwnStepConverges
  <1>4. CASE r.dev # d /\ Newer(page[d], r)
    <2>1. PICK p \in Page : p = Moved(d, page[d], r)
      BY <1>1, MovedIs DEF IInv
    <2>2. WriteJournal(d, p, TRUE) /\ Hears(d, r)
      BY <1>4, <2>1 DEF MaybeAdopt
    <2>3. Writes(d) /\ \A e \in Devices \ {d} : e \in misled => e \in misled'
      BY <2>2, WrittenIs, HearsOnly DEF IInv, Writes
    <2>4. CASE Moves(page[d], r)
      <3>1. SendAs(d, p)
        BY <1>4, <2>1, <2>4 DEF MaybeAdopt
      <3> QED
        BY <2>3, <3>1, SendConverges
    <2>5. CASE ~Moves(page[d], r)
      <3>1. BecomeAs(d, Accepted(page[d], r))
        BY <1>4, <2>5 DEF MaybeAdopt, Moved
      <3> QED
        BY <2>2, <2>3, <3>1, AcceptConverges
    <2> QED
      BY <2>4, <2>5
  <1> QED
    BY <1>2, <1>3, <1>4

LEMMA TakeReconciledConverges ==
  ASSUME IInv, AllConverge, NEW d \in Devices, TakeReconciled(d)
  PROVE  AllConverge'
  <1>1. /\ page[d] \in Page /\ rec' = rec /\ handled' = handled /\ reply' = reply
        /\ stream' = stream /\ fetch[d][2] \in Record \cup {None}
    BY FetchedIs DEF TakeReconciled, IInv, SystemOK
  <1>2. CASE fetch[d][2] = None
    <2>1. page' = page /\ wire' = wire /\ journal' = journal /\ misled' = misled
      BY <1>2 DEF TakeReconciled
    <2> QED
      BY <1>1, <2>1, NothingNew
  <1>3. CASE fetch[d][2] # None /\ page[d].playing
    <2>1. SendAs(d, page[d]) /\ journal' = journal /\ misled' = misled
      BY <1>3 DEF TakeReconciled
    <2> QED
      BY <1>1, <2>1, SendConverges DEF Writes
  <1>4. CASE fetch[d][2] # None /\ ~page[d].playing
    <2>1. MaybeAdopt(d, fetch[d][2])
      BY <1>4 DEF TakeReconciled
    <2>2. News(d) => News(d)'
      BY <1>1 DEF News
    <2> QED
      BY <1>1, <1>4, <2>1, <2>2, AdoptConverges
  <1> QED
    BY <1>2, <1>3, <1>4

\* News other than the head of the stream is still to come without it.
LEMMA LaterNews ==
  ASSUME SystemOK, NEW d \in Devices, stream[d] # <<>>, Head(stream[d]) # rec, News(d),
         rec' = rec, handled' = handled, stream' = [stream EXCEPT ![d] = Tail(stream[d])]
  PROVE  News(d)'
  <1>1. stream[d] \in Seq(Record) /\ stream'[d] = Tail(stream[d])
    BY DEF SystemOK
  <1>2. CASE \E a \in handled : a.won /\ a.rec = rec
    BY <1>2 DEF News
  <1>3. ASSUME NEW i \in DOMAIN stream[d], stream[d][i] = rec PROVE News(d)'
    <2>1. i \in 1..Len(stream[d]) /\ i # 1
      BY <1>1, <1>3
    <2>2. i - 1 \in DOMAIN Tail(stream[d]) /\ Tail(stream[d])[i - 1] = rec
      BY <1>1, <1>3, <2>1
    <2> QED
      BY <1>1, <2>2 DEF News
  <1> QED
    BY <1>2, <1>3 DEF News

LEMMA TakeEventConverges ==
  ASSUME IInv, AllConverge, NEW d \in Devices, TakeEvent(d)
  PROVE  AllConverge'
  <1>1. /\ page[d] \in Page /\ rec' = rec /\ handled' = handled /\ reply' = reply
        /\ stream' = [stream EXCEPT ![d] = Tail(stream[d])]
        /\ stream[d] \in Seq(Record) /\ stream[d] # <<>>
    BY DEF TakeEvent, IInv, SystemOK
  <1>2. PICK r \in Record : r = Head(stream[d])
    BY <1>1
  <1>3. \A e \in Devices \ {d} : stream'[e] = stream[e]
    BY <1>1 DEF IInv, SystemOK
  <1>4. CASE page[d].state # "loaded" \/ (page[d].playing /\ r.dev # d)
    <2>1. page' = page /\ wire' = wire /\ journal' = journal /\ misled' = misled
      BY <1>2, <1>4 DEF TakeEvent
    <2>2. /\ page' = [page EXCEPT ![d] = page[d]]
          /\ \A e \in Devices : Sent(e)' = Sent(e) /\ Served(e)' = Served(e)
          /\ TellsAll
      BY <1>1, <2>1 DEF Sent, Served, TellsAll, IInv, SystemOK
    <2> QED
      BY <1>1, <1>3, <1>4, <2>1, <2>2, AwayConverges DEF Writes
  <1>5. CASE ~(page[d].state # "loaded" \/ (page[d].playing /\ r.dev # d))
    <2>1. MaybeAdopt(d, r)
      BY <1>2, <1>5 DEF TakeEvent
    <2>2. News(d) /\ r # rec => News(d)'
      BY <1>1, <1>2, LaterNews DEF IInv
    <2> QED
      BY <1>1, <1>3, <2>1, <2>2, AdoptConverges
  <1> QED
    BY <1>4, <1>5

\* The page at rest that a resync cuts off from the last of the news is noted.
LEMMA ResyncConverges ==
  ASSUME IInv, AllConverge, NEW d \in Devices, Resync(d)
  PROVE  AllConverge'
  <1>1. /\ rec' = rec /\ wire' = wire /\ handled' = handled /\ page' = page
        /\ journal' = journal /\ reply' = reply
        /\ stream[d] # <<>> /\ stream' = [stream EXCEPT ![d] = Tail(stream[d])]
        /\ misled' = IF page[d].state = "loaded" /\ ~page[d].playing
                        /\ Head(stream[d]) = rec /\ ~News(d)'
                     THEN misled \cup {d}
                     ELSE misled
    BY DEF Resync
  <1>2. TellsAll /\ \A e \in Devices : Spared(e)
    BY <1>1 DEF TellsAll, Spared, Sent, Served
  <1>3. \A e \in Devices \ {d} : /\ Spared(e) /\ stream'[e] = stream[e]
                                  /\ e \in misled => e \in misled'
    BY <1>1, <1>2 DEF IInv, SystemOK
  <1>4. Converging(d)'
    <2> SUFFICES ASSUME Paused(d)' PROVE Converging(d)'
      BY DEF Converging
    <2>1. CASE Head(stream[d]) = rec /\ ~News(d)'
      <3>1. d \in misled'
        BY <1>1, <2>1 DEF Paused
      <3> QED
        BY <3>1 DEF Converging, Agrees
    <2>2. CASE ~(Head(stream[d]) = rec /\ ~News(d)')
      <3>1. News(d) => News(d)'
        BY <1>1, <2>2, LaterNews DEF IInv
      <3>2. /\ Unsynced(d) => Unsynced(d)'
            /\ Answered(d) => Answered(d)'
            /\ Sent(d) # {} => Sent(d)' # {}
            /\ d \in misled => d \in misled'
        BY <1>1 DEF Unsynced, Answered, Sent, Served
      <3>3. Converging(d) /\ (Paused(d)' => Paused(d))
        BY <1>1 DEF AllConverge, Paused
      <3> QED
        BY <1>1, <3>1, <3>2, <3>3, StillConverging
    <2> QED
      BY <2>1, <2>2
  <1> QED
    BY <1>1, <1>2, <1>3, <1>4, OwnStepConverges

\* What is published again is news at least.
LEMMA EditRateConverges ==
  ASSUME IInv, AllConverge, EditRate
  PROVE  AllConverge'
  <1> DEFINE a == [dev |-> rec.dev, kind |-> "beacon", won |-> TRUE, rec |-> rec]
  <1>1. /\ rec' = rec /\ wire' = wire /\ page' = page /\ journal' = journal
        /\ reply' = reply /\ stream' = stream /\ misled' = misled
        /\ handled' = handled \cup {a}
    BY DEF EditRate
  <1>2. a.kind = "beacon"
    OBVIOUS
  <1> HIDE DEF a
  <1> SUFFICES ASSUME NEW e \in Devices PROVE Converging(e)'
    BY DEF AllConverge
  <1>3. Sent(e)' = Sent(e) /\ Served(e)' = Served(e)
    BY <1>1, <1>2 DEF Sent, Served
  <1>4. /\ News(e) => News(e)'
        /\ Answered(e) => Answered(e)'
        /\ Unsynced(e) => Unsynced(e)'
    BY <1>1, <1>3 DEF News, Answered, Unsynced
  <1> QED
    BY <1>1, <1>3, <1>4, StillConverging DEF AllConverge, Paused

\* A report that was answered: what came up meanwhile is sent, or the page has
\* heard all there was to come.
LEMMA SettleConverges ==
  ASSUME IInv, AllConverge, NEW d \in Devices, reply[d] # None, reply[d].kind = "put",
         NEW p \in Page, Settle(d, p), Writes(d), Hears(d, reply[d].rec),
         reply' = [reply EXCEPT ![d] = None],
         rec' = rec, handled' = handled, stream' = stream,
         p.pending \/ /\ p.pos = page[d].pos /\ p.sAt = reply[d].rec.at
                      /\ (p.playing <=> page[d].playing)
                      /\ (p.pending <=> page[d].pending)
  PROVE  AllConverge'
  <1>1. /\ page[d].awaits = "put" /\ Sent(d) = {} /\ Served(d) = {}
        /\ page[d].state = "loaded" /\ page[d] \in Page /\ reply[d].rec \in Record
    BY RepliedIs DEF IInv, Sound, OneExchange
  <1>2. PICK q \in Page : /\ q = [p EXCEPT !.awaits = "nothing", !.pending = FALSE]
                          /\ q.pos = p.pos /\ q.sAt = p.sAt /\ (q.playing <=> p.playing)
    <2> DEFINE q == [p EXCEPT !.awaits = "nothing", !.pending = FALSE]
    <2>1. q \in Page /\ q.pos = p.pos /\ q.sAt = p.sAt /\ (q.playing <=> p.playing)
      BY DEF Page
    <2> QED
      BY <2>1
  <1>3. /\ \A e \in Devices \ {d} : reply'[e] = reply[e]
        /\ \A e \in Devices \ {d} : e \in misled => e \in misled'
    BY HearsOnly DEF IInv, SystemOK
  <1>4. CASE p.pending
    <2>1. SendAs(d, q)
      BY <1>2, <1>4 DEF Settle
    <2>2. /\ page' = [page EXCEPT ![d] = Sending(q)] /\ Asserts(d)'
          /\ \A e \in Devices \ {d} : Sent(e)' = Sent(e)
      BY <2>1, SendAsserts DEF IInv
    <2>3. TellsAll /\ \A e \in Devices \ {d} : Spared(e)
      BY <1>3, <2>2, OthersSpared DEF IInv, Writes
    <2> QED
      BY <1>3, <2>2, <2>3, OwnStepConverges DEF Converging
  <1>5. CASE ~p.pending
    <2>1. page' = [page EXCEPT ![d] = q] /\ wire' = wire
      BY <1>2, <1>5 DEF Settle, BecomeAs
    <2>2. page'[d] = q /\ \A e \in Devices : Sent(e)' = Sent(e)
      BY <2>1 DEF IInv, SystemOK, Sent
    <2>3. TellsAll /\ \A e \in Devices \ {d} : Spared(e)
      BY <1>3, <2>1, <2>2, OthersSpared DEF IInv, Writes
    <2>4. Converging(d)'
      <3> SUFFICES ASSUME Paused(d)' PROVE Agrees(d)' \/ News(d)'
        BY DEF Converging
      <3>1. Paused(d) /\ rec \in Record
        BY <1>1, <1>2, <1>5, <2>2 DEF Paused, IInv, SystemOK
      <3>2. ~Asserts(d)
        BY <1>1, <1>5 DEF Asserts
      <3>3. Answered(d) => reply[d].rec = rec
        BY <1>1 DEF Answered
      <3>4. Agrees(d) \/ News(d) \/ reply[d].rec = rec
        BY <3>1, <3>2, <3>3 DEF AllConverge, Converging
      <3>5. News(d) => News(d)'
        BY DEF News
      <3>6. page'[d].pos = page[d].pos /\ page'[d].sAt = reply[d].rec.at
        BY <1>2, <1>5, <2>2
      <3> QED
        BY <1>1, <3>1, <3>4, <3>5, <3>6, HeardAgrees
    <2> QED
      BY <1>3, <2>3, <2>4, OwnStepConverges
  <1> QED
    BY <1>4, <1>5

LEMMA AcceptedKeeps ==
  ASSUME NEW p \in Page, NEW r \in Record
  PROVE  /\ Accepted(p, r).pos = p.pos /\ Accepted(p, r).sAt = r.at
         /\ (Accepted(p, r).playing <=> p.playing)
         /\ (Accepted(p, r).pending <=> p.pending)
  BY DEF Accepted, Page, Record

LEMMA TakeAcceptedConverges ==
  ASSUME IInv, AllConverge, NEW d \in Devices, TakeAccepted(d)
  PROVE  AllConverge'
  <1>1. /\ reply[d] # None /\ reply[d].kind = "put" /\ Hears(d, reply[d].rec)
        /\ rec' = rec /\ handled' = handled /\ stream' = stream
        /\ reply' = [reply EXCEPT ![d] = None]
    BY DEF TakeAccepted
  <1>2. page[d] \in Page /\ reply[d].rec \in Record
    BY <1>1, RepliedIs
  <1>3. PICK p \in Page : p = Accepted(page[d], reply[d].rec)
    BY <1>2, AcceptedIs
  <1>4. Settle(d, p) /\ WriteJournal(d, p, TRUE)
    BY <1>3 DEF TakeAccepted
  <1>5. Writes(d)
    BY <1>4, WrittenIs DEF IInv, Writes
  <1>6. /\ p.pos = page[d].pos /\ p.sAt = reply[d].rec.at
        /\ (p.playing <=> page[d].playing) /\ (p.pending <=> page[d].pending)
    BY <1>2, <1>3, AcceptedKeeps
  <1> QED
    BY <1>1, <1>4, <1>5, <1>6, SettleConverges

LEMMA TakeConflictConverges ==
  ASSUME IInv, AllConverge, NEW d \in Devices, TakeConflict(d)
  PROVE  AllConverge'
  <1>1. /\ reply[d] # None /\ reply[d].kind = "put" /\ Hears(d, reply[d].rec)
        /\ rec' = rec /\ handled' = handled /\ stream' = stream
        /\ reply' = [reply EXCEPT ![d] = None]
    BY DEF TakeConflict
  <1>2. PICK r \in Record : r = reply[d].rec
    BY <1>1, RepliedIs
  <1>3. page[d] \in Page
    BY <1>1, RepliedIs
  <1>4. CASE r.dev # d /\ Moves(page[d], r)
    <2>1. PICK p \in Page : p = Moved(d, page[d], r)
      BY <1>3, MovedIs DEF IInv
    <2>2. PICK q \in Page : q = [p EXCEPT !.pending = TRUE] /\ q.pending
      <3> DEFINE q == [p EXCEPT !.pending = TRUE]
      <3>1. q \in Page /\ q.pending
        BY DEF Page
      <3> QED
        BY <3>1
    <2>3. Settle(d, q) /\ WriteJournal(d, p, TRUE)
      BY <1>2, <1>4, <2>1, <2>2 DEF TakeConflict
    <2>4. Writes(d)
      BY <2>3, WrittenIs DEF IInv, Writes
    <2> QED
      BY <1>1, <2>2, <2>3, <2>4, SettleConverges
  <1>5. CASE ~(r.dev # d /\ Moves(page[d], r))
    <2>1. PICK p \in Page : p = Accepted(page[d], r)
      BY <1>3, AcceptedIs
    <2>2. Settle(d, p) /\ WriteJournal(d, p, TRUE)
      BY <1>2, <1>5, <2>1 DEF TakeConflict, Moved
    <2>3. Writes(d)
      BY <2>2, WrittenIs DEF IInv, Writes
    <2>4. /\ p.pos = page[d].pos /\ p.sAt = r.at
          /\ (p.playing <=> page[d].playing) /\ (p.pending <=> page[d].pending)
      BY <1>3, <2>1, AcceptedKeeps
    <2> QED
      BY <1>1, <1>2, <2>2, <2>3, <2>4, SettleConverges
  <1> QED
    BY <1>4, <1>5

-----------------------------------------------------------------------------
(* A player that comes and goes.                                           *)

LEMMA FetchFailsConverges ==
  ASSUME IInv, AllConverge, NEW d \in Devices, FetchFails(d)
  PROVE  AllConverge'
  <1>1. /\ wire' = wire /\ handled' = handled /\ rec' = rec /\ misled' = misled
        /\ stream' = stream /\ journal' = journal /\ reply' = reply /\ page[d] \in Page
        /\ page' = [page EXCEPT ![d].state =
                      IF page[d].state = "restoring" THEN "browsing" ELSE page[d].state]
    BY DEF FetchFails, IInv, SystemOK
  <1>2. CASE page[d].state = "restoring"
    <2> DEFINE q == [page[d] EXCEPT !.state = "browsing"]
    <2>1. q \in Page /\ q.state # "loaded" /\ page' = [page EXCEPT ![d] = q]
      BY <1>1, <1>2 DEF Page
    <2> HIDE DEF q
    <2>2. TellsAll /\ \A e \in Devices : Sent(e)' = Sent(e) /\ Served(e)' = Served(e)
      BY <1>1 DEF TellsAll, Sent, Served
    <2> QED
      BY <1>1, <2>1, <2>2, AwayConverges DEF Writes
  <1>3. CASE page[d].state # "restoring"
    <2>1. page' = page
      BY <1>1, <1>3 DEF IInv, SystemOK, Page
    <2> QED
      BY <1>1, <2>1, NothingNew
  <1> QED
    BY <1>2, <1>3

LEMMA TakeFlushedConverges ==
  ASSUME IInv, AllConverge, NEW d \in Devices, TakeFlushed(d)
  PROVE  AllConverge'
  <1>1. /\ wire' = wire /\ handled' = handled /\ rec' = rec /\ misled' = misled
        /\ stream' = stream /\ reply' = [reply EXCEPT ![d] = None] /\ Restoring(d)
    BY DEF TakeFlushed
  <1>2. PICK q \in Page : q.state = "restoring" /\ page' = [page EXCEPT ![d] = q]
    BY <1>1, RestoringIs DEF IInv
  <1>3. TellsAll /\ \A e \in Devices : Sent(e)' = Sent(e) /\ Served(e)' = Served(e)
    BY <1>1 DEF TellsAll, Sent, Served
  <1>4. /\ Writes(d)
        /\ \A e \in Devices \ {d} : reply'[e] = reply[e]
    BY <1>1 DEF TakeFlushed, Writes, IInv, SystemOK
  <1> QED
    BY <1>1, <1>2, <1>3, <1>4, AwayConverges

\* A player that starts from a record has acknowledged it.
LEMMA LoadedAcknowledges ==
  ASSUME NEW d, NEW server, server # None
  PROVE  Loaded(d, server).sAt = server.at
  BY DEF Loaded, DeadPage

LEMMA TakeRestoredConverges ==
  ASSUME IInv, AllConverge, NEW d \in Devices, TakeRestored(d)
  PROVE  AllConverge'
  <1>1. /\ fetch[d][2] \in Record \cup {None}
        /\ rec' = rec /\ wire' = wire /\ handled' = handled
        /\ stream' = stream /\ journal' = journal /\ reply' = reply
        /\ misled' = IF fetch[d][2] = rec \/ News(d) THEN misled ELSE misled \cup {d}
    BY FetchedIs DEF TakeRestored, IInv
  <1>2. PICK q \in Page : q = Loaded(d, fetch[d][2]) /\ page' = [page EXCEPT ![d] = q]
    BY <1>1, LoadedIs DEF TakeRestored, IInv
  <1>3. page'[d] = q /\ \A e \in Devices : Sent(e)' = Sent(e)
    BY <1>1, <1>2 DEF IInv, SystemOK, Sent
  <1>4. TellsAll /\ \A e \in Devices \ {d} : Spared(e)
    BY <1>1, <1>2, <1>3, OthersSpared DEF IInv
  <1>5. Converging(d)'
    <2> SUFFICES ASSUME Paused(d)' PROVE Agrees(d)' \/ News(d)'
      BY DEF Converging
    <2>1. rec \in Record /\ rec # None
      BY <1>1 DEF Paused, IInv, SystemOK
    <2>2. CASE fetch[d][2] = rec
      <3>1. page'[d].sAt = rec.at
        BY <1>2, <1>3, <2>1, <2>2, LoadedAcknowledges
      <3> QED
        BY <1>1, <2>1, <3>1, SyncAssumption DEF Agrees, Record
    <2>3. CASE fetch[d][2] # rec /\ News(d)
      BY <1>1, <2>3 DEF News
    <2>4. CASE fetch[d][2] # rec /\ ~News(d)
      BY <1>1, <2>4 DEF Agrees
    <2> QED
      BY <2>2, <2>3, <2>4
  <1>6. \A e \in Devices \ {d} : stream'[e] = stream[e] /\ (e \in misled => e \in misled')
    BY <1>1
  <1> QED
    BY <1>1, <1>4, <1>5, <1>6, OwnStepConverges

LEMMA PlayBookConverges ==
  ASSUME IInv, AllConverge, NEW d \in Devices, PlayBook(d)
  PROVE  AllConverge'
  <1>1. /\ fetch[d][2] \in Record \cup {None}
        /\ rec' = rec /\ wire' = wire /\ handled' = handled
        /\ stream' = stream /\ journal' = journal /\ reply' = reply /\ misled' = misled
    BY FetchedIs DEF PlayBook, IInv
  <1>2. PICK l \in Page : l = Listened(d, Loaded(d, fetch[d][2]))
    BY <1>1, LoadedIs, ListenedIs DEF IInv
  <1> DEFINE q == [l EXCEPT !.playing = TRUE]
  <1>3. q \in Page /\ q.playing
    BY DEF Page
  <1>4. page' = [page EXCEPT ![d] = q]
    BY <1>2 DEF PlayBook
  <1> HIDE DEF q
  <1>5. TellsAll /\ \A e \in Devices : Sent(e)' = Sent(e) /\ Served(e)' = Served(e)
    BY <1>1 DEF TellsAll, Sent, Served
  <1> QED
    BY <1>1, <1>3, <1>4, <1>5, AwayConverges DEF Writes

\* Answers nobody waits for are still published.
LEMMA OrphanedTells ==
  ASSUME SystemOK, NEW d \in Devices, handled' = Orphaned(handled, d)
  PROVE  TellsAll
  <1> SUFFICES ASSUME NEW a \in handled, a.won, a.rec = rec
               PROVE  \E b \in handled' : b.won /\ b.rec = rec
    BY DEF TellsAll
  <1> DEFINE b == IF a.dev = d THEN [a EXCEPT !.kind = "beacon"] ELSE a
  <1>1. b \in handled'
    BY DEF Orphaned
  <1>2. b.won /\ b.rec = rec
    BY DEF SystemOK, Answer
  <1> QED
    BY <1>1, <1>2

LEMMA KillConverges ==
  ASSUME IInv, AllConverge, NEW d \in Devices, Kill(d)
  PROVE  AllConverge'
  <1>1. /\ rec' = rec /\ journal' = journal
        /\ wire' = Orphaned(wire, d) /\ handled' = Orphaned(handled, d)
        /\ stream' = [stream EXCEPT ![d] = <<>>]
        /\ reply' = [reply EXCEPT ![d] = None] /\ misled' = misled \ {d}
    BY DEF Kill
  <1> DEFINE left == IF page[d].state = "loaded" THEN journal[d] ELSE page[d].left
  <1>2. left \in Entry \cup {None}
    BY DEF IInv, SystemOK, Page
  <1>3. page' = [page EXCEPT ![d] = [DeadPage EXCEPT !.left = left]]
    BY DEF Kill
  <1> HIDE DEF left
  <1>4. PICK q \in Page : q = [DeadPage EXCEPT !.left = left] /\ q.state = "dead"
    BY <1>2, LeavesIs
  <1>5. page' = [page EXCEPT ![d] = q]
    BY <1>3, <1>4
  <1>6. TellsAll
    BY <1>1, OrphanedTells DEF IInv
  <1>7. \A e \in Devices \ {d} : Sent(e)' = Sent(e) /\ Served(e)' = Served(e)
    BY <1>1, OrphanedIs DEF Sent, Served
  <1>8. \A e \in Devices \ {d} : /\ reply'[e] = reply[e] /\ stream'[e] = stream[e]
                                 /\ e \in misled => e \in misled'
    BY <1>1 DEF IInv, SystemOK
  <1> QED
    BY <1>1, <1>4, <1>5, <1>6, <1>7, <1>8, AwayConverges DEF Writes

LEMMA LaunchConverges ==
  ASSUME IInv, AllConverge, NEW d \in Devices, Launch(d)
  PROVE  AllConverge'
  <1>1. /\ rec' = rec /\ handled' = handled /\ stream' = stream /\ page[d] \in Page
        /\ journal' = journal /\ reply' = reply /\ misled' = misled
    BY DEF Launch, IInv, SystemOK
  <1>2. PICK q \in Page : q.state # "loaded" /\ page' = [page EXCEPT ![d] = q]
    <2>1. CASE journal[d] = None
      <3> DEFINE q == [page[d] EXCEPT !.state = "browsing"]
      <3>1. q \in Page /\ q.state # "loaded"
        BY <1>1 DEF Page
      <3>2. page' = [page EXCEPT ![d] = q]
        BY <2>1 DEF Launch
      <3> QED
        BY <3>1, <3>2
    <2>2. CASE journal[d] # None /\ journal[d].synced
      <3>1. Restoring(d)
        BY <2>2 DEF Launch
      <3> QED
        BY <3>1, RestoringIs DEF IInv
    <2>3. CASE journal[d] # None /\ ~journal[d].synced
      <3> DEFINE q == [page[d] EXCEPT !.state = "flushing", !.awaits = "flush"]
      <3>1. q \in Page /\ q.state # "loaded"
        BY <1>1 DEF Page
      <3>2. page' = [page EXCEPT ![d].state = "flushing", ![d].awaits = "flush"]
        BY <2>3 DEF Launch
      <3>3. page' = [page EXCEPT ![d] = q]
        BY <3>2 DEF IInv, SystemOK
      <3> QED
        BY <3>1, <3>3
    <2> QED
      BY <2>1, <2>2, <2>3
  <1>3. \A e \in Devices \ {d} : Sent(e)' = Sent(e)
    <2>1. CASE journal[d] # None /\ ~journal[d].synced
      <3> DEFINE m == [dev |-> d, kind |-> "flush", pos |-> journal[d].pos,
                       age |-> Clock(d) - journal[d].ts, built |-> now]
      <3>1. wire' = wire \cup {m} /\ m.dev = d
        BY <2>1 DEF Launch
      <3> HIDE DEF m
      <3> QED
        BY <3>1 DEF Sent
    <2>2. CASE ~(journal[d] # None /\ ~journal[d].synced)
      <3>1. wire' = wire
        BY <2>2 DEF Launch
      <3> QED
        BY <3>1 DEF Sent
    <2> QED
      BY <2>1, <2>2
  <1>4. TellsAll /\ \A e \in Devices : Served(e)' = Served(e)
    BY <1>1 DEF TellsAll, Served
  <1> QED
    BY <1>1, <1>2, <1>3, <1>4, AwayConverges DEF Writes

LEMMA RequestFailsConverges ==
  ASSUME IInv, AllConverge, NEW d \in Devices, RequestFails(d)
  PROVE  AllConverge'
  <1>1. /\ page[d] \in Page
        /\ rec' = rec /\ stream' = stream /\ reply' = reply /\ misled' = misled
        /\ handled' = Orphaned(handled, d)
    BY DEF RequestFails, IInv, SystemOK
  <1>2. PICK left \in {{m \in wire : m.dev # d \/ m.kind = "beacon"}, Orphaned(wire, d)} :
         IF page[d].awaits = "flush"
         THEN wire' = left /\ Restoring(d) /\ journal' = journal
         ELSE LET q == [page[d] EXCEPT !.awaits = "nothing", !.pending = FALSE]
              IN  /\ page' = [page EXCEPT ![d] = IF page[d].pending THEN Sending(q) ELSE q]
                  /\ wire' = IF page[d].pending THEN left \cup {ReportOf(d, q, "put")}
                             ELSE left
                  /\ WriteJournal(d, page[d], FALSE)
                  /\ fetch' = fetch
    BY DEF RequestFails
  <1>3. \A e \in Devices \ {d} : {m \in left : m.dev = e /\ m.kind # "beacon"} = Sent(e)
    <2>1. CASE left = {m \in wire : m.dev # d \/ m.kind = "beacon"}
      BY <2>1 DEF Sent
    <2>2. CASE left = Orphaned(wire, d)
      BY <2>2, OrphanedIs
    <2> QED
      BY <2>1, <2>2
  <1>4. TellsAll /\ \A e \in Devices \ {d} : Served(e)' = Served(e)
    BY <1>1, OrphanedIs, OrphanedTells DEF IInv, Served
  <1>5. CASE page[d].awaits = "flush"
    <2>1. wire' = left /\ Restoring(d) /\ journal' = journal
      BY <1>2, <1>5
    <2>2. PICK q \in Page : q.state = "restoring" /\ page' = [page EXCEPT ![d] = q]
      BY <2>1, RestoringIs DEF IInv
    <2>3. \A e \in Devices \ {d} : Sent(e)' = Sent(e)
      BY <1>3, <2>1 DEF Sent
    <2> QED
      BY <1>1, <1>4, <2>1, <2>2, <2>3, AwayConverges DEF Writes
  <1>6. CASE page[d].awaits # "flush"
    <2>1. PICK q \in Page : q = [page[d] EXCEPT !.awaits = "nothing", !.pending = FALSE]
      <3>1. [page[d] EXCEPT !.awaits = "nothing", !.pending = FALSE] \in Page
        BY <1>1 DEF Page
      <3> QED
        BY <3>1
    <2>2. /\ page' = [page EXCEPT ![d] = IF page[d].pending THEN Sending(q) ELSE q]
          /\ wire' = IF page[d].pending THEN left \cup {ReportOf(d, q, "put")} ELSE left
          /\ WriteJournal(d, page[d], FALSE)
      BY <1>2, <1>6, <2>1
    <2>3. Writes(d) /\ Unsynced(d)'
      BY <1>1, <2>2, WrittenIs DEF IInv, Writes
    <2>4. PICK m : m = ReportOf(d, q, "put") /\ m.dev = d
      BY ReportIs DEF IInv
    <2>5. \A e \in Devices \ {d} : Sent(e)' = Sent(e)
      BY <1>3, <2>2, <2>4 DEF Sent
    <2>6. \A e \in Devices \ {d} : Spared(e)
      <3>1. \A e \in Devices \ {d} : page'[e] = page[e]
        BY <2>2 DEF IInv, SystemOK
      <3> QED
        BY <1>1, <1>4, <2>3, <2>5, <3>1 DEF Spared, Writes
    <2>7. Converging(d)'
      BY <2>3 DEF Converging, Agrees
    <2> QED
      BY <1>1, <1>4, <2>6, <2>7, OwnStepConverges
  <1> QED
    BY <1>5, <1>6

-----------------------------------------------------------------------------
(* What the server does.                                                   *)

\* A report that wins is news for everybody, one that loses is answered with
\* the record.
LEMMA StoreConverges ==
  ASSUME IInv, AllConverge, NEW r \in wire, Store(r)
  PROVE  AllConverge'
  <1> DEFINE at == now - (IF r.age < 0 THEN 0 ELSE r.age)
             new == [pos |-> r.pos, at |-> at, dev |-> r.dev]
             won == Wins(r, at)
             a == [dev |-> r.dev, kind |-> r.kind, won |-> won, rec |-> rec']
  <1>1. /\ stream' = stream /\ page' = page /\ journal' = journal
        /\ reply' = reply /\ misled' = misled /\ wire' = wire \ {r}
        /\ rec' = IF won THEN new ELSE rec
        /\ handled' = handled \cup {a}
    BY DEF Store
  <1>2. a.dev = r.dev /\ a.kind = r.kind /\ a.rec = rec' /\ (won => a.won)
    OBVIOUS
  <1> HIDE DEF at, new, a, won
  <1>3. CASE won
    <2>1. \A e \in Devices : News(e)'
      BY <1>1, <1>2, <1>3 DEF News
    <2> QED
      BY <2>1 DEF AllConverge, Converging
  <1>4. CASE ~won
    <2>1. rec' = rec
      BY <1>1, <1>4
    <2> SUFFICES ASSUME NEW e \in Devices PROVE Converging(e)'
      BY DEF AllConverge
    <2>2. CASE r \in Sent(e)
      <3>1. a \in Served(e)'
        BY <1>1, <1>2, <2>2 DEF Sent, Served
      <3>2. Answered(e)'
        BY <1>2, <3>1 DEF Answered
      <3> QED
        BY <3>2 DEF Converging
    <2>3. CASE r \notin Sent(e)
      <3>1. Sent(e)' = Sent(e)
        BY <1>1, <2>3 DEF Sent
      <3>2. (News(e) => News(e)') /\ (Answered(e) => Answered(e)')
        BY <1>1, <2>1 DEF News, Answered, Served
      <3> QED
        BY <1>1, <2>1, <3>1, <3>2, StillConverging DEF AllConverge, Paused, Unsynced
    <2> QED
      BY <2>2, <2>3
  <1> QED
    BY <1>3, <1>4

\* What is answered is published before, to every page there is.
LEMMA RespondConverges ==
  ASSUME IInv, AllConverge, NEW a \in handled, Respond(a)
  PROVE  AllConverge'
  <1>1. /\ rec' = rec /\ page' = page /\ journal' = journal /\ misled' = misled
        /\ wire' = wire /\ handled' = handled \ {a}
        /\ reply' = IF a.kind = "beacon" THEN reply ELSE [reply EXCEPT ![a.dev] = a]
    BY DEF Respond
  <1>2. a \in Answer /\ a.dev \in Devices /\ a.rec \in Record
    BY DEF IInv, SystemOK, Answer
  <1> SUFFICES ASSUME NEW e \in Devices, Paused(e)' PROVE Converging(e)'
    BY DEF AllConverge, Converging
  <1>3. stream'[e] = IF a.won THEN Append(stream[e], a.rec) ELSE stream[e]
    BY <1>1 DEF Respond, Paused
  <1>4. News(e) => News(e)'
    <2>1. ASSUME NEW b \in handled, b.won, b.rec = rec PROVE News(e)'
      <3>1. CASE b # a
        BY <1>1, <2>1, <3>1 DEF News
      <3>2. CASE b = a
        <4> DEFINE n == Len(stream[e]) + 1
        <4>1. stream[e] \in Seq(Record) /\ stream'[e] = Append(stream[e], rec)
          BY <1>3, <2>1, <3>2 DEF IInv, SystemOK
        <4>2. n \in DOMAIN stream'[e] /\ stream'[e][n] = rec
          BY <1>2, <2>1, <3>2, <4>1
        <4> QED
          BY <1>1, <4>2 DEF News
      <3> QED
        BY <3>1, <3>2
    <2>2. ASSUME NEW i \in DOMAIN stream[e], stream[e][i] = rec PROVE News(e)'
      <3>1. stream[e] \in Seq(Record)
        BY DEF IInv, SystemOK
      <3>2. i \in DOMAIN stream'[e] /\ stream'[e][i] = rec
        BY <1>2, <1>3, <2>2, <3>1
      <3> QED
        BY <1>1, <3>2 DEF News
    <2> QED
      BY <2>1, <2>2 DEF News
  <1>5. Answered(e) => Answered(e)'
    <2>1. CASE a \in Served(e)
      <3>1. Served(e) = {a} /\ reply[e] = None
        BY <2>1 DEF IInv, Sound, OneExchange
      <3>2. reply'[e] = a
        BY <1>1, <1>2, <2>1 DEF Served, IInv, SystemOK
      <3> QED
        BY <1>1, <1>2, <3>1, <3>2, NoneAssumption DEF Answered
    <2>2. CASE a \notin Served(e)
      <3>1. Served(e)' = Served(e) /\ reply'[e] = reply[e]
        BY <1>1, <1>2, <2>2 DEF Served, IInv, SystemOK
      <3> QED
        BY <1>1, <3>1 DEF Answered
    <2> QED
      BY <2>1, <2>2
  <1>6. Sent(e)' = Sent(e)
    BY <1>1 DEF Sent
  <1> QED
    BY <1>1, <1>4, <1>5, <1>6, StillConverging DEF AllConverge, Paused, Unsynced

LEMMA TickConverges ==
  ASSUME IInv, AllConverge, Tick
  PROVE  AllConverge'
  <1>1. /\ rec' = rec /\ wire' = wire /\ handled' = handled /\ misled' = misled
        /\ stream' = stream /\ journal' = journal /\ reply' = reply
        /\ page' = [d \in Devices |->
                      IF page[d].playing
                      THEN [page[d] EXCEPT !.listened = Clock(d) + 1]
                      ELSE page[d]]
    BY DEF Tick
  <1> SUFFICES ASSUME NEW e \in Devices PROVE Converging(e)'
    BY DEF AllConverge
  <1>2. page[e].playing => page'[e].playing
    <2> DEFINE q == [page[e] EXCEPT !.listened = Clock(e) + 1]
    <2>1. page[e].playing => q.playing
      BY DEF IInv, SystemOK, Page
    <2> HIDE DEF q
    <2>2. page[e].playing => page'[e] = q
      BY <1>1 DEF q
    <2> QED
      BY <2>1, <2>2
  <1>3. ~page[e].playing => page'[e] = page[e]
    BY <1>1
  <1>4. Sent(e)' = Sent(e)
    BY <1>1 DEF Sent
  <1>5. /\ News(e) => News(e)'
        /\ Answered(e) => Answered(e)'
        /\ Unsynced(e) => Unsynced(e)'
    BY <1>1 DEF News, Answered, Served, Unsynced
  <1> QED
    BY <1>1, <1>2, <1>3, <1>4, <1>5, StillConverging DEF AllConverge, Paused

LEMMA NextConverges ==
  IInv /\ AllConverge /\ [Next]_vars => AllConverge'
  <1> SUFFICES ASSUME IInv, AllConverge, [Next]_vars PROVE AllConverge'
    OBVIOUS
  <1>1. CASE UNCHANGED vars
    BY <1>1, NothingNew DEF vars
  <1>2. ASSUME NEW d \in Devices,
               \/ Play(d) \/ Listen(d) \/ Pause(d) \/ ChangeRate(d)
               \/ \E pos \in Positions : Seek(d, pos)
               \/ Hide(d) \/ Show(d) \/ Kill(d) \/ Launch(d)
        PROVE  AllConverge'
    BY <1>2, PlayConverges, ListenConverges, PauseConverges, ChangeRateConverges,
       SeekConverges, HideConverges, ShowConverges, KillConverges, LaunchConverges
  <1>3. ASSUME NEW d \in Devices, OpenBookPage(d) \/ AnswerFetch(d) PROVE AllConverge'
    BY <1>3, NothingNew DEF OpenBookPage, AnswerFetch
  <1>4. ASSUME NEW d \in Devices, PlayBook(d) \/ RequestFails(d) \/ FetchFails(d) \/ Take(d)
        PROVE  AllConverge'
    BY <1>4, PlayBookConverges, RequestFailsConverges, FetchFailsConverges,
       TakeAcceptedConverges, TakeConflictConverges, TakeFlushedConverges,
       TakeReconciledConverges, TakeRestoredConverges, TakeEventConverges DEF Take
  <1>5. CASE \E r \in wire : Store(r)
    BY <1>5, StoreConverges
  <1>6. CASE \E a \in handled : Respond(a)
    BY <1>6, RespondConverges
  <1>7. CASE Tick
    BY <1>7, TickConverges
  <1>8. CASE EditRate \/ \E d \in Devices : Resync(d)
    BY <1>8, EditRateConverges, ResyncConverges
  <1> QED
    BY <1>1, <1>2, <1>3, <1>4, <1>5, <1>6, <1>7, <1>8 DEF Next

-----------------------------------------------------------------------------
(* The theorems.                                                           *)

LEMMA InitHolds ==
  Init => IInv
  <1> SUFFICES ASSUME Init PROVE IInv
    OBVIOUS
  <1>1. /\ DeadPage \in Page /\ DeadPage.state = "dead" /\ DeadPage.awaits = "nothing"
        /\ DeadPage.left = None
    BY SyncAssumption DEF DeadPage, Page
  <1> DEFINE browsing == [DeadPage EXCEPT !.state = "browsing"]
  <1>2. /\ browsing \in Page /\ browsing.state = "browsing" /\ browsing.awaits = "nothing"
        /\ browsing.left = None
    <2>1. PICK p \in Page : p = DeadPage /\ p.awaits = "nothing" /\ p.left = None
      BY <1>1
    <2> DEFINE q == [p EXCEPT !.state = "browsing"]
    <2>2. q \in Page /\ q.state = "browsing" /\ q.awaits = "nothing" /\ q.left = None
      BY <2>1 DEF Page
    <2> QED
      BY <2>1, <2>2
  <1>3. page \in [Devices -> {DeadPage, browsing}]
    BY DEF Init
  <1> HIDE DEF browsing
  <1>4. \A d \in Devices : /\ page[d] \in Page /\ page[d].state \in {"dead", "browsing"}
                           /\ page[d].awaits = "nothing" /\ page[d].left = None
    BY <1>1, <1>2, <1>3
  <1>5. SystemOK
    BY <1>3, <1>4 DEF Init, SystemOK, NoFetch
  <1>6. \A m \in wire : m.built <= now
    BY DEF Init
  <1>7. ASSUME NEW d \in Devices PROVE Sound(d)
    <2>1. Sent(d) = {} /\ Served(d) = {} /\ reply[d] = None /\ journal[d] = None
      BY DEF Init, Sent, Served
    <2> QED
      BY <1>4, <2>1 DEF Sound, Awaiting, OneExchange, Flushes, LeftStands
  <1> QED
    BY <1>5, <1>6, <1>7 DEF IInv

LEMMA NextKeeps ==
  IInv /\ [Next]_vars => IInv'
  <1> SUFFICES ASSUME IInv, [Next]_vars PROVE IInv'
    OBVIOUS
  <1>1. CASE UNCHANGED vars
    <2>1. /\ now' = now /\ rec' = rec /\ wire' = wire /\ handled' = handled /\ page' = page
          /\ journal' = journal /\ reply' = reply /\ stream' = stream /\ fetch' = fetch
      BY <1>1 DEF vars
    <2>2. stream' \in [Devices -> Seq(Record)] /\ FetchOK
      BY <2>1 DEF IInv, SystemOK, FetchOK
    <2> QED
      BY <2>1, <2>2, QuietKeeps
  <1>2. ASSUME NEW d \in Devices,
               \/ Play(d) \/ Listen(d) \/ Pause(d) \/ ChangeRate(d)
               \/ \E pos \in Positions : Seek(d, pos)
               \/ Hide(d) \/ Show(d) \/ Kill(d) \/ Launch(d)
        PROVE  IInv'
    BY <1>2, PlayKeeps, ListenKeeps, PauseKeeps, ChangeRateKeeps, SeekKeeps, HideKeeps,
       ShowKeeps, KillKeeps, LaunchKeeps
  <1>3. ASSUME NEW d \in Devices,
               \/ OpenBookPage(d) \/ PlayBook(d)
               \/ AnswerFetch(d) \/ RequestFails(d) \/ FetchFails(d)
               \/ Take(d)
        PROVE  IInv'
    BY <1>3, OpenBookPageKeeps, PlayBookKeeps, AnswerFetchKeeps, RequestFailsKeeps,
       FetchFailsKeeps, TakeAcceptedKeeps, TakeConflictKeeps, TakeFlushedKeeps,
       TakeReconciledKeeps, TakeRestoredKeeps, TakeEventKeeps DEF Take
  <1>4. CASE \E r \in wire : Store(r)
    BY <1>4, StoreKeeps
  <1>5. CASE \E a \in handled : Respond(a)
    BY <1>5, RespondKeeps
  <1>6. CASE Tick
    BY <1>6, TickKeeps
  <1>7. CASE EditRate \/ \E d \in Devices : Resync(d)
    BY <1>7, EditRateKeeps, ResyncKeeps
  <1> QED
    BY <1>1, <1>2, <1>3, <1>4, <1>5, <1>6, <1>7 DEF Next

\* Only devices are noted as misled.
LEMMA MisledStays ==
  misled \subseteq Devices /\ [Next]_vars => (misled \subseteq Devices)'
  <1> SUFFICES ASSUME misled \subseteq Devices, [Next]_vars PROVE misled' \subseteq Devices
    OBVIOUS
  <1>1. \A d \in Devices : \A r : Hears(d, r) => misled' \subseteq Devices
    BY DEF Hears
  <1>2. \A d \in Devices : \A r : MaybeAdopt(d, r) => misled' \subseteq Devices
    BY <1>1 DEF MaybeAdopt
  <1>3. CASE UNCHANGED vars
    BY <1>3 DEF vars
  <1>4. ASSUME NEW d \in Devices, Take(d) PROVE misled' \subseteq Devices
    <2>1. CASE TakeAccepted(d) \/ TakeConflict(d)
      BY <1>1, <2>1 DEF TakeAccepted, TakeConflict
    <2>2. CASE TakeReconciled(d) \/ TakeEvent(d)
      BY <1>2, <2>2 DEF TakeReconciled, TakeEvent
    <2>3. CASE TakeFlushed(d) \/ TakeRestored(d)
      BY <2>3 DEF TakeFlushed, TakeRestored
    <2> QED
      BY <1>4, <2>1, <2>2, <2>3 DEF Take
  <1>5. ASSUME NEW d \in Devices,
               \/ Play(d) \/ Listen(d) \/ Pause(d) \/ ChangeRate(d)
               \/ \E pos \in Positions : Seek(d, pos)
               \/ Hide(d) \/ Show(d) \/ Kill(d) \/ Launch(d)
               \/ OpenBookPage(d) \/ PlayBook(d)
               \/ AnswerFetch(d) \/ RequestFails(d) \/ FetchFails(d)
        PROVE  misled' \subseteq Devices
    BY <1>5 DEF Play, Listen, Pause, ChangeRate, Seek, Act, Hide, Show, Kill, Launch,
       OpenBookPage, PlayBook, AnswerFetch, RequestFails, FetchFails
  <1>6. CASE \/ \E r \in wire : Store(r)
             \/ \E a \in handled : Respond(a)
             \/ Tick \/ EditRate
             \/ \E d \in Devices : Resync(d)
    BY <1>6 DEF Store, Respond, Tick, EditRate, Resync
  <1> QED
    BY <1>3, <1>4, <1>5, <1>6 DEF Next

\* The inductive invariant: a page has one request on its way at a time, an
\* entry that is being flushed stays as it is and its answer is as recent, and
\* until it is resumed from the journal is what the last page left, or an answer
\* as recent as that.
THEOREM InvHolds == Spec => []IInv
  BY InitHolds, NextKeeps, PTL DEF Spec

\* Pages, journals, requests, events and answers keep their shape; a flush is
\* never answered to a page without a journal.
THEOREM TypeCorrect == Spec => []TypeOK
  <1>1. Init => misled \subseteq Devices
    BY DEF Init
  <1>2. misled \subseteq Devices /\ [Next]_vars => (misled \subseteq Devices)'
    BY MisledStays
  <1>3. Spec => [](misled \subseteq Devices)
    BY <1>1, <1>2, PTL DEF Spec
  <1>4. IInv /\ misled \subseteq Devices => TypeOK
    BY DEF IInv, TypeOK
  <1> QED
    BY <1>3, <1>4, InvHolds, PTL

\* A move made while a report is under way is never dropped, whatever that
\* report comes to: the position where a player stopped has been sent, or will
\* be when the report under way is settled (Reporter.send, handle, adopt).
THEOREM NewestPositionIsReported == Spec => []NewestIsReported
  <1>1. IInv => NewestIsReported
    BY DEF IInv, Sound, UpToDate, NewestIsReported
  <1> QED
    BY <1>1, InvHolds, PTL

\* What was heard out of the server's reach survives any number of kills and
\* lost requests: the next page resumes there, or where a listen at least as
\* recent was that the server answered with (flushUnsynced, startState).
THEOREM UnsyncedListenIsResumed == Spec => UnsyncedIsResumed
  <1> DEFINE Resumes ==
        \A d \in Devices : Restores(d) /\ page[d].left # None /\ ~page[d].left.synced =>
          LET heard == page[d].left.ts - Skew[d]
          IN  \/ page'[d].pos = page[d].left.pos
              \/ /\ fetch[d][2] # None
                 /\ page'[d].pos = fetch[d][2].pos /\ fetch[d][2].at >= heard
              \/ /\ journal[d].synced
                 /\ page'[d].pos = journal[d].pos /\ journal[d].sAt >= heard
  <1>1. IInv /\ [Next]_vars => [Resumes]_page
    <2> SUFFICES ASSUME IInv, [Next]_vars, page' # page,
                        NEW d \in Devices, Restores(d), page[d].left # None,
                        ~page[d].left.synced
                 PROVE  LET heard == page[d].left.ts - Skew[d]
                        IN  \/ page'[d].pos = page[d].left.pos
                            \/ /\ fetch[d][2] # None
                               /\ page'[d].pos = fetch[d][2].pos
                               /\ fetch[d][2].at >= heard
                            \/ /\ journal[d].synced
                               /\ page'[d].pos = journal[d].pos /\ journal[d].sAt >= heard
      OBVIOUS
    <2>1. Next
      BY DEF vars
    <2>2. TakeRestored(d)
      BY <2>1, OnlyTakeRestored
    <2> QED
      BY <2>2, RestoredIsResumed
  <1>2. [][Resumes]_page => UnsyncedIsResumed
    BY DEF UnsyncedIsResumed
  <1> QED
    BY <1>1, <1>2, InvHolds, PTL DEF Spec

\* A device that plays no more is on its way to the record: it shows it, has
\* news or an answer of it to come, has a report out that will decide, or is one
\* of the cases Converged names; the invariant of convergence at every moment,
\* through lost, overtaken and skipped messages, not only when all is quiet.
THEOREM ConvergingHolds == Spec => []AllConverge
  <1>1. Init => AllConverge
    BY DEF Init, AllConverge, Converging, Paused
  <1> QED
    BY <1>1, InvHolds, NextConverges, PTL DEF Spec

\* When everything sent has been dealt with, no paused player is left behind but
\* in the cases Converged names: conflicts, events and reconciling together
\* bring every device to the record, also when a resync loses events it did not
\* need (Reporter.send, maybeAdopt, reconcile and putProgress).
THEOREM DevicesConverge == Spec => []Converged
  <1>1. IInv /\ AllConverge => Converged
    <2> SUFFICES ASSUME IInv, AllConverge, Quiet, NEW d \in Devices, Paused(d)
                 PROVE  Agrees(d)
      BY DEF Converged, Paused, Agrees
    <2>1. Sent(d) = {} /\ Served(d) = {} /\ reply[d] = None /\ stream[d] = <<>>
          /\ handled = {}
      BY DEF Quiet, Sent, Served
    <2>2. ~page[d].pending
      BY <2>1 DEF Paused, IInv, Sound, OneExchange, UpToDate
    <2>3. ~Asserts(d) /\ ~News(d) /\ ~Answered(d)
      BY <2>1, <2>2 DEF Asserts, News, Answered
    <2> QED
      BY <2>3 DEF AllConverge, Converging
  <1> QED
    BY <1>1, InvHolds, ConvergingHolds, PTL

=============================================================================
