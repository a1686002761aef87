---------------------------- MODULE PlayerProofs ----------------------------
(***************************************************************************)
(* Safety theorems about PlayerEngine, for any number of files of any      *)
(* length, of acts of the listener and of mishaps.                         *)
(***************************************************************************)
EXTENDS PlayerEngine, TLAPS

-----------------------------------------------------------------------------
(* The inductive invariant, of the record p between two steps and, as far  *)
(* as the methods need it, of p within a handler: promises that were       *)
(* rejected are still to be caught there.                                  *)

Task == Kinds \X SUBSET Calls

Player ==
    [book : BOOLEAN,
     status : {"idle", "loading", "paused", "playing", "suspended", "ended"},
     file : 0..Files - 1, pos : Places,
     want : BOOLEAN, reload : BOOLEAN, seek : (0..Units) \cup {None},
     expect : BOOLEAN, stale : BOOLEAN, gesture : BOOLEAN, timer : BOOLEAN,
     fade : BOOLEAN, rest : {"none", "brief", "while", "long"},
     src : BOOLEAN, ready : BOOLEAN, time : 0..Units, playing : BOOLEAN,
     ended : BOOLEAN, pipe : {"ok", "stalled", "dead"},
     plays : SUBSET Calls, rejected : SUBSET Calls, tasks : Seq(Task),
     asked : BOOLEAN, odd : SUBSET {"missed", "crossed", "overtaken"}]

Surprised(q) == "missed" \in q.odd \/ "crossed" \in q.odd

\* The element has its media, and the engine has heard of it.
Settled(q) == q.ready /\ ~Owes(q, "metadata")

\* Promises wait for a pipeline, an end is one of a file that was heard out,
\* and without a book nothing is to come but an 'emptied' that is expected.
Element(q) ==
    /\ q.ready => q.src /\ (q.expect => Owes(q, "metadata")) /\ ~Owes(q, "emptied")
    /\ Owes(q, "metadata") => q.ready
    /\ q.ended => Settled(q) /\ q.pipe # "stalled" /\ q.time = Units
    /\ q.src <=> q.book
Flags(q) ==
    /\ Element(q)
    /\ q.ended => q.plays = {}
    /\ q.plays # {} => q.playing /\ (~q.ready \/ q.pipe # "ok")

Bookless(q) ==
    ~q.book => /\ ~q.want /\ ~q.playing /\ q.status \in {"idle", "suspended"}
               /\ q.tasks # <<>> => q.expect
               /\ \A i \in DOMAIN q.tasks : q.tasks[i] = <<"emptied", {}>>

Rested(q) == q.status = "ended" => ~q.want

Starts == {"playing", "resolved"}

\* What the events to come say of the element: a start that no longer holds is
\* followed by a pause, unless one went missing; a pause was asked for.
Queued(q) ==
    \A i \in DOMAIN q.tasks :
       /\ q.tasks[i][1] = "emptied" => q.tasks[i][2] = {}
       /\ q.tasks[i][1] = "metadata" =>
            \A j \in DOMAIN q.tasks : q.tasks[j][1] = "metadata" => j = i
       /\ q.tasks[i][1] = "end" => ~q.expect
       /\ q.tasks[i][1] \in Starts /\ q.expect =>
            \E j \in DOMAIN q.tasks : j < i /\ q.tasks[j][1] = "metadata"
       /\ q.tasks[i][1] \in Starts => ~q.ended
       /\ q.tasks[i][1] \in Starts /\ ~q.playing =>
            Surprised(q) \/ \E j \in DOMAIN q.tasks : i < j /\ q.tasks[j][1] = "pause"
       /\ q.tasks[i][1] = "pause" => q.asked

EndAhead(q) ==
    q.ended /\ q.status = "playing" => q.tasks # <<>> /\ q.tasks[1][1] = "end"

\* An event to come tells the engine that the element stopped.
Stops(q) == Owes(q, "pause") \/ (Owes(q, "emptied") /\ ~q.expect)

Agrees(q) ==
    q.status = "playing" /\ ~q.playing =>
        q.gesture \/ q.rejected # {} \/ Surprised(q) \/ Stops(q)

Wanted(q) == q.playing => q.want \/ "crossed" \in q.odd

\* A start that came before the metadata is still promised.
Promised(q) ==
    q.expect /\ q.playing =>
        q.gesture \/ q.rejected # {} \/ q.plays # {} \/ Owed(q) # {}

\* The element's place, or the one it will take, is not behind the engine's.
Begin(q) == q.file * Units
Fits(q, offset) ==
    \/ Begin(q) + offset >= q.pos
    \/ q.pos = Length /\ Begin(q) + offset = Length - 1
Astray(q) == "overtaken" \in q.odd \/ "crossed" \in q.odd

InFile(q) == Begin(q) <= q.pos /\ q.pos <= Begin(q) + Units
Placed(q) ==
    /\ Settled(q) /\ ~q.stale => Fits(q, q.time) \/ Astray(q)
    /\ q.book /\ ~Settled(q) /\ ~q.stale =>
         \/ q.seek # None /\ q.time <= q.seek /\ Fits(q, q.seek)
         \/ ~q.ready /\ ~q.expect /\ Owes(q, "emptied")
         \/ Astray(q)

\* All but that the engine knows when the element stopped.
Base(q) ==
    /\ q \in Player
    /\ Flags(q) /\ Bookless(q) /\ Rested(q)
    /\ Queued(q) /\ EndAhead(q)
    /\ Wanted(q) /\ Promised(q)
    /\ InFile(q) /\ Placed(q)

Sound(q) == Base(q) /\ Agrees(q)

Others ==
    /\ sleep \in {"off", "minutes", "chapter"} /\ mark \in 0..Files - 1
    /\ page \in {"visible", "hidden", "away"} /\ slept \in BOOLEAN
    /\ clicks \in 0..MaxClicks /\ mishaps \in 0..MaxMishaps

PlayerInv == Sound(p) /\ p.rejected = {} /\ Others

-----------------------------------------------------------------------------
(* Files and places.                                                       *)

LEMMA FilesFit ==
  ASSUME NEW f \in 0..Files - 1, NEW offset \in 0..Units
  PROVE  /\ f * Units \in Nat /\ f * Units + offset \in Places
         /\ (f + 1) * Units = f * Units + Units
         /\ Length \in Nat /\ f * Units + Units <= Length
         /\ f = Files - 1 <=> f * Units + Units = Length
  <1>1. Units \in Nat /\ Units > 1 /\ Files \in Nat /\ f \in Nat /\ f + 1 <= Files
    BY PlayerAssumption
  <1>2. /\ f * Units \in Nat /\ Files * Units \in Nat
        /\ (f + 1) * Units = f * Units + Units
    BY <1>1
  <1>3. PICK k \in Nat : Files = f + 1 + k
    <2>1. Files - (f + 1) \in Nat /\ Files = f + 1 + (Files - (f + 1))
      BY <1>1
    <2> QED
      BY <2>1
  <1>4. Files * Units = f * Units + Units + k * Units /\ k * Units \in Nat
    BY <1>1, <1>3
  <1>5. k * Units = 0 <=> k = 0
    BY <1>1
  <1> QED
    BY <1>1, <1>2, <1>3, <1>4, <1>5 DEF Places, Length

\* locate() finds a file and an offset in it that are the place, or half a
\* second before the end.
LEMMA Locates ==
  ASSUME NEW place \in Places
  PROVE  /\ FileAt(place) \in 0..Files - 1 /\ OffsetAt(place) \in 0..Units
         /\ FileAt(place) * Units <= place /\ place <= FileAt(place) * Units + Units
         /\ \/ FileAt(place) * Units + OffsetAt(place) = place
            \/ place = Length /\ FileAt(place) * Units + OffsetAt(place) = Length - 1
  <1>1. Units \in Nat /\ Units > 1 /\ Files \in Nat /\ Files > 0 /\ place \in Nat
        /\ Length \in Nat /\ place <= Length
    BY PlayerAssumption DEF Places, Length
  <1>2. CASE place = Length
    <2>1. FileAt(place) = Files - 1 /\ Files - 1 \in 0..Files - 1
      BY <1>1, <1>2 DEF FileAt
    <2>2. (Files - 1) * Units + Units = Length /\ (Files - 1) * Units \in Nat
      BY <1>1, <2>1, FilesFit
    <2>3. OffsetAt(place) = Units - 1
      BY <1>1, <1>2, <2>1, <2>2 DEF OffsetAt
    <2> QED
      BY <1>1, <1>2, <2>1, <2>2, <2>3
  <1>3. CASE place # Length
    <2> DEFINE f == place \div Units
    <2>1. f \in Nat /\ f * Units <= place /\ place < f * Units + Units
      BY <1>1
    <2>2. f < Files
      <3>1. CASE f >= Files
        <4>1. f * Units >= Files * Units
          BY <1>1, <2>1, <3>1
        <4> QED
          BY <1>1, <1>3, <2>1, <4>1 DEF Length
      <3> QED
        BY <1>1, <2>1, <3>1
    <2>3. FileAt(place) = f
      BY <1>3 DEF FileAt
    <2>4. f * Units \in Nat
      BY <1>1, <2>1
    <2> HIDE DEF f
    <2>5. OffsetAt(place) = place - f * Units
      BY <1>1, <2>1, <2>3, <2>4 DEF OffsetAt
    <2> QED
      BY <1>1, <2>1, <2>2, <2>3, <2>4, <2>5
  <1> QED
    BY <1>2, <1>3

-----------------------------------------------------------------------------
(* The element.                                                            *)

LEMMA EmptiedIs ==
  ASSUME NEW q \in Player
  PROVE  /\ Emptied(q) \in Player
         /\ Stops(q) => "missed" \in Emptied(q).odd
  <1>1. Owed(q) \subseteq Calls
    BY DEF Owed, Player, Task
  <1>2. << <<"emptied", {}>> >> \in Seq(Task) /\ <<>> \in Seq(Task)
    BY DEF Task, Kinds
  <1> DEFINE tasks == IF q.src THEN << <<"emptied", {}>> >> ELSE <<>>
             rejected == q.rejected \cup q.plays \cup Owed(q)
             odd == IF Owes(q, "pause") \/ (Owes(q, "emptied") /\ ~q.expect)
                    THEN q.odd \cup {"missed"} ELSE q.odd
             e == [q EXCEPT !.ready = FALSE, !.time = 0, !.playing = FALSE,
                            !.ended = FALSE, !.pipe = "ok", !.rejected = rejected,
                            !.plays = {}, !.tasks = tasks, !.odd = odd]
  <1>3. tasks \in Seq(Task) /\ rejected \in SUBSET Calls
    BY <1>1, <1>2 DEF Player
  <1>4. /\ odd \in SUBSET {"missed", "crossed", "overtaken"}
        /\ Stops(q) => "missed" \in odd
    BY DEF Player, Stops
  <1>5. Emptied(q) = e
    BY DEF Emptied
  <1> HIDE DEF tasks, rejected, odd
  <1>6. 0 \in 0..Units
    BY PlayerAssumption
  <1>7. e \in Player
    BY <1>3, <1>4, <1>6, ZenonT(40) DEF Player
  <1>8. e.odd = odd
    BY DEF Player
  <1> QED
    BY <1>4, <1>5, <1>7, <1>8

LEMMA AppendIs ==
  ASSUME NEW s \in Seq(Task), NEW x \in Task
  PROVE  /\ Append(s, x) \in Seq(Task)
         /\ \A i \in DOMAIN s : i \in DOMAIN Append(s, x) /\ Append(s, x)[i] = s[i]
         /\ \A i \in DOMAIN s : i < Len(s) + 1
         /\ Len(s) + 1 \in DOMAIN Append(s, x) /\ Append(s, x)[Len(s) + 1] = x
         /\ \A i \in DOMAIN Append(s, x) : i \in DOMAIN s \/ i = Len(s) + 1
         /\ Append(s, x) # <<>> /\ s # <<>> => 1 \in DOMAIN s
  OBVIOUS

\* One more event, which a start or an end needs a playing element for.
LEMMA QueueBase ==
  ASSUME NEW q \in Player, NEW kind \in Kinds \ {"emptied", "metadata", "end"},
         Element(q), q.book, Rested(q), Wanted(q), InFile(q), Placed(q), Promised(q),
         EndAhead(q),
         Queued(q) \/ (kind = "pause" /\ Queued([q EXCEPT !.playing = TRUE])),
         kind \in Starts => q.ready /\ q.playing /\ ~q.ended,
         kind = "pause" => q.asked
  PROVE  /\ Base(Queue(q, kind))
         /\ kind = "pause" \/ Agrees(q) => Agrees(Queue(q, kind))
  <1> DEFINE t == Append(q.tasks, <<kind, q.plays>>)
             r == [q EXCEPT !.tasks = t, !.plays = {}]
             n == Len(q.tasks) + 1
  <1>1. Queue(q, kind) = r
    BY DEF Queue
  <1>2. /\ q.tasks \in Seq(Task) /\ <<kind, q.plays>> \in Task
        /\ <<kind, q.plays>>[1] = kind /\ <<kind, q.plays>>[2] = q.plays
    BY DEF Player, Task
  <1>3. /\ t \in Seq(Task) /\ t # <<>>
        /\ \A i \in DOMAIN q.tasks : i \in DOMAIN t /\ t[i] = q.tasks[i] /\ i < n
        /\ n \in DOMAIN t /\ t[n][1] = kind /\ t[n][2] = q.plays
        /\ \A i \in DOMAIN t : i \in DOMAIN q.tasks \/ i = n
        /\ q.tasks # <<>> => t[1] = q.tasks[1]
    BY <1>2, AppendIs
  <1> HIDE DEF t, n
  <1>4. r \in Player /\ r.tasks = t
    BY <1>3 DEF Player
  <1>12. /\ Owes(r, "emptied") <=> Owes(q, "emptied")
         /\ Owes(r, "metadata") <=> Owes(q, "metadata")
    BY <1>3, <1>4 DEF Owes
  <1>13. /\ r.book <=> q.book
         /\ r.ready <=> q.ready
         /\ r.src <=> q.src
         /\ r.expect <=> q.expect
         /\ r.ended <=> q.ended
         /\ r.stale <=> q.stale
         /\ r.playing <=> q.playing
         /\ r.asked <=> q.asked
         /\ r.file = q.file /\ r.pos = q.pos /\ r.time = q.time /\ r.odd = q.odd
         /\ r.seek = q.seek /\ r.plays = {} /\ r.pipe = q.pipe
    BY DEF Player
  <1>5. Flags(r) /\ Bookless(r) /\ Rested(r)
    <2>1. Element(r)
      BY <1>12, <1>13 DEF Element, Settled
    <2> QED
      BY <1>3, <2>1 DEF Player, Flags, Bookless, Rested
  <1>14. \A i \in DOMAIN q.tasks : q.tasks[i][1] = "metadata" =>
            \A j \in DOMAIN t : t[j][1] = "metadata" => j = i
    BY <1>3 DEF Queued
  <1>15. kind \in Starts /\ q.expect =>
           \E j \in DOMAIN t : j < n /\ t[j][1] = "metadata"
    BY <1>3 DEF Element, Owes
  <1>16. Surprised(q) <=> Surprised(r)
    BY <1>13 DEF Surprised
  <1>6. Queued(r)
    <2> SUFFICES ASSUME NEW i \in DOMAIN t
                 PROVE  /\ t[i][1] = "emptied" => t[i][2] = {}
                        /\ t[i][1] = "metadata" =>
                             \A j \in DOMAIN t : t[j][1] = "metadata" => j = i
                        /\ t[i][1] = "end" => ~q.expect
                        /\ t[i][1] \in Starts /\ q.expect =>
                             \E j \in DOMAIN t : j < i /\ t[j][1] = "metadata"
                        /\ t[i][1] \in Starts => ~q.ended
                        /\ t[i][1] \in Starts /\ ~q.playing =>
                             \/ Surprised(q)
                             \/ \E j \in DOMAIN t : i < j /\ t[j][1] = "pause"
                        /\ t[i][1] = "pause" => q.asked
      BY <1>4, <1>13, <1>16 DEF Queued
    <2>1. CASE i = n
      BY <1>3, <1>15, <2>1
    <2>2. CASE i \in DOMAIN q.tasks
      <3>1. t[i] = q.tasks[i] /\ i < n
        BY <1>3, <2>2
      <3>2. /\ q.tasks[i][1] = "emptied" => q.tasks[i][2] = {}
            /\ q.tasks[i][1] = "end" => ~q.expect
            /\ q.tasks[i][1] \in Starts /\ q.expect =>
                 \E j \in DOMAIN q.tasks : j < i /\ q.tasks[j][1] = "metadata"
            /\ q.tasks[i][1] \in Starts => ~q.ended
            /\ q.tasks[i][1] = "pause" => q.asked
        BY <2>2 DEF Queued, Player
      <3>3. q.tasks[i][1] \in Starts /\ ~q.playing =>
              \/ Surprised(q) \/ kind = "pause"
              \/ \E j \in DOMAIN q.tasks : i < j /\ q.tasks[j][1] = "pause"
        BY <2>2 DEF Queued
      <3> QED
        BY <1>3, <1>14, <2>2, <3>1, <3>2, <3>3
    <2> QED
      BY <1>3, <2>1, <2>2
  <1>7. EndAhead(r)
    BY <1>3 DEF Player, EndAhead
  <1>8. Wanted(r)
    BY DEF Player, Wanted
  <1>9. Promised(r)
    BY <1>3 DEF Player, Promised, Owed
  <1>10. InFile(r) /\ Placed(r)
    BY <1>12, <1>13 DEF InFile, Placed, Fits, Begin, Astray, Settled
  <1>11. kind = "pause" \/ Agrees(q) => Agrees(r)
    BY <1>3 DEF Player, Agrees, Surprised, Stops, Owes
  <1> QED
    BY <1>1, <1>4, <1>5, <1>6, <1>7, <1>8, <1>9, <1>10, <1>11 DEF Base

LEMMA StartKeeps ==
  ASSUME NEW q \in Player, NEW call \in Calls, NEW ok \in BOOLEAN
  PROVE  LET r == StartElement(q, call, ok)
         IN  /\ r.want <=> q.want
             /\ r.book <=> q.book
             /\ r.asked <=> q.asked
             /\ r.pos = q.pos /\ r.file = q.file /\ r.status = q.status
  BY DEF StartElement, Queue, Player

LEMMA StartBase ==
  ASSUME NEW q, Base(q), q.book, q.want, NEW call \in Calls, NEW ok \in BOOLEAN
  PROVE  Sound(StartElement(q, call, ok))
  <1> DEFINE s == [q EXCEPT !.playing = TRUE, !.plays = @ \cup {call},
                       !.time = IF q.ended THEN 0 ELSE @, !.ended = FALSE,
                       !.odd = IF q.ended THEN @ \cup {"overtaken"} ELSE @]
             r == StartElement(q, call, ok)
  <1>0. s \in Player
    <2> DEFINE plays == q.plays \cup {call}
               time == IF q.ended THEN 0 ELSE q.time
               odd == IF q.ended THEN q.odd \cup {"overtaken"} ELSE q.odd
               t == [q EXCEPT !.playing = TRUE, !.plays = plays, !.time = time,
                              !.ended = FALSE, !.odd = odd]
    <2>1. /\ q \in Player /\ plays \in SUBSET Calls /\ time \in 0..Units
          /\ odd \in SUBSET {"missed", "crossed", "overtaken"}
      BY PlayerAssumption DEF Base, Player
    <2>2. s = t
      OBVIOUS
    <2> HIDE DEF plays, time, odd
    <2>3. t \in Player
      BY <2>1 DEF Player
    <2> QED
      BY <2>2, <2>3
  <1>1. CASE ~ok /\ ~q.playing
    <2>1. r = [q EXCEPT !.rejected = @ \cup {call}]
      BY <1>1 DEF StartElement
    <2>2. r \in Player
      BY <2>1 DEF Base, Player
    <2>3. Flags(r)
      BY <2>1 DEF Base, Player, Flags, Element, Settled, Owes
    <2>4. Bookless(r) /\ Rested(r)
      BY <2>1 DEF Base, Player, Bookless, Rested
    <2>5. Queued(r) /\ EndAhead(r)
      BY <2>1 DEF Base, Player, Queued, EndAhead, Surprised
    <2>6. Wanted(r) /\ Promised(r)
      BY <2>1 DEF Base, Player, Wanted, Promised
    <2>7. InFile(r) /\ Placed(r)
      BY <2>1 DEF Base, Player, InFile, Placed, Fits, Begin, Astray, Owes, Settled
    <2> QED
      BY <2>1, <2>2, <2>3, <2>4, <2>5, <2>6, <2>7, SMTT(20) DEF Sound, Base, Agrees, Player
  <1>2. CASE (ok \/ q.playing) /\ (~q.ready \/ q.pipe # "ok")
    <2>1. r = s
      BY <1>2 DEF StartElement
    <2>2. s \in Player
      BY <1>0
    <2>3. Flags(s)
      BY <1>2 DEF Base, Player, Flags, Element, Settled, Owes
    <2>4. Bookless(s) /\ Rested(s)
      BY DEF Base, Player, Bookless, Rested
    <2>5. Queued(s) /\ EndAhead(s)
      BY DEF Base, Player, Queued, EndAhead, Surprised
    <2>6. Wanted(s) /\ Promised(s)
      BY DEF Base, Player, Wanted, Promised
    <2>7. InFile(s) /\ Placed(s)
      BY DEF Base, Player, InFile, Placed, Fits, Begin, Astray, Owes, Settled
    <2> QED
      BY <2>1, <2>2, <2>3, <2>4, <2>5, <2>6, <2>7, SMTT(25) DEF Sound, Base, Agrees, Player
  <1>3. CASE (ok \/ q.playing) /\ q.ready /\ q.pipe = "ok"
    <2> DEFINE kind == IF q.playing THEN "resolved" ELSE "playing"
    <2>1. r = Queue(s, kind)
      BY <1>3 DEF StartElement
    <2>2. /\ s \in Player /\ s.ready /\ s.playing /\ ~s.ended
          /\ kind \in Kinds \ {"emptied", "metadata", "end"} /\ kind # "pause"
      BY <1>0, <1>3 DEF Base, Player, Kinds
    <2>3. Element(s) /\ s.book /\ Rested(s) /\ EndAhead(s) /\ Agrees(s)
      BY <1>0 DEF Base, Player, Flags, Element, Rested, EndAhead, Agrees, Settled, Owes
    <2>4. Wanted(s) /\ Promised(s)
      BY DEF Base, Player, Wanted, Promised
    <2>5. InFile(s) /\ Placed(s)
      BY DEF Base, Player, InFile, Placed, Fits, Begin, Astray, Owes, Settled
    <2>6. Queued(s)
      BY DEF Base, Player, Queued, Surprised
    <2> HIDE DEF s, kind
    <2> QED
      BY <2>1, <2>2, <2>3, <2>4, <2>5, <2>6, QueueBase DEF Sound
  <1> QED
    BY <1>1, <1>2, <1>3, PlayerAssumption DEF Base, Player

LEMMA PauseElementKeeps ==
  ASSUME NEW q \in Player
  PROVE  LET r == PauseElement(q)
         IN  /\ r \in Player /\ r.pos = q.pos /\ r.file = q.file
             /\ r.book <=> q.book
             /\ r.want <=> q.want
             /\ r.asked <=> q.asked
  <1> DEFINE t == Append(q.tasks, <<"pause", q.plays>>)
             s == [q EXCEPT !.playing = FALSE, !.tasks = t, !.plays = {}]
  <1>1. q.tasks \in Seq(Task) /\ <<"pause", q.plays>> \in Task
    BY DEF Player, Task, Kinds
  <1>2. t \in Seq(Task)
    BY <1>1, AppendIs
  <1>3. PauseElement(q) = IF q.playing THEN s ELSE q
    BY DEF PauseElement, Queue, Player
  <1> HIDE DEF t
  <1>4. s \in Player
    BY <1>2 DEF Player
  <1>5. /\ s.pos = q.pos /\ s.file = q.file
        /\ s.book <=> q.book
        /\ s.want <=> q.want
        /\ s.asked <=> q.asked
    BY DEF Player
  <1> HIDE DEF s
  <1> QED
    BY <1>3, <1>4, <1>5

LEMMA PauseElementSound ==
  ASSUME NEW q \in Player, Flags(q), Bookless(q), Rested(q), Queued(q),
         EndAhead(q), Promised(q), InFile(q), Placed(q), Agrees(q), q.asked
  PROVE  Sound(PauseElement(q))
  <1> DEFINE s == [q EXCEPT !.playing = FALSE]
  <1>1. CASE ~q.playing
    BY <1>1 DEF PauseElement, Sound, Base, Wanted
  <1>2. CASE q.playing
    <2>1. PauseElement(q) = Queue(s, "pause")
      BY <1>2 DEF PauseElement
    <2>2. s \in Player /\ s.asked /\ "pause" \in Kinds \ {"emptied", "metadata", "end"}
      BY DEF Player, Kinds
    <2>3. Element(s) /\ s.book /\ Rested(s) /\ EndAhead(s)
      BY <1>2 DEF Player, Flags, Element, Bookless, Rested, EndAhead, Settled, Owes
    <2>4. Wanted(s) /\ Promised(s)
      BY DEF Player, Wanted, Promised
    <2>5. InFile(s) /\ Placed(s)
      BY DEF Player, InFile, Placed, Fits, Begin, Astray, Owes, Settled
    <2>6. Queued([s EXCEPT !.playing = TRUE])
      BY DEF Player, Queued, Surprised
    <2>7. "pause" \notin Starts
      BY DEF Starts
    <2> HIDE DEF s
    <2> QED
      BY <2>1, <2>2, <2>3, <2>4, <2>5, <2>6, <2>7, QueueBase DEF Sound
  <1> QED
    BY <1>1, <1>2 DEF Player

\* The engine's place takes over the element's.
LEMMA SyncPositionSound ==
  ASSUME NEW q, Sound(q)
  PROVE  /\ Sound(SyncPosition(q))
         /\ \/ SyncPosition(q).pos >= q.pos \/ Astray(q)
            \/ Owes(q, "metadata") /\ SyncPosition(q).pos = Begin(q) + q.time
            \/ q.pos = Length /\ SyncPosition(q).pos = Length - 1
  <1> DEFINE pos == q.file * Units + q.time
             s == [q EXCEPT !.pos = pos]
  <1>1. CASE q.stale \/ ~q.ready
    BY <1>1 DEF SyncPosition, Sound, Base, Player, Places
  <1>2. CASE ~q.stale /\ q.ready
    <2>1. SyncPosition(q) = s
      BY <1>2 DEF SyncPosition
    <2>2. /\ pos \in Places /\ q.file * Units \in Nat /\ q.time \in 0..Units
          /\ Length \in Nat
      BY FilesFit DEF Sound, Base, Player
    <2>3. s \in Player /\ s.pos = pos
      <3> HIDE DEF pos
      <3> QED
        BY <2>2 DEF Sound, Base, Player
    <2>4. Flags(s) /\ Bookless(s) /\ Rested(s)
      BY DEF Sound, Base, Player, Flags, Element, Bookless, Rested, Settled, Owes
    <2>5. Queued(s) /\ EndAhead(s)
      BY DEF Sound, Base, Player, Queued, EndAhead, Surprised
    <2>6. Wanted(s) /\ Promised(s) /\ Agrees(s)
      BY DEF Sound, Base, Player, Wanted, Promised, Agrees, Stops, Surprised, Owes, Owed
    <2>7. /\ s.file = q.file /\ s.time = q.time /\ s.seek = q.seek /\ s.odd = q.odd
          /\ s.ready
          /\ Owes(s, "metadata") <=> Owes(q, "metadata")
          /\ s.book /\ ~s.stale => q.book /\ ~q.stale
      BY <1>2 DEF Sound, Base, Player, Owes
    <2>10. q.seek # None => q.seek \in 0..Units
      BY DEF Sound, Base, Player
    <2>11. Placed(q)
      BY DEF Sound, Base
    <2> DEFINE begin == q.file * Units
    <2>12. pos = begin + q.time /\ begin \in Nat
      BY <2>2
    <2>13. Settled(s) <=> Settled(q)
      BY <1>2, <2>7 DEF Settled
    <2> HIDE DEF begin, s
    <2>8. InFile(s) /\ Placed(s)
      <3>1. Begin(s) = begin /\ Begin(q) = begin
        BY <2>7 DEF Begin, begin
      <3>2. InFile(s) /\ (Settled(s) => Fits(s, s.time))
        BY <2>2, <2>3, <2>7, <2>12, <3>1, PlayerAssumption DEF InFile, Fits
      <3>3. q.seek # None /\ q.time <= q.seek => Fits(s, s.seek) /\ s.time <= s.seek
        BY <2>2, <2>3, <2>7, <2>10, <2>12, <3>1, PlayerAssumption DEF Fits
      <3> QED
        BY <1>2, <2>7, <2>11, <2>13, <3>2, <3>3 DEF Placed, Astray
    <2>9. \/ pos >= q.pos \/ Astray(q)
          \/ Owes(q, "metadata") /\ pos = Begin(q) + q.time
          \/ q.pos = Length /\ pos = Length - 1
      BY <1>2, <2>11 DEF Placed, Fits, Begin, Settled
    <2> QED
      BY <2>1, <2>3, <2>4, <2>5, <2>6, <2>8, <2>9 DEF Sound, Base
  <1> QED
    BY <1>1, <1>2 DEF Sound, Base, Player

-----------------------------------------------------------------------------
(* A change of what the invariant does not look at, or in the direction    *)
(* that it allows: the engine may suspend itself, notice that it knows no  *)
(* place, or own up to a surprise; the pipeline may die.                   *)

Alike(q, r) ==
    /\ r.book <=> q.book
    /\ r.want <=> q.want
    /\ r.expect <=> q.expect
    /\ r.src <=> q.src
    /\ r.ready <=> q.ready
    /\ r.playing <=> q.playing
    /\ r.ended <=> q.ended
    /\ r.file = q.file /\ r.pos = q.pos /\ r.time = q.time
    /\ r.plays = q.plays /\ r.tasks = q.tasks /\ q.odd \subseteq r.odd
    /\ r.stale \/ (r.seek = q.seek /\ ~q.stale)
    /\ r.status = q.status \/ (r.status = "paused" /\ r.book)
       \/ (r.status = "suspended" /\ r.gesture)
    /\ q.gesture \/ q.rejected # {} => r.gesture \/ r.rejected # {}
    /\ q.asked => r.asked
    /\ q.pipe # "ok" => r.pipe # "ok"
    /\ r.pipe = "stalled" /\ r.ended => q.pipe = "stalled"

LEMMA AlikeSound ==
  ASSUME NEW q, Base(q), NEW r \in Player, Alike(q, r)
  PROVE  /\ Base(r)
         /\ Agrees(q) => Agrees(r)
  <1>1. Surprised(q) => Surprised(r)
    BY DEF Surprised, Alike
  <1>2. Flags(r) /\ Bookless(r) /\ Rested(r)
    BY DEF Base, Alike, Flags, Element, Bookless, Rested, Settled, Owes
  <1>3. Queued(r) /\ EndAhead(r)
    BY <1>1 DEF Base, Alike, Queued, EndAhead
  <1>4. Wanted(r) /\ Promised(r)
    BY DEF Base, Alike, Wanted, Promised, Owed
  <1>5. InFile(r) /\ Placed(r)
    BY DEF Base, Alike, InFile, Placed, Fits, Begin, Astray, Owes, Settled
  <1>6. Agrees(q) => Agrees(r)
    BY <1>1 DEF Alike, Agrees, Stops, Owes
  <1> QED
    BY <1>2, <1>3, <1>4, <1>5, <1>6 DEF Base

-----------------------------------------------------------------------------
(* The engine's methods.                                                   *)

\* A new source is loading, and nothing else is to come but its 'emptied'.
Loading(q) ==
    /\ q \in Player /\ q.book /\ q.src /\ q.expect /\ ~q.stale /\ q.time = 0
    /\ ~q.ready /\ ~q.playing /\ ~q.ended /\ q.plays = {}
    /\ q.tasks \in {<<>>, << <<"emptied", {}>> >>}

LEMMA LoadingBase ==
  ASSUME NEW q, Loading(q), Rested(q), InFile(q), q.seek # None, Fits(q, q.seek)
  PROVE  Base(q)
  <1>1. Flags(q) /\ Bookless(q) /\ EndAhead(q) /\ Wanted(q) /\ Promised(q)
    BY DEF Loading, Flags, Element, Bookless, EndAhead, Wanted, Promised, Settled, Owes
  <1>2. Queued(q)
    BY DEF Loading, Queued, Starts
  <1>3. Placed(q)
    BY PlayerAssumption DEF Loading, Placed, Settled, Player
  <1> QED
    BY <1>1, <1>2, <1>3 DEF Base, Loading

\* What a new source leaves as it is; a stop that was to be told is missed.
LEMMA SetSrcKeeps ==
  ASSUME NEW q \in Player, q.book, NEW offset \in 0..Units
  PROVE  LET r == SetSrc(q, offset)
         IN  /\ Loading(r) /\ r.seek = offset
             /\ r.want <=> q.want
             /\ r.asked <=> q.asked
             /\ q.gesture => r.gesture
             /\ q.rejected \subseteq r.rejected
             /\ r.pos = q.pos /\ r.file = q.file /\ r.status = q.status
             /\ Stops(q) \/ Surprised(q) => Surprised(r)
  <1> DEFINE e == Emptied(q)
             odd == e.odd \ {"overtaken"}
             s == [e EXCEPT !.seek = offset, !.expect = TRUE, !.stale = FALSE,
                            !.src = TRUE, !.odd = odd]
  <1>1. /\ e \in Player
        /\ Stops(q) => "missed" \in e.odd
    BY EmptiedIs
  <1>2. /\ e.book <=> q.book
        /\ e.want <=> q.want
        /\ e.asked <=> q.asked
        /\ q.gesture => e.gesture
        /\ q.rejected \subseteq e.rejected /\ q.odd \subseteq e.odd
        /\ e.pos = q.pos /\ e.file = q.file /\ e.status = q.status
        /\ ~e.ready /\ ~e.playing /\ ~e.ended /\ e.plays = {} /\ e.time = 0
        /\ e.tasks \in {<<>>, << <<"emptied", {}>> >>}
    BY DEF Emptied, Player
  <1>3. SetSrc(q, offset) = s
    BY DEF SetSrc
  <1> HIDE DEF e
  <1>4. odd \in SUBSET {"missed", "crossed", "overtaken"} /\ s.odd = odd
    BY <1>1 DEF Player
  <1>5. /\ Stops(q) => "missed" \in odd
        /\ "missed" \in q.odd => "missed" \in odd
        /\ "crossed" \in q.odd => "crossed" \in odd
    BY <1>1, <1>2
  <1> HIDE DEF odd
  <1>6. offset \in (0..Units) \cup {None}
    OBVIOUS
  <1>7. s \in Player
    BY <1>1, <1>4, <1>6, ZenonT(40) DEF Player
  <1>8. /\ s.want <=> e.want
        /\ s.asked <=> e.asked
        /\ s.gesture <=> e.gesture
        /\ s.book /\ s.src /\ s.expect /\ ~s.stale /\ s.seek = offset
        /\ ~s.ready /\ ~s.playing /\ ~s.ended /\ s.plays = e.plays /\ s.tasks = e.tasks
        /\ s.time = e.time
        /\ s.rejected = e.rejected /\ s.pos = e.pos /\ s.file = e.file
        /\ s.status = e.status
    BY <1>1, <1>2 DEF Player
  <1> HIDE DEF s
  <1>9. Stops(q) \/ Surprised(q) => Surprised(s)
    BY <1>4, <1>5 DEF Surprised
  <1> QED
    BY <1>2, <1>3, <1>7, <1>8, <1>9 DEF Loading

LEMMA SetSrcBase ==
  ASSUME NEW q \in Player, q.book, Rested(q), InFile(q),
         NEW offset \in 0..Units, Fits(q, offset)
  PROVE  Base(SetSrc(q, offset))
  <1> DEFINE r == SetSrc(q, offset)
  <1>1. /\ Loading(r) /\ r.seek = offset /\ r.pos = q.pos /\ r.file = q.file
        /\ r.want <=> q.want
        /\ r.status = q.status
    BY SetSrcKeeps
  <1> HIDE DEF r
  <1>2. Rested(r) /\ InFile(r) /\ Fits(r, r.seek)
    BY <1>1 DEF Rested, InFile, Fits, Begin
  <1> QED
    BY <1>1, <1>2, LoadingBase, PlayerAssumption DEF r

\* If the player is not to go on, what it says of itself stays as true as it was.
LEMMA SetSrcAgrees ==
  ASSUME NEW q, Wanted(q), Agrees(q), ~q.want, NEW s, Base(s),
         s.status = "playing" => q.status = "playing",
         q.gesture => s.gesture, q.rejected \subseteq s.rejected,
         Stops(q) \/ Surprised(q) => Surprised(s)
  PROVE  Sound(s)
  BY DEF Sound, Base, Agrees, Wanted, Surprised

\* All of Sound but Rested: Play() asks a player that ended to seek.
Loose(q) ==
    /\ q \in Player /\ q.book
    /\ Flags(q) /\ Queued(q) /\ EndAhead(q) /\ Wanted(q) /\ Promised(q)
    /\ InFile(q) /\ Placed(q) /\ Agrees(q)

LEMMA SeekToSound ==
  ASSUME NEW q, Loose(q), NEW place \in Places, NEW ok \in BOOLEAN
  PROVE  /\ Sound(SeekTo(q, place, ok)) /\ SeekTo(q, place, ok).book
         /\ q.want => SeekTo(q, place, ok).want
  <1> DEFINE status == IF q.status # "ended" THEN q.status
                       ELSE IF q.want THEN "loading" ELSE "paused"
             f == FileAt(place)
             o == OffsetAt(place)
             s == [q EXCEPT !.pos = place, !.file = f, !.status = status]
             odd == IF q.ready /\ q.seek = None THEN q.odd
                    ELSE q.odd \cup {"overtaken"}
             t == [s EXCEPT !.time = o, !.ended = FALSE, !.odd = odd]
  <1>1. SeekTo(q, place, ok) = IF f = q.file /\ ~q.stale THEN t
                               ELSE IF q.want THEN StartElement(SetSrc(s, o), "soft", ok)
                               ELSE SetSrc(s, o)
    BY DEF SeekTo, Loose, Player
  <1>2. /\ f \in 0..Files - 1 /\ o \in 0..Units /\ f * Units \in Nat /\ Length \in Nat
        /\ f * Units <= place /\ place <= f * Units + Units
        /\ f * Units + o = place \/ (place = Length /\ f * Units + o = Length - 1)
    BY Locates, FilesFit
  <1>3. /\ status \in {"idle", "loading", "paused", "playing", "suspended"}
        /\ status = "playing" <=> q.status = "playing"
    BY DEF Loose, Player
  <1> HIDE DEF f, o, status
  <1>4. s \in Player /\ s.status = status
    BY <1>2, <1>3 DEF Loose, Player
  <1>5. CASE f = q.file /\ ~q.stale
    <2>1. /\ odd \in SUBSET {"missed", "crossed", "overtaken"}
          /\ q.odd \subseteq odd
          /\ ~(q.ready /\ q.seek = None) => "overtaken" \in odd
      BY DEF Loose, Player
    <2> HIDE DEF odd
    <2>2. t \in Player
      BY <1>2, <1>4, <2>1, ZenonT(40) DEF Player
    <2>3. /\ t.pos = place /\ t.file = f /\ t.time = o /\ t.odd = odd
          /\ t.status = status /\ ~t.ended /\ t.book
          /\ t.tasks = q.tasks /\ t.plays = q.plays /\ t.pipe = q.pipe
          /\ t.rejected = q.rejected
      BY <1>4, <2>1 DEF Loose, Player
    <2>4. /\ t.ready <=> q.ready
          /\ t.expect <=> q.expect
          /\ t.src <=> q.src
          /\ t.want <=> q.want
          /\ t.playing <=> q.playing
          /\ t.gesture <=> q.gesture
          /\ t.asked <=> q.asked
      BY DEF Loose, Player
    <2>5. Surprised(q) => Surprised(t)
      BY <2>1, <2>3 DEF Surprised
    <2> HIDE DEF t
    <2>6. Flags(t) /\ Bookless(t) /\ Rested(t)
      BY <1>3, <2>3, <2>4 DEF Loose, Flags, Element, Bookless, Rested, Settled, Owes
    <2>7. Queued(t) /\ EndAhead(t)
      BY <2>3, <2>4, <2>5 DEF Loose, Queued, EndAhead
    <2>8. Wanted(t) /\ Promised(t)
      BY <2>1, <2>3, <2>4 DEF Loose, Wanted, Promised, Owed
    <2>9. Agrees(t)
      BY <1>3, <2>3, <2>4, <2>5 DEF Loose, Agrees, Stops, Owes
    <2>10. InFile(t) /\ Placed(t)
      <3>1. InFile(t) /\ Fits(t, t.time)
        BY <1>2, <2>3 DEF InFile, Fits, Begin
      <3>2. CASE q.ready /\ q.seek = None
        <4>1. (Settled(t) <=> Settled(q)) /\ q.book
          BY <2>3, <2>4 DEF Settled, Owes, Loose
        <4>2. ~Settled(q) => Astray(q)
          BY <1>5, <3>2, <4>1 DEF Loose, Placed
        <4> QED
          BY <2>1, <2>3, <3>1, <4>1, <4>2 DEF Placed, Astray
      <3>3. CASE ~(q.ready /\ q.seek = None)
        BY <2>1, <2>3, <3>1, <3>3 DEF Placed, Astray
      <3> QED
        BY <3>1, <3>2, <3>3
    <2> QED
      BY <1>1, <1>5, <2>2, <2>3, <2>4, <2>6, <2>7, <2>8, <2>9, <2>10 DEF Sound, Base
  <1>6. CASE f # q.file \/ q.stale
    <2> DEFINE u == SetSrc(s, o)
    <2>1. s.book /\ Rested(s) /\ s.pos = place /\ s.file = f
      BY <1>2, <1>3, <1>4 DEF Loose, Player, Rested
    <2>2. InFile(s) /\ Fits(s, o)
      BY <1>2, <2>1 DEF InFile, Fits, Begin
    <2>3. Base(u)
      BY <1>2, <1>4, <2>1, <2>2, SetSrcBase
    <2>4. /\ s.book <=> q.book
          /\ s.want <=> q.want
          /\ s.gesture <=> q.gesture
          /\ s.rejected = q.rejected
          /\ Stops(s) <=> Stops(q)
          /\ Surprised(s) <=> Surprised(q)
      BY DEF Loose, Player, Stops, Surprised, Owes
    <2> HIDE DEF s
    <2>5. /\ u.book <=> s.book
          /\ u.want <=> s.want
          /\ s.gesture => u.gesture
          /\ u.status = s.status
          /\ s.rejected \subseteq u.rejected
          /\ Stops(s) \/ Surprised(s) => Surprised(u)
      BY <1>2, <1>4, <2>1, SetSrcKeeps DEF Loading
    <2> HIDE DEF u
    <2>6. u.book /\ (q.want <=> u.want)
      BY <2>4, <2>5 DEF Loose
    <2>7. CASE q.want
      <3>1. SeekTo(q, place, ok) = StartElement(u, "soft", ok)
        BY <1>1, <1>6, <2>7 DEF u
      <3>2. u \in Player /\ "soft" \in Calls
        BY <2>3 DEF Base, Calls
      <3> QED
        BY <2>3, <2>6, <2>7, <3>1, <3>2, StartBase, StartKeeps
    <2>8. CASE ~q.want
      <3>1. SeekTo(q, place, ok) = u
        BY <1>1, <1>6, <2>8 DEF u
      <3>2. u.status = "playing" => q.status = "playing"
        BY <1>3, <1>4, <2>5
      <3>3. Sound(u)
        BY <2>3, <2>4, <2>5, <2>8, <3>2, SetSrcAgrees DEF Loose
      <3> QED
        BY <2>6, <2>8, <3>1, <3>3
    <2> QED
      BY <2>7, <2>8
  <1> QED
    BY <1>1, <1>5, <1>6

\* The place moves on, or by what the invariant allows; and the wish to play
\* ends for a reason.
Onward(q, r) ==
    \/ r.pos >= q.pos \/ Astray(q)
    \/ Owes(q, "metadata") /\ r.pos = Begin(q) + q.time
    \/ q.pos = Length /\ r.pos = Length - 1
Willing(q, r) ==
    q.want /\ ~r.want => q.asked \/ r.asked \/ ~r.book \/ r.status = "ended"

LEMMA PlaySound ==
  ASSUME NEW q, Sound(q), NEW auto \in BOOLEAN, NEW ok \in BOOLEAN
  PROVE  /\ Sound(Play(q, auto, ok))
         /\ q.book => Play(q, auto, ok).want
         /\ auto /\ q.status # "ended" => Play(q, auto, ok).pos = q.pos
  <1> DEFINE rested == IF q.status = "paused" THEN q.rest ELSE "none"
             asked == Owes(q, "pause")
             s == [q EXCEPT !.rest = "none", !.fade = FALSE, !.want = TRUE,
                            !.asked = asked]
             place == IF q.pos = 0 THEN 0 ELSE q.pos - 1
             t == IF q.status = "ended" THEN SeekTo(s, 0, ok)
                  ELSE IF ~auto /\ Rewinds(rested) THEN SeekTo(s, place, ok)
                  ELSE s
             x == [t EXCEPT !.reload = FALSE]
             offset == t.pos - t.file * Units
             reloads == t.reload \/ (rested = "long" /\ page # "visible")
             u == IF reloads THEN SetSrc(x, offset) ELSE t
             v == [u EXCEPT !.timer = TRUE]
  <1>1. CASE ~q.book
    BY <1>1 DEF Play
  <1>2. CASE q.book
    <2>1. Play(q, auto, ok) = StartElement(v, "play", ok)
      BY <1>2 DEF Play
    <2>2. asked \in BOOLEAN
      BY DEF Owes
    <2>3. Loose(s) /\ s.want /\ s.pos = q.pos
      <3>1. q \in Player
        BY DEF Sound, Base
      <3>2. asked \/ ~asked
        OBVIOUS
      <3>3. \A i \in DOMAIN q.tasks : q.tasks[i][1] = "pause" => asked
        BY DEF Owes
      <3> HIDE DEF asked
      <3>4. s \in Player
        BY <3>1, <2>2 DEF Player
      <3>5. /\ s.book <=> q.book
            /\ s.asked <=> asked
            /\ s.expect <=> q.expect
            /\ s.src <=> q.src
            /\ s.ready <=> q.ready
            /\ s.stale <=> q.stale
            /\ s.playing <=> q.playing
            /\ s.ended <=> q.ended
            /\ s.gesture <=> q.gesture
            /\ s.file = q.file /\ s.pos = q.pos /\ s.time = q.time
            /\ s.plays = q.plays /\ s.tasks = q.tasks /\ s.odd = q.odd
            /\ s.seek = q.seek /\ s.status = q.status
            /\ s.rejected = q.rejected /\ s.pipe = q.pipe /\ s.want
        BY <3>1, <2>2 DEF Player
      <3> HIDE DEF s
      <3>6. Flags(s) /\ EndAhead(s) /\ Wanted(s)
        BY <3>5 DEF Sound, Base, Flags, Element, EndAhead, Wanted, Settled, Owes
      <3>7. Queued(s)
        BY <3>3, <3>5 DEF Sound, Base, Queued, Surprised
      <3>8. Promised(s) /\ Agrees(s)
        BY <3>5 DEF Sound, Base, Promised, Owed, Agrees, Surprised, Stops, Owes
      <3>9. InFile(s) /\ Placed(s)
        BY <3>5 DEF Sound, Base, InFile, Placed, Fits, Begin, Astray, Owes, Settled
      <3> QED
        BY <1>2, <3>4, <3>5, <3>6, <3>7, <3>8, <3>9 DEF Loose
    <2>4. q.status # "ended" => Sound(s)
      <3>1. s.status = q.status
        BY DEF Sound, Base, Player
      <3> HIDE DEF s
      <3> QED
        BY <2>3, <3>1 DEF Loose, Sound, Base, Rested, Bookless
    <2>5. 0 \in Places /\ place \in Places
      BY PlayerAssumption, FilesFit DEF Sound, Base, Player, Places, Length
    <2> HIDE DEF s, place
    <2>6. /\ Sound(t) /\ t.book /\ t.want
          /\ auto /\ q.status # "ended" => t.pos = q.pos
      BY <2>3, <2>4, <2>5, SeekToSound DEF Loose
    <2> HIDE DEF t
    <2>7. /\ x \in Player /\ Rested(x) /\ InFile(x) /\ x.book /\ x.want
          /\ x.pos = t.pos /\ x.file = t.file
      <3>1. t \in Player
        BY <2>6 DEF Sound, Base
      <3>2. /\ x \in Player
            /\ x.book <=> t.book
            /\ x.want <=> t.want
            /\ x.pos = t.pos /\ x.file = t.file /\ x.status = t.status
        BY <3>1 DEF Player
      <3> HIDE DEF x
      <3> QED
        BY <2>6, <3>2 DEF Sound, Base, Rested, InFile, Begin
    <2>8. offset \in 0..Units /\ Begin(x) + offset = x.pos
      <3>1. t.file \in 0..Files - 1 /\ t.pos \in Nat
        BY <2>6, FilesFit DEF Sound, Base, Player, Places
      <3>2. t.file * Units \in Nat
        BY <3>1, PlayerAssumption
      <3>3. t.file * Units <= t.pos /\ t.pos <= t.file * Units + Units
        BY <2>6 DEF Sound, Base, InFile, Begin
      <3>4. Begin(x) = t.file * Units
        BY <2>7 DEF Begin
      <3> QED
        BY <2>7, <3>1, <3>2, <3>3, <3>4, PlayerAssumption
    <2>9. Fits(x, offset)
      BY <2>7, <2>8 DEF Fits, Player, Places
    <2> HIDE DEF x, offset
    <2>10. Base(u) /\ u.book /\ u.want /\ u.pos = t.pos
      BY <2>6, <2>7, <2>8, <2>9, SetSrcBase, SetSrcKeeps DEF Sound, Loading
    <2> HIDE DEF u
    <2>11. v \in Player /\ v.book /\ v.want /\ v.pos = u.pos /\ Alike(u, v)
      <3>1. u \in Player
        BY <2>10 DEF Base
      <3>2. Alike(u, v)
        BY <3>1 DEF Player, Alike
      <3> QED
        BY <2>10, <3>1, <3>2 DEF Player
    <2> HIDE DEF v
    <2>12. Base(v) /\ "play" \in Calls
      BY <2>10, <2>11, AlikeSound DEF Calls
    <2> QED
      BY <2>1, <2>6, <2>10, <2>11, <2>12, StartBase, StartKeeps
  <1> QED
    BY <1>1, <1>2

LEMMA PauseSound ==
  ASSUME NEW q, Sound(q)
  PROVE  Sound(Pause(q)) /\ Pause(q).asked /\ Pause(q).pos = q.pos
  <1> DEFINE s == [q EXCEPT !.timer = FALSE, !.want = FALSE, !.asked = TRUE]
  <1>1. Pause(q) = PauseElement(s)
    BY DEF Pause
  <1>2. q \in Player
    BY DEF Sound, Base
  <1>3. /\ s.book <=> q.book
        /\ s.expect <=> q.expect
        /\ s.src <=> q.src
        /\ s.ready <=> q.ready
        /\ s.stale <=> q.stale
        /\ s.playing <=> q.playing
        /\ s.ended <=> q.ended
        /\ s.gesture <=> q.gesture
        /\ s.file = q.file /\ s.pos = q.pos /\ s.time = q.time
        /\ s.plays = q.plays /\ s.tasks = q.tasks /\ s.odd = q.odd
        /\ s.seek = q.seek /\ s.status = q.status
        /\ s.rejected = q.rejected /\ s.pipe = q.pipe /\ ~s.want /\ s.asked
    BY <1>2 DEF Player
  <1>4. s \in Player
    BY <1>2 DEF Player
  <1>5. PauseElement(s).asked /\ PauseElement(s).pos = s.pos
    BY <1>3, <1>4 DEF PauseElement, Queue, Player
  <1> HIDE DEF s
  <1>6. Flags(s) /\ Bookless(s) /\ Rested(s)
    BY <1>3 DEF Sound, Base, Flags, Element, Bookless, Rested, Settled, Owes
  <1>7. Queued(s) /\ EndAhead(s)
    BY <1>3 DEF Sound, Base, Queued, Surprised, EndAhead
  <1>8. Promised(s) /\ Agrees(s)
    BY <1>3 DEF Sound, Base, Promised, Owed, Agrees, Surprised, Stops, Owes
  <1>9. InFile(s) /\ Placed(s)
    BY <1>3 DEF Sound, Base, InFile, Placed, Fits, Begin, Astray, Owes, Settled
  <1> QED
    BY <1>1, <1>3, <1>4, <1>5, <1>6, <1>7, <1>8, <1>9, PauseElementSound

LEMMA LoadSound ==
  ASSUME NEW q \in Player, NEW place \in Places
  PROVE  /\ Sound(LoadBook(q, place)) /\ LoadBook(q, place).book
         /\ LoadBook(q, place).status = "loading"
  <1> DEFINE f == FileAt(place)
             o == OffsetAt(place)
             s == [q EXCEPT !.book = TRUE, !.status = "loading", !.rest = "none",
                            !.file = f, !.pos = place]
             r == [SetSrc(s, o) EXCEPT !.odd = {}]
  <1>1. LoadBook(q, place) = r
    BY DEF LoadBook
  <1>2. /\ f \in 0..Files - 1 /\ o \in 0..Units
        /\ f * Units <= place /\ place <= f * Units + Units
        /\ f * Units + o = place \/ (place = Length /\ f * Units + o = Length - 1)
    BY Locates
  <1> HIDE DEF f, o
  <1>3. s \in Player /\ s.book /\ s.status = "loading" /\ s.file = f /\ s.pos = place
    BY <1>2 DEF Player
  <1> HIDE DEF s
  <1>4. Rested(s) /\ InFile(s) /\ Fits(s, o)
    BY <1>2, <1>3, PlayerAssumption DEF Rested, InFile, Fits, Begin, Places
  <1> DEFINE t == SetSrc(s, o)
  <1>5. /\ Loading(t) /\ t.seek = o /\ t.pos = place /\ t.file = f
        /\ t.status = "loading"
    BY <1>2, <1>3, SetSrcKeeps
  <1> HIDE DEF t
  <1>6. /\ Loading(r) /\ r.seek = o /\ r.pos = place /\ r.file = f
        /\ r.status = "loading"
    <2>1. t \in Player
      BY <1>5 DEF Loading
    <2>2. r = [t EXCEPT !.odd = {}]
      BY DEF t
    <2> HIDE DEF r
    <2>3. r \in Player
      BY <2>1, <2>2 DEF Player
    <2>4. /\ r.book /\ r.src /\ r.expect /\ ~r.stale /\ r.time = 0
          /\ ~r.ready /\ ~r.playing /\ ~r.ended /\ r.plays = {}
          /\ r.tasks = t.tasks /\ r.seek = t.seek /\ r.pos = t.pos
          /\ r.file = t.file /\ r.status = t.status
      BY <1>5, <2>1, <2>2 DEF Loading, Player
    <2> QED
      BY <1>5, <2>3, <2>4 DEF Loading
  <1> HIDE DEF r
  <1>7. Rested(r) /\ InFile(r) /\ Fits(r, r.seek)
    BY <1>3, <1>4, <1>6 DEF Rested, InFile, Fits, Begin
  <1>8. Base(r)
    BY <1>2, <1>6, <1>7, LoadingBase, PlayerAssumption
  <1> QED
    BY <1>1, <1>6, <1>8 DEF Sound, Agrees, Loading

LEMMA FreshSound ==
  /\ Sound(Fresh) /\ Fresh.rejected = {}
  <1>1. 0 \in 0..Files - 1 /\ 0 \in Places /\ 0 \in 0..Units /\ 0 * Units = 0
    BY FilesFit, PlayerAssumption DEF Places, Length
  <1>2. <<>> \in Seq(Task)
    OBVIOUS
  <1>3. Fresh \in Player
    BY <1>1, <1>2 DEF Fresh, Player
  <1>4. /\ ~Fresh.book /\ ~Fresh.want /\ ~Fresh.playing /\ Fresh.status = "idle"
        /\ ~Fresh.ready /\ ~Fresh.ended /\ ~Fresh.src /\ Fresh.plays = {}
        /\ ~Fresh.expect /\ Fresh.tasks = <<>> /\ Fresh.rejected = {}
        /\ Fresh.pos = 0 /\ Fresh.file = 0
    BY DEF Fresh
  <1>5. Flags(Fresh) /\ Bookless(Fresh) /\ Rested(Fresh) /\ EndAhead(Fresh)
    BY <1>4 DEF Flags, Element, Bookless, Rested, EndAhead, Settled, Owes
  <1>6. Queued(Fresh) /\ Wanted(Fresh) /\ Promised(Fresh) /\ Agrees(Fresh)
    BY <1>4 DEF Queued, Wanted, Promised, Agrees
  <1>7. InFile(Fresh) /\ Placed(Fresh)
    BY <1>1, <1>4, PlayerAssumption DEF InFile, Placed, Begin, Settled, Owes
  <1> QED
    BY <1>3, <1>4, <1>5, <1>6, <1>7 DEF Sound, Base

LEMMA UnloadSound ==
  ASSUME NEW q \in Player
  PROVE  Sound(UnloadBook(q)) /\ ~UnloadBook(q).book
  <1> DEFINE e == Emptied(PauseElement(q))
             tasks == e.tasks
             rejected == e.rejected
             r == [Fresh EXCEPT !.expect = TRUE, !.tasks = tasks, !.rejected = rejected]
  <1>1. UnloadBook(q) = r
    BY DEF UnloadBook
  <1>2. PauseElement(q) \in Player
    BY PauseElementKeeps
  <1>3. rejected \in SUBSET Calls /\ tasks \in Seq(Task)
    BY <1>2, EmptiedIs DEF Player
  <1>4. tasks \in {<<>>, << <<"emptied", {}>> >>}
    BY <1>2 DEF Emptied, Player
  <1> HIDE DEF tasks, rejected
  <1>5. r \in Player
    BY <1>3, FreshSound DEF Sound, Base, Player
  <1>6. /\ ~r.book /\ ~r.want /\ ~r.playing /\ r.status = "idle" /\ r.expect
        /\ ~r.ready /\ ~r.ended /\ ~r.src /\ r.plays = {}
        /\ r.pos = 0 /\ r.file = 0 /\ r.tasks = tasks /\ r.rejected = rejected
    BY DEF Fresh
  <1> HIDE DEF r
  <1>7. Flags(r) /\ Bookless(r) /\ Rested(r) /\ EndAhead(r)
    BY <1>4, <1>6 DEF Flags, Element, Bookless, Rested, EndAhead, Settled, Owes
  <1>8. Queued(r) /\ Wanted(r) /\ Promised(r) /\ Agrees(r)
    BY <1>4, <1>6 DEF Queued, Starts, Wanted, Promised, Agrees
  <1>9. InFile(r) /\ Placed(r)
    BY <1>6, PlayerAssumption DEF InFile, Placed, Begin, Settled, Owes
  <1> QED
    BY <1>1, <1>5, <1>6, <1>7, <1>8, <1>9 DEF Sound, Base

LEMMA FinishSound ==
  ASSUME NEW q \in Player, q.book
  PROVE  Sound(Finish(q)) /\ Finish(q).asked
  <1> DEFINE a == [q EXCEPT !.fade = FALSE, !.want = FALSE, !.file = Files - 1,
                            !.asked = TRUE]
             b == PauseElement(a)
             c == SetSrc(b, Units - 1)
             r == [c EXCEPT !.pos = Length, !.status = "ended"]
  <1>1. /\ Files - 1 \in 0..Files - 1 /\ Units - 1 \in 0..Units
        /\ Length \in Places /\ Length \in Nat
    BY PlayerAssumption, FilesFit DEF Places, Length
  <1>2. a \in Player /\ a.book /\ ~a.want /\ a.asked /\ a.file = Files - 1
    BY <1>1, ZenonT(40) DEF Player
  <1> HIDE DEF a
  <1>3. b \in Player /\ b.book /\ ~b.want /\ b.asked /\ b.file = Files - 1
    BY <1>2, PauseElementKeeps
  <1> HIDE DEF b
  <1>4. Finish(q) = r
    BY DEF Finish, a, b
  <1>5. /\ Loading(c) /\ c.seek = Units - 1 /\ c.file = Files - 1
        /\ ~c.want /\ c.asked
    BY <1>1, <1>3, SetSrcKeeps
  <1> HIDE DEF c
  <1>6. /\ Loading(r) /\ r.seek = Units - 1 /\ r.file = Files - 1
        /\ ~r.want /\ r.asked /\ r.pos = Length /\ r.status = "ended"
    <2>1. c \in Player
      BY <1>5 DEF Loading
    <2>2. r \in Player
      BY <1>1, <2>1 DEF Player
    <2> QED
      BY <1>5, <2>1, <2>2 DEF Loading, Player
  <1> HIDE DEF r
  <1>7. (Files - 1) * Units + Units = Length /\ (Files - 1) * Units \in Nat
    BY <1>1, FilesFit
  <1>8. Rested(r) /\ InFile(r) /\ Fits(r, r.seek)
    BY <1>1, <1>6, <1>7, PlayerAssumption DEF Rested, InFile, Fits, Begin
  <1>9. Base(r)
    BY <1>1, <1>6, <1>8, LoadingBase, PlayerAssumption
  <1> QED
    BY <1>4, <1>6, <1>9 DEF Sound, Agrees

LEMMA SuspendAlike ==
  ASSUME NEW q \in Player
  PROVE  Suspend(q) \in Player /\ Alike(q, Suspend(q))
  <1>1. Suspend(q) \in Player
    BY DEF Suspend, Player
  <1> QED
    BY <1>1 DEF Suspend, Alike, Player

LEMMA CaughtSound ==
  ASSUME NEW q, Sound(q)
  PROVE  /\ Sound(Caught(q)) /\ Caught(q).rejected = {}
         /\ Caught(q).want <=> q.want
         /\ Caught(q).book <=> q.book
         /\ Caught(q).asked <=> q.asked
         /\ Caught(q).pos = q.pos
         /\ q.rejected = {} => Caught(q).status = q.status
  <1> DEFINE r == Caught(q)
  <1>1. q \in Player /\ q.rejected \in SUBSET Calls
    BY DEF Sound, Base, Player
  <1>2. r \in Player /\ r.rejected = {}
    BY <1>1, ZenonT(40) DEF Caught, Suspend, Player
  <1>3. /\ r.book <=> q.book
        /\ r.want <=> q.want
        /\ r.asked <=> q.asked
        /\ r.pos = q.pos
        /\ q.rejected = {} => r.status = q.status
    BY <1>1 DEF Caught, Suspend, Player
  <1>4. q.gesture \/ q.rejected # {} => r.gesture
    BY <1>1 DEF Caught, Suspend, Player, Calls
  <1>5. /\ r.expect <=> q.expect
        /\ r.src <=> q.src
        /\ r.ready <=> q.ready
        /\ r.playing <=> q.playing
        /\ r.ended <=> q.ended
        /\ r.stale <=> q.stale
        /\ r.file = q.file /\ r.time = q.time /\ r.seek = q.seek /\ r.pipe = q.pipe
        /\ r.plays = q.plays /\ r.tasks = q.tasks /\ r.odd = q.odd
    BY <1>1 DEF Caught, Suspend, Player
  <1>6. r.status = q.status \/ (r.status = "suspended" /\ r.gesture)
    BY <1>1 DEF Caught, Suspend, Player
  <1> HIDE DEF r
  <1>7. Alike(q, r)
    BY <1>3, <1>4, <1>5, <1>6 DEF Alike
  <1> QED
    BY <1>2, <1>3, <1>7, AlikeSound DEF Sound, r

LEMMA ResetAlike ==
  ASSUME NEW q \in Player
  PROVE  /\ OnElementReset(q) \in Player /\ Alike(q, OnElementReset(q))
         /\ q.book => OnElementReset(q).stale /\ OnElementReset(q).status # "playing"
  <1> DEFINE odd == IF q.timer THEN q.odd \cup {"missed"} ELSE q.odd
             s == [q EXCEPT !.stale = TRUE, !.seek = None, !.reload = TRUE,
                            !.timer = FALSE]
             r == [s EXCEPT !.odd = odd]
             t == Suspend(s)
  <1>1. OnElementReset(q) = IF ~q.book THEN q
                            ELSE IF q.status \in {"playing", "loading"} THEN t
                            ELSE r
    BY DEF OnElementReset, Player
  <1>2. odd \in SUBSET {"missed", "crossed", "overtaken"} /\ q.odd \subseteq odd
    BY DEF Player
  <1>3. s \in Player /\ t \in Player
    BY ZenonT(40) DEF Player, Suspend
  <1> HIDE DEF odd
  <1>4. r \in Player /\ r.odd = odd
    BY <1>2 DEF Player
  <1>5. Alike(q, r) /\ r.stale /\ r.status = q.status
    BY <1>2 DEF Alike, Player
  <1>6. Alike(q, t) /\ t.stale /\ t.status = "suspended"
    BY DEF Alike, Player, Suspend
  <1>7. Alike(q, q)
    BY DEF Alike
  <1> HIDE DEF r, t
  <1> QED
    BY <1>1, <1>3, <1>4, <1>5, <1>6, <1>7 DEF Player

-----------------------------------------------------------------------------
(* The handlers of the element's events.                                   *)

LEMMA TailIs ==
  ASSUME NEW s \in Seq(Task), s # <<>>
  PROVE  /\ Tail(s) \in Seq(Task) /\ Head(s) \in Task
         /\ 1 \in DOMAIN s /\ Head(s) = s[1]
         /\ \A i \in DOMAIN Tail(s) : i + 1 \in DOMAIN s /\ Tail(s)[i] = s[i + 1]
         /\ \A i \in DOMAIN s :
               i = 1 \/ (i - 1 \in DOMAIN Tail(s) /\ Tail(s)[i - 1] = s[i])
         /\ DOMAIN s \subseteq Nat /\ DOMAIN Tail(s) \subseteq Nat
  <1>1. Len(s) \in Nat /\ Len(s) > 0 /\ DOMAIN s = 1..Len(s)
    OBVIOUS
  <1>2. Tail(s) \in Seq(Task) /\ Len(Tail(s)) = Len(s) - 1
    BY <1>1
  <1>3. DOMAIN Tail(s) = 1..Len(s) - 1
    BY <1>1, <1>2
  <1>4. \A i \in 1..Len(s) - 1 : Tail(s)[i] = s[i + 1]
    BY <1>1
  <1>5. \A i \in 1..Len(s) : i = 1 \/ (i - 1 \in 1..Len(s) - 1 /\ (i - 1) + 1 = i)
    BY <1>1
  <1>6. Head(s) = s[1] /\ s[1] \in Task
    BY <1>1
  <1> QED
    BY <1>1, <1>2, <1>3, <1>4, <1>5, <1>6

\* The engine with the event x out of the element's queue.
Took(q) == [q EXCEPT !.tasks = Tail(@)]

LEMMA TookIs ==
  ASSUME NEW q, Sound(q), q.tasks # <<>>
  PROVE  LET r == Took(q)
             x == Head(q.tasks)
         IN  /\ x[1] \in Kinds /\ x[2] \in SUBSET Calls
             /\ r \in Player /\ Bookless(r) /\ Rested(r) /\ Wanted(r) /\ InFile(r)
             /\ x[1] # "metadata" =>
                   /\ Flags(r) /\ Queued(r)
                   /\ ~(x[1] = "emptied" /\ ~q.expect) => Placed(r)
             /\ x[1] # "end" => ~(r.ended /\ r.status = "playing")
             /\ ~(x[1] = "pause" \/ (x[1] = "emptied" /\ ~q.expect)) => Agrees(r)
             /\ r.expect /\ r.playing /\ ~r.gesture =>
                   r.rejected # {} \/ r.plays # {} \/ x[2] # {} \/ Owed(r) # {}
  <1> DEFINE s == q.tasks
             t == Tail(s)
             x == Head(s)
             r == [q EXCEPT !.tasks = t]
  <1>1. q \in Player /\ s \in Seq(Task) /\ s # <<>>
    BY DEF Sound, Base, Player
  <1>2. /\ t \in Seq(Task) /\ x \in Task /\ 1 \in DOMAIN s /\ x = s[1]
        /\ \A i \in DOMAIN t : i + 1 \in DOMAIN s /\ t[i] = s[i + 1]
        /\ \A i \in DOMAIN s : i = 1 \/ (i - 1 \in DOMAIN t /\ t[i - 1] = s[i])
        /\ DOMAIN s \subseteq Nat /\ DOMAIN t \subseteq Nat
    BY <1>1, TailIs
  <1> HIDE DEF t, x
  <1>3. r \in Player
    BY <1>1, <1>2 DEF Player
  <1>4. /\ r.book <=> q.book
        /\ r.want <=> q.want
        /\ r.asked <=> q.asked
        /\ r.expect <=> q.expect
        /\ r.src <=> q.src
        /\ r.ready <=> q.ready
        /\ r.stale <=> q.stale
        /\ r.playing <=> q.playing
        /\ r.ended <=> q.ended
        /\ r.gesture <=> q.gesture
        /\ r.file = q.file /\ r.pos = q.pos /\ r.time = q.time
        /\ r.plays = q.plays /\ r.tasks = t /\ r.odd = q.odd
        /\ r.seek = q.seek /\ r.status = q.status
        /\ r.rejected = q.rejected /\ r.pipe = q.pipe
    BY <1>1 DEF Player
  <1> HIDE DEF r
  <1>5. Rested(r) /\ Wanted(r) /\ InFile(r)
    BY <1>4 DEF Sound, Base, Rested, Wanted, InFile, Begin
  <1>6. Bookless(r)
    <2> SUFFICES ASSUME ~q.book
                 PROVE  /\ ~q.want /\ ~q.playing /\ q.status \in {"idle", "suspended"}
                        /\ q.expect
                        /\ \A i \in DOMAIN t : t[i] = <<"emptied", {}>>
      BY <1>4 DEF Bookless
    <2>1. /\ ~q.want /\ ~q.playing /\ q.status \in {"idle", "suspended"}
          /\ q.expect
          /\ \A i \in DOMAIN s : s[i] = <<"emptied", {}>>
      BY DEF Sound, Base, Bookless
    <2> QED
      BY <1>2, <2>1
  <1>7. x[1] # "metadata" => Queued(r)
    <2> SUFFICES ASSUME x[1] # "metadata", NEW i \in DOMAIN t
                 PROVE  /\ t[i][1] = "emptied" => t[i][2] = {}
                        /\ t[i][1] = "metadata" =>
                             \A j \in DOMAIN t : t[j][1] = "metadata" => j = i
                        /\ t[i][1] = "end" => ~q.expect
                        /\ t[i][1] \in Starts /\ q.expect =>
                             \E j \in DOMAIN t : j < i /\ t[j][1] = "metadata"
                        /\ t[i][1] \in Starts => ~q.ended
                        /\ t[i][1] \in Starts /\ ~q.playing =>
                             \/ Surprised(q)
                             \/ \E j \in DOMAIN t : i < j /\ t[j][1] = "pause"
                        /\ t[i][1] = "pause" => q.asked
      BY <1>4 DEF Queued, Surprised
    <2>1. i + 1 \in DOMAIN s /\ t[i] = s[i + 1] /\ i \in Nat
      BY <1>2
    <2>2. \A j \in DOMAIN s : i + 1 < j => j - 1 \in DOMAIN t /\ t[j - 1] = s[j] /\ i < j - 1
      <3> TAKE j \in DOMAIN s
      <3> HAVE i + 1 < j
      <3>1. j \in Nat /\ j # 1
        BY <1>2, <2>1
      <3> QED
        BY <1>2, <2>1, <3>1
    <2>3. \A j \in DOMAIN s : j < i + 1 /\ s[j][1] = "metadata" =>
             j - 1 \in DOMAIN t /\ t[j - 1][1] = "metadata" /\ j - 1 < i
      <3> TAKE j \in DOMAIN s
      <3> HAVE j < i + 1 /\ s[j][1] = "metadata"
      <3>1. j \in Nat /\ j # 1
        BY <1>2
      <3> QED
        BY <1>2, <2>1, <3>1
    <2>4. t[i][1] = "metadata" => \A j \in DOMAIN t : t[j][1] = "metadata" => j = i
      <3> SUFFICES ASSUME t[i][1] = "metadata", NEW j \in DOMAIN t, t[j][1] = "metadata"
                   PROVE  j = i
        OBVIOUS
      <3>1. j + 1 \in DOMAIN s /\ t[j] = s[j + 1] /\ j \in Nat
        BY <1>2
      <3>2. j + 1 = i + 1
        BY <2>1, <3>1 DEF Sound, Base, Queued
      <3> QED
        BY <2>1, <3>1, <3>2
    <2>5. /\ s[i + 1][1] = "emptied" => s[i + 1][2] = {}
          /\ s[i + 1][1] = "end" => ~q.expect
          /\ s[i + 1][1] \in Starts /\ q.expect =>
               \E j \in DOMAIN s : j < i + 1 /\ s[j][1] = "metadata"
          /\ s[i + 1][1] \in Starts => ~q.ended
          /\ s[i + 1][1] \in Starts /\ ~q.playing =>
               Surprised(q) \/ \E j \in DOMAIN s : i + 1 < j /\ s[j][1] = "pause"
          /\ s[i + 1][1] = "pause" => q.asked
      BY <2>1 DEF Sound, Base, Queued
    <2> QED
      BY <2>1, <2>2, <2>3, <2>4, <2>5
  <1>8. \A kind : Owes(q, kind) => x[1] = kind \/ Owes(r, kind)
    BY <1>2, <1>4 DEF Owes
  <1>15. \A kind : Owes(r, kind) => Owes(q, kind)
    BY <1>2, <1>4 DEF Owes
  <1>16. x[1] # "metadata" => Flags(r)
    BY <1>4, <1>8, <1>15 DEF Sound, Base, Flags, Element, Settled
  <1>9. x[1] # "metadata" /\ ~(x[1] = "emptied" /\ ~q.expect) => Placed(r)
    <2>1. x[1] # "metadata" => (Settled(r) <=> Settled(q))
      BY <1>4, <1>8, <1>15 DEF Settled
    <2>2. Owes(q, "emptied") /\ x[1] # "emptied" => Owes(r, "emptied")
      BY <1>8
    <2> QED
      BY <1>4, <2>1, <2>2 DEF Sound, Base, Placed, Fits, Begin, Astray
  <1>10. x[1] # "end" => ~(r.ended /\ r.status = "playing")
    BY <1>2, <1>4 DEF Sound, Base, EndAhead
  <1>11. ~(x[1] = "pause" \/ (x[1] = "emptied" /\ ~q.expect)) => Agrees(r)
    BY <1>4, <1>8 DEF Sound, Agrees, Stops, Surprised
  <1>12. r.expect /\ r.playing /\ ~r.gesture =>
           r.rejected # {} \/ r.plays # {} \/ x[2] # {} \/ Owed(r) # {}
    <2>1. Owed(q) \subseteq x[2] \cup Owed(r)
      BY <1>2, <1>4 DEF Owed
    <2> QED
      BY <1>4, <2>1 DEF Sound, Base, Promised
  <1>13. x[1] \in Kinds /\ x[2] \in SUBSET Calls
    BY <1>2 DEF Task
  <1>14. Took(q) = r
    BY <1>1 DEF Took, Player, r, t
  <1> QED
    BY <1>3, <1>5, <1>6, <1>7, <1>9, <1>10, <1>11, <1>12, <1>13, <1>14, <1>16 DEF x

LEMMA OnPauseSound ==
  ASSUME NEW q, Base(q), ~(q.ended /\ q.status = "playing"), q.book
  PROVE  /\ Sound(OnPause(q)) /\ Onward(q, OnPause(q))
         /\ OnPause(q).asked <=> q.asked
  <1> DEFINE status == IF q.status = "suspended" THEN q.status ELSE "paused"
             rest == IF q.status = "suspended" THEN q.rest ELSE "brief"
             crossed == IF q.playing THEN q.odd \cup {"crossed"} ELSE q.odd
             missed == IF q.ended THEN q.odd ELSE q.odd \cup {"missed"}
             s == [q EXCEPT !.want = FALSE, !.status = status, !.rest = rest,
                            !.odd = crossed]
             m == [q EXCEPT !.odd = missed]
  <1>1. OnPause(q) = IF q.status = "ended" THEN q
                     ELSE IF q.want /\ AtEndOfFile(q) THEN m
                     ELSE SyncPosition(s)
    BY DEF OnPause, Base, Player
  <1>2. q \in Player /\ q.pos \in Nat
    BY DEF Base, Player, Places
  <1>3. /\ crossed \in SUBSET {"missed", "crossed", "overtaken"} /\ q.odd \subseteq crossed
        /\ q.playing => "crossed" \in crossed
        /\ missed \in SUBSET {"missed", "crossed", "overtaken"} /\ q.odd \subseteq missed
        /\ ~q.ended => "missed" \in missed
        /\ status \in {"suspended", "paused"}
        /\ rest \in {"none", "brief", "while", "long"}
        /\ crossed # q.odd => q.playing
    BY <1>2 DEF Player
  <1> HIDE DEF crossed, missed, status, rest
  <1>4. CASE q.status = "ended"
    BY <1>1, <1>2, <1>4 DEF Sound, Agrees, Onward
  <1>5. CASE q.status # "ended" /\ q.want /\ AtEndOfFile(q)
    <2>1. m \in Player /\ Alike(q, m) /\ m.odd = missed /\ m.pos = q.pos
      <3>1. m \in Player
        BY <1>2, <1>3 DEF Player
      <3> QED
        BY <1>2, <1>3, <3>1 DEF Alike, Player
    <2>2. /\ m.status = q.status
          /\ m.asked <=> q.asked
      BY <1>2 DEF Player
    <2> HIDE DEF m
    <2>3. Agrees(m)
      BY <1>3, <2>1, <2>2 DEF Agrees, Surprised
    <2> QED
      BY <1>1, <1>2, <1>5, <2>1, <2>2, <2>3, AlikeSound DEF Sound, Onward
  <1>6. CASE q.status # "ended" /\ ~(q.want /\ AtEndOfFile(q))
    <2>1. s \in Player
      BY <1>2, <1>3, ZenonT(40) DEF Player
    <2>2. /\ s.book <=> q.book
          /\ s.asked <=> q.asked
          /\ s.expect <=> q.expect
          /\ s.src <=> q.src
          /\ s.ready <=> q.ready
          /\ s.stale <=> q.stale
          /\ s.playing <=> q.playing
          /\ s.ended <=> q.ended
          /\ s.gesture <=> q.gesture
          /\ s.file = q.file /\ s.pos = q.pos /\ s.time = q.time
          /\ s.plays = q.plays /\ s.tasks = q.tasks /\ s.odd = crossed
          /\ s.seek = q.seek /\ s.status = status /\ ~s.want
          /\ s.rejected = q.rejected /\ s.pipe = q.pipe
      BY <1>2 DEF Player
    <2> HIDE DEF s
    <2>3. Surprised(q) => Surprised(s)
      BY <1>3, <2>2 DEF Surprised
    <2>4. Flags(s) /\ Bookless(s) /\ Rested(s)
      BY <1>3, <2>2 DEF Base, Flags, Element, Bookless, Rested, Settled, Owes
    <2>5. Queued(s) /\ EndAhead(s)
      BY <1>3, <2>2, <2>3 DEF Base, Queued, EndAhead
    <2>6. Wanted(s) /\ Promised(s) /\ Agrees(s)
      BY <1>3, <2>2 DEF Base, Wanted, Promised, Owed, Agrees
    <2>7. InFile(s) /\ Placed(s)
      BY <1>3, <2>2 DEF Base, InFile, Placed, Fits, Begin, Astray, Owes, Settled
    <2>8. Sound(s)
      BY <2>1, <2>4, <2>5, <2>6, <2>7 DEF Sound, Base
    <2>9. SyncPosition(s).asked <=> s.asked
      BY <2>1 DEF SyncPosition, Player
    <2>10. Onward(q, SyncPosition(s))
      <3>1. SyncPosition(s).pos = IF ~q.stale /\ q.ready THEN Begin(q) + q.time
                                  ELSE q.pos
        BY <2>1, <2>2 DEF SyncPosition, Player, Begin
      <3>2. ~q.stale /\ Settled(q) => Fits(q, q.time) \/ Astray(q)
        BY DEF Base, Placed
      <3> QED
        BY <1>2, <3>1, <3>2 DEF Fits, Onward, Settled
    <2> QED
      BY <1>1, <1>6, <2>2, <2>8, <2>9, <2>10, SyncPositionSound
  <1> QED
    BY <1>4, <1>5, <1>6

\* What an event says of the element, when it is its turn.
LEMMA TookSays ==
  ASSUME NEW q, Sound(q), q.tasks # <<>>
  PROVE  LET r == Took(q)
             x == Head(q.tasks)
         IN  /\ x[1] = "emptied" => x[2] = {}
             /\ x[1] \in Starts \cup {"end"} => ~r.expect
             /\ x[1] # "emptied" => r.book
             /\ ~r.book => r.expect
             /\ x[1] \in Starts => ~r.ended
             /\ x[1] \in Starts /\ ~r.playing => Surprised(r) \/ Owes(r, "pause")
             /\ x[1] = "pause" => r.asked
             /\ r.asked <=> q.asked
             /\ r.want <=> q.want
             /\ r.rejected = q.rejected /\ r.pos = q.pos /\ r.odd = q.odd
             /\ Owes(r, "metadata") => Owes(q, "metadata")
  <1> DEFINE s == q.tasks
             t == Tail(s)
             x == Head(s)
             r == Took(q)
  <1>1. q \in Player /\ s \in Seq(Task) /\ s # <<>>
    BY DEF Sound, Base, Player
  <1>2. /\ 1 \in DOMAIN s /\ x = s[1]
        /\ \A i \in DOMAIN t : i + 1 \in DOMAIN s /\ t[i] = s[i + 1]
        /\ \A i \in DOMAIN s : i = 1 \/ (i - 1 \in DOMAIN t /\ t[i - 1] = s[i])
        /\ DOMAIN s = 1..Len(s) /\ Len(s) \in Nat
    BY <1>1, TailIs, SMTT(25)
  <1> HIDE DEF t, x
  <1>3. /\ r.book <=> q.book
        /\ r.want <=> q.want
        /\ r.asked <=> q.asked
        /\ r.expect <=> q.expect
        /\ r.playing <=> q.playing
        /\ r.ended <=> q.ended
        /\ r.tasks = t /\ r.odd = q.odd /\ r.rejected = q.rejected /\ r.pos = q.pos
    BY <1>1 DEF Player, Took, t
  <1> HIDE DEF r
  <1>4. /\ s[1][1] = "emptied" => s[1][2] = {}
        /\ s[1][1] \in Starts \cup {"end"} => ~q.expect
        /\ s[1][1] \in Starts => ~q.ended
        /\ s[1][1] \in Starts /\ ~q.playing =>
             Surprised(q) \/ \E j \in DOMAIN s : 1 < j /\ s[j][1] = "pause"
        /\ s[1][1] = "pause" => q.asked
    <2>1. \A j \in DOMAIN s : ~(j < 1)
      BY <1>2
    <2> QED
      BY <1>2, <2>1 DEF Sound, Base, Queued
  <1>5. ~q.book => q.expect /\ s[1] = <<"emptied", {}>>
    BY <1>1, <1>2 DEF Sound, Base, Bookless
  <1>6. \A j \in DOMAIN s : 1 < j /\ s[j][1] = "pause" => Owes(r, "pause")
    BY <1>2, <1>3 DEF Owes
  <1>7. Surprised(q) => Surprised(r)
    BY <1>3 DEF Surprised
  <1>8. Owes(r, "metadata") => Owes(q, "metadata")
    BY <1>2, <1>3 DEF Owes
  <1> QED
    BY <1>2, <1>3, <1>4, <1>5, <1>6, <1>7, <1>8 DEF r, x, t

\* All that the engine's quickest handlers leave as it is.
Kept(t, r) ==
    /\ r.book <=> t.book
    /\ r.want <=> t.want
    /\ r.asked <=> t.asked
    /\ r.expect <=> t.expect
    /\ r.src <=> t.src
    /\ r.ready <=> t.ready
    /\ r.playing <=> t.playing
    /\ r.ended <=> t.ended
    /\ r.file = t.file /\ r.pos = t.pos /\ r.time = t.time /\ r.seek = t.seek
    /\ r.plays = t.plays /\ r.tasks = t.tasks /\ r.odd = t.odd /\ r.pipe = t.pipe

\* 'playing', and a promise that resolves.
LEMMA StartedSound ==
  ASSUME NEW q, Sound(q), q.tasks # <<>>, Head(q.tasks)[1] \in Starts,
         NEW r \in Player, Kept(Took(q), r), r.rejected = q.rejected,
         r.status \in {q.status, "playing"}, r.stale <=> q.stale
  PROVE  /\ Sound(r) /\ r.pos = q.pos
         /\ r.want <=> q.want
  <1> DEFINE t == Took(q)
  <1>1. /\ t \in Player /\ Flags(t) /\ Rested(t) /\ Queued(t)
        /\ Wanted(t) /\ InFile(t) /\ Placed(t)
        /\ ~(t.ended /\ t.status = "playing")
    BY TookIs DEF Starts
  <1>2. /\ ~t.expect /\ t.book /\ ~t.ended
        /\ ~t.playing => Surprised(t) \/ Owes(t, "pause")
        /\ t.want <=> q.want
        /\ t.pos = q.pos /\ t.rejected = q.rejected
    BY TookSays DEF Starts
  <1>3. t.status = q.status /\ (t.stale <=> q.stale) /\ Kept(t, r)
    BY DEF Took, Sound, Base, Player
  <1> HIDE DEF t
  <1>4. Flags(r) /\ Bookless(r) /\ Rested(r)
    BY <1>1, <1>2, <1>3 DEF Kept, Flags, Element, Bookless, Rested, Settled, Owes
  <1>5. Queued(r) /\ EndAhead(r)
    BY <1>1, <1>2, <1>3 DEF Kept, Queued, Surprised, EndAhead
  <1>6. Wanted(r) /\ Promised(r) /\ Agrees(r)
    BY <1>1, <1>2, <1>3 DEF Kept, Wanted, Promised, Agrees, Stops, Surprised, Owes
  <1>7. InFile(r) /\ Placed(r)
    BY <1>1, <1>3 DEF Kept, InFile, Placed, Fits, Begin, Astray, Owes, Settled
  <1> QED
    BY <1>2, <1>3, <1>4, <1>5, <1>6, <1>7 DEF Kept, Sound, Base

\* The 'pause' that comes just before 'ended', and is the end's own.
Stopped(q) ==
    IF q.ended /\ q.playing
    THEN OnPause([q EXCEPT !.playing = FALSE, !.rejected = q.plays, !.plays = {}])
    ELSE q

LEMMA PausedIn ==
  ASSUME NEW q \in Player, NEW pos \in Places,
         NEW status \in {"idle", "loading", "paused", "playing", "suspended", "ended"},
         NEW rest \in {"none", "brief", "while", "long"}
  PROVE  [q EXCEPT !.want = FALSE, !.status = status, !.rest = rest, !.pos = pos]
             \in Player
  BY ZenonT(40) DEF Player

LEMMA StoppedIs ==
  ASSUME NEW q \in Player, Flags(q), q.book, Rested(q), Queued(q), Wanted(q),
         Agrees(q), InFile(q), ~q.expect, q.rejected = {}
  PROVE  LET d == Stopped(q)
         IN  /\ d \in Player /\ Flags(d) /\ d.book /\ Rested(d) /\ Queued(d)
             /\ InFile(d) /\ ~d.expect /\ d.rejected = {} /\ d.file = q.file
             /\ d.want <=> q.want
             /\ d.ended => ~d.playing
             /\ ~d.want => Wanted(d) /\ Agrees(d)
  <1> DEFINE c == [q EXCEPT !.playing = FALSE, !.rejected = q.plays, !.plays = {}]
             status == IF q.status = "suspended" THEN q.status ELSE "paused"
             rest == IF q.status = "suspended" THEN q.rest ELSE "brief"
             pos == IF q.stale THEN q.pos ELSE q.file * Units + q.time
             s == [c EXCEPT !.want = FALSE, !.status = status, !.rest = rest,
                            !.pos = pos]
  <1>1. CASE ~(q.ended /\ q.playing)
    BY <1>1 DEF Stopped
  <1>2. CASE q.ended /\ q.playing
    <2>1. q.plays = {} /\ q.ready
      BY <1>2 DEF Flags, Element, Settled, Owes
    <2>2. c \in Player
      BY DEF Player
    <2>3. /\ c.book /\ ~c.playing /\ c.ended /\ c.ready /\ ~c.expect
          /\ c.want <=> q.want
          /\ c.src <=> q.src
          /\ c.stale <=> q.stale
          /\ c.asked <=> q.asked
          /\ c.status = q.status /\ c.file = q.file /\ c.pos = q.pos /\ c.time = q.time
          /\ c.plays = {} /\ c.rejected = {} /\ c.tasks = q.tasks /\ c.odd = q.odd
          /\ c.pipe = q.pipe
      BY <1>2, <2>1 DEF Player
    <2>4. Stopped(q) = IF q.status = "ended" \/ q.want THEN c ELSE s
      <3>1. Stopped(q) = OnPause(c)
        BY <1>2 DEF Stopped
      <3>2. s = IF q.stale THEN [c EXCEPT !.want = FALSE, !.status = status, !.rest = rest]
                ELSE [c EXCEPT !.want = FALSE, !.status = status, !.rest = rest,
                               !.pos = q.file * Units + q.time]
        BY <2>2, <2>3, ZenonT(40) DEF Player
      <3> DEFINE x == [c EXCEPT !.want = FALSE, !.status = status, !.rest = rest]
      <3>3. OnPause(c) = IF q.status = "ended" \/ q.want THEN c
                         ELSE SyncPosition(x)
        <4>1. c.odd = q.odd /\ [c EXCEPT !.odd = c.odd] = c
          BY <2>2, <2>3, ZenonT(40) DEF Player
        <4>2. [c EXCEPT !.want = FALSE, !.status = status, !.rest = rest, !.odd = c.odd] = x
          BY <2>2 DEF Player
        <4> HIDE DEF x
        <4>3. /\ status = IF c.status = "suspended" THEN c.status ELSE "paused"
              /\ rest = IF c.status = "suspended" THEN c.rest ELSE "brief"
          BY DEF Player
        <4> HIDE DEF c, status, rest
        <4> QED
          BY <2>2, <2>3, <4>1, <4>2, <4>3 DEF OnPause, AtEndOfFile
      <3>4. SyncPosition(x) = s
        BY <2>2, <2>3, <3>2 DEF SyncPosition, Player
      <3> QED
        BY <3>1, <3>3, <3>4
    <2>5. \A i \in DOMAIN q.tasks : q.tasks[i][1] \notin Starts
      BY <1>2 DEF Queued
    <2>6. q.file * Units \in Nat /\ q.file * Units + q.time \in Places /\ q.time \in 0..Units
      BY FilesFit DEF Player
    <2>7. pos \in Places /\ q.file * Units <= pos /\ pos <= q.file * Units + Units
      BY <2>6, PlayerAssumption DEF InFile, Begin, Player
    <2>8. status \in {"suspended", "paused"} /\ rest \in {"none", "brief", "while", "long"}
      BY DEF Player
    <2> HIDE DEF c, pos, status, rest
    <2>9. s \in Player
      <3>1. /\ pos \in Places
            /\ rest \in {"none", "brief", "while", "long"}
            /\ status \in {"idle", "loading", "paused", "playing", "suspended", "ended"}
        BY <2>7, <2>8
      <3> QED
        BY <2>2, <3>1, PausedIn
    <2>10. /\ s.book /\ ~s.playing /\ s.ended /\ s.ready /\ ~s.expect
           /\ ~s.want
           /\ s.src <=> q.src
           /\ s.asked <=> q.asked
           /\ s.status = status /\ s.file = q.file /\ s.pos = pos /\ s.time = q.time
           /\ s.plays = {} /\ s.rejected = {} /\ s.tasks = q.tasks /\ s.odd = q.odd
           /\ s.pipe = q.pipe
      BY <2>2, <2>3 DEF Player
    <2> HIDE DEF s
    <2>11. CASE q.status = "ended" \/ q.want
      <3>1. Flags(c) /\ Rested(c)
        BY <1>2, <2>3 DEF Flags, Element, Rested, Settled, Owes
      <3>4. InFile(c)
        BY <2>3 DEF InFile, Begin
      <3>2. Queued(c)
        BY <2>3, <2>5 DEF Queued
      <3>3. ~c.want => Wanted(c) /\ Agrees(c)
        BY <2>3, <2>11 DEF Wanted, Agrees
      <3> QED
        BY <2>2, <2>3, <2>4, <2>11, <3>1, <3>2, <3>3, <3>4
    <2>12. CASE q.status # "ended" /\ ~q.want
      <3>1. Flags(s) /\ Rested(s)
        BY <1>2, <2>10 DEF Flags, Element, Rested, Settled, Owes
      <3>4. InFile(s)
        BY <2>7, <2>10 DEF InFile, Begin
      <3>2. Queued(s)
        BY <2>5, <2>10 DEF Queued
      <3>3. Wanted(s) /\ Agrees(s)
        BY <2>8, <2>10 DEF Wanted, Agrees
      <3> QED
        BY <2>4, <2>9, <2>10, <2>12, <3>1, <3>2, <3>3, <3>4
    <2> QED
      BY <2>11, <2>12
  <1> QED
    BY <1>1, <1>2

LEMMA OnEndedSound ==
  ASSUME NEW q \in Player, Flags(q), q.book, Rested(q), Queued(q), Wanted(q),
         Agrees(q), InFile(q), ~q.expect, q.rejected = {}, NEW ok \in BOOLEAN
  PROVE  LET r == OnEnded(Stopped(q), ok)
         IN  /\ Sound(r) /\ r.pos >= q.pos
             /\ q.want => r.want \/ (r.status = "ended" /\ r.rejected = {})
  <1> DEFINE d == Stopped(q)
             r == OnEnded(d, ok)
  <1>1. /\ d \in Player /\ Flags(d) /\ d.book /\ Rested(d) /\ Queued(d)
        /\ InFile(d) /\ ~d.expect /\ d.rejected = {} /\ d.file = q.file
        /\ d.want <=> q.want
        /\ d.ended => ~d.playing
        /\ ~d.want => Wanted(d) /\ Agrees(d)
    BY StoppedIs
  <1> HIDE DEF d
  <1>2. /\ d.file \in 0..Files - 1 /\ d.file * Units \in Nat
        /\ (d.file + 1) * Units = d.file * Units + Units
        /\ Length \in Nat /\ d.file * Units + Units <= Length
        /\ d.file = Files - 1 <=> d.file * Units + Units = Length
        /\ q.pos \in Nat /\ q.pos <= d.file * Units + Units
    BY <1>1, FilesFit DEF Player, Places, InFile, Begin
  <1>3. CASE d.file = Files - 1
    <2> DEFINE odd == IF d.ended THEN d.odd ELSE d.odd \cup {"crossed"}
               x == [d EXCEPT !.status = "ended", !.want = FALSE, !.pos = Length,
                              !.odd = odd]
    <2>1. r = x
      BY <1>1, <1>3 DEF OnEnded, Player
    <2>2. /\ odd \in SUBSET {"missed", "crossed", "overtaken"} /\ d.odd \subseteq odd
          /\ ~d.ended => "crossed" \in odd
      BY <1>1 DEF Player
    <2>3. Length \in Places
      BY <1>2 DEF Places
    <2> HIDE DEF odd
    <2>4. x \in Player
      BY <1>1, <2>2, <2>3, ZenonT(40) DEF Player
    <2>5. /\ x.book /\ ~x.expect /\ ~x.want
          /\ x.asked <=> d.asked
          /\ x.src <=> d.src
          /\ x.ready <=> d.ready
          /\ x.playing <=> d.playing
          /\ x.ended <=> d.ended
          /\ x.file = d.file /\ x.pos = Length /\ x.time = d.time
          /\ x.plays = d.plays /\ x.tasks = d.tasks /\ x.odd = odd
          /\ x.status = "ended" /\ x.rejected = d.rejected /\ x.pipe = d.pipe
      BY <1>1 DEF Player
    <2> HIDE DEF x
    <2>6. Flags(x) /\ Bookless(x) /\ Rested(x)
      BY <1>1, <2>5 DEF Flags, Element, Bookless, Rested, Settled, Owes
    <2>7. Queued(x) /\ EndAhead(x)
      BY <1>1, <2>2, <2>5 DEF Queued, Surprised, EndAhead
    <2>8. Wanted(x) /\ Promised(x) /\ Agrees(x)
      BY <1>1, <2>2, <2>5 DEF Wanted, Promised, Agrees
    <2>9. InFile(x)
      BY <1>2, <1>3, <2>5, PlayerAssumption DEF InFile, Begin
    <2>10. Placed(x)
      <3>1. d.ended => d.ready /\ d.time = Units
        BY <1>1 DEF Flags, Element, Settled, Owes
      <3>2. CASE d.ended
        <4>1. Settled(x) /\ Begin(x) + x.time >= x.pos
          BY <1>1, <1>2, <1>3, <2>5, <3>1, <3>2 DEF Begin, Flags, Element, Settled, Owes
        <4> QED
          BY <4>1 DEF Placed, Fits
      <3>3. CASE ~d.ended
        BY <2>2, <2>5, <3>3 DEF Placed, Astray, Settled, Owes
      <3> QED
        BY <3>2, <3>3
    <2>11. x.pos >= q.pos
      BY <1>2, <1>3, <2>5
    <2> QED
      BY <1>1, <2>1, <2>4, <2>5, <2>6, <2>7, <2>8, <2>9, <2>10, <2>11
         DEF Sound, Base, d
  <1>4. CASE d.file # Files - 1
    <2> DEFINE pos == d.file * Units + Units
               y == [d EXCEPT !.file = d.file + 1, !.pos = pos]
               n == SetSrc(y, 0)
    <2>1. r = IF d.want THEN StartElement(n, "soft", ok) ELSE n
      BY <1>1, <1>2, <1>4 DEF OnEnded, Player
    <2>2. /\ d.file + 1 \in 0..Files - 1 /\ pos \in Places /\ 0 \in 0..Units
          /\ (d.file + 1) * Units = pos /\ pos \in Nat
      BY <1>2, <1>4, PlayerAssumption DEF Places
    <2> HIDE DEF pos
    <2>3. y \in Player /\ y.file = d.file + 1 /\ y.pos = pos
      BY <1>1, <2>2 DEF Player
    <2>4. /\ y.book
          /\ y.want <=> d.want
          /\ y.gesture <=> d.gesture
          /\ y.status = d.status /\ y.rejected = d.rejected
          /\ y.tasks = d.tasks /\ y.odd = d.odd
          /\ y.expect <=> d.expect
      BY <1>1 DEF Player
    <2> HIDE DEF y
    <2>5. Rested(y) /\ InFile(y) /\ Fits(y, 0)
      BY <1>1, <2>2, <2>3, <2>4, PlayerAssumption DEF Rested, InFile, Fits, Begin
    <2>6. Base(n)
      BY <2>2, <2>3, <2>4, <2>5, SetSrcBase
    <2>7. /\ Loading(n) /\ n.pos = pos /\ n.status = d.status
          /\ n.want <=> d.want
          /\ d.gesture => n.gesture
          /\ d.rejected \subseteq n.rejected
          /\ Stops(y) \/ Surprised(y) => Surprised(n)
      BY <2>2, <2>3, <2>4, SetSrcKeeps
    <2> HIDE DEF n
    <2>8. Stops(d) \/ Surprised(d) => Surprised(n)
      BY <2>4, <2>7 DEF Stops, Surprised, Owes
    <2>9. pos >= q.pos
      BY <1>2, <2>2 DEF pos
    <2>10. n \in Player /\ n.book /\ "soft" \in Calls
      BY <2>7 DEF Loading, Calls
    <2>11. CASE d.want
      <3>1. Sound(r) /\ r.want /\ r.pos = n.pos
        BY <2>1, <2>6, <2>7, <2>10, <2>11, StartBase, StartKeeps
      <3> QED
        BY <2>7, <2>9, <3>1 DEF d
    <2>12. CASE ~d.want
      <3>1. Sound(n)
        BY <1>1, <2>6, <2>7, <2>8, <2>12, SetSrcAgrees
      <3> QED
        BY <1>1, <2>1, <2>7, <2>9, <2>12, <3>1 DEF d
    <2> QED
      BY <2>11, <2>12
  <1> QED
    BY <1>3, <1>4

\* Every other event leaves a sound state but for what the engine is about to
\* make good: the place after a reset, and the promises the event rejects.
LEMMA TookWith ==
  ASSUME NEW q, Sound(q), q.tasks # <<>>, q.rejected = {},
         Head(q.tasks)[1] \notin {"end", "metadata"},
         NEW r \in Player, Kept(Took(q), r), r.status = q.status,
         q.stale \/ (Head(q.tasks)[1] = "emptied" /\ ~q.expect) => r.stale,
         q.gesture => r.gesture,
         Head(q.tasks)[2] # {} => r.gesture \/ r.rejected # {}
  PROVE  /\ Base(r) /\ ~(r.ended /\ r.status = "playing")
         /\ ~(Head(q.tasks)[1] = "pause"
              \/ (Head(q.tasks)[1] = "emptied" /\ ~q.expect)) => Agrees(r)
  <1> DEFINE t == Took(q)
             kind == Head(q.tasks)[1]
             calls == Head(q.tasks)[2]
  <1>1. /\ t \in Player /\ Flags(t) /\ Bookless(t) /\ Rested(t) /\ Queued(t)
        /\ Wanted(t) /\ InFile(t)
        /\ ~(kind = "emptied" /\ ~q.expect) => Placed(t)
        /\ ~(t.ended /\ t.status = "playing")
        /\ ~(kind = "pause" \/ (kind = "emptied" /\ ~q.expect)) => Agrees(t)
        /\ t.expect /\ t.playing /\ ~t.gesture =>
              t.rejected # {} \/ t.plays # {} \/ calls # {} \/ Owed(t) # {}
    BY TookIs
  <1>2. t.rejected = {}
    BY TookSays
  <1>3. /\ t.stale <=> q.stale
        /\ t.gesture <=> q.gesture
        /\ t.status = q.status
    BY DEF Took, Sound, Base, Player
  <1>4. Kept(t, r)
    OBVIOUS
  <1>5. /\ kind = "emptied" /\ ~q.expect => r.stale
        /\ calls # {} => r.gesture \/ r.rejected # {}
    OBVIOUS
  <1> HIDE DEF t, kind, calls
  <1>6. Flags(r) /\ Bookless(r) /\ Rested(r)
    <2>1. Element(r)
      BY <1>1, <1>3, <1>4 DEF Kept, Flags, Element, Settled, Owes
    <2>2. Bookless(r) /\ Rested(r)
      BY <1>1, <1>3, <1>4, ZenonT(60) DEF Kept, Bookless, Rested
    <2>3. Flags(r)
      BY <1>1, <1>4, <2>1, ZenonT(60) DEF Kept, Flags
    <2> QED
      BY <2>2, <2>3
  <1>7. Queued(r) /\ EndAhead(r) /\ ~(r.ended /\ r.status = "playing")
    BY <1>1, <1>3, <1>4 DEF Kept, Queued, Surprised, EndAhead
  <1>8. Wanted(r)
    BY <1>1, <1>4 DEF Kept, Wanted
  <1>9. Promised(r)
    BY <1>1, <1>2, <1>3, <1>4, <1>5 DEF Kept, Promised, Owed
  <1>10. InFile(r)
    BY <1>1, <1>4 DEF Kept, InFile, Begin
  <1>11. Placed(r)
    BY <1>1, <1>3, <1>4, <1>5 DEF Kept, Placed, Fits, Begin, Astray, Owes, Settled
  <1>12. ~(kind = "pause" \/ (kind = "emptied" /\ ~q.expect)) => Agrees(r)
    BY <1>1, <1>2, <1>3, <1>4 DEF Kept, Agrees, Stops, Surprised, Owes
  <1> QED
    BY <1>6, <1>7, <1>8, <1>9, <1>10, <1>11, <1>12 DEF Base, kind

\* 'loadedmetadata': the element takes the place that was waiting for it.
LEMMA OnMetadataSound ==
  ASSUME NEW q, Sound(q), q.tasks # <<>>, Head(q.tasks)[1] = "metadata"
  PROVE  LET r == OnMetadata(Took(q))
         IN  /\ Sound(r) /\ r.pos = q.pos /\ r.rejected = q.rejected
             /\ r.want <=> q.want
  <1> DEFINE s == q.tasks
             t == Tail(s)
             time == IF q.seek = None THEN q.time ELSE q.seek
             r == [q EXCEPT !.tasks = t, !.expect = FALSE, !.time = time, !.seek = None]
  <1>1. q \in Player /\ s \in Seq(Task) /\ s # <<>>
    BY DEF Sound, Base, Player
  <1>2. /\ t \in Seq(Task) /\ 1 \in DOMAIN s /\ s[1][1] = "metadata"
        /\ \A i \in DOMAIN t : i + 1 \in DOMAIN s /\ t[i] = s[i + 1] /\ i + 1 # 1
        /\ \A i \in DOMAIN s : i = 1 \/ (i - 1 \in DOMAIN t /\ t[i - 1] = s[i])
        /\ DOMAIN s \subseteq Nat /\ DOMAIN t \subseteq Nat
    <2>1. DOMAIN t = 1..Len(s) - 1
      BY <1>1
    <2>2. \A i \in DOMAIN t : i + 1 # 1
      BY <1>1, <2>1
    <2> QED
      BY <1>1, <2>2, TailIs
  <1>3. OnMetadata(Took(q)) = r
    BY <1>1 DEF OnMetadata, Took, Player
  <1>4. time \in 0..Units /\ (q.seek # None => time = q.seek)
    BY <1>1 DEF Player
  <1> HIDE DEF t, time
  <1>5. r \in Player
    BY <1>1, <1>2, <1>4 DEF Player
  <1>6. /\ ~r.expect /\ r.time = time /\ r.tasks = t
        /\ r.book <=> q.book
        /\ r.want <=> q.want
        /\ r.asked <=> q.asked
        /\ r.src <=> q.src
        /\ r.ready <=> q.ready
        /\ r.stale <=> q.stale
        /\ r.playing <=> q.playing
        /\ r.ended <=> q.ended
        /\ r.gesture <=> q.gesture
        /\ r.file = q.file /\ r.pos = q.pos /\ r.plays = q.plays /\ r.odd = q.odd
        /\ r.status = q.status /\ r.rejected = q.rejected /\ r.pipe = q.pipe
    BY <1>1 DEF Player
  <1> HIDE DEF r
  <1>7. Owes(q, "metadata")
    BY <1>2 DEF Owes
  <1>8. q.ready /\ q.src /\ q.book /\ ~q.ended /\ ~Owes(q, "emptied") /\ ~Settled(q)
    BY <1>7 DEF Sound, Base, Flags, Element, Settled
  <1>9. ~Owes(r, "metadata")
    <2>1. \A i \in DOMAIN t : t[i][1] # "metadata"
      BY <1>2 DEF Sound, Base, Queued
    <2> QED
      BY <1>6, <2>1 DEF Owes
  <1>10. /\ Owes(r, "emptied") => Owes(q, "emptied")
         /\ Owes(q, "pause") => Owes(r, "pause")
    <2>1. ASSUME NEW i \in DOMAIN s, s[i][1] = "pause" PROVE Owes(r, "pause")
      <3>1. i # 1
        BY <1>2, <2>1
      <3> QED
        BY <1>2, <1>6, <2>1, <3>1 DEF Owes
    <2> QED
      BY <1>2, <1>6, <2>1 DEF Owes
  <1>11. Flags(r) /\ Bookless(r) /\ Rested(r) /\ EndAhead(r)
    BY <1>6, <1>8, <1>9, <1>10
       DEF Sound, Base, Flags, Element, Settled, Bookless, Rested, EndAhead
  <1>12. Queued(r)
    <2> SUFFICES ASSUME NEW i \in DOMAIN t
                 PROVE  /\ t[i][1] = "emptied" => t[i][2] = {}
                        /\ t[i][1] # "metadata"
                        /\ t[i][1] \in Starts /\ ~q.playing =>
                             \/ Surprised(q)
                             \/ \E j \in DOMAIN t : i < j /\ t[j][1] = "pause"
                        /\ t[i][1] = "pause" => q.asked
      BY <1>6, <1>8 DEF Queued, Surprised
    <2>1. i + 1 \in DOMAIN s /\ t[i] = s[i + 1] /\ i \in Nat
      BY <1>2
    <2>2. \A j \in DOMAIN s : i + 1 < j => j - 1 \in DOMAIN t /\ t[j - 1] = s[j] /\ i < j - 1
      <3> TAKE j \in DOMAIN s
      <3> HAVE i + 1 < j
      <3>1. j \in Nat /\ j # 1
        BY <1>2, <2>1
      <3> QED
        BY <1>2, <2>1, <3>1
    <2>3. t[i][1] # "metadata"
      BY <1>6, <1>9 DEF Owes
    <2>4. /\ s[i + 1][1] = "emptied" => s[i + 1][2] = {}
          /\ s[i + 1][1] \in Starts /\ ~q.playing =>
               Surprised(q) \/ \E j \in DOMAIN s : i + 1 < j /\ s[j][1] = "pause"
          /\ s[i + 1][1] = "pause" => q.asked
      BY <2>1 DEF Sound, Base, Queued
    <2> QED
      BY <2>1, <2>2, <2>3, <2>4
  <1>13. Wanted(r) /\ Promised(r)
    BY <1>6 DEF Sound, Base, Wanted, Promised
  <1>14. Agrees(r)
    BY <1>6, <1>8, <1>10 DEF Sound, Agrees, Stops, Surprised
  <1>15. InFile(r)
    BY <1>6 DEF Sound, Base, InFile, Begin
  <1>16. Placed(r)
    <2>1. ~q.stale => (q.seek # None /\ Fits(q, q.seek)) \/ Astray(q)
      BY <1>8 DEF Sound, Base, Placed
    <2>2. Settled(r)
      BY <1>6, <1>8, <1>9 DEF Settled
    <2> QED
      BY <1>4, <1>6, <2>1, <2>2 DEF Placed, Fits, Begin, Astray
  <1>17. Sound(r)
    BY <1>5, <1>11, <1>12, <1>13, <1>14, <1>15, <1>16 DEF Sound, Base
  <1> QED
    BY <1>3, <1>6, <1>17

\* What a step of the player keeps, when it is not the listener's move.
Goes(q, r) == Sound(r) /\ r.rejected = {} /\ Onward(q, r) /\ Willing(q, r)

LEMMA Small ==
  ASSUME NEW q \in Player
  PROVE  /\ LET r == [q EXCEPT !.stale = TRUE]
            IN  /\ r \in Player /\ Kept(q, r) /\ r.status = q.status /\ r.stale
                /\ r.gesture <=> q.gesture
                /\ OnElementReset(r) = OnElementReset(q) \/ ~q.book
         /\ LET r == [q EXCEPT !.gesture = TRUE]
            IN  /\ r \in Player /\ Kept(q, r) /\ r.status = q.status /\ r.gesture
                /\ r.stale <=> q.stale
                /\ Suspend(r) = Suspend(q)
         /\ LET r == [q EXCEPT !.gesture = FALSE]
            IN  /\ r \in Player /\ Kept(q, r) /\ r.status = q.status
                /\ r.stale <=> q.stale
                /\ r.rejected = q.rejected
         /\ LET r == OnPlaying(q)
            IN  /\ r \in Player /\ Kept(q, r) /\ r.status = "playing"
                /\ r.stale <=> q.stale
                /\ r.rejected = q.rejected
  <1>1. LET r == [q EXCEPT !.stale = TRUE]
        IN  /\ r \in Player /\ Kept(q, r) /\ r.status = q.status /\ r.stale
            /\ r.gesture <=> q.gesture
            /\ OnElementReset(r) = OnElementReset(q) \/ ~q.book
    <2> DEFINE r == [q EXCEPT !.stale = TRUE]
    <2>1. r \in Player
      BY DEF Player
    <2>2. Kept(q, r) /\ r.status = q.status /\ r.stale /\ (r.gesture <=> q.gesture)
      BY DEF Kept, Player
    <2>3. OnElementReset(r) = OnElementReset(q) \/ ~q.book
      BY ZenonT(40) DEF OnElementReset, Player
    <2> QED
      BY <2>1, <2>2, <2>3
  <1>2. LET r == [q EXCEPT !.gesture = TRUE]
        IN  /\ r \in Player /\ Kept(q, r) /\ r.status = q.status /\ r.gesture
            /\ r.stale <=> q.stale
            /\ Suspend(r) = Suspend(q)
    <2> DEFINE r == [q EXCEPT !.gesture = TRUE]
    <2>1. r \in Player
      BY DEF Player
    <2>2. Kept(q, r) /\ r.status = q.status /\ r.gesture /\ (r.stale <=> q.stale)
      BY DEF Kept, Player
    <2>3. Suspend(r) = Suspend(q)
      BY DEF Suspend, Player
    <2> QED
      BY <2>1, <2>2, <2>3
  <1>3. LET r == [q EXCEPT !.gesture = FALSE]
        IN  /\ r \in Player /\ Kept(q, r) /\ r.status = q.status
            /\ r.stale <=> q.stale
            /\ r.rejected = q.rejected
    <2> DEFINE r == [q EXCEPT !.gesture = FALSE]
    <2>1. r \in Player
      BY DEF Player
    <2>2. /\ Kept(q, r) /\ r.status = q.status /\ r.rejected = q.rejected
          /\ r.stale <=> q.stale
      BY DEF Kept, Player
    <2> QED
      BY <2>1, <2>2
  <1>4. LET r == OnPlaying(q)
        IN  /\ r \in Player /\ Kept(q, r) /\ r.status = "playing"
            /\ r.stale <=> q.stale
            /\ r.rejected = q.rejected
    <2>1. OnPlaying(q) \in Player
      BY DEF OnPlaying, Player
    <2>2. /\ Kept(q, OnPlaying(q)) /\ OnPlaying(q).status = "playing"
          /\ OnPlaying(q).rejected = q.rejected
          /\ OnPlaying(q).stale <=> q.stale
      BY DEF OnPlaying, Kept, Player
    <2> QED
      BY <2>1, <2>2
  <1> QED
    BY <1>1, <1>2, <1>3, <1>4

LEMMA Rejecting ==
  ASSUME NEW q \in Player, NEW calls \in SUBSET Calls
  PROVE  LET r == [q EXCEPT !.rejected = calls]
         IN  /\ r \in Player /\ Kept(q, r) /\ r.status = q.status /\ r.rejected = calls
             /\ r.stale <=> q.stale
             /\ r.gesture <=> q.gesture
             /\ OnPause(r) = [OnPause(q) EXCEPT !.rejected = calls]
  <1> DEFINE r == [q EXCEPT !.rejected = calls]
  <1>1. r \in Player
    BY DEF Player
  <1>2. /\ Kept(q, r) /\ r.status = q.status /\ r.rejected = calls
        /\ r.stale <=> q.stale
        /\ r.gesture <=> q.gesture
    BY DEF Kept, Player
  <1>3. OnPause(r) = [OnPause(q) EXCEPT !.rejected = calls]
    <2> DEFINE status == IF q.status = "suspended" THEN q.status ELSE "paused"
               rest == IF q.status = "suspended" THEN q.rest ELSE "brief"
               crossed == IF q.playing THEN q.odd \cup {"crossed"} ELSE q.odd
               missed == IF q.ended THEN q.odd ELSE q.odd \cup {"missed"}
               pos == IF ~q.stale /\ q.ready THEN q.file * Units + q.time ELSE q.pos
               Stop(x) == [x EXCEPT !.want = FALSE, !.status = status, !.rest = rest,
                                    !.odd = crossed, !.pos = pos]
               Miss(x) == [x EXCEPT !.odd = missed]
    <2>1. OnPause(q) = IF ~q.book \/ q.status = "ended" THEN q
                       ELSE IF q.want /\ AtEndOfFile(q) THEN Miss(q)
                       ELSE Stop(q)
      <3>1. SyncPosition([q EXCEPT !.want = FALSE, !.status = status, !.rest = rest,
                                   !.odd = crossed]) = Stop(q)
        <4> HIDE DEF status, rest, crossed
        <4> QED
          BY DEF SyncPosition, Player
      <3> QED
        BY <3>1 DEF OnPause, Player
    <2>2. OnPause(r) = IF ~q.book \/ q.status = "ended" THEN r
                       ELSE IF q.want /\ AtEndOfFile(q) THEN Miss(r)
                       ELSE Stop(r)
      <3>1. /\ r.rest = q.rest
            /\ AtEndOfFile(r) <=> AtEndOfFile(q)
        BY DEF AtEndOfFile, Player
      <3>2. SyncPosition([r EXCEPT !.want = FALSE, !.status = status, !.rest = rest,
                                   !.odd = crossed]) = Stop(r)
        <4> HIDE DEF status, rest, crossed
        <4> QED
          BY DEF SyncPosition, Player
      <3> HIDE DEF r
      <3>3. /\ status = IF r.status = "suspended" THEN r.status ELSE "paused"
            /\ rest = IF r.status = "suspended" THEN r.rest ELSE "brief"
            /\ crossed = IF r.playing THEN r.odd \cup {"crossed"} ELSE r.odd
            /\ missed = IF r.ended THEN r.odd ELSE r.odd \cup {"missed"}
        BY <1>2, <3>1 DEF Kept
      <3>4. /\ r.book <=> q.book
            /\ r.want <=> q.want
            /\ r.status = q.status
        BY <1>2 DEF Kept
      <3> HIDE DEF status, rest, crossed, missed
      <3>5. OnPause(r) =
              IF ~r.book \/ r.status = "ended" THEN r
              ELSE IF r.want /\ AtEndOfFile(r) THEN Miss(r)
              ELSE SyncPosition([r EXCEPT !.want = FALSE, !.status = status,
                                          !.rest = rest, !.odd = crossed])
        BY <1>1, <3>3 DEF OnPause, Player
      <3> HIDE DEF Stop, Miss
      <3> QED
        BY <3>1, <3>2, <3>4, <3>5
    <2> HIDE DEF status, rest, crossed, missed, pos
    <2>3. /\ Miss(r) = [Miss(q) EXCEPT !.rejected = calls]
          /\ Stop(r) = [Stop(q) EXCEPT !.rejected = calls]
      BY DEF Player
    <2> HIDE DEF Miss, Stop
    <2> QED
      BY <2>1, <2>2, <2>3
  <1> QED
    BY <1>1, <1>2, <1>3

LEMMA HandleTaskGoes ==
  ASSUME PlayerInv, NEW ok \in BOOLEAN, HandleTask(ok)
  PROVE  Goes(p, p')
  <1> DEFINE kind == Head(p.tasks)[1]
             calls == Head(p.tasks)[2]
             q == Took(p)
             settled == IF "play" \in calls THEN [q EXCEPT !.gesture = FALSE] ELSE q
             result == CASE kind = "emptied" -> IF p.expect THEN q ELSE OnElementReset(q)
                         [] kind = "metadata" -> OnMetadata(q)
                         [] kind = "playing" -> OnPlaying(settled)
                         [] kind = "resolved" -> settled
                         [] kind = "pause" -> [OnPause(q) EXCEPT !.rejected = calls]
                         [] kind = "end" -> OnEnded(Stopped(q), ok)
                         [] kind = "error" -> Suspend(q)
  <1>1. Sound(p) /\ p.tasks # <<>> /\ p.rejected = {} /\ p \in Player
        /\ p.pos \in Nat
    BY DEF PlayerInv, HandleTask, Sound, Base, Player, Places
  <1>2. /\ kind \in Kinds /\ calls \in SUBSET Calls
        /\ q \in Player /\ Rested(q) /\ Wanted(q) /\ InFile(q)
        /\ kind # "metadata" => Flags(q) /\ Queued(q)
        /\ kind = "end" => Agrees(q)
    BY <1>1, TookIs
  <1>3. /\ kind = "emptied" => calls = {}
        /\ kind \in Starts \cup {"end"} => ~q.expect
        /\ kind # "emptied" => q.book
        /\ ~q.book => q.expect
        /\ kind = "pause" => q.asked
        /\ q.asked <=> p.asked
        /\ q.want <=> p.want
        /\ q.rejected = {} /\ q.pos = p.pos /\ q.odd = p.odd
        /\ Owes(q, "metadata") => Owes(p, "metadata")
    BY <1>1, TookSays
  <1>4. /\ q.stale <=> p.stale
        /\ q.gesture <=> p.gesture
        /\ q.expect <=> p.expect
        /\ q.status = p.status /\ q.file = p.file /\ q.time = p.time
    BY <1>1 DEF Took, Player
  <1>5. p' = Caught(result)
    BY DEF HandleTask, Took, Stopped
  <1> SUFFICES /\ Sound(result) /\ Onward(p, result)
               /\ p.want /\ ~result.want =>
                    p.asked \/ (result.status = "ended" /\ result.rejected = {})
    <2> HIDE DEF result
    <2> QED
      BY <1>5, CaughtSound DEF Goes, Onward, Willing
  <1> HIDE DEF q
  <1>6. CASE kind = "emptied" /\ p.expect
    <2>1. result = q
      BY <1>6
    <2>2. Kept(q, q)
      BY DEF Kept
    <2>3. Base(q) /\ Agrees(q)
      BY <1>1, <1>2, <1>3, <1>4, <1>6, <2>2, TookWith DEF q
    <2> HIDE DEF result
    <2> QED
      BY <1>1, <1>3, <2>1, <2>3 DEF Sound, Onward
  <1>7. CASE kind = "emptied" /\ ~p.expect
    <2> DEFINE y == [q EXCEPT !.stale = TRUE]
    <2>1. /\ y \in Player /\ Kept(q, y) /\ y.status = q.status /\ y.stale
          /\ q.gesture => y.gesture
          /\ OnElementReset(y) = OnElementReset(q) \/ ~q.book
      BY <1>2, Small
    <2>2. result = OnElementReset(q) /\ q.book
      BY <1>3, <1>4, <1>7
    <2> HIDE DEF y, result
    <2>3. OnElementReset(q) = OnElementReset(y) /\ y.book
      BY <2>1, <2>2 DEF Kept
    <2>4. Base(y)
      BY <1>1, <1>3, <1>4, <1>7, <2>1, TookWith DEF q
    <2>5. /\ result \in Player /\ Alike(y, result) /\ result.status # "playing"
      BY <2>1, <2>2, <2>3, ResetAlike
    <2>6. Sound(result)
      BY <2>4, <2>5, AlikeSound DEF Sound, Agrees
    <2> QED
      BY <1>1, <1>3, <2>1, <2>5, <2>6 DEF Onward, Alike, Kept
  <1>8. CASE kind \in Starts
    <2>1. /\ settled \in Player /\ Kept(q, settled) /\ settled.status = q.status
          /\ settled.rejected = q.rejected
          /\ settled.stale <=> q.stale
      <3>1. Kept(q, q)
        BY DEF Kept
      <3> QED
        BY <1>2, <3>1, Small
    <2> HIDE DEF settled
    <2>2. result = IF kind = "playing" THEN OnPlaying(settled) ELSE settled
      BY <1>8 DEF Starts
    <2> HIDE DEF result
    <2>3. /\ OnPlaying(settled) \in Player /\ Kept(settled, OnPlaying(settled))
          /\ OnPlaying(settled).status = "playing"
          /\ OnPlaying(settled).rejected = settled.rejected
          /\ OnPlaying(settled).stale <=> settled.stale
      BY <2>1, Small
    <2>4. /\ result \in Player /\ Kept(q, result) /\ result.rejected = p.rejected
          /\ result.status \in {p.status, "playing"}
          /\ result.stale <=> p.stale
      BY <1>1, <1>3, <1>4, <2>1, <2>2, <2>3 DEF Kept
    <2>5. Sound(result) /\ result.pos = p.pos /\ (result.want <=> p.want)
      BY <1>1, <1>8, <2>4, StartedSound DEF q
    <2> QED
      BY <1>1, <2>5 DEF Onward
  <1>9. CASE kind = "pause"
    <2> DEFINE y == [q EXCEPT !.rejected = calls]
    <2>1. /\ y \in Player /\ Kept(q, y) /\ y.status = q.status /\ y.rejected = calls
          /\ y.stale <=> q.stale
          /\ y.gesture <=> q.gesture
          /\ OnPause(y) = [OnPause(q) EXCEPT !.rejected = calls]
      BY <1>2, Rejecting
    <2>2. result = OnPause(y)
      BY <1>9, <2>1
    <2> HIDE DEF y, result
    <2>3. Base(y) /\ ~(y.ended /\ y.status = "playing")
      BY <1>1, <1>3, <1>4, <1>9, <2>1, TookWith DEF q
    <2>4. /\ p.asked /\ y.book /\ y.pos = p.pos /\ y.odd = p.odd
          /\ Owes(y, "metadata") => Owes(p, "metadata")
          /\ Begin(y) + y.time = Begin(p) + p.time
      BY <1>3, <1>4, <1>9, <2>1 DEF Kept, Owes, Begin
    <2> QED
      BY <2>2, <2>3, <2>4, OnPauseSound DEF Onward, Astray
  <1>10. CASE kind = "end"
    <2>1. result = OnEnded(Stopped(q), ok)
      BY <1>10
    <2> HIDE DEF result
    <2> QED
      BY <1>2, <1>3, <1>10, <2>1, OnEndedSound DEF Onward
  <1>11. CASE kind = "error"
    <2> DEFINE y == [q EXCEPT !.gesture = TRUE]
    <2>1. /\ y \in Player /\ Kept(q, y) /\ y.status = q.status /\ y.gesture
          /\ y.stale <=> q.stale
          /\ Suspend(y) = Suspend(q)
      BY <1>2, Small
    <2>2. result = Suspend(y)
      BY <1>11, <2>1
    <2> HIDE DEF y, result
    <2>3. Base(y) /\ Agrees(y)
      BY <1>1, <1>4, <1>11, <2>1, TookWith DEF q
    <2>4. result \in Player /\ Alike(y, result)
      BY <2>1, <2>2, SuspendAlike
    <2>5. Sound(result)
      BY <2>3, <2>4, AlikeSound DEF Sound
    <2> QED
      BY <1>1, <1>3, <2>1, <2>4, <2>5 DEF Onward, Alike, Kept
  <1>12. CASE kind = "metadata"
    <2>1. result = OnMetadata(q)
      BY <1>12
    <2> HIDE DEF result
    <2> QED
      BY <1>1, <1>12, <2>1, OnMetadataSound DEF q, Onward
  <1> QED
    BY <1>2, <1>6, <1>7, <1>8, <1>9, <1>10, <1>11, <1>12 DEF Kinds, Starts

-----------------------------------------------------------------------------
(* The other actions.                                                      *)

LEMMA AlikeGoes ==
  ASSUME NEW q, Sound(q), NEW r \in Player, Alike(q, r), r.rejected = {}
  PROVE  Goes(q, r)
  <1>1. q.pos \in Nat /\ r.pos = q.pos
    BY DEF Sound, Base, Player, Places, Alike
  <1>2. Sound(r)
    BY AlikeSound DEF Sound
  <1> QED
    BY <1>1, <1>2 DEF Goes, Onward, Willing, Alike

LEMMA CaughtGoes ==
  ASSUME NEW q, NEW r, Sound(r), Onward(q, r),
         q.want /\ ~r.want => q.asked \/ r.asked \/ ~r.book
  PROVE  Goes(q, Caught(r))
  BY CaughtSound DEF Goes, Onward, Willing

LEMMA StaysGoes ==
  ASSUME NEW q, Sound(q), q.rejected = {}
  PROVE  Goes(q, q)
  BY DEF Goes, Onward, Willing, Sound, Base, Player, Places

LEMMA MovesGo ==
  ASSUME PlayerInv, Moves
  PROVE  Sound(p') /\ p'.rejected = {} /\ Willing(p, p')
  <1>1. Sound(p) /\ p \in Player /\ p.rejected = {}
    BY DEF PlayerInv, Sound, Base
  <1>2. ASSUME NEW place \in Places, Restore(place)
        PROVE  Sound(p') /\ p'.rejected = {} /\ Willing(p, p')
    <2> DEFINE l == LoadBook(p, place)
               r == [l EXCEPT !.status = "paused"]
    <2>1. Sound(l) /\ l.book
      BY <1>1, LoadSound
    <2> HIDE DEF l
    <2>2. r \in Player /\ r.book
      BY <2>1 DEF Sound, Base, Player
    <2>3. Alike(l, r)
      BY <2>1 DEF Sound, Base, Player, Alike
    <2> HIDE DEF r
    <2>4. Sound(r)
      BY <2>1, <2>2, <2>3, AlikeSound DEF Sound
    <2>5. p' = Caught(r) /\ ~p.book
      BY <1>2 DEF Restore, r, l
    <2>6. ~p.want
      BY <1>1, <2>5 DEF Sound, Base, Bookless
    <2> QED
      BY <2>4, <2>5, <2>6, CaughtSound DEF Willing
  <1>3. ASSUME NEW place \in Places, NEW ok \in BOOLEAN, Load(place, ok)
        PROVE  Sound(p') /\ p'.rejected = {} /\ Willing(p, p')
    <2>1. p' = Caught(Play(LoadBook(p, place), TRUE, ok))
      BY <1>3 DEF Load
    <2>2. Sound(LoadBook(p, place)) /\ LoadBook(p, place).book
      BY <1>1, LoadSound
    <2>3. /\ Sound(Play(LoadBook(p, place), TRUE, ok))
          /\ Play(LoadBook(p, place), TRUE, ok).want
      BY <2>2, PlaySound
    <2> QED
      BY <2>1, <2>3, CaughtSound DEF Willing
  <1>4. ASSUME NEW place \in Places, NEW ok \in BOOLEAN, Seek(place, ok)
        PROVE  Sound(p') /\ p'.rejected = {} /\ Willing(p, p')
    <2>1. p' = Caught(SeekTo(p, place, ok)) /\ p.book
      BY <1>4 DEF Seek
    <2>2. Loose(p)
      BY <1>1, <2>1 DEF Sound, Base, Loose
    <2> QED
      BY <2>1, <2>2, SeekToSound, CaughtSound DEF Willing
  <1>5. ASSUME NEW ok \in BOOLEAN, PressPlay(ok)
        PROVE  Sound(p') /\ p'.rejected = {} /\ Willing(p, p')
    <2>1. p' = Caught(Play(p, FALSE, ok)) /\ p.book
      BY <1>5 DEF PressPlay
    <2>2. Sound(Play(p, FALSE, ok)) /\ Play(p, FALSE, ok).want
      BY <1>1, <2>1, PlaySound
    <2> QED
      BY <2>1, <2>2, CaughtSound DEF Willing
  <1>6. ASSUME NEW finished \in BOOLEAN, MarkFinished(finished)
        PROVE  Sound(p') /\ p'.rejected = {} /\ Willing(p, p')
    <2>1. CASE finished
      <3>1. p' = Caught(Finish(p)) /\ p.book
        BY <1>6, <2>1 DEF MarkFinished
      <3> QED
        BY <1>1, <3>1, FinishSound, CaughtSound DEF Willing
    <2>2. CASE ~finished
      <3> DEFINE status == IF p.status = "ended" THEN "paused" ELSE p.status
                 r == [p EXCEPT !.status = status]
      <3>1. p' = r /\ p.book
        BY <1>1, <1>6, <2>2 DEF MarkFinished, Player
      <3>2. status = p.status \/ status = "paused"
        OBVIOUS
      <3> HIDE DEF status
      <3>3. r \in Player /\ r.rejected = {}
        BY <1>1, <3>2 DEF Player
      <3>4. Alike(p, r)
        BY <1>1, <3>1, <3>2 DEF Player, Alike
      <3> HIDE DEF r
      <3> QED
        BY <1>1, <3>1, <3>3, <3>4, AlikeGoes DEF Goes
    <2> QED
      BY <1>6, <2>1, <2>2
  <1>7. ASSUME Unload
        PROVE  Sound(p') /\ p'.rejected = {} /\ Willing(p, p')
    <2>1. p' = Caught(UnloadBook(p))
      BY <1>7 DEF Unload
    <2> QED
      BY <1>1, <2>1, UnloadSound, CaughtSound DEF Willing
  <1> QED
    BY <1>2, <1>3, <1>4, <1>5, <1>6, <1>7 DEF Moves

\* The listener's pause, the timers and the page.
LEMMA EngineGoes ==
  ASSUME PlayerInv,
         \/ PressPause
         \/ \E mode \in {"off", "minutes", "chapter"} : SetSleep(mode)
         \/ PlayTimeout \/ Watchdog \/ FadeTick \/ SleepTick \/ RestOn
         \/ Hide \/ StayAway \/ \E ok \in BOOLEAN : Show(ok)
  PROVE  Goes(p, p')
  <1>1. Sound(p) /\ p \in Player /\ p.rejected = {} /\ p.pos \in Nat
    BY DEF PlayerInv, Sound, Base, Player, Places
  <1> DEFINE quiet == [p EXCEPT !.fade = FALSE]
             silent == [p EXCEPT !.timer = FALSE]
  <1>2. /\ quiet \in Player /\ Alike(p, quiet) /\ quiet.rejected = {}
        /\ quiet.pos = p.pos
    <2>1. quiet \in Player
      BY <1>1 DEF Player
    <2> QED
      BY <1>1, <2>1, SMTT(20) DEF Player, Alike
  <1>3. /\ silent \in Player /\ Alike(p, silent) /\ silent.rejected = {}
    <2>1. silent \in Player
      BY <1>1 DEF Player
    <2> QED
      BY <1>1, <2>1 DEF Player, Alike
  <1>4. Sound(quiet)
    BY <1>1, <1>2, AlikeSound DEF Sound
  <1> HIDE DEF quiet, silent
  <1>5. Goes(p, Caught(Pause(p))) /\ Goes(p, Caught(Pause(quiet)))
    <2>1. /\ Sound(Pause(p)) /\ Pause(p).asked /\ Pause(p).pos = p.pos
          /\ Sound(Pause(quiet)) /\ Pause(quiet).asked /\ Pause(quiet).pos = p.pos
      BY <1>1, <1>2, <1>4, PauseSound
    <2> QED
      BY <1>1, <2>1, CaughtGoes DEF Onward
  <1>6. Goes(p, p) /\ Goes(p, quiet) /\ Goes(p, silent)
    BY <1>1, <1>2, <1>3, AlikeGoes, StaysGoes
  <1>7. ASSUME PressPause PROVE Goes(p, p')
    BY <1>5, <1>7 DEF PressPause
  <1>8. ASSUME NEW mode \in {"off", "minutes", "chapter"}, SetSleep(mode)
        PROVE  Goes(p, p')
    BY <1>6, <1>8 DEF SetSleep, quiet
  <1>9. ASSUME PlayTimeout PROVE Goes(p, p')
    <2> DEFINE r == Suspend([silent EXCEPT !.reload = TRUE])
    <2>1. p' = silent \/ p' = r
      BY <1>9 DEF PlayTimeout, silent
    <2>2. r \in Player /\ r.rejected = {}
      BY <1>3 DEF Suspend, Player
    <2>3. Alike(p, r)
      BY <1>1 DEF silent, Suspend, Player, Alike
    <2> HIDE DEF r
    <2> QED
      BY <1>1, <1>6, <2>1, <2>2, <2>3, AlikeGoes
  <1>10. ASSUME Watchdog PROVE Goes(p, p')
    <2>1. p' = Suspend(p)
      BY <1>10 DEF Watchdog
    <2>2. Suspend(p).rejected = {}
      BY <1>1 DEF Suspend, Player
    <2> QED
      BY <1>1, <2>1, <2>2, SuspendAlike, AlikeGoes
  <1>11. ASSUME FadeTick PROVE Goes(p, p')
    BY <1>5, <1>11 DEF FadeTick, quiet
  <1>12. ASSUME SleepTick PROVE Goes(p, p')
    <2>1. CASE Fire
      <3>1. CASE p.status = "playing"
        <4> DEFINE r == [p EXCEPT !.fade = TRUE]
        <4>1. p' = Caught(r)
          BY <2>1, <3>1 DEF Fire
        <4>2. r \in Player /\ r.pos = p.pos /\ Alike(p, r)
          <5>1. r \in Player
            BY <1>1 DEF Player
          <5> QED
            BY <1>1, <5>1, SMTT(20) DEF Player, Alike
        <4> HIDE DEF r
        <4>3. Sound(r)
          BY <1>1, <4>2, AlikeSound DEF Sound
        <4> QED
          BY <1>1, <4>1, <4>2, <4>3, CaughtGoes DEF Onward, Alike
      <3>2. CASE p.status # "playing"
        BY <1>5, <2>1, <3>2 DEF Fire, quiet
      <3> QED
        BY <3>1, <3>2
    <2>2. CASE ~Fire
      <3>1. p' = p
        BY <1>12, <2>2 DEF SleepTick
      <3> QED
        BY <1>6, <3>1
    <2> QED
      BY <2>1, <2>2
  <1>13. ASSUME RestOn PROVE Goes(p, p')
    <2> DEFINE rest == IF p.rest = "brief" THEN "while" ELSE "long"
               r == [p EXCEPT !.rest = rest]
    <2>1. p' = r
      BY <1>1, <1>13 DEF RestOn, Player
    <2>2. rest \in {"none", "brief", "while", "long"}
      OBVIOUS
    <2> HIDE DEF rest
    <2>3. r \in Player /\ r.rejected = {}
      BY <1>1, <2>2 DEF Player
    <2>4. Alike(p, r)
      BY <1>1 DEF Player, Alike
    <2> HIDE DEF r
    <2> QED
      BY <1>1, <2>1, <2>3, <2>4, AlikeGoes
  <1>14. Goes(p, SyncPosition(p)) /\ SyncPosition(p).status = p.status
    <2>1. Sound(SyncPosition(p)) /\ Onward(p, SyncPosition(p))
      BY <1>1, SyncPositionSound DEF Onward
    <2>2. /\ SyncPosition(p).rejected = {} /\ SyncPosition(p).status = p.status
          /\ SyncPosition(p).want <=> p.want
      BY <1>1 DEF SyncPosition, Player
    <2> QED
      BY <2>1, <2>2 DEF Goes, Willing
  <1>15. ASSUME Hide PROVE Goes(p, p')
    BY <1>6, <1>14, <1>15 DEF Hide
  <1>16. ASSUME StayAway PROVE Goes(p, p')
    <2> DEFINE r == [p EXCEPT !.pipe = "dead"]
    <2>1. p' = p \/ p' = r
      BY <1>16 DEF StayAway
    <2>2. r \in Player /\ r.rejected = {}
      BY <1>1 DEF Player
    <2>3. Alike(p, r)
      BY <1>1 DEF Player, Alike
    <2> HIDE DEF r
    <2> QED
      BY <1>1, <1>6, <2>1, <2>2, <2>3, AlikeGoes
  <1>17. ASSUME NEW ok \in BOOLEAN, Show(ok) PROVE Goes(p, p')
    <2> DEFINE y == SyncPosition(p)
               reload == y.reload \/ page = "away"
               s == [y EXCEPT !.reload = reload]
    <2>1. \/ p' = p \/ p' = s
          \/ p' = Caught(Play(s, TRUE, ok)) /\ p.book /\ p.want
      BY <1>17 DEF Show
    <2>2. y \in Player /\ Sound(y) /\ y.rejected = {} /\ Onward(p, y) /\ Willing(p, y)
          /\ y.status = p.status
      BY <1>14 DEF Goes, Sound, Base
    <2>3. /\ y.book <=> p.book
          /\ y.want <=> p.want
      BY <1>1 DEF SyncPosition, Player
    <2> HIDE DEF y
    <2>4. reload \in BOOLEAN
      OBVIOUS
    <2> HIDE DEF reload
    <2>5. s \in Player /\ s.rejected = {} /\ s.status = y.status /\ s.pos = y.pos
      BY <2>2, <2>4 DEF Player
    <2>6. Alike(y, s)
      BY <2>2 DEF Player, Alike
    <2> HIDE DEF s
    <2>7. Sound(s)
      BY <2>2, <2>5, <2>6, AlikeSound DEF Sound
    <2>8. Onward(p, s) /\ s.status = p.status /\ (s.want <=> p.want) /\ (s.book <=> p.book)
      BY <2>2, <2>3, <2>5, <2>6 DEF Onward, Alike
    <2>9. CASE p' = Caught(Play(s, TRUE, ok)) /\ p.book /\ p.want
      <3>1. s.status # "ended"
        BY <1>1, <2>8, <2>9 DEF Sound, Base, Rested
      <3>2. /\ Sound(Play(s, TRUE, ok)) /\ Play(s, TRUE, ok).want
            /\ Play(s, TRUE, ok).pos = s.pos
        BY <2>7, <2>8, <2>9, <3>1, PlaySound
      <3> QED
        BY <2>8, <2>9, <3>2, CaughtGoes DEF Onward
    <2> QED
      BY <1>6, <2>1, <2>5, <2>7, <2>8, <2>9 DEF Goes, Willing
  <1> QED
    BY <1>7, <1>8, <1>9, <1>10, <1>11, <1>12, <1>13, <1>15, <1>16, <1>17

\* The element's own doings.
LEMMA QueuedGoes ==
  ASSUME NEW q, NEW kind, NEW s \in Player, Sound(Queue(s, kind)),
         q.rejected = {}, s.rejected = q.rejected, q.pos \in Nat,
         s.pos = q.pos, s.want <=> q.want
  PROVE  Goes(q, Queue(s, kind))
  BY DEF Queue, Player, Goes, Onward, Willing

LEMMA MetadataGoes ==
  ASSUME PlayerInv, Metadata
  PROVE  Goes(p, p')
  <1> DEFINE t == Append(p.tasks, <<"metadata", {}>>)
             n == Len(p.tasks) + 1
  <1>1. Sound(p) /\ p \in Player /\ p.rejected = {} /\ p.pos \in Nat
    BY DEF PlayerInv, Sound, Base, Player, Places
  <1>2. PICK time \in {p.time, p.seek} \ {None} :
          LET s == [p EXCEPT !.ready = TRUE, !.time = time, !.tasks = t]
          IN  p' = IF p.playing /\ p.pipe = "ok" THEN Queue(s, "playing") ELSE s
    BY DEF Metadata
  <1> DEFINE s == [p EXCEPT !.ready = TRUE, !.time = time, !.tasks = t]
  <1>3. p.src /\ ~p.ready /\ p.pipe # "dead" /\ ~Owes(p, "emptied") /\ p.book /\ ~p.ended
        /\ ~Owes(p, "metadata")
    BY <1>1 DEF Metadata, Sound, Base, Flags, Element, Settled
  <1>4. /\ t \in Seq(Task) /\ t # <<>>
        /\ \A i \in DOMAIN p.tasks : i \in DOMAIN t /\ t[i] = p.tasks[i] /\ i < n
        /\ n \in DOMAIN t /\ t[n] = <<"metadata", {}>>
        /\ \A i \in DOMAIN t : i \in DOMAIN p.tasks \/ i = n
    <2>1. p.tasks \in Seq(Task) /\ <<"metadata", {}>> \in Task
      BY <1>1 DEF Player, Task, Kinds
    <2> QED
      BY <2>1, AppendIs
  <1> HIDE DEF t, n
  <1>5. time \in 0..Units /\ time \in {p.time, p.seek} /\ p.time \in Nat
    BY <1>1 DEF Player
  <1>6. s \in Player
    BY <1>1, <1>4, <1>5 DEF Player
  <1>7. /\ s.book /\ s.src /\ s.ready /\ ~s.ended
        /\ s.want <=> p.want
        /\ s.asked <=> p.asked
        /\ s.stale <=> p.stale
        /\ s.expect <=> p.expect
        /\ s.playing <=> p.playing
        /\ s.gesture <=> p.gesture
        /\ s.file = p.file /\ s.pos = p.pos /\ s.time = time /\ s.seek = p.seek
        /\ s.plays = p.plays /\ s.tasks = t /\ s.odd = p.odd
        /\ s.status = p.status /\ s.rejected = p.rejected /\ s.pipe = p.pipe
    BY <1>1, <1>3 DEF Player
  <1> HIDE DEF s
  <1>8. Owes(s, "metadata") /\ ~Owes(s, "emptied") /\ ~Settled(s)
    BY <1>3, <1>4, <1>7 DEF Owes, Settled
  <1>9. Element(s) /\ Bookless(s) /\ Rested(s) /\ EndAhead(s)
    BY <1>1, <1>7, <1>8 DEF Sound, Base, Element, Bookless, Rested, EndAhead
  <1>10. Queued(s)
    <2> SUFFICES ASSUME NEW i \in DOMAIN t
                 PROVE  /\ t[i][1] = "emptied" => t[i][2] = {}
                        /\ t[i][1] = "metadata" =>
                             \A j \in DOMAIN t : t[j][1] = "metadata" => j = i
                        /\ t[i][1] = "end" => ~p.expect
                        /\ t[i][1] \in Starts /\ p.expect =>
                             \E j \in DOMAIN t : j < i /\ t[j][1] = "metadata"
                        /\ t[i][1] \in Starts /\ ~p.playing =>
                             \/ Surprised(p)
                             \/ \E j \in DOMAIN t : i < j /\ t[j][1] = "pause"
                        /\ t[i][1] = "pause" => p.asked
      BY <1>7 DEF Queued, Surprised
    <2>1. \A j \in DOMAIN t : t[j][1] = "metadata" => j = n
      BY <1>3, <1>4 DEF Owes
    <2>2. CASE i = n
      BY <1>4, <2>1, <2>2 DEF Starts
    <2>3. CASE i \in DOMAIN p.tasks
      <3>1. t[i] = p.tasks[i] /\ t[i][1] # "metadata" /\ t[i][1] # "emptied"
        BY <1>3, <1>4, <2>3 DEF Owes
      <3>2. /\ p.tasks[i][1] = "end" => ~p.expect
            /\ p.tasks[i][1] \in Starts /\ p.expect =>
                 \E j \in DOMAIN p.tasks : j < i /\ p.tasks[j][1] = "metadata"
            /\ p.tasks[i][1] \in Starts /\ ~p.playing =>
                 \/ Surprised(p)
                 \/ \E j \in DOMAIN p.tasks : i < j /\ p.tasks[j][1] = "pause"
            /\ p.tasks[i][1] = "pause" => p.asked
        BY <1>1, <2>3 DEF Sound, Base, Queued
      <3> QED
        BY <1>4, <2>3, <3>1, <3>2
    <2> QED
      BY <1>4, <2>2, <2>3
  <1>11. Owed(p) \subseteq Owed(s)
    BY <1>4, <1>7 DEF Owed
  <1>12. Wanted(s) /\ Promised(s)
    BY <1>1, <1>7, <1>11 DEF Sound, Base, Wanted, Promised
  <1>13. Agrees(s)
    <2>1. Owes(p, "pause") => Owes(s, "pause")
      BY <1>4, <1>7 DEF Owes
    <2> QED
      BY <1>1, <1>3, <1>7, <2>1 DEF Sound, Agrees, Stops, Surprised
  <1>14. InFile(s)
    BY <1>1, <1>7 DEF Sound, Base, InFile, Begin
  <1>15. Placed(s)
    <2>1. ~p.stale =>
            (p.seek # None /\ p.time <= p.seek /\ Fits(p, p.seek)) \/ Astray(p)
      BY <1>1, <1>3 DEF Sound, Base, Placed, Settled
    <2>2. p.seek # None /\ p.time <= p.seek => time <= p.seek
      BY <1>1, <1>5 DEF Player
    <2> QED
      BY <1>7, <1>8, <2>1, <2>2 DEF Placed, Fits, Begin, Astray
  <1>16. CASE p.playing /\ p.pipe = "ok"
    <2>1. "playing" \in Kinds \ {"emptied", "metadata", "end"}
      BY DEF Kinds
    <2>2. Sound(Queue(s, "playing"))
      BY <1>6, <1>7, <1>9, <1>10, <1>12, <1>13, <1>14, <1>15, <1>16, <2>1, QueueBase
         DEF Sound
    <2> QED
      BY <1>1, <1>2, <1>6, <1>7, <1>16, <2>2, QueuedGoes DEF s
  <1>17. CASE ~(p.playing /\ p.pipe = "ok")
    <2>1. Flags(s)
      BY <1>1, <1>3, <1>7, <1>9, <1>17 DEF Sound, Base, Flags
    <2>2. Sound(s)
      BY <1>6, <1>9, <1>10, <1>12, <1>13, <1>14, <1>15, <2>1 DEF Sound, Base
    <2>3. p' = s
      BY <1>2, <1>17 DEF s
    <2> QED
      BY <1>1, <1>7, <2>2, <2>3 DEF Goes, Onward, Willing
  <1> QED
    BY <1>16, <1>17

LEMMA AdvanceGoes ==
  ASSUME PlayerInv, Advance
  PROVE  Goes(p, p')
  <1> DEFINE s == [p EXCEPT !.time = p.time + 1]
  <1>1. Sound(p) /\ p \in Player /\ p.rejected = {} /\ p.pos \in Nat
    BY DEF PlayerInv, Sound, Base, Player, Places
  <1>2. /\ p.playing /\ p.ready /\ p.pipe = "ok" /\ p.time < Units /\ p.tasks = <<>>
        /\ p' = IF p.status = "playing" THEN SyncPosition(s) ELSE s
    BY <1>1 DEF Advance, Moving, Player
  <1>3. p.time + 1 \in 0..Units /\ p.file * Units \in Nat /\ p.time \in Nat
    BY <1>1, <1>2, FilesFit, PlayerAssumption, SMTT(20) DEF Player
  <1>4. s \in Player
    BY <1>1, <1>3 DEF Player
  <1>5. /\ s.book <=> p.book
        /\ s.want <=> p.want
        /\ s.asked <=> p.asked
        /\ s.expect <=> p.expect
        /\ s.src <=> p.src
        /\ s.ready <=> p.ready
        /\ s.stale <=> p.stale
        /\ s.playing <=> p.playing
        /\ s.ended <=> p.ended
        /\ s.gesture <=> p.gesture
        /\ s.file = p.file /\ s.pos = p.pos /\ s.time = p.time + 1
        /\ s.plays = p.plays /\ s.tasks = p.tasks /\ s.odd = p.odd
        /\ s.status = p.status /\ s.rejected = p.rejected /\ s.pipe = p.pipe
    BY <1>1 DEF Player
  <1> HIDE DEF s
  <1>6. ~p.ended
    BY <1>1, <1>2, PlayerAssumption DEF Sound, Base, Flags, Element, Settled, Owes
  <1>7. Flags(s) /\ Bookless(s) /\ Rested(s)
    BY <1>1, <1>5, <1>6 DEF Sound, Base, Flags, Element, Bookless, Rested, Settled, Owes
  <1>8. Queued(s) /\ EndAhead(s)
    BY <1>2, <1>5, <1>6 DEF Queued, EndAhead
  <1>9. Wanted(s) /\ Promised(s) /\ Agrees(s)
    BY <1>1, <1>2, <1>5 DEF Sound, Base, Wanted, Promised, Owed, Agrees
  <1>10. InFile(s)
    BY <1>1, <1>5 DEF Sound, Base, InFile, Begin
  <1>11. Placed(s)
    <2>1. ~p.stale =>
            \/ Begin(p) + p.time >= p.pos
            \/ p.pos = Length /\ Begin(p) + p.time = Length - 1
            \/ Astray(p)
      BY <1>1, <1>2 DEF Sound, Base, Placed, Fits, Settled, Owes
    <2>2. Begin(s) = Begin(p) /\ Begin(p) \in Nat /\ Length \in Nat
      BY <1>1, <1>3, <1>5, FilesFit DEF Begin, Player
    <2>3. ~p.stale => Begin(s) + s.time >= s.pos \/ Astray(s)
      BY <1>1, <1>3, <1>5, <2>1, <2>2 DEF Astray
    <2> QED
      BY <1>2, <1>5, <2>3 DEF Placed, Fits, Settled, Owes
  <1>12. Sound(s) /\ ~Owes(s, "metadata")
    BY <1>2, <1>4, <1>5, <1>7, <1>8, <1>9, <1>10, <1>11 DEF Sound, Base, Owes
  <1>13. /\ SyncPosition(s).rejected = s.rejected
         /\ SyncPosition(s).want <=> s.want
    BY <1>4 DEF SyncPosition, Player
  <1> QED
    BY <1>1, <1>2, <1>5, <1>12, <1>13, SyncPositionSound
       DEF Goes, Onward, Willing, Astray

LEMMA ReachEndGoes ==
  ASSUME PlayerInv, ReachEnd
  PROVE  Goes(p, p')
  <1> DEFINE tasks == << <<"end", {}>> >>
             s == [p EXCEPT !.ended = TRUE, !.tasks = tasks]
  <1>1. Sound(p) /\ p \in Player /\ p.rejected = {} /\ p.pos \in Nat
    BY DEF PlayerInv, Sound, Base, Player, Places
  <1>2. /\ p.playing /\ p.ready /\ p.pipe = "ok" /\ p.time = Units /\ p.tasks = <<>>
        /\ p' = s
    BY DEF ReachEnd, Moving
  <1>3. /\ tasks \in Seq(Task) /\ tasks # <<>> /\ tasks[1][1] = "end"
        /\ \A i \in DOMAIN tasks : tasks[i][1] = "end"
    BY DEF Task, Kinds
  <1> HIDE DEF tasks
  <1>4. s \in Player
    BY <1>1, <1>3 DEF Player
  <1>5. /\ s.ended
        /\ s.book <=> p.book
        /\ s.want <=> p.want
        /\ s.asked <=> p.asked
        /\ s.expect <=> p.expect
        /\ s.src <=> p.src
        /\ s.ready <=> p.ready
        /\ s.stale <=> p.stale
        /\ s.playing <=> p.playing
        /\ s.gesture <=> p.gesture
        /\ s.file = p.file /\ s.pos = p.pos /\ s.time = p.time
        /\ s.plays = p.plays /\ s.tasks = tasks /\ s.odd = p.odd
        /\ s.status = p.status /\ s.rejected = p.rejected /\ s.pipe = p.pipe
    BY <1>1 DEF Player
  <1> HIDE DEF s
  <1>6. p.book /\ p.plays = {} /\ ~p.expect
    BY <1>1, <1>2 DEF Sound, Base, Flags, Element, Bookless, Settled, Owes
  <1>12. /\ ~Owes(s, "metadata") /\ ~Owes(s, "emptied") /\ ~Owes(p, "metadata")
         /\ Settled(s) /\ Settled(p)
    BY <1>2, <1>3, <1>5 DEF Owes, Settled
  <1>7. Flags(s) /\ Bookless(s) /\ Rested(s)
    BY <1>1, <1>2, <1>5, <1>6, <1>12 DEF Sound, Base, Flags, Element, Bookless, Rested
  <1>8. Queued(s) /\ EndAhead(s)
    BY <1>3, <1>5, <1>6 DEF Queued, Starts, EndAhead
  <1>9. Wanted(s) /\ Promised(s) /\ Agrees(s)
    BY <1>1, <1>2, <1>5, <1>6 DEF Sound, Base, Wanted, Promised, Agrees
  <1>10. InFile(s) /\ Placed(s)
    BY <1>1, <1>2, <1>5, <1>12 DEF Sound, Base, InFile, Placed, Fits, Begin, Astray
  <1>11. Sound(s)
    BY <1>4, <1>7, <1>8, <1>9, <1>10 DEF Sound, Base
  <1> QED
    BY <1>1, <1>2, <1>5, <1>11 DEF Goes, Onward, Willing

LEMMA ResetGoes ==
  ASSUME PlayerInv, Reset
  PROVE  Goes(p, p')
  <1> DEFINE e == Emptied(p)
  <1>1. Sound(p) /\ p \in Player /\ p.rejected = {} /\ p.pos \in Nat
    BY DEF PlayerInv, Sound, Base, Player, Places
  <1>2. p.src /\ p.book /\ p' = Caught(e)
    BY <1>1 DEF Reset, Sound, Base, Flags, Element, Settled, Owes
  <1>3. /\ e \in Player
        /\ Stops(p) => "missed" \in e.odd
    BY <1>1, EmptiedIs
  <1>4. /\ ~e.ready /\ ~e.playing /\ ~e.ended /\ e.plays = {}
        /\ e.src /\ e.book
        /\ e.want <=> p.want
        /\ e.asked <=> p.asked
        /\ e.expect <=> p.expect
        /\ e.stale <=> p.stale
        /\ e.gesture <=> p.gesture
        /\ e.file = p.file /\ e.pos = p.pos /\ e.seek = p.seek /\ e.status = p.status
        /\ e.tasks = << <<"emptied", {}>> >> /\ p.odd \subseteq e.odd
        /\ e.rejected = p.plays \cup Owed(p)
    BY <1>1, <1>2 DEF Emptied, Player
  <1> HIDE DEF e
  <1>5. Flags(e) /\ Bookless(e) /\ Rested(e) /\ EndAhead(e) /\ Wanted(e) /\ Promised(e)
    BY <1>1, <1>4 DEF Sound, Base, Flags, Element, Bookless, Rested, EndAhead, Settled, Owes, Wanted,
                      Promised
  <1>6. Queued(e)
    BY <1>4 DEF Queued, Starts
  <1>7. Owes(e, "emptied")
    BY <1>4 DEF Owes
  <1>8. Agrees(e)
    <2>1. CASE ~p.expect
      BY <1>4, <1>7, <2>1 DEF Agrees, Stops
    <2>2. CASE p.expect /\ p.playing
      BY <1>1, <1>4, <2>2 DEF Sound, Base, Promised, Agrees
    <2>3. CASE ~p.playing
      BY <1>1, <1>3, <1>4, <2>3 DEF Sound, Agrees, Surprised
    <2> QED
      BY <2>1, <2>2, <2>3
  <1>9. InFile(e)
    BY <1>1, <1>4 DEF Sound, Base, InFile, Begin
  <1>10. Placed(e)
    <2>1. CASE ~p.expect
      BY <1>4, <1>7, <2>1 DEF Placed, Settled
    <2>2. CASE p.expect
      <3>1. ~Settled(p) /\ ~Settled(e)
        BY <1>1, <1>4, <2>2 DEF Sound, Base, Flags, Element, Settled
      <3>2. p.seek # None => 0 <= p.seek
        BY <1>1 DEF Player
      <3>3. e.time = 0
        BY <1>1 DEF Emptied, Player, e
      <3> QED
        BY <1>1, <1>2, <1>4, <2>2, <3>1, <3>2, <3>3
           DEF Sound, Base, Placed, Fits, Begin, Astray
    <2> QED
      BY <2>1, <2>2
  <1>11. Sound(e)
    BY <1>3, <1>5, <1>6, <1>8, <1>9, <1>10 DEF Sound, Base
  <1> QED
    BY <1>1, <1>2, <1>4, <1>11, CaughtGoes DEF Onward

LEMMA ElementGoes ==
  ASSUME PlayerInv,
         \/ Metadata \/ Advance \/ ReachEnd
         \/ OsPause \/ \E pipe \in {"stalled", "dead"} : Falter(pipe)
         \/ Recover \/ Reset \/ Fail
  PROVE  Goes(p, p')
  <1>1. Sound(p) /\ p \in Player /\ p.rejected = {} /\ p.pos \in Nat
    BY DEF PlayerInv, Sound, Base, Player, Places
  <1>2. ASSUME OsPause PROVE Goes(p, p')
    <2> DEFINE s == [p EXCEPT !.asked = TRUE]
    <2>1. p' = PauseElement(s)
      BY <1>2 DEF OsPause
    <2>2. s \in Player
      BY <1>1 DEF Player
    <2>3. Alike(p, s) /\ s.asked /\ s.rejected = {}
      BY <1>1 DEF Player, Alike
    <2> HIDE DEF s
    <2>4. Sound(s)
      BY <1>1, <2>2, <2>3, AlikeSound DEF Sound
    <2>5. Sound(PauseElement(s))
      BY <2>3, <2>4, PauseElementSound DEF Sound, Base
    <2>6. PauseElement(s).rejected = {}
      BY <2>2, <2>3 DEF PauseElement, Queue, Player
    <2>7. PauseElement(s).asked /\ PauseElement(s).pos = s.pos
      BY <2>2, <2>3, PauseElementKeeps
    <2> QED
      BY <1>1, <2>1, <2>3, <2>5, <2>6, <2>7 DEF Goes, Onward, Willing, Alike
  <1>3. ASSUME NEW pipe \in {"stalled", "dead"}, Falter(pipe) PROVE Goes(p, p')
    <2> DEFINE s == [p EXCEPT !.pipe = pipe]
    <2>1. p' = s /\ ~p.ended
      BY <1>3 DEF Falter
    <2>2. s \in Player /\ s.rejected = {}
      BY <1>1 DEF Player
    <2>3. Alike(p, s)
      BY <1>1, <2>1 DEF Player, Alike
    <2> HIDE DEF s
    <2> QED
      BY <1>1, <2>1, <2>2, <2>3, AlikeGoes
  <1>4. ASSUME Fail PROVE Goes(p, p')
    <2> DEFINE s == [p EXCEPT !.pipe = "dead"]
    <2>1. p' = Queue(s, "error") /\ p.book
      BY <1>1, <1>4 DEF Fail, Sound, Base, Flags, Element, Settled, Owes
    <2>2. s \in Player
      BY <1>1 DEF Player
    <2>3. Alike(p, s) /\ s.rejected = p.rejected
      BY <1>1 DEF Player, Alike
    <2> HIDE DEF s
    <2>4. Sound(s) /\ s.book /\ "error" \in Kinds \ {"emptied", "metadata", "end"}
      BY <1>1, <2>1, <2>2, <2>3, AlikeSound DEF Sound, Alike, Kinds
    <2>5. Sound(Queue(s, "error"))
      BY <2>2, <2>4, QueueBase DEF Sound, Base, Flags, Starts
    <2> QED
      BY <1>1, <2>1, <2>2, <2>3, <2>5, QueuedGoes DEF Alike
  <1>5. ASSUME Recover PROVE Goes(p, p')
    <2> DEFINE s == [p EXCEPT !.pipe = "ok"]
    <2>1. /\ p.pipe = "stalled"
          /\ p' = IF p.playing /\ p.ready THEN Queue(s, "playing") ELSE s
      BY <1>5 DEF Recover
    <2>2. s \in Player
      BY <1>1 DEF Player
    <2>3. /\ s.book <=> p.book
          /\ s.want <=> p.want
          /\ s.asked <=> p.asked
          /\ s.expect <=> p.expect
          /\ s.src <=> p.src
          /\ s.ready <=> p.ready
          /\ s.stale <=> p.stale
          /\ s.playing <=> p.playing
          /\ s.ended <=> p.ended
          /\ s.gesture <=> p.gesture
          /\ s.file = p.file /\ s.pos = p.pos /\ s.time = p.time /\ s.seek = p.seek
          /\ s.plays = p.plays /\ s.tasks = p.tasks /\ s.odd = p.odd
          /\ s.status = p.status /\ s.rejected = p.rejected /\ s.pipe = "ok"
      BY <1>1 DEF Player
    <2> HIDE DEF s
    <2>4. ~p.ended
      BY <1>1, <2>1 DEF Sound, Base, Flags, Element, Settled, Owes
    <2>5. Element(s) /\ Bookless(s) /\ Rested(s)
      <3>1. Element(s)
        BY <1>1, <2>3, <2>4 DEF Sound, Base, Flags, Element, Settled, Owes
      <3> QED
        BY <1>1, <2>3, <3>1 DEF Sound, Base, Bookless, Rested
    <2>6. Queued(s) /\ EndAhead(s)
      BY <1>1, <2>3 DEF Sound, Base, Queued, Surprised, EndAhead
    <2>7. Wanted(s) /\ Promised(s) /\ Agrees(s)
      BY <1>1, <2>3 DEF Sound, Base, Wanted, Promised, Owed, Agrees, Stops, Surprised,
                        Owes
    <2>8. InFile(s) /\ Placed(s)
      BY <1>1, <2>3 DEF Sound, Base, InFile, Placed, Fits, Begin, Astray, Owes, Settled
    <2>9. CASE p.playing /\ p.ready
      <3>1. "playing" \in Kinds \ {"emptied", "metadata", "end"} /\ s.book
        BY <1>1, <2>3, <2>9 DEF Kinds, Sound, Base, Bookless
      <3>2. Sound(Queue(s, "playing"))
        BY <2>2, <2>3, <2>4, <2>5, <2>6, <2>7, <2>8, <2>9, <3>1, QueueBase DEF Sound
      <3> QED
        BY <1>1, <2>1, <2>2, <2>3, <2>9, <3>2, QueuedGoes
    <2>10. CASE ~(p.playing /\ p.ready)
      <3>1. Flags(s)
        BY <1>1, <2>3, <2>4, <2>5, <2>10 DEF Sound, Base, Flags
      <3>2. Sound(s)
        BY <2>2, <2>5, <2>6, <2>7, <2>8, <3>1 DEF Sound, Base
      <3> QED
        BY <1>1, <2>1, <2>3, <2>10, <3>2 DEF Goes, Onward, Willing
    <2> QED
      BY <2>9, <2>10
  <1> QED
    BY <1>2, <1>3, <1>4, <1>5, MetadataGoes, AdvanceGoes, ReachEndGoes, ResetGoes

-----------------------------------------------------------------------------
(* The theorems.                                                           *)

LEMMA OthersStep ==
  ASSUME PlayerInv, PlayerNext
  PROVE  Others'
  <1>1. p.file \in 0..Files - 1 /\ 0 \in 0..Files - 1 /\ Others
    BY PlayerAssumption DEF PlayerInv, Sound, Base, Player
  <1>2. /\ Click => clicks' \in 0..MaxClicks
        /\ Mishap => mishaps' \in 0..MaxMishaps
    BY <1>1, PlayerAssumption DEF Click, Mishap, Others
  <1>3. ASSUME NEW ok, Permits(ok) PROVE mishaps' \in 0..MaxMishaps
    BY <1>1, <1>2, <1>3 DEF Permits, Others
  <1>4. ASSUME Moves PROVE Others'
    <2>1. CASE \E place \in Places : Restore(place)
      BY <1>1, <1>2, <2>1 DEF Restore, Others
    <2>2. CASE \E place \in Places, ok \in BOOLEAN : Load(place, ok)
      BY <1>1, <1>2, <1>3, <2>2 DEF Load, Others
    <2>3. CASE \E place \in Places, ok \in BOOLEAN : Seek(place, ok)
      BY <1>1, <1>2, <1>3, <2>3 DEF Seek, Others
    <2>4. CASE \E ok \in BOOLEAN : PressPlay(ok)
      BY <1>1, <1>2, <1>3, <2>4 DEF PressPlay, Others
    <2>5. CASE \E finished \in BOOLEAN : MarkFinished(finished)
      BY <1>1, <1>2, <2>5 DEF MarkFinished, Others
    <2>6. CASE Unload
      BY <1>1, <1>2, <2>6 DEF Unload, Others
    <2> QED
      BY <1>4, <2>1, <2>2, <2>3, <2>4, <2>5, <2>6 DEF Moves
  <1>5. ASSUME NEW mode \in {"off", "minutes", "chapter"}, SetSleep(mode) PROVE Others'
    BY <1>1, <1>2, <1>5 DEF SetSleep, Others
  <1>6. ASSUME SleepTick PROVE Others'
    BY <1>1, <1>6 DEF SleepTick, Fire, Others
  <1>7. ASSUME NEW ok \in BOOLEAN, Show(ok) PROVE Others'
    BY <1>1, <1>3, <1>7 DEF Show, Others
  <1>8. ASSUME NEW ok \in BOOLEAN, HandleTask(ok) PROVE Others'
    BY <1>1, <1>3, <1>8 DEF HandleTask, Others
  <1>9. ASSUME PressPause \/ Hide \/ StayAway PROVE Others'
    BY <1>1, <1>2, <1>9 DEF PressPause, Hide, StayAway, Others
  <1>10. ASSUME PlayTimeout \/ Watchdog \/ FadeTick \/ RestOn PROVE Others'
    BY <1>1, <1>10 DEF PlayTimeout, Watchdog, FadeTick, RestOn, Others
  <1>11. ASSUME Metadata \/ Advance \/ ReachEnd \/ Recover PROVE Others'
    BY <1>1, <1>11 DEF Metadata, Advance, ReachEnd, Recover, Others
  <1>12. ASSUME OsPause \/ Reset \/ Fail PROVE Others'
    BY <1>1, <1>2, <1>12 DEF OsPause, Reset, Fail, Others
  <1>13. ASSUME NEW pipe \in {"stalled", "dead"}, Falter(pipe) PROVE Others'
    BY <1>1, <1>2, <1>13 DEF Falter, Others
  <1> QED
    BY <1>4, <1>5, <1>6, <1>7, <1>8, <1>9, <1>10, <1>11, <1>12, <1>13 DEF PlayerNext

\* A step keeps the player sound, and is one of the listener's moves or goes on.
LEMMA PlayerStep ==
  ASSUME PlayerInv, PlayerNext
  PROVE  /\ Sound(p') /\ p'.rejected = {} /\ Willing(p, p')
         /\ Moves \/ Onward(p, p')
  BY MovesGo, EngineGoes, HandleTaskGoes, ElementGoes DEF PlayerNext, Goes

LEMMA PlayerInvHolds == PlayerSpec => []PlayerInv
  <1>1. PlayerInit => PlayerInv
    <2> SUFFICES ASSUME PlayerInit PROVE PlayerInv
      OBVIOUS
    <2>1. Sound(p) /\ p.rejected = {}
      <3>1. p = Fresh
        BY DEF PlayerInit
      <3> QED
        BY <3>1, FreshSound, Zenon
    <2>2. Others
      <3>1. 0 \in 0..Files - 1 /\ 0 \in 0..MaxClicks /\ 0 \in 0..MaxMishaps
        BY PlayerAssumption
      <3> QED
        BY <3>1 DEF PlayerInit, Others
    <2> QED
      BY <2>1, <2>2 DEF PlayerInv
  <1>2. PlayerInv /\ [PlayerNext]_playerVars => PlayerInv'
    <2> SUFFICES ASSUME PlayerInv, [PlayerNext]_playerVars
                 PROVE  PlayerInv'
      OBVIOUS
    <2>1. CASE PlayerNext
      BY <2>1, OthersStep, PlayerStep DEF PlayerInv, Sound, Base, Agrees, Flags, Element, Settled, Owes,
         Bookless, Rested, Queued, EndAhead, Wanted, Promised, InFile, Placed, Fits, Begin
    <2>2. CASE UNCHANGED playerVars
      BY <2>2 DEF playerVars, PlayerInv, Others
    <2> QED
      BY <2>1, <2>2
  <1> QED
    BY <1>1, <1>2, PTL DEF PlayerSpec

\* Whatever the listener, the timers, the page and the element do, and in
\* whatever order events come, what the engine knows of itself and of the
\* element is of its type, and without a book nothing plays or is to play.
THEOREM PlayerTypeCorrect == PlayerSpec => []PlayerTypeOK
  <1>1. PlayerInv => PlayerTypeOK
    <2> SUFFICES ASSUME PlayerInv PROVE PlayerTypeOK
      OBVIOUS
    <2>1. p \in Player /\ Bookless(p) /\ p.rejected = {} /\ Others
      BY DEF PlayerInv, Sound, Base
    <2>2. \A i \in DOMAIN p.tasks : p.tasks[i] \in Task
      BY <2>1 DEF Player
    <2> QED
      BY <2>1, <2>2 DEF PlayerTypeOK, Player, Task, Bookless, Others
  <1> QED
    BY <1>1, PlayerInvHolds, PTL

\* Once every event has been delivered, engine and element agree ('playing',
\* 'pause' and 'emptied' handlers, and the catches of play()): who says it plays
\* has an element that does, or offers to resume, and what plays is meant to.
THEOREM StaysInStep == PlayerSpec => []InStep
  <1>1. PlayerInv => InStep
    <2> SUFFICES ASSUME PlayerInv, p.tasks = <<>>
                 PROVE  /\ p.status = "playing" /\ ~p.playing =>
                              p.gesture \/ p.odd \cap {"missed", "crossed"} # {}
                        /\ p.playing => p.want \/ "crossed" \in p.odd
      BY DEF InStep
    <2>1. Agrees(p) /\ Wanted(p) /\ p.rejected = {}
      BY DEF PlayerInv, Sound, Base
    <2>2. ~Stops(p)
      BY DEF Stops, Owes
    <2> QED
      BY <2>1, <2>2 DEF Agrees, Wanted, Surprised
  <1> QED
    BY <1>1, PlayerInvHolds, PTL

\* The end of a file does not stop a player that is to play: it stops because
\* a pause was asked for, the book ended or it was unloaded (the handlers of
\* 'pause' and 'ended').
THEOREM PlaysOnAtBoundaries == PlayerSpec => BoundaryPlaysOn
  <1>1. PlayerInv /\ [PlayerNext]_playerVars =>
          [p.want /\ ~p'.want
             => p.asked \/ p'.asked \/ ~p'.book \/ p'.status = "ended"]_playerVars
    BY PlayerStep DEF Willing
  <1> QED
    BY <1>1, PlayerInvHolds, PTL DEF PlayerSpec, BoundaryPlaysOn

\* The place on the timeline moves back only when the listener moves it, up to
\* the half second at a book's end that locate() takes off, and but for a sync
\* while 'loadedmetadata' is on its way, which takes the element's own place.
THEOREM PlaceAdvances == PlayerSpec => PlaceOnlyAdvances
  <1>1. PlayerInv /\ [PlayerNext]_playerVars =>
          [\/ Moves
           \/ p'.pos >= p.pos
           \/ Owes(p, "metadata") /\ p'.pos = p.file * Units + p.time
           \/ p.odd \cap {"overtaken", "crossed"} # {}
           \/ p.pos = Length /\ p'.pos = Length - 1]_playerVars
    BY PlayerStep DEF Onward, Astray, Begin
  <1> QED
    BY <1>1, PlayerInvHolds, PTL DEF PlayerSpec, PlaceOnlyAdvances
=============================================================================
