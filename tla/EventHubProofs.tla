--------------------------- MODULE EventHubProofs ---------------------------
(***************************************************************************)
(* Theorems about EventHub, for any users, clients and slots, any capacity *)
(* of buffers and queues, and any assumption on fairness: no channel is    *)
(* closed twice, no stream is dropped but for a cause of its own, and      *)
(* every step is one that EventFeed allows.                                *)
(***************************************************************************)
EXTENDS EventHub, FiniteSetTheorems, TLAPS

-----------------------------------------------------------------------------
(* The inductive invariant.                                                *)

Ascending(s) == \A i, j \in DOMAIN s : i < j => s[i] < s[j]

Elems(s) == {s[i] : i \in DOMAIN s}

\* The frames a stream has still to write.
Frames(st) == Elems(st.pending) \cup Elems(st.queue)

ResyncAhead(st) == st.pending # <<>> /\ st.pending[1] = Resync

\* Before it is live a stream holds nothing; replay and queue are in order, one
\* after the other.
InOrder(st) ==
    /\ st.phase # "live" => st.pending = <<>> /\ st.queue = <<>> /\ ~st.closed
    /\ st.registered => st.phase = "live" /\ ~st.closed
    /\ Ascending(st.pending) /\ Ascending(st.queue)
    /\ \A j \in DOMAIN st.queue :
          /\ st.queue[j] > Resync
          /\ \A i \in DOMAIN st.pending : st.pending[i] < st.queue[j]

\* What the stream a client reads has still to give it in the life `now`, where
\* `from` is what the client saw last, `due` what it is owed, `astray` whether
\* it is excepted.
Serves(st, now, from, due, astray) ==
    /\ st.phase = "requested" => st.from = from
    /\ st.phase = "live" =>
         /\ from # NoEvent /\ from.life = now =>
               \A x \in Frames(st) : x = Resync \/ x > from.id
         /\ ~astray /\ ~ResyncAhead(st) =>
               \A f \in due :
                  /\ f.life = now
                  /\ \/ f.id \in Frames(st)
                     \/ ~st.registered /\ \A x \in Frames(st) : x < f.id

\* The event was issued by the time the life `now` has come to `top`.
Published(f, now, top) == f.id > 0 /\ (f.life < now \/ (f.life = now /\ f.id <= top))

\* A replay from this buffer finds n, or sees that it begins too late.
Found(s, n) == s = <<>> \/ n < s[1] \/ \E i \in 1..Len(s) : s[i] = n

StreamSound(st, now, top, from, due, astray) ==
    /\ InOrder(st)
    /\ \A x \in Frames(st) : x <= top
    /\ st.attached => Serves(st, now, from, due, astray)

ClientSound(now, top, from, due, astray) ==
    /\ from # NoEvent => Published(from, now, top)
    /\ due # {} => from # NoEvent
    /\ \A f \in due : /\ Published(f, now, top)
                      /\ ~astray => Newer(f, from)

\* Buffers are in order, and good for what is owed of this life.
BuffersSound ==
    /\ lastID <= MaxId
    /\ \A u \in Users : Ascending(buf[u])
    /\ \A c \in Clients : \A f \in owed[c] :
         f.life = life => Found(buf[UserOf[c]], f.id)

ClientsSound ==
    \A c \in Clients : ClientSound(life, lastID, last[c], owed[c], stale[c])

StreamsSound ==
    /\ \A c \in Clients, k \in Slots :
         StreamSound(stream[c][k], life, lastID, last[c], owed[c], stale[c])
    /\ \A c \in Clients : \A k, l \in Slots :
         stream[c][k].attached /\ stream[c][l].attached => k = l

\* All the valid sessions of a user are purged together.
SessionsTogether ==
    \A c, d \in Clients :
        UserOf[c] = UserOf[d] /\ session[c] = "purged" => session[d] # "valid"

IInv ==
    /\ TypeOK /\ ~panicked
    /\ BuffersSound /\ ClientsSound /\ StreamsSound /\ SessionsTogether

-----------------------------------------------------------------------------
(* Sequences: what is left of an ascending one.                            *)

LEMMA SeqOver ==
  ASSUME NEW S, NEW T, NEW s \in Seq(S), \A i \in 1..Len(s) : s[i] \in T
  PROVE  s \in Seq(T)
  OBVIOUS

\* t is s without its first m elements.
Cut(t, s, m) ==
    /\ t \in Seq(Nat) /\ m \in 0..Len(s) /\ Len(t) = Len(s) - m
    /\ \A i \in 1..Len(t) : i + m \in 1..Len(s) /\ t[i] = s[i + m]

LEMMA SubSeqCuts ==
  ASSUME NEW s \in Seq(Nat), NEW m \in 0..Len(s)
  PROVE  Cut(SubSeq(s, m + 1, Len(s)), s, m)
  BY DEF Cut

LEMMA CutAscends ==
  ASSUME NEW s \in Seq(Nat), Ascending(s), NEW m, NEW t, Cut(t, s, m)
  PROVE  Ascending(t)
  <1>1. /\ t \in Seq(Nat) /\ m \in Nat
        /\ \A i \in 1..Len(t) : i + m \in 1..Len(s) /\ t[i] = s[i + m]
    BY DEF Cut
  <1>2. DOMAIN t = 1..Len(t) /\ DOMAIN s = 1..Len(s)
    BY <1>1
  <1>3. ASSUME NEW i \in 1..Len(t), NEW j \in 1..Len(t), i < j
        PROVE  t[i] < t[j]
    <2>1. i + m \in DOMAIN s /\ j + m \in DOMAIN s /\ i + m < j + m
      BY <1>1, <1>2, <1>3
    <2>2. s[i + m] < s[j + m]
      BY <2>1 DEF Ascending
    <2> QED
      BY <1>1, <2>2
  <1> QED
    BY <1>2, <1>3 DEF Ascending

\* t holds what s has beyond its first m elements.
Holds(t, s, m) ==
    /\ \A i \in 1..Len(t) : \E j \in 1..Len(s) : j > m /\ s[j] = t[i]
    /\ \A j \in 1..Len(s) : j > m => \E i \in 1..Len(t) : t[i] = s[j]

LEMMA CutContents ==
  ASSUME NEW s \in Seq(Nat), NEW m, NEW t, Cut(t, s, m)
  PROVE  Holds(t, s, m)
  <1>1. \A i \in 1..Len(t) : \E j \in 1..Len(s) : j > m /\ s[j] = t[i]
    <2> SUFFICES ASSUME NEW i \in 1..Len(t)
                 PROVE  \E j \in 1..Len(s) : j > m /\ s[j] = t[i]
      OBVIOUS
    <2>1. i + m \in 1..Len(s) /\ i + m > m /\ s[i + m] = t[i]
      BY DEF Cut
    <2> QED
      BY <2>1
  <1>2. \A j \in 1..Len(s) : j > m => \E i \in 1..Len(t) : t[i] = s[j]
    <2> SUFFICES ASSUME NEW j \in 1..Len(s), j > m
                 PROVE  \E i \in 1..Len(t) : t[i] = s[j]
      OBVIOUS
    <2>1. j - m \in 1..Len(t) /\ t[j - m] = s[j]
      BY DEF Cut
    <2> QED
      BY <2>1
  <1> QED
    BY <1>1, <1>2 DEF Holds

\* After cuts between the elements up to id and those beyond.
LEMMA AfterCuts ==
  ASSUME NEW s \in Seq(Nat), Ascending(s), NEW id \in Nat
  PROVE  \E m : /\ Cut(After(s, id), s, m)
                /\ \A i \in 1..Len(s) : i <= m <=> s[i] <= id
  <1>1. PICK upTo : upTo = {i \in DOMAIN s : s[i] <= id}
    OBVIOUS
  <1>2. PICK m : m = Cardinality(upTo)
    OBVIOUS
  <1>3. IsFiniteSet(1..Len(s)) /\ Cardinality(1..Len(s)) = Len(s)
    <2>1. 1 \in Int /\ Len(s) \in Int /\ Len(s) \in Nat
      OBVIOUS
    <2>2. /\ IsFiniteSet(1..Len(s))
          /\ Cardinality(1..Len(s)) = IF 1 > Len(s) THEN 0 ELSE Len(s) - 1 + 1
      BY <2>1, FS_Interval
    <2>3. (IF 1 > Len(s) THEN 0 ELSE Len(s) - 1 + 1) = Len(s)
      BY <2>1
    <2> QED
      BY <2>2, <2>3
  <1>4. upTo \in SUBSET (1..Len(s))
    BY <1>1
  <1>5. IsFiniteSet(upTo) /\ m \in Nat /\ m <= Len(s)
    BY <1>2, <1>3, <1>4, FS_Subset, FS_CardinalityType
  <1>6. \A k \in upTo : k <= m
    <2> SUFFICES ASSUME NEW k \in upTo PROVE k <= m
      OBVIOUS
    <2>1. k \in 1..Len(s) /\ s[k] <= id
      BY <1>1
    <2>2. \A i \in 1..k : i \in DOMAIN s /\ s[i] <= id
      BY <2>1 DEF Ascending
    <2>3. 1..k \in SUBSET upTo
      BY <1>1, <2>2
    <2>4. Cardinality(1..k) <= m
      BY <2>3, <1>2, <1>5, FS_Subset
    <2>5. Cardinality(1..k) = k
      BY <2>1, FS_Interval
    <2> QED
      BY <2>4, <2>5
  <1>7. IsFiniteSet(1..m) /\ Cardinality(1..m) = m
    BY <1>5, FS_Interval
  <1>8. upTo \in SUBSET (1..m)
    BY <1>4, <1>5, <1>6
  <1>9. upTo = 1..m
    BY <1>2, <1>7, <1>8, FS_Subset
  <1>10. After(s, id) = SubSeq(s, m + 1, Len(s))
    <2>1. After(s, id) = SubSeq(s, 1 + m, Len(s))
      BY <1>1, <1>2 DEF After
    <2>2. 1 + m = m + 1
      BY <1>5
    <2> QED
      BY <2>1, <2>2
  <1>11. \A i \in 1..Len(s) : i <= m <=> s[i] <= id
    BY <1>1, <1>5, <1>9
  <1>12. m \in 0..Len(s)
    BY <1>5
  <1> QED
    BY <1>10, <1>11, <1>12, SubSeqCuts

\* What subscribe replays: in order, all beyond id that is there.
Replay(t, s, id) == t = After(s, id)

LEMMA AfterFacts ==
  ASSUME NEW s \in Seq(Nat), Ascending(s), NEW id \in Nat, NEW t, Replay(t, s, id)
  PROVE  /\ t \in Seq(Nat) /\ Ascending(t)
         /\ \A i \in 1..Len(t) : t[i] > id /\ \E j \in 1..Len(s) : s[j] = t[i]
         /\ \A j \in 1..Len(s) : s[j] > id => \E i \in 1..Len(t) : t[i] = s[j]
  <1>1. PICK m : Cut(t, s, m) /\ \A i \in 1..Len(s) : i <= m <=> s[i] <= id
    BY AfterCuts DEF Replay
  <1>2. t \in Seq(Nat) /\ m \in Nat
    BY <1>1 DEF Cut
  <1>3. Ascending(t)
    BY <1>1, CutAscends
  <1>4. \A j \in 1..Len(s) : j > m <=> s[j] > id
    BY <1>1, <1>2
  <1>5. /\ \A i \in 1..Len(t) : \E j \in 1..Len(s) : j > m /\ s[j] = t[i]
        /\ \A j \in 1..Len(s) : j > m => \E i \in 1..Len(t) : t[i] = s[j]
    <2>1. Holds(t, s, m)
      BY <1>1, CutContents
    <2> QED
      BY <2>1 DEF Holds
  <1> QED
    BY <1>2, <1>3, <1>4, <1>5

\* Pruning keeps a suffix that fits.
LEMMA PrunedFacts ==
  ASSUME NEW s \in Seq(Nat), NEW t \in Pruned(s)
  PROVE  Len(t) <= MaxEvents /\ \E m : Cut(t, s, m)
  <1>1. PICK m \in 0..Len(s) : t = SubSeq(s, m + 1, Len(s)) /\ Len(s) - m <= MaxEvents
    BY DEF Pruned
  <1>2. Cut(t, s, m)
    BY <1>1, SubSeqCuts
  <1> QED
    BY <1>1, <1>2 DEF Cut

LEMMA PrunedInOrder ==
  ASSUME NEW s \in Seq(Nat), Ascending(s), NEW t \in Pruned(s)
  PROVE  /\ t \in Seq(Nat) /\ Ascending(t)
         /\ \A i \in 1..Len(t) : \E j \in 1..Len(s) : s[j] = t[i]
         /\ t # <<>> => /\ s # <<>> /\ s[1] <= t[1]
                        /\ \A j \in 1..Len(s) : s[j] >= t[1] =>
                              \E i \in 1..Len(t) : t[i] = s[j]
  <1>1. PICK m : Cut(t, s, m)
    BY PrunedFacts
  <1>2. t \in Seq(Nat) /\ m \in Nat
    BY <1>1 DEF Cut
  <1>3. Ascending(t)
    BY <1>1, CutAscends
  <1>4. ASSUME t # <<>>
        PROVE  /\ s # <<>> /\ s[1] <= t[1]
               /\ \A j \in 1..Len(s) : s[j] >= t[1] => j > m
    <2>1. 1 \in 1..Len(t) /\ t[1] = s[1 + m] /\ 1 + m \in 1..Len(s) /\ 1 \in 1..Len(s)
      BY <1>1, <1>2, <1>4 DEF Cut
    <2>2. s # <<>> /\ s[1] <= t[1]
      BY <2>1, <1>2 DEF Ascending
    <2>3. \A j \in 1..Len(s) : j < 1 + m => s[j] < t[1]
      BY <2>1 DEF Ascending
    <2> QED
      BY <2>1, <2>2, <2>3, <1>2
  <1>5. /\ \A i \in 1..Len(t) : \E j \in 1..Len(s) : j > m /\ s[j] = t[i]
        /\ \A j \in 1..Len(s) : j > m => \E i \in 1..Len(t) : t[i] = s[j]
    <2>1. Holds(t, s, m)
      BY <1>1, CutContents
    <2> QED
      BY <2>1 DEF Holds
  <1> QED
    BY <1>2, <1>3, <1>4, <1>5

\* (Names for equations, so that a lemma about t is cited as one about t.)
Appended(t, s, id) == t = Append(s, id)
Rest(t, s) == t = Tail(s)

LEMMA AppendAscends ==
  ASSUME NEW s \in Seq(Nat), NEW id, id \in Nat, Ascending(s),
         \A i \in DOMAIN s : s[i] < id,
         NEW t, Appended(t, s, id)
  PROVE  /\ t \in Seq(Nat) /\ Ascending(t) /\ Len(t) = Len(s) + 1
         /\ Elems(t) = Elems(s) \cup {id}
  <1>1. /\ t \in Seq(Nat) /\ Len(t) = Len(s) + 1 /\ t[Len(t)] = id
        /\ \A i \in 1..Len(s) : t[i] = s[i]
    BY DEF Appended
  <1>2. DOMAIN t = 1..Len(t) /\ DOMAIN s = 1..Len(s)
    BY <1>1
  <1>3. Ascending(t)
    <2>1. ASSUME NEW i \in 1..Len(t), NEW j \in 1..Len(t), i < j
          PROVE  t[i] < t[j]
      <3>1. i \in 1..Len(s) /\ t[i] = s[i] /\ s[i] < id
        <4>1. Len(s) \in Nat /\ Len(t) = Len(s) + 1
          BY <1>1
        <4>2. i \in 1..Len(s)
          BY <2>1, <4>1
        <4>3. t[i] = s[i]
          BY <1>1, <4>2
        <4>4. s[i] < id
          BY <1>2, <4>2
        <4> QED
          BY <4>2, <4>3, <4>4
      <3>2. CASE j = Len(t)
        BY <1>1, <3>1, <3>2
      <3>3. CASE j # Len(t)
        <4>1. j \in 1..Len(s)
          <5>1. Len(s) \in Nat /\ Len(t) = Len(s) + 1
            BY <1>1
          <5> QED
            BY <3>3, <5>1
        <4>2. t[j] = s[j]
          BY <1>1, <4>1
        <4> QED
          BY <1>2, <2>1, <3>1, <4>1, <4>2 DEF Ascending
      <3> QED
        BY <3>2, <3>3
    <2> QED
      BY <1>2, <2>1 DEF Ascending
  <1>4. \A i \in DOMAIN t : i = Len(t) \/ i \in DOMAIN s
    BY <1>1, <1>2
  <1>5. {t[i] : i \in DOMAIN t} = {s[i] : i \in DOMAIN s} \cup {id}
    BY <1>1, <1>2, <1>4
  <1> QED
    BY <1>1, <1>3, <1>5 DEF Elems

LEMMA TailAscends ==
  ASSUME NEW s \in Seq(Nat), s # <<>>, Ascending(s), NEW t, Rest(t, s)
  PROVE  /\ t \in Seq(Nat) /\ Ascending(t) /\ Len(t) = Len(s) - 1
         /\ Head(s) = s[1] /\ 1 \in DOMAIN s
         /\ \A i \in DOMAIN t : t[i] > s[1]
         /\ Elems(s) = {s[1]} \cup Elems(t)
  <1>1. Cut(t, s, 1) /\ Head(s) = s[1] /\ 1 \in DOMAIN s
    BY DEF Cut, Rest
  <1>2. t \in Seq(Nat) /\ Len(t) = Len(s) - 1 /\ Ascending(t)
    BY <1>1, CutAscends DEF Cut
  <1>3. \A i \in DOMAIN t : t[i] > s[1]
    <2>1. ASSUME NEW i \in 1..Len(t)
          PROVE  t[i] > s[1]
      <3>1. i + 1 \in DOMAIN s /\ t[i] = s[i + 1] /\ 1 < i + 1
        BY <1>1, <1>2 DEF Cut
      <3>2. s[1] < s[i + 1] /\ s[1] \in Nat /\ s[i + 1] \in Nat
        BY <1>1, <3>1 DEF Ascending
      <3> QED
        BY <3>1, <3>2
    <2>2. DOMAIN t = 1..Len(t)
      BY <1>2
    <2> QED
      BY ONLY <2>1, <2>2
  <1>4. /\ \A i \in 1..Len(t) : \E j \in 1..Len(s) : j > 1 /\ s[j] = t[i]
        /\ \A j \in 1..Len(s) : j > 1 => \E i \in 1..Len(t) : t[i] = s[j]
    <2>1. PICK m : m = 1 /\ Cut(t, s, m)
      BY <1>1
    <2>2. Holds(t, s, m)
      BY <2>1, CutContents
    <2> QED
      BY <2>1, <2>2 DEF Holds
  <1>5. {s[i] : i \in DOMAIN s} = {s[1]} \cup {t[i] : i \in DOMAIN t}
    <2>1. DOMAIN s = 1..Len(s) /\ DOMAIN t = 1..Len(t) /\ 1 \in 1..Len(s)
      BY <1>1, <1>2
    <2>2. \A j \in 1..Len(s) : j = 1 \/ \E i \in 1..Len(t) : t[i] = s[j]
      BY <1>4
    <2>3. \A i \in 1..Len(t) : \E j \in 1..Len(s) : s[j] = t[i]
      BY <1>4
    <2>4. ASSUME NEW x \in {s[i] : i \in DOMAIN s}
          PROVE  x \in {s[1]} \cup {t[i] : i \in DOMAIN t}
      BY ONLY <2>1, <2>2, <2>4
    <2>5. ASSUME NEW x \in {s[1]} \cup {t[i] : i \in DOMAIN t}
          PROVE  x \in {s[i] : i \in DOMAIN s}
      BY ONLY <2>1, <2>3, <2>5
    <2> QED
      BY <2>4, <2>5
  <1> QED
    BY <1>1, <1>2, <1>3, <1>5 DEF Elems

LEMMA FoundKept ==
  ASSUME NEW s \in Seq(Nat), Ascending(s), NEW t \in Pruned(s), NEW n \in Nat, Found(s, n)
  PROVE  Found(t, n)
  <1>1. /\ t \in Seq(Nat) /\ Ascending(t)
        /\ t # <<>> => /\ s # <<>> /\ s[1] <= t[1]
                       /\ \A j \in 1..Len(s) : s[j] >= t[1] =>
                             \E i \in 1..Len(t) : t[i] = s[j]
    BY PrunedInOrder
  <1>2. CASE t = <<>>
    BY <1>2 DEF Found
  <1>3. CASE t # <<>> /\ n < t[1]
    BY <1>3 DEF Found
  <1>4. CASE t # <<>> /\ ~(n < t[1])
    <2>1. s # <<>> /\ t[1] \in Nat /\ s[1] \in Nat /\ n >= t[1] /\ n >= s[1]
      BY <1>1, <1>4
    <2>2. PICK j \in 1..Len(s) : s[j] = n
      BY <2>1 DEF Found
    <2>3. \E i \in 1..Len(t) : t[i] = n
      BY <1>1, <1>4, <2>1, <2>2
    <2> QED
      BY <2>3 DEF Found
  <1> QED
    BY <1>2, <1>3, <1>4

LEMMA FoundAppended ==
  ASSUME NEW s \in Seq(Nat), NEW id \in Nat, Ascending(s),
         \A i \in DOMAIN s : s[i] < id,
         NEW t, Appended(t, s, id)
  PROVE  /\ Found(t, id)
         /\ \A n \in Nat : n < id /\ Found(s, n) => Found(t, n)
  <1>1. /\ t \in Seq(Nat) /\ Len(t) = Len(s) + 1 /\ t[Len(t)] = id
        /\ \A i \in 1..Len(s) : t[i] = s[i]
    BY DEF Appended
  <1>2. Found(t, id)
    <2>1. Len(t) \in 1..Len(t)
      BY <1>1
    <2> QED
      BY <1>1, <2>1 DEF Found
  <1>3. ASSUME NEW n \in Nat, n < id, Found(s, n)
        PROVE  Found(t, n)
    <2>1. CASE s = <<>>
      BY <1>1, <1>3, <2>1 DEF Found
    <2>2. CASE s # <<>> /\ n < s[1]
      <3>1. 1 \in 1..Len(s)
        BY <2>2
      <3>2. t[1] = s[1]
        BY <1>1, <3>1
      <3> QED
        BY <3>2, <2>2 DEF Found
    <2>3. CASE \E i \in 1..Len(s) : s[i] = n
      <3>1. PICK i \in 1..Len(s) : s[i] = n
        BY <2>3
      <3>2. i \in 1..Len(t) /\ t[i] = n
        BY <1>1, <3>1
      <3> QED
        BY <3>2 DEF Found
    <2> QED
      BY <1>3, <2>1, <2>2, <2>3 DEF Found
  <1> QED
    BY <1>2, <1>3

-----------------------------------------------------------------------------
(* Streams: what each operation leaves of a sound one.                     *)

LEMMA FramesTyped ==
  ASSUME NEW st \in Stream
  PROVE  /\ Frames(st) \in SUBSET Nat
         /\ \A i \in DOMAIN st.pending : st.pending[i] \in Frames(st)
         /\ \A i \in DOMAIN st.queue : st.queue[i] \in Frames(st)
         /\ st.pending \in Seq(Nat) /\ st.queue \in Seq(Nat)
         /\ \A i \in DOMAIN st.pending : st.pending[i] \in Nat
         /\ \A i \in DOMAIN st.queue : st.queue[i] \in Nat
  <1>1. st.pending \in Seq(Nat) /\ st.queue \in Seq(Nat)
    BY DEF Stream
  <1>2. /\ \A i \in DOMAIN st.pending : st.pending[i] \in Nat
        /\ \A i \in DOMAIN st.queue : st.queue[i] \in Nat
    BY <1>1
  <1> QED
    BY <1>1, <1>2 DEF Frames, Elems

\* Neither the counter nor an exception takes anything from a stream.
LEMMA SoundLater ==
  ASSUME NEW st \in Stream, NEW now, NEW top \in Nat, NEW later \in Nat, top <= later,
         NEW from, NEW due, NEW astray, NEW more, astray => more,
         StreamSound(st, now, top, from, due, astray)
  PROVE  StreamSound(st, now, later, from, due, more)
  <1>1. InOrder(st) /\ \A x \in Frames(st) : x <= top
    BY DEF StreamSound
  <1>2. Frames(st) \in SUBSET Nat
    BY FramesTyped
  <1>3. \A x \in Frames(st) : x <= later
    BY <1>1, <1>2
  <1>4. st.attached => Serves(st, now, from, due, more)
    BY DEF StreamSound, Serves
  <1> QED
    BY <1>1, <1>3, <1>4 DEF StreamSound

LEMMA FreeStreamSound ==
  ASSUME NEW now, NEW top, NEW from, NEW due, NEW astray
  PROVE  /\ FreeStream \in Stream
         /\ StreamSound(FreeStream, now, top, from, due, astray)
         /\ Frames(FreeStream) = {}
         /\ Len(FreeStream.queue) = 0
         /\ FreeStream.phase = "free" /\ ~FreeStream.attached /\ ~FreeStream.registered
  <1>1. FreeStream \in Stream
    BY DEF FreeStream, Stream
  <1>2. /\ FreeStream.pending = <<>> /\ FreeStream.queue = <<>>
        /\ ~FreeStream.closed /\ ~FreeStream.registered /\ ~FreeStream.attached
        /\ FreeStream.phase = "free"
    BY DEF FreeStream
  <1>3. Frames(FreeStream) = {}
    BY <1>2 DEF Frames, Elems
  <1>4. InOrder(FreeStream)
    BY <1>2 DEF InOrder, Ascending
  <1> QED
    BY <1>1, <1>2, <1>3, <1>4 DEF StreamSound

LEMMA DeregisteredSound ==
  ASSUME NEW st \in Stream, NEW now, NEW top, NEW from, NEW due, NEW astray,
         StreamSound(st, now, top, from, due, astray), st.registered
  PROVE  /\ Deregistered(st) \in Stream
         /\ StreamSound(Deregistered(st), now, top, from, due, astray)
         /\ Deregistered(st).queue = st.queue
         /\ Deregistered(st).attached = st.attached
         /\ Frames(Deregistered(st)) = Frames(st)
         /\ ~Deregistered(st).registered
         /\ Deregistered(st).phase = st.phase
         /\ Deregistered(st).pending = st.pending
         /\ ~st.closed
  <1> DEFINE d == Deregistered(st)
  <1>1. /\ d \in Stream
        /\ d.phase = st.phase /\ d.from = st.from /\ d.pending = st.pending
        /\ d.queue = st.queue /\ d.attached = st.attached
        /\ ~d.registered /\ d.closed
    BY DEF Deregistered, Stream
  <1> HIDE DEF d
  <1>2. Frames(d) = Frames(st)
    BY <1>1 DEF Frames
  <1>3. InOrder(st) /\ st.phase = "live" /\ ~st.closed
    BY DEF StreamSound, InOrder
  <1>4. InOrder(d)
    BY <1>1, <1>3 DEF InOrder
  <1>5. st.attached => Serves(d, now, from, due, astray)
    BY <1>1, <1>2, <1>3 DEF StreamSound, Serves, ResyncAhead
  <1>6. StreamSound(d, now, top, from, due, astray)
    BY <1>1, <1>2, <1>4, <1>5 DEF StreamSound
  <1> QED
    BY <1>1, <1>2, <1>3, <1>6 DEF d

\* fanout, for a stream of a user the event goes to: the event is in what the
\* stream has to write, or the stream is dropped before it.
LEMMA FedSound ==
  ASSUME NEW st \in Stream, NEW now, NEW top \in Nat, NEW id, id = top + 1,
         NEW from \in Event \cup {NoEvent}, NEW due, NEW astray,
         StreamSound(st, now, top, from, due, astray),
         ClientSound(now, top, from, due, astray),
         NEW more, \/ more = due /\ due = {}
                   \/ more = due \cup {[life |-> now, id |-> id]},
         QueueCap \in Nat, Len(st.queue) <= QueueCap
  PROVE  /\ Fed(st, id) \in Stream
         /\ StreamSound(Fed(st, id), now, id, from, more, astray)
         /\ Len(Fed(st, id).queue) <= QueueCap
         /\ Fed(st, id).attached = st.attached
         /\ st.registered /\ ~Fed(st, id).registered => Len(st.queue) = QueueCap
         /\ ~FeedPanics(st)
  <1>1. /\ InOrder(st) /\ \A x \in Frames(st) : x <= top
        /\ st.attached => Serves(st, now, from, due, astray)
    BY DEF StreamSound
  <1>2. Frames(st) \in SUBSET Nat /\ id \in Nat /\ top <= id /\ top < id
    BY FramesTyped
  <1>3. \A x \in Frames(st) : x < id
    BY <1>1, <1>2
  <1>4. ~FeedPanics(st)
    BY <1>1 DEF FeedPanics, InOrder
  <1>5. \A f \in more \ due : f.life = now /\ f.id = id
    OBVIOUS
  <1>6. StreamSound(st, now, id, from, due, astray)
    BY <1>1, <1>3, <1>2 DEF StreamSound
  <1>7. CASE ~st.registered
    <2>1. Fed(st, id) = st
      BY <1>7 DEF Fed
    <2>2. st.attached => Serves(st, now, from, more, astray)
      <3>1. \A f \in more : f \in due \/ (f.life = now /\ f.id = id)
        BY <1>5
      <3> QED
        BY <1>1, <1>3, <1>7, <3>1 DEF Serves
    <2> QED
      BY <1>4, <1>6, <1>7, <2>1, <2>2 DEF StreamSound
  <1>8. CASE st.registered /\ ~(Len(st.queue) < QueueCap)
    <2> DEFINE d == Deregistered(st)
    <2>1. Fed(st, id) = d
      BY <1>8 DEF Fed
    <2>2. /\ d \in Stream /\ d.queue = st.queue /\ d.attached = st.attached
          /\ StreamSound(d, now, id, from, due, astray)
          /\ Frames(d) = Frames(st) /\ ~d.registered
      BY <1>6, <1>8, DeregisteredSound
    <2> HIDE DEF d
    <2>3. d.attached => Serves(d, now, from, more, astray)
      <3>1. \A f \in more : f \in due \/ (f.life = now /\ f.id = id)
        BY <1>5
      <3>2. \A x \in Frames(d) : x < id
        BY <1>3, <2>2
      <3> QED
        BY <2>2, <3>1, <3>2 DEF Serves, StreamSound
    <2>4. StreamSound(d, now, id, from, more, astray)
      BY <2>2, <2>3 DEF StreamSound
    <2>5. Len(st.queue) = QueueCap
      BY <1>8, FramesTyped
    <2> QED
      BY <1>4, <2>1, <2>2, <2>4, <2>5
  <1>9. CASE st.registered /\ Len(st.queue) < QueueCap
    <2> DEFINE d == [st EXCEPT !.queue = Append(@, id)]
    <2>1. Fed(st, id) = d
      BY <1>9 DEF Fed
    <2>2. PICK q : Appended(q, st.queue, id)
      BY DEF Appended
    <2> HIDE DEF d
    <2>3. st.queue \in Seq(Nat) /\ Ascending(st.queue) /\ \A i \in DOMAIN st.queue : st.queue[i] < id
      BY <1>1, <1>3, FramesTyped DEF InOrder
    <2>4. /\ q \in Seq(Nat) /\ Ascending(q) /\ Len(q) = Len(st.queue) + 1
          /\ Elems(q) = Elems(st.queue) \cup {id}
      <3>1. id \in Nat
        BY <1>2
      <3> QED
        BY ONLY <2>2, <2>3, <3>1, AppendAscends
    <2>5. /\ d \in Stream
          /\ d.phase = st.phase /\ d.from = st.from /\ d.pending = st.pending
          /\ d.queue = q /\ d.attached = st.attached
          /\ d.registered /\ d.closed = st.closed
      BY <1>9, <2>2, <2>4 DEF Stream, Appended, d
    <2>6. Frames(d) = Frames(st) \cup {id}
      BY <2>4, <2>5 DEF Frames
    <2>7. \A j \in DOMAIN q : q[j] = id \/ \E i \in DOMAIN st.queue : q[j] = st.queue[i]
      <3>1. \A j \in DOMAIN q : q[j] \in Elems(st.queue) \cup {id}
        BY <2>4 DEF Elems
      <3> QED
        BY <3>1 DEF Elems
    <2>8. \A i \in DOMAIN st.pending : st.pending[i] < id
      BY <1>3, FramesTyped
    <2>9. InOrder(d)
      <3>1. \A j \in DOMAIN q : q[j] > Resync /\ \A i \in DOMAIN st.pending : st.pending[i] < q[j]
        <4> SUFFICES ASSUME NEW j \in DOMAIN q
                     PROVE  q[j] > Resync /\ \A i \in DOMAIN st.pending : st.pending[i] < q[j]
          OBVIOUS
        <4>1. CASE q[j] = id
          BY <4>1, <1>2, <2>8 DEF Resync
        <4>2. CASE \E i \in DOMAIN st.queue : q[j] = st.queue[i]
          BY <1>1, <4>2 DEF InOrder
        <4> QED
          BY <2>7, <4>1, <4>2
      <3> QED
        BY <1>1, <1>9, <2>4, <2>5, <3>1 DEF InOrder
    <2>10. d.attached => Serves(d, now, from, more, astray)
      <3> SUFFICES ASSUME d.attached PROVE Serves(d, now, from, more, astray)
        OBVIOUS
      <3>1. Serves(st, now, from, due, astray) /\ st.phase = "live" /\ d.phase = "live"
        BY <1>1, <1>9, <2>5 DEF InOrder
      <3>2. from # NoEvent /\ from.life = now => id > from.id
        <4>1. from # NoEvent /\ from.life = now => from.id <= top /\ from.id \in Int
          <5>1. from # NoEvent => Published(from, now, top)
            BY DEF ClientSound
          <5> QED
            BY <5>1 DEF Published, Event
        <4> QED
          BY <4>1
      <3>3. from # NoEvent /\ from.life = now => \A x \in Frames(d) : x = Resync \/ x > from.id
        BY <2>6, <3>1, <3>2 DEF Serves
      <3>4. ASSUME ~astray, ~ResyncAhead(d), NEW f \in more
            PROVE  f.life = now /\ f.id \in Frames(d)
        <4>1. CASE f \in due
          BY <4>1, <3>1, <3>4, <2>5, <2>6, <1>9 DEF Serves, ResyncAhead
        <4>2. CASE f \notin due
          BY <4>2, <3>4, <1>5, <2>6
        <4> QED
          BY <4>1, <4>2
      <3> QED
        BY <3>1, <3>3, <3>4 DEF Serves
    <2>11. \A x \in Frames(d) : x <= id
      BY <1>2, <1>3, <2>6
    <2>12. StreamSound(d, now, id, from, more, astray)
      BY <2>9, <2>10, <2>11 DEF StreamSound
    <2>13. Len(q) <= QueueCap
      BY <1>9, <2>3, <2>4
    <2> QED
      BY <1>4, <2>1, <2>5, <2>12, <2>13
  <1> QED
    BY <1>7, <1>8, <1>9

\* What Serve writes next, and what it leaves.
Source(st) == IF st.pending # <<>> THEN st.pending ELSE st.queue

Drained(st) == IF st.pending # <<>> THEN [st EXCEPT !.pending = Tail(@)]
               ELSE [st EXCEPT !.queue = Tail(@)]

\* Serve writes the least frame of a stream, and leaves the others.
LEMMA DrainedFacts ==
  ASSUME NEW st \in Stream, InOrder(st), st.phase = "live", Source(st) # <<>>
  PROVE  /\ Drained(st) \in Stream /\ InOrder(Drained(st))
         /\ Len(Drained(st).queue) <= Len(st.queue)
         /\ Drained(st).phase = "live"
         /\ Drained(st).attached = st.attached
         /\ Drained(st).registered = st.registered
         /\ Head(Source(st)) \in Nat
         /\ Frames(st) = {Head(Source(st))} \cup Frames(Drained(st))
         /\ \A x \in Frames(Drained(st)) : x > Head(Source(st))
         /\ ResyncAhead(st) => Head(Source(st)) = Resync
  <1> DEFINE d == Drained(st)
  <1>1. /\ st.pending \in Seq(Nat) /\ st.queue \in Seq(Nat)
        /\ Ascending(st.pending) /\ Ascending(st.queue)
        /\ \A i \in DOMAIN st.pending : st.pending[i] \in Nat
        /\ \A i \in DOMAIN st.queue : st.queue[i] \in Nat
    BY FramesTyped DEF InOrder
  <1>2. CASE st.pending # <<>>
    <2>1. PICK t : Rest(t, st.pending)
      BY DEF Rest
    <2>2. /\ t \in Seq(Nat) /\ Ascending(t) /\ Len(t) = Len(st.pending) - 1
          /\ Head(st.pending) = st.pending[1] /\ 1 \in DOMAIN st.pending
          /\ \A i \in DOMAIN t : t[i] > st.pending[1]
          /\ Elems(st.pending) = {st.pending[1]} \cup Elems(t)
      BY ONLY <1>1, <1>2, <2>1, TailAscends
    <2>3. /\ d \in Stream /\ d.pending = t /\ d.queue = st.queue /\ d.phase = st.phase
          /\ d.attached = st.attached /\ d.registered = st.registered
          /\ d.closed = st.closed
      BY <1>2, <2>1, <2>2 DEF Drained, Stream, Rest
    <2> HIDE DEF d
    <2>4. Head(Source(st)) = st.pending[1]
      BY <1>2, <2>2 DEF Source
    <2>5. \A i \in DOMAIN t : \E j \in DOMAIN st.pending : t[i] = st.pending[j]
      <3>1. \A i \in DOMAIN t : t[i] \in Elems(st.pending)
        BY <2>2 DEF Elems
      <3> QED
        BY <3>1 DEF Elems
    <2>6. InOrder(d)
      <3>1. \A j \in DOMAIN st.queue : /\ st.queue[j] > Resync
                                       /\ \A i \in DOMAIN t : t[i] < st.queue[j]
        BY <2>5 DEF InOrder
      <3> QED
        BY <1>1, <2>2, <2>3, <3>1 DEF InOrder
    <2>7. Frames(st) = {st.pending[1]} \cup Frames(d)
      <3>1. Frames(d) = Elems(t) \cup Elems(st.queue)
        BY <2>3 DEF Frames
      <3> QED
        BY <2>2, <3>1 DEF Frames
    <2>8. \A x \in Frames(d) : x > st.pending[1]
      <3>1. Frames(d) = Elems(t) \cup Elems(st.queue)
        BY <2>3 DEF Frames
      <3>2. st.pending[1] \in Nat /\ \A j \in DOMAIN st.queue : st.queue[j] \in Nat /\ st.pending[1] < st.queue[j]
        BY <1>1, <2>2 DEF InOrder
      <3>3. \A j \in DOMAIN st.queue : st.queue[j] > st.pending[1]
        BY <3>2
      <3> QED
        BY <2>2, <3>1, <3>3 DEF Elems
    <2>9. Len(d.queue) <= Len(st.queue)
      BY <1>1, <2>3
    <2>10. ResyncAhead(st) => st.pending[1] = Resync
      BY DEF ResyncAhead
    <2> QED
      BY <1>1, <2>2, <2>3, <2>4, <2>6, <2>7, <2>8, <2>9, <2>10 DEF d
  <1>3. CASE st.pending = <<>>
    <2>0. st.queue # <<>>
      BY <1>3 DEF Source
    <2>1. PICK t : Rest(t, st.queue)
      BY DEF Rest
    <2>2. /\ t \in Seq(Nat) /\ Ascending(t) /\ Len(t) = Len(st.queue) - 1
          /\ Head(st.queue) = st.queue[1] /\ 1 \in DOMAIN st.queue
          /\ \A i \in DOMAIN t : t[i] > st.queue[1]
          /\ Elems(st.queue) = {st.queue[1]} \cup Elems(t)
      BY ONLY <1>1, <2>0, <2>1, TailAscends
    <2>3. /\ d \in Stream /\ d.pending = <<>> /\ d.queue = t /\ d.phase = st.phase
          /\ d.attached = st.attached /\ d.registered = st.registered
          /\ d.closed = st.closed
      BY <1>3, <2>1, <2>2 DEF Drained, Stream, Rest
    <2> HIDE DEF d
    <2>4. Head(Source(st)) = st.queue[1]
      BY <1>3, <2>2 DEF Source
    <2>5. \A i \in DOMAIN t : \E j \in DOMAIN st.queue : t[i] = st.queue[j]
      <3>1. \A i \in DOMAIN t : t[i] \in Elems(st.queue)
        BY <2>2 DEF Elems
      <3> QED
        BY <3>1 DEF Elems
    <2>6. InOrder(d)
      <3>1. \A j \in DOMAIN t : t[j] > Resync
        BY <2>5 DEF InOrder
      <3>2. \A i \in DOMAIN d.pending : FALSE
        BY <2>3
      <3>3. Ascending(d.pending)
        BY <3>2 DEF Ascending
      <3> QED
        BY <1>1, <2>2, <2>3, <3>1, <3>2, <3>3 DEF InOrder
    <2>7. Frames(d) = Elems(t)
      BY <2>3 DEF Frames, Elems
    <2>8. Frames(st) = Elems(st.queue)
      BY <1>3 DEF Frames, Elems
    <2>11. \A x \in Elems(t) : x > st.queue[1]
      BY <2>2 DEF Elems
    <2>9. Len(d.queue) <= Len(st.queue)
      BY <1>1, <2>2, <2>3
    <2>10. ~ResyncAhead(st)
      BY <1>3 DEF ResyncAhead
    <2> QED
      BY <1>1, <2>2, <2>3, <2>4, <2>6, <2>7, <2>8, <2>9, <2>10, <2>11 DEF d
  <1> QED
    BY <1>2, <1>3

IsFirst(x, st) == x = Head(Source(st))
IsEvent(e, now, x) == e = [life |-> now, id |-> x]
Fresh(e, from) == from # NoEvent => Newer(e, from)

\* The first frame of what a client reads is newer than all it has seen, and
\* none that is owed comes before it.
LEMMA FrameInTurn ==
  ASSUME NEW st \in Stream, NEW now \in Nat, NEW top \in Nat,
         NEW from \in Event \cup {NoEvent}, NEW due \in SUBSET Event,
         NEW astray,
         StreamSound(st, now, top, from, due, astray),
         ClientSound(now, top, from, due, astray),
         st.phase = "live", st.attached, Source(st) # <<>>,
         NEW x, IsFirst(x, st), x # Resync,
         NEW e, IsEvent(e, now, x)
  PROVE  /\ e \in Event /\ x \in 1..top
         /\ Fresh(e, from)
         /\ ClientSound(now, top, e, due \ {e}, astray)
         /\ Drained(st) \in Stream
         /\ StreamSound(Drained(st), now, top, e, due \ {e}, astray)
  <1>1. /\ InOrder(st) /\ \A y \in Frames(st) : y <= top
        /\ Serves(st, now, from, due, astray)
    BY DEF StreamSound
  <1> DEFINE d == Drained(st)
  <1>2. /\ d \in Stream /\ InOrder(d) /\ d.phase = "live" /\ d.attached
        /\ d.registered = st.registered
        /\ x \in Nat /\ Frames(st) = {x} \cup Frames(d)
        /\ \A y \in Frames(d) : y > x
        /\ ~ResyncAhead(st)
    BY <1>1, DrainedFacts DEF IsFirst
  <1> HIDE DEF d
  <1>3. Frames(d) \in SUBSET Nat
    BY <1>2, FramesTyped
  <1>4. e \in Event /\ x \in 1..top /\ e.life = now /\ e.id = x
    BY <1>1, <1>2 DEF Event, Resync, IsEvent
  <1>5. Fresh(e, from)
    <2> SUFFICES ASSUME from # NoEvent PROVE Newer(e, from)
      BY DEF Fresh
    <2>1. from.life \in Nat /\ from.id \in Nat /\ Published(from, now, top)
      BY DEF Event, ClientSound
    <2>2. from.life = now => x > from.id
      BY <1>1, <1>2 DEF Serves
    <2> QED
      BY <1>4, <2>1, <2>2 DEF Newer, Published
  <1>6. ASSUME ~astray, NEW f \in due \ {e}
        PROVE  /\ f.life = now /\ f.id > x
               /\ f.id \in Frames(d) \/ (~d.registered /\ \A y \in Frames(d) : y < f.id)
    <2>1. /\ f.life = now
          /\ f.id \in Frames(st) \/ (~st.registered /\ \A y \in Frames(st) : y < f.id)
      BY <1>1, <1>2, <1>6 DEF Serves
    <2>2. f.id # x /\ f.id \in Nat
      BY <1>6, <2>1 DEF Event, IsEvent
    <2>3. CASE f.id \in Frames(st)
      BY <1>2, <2>1, <2>2, <2>3
    <2>4. CASE ~st.registered /\ \A y \in Frames(st) : y < f.id
      BY <1>2, <2>1, <2>2, <2>4
    <2> QED
      BY <2>1, <2>3, <2>4
  <1>7. \A f \in due \ {e} : ~astray => Newer(f, e)
    BY <1>4, <1>6 DEF Newer
  <1>8. ClientSound(now, top, e, due \ {e}, astray)
    <2>1. Published(e, now, top)
      BY <1>4 DEF Published
    <2>2. e # NoEvent
      BY <1>4, HubAssumption DEF Event
    <2> QED
      BY <1>7, <2>1, <2>2 DEF ClientSound
  <1>9. Serves(d, now, e, due \ {e}, astray)
    BY <1>2, <1>4, <1>6 DEF Serves
  <1>10. StreamSound(d, now, top, e, due \ {e}, astray)
    BY <1>1, <1>2, <1>9 DEF StreamSound
  <1> QED
    BY <1>2, <1>4, <1>5, <1>7, <1>8, <1>10 DEF d

Resumed(t, s, from) == t = Resume(s, from)

\* What subscribe decides is in order, of this life, beyond what the client
\* saw; unless it is a resync, it holds whatever is found beyond.
LEMMA ResumeFacts ==
  ASSUME NEW top \in Nat, NEW s \in Seq(1..top), Ascending(s),
         NEW from \in Event \cup {NoEvent}, NEW t, Resumed(t, s, from)
  PROVE  /\ t \in Seq(Nat) /\ Ascending(t)
         /\ \A x \in Elems(t) : x <= top
         /\ from # NoEvent => \A x \in Elems(t) : x = Resync \/ x > from.id
         /\ from # NoEvent /\ from.id > 0 /\ ~(t # <<>> /\ t[1] = Resync) =>
               \A n \in Nat : n > from.id /\ Found(s, n) => n \in Elems(t)
  <1>1. s \in Seq(Nat) /\ \A i \in 1..Len(s) : s[i] \in 1..top
    OBVIOUS
  <1>2. <<>> \in Seq(Nat) /\ Ascending(<<>>) /\ Elems(<<>>) = {}
    BY DEF Ascending, Elems
  <1>3. /\ <<Resync>> \in Seq(Nat) /\ Ascending(<<Resync>>)
        /\ Elems(<<Resync>>) = {Resync}
        /\ <<Resync>> # <<>> /\ <<Resync>>[1] = Resync
    <2>1. /\ <<Resync>> \in Seq(Nat) /\ DOMAIN <<Resync>> = {1} /\ <<Resync>>[1] = Resync
          /\ <<Resync>> # <<>>
      BY DEF Resync
    <2> QED
      BY <2>1 DEF Ascending, Elems
  <1>4. CASE t = <<>> /\ (from = NoEvent \/ (from # NoEvent /\ ~(from.id > 0)))
    BY <1>2, <1>4
  <1>5. CASE t = <<Resync>>
    BY <1>3, <1>5 DEF Resync
  <1>6. CASE /\ from # NoEvent /\ s # <<>> /\ ~(from.id + 1 < s[1])
             /\ t = After(s, from.id)
    <2>1. from.id \in Nat
      BY <1>6 DEF Event
    <2>2. PICK id \in Nat : id = from.id
      BY <2>1
    <2>3. Replay(t, s, id)
      BY <1>6, <2>2 DEF Replay
    <2>4. /\ t \in Seq(Nat) /\ Ascending(t)
          /\ \A i \in 1..Len(t) : t[i] > id /\ \E j \in 1..Len(s) : s[j] = t[i]
          /\ \A j \in 1..Len(s) : s[j] > id => \E i \in 1..Len(t) : t[i] = s[j]
      BY ONLY <1>1, <2>3, Ascending(s), AfterFacts
    <2>5. DOMAIN t = 1..Len(t)
      BY <2>4
    <2>6. \A x \in Elems(t) : x <= top /\ x > id
      <3>1. ASSUME NEW i \in 1..Len(t) PROVE t[i] <= top /\ t[i] > id
        <4>1. PICK j \in 1..Len(s) : s[j] = t[i]
          BY <2>4
        <4>2. s[j] \in 1..top
          BY <1>1
        <4> QED
          BY <2>4, <4>1, <4>2
      <3> QED
        BY <2>5, <3>1 DEF Elems
    <2>7. ASSUME NEW n \in Nat, n > id, Found(s, n)
          PROVE  n \in Elems(t)
      <3>1. ~(n < s[1])
        <4>1. s[1] \in Nat /\ ~(id + 1 < s[1])
          BY <1>1, <1>6, <2>2
        <4> QED
          BY <2>7, <4>1
      <3>2. PICK j \in 1..Len(s) : s[j] = n
        BY <1>6, <2>7, <3>1 DEF Found
      <3>3. PICK i \in 1..Len(t) : t[i] = n
        BY <2>4, <2>7, <3>2
      <3> QED
        BY <2>5, <3>3 DEF Elems
    <2> QED
      BY <2>2, <2>4, <2>6, <2>7
  <1> QED
    BY <1>4, <1>5, <1>6 DEF Resume, Resumed

Subscribed(st, first) ==
    [st EXCEPT !.phase = "live", !.from = NoEvent, !.pending = first, !.registered = TRUE]

\* An exception stays, and a client mistaken for one of this life gets it.
Excepts(st, first, now, astray, more) ==
    /\ astray => more
    /\ st.attached /\ st.from # NoEvent /\ st.from.life < now /\ first # <<Resync>>
          => more

\* subscribe: the replay and the live feed together hold all that is owed, or
\* the replay is a resync, or the client is one mistaken for another life's.
LEMMA SubscribedSound ==
  ASSUME NEW st \in Stream, NEW now \in Nat, NEW top \in Nat,
         NEW from \in Event \cup {NoEvent}, NEW due \in SUBSET Event,
         NEW astray,
         StreamSound(st, now, top, from, due, astray),
         ClientSound(now, top, from, due, astray),
         st.phase = "requested",
         NEW s \in Seq(1..top), Ascending(s),
         \A f \in due : f.life = now => Found(s, f.id),
         NEW first, Resumed(first, s, st.from),
         NEW more, Excepts(st, first, now, astray, more)
  PROVE  /\ Subscribed(st, first) \in Stream
         /\ StreamSound(Subscribed(st, first), now, top, from, due, more)
         /\ Len(Subscribed(st, first).queue) = 0
         /\ Subscribed(st, first).attached = st.attached
         /\ Subscribed(st, first).registered
         /\ ~st.registered
  <1> DEFINE d == Subscribed(st, first)
  <1>1. /\ InOrder(st) /\ st.pending = <<>> /\ st.queue = <<>> /\ ~st.closed
        /\ ~st.registered /\ st.from \in Event \cup {NoEvent}
        /\ st.attached => st.from = from
    BY DEF StreamSound, InOrder, Serves, Stream
  <1>2. /\ first \in Seq(Nat) /\ Ascending(first)
        /\ \A x \in Elems(first) : x <= top
        /\ st.from # NoEvent => \A x \in Elems(first) : x = Resync \/ x > st.from.id
        /\ st.from # NoEvent /\ st.from.id > 0 /\ ~(first # <<>> /\ first[1] = Resync) =>
              \A n \in Nat : n > st.from.id /\ Found(s, n) => n \in Elems(first)
    BY <1>1, ResumeFacts
  <1>3. /\ d \in Stream /\ d.phase = "live" /\ d.pending = first /\ d.queue = <<>>
        /\ d.registered /\ ~d.closed /\ d.attached = st.attached
    BY <1>1, <1>2 DEF Subscribed, Stream
  <1> HIDE DEF d
  <1>4. Frames(d) = Elems(first)
    BY <1>3 DEF Frames, Elems
  <1>5. InOrder(d)
    BY <1>1, <1>2, <1>3 DEF InOrder
  <1>6. ASSUME st.attached PROVE Serves(d, now, from, due, more)
    <2>1. from # NoEvent /\ from.life = now => \A x \in Frames(d) : x = Resync \/ x > from.id
      BY <1>1, <1>2, <1>4, <1>6
    <2>2. ASSUME ~more, ~ResyncAhead(d), NEW f \in due
          PROVE  f.life = now /\ f.id \in Frames(d)
      <3>1. from # NoEvent /\ st.from = from /\ ~astray
        BY <1>1, <1>6, <2>2 DEF ClientSound, Excepts
      <3>2. from.life \in Nat /\ from.id \in Nat /\ f.life \in Nat /\ f.id \in Nat
        BY <3>1 DEF Event
      <3>3. Published(from, now, top) /\ Published(f, now, top) /\ Newer(f, from)
        BY <2>2, <3>1 DEF ClientSound
      <3>4. ~(first # <<>> /\ first[1] = Resync)
        BY <1>3, <2>2 DEF ResyncAhead
      <3>5. first # <<Resync>>
        BY <3>4
      <3>6. ~(from.life < now)
        BY <1>6, <2>2, <3>1, <3>5 DEF Excepts
      <3>7. from.life = now /\ f.life = now /\ f.id > from.id /\ from.id > 0
        BY <3>2, <3>3, <3>6 DEF Published, Newer
      <3>8. Found(s, f.id)
        BY <3>7
      <3> QED
        BY <1>2, <1>4, <3>1, <3>2, <3>4, <3>7, <3>8
    <2> QED
      BY <1>3, <2>1, <2>2 DEF Serves
  <1>7. StreamSound(d, now, top, from, due, more)
    BY <1>2, <1>3, <1>4, <1>5, <1>6 DEF StreamSound
  <1> QED
    BY <1>1, <1>3, <1>7 DEF d

Requested(from) ==
    [FreeStream EXCEPT !.phase = "requested", !.from = from, !.attached = TRUE]

LEMMA RequestedSound ==
  ASSUME NEW now, NEW top, NEW from \in Event \cup {NoEvent}, NEW due, NEW astray
  PROVE  /\ Requested(from) \in Stream
         /\ StreamSound(Requested(from), now, top, from, due, astray)
         /\ Len(Requested(from).queue) = 0
         /\ ~Requested(from).registered
  <1> DEFINE d == Requested(from)
  <1>1. /\ d \in Stream /\ d.phase = "requested" /\ d.from = from /\ d.attached
        /\ d.pending = <<>> /\ d.queue = <<>> /\ ~d.closed /\ ~d.registered
    <2>1. /\ FreeStream \in Stream /\ FreeStream.pending = <<>> /\ FreeStream.queue = <<>>
          /\ ~FreeStream.closed /\ ~FreeStream.registered
      BY DEF FreeStream, Stream
    <2> QED
      BY <2>1 DEF Requested, Stream
  <1> HIDE DEF d
  <1>2. InOrder(d)
    BY <1>1 DEF InOrder, Ascending
  <1>3. Frames(d) = {}
    BY <1>1 DEF Frames, Elems
  <1>4. Serves(d, now, from, due, astray)
    BY <1>1 DEF Serves
  <1>5. Len(d.queue) = 0
    BY <1>1
  <1> QED
    BY <1>1, <1>2, <1>3, <1>4, <1>5 DEF StreamSound, d

LEMMA DetachedSound ==
  ASSUME NEW st \in Stream, NEW now, NEW top, NEW from, NEW due, NEW astray,
         StreamSound(st, now, top, from, due, astray),
         NEW d, d = [st EXCEPT !.attached = FALSE]
  PROVE  /\ d \in Stream /\ StreamSound(d, now, top, from, due, astray)
         /\ d.queue = st.queue /\ d.registered = st.registered /\ ~d.attached
  <1>1. /\ d \in Stream /\ d.phase = st.phase /\ d.pending = st.pending
        /\ d.queue = st.queue /\ d.registered = st.registered
        /\ d.closed = st.closed /\ ~d.attached
    BY DEF Stream
  <1>2. Frames(d) = Frames(st)
    BY <1>1 DEF Frames
  <1>3. InOrder(d)
    BY <1>1 DEF StreamSound, InOrder
  <1>4. \A x \in Frames(d) : x <= top
    BY <1>2 DEF StreamSound
  <1> QED
    BY <1>1, <1>3, <1>4 DEF StreamSound

-----------------------------------------------------------------------------
(* The invariant holds.                                                    *)

LEMMA InvFacts ==
  ASSUME IInv
  PROVE  /\ life \in Nat /\ life >= 1 /\ lastID \in Nat
         /\ stream \in [Clients -> [Slots -> Stream]]
         /\ \A u \in Users : /\ buf[u] \in Seq(1..lastID) /\ buf[u] \in Seq(Nat)
                             /\ \A i \in DOMAIN buf[u] : buf[u][i] \in 1..lastID
                             /\ Ascending(buf[u])
         /\ \A c \in Clients :
               /\ UserOf[c] \in Users
               /\ last[c] \in Event \cup {NoEvent}
               /\ owed[c] \in SUBSET Event
               /\ stale[c] \in BOOLEAN
               /\ ClientSound(life, lastID, last[c], owed[c], stale[c])
         /\ \A c \in Clients, k \in Slots :
               /\ stream[c][k] \in Stream
               /\ Len(stream[c][k].queue) <= QueueCap
               /\ StreamSound(stream[c][k], life, lastID, last[c], owed[c], stale[c])
  <1>1. /\ life \in Nat /\ life >= 1 /\ lastID \in Nat
        /\ stream \in [Clients -> [Slots -> Stream]]
    BY HubAssumption DEF IInv, TypeOK
  <1>2. \A u \in Users : /\ buf[u] \in Seq(1..lastID) /\ Ascending(buf[u])
    BY DEF IInv, TypeOK, BuffersSound
  <1>3. ASSUME NEW u \in Users
        PROVE  buf[u] \in Seq(Nat) /\ \A i \in DOMAIN buf[u] : buf[u][i] \in 1..lastID
    BY <1>1, <1>2
  <1>4. \A c \in Clients :
               /\ UserOf[c] \in Users
               /\ last[c] \in Event \cup {NoEvent}
               /\ owed[c] \in SUBSET Event
               /\ stale[c] \in BOOLEAN
               /\ ClientSound(life, lastID, last[c], owed[c], stale[c])
    BY HubAssumption DEF IInv, TypeOK, ClientsSound
  <1>5. \A c \in Clients, k \in Slots :
               /\ stream[c][k] \in Stream
               /\ Len(stream[c][k].queue) <= QueueCap
               /\ StreamSound(stream[c][k], life, lastID, last[c], owed[c], stale[c])
    BY <1>1 DEF IInv, TypeOK, StreamsSound
  <1> QED
    BY <1>1, <1>2, <1>3, <1>4, <1>5

LEMMA InvInit == Init => IInv
  <1> SUFFICES ASSUME Init PROVE IInv
    OBVIOUS
  <1>1. FreeStream \in Stream /\ Len(FreeStream.queue) = 0
    BY FreeStreamSound
  <1>2. TypeOK
    <2>1. <<>> \in Seq(1..lastID) /\ Len(<<>>) = 0
      OBVIOUS
    <2>2. buf \in [Users -> Seq(1..lastID)] /\ \A u \in Users : Len(buf[u]) <= MaxEvents
      BY <2>1, HubAssumption DEF Init
    <2>3. /\ stream \in [Clients -> [Slots -> Stream]]
          /\ \A c \in Clients, k \in Slots : Len(stream[c][k].queue) <= QueueCap
      BY <1>1, HubAssumption DEF Init
    <2>4. life \in 1..MaxLives /\ lastID \in Nat /\ drops \in 0..MaxDrops
      BY HubAssumption DEF Init
    <2> QED
      BY <2>2, <2>3, <2>4 DEF Init, TypeOK
  <1>3. BuffersSound
    BY HubAssumption DEF Init, BuffersSound, Ascending
  <1>4. ClientsSound
    BY DEF Init, ClientsSound, ClientSound
  <1>5. StreamsSound
    BY FreeStreamSound DEF Init, StreamsSound
  <1>6. SessionsTogether
    BY DEF Init, SessionsTogether
  <1> QED
    BY <1>2, <1>3, <1>4, <1>5, <1>6 DEF IInv, Init

\* Publish and Broadcast.
LEMMA SendInv ==
  ASSUME IInv, NEW to \in SUBSET Users, known' \in SUBSET Users, Send(to)
  PROVE  /\ IInv'
         /\ \A c \in Clients, k \in Slots :
              stream[c][k].registered /\ ~stream'[c][k].registered =>
                 Len(stream[c][k].queue) = QueueCap
  <1> DEFINE id == lastID + 1
  <1>1. /\ id <= MaxId /\ lastID' = id /\ id \in Nat /\ lastID < id
        /\ UNCHANGED <<life, session, last, stale, drops>>
    BY InvFacts DEF Send
  <1>2. /\ buf' \in [Users -> Seq(1..lastID')]
        /\ \A u \in Users : Len(buf'[u]) <= MaxEvents
        /\ \A u \in Users : Ascending(buf'[u])
        /\ \A u \in Users : \A n \in Nat : n < id /\ Found(buf[u], n) => Found(buf'[u], n)
        /\ \A u \in to : Found(buf'[u], id)
    <2>1. PICK kept \in [to -> UNION {Pruned(Append(buf[u], id)) : u \in to}] :
             /\ \A u \in to : kept[u] \in Pruned(Append(buf[u], id))
             /\ buf' = [u \in Users |-> IF u \in to THEN kept[u] ELSE buf[u]]
      BY DEF Send
    <2>2. ASSUME NEW u \in to
          PROVE  /\ buf'[u] \in Seq(1..id) /\ Len(buf'[u]) <= MaxEvents /\ Ascending(buf'[u])
                 /\ Found(buf'[u], id)
                 /\ \A n \in Nat : n < id /\ Found(buf[u], n) => Found(buf'[u], n)
      <3>1. PICK s : Appended(s, buf[u], id)
        BY DEF Appended
      <3>2. /\ buf[u] \in Seq(Nat) /\ Ascending(buf[u]) /\ \A i \in DOMAIN buf[u] : buf[u][i] \in 1..lastID
        BY InvFacts
      <3>3. \A i \in DOMAIN buf[u] : buf[u][i] < id
        BY <1>1, <3>2, InvFacts
      <3>4. /\ s \in Seq(Nat) /\ Ascending(s)
            /\ Elems(s) = Elems(buf[u]) \cup {id}
        <4>1. id \in Nat
          BY <1>1
        <4> HIDE DEF id
        <4> QED
          BY ONLY <3>1, <3>2, <3>3, <4>1, AppendAscends
      <3>5. /\ Found(s, id)
            /\ \A n \in Nat : n < id /\ Found(buf[u], n) => Found(s, n)
        <4>1. id \in Nat
          BY <1>1
        <4> HIDE DEF id
        <4> QED
          BY ONLY <3>1, <3>2, <3>3, <4>1, FoundAppended
      <3>6. buf'[u] \in Pruned(s)
        BY <2>1, <3>1 DEF Appended
      <3>7. /\ buf'[u] \in Seq(Nat) /\ Ascending(buf'[u])
            /\ \A i \in 1..Len(buf'[u]) : \E j \in 1..Len(s) : s[j] = buf'[u][i]
        BY ONLY <3>4, <3>6, PrunedInOrder
      <3>8. Len(buf'[u]) <= MaxEvents
        BY ONLY <3>4, <3>6, PrunedFacts
      <3>9. \A n \in Nat : Found(s, n) => Found(buf'[u], n)
        BY ONLY <3>4, <3>6, FoundKept
      <3>10. \A i \in 1..Len(buf'[u]) : buf'[u][i] \in 1..id
        <4>1. \A j \in 1..Len(s) : s[j] = id \/ \E i \in DOMAIN buf[u] : s[j] = buf[u][i]
          <5>1. DOMAIN s = 1..Len(s) /\ \A j \in DOMAIN s : s[j] \in Elems(s)
            BY <3>4 DEF Elems
          <5> QED
            BY <3>4, <5>1 DEF Elems
        <4>2. id \in 1..id /\ \A x \in 1..lastID : x \in 1..id
          BY <1>1, InvFacts
        <4>3. \A j \in 1..Len(s) : s[j] \in 1..id
          BY <3>2, <4>1, <4>2
        <4> QED
          BY <3>7, <4>3
      <3>11. buf'[u] \in Seq(1..id)
        BY ONLY <3>7, <3>10, SeqOver
      <3> QED
        BY <1>1, <3>5, <3>7, <3>8, <3>9, <3>11
    <2>3. ASSUME NEW u \in Users \ to
          PROVE  /\ buf'[u] = buf[u] /\ buf'[u] \in Seq(1..id) /\ Len(buf'[u]) <= MaxEvents
                 /\ Ascending(buf'[u])
      <3>1. buf'[u] = buf[u]
        BY <2>1
      <3>2. buf[u] \in Seq(Nat) /\ \A i \in DOMAIN buf[u] : buf[u][i] \in 1..id
        BY <1>1, InvFacts
      <3>3. buf[u] \in Seq(1..id)
        <4>1. \A i \in 1..Len(buf[u]) : buf[u][i] \in 1..id
          BY <3>2
        <4> QED
          BY ONLY <3>2, <4>1, SeqOver
      <3> QED
        BY <3>1, <3>3, InvFacts DEF IInv, TypeOK
    <2>4. buf' = [u \in Users |-> buf'[u]]
      BY <2>1
    <2> HIDE DEF id
    <2> QED
      BY <1>1, <2>2, <2>3, <2>4
  <1>3. \A c \in Clients :
          /\ owed'[c] \in SUBSET Event
          /\ UserOf[c] \in to /\ last[c] # NoEvent =>
                owed'[c] = owed[c] \cup {[life |-> life, id |-> id]}
          /\ ~(UserOf[c] \in to /\ last[c] # NoEvent) => owed'[c] = owed[c]
    BY <1>1, InvFacts DEF Send, Event
  <1>4. \A c \in Clients, k \in Slots :
          stream'[c][k] = IF UserOf[c] \in to THEN Fed(stream[c][k], id) ELSE stream[c][k]
    BY DEF Send
  <1> HIDE DEF id
  <1>5. ASSUME NEW c \in Clients, NEW k \in Slots
        PROVE  /\ stream'[c][k] \in Stream
               /\ Len(stream'[c][k].queue) <= QueueCap
               /\ StreamSound(stream'[c][k], life, id, last[c], owed'[c], stale[c])
               /\ stream'[c][k].attached = stream[c][k].attached
               /\ stream[c][k].registered /\ ~stream'[c][k].registered =>
                     Len(stream[c][k].queue) = QueueCap
               /\ UserOf[c] \in to => ~FeedPanics(stream[c][k])
    <2> DEFINE st == stream[c][k]
    <2>1. /\ st \in Stream /\ Len(st.queue) <= QueueCap /\ QueueCap \in Nat
          /\ StreamSound(st, life, lastID, last[c], owed[c], stale[c])
          /\ ClientSound(life, lastID, last[c], owed[c], stale[c])
          /\ last[c] \in Event \cup {NoEvent} /\ lastID \in Nat
          /\ stale[c] \in BOOLEAN
      BY InvFacts, HubAssumption
    <2>2. CASE UserOf[c] \in to
      <3>1. \/ owed'[c] = owed[c] /\ owed[c] = {}
            \/ owed'[c] = owed[c] \cup {[life |-> life, id |-> id]}
        BY <1>3, <2>1, <2>2 DEF ClientSound
      <3>2. stream'[c][k] = Fed(st, id)
        BY <1>4, <2>2
      <3>3. id = lastID + 1
        BY DEF id
      <3> HIDE DEF st
      <3>4. /\ Fed(st, id) \in Stream
            /\ StreamSound(Fed(st, id), life, id, last[c], owed'[c], stale[c])
            /\ Len(Fed(st, id).queue) <= QueueCap
            /\ Fed(st, id).attached = st.attached
            /\ st.registered /\ ~Fed(st, id).registered => Len(st.queue) = QueueCap
            /\ ~FeedPanics(st)
        BY <2>1, <3>1, <3>3, FedSound
      <3> QED
        BY <3>2, <3>4 DEF st
    <2>3. CASE UserOf[c] \notin to
      <3>1. stream'[c][k] = st /\ owed'[c] = owed[c]
        BY <1>3, <1>4, <2>3
      <3>2. StreamSound(st, life, id, last[c], owed[c], stale[c])
        <4>1. id \in Nat /\ lastID <= id
          BY <1>1, <2>1
        <4> HIDE DEF st
        <4> QED
          BY <2>1, <4>1, SoundLater
      <3> QED
        BY <2>1, <2>3, <3>1, <3>2
    <2> QED
      BY <2>2, <2>3
  <1>6. ~panicked'
    <2>1. panicked' = (panicked \/ \E c \in Clients, k \in Slots :
                          UserOf[c] \in to /\ FeedPanics(stream[c][k]))
      BY DEF Send
    <2> QED
      BY <1>5, <2>1 DEF IInv
  <1>7. TypeOK'
    <2>1. stream' = [c \in Clients |-> [k \in Slots |-> stream'[c][k]]]
      BY DEF Send
    <2>2. stream' \in [Clients -> [Slots -> Stream]]
      BY <1>5, <2>1
    <2>3. owed' \in [Clients -> SUBSET Event]
      <3>1. owed' = [c \in Clients |-> owed'[c]]
        BY DEF Send
      <3> QED
        BY <1>3, <3>1
    <2>4. panicked' \in BOOLEAN
      BY DEF Send
    <2>5. \A c \in Clients, k \in Slots : Len(stream'[c][k].queue) <= QueueCap
      BY <1>5
    <2> QED
      BY <1>1, <1>2, <2>2, <2>3, <2>4, <2>5 DEF IInv, TypeOK
  <1>8. \A c \in Clients : \A f \in owed'[c] :
           f \in owed[c] \/ (f.life = life /\ f.id = id /\ UserOf[c] \in to /\ last[c] # NoEvent)
    BY <1>3
  <1>9. BuffersSound'
    <2>1. ASSUME NEW c \in Clients, NEW f \in owed'[c], f.life = life
          PROVE  Found(buf'[UserOf[c]], f.id)
      <3>1. CASE f \in owed[c]
        <4>1. f \in Event /\ Published(f, life, lastID) /\ Found(buf[UserOf[c]], f.id)
          BY <2>1, <3>1, InvFacts DEF IInv, BuffersSound, ClientSound
        <4>2. f.id \in Nat /\ f.id < id
          BY <1>1, <2>1, <4>1, InvFacts DEF Published, Event
        <4> QED
          BY <1>2, <4>1, <4>2, InvFacts
      <3>2. CASE f \notin owed[c]
        BY <1>2, <1>8, <3>2
      <3> QED
        BY <3>1, <3>2
    <2> QED
      BY <1>1, <1>2, <2>1 DEF BuffersSound
  <1>10. ClientsSound'
    <2> SUFFICES ASSUME NEW c \in Clients
                 PROVE  ClientSound(life, id, last[c], owed'[c], stale[c])
      BY <1>1 DEF ClientsSound
    <2>1. /\ ClientSound(life, lastID, last[c], owed[c], stale[c])
          /\ last[c] \in Event \cup {NoEvent} /\ owed[c] \in SUBSET Event
          /\ owed'[c] \in SUBSET Event
      BY <1>3, InvFacts
    <2>2. ASSUME NEW f \in Event, Published(f, life, lastID)
          PROVE  Published(f, life, id)
      BY <1>1, <2>2, InvFacts DEF Published, Event
    <2>3. last[c] # NoEvent => Published(last[c], life, id)
      BY <2>1, <2>2 DEF ClientSound
    <2>4. owed'[c] # {} => last[c] # NoEvent
      BY <1>8, <2>1 DEF ClientSound
    <2>5. ASSUME NEW f \in owed'[c]
          PROVE  Published(f, life, id) /\ (~stale[c] => Newer(f, last[c]))
      <3>1. CASE f \in owed[c]
        BY <2>1, <2>2, <3>1 DEF ClientSound
      <3>2. CASE f \notin owed[c]
        <4>1. f.life = life /\ f.id = id /\ last[c] # NoEvent
          BY <1>8, <3>2
        <4>2. Published(last[c], life, lastID) /\ last[c].life \in Nat /\ last[c].id \in Nat
          BY <2>1, <4>1 DEF ClientSound, Event
        <4>3. Published(f, life, id)
          BY <1>1, <4>1, InvFacts DEF Published
        <4>4. Newer(f, last[c])
          BY <1>1, <4>1, <4>2, InvFacts DEF Newer, Published
        <4> QED
          BY <4>3, <4>4
      <3> QED
        BY <3>1, <3>2
    <2> QED
      BY <2>3, <2>4, <2>5 DEF ClientSound
  <1>11. StreamsSound'
    BY <1>1, <1>5 DEF IInv, StreamsSound
  <1>12. SessionsTogether'
    BY <1>1 DEF IInv, SessionsTogether
  <1> QED
    BY <1>5, <1>6, <1>7, <1>9, <1>10, <1>11, <1>12 DEF IInv

\* What concerns buffers and what is owed, when the hub's side stays as it is.
LEMMA HubUnchanged ==
  ASSUME IInv, UNCHANGED <<hubVars, last, owed, stale>>
  PROVE  /\ BuffersSound' /\ ClientsSound'
         /\ buf' \in [Users -> Seq(1..lastID')]
         /\ \A u \in Users : Len(buf'[u]) <= MaxEvents
         /\ life' \in 1..MaxLives /\ lastID' \in Nat /\ known' \subseteq Users
         /\ last' \in [Clients -> Event \cup {NoEvent}]
         /\ owed' \in [Clients -> SUBSET Event]
         /\ stale' \in [Clients -> BOOLEAN]
  BY DEF IInv, TypeOK, BuffersSound, ClientsSound, hubVars

\* CloseSession and CloseUser: no other stream is touched.
LEMMA CloseStreamsInv ==
  ASSUME IInv, NEW of \in SUBSET Clients, CloseStreams(of), UNCHANGED <<hubVars, last, owed, stale, drops>>,
         session' \in [Clients -> {"valid", "deleted", "purged", "closed"}],
         SessionsTogether'
  PROVE  /\ IInv'
         /\ \A c \in Clients, k \in Slots :
              stream[c][k].registered /\ ~stream'[c][k].registered => c \in of
  <1>1. /\ life' = life /\ lastID' = lastID /\ last' = last /\ owed' = owed
        /\ stale' = stale
    BY DEF hubVars
  <1>2. ASSUME NEW c \in Clients, NEW k \in Slots
        PROVE  /\ stream'[c][k] \in Stream
               /\ Len(stream'[c][k].queue) <= QueueCap
               /\ StreamSound(stream'[c][k], life, lastID, last[c], owed[c], stale[c])
               /\ stream'[c][k].attached = stream[c][k].attached
               /\ stream[c][k].registered => ~stream[c][k].closed
               /\ stream[c][k].registered /\ ~stream'[c][k].registered => c \in of
    <2> DEFINE st == stream[c][k]
    <2>1. stream'[c][k] = IF c \in of /\ st.registered THEN Deregistered(st) ELSE st
      BY DEF CloseStreams
    <2>2. /\ st \in Stream /\ Len(st.queue) <= QueueCap
          /\ StreamSound(st, life, lastID, last[c], owed[c], stale[c])
      BY InvFacts
    <2> HIDE DEF st
    <2>3. CASE c \in of /\ st.registered
      <3>1. /\ Deregistered(st) \in Stream
            /\ StreamSound(Deregistered(st), life, lastID, last[c], owed[c], stale[c])
            /\ Deregistered(st).queue = st.queue
            /\ Deregistered(st).attached = st.attached
            /\ ~st.closed
        BY <2>2, <2>3, DeregisteredSound
      <3> QED
        BY <2>1, <2>2, <2>3, <3>1 DEF st
    <2>4. CASE ~(c \in of /\ st.registered)
      <3>1. st.registered => ~st.closed
        BY <2>2 DEF StreamSound, InOrder
      <3> QED
        BY <2>1, <2>2, <2>4, <3>1 DEF st
    <2> QED
      BY <2>3, <2>4
  <1>3. ~panicked' /\ panicked' \in BOOLEAN
    <2>1. panicked' = (panicked \/ \E c \in of, k \in Slots :
                      stream[c][k].registered /\ ClosePanics(stream[c][k]))
      BY DEF CloseStreams
    <2>2. ASSUME NEW c \in of, NEW k \in Slots, stream[c][k].registered, ClosePanics(stream[c][k])
          PROVE  FALSE
      <3> QED
        BY <1>2, <2>2 DEF ClosePanics
    <2> QED
      BY <2>1, <2>2 DEF IInv
  <1>4. TypeOK'
    <2>1. stream' = [c \in Clients |-> [k \in Slots |-> stream'[c][k]]]
      BY DEF CloseStreams
    <2>2. stream' \in [Clients -> [Slots -> Stream]]
      BY <1>2, <2>1
    <2>3. \A c \in Clients, k \in Slots : Len(stream'[c][k].queue) <= QueueCap
      BY <1>2
    <2> QED
      BY <1>3, <2>2, <2>3, HubUnchanged DEF IInv, TypeOK
  <1>5. StreamsSound'
    BY <1>1, <1>2 DEF IInv, StreamsSound
  <1> QED
    BY <1>2, <1>3, <1>4, <1>5, HubUnchanged DEF IInv

LEMMA SessionsInv ==
  ASSUME IInv, NEW c \in Clients, NEW u \in Users,
         \/ DeleteSession(c) \/ CloseSession(c) \/ PurgeSessions(u) \/ CloseUser(u)
  PROVE  /\ IInv'
         /\ \A d \in Clients, k \in Slots :
              stream[d][k].registered /\ ~stream'[d][k].registered => session[d] # "valid"
  <1>1. session \in [Clients -> {"valid", "deleted", "purged", "closed"}]
    BY DEF IInv, TypeOK
  <1>2. ASSUME UNCHANGED <<hubVars, stream, panicked, last, owed, stale, drops>>,
               session' \in [Clients -> {"valid", "deleted", "purged", "closed"}],
               SessionsTogether'
        PROVE  IInv' /\ \A d \in Clients, k \in Slots :
                          ~(stream[d][k].registered /\ ~stream'[d][k].registered)
    <2>1. StreamsSound'
      BY <1>2 DEF IInv, StreamsSound, hubVars
    <2>2. TypeOK'
      BY <1>2 DEF IInv, TypeOK, hubVars
    <2> QED
      BY <1>2, <2>1, <2>2, HubUnchanged DEF IInv
  <1>3. CASE DeleteSession(c)
    <2>1. /\ session' \in [Clients -> {"valid", "deleted", "purged", "closed"}]
          /\ SessionsTogether'
      BY <1>1, <1>3 DEF DeleteSession, IInv, SessionsTogether
    <2> QED
      BY <1>2, <1>3, <2>1 DEF DeleteSession
  <1>4. CASE CloseSession(c)
    <2>1. /\ session' \in [Clients -> {"valid", "deleted", "purged", "closed"}]
          /\ SessionsTogether' /\ session[c] # "valid"
      BY <1>1, <1>4 DEF CloseSession, IInv, SessionsTogether
    <2> QED
      BY <1>4, <2>1, CloseStreamsInv, {c} \in SUBSET Clients DEF CloseSession
  <1>5. CASE PurgeSessions(u)
    <2>1. /\ session' \in [Clients -> {"valid", "deleted", "purged", "closed"}]
          /\ SessionsTogether'
      BY <1>1, <1>5 DEF PurgeSessions, IInv, SessionsTogether
    <2> QED
      BY <1>2, <1>5, <2>1 DEF PurgeSessions
  <1>6. CASE CloseUser(u)
    <2>1. /\ session' \in [Clients -> {"valid", "deleted", "purged", "closed"}]
          /\ SessionsTogether'
      BY <1>1, <1>6 DEF CloseUser, IInv, SessionsTogether
    <2>2. \A d \in ClientsOf(u) : session[d] # "valid"
      BY <1>6 DEF CloseUser, ClientsOf, IInv, SessionsTogether
    <2>3. ClientsOf(u) \in SUBSET Clients
      BY DEF ClientsOf
    <2> QED
      BY <1>6, <2>1, <2>2, <2>3, CloseStreamsInv DEF CloseUser
  <1> QED
    BY <1>3, <1>4, <1>5, <1>6

Replaced(c, k, d) == stream' = [stream EXCEPT ![c][k] = d]

\* A step that replaces one stream, and changes what its client saw or is owed
\* only if the client reads it.
LEMMA OneStreamSound ==
  ASSUME IInv, NEW c \in Clients, NEW k \in Slots, NEW d \in Stream,
         Replaced(c, k, d),
         Len(d.queue) <= QueueCap,
         d.attached => stream[c][k].attached \/ ~Attached(c),
         life' = life, lastID' = lastID,
         StreamSound(d, life, lastID, last'[c], owed'[c], stale'[c]),
         \A x \in Clients :
            \/ x = c /\ stream[c][k].attached
            \/ last'[x] = last[x] /\ owed'[x] = owed[x] /\ stale'[x] = stale[x]
  PROVE  /\ StreamsSound'
         /\ stream' \in [Clients -> [Slots -> Stream]]
         /\ \A x \in Clients, l \in Slots : Len(stream'[x][l].queue) <= QueueCap
         /\ stream'[c][k] = d
         /\ \A x \in Clients, l \in Slots : (x = c /\ l = k) \/ stream'[x][l] = stream[x][l]
  <1>1. /\ stream' \in [Clients -> [Slots -> Stream]]
        /\ stream'[c][k] = d
        /\ \A x \in Clients, l \in Slots : (x = c /\ l = k) \/ stream'[x][l] = stream[x][l]
    BY InvFacts DEF Replaced
  <1>2. \A x \in Clients, l \in Slots : Len(stream'[x][l].queue) <= QueueCap
    BY <1>1, InvFacts
  <1>3. ASSUME NEW x \in Clients, NEW l \in Slots
        PROVE  StreamSound(stream'[x][l], life, lastID, last'[x], owed'[x], stale'[x])
    <2>1. CASE x = c /\ l = k
      BY <1>1, <2>1
    <2>2. CASE ~(x = c /\ l = k)
      <3>1. /\ stream'[x][l] = stream[x][l]
            /\ StreamSound(stream[x][l], life, lastID, last[x], owed[x], stale[x])
        BY <1>1, <2>2, InvFacts
      <3>2. CASE x = c /\ stream[c][k].attached
        <4>1. ~stream[x][l].attached
          BY <2>2, <3>2 DEF IInv, StreamsSound
        <4> QED
          BY <3>1, <4>1 DEF StreamSound
      <3>3. CASE ~(x = c /\ stream[c][k].attached)
        BY <3>1, <3>3
      <3> QED
        BY <3>2, <3>3
    <2> QED
      BY <2>1, <2>2
  <1>4. ASSUME NEW x \in Clients, NEW l \in Slots, NEW m \in Slots,
               stream'[x][l].attached, stream'[x][m].attached
        PROVE  l = m
    <2>1. \A a, b \in Slots : stream[x][a].attached /\ stream[x][b].attached => a = b
      BY DEF IInv, StreamsSound
    <2> QED
      BY <1>1, <1>4, <2>1 DEF Attached
  <1> QED
    BY <1>1, <1>2, <1>3, <1>4 DEF StreamsSound

LEMMA SubscribeInv ==
  ASSUME IInv, NEW c \in Clients, NEW k \in Slots, Subscribe(c, k)
  PROVE  /\ IInv'
         /\ \A d \in Clients, l \in Slots :
              ~(stream[d][l].registered /\ ~stream'[d][l].registered)
  <1> DEFINE st == stream[c][k]
             u == UserOf[c]
  <1>1. PICK s \in Pruned(buf[u]) :
          LET first == Resume(s, st.from)
          IN  /\ buf' = [buf EXCEPT ![u] = s]
              /\ stream' = [stream EXCEPT ![c][k] = Subscribed(st, first)]
              /\ stale' = [stale EXCEPT ![c] =
                   @ \/ (/\ st.attached /\ st.from # NoEvent
                         /\ st.from.life < life /\ first # <<Resync>>)]
    BY DEF Subscribe, Subscribed
  <1>2. PICK first : Resumed(first, s, st.from)
    BY DEF Resumed
  <1>3. /\ st.phase = "requested" /\ known' = known \cup {u}
        /\ UNCHANGED <<life, lastID, panicked, session, last, owed, drops>>
    BY DEF Subscribe
  <1>4. /\ u \in Users /\ st \in Stream /\ life \in Nat /\ lastID \in Nat
        /\ last[c] \in Event \cup {NoEvent} /\ owed[c] \in SUBSET Event
        /\ stale[c] \in BOOLEAN
        /\ StreamSound(st, life, lastID, last[c], owed[c], stale[c])
        /\ ClientSound(life, lastID, last[c], owed[c], stale[c])
    BY InvFacts
  <1>5. /\ s \in Seq(Nat) /\ s \in Seq(1..lastID) /\ Ascending(s)
        /\ Len(s) <= MaxEvents
        /\ \A n \in Nat : Found(buf[u], n) => Found(s, n)
    <2>1. /\ buf[u] \in Seq(Nat) /\ Ascending(buf[u])
          /\ \A i \in DOMAIN buf[u] : buf[u][i] \in 1..lastID
      BY <1>4, InvFacts
    <2>3. /\ s \in Seq(Nat) /\ Ascending(s)
          /\ \A i \in 1..Len(s) : \E j \in 1..Len(buf[u]) : buf[u][j] = s[i]
      BY <1>1, <2>1, PrunedInOrder
    <2>4. Len(s) <= MaxEvents
      BY <1>1, <2>1, PrunedFacts
    <2>5. \A n \in Nat : Found(buf[u], n) => Found(s, n)
      BY <1>1, <2>1, FoundKept
    <2>6. \A i \in 1..Len(s) : s[i] \in 1..lastID
      BY <2>1, <2>3
    <2>7. s \in Seq(1..lastID)
      BY ONLY <2>3, <2>6, SeqOver
    <2> QED
      BY <2>3, <2>4, <2>5, <2>7
  <1>6. /\ stale' \in [Clients -> BOOLEAN]
        /\ \A x \in Clients : x # c => stale'[x] = stale[x]
        /\ stale[c] => stale'[c]
        /\ st.attached /\ st.from # NoEvent /\ st.from.life < life /\ first # <<Resync>>
              => stale'[c]
        /\ ~st.attached => stale'[c] = stale[c]
    BY <1>1, <1>2, <1>4 DEF IInv, TypeOK, Resumed
  <1>7. \A f \in owed[c] : f.life = life => Found(s, f.id)
    <2> SUFFICES ASSUME NEW f \in owed[c], f.life = life PROVE Found(s, f.id)
      OBVIOUS
    <2>1. f.id \in Nat /\ Found(buf[u], f.id)
      BY <1>4 DEF IInv, BuffersSound, Event
    <2> QED
      BY <1>5, <2>1
  <1> DEFINE d == Subscribed(st, first)
  <1>8. /\ d \in Stream
        /\ StreamSound(d, life, lastID, last[c], owed[c], stale'[c])
        /\ Len(d.queue) = 0
        /\ d.attached = st.attached
        /\ d.registered /\ ~st.registered
    <2>1. Excepts(st, first, life, stale[c], stale'[c])
      BY <1>6 DEF Excepts
    <2> HIDE DEF st, u
    <2> QED
      BY ONLY <1>2, <1>3, <1>4, <1>5, <1>7, <2>1, SubscribedSound
  <1>9. Replaced(c, k, d)
    BY <1>1, <1>2 DEF Resumed, Replaced
  <1> HIDE DEF d
  <1>10. /\ StreamsSound'
         /\ stream' \in [Clients -> [Slots -> Stream]]
         /\ \A x \in Clients, l \in Slots : Len(stream'[x][l].queue) <= QueueCap
         /\ stream'[c][k] = d
         /\ \A x \in Clients, l \in Slots : (x = c /\ l = k) \/ stream'[x][l] = stream[x][l]
    <2>1. Len(d.queue) <= QueueCap
      BY <1>8, HubAssumption
    <2>5. life' = life /\ lastID' = lastID
      BY <1>3
    <2>2. \A x \in Clients :
            \/ x = c /\ stream[c][k].attached
            \/ last'[x] = last[x] /\ owed'[x] = owed[x] /\ stale'[x] = stale[x]
      BY <1>3, <1>6
    <2>3. StreamSound(d, life, lastID, last'[c], owed'[c], stale'[c])
      BY <1>3, <1>8
    <2>4. d.attached => stream[c][k].attached \/ ~Attached(c)
      BY <1>8
    <2> QED
      BY ONLY IInv, <1>8, <1>9, <2>1, <2>2, <2>3, <2>4, <2>5, OneStreamSound
  <1>11. buf' \in [Users -> Seq(1..lastID)]
         /\ \A x \in Users : buf'[x] = IF x = u THEN s ELSE buf[x]
    BY <1>1, <1>4, <1>5 DEF IInv, TypeOK
  <1>12. TypeOK'
    <2>1. known' \subseteq Users
      BY <1>3, <1>4 DEF IInv, TypeOK
    <2>2. \A x \in Users : Len(buf'[x]) <= MaxEvents
      BY <1>5, <1>11 DEF IInv, TypeOK
    <2> QED
      BY <1>3, <1>6, <1>10, <1>11, <2>1, <2>2 DEF IInv, TypeOK
  <1>13. BuffersSound'
    <2>1. \A x \in Users : Ascending(buf'[x])
      BY <1>5, <1>11 DEF IInv, BuffersSound
    <2>2. ASSUME NEW x \in Clients, NEW f \in owed[x], f.life = life
          PROVE  Found(buf'[UserOf[x]], f.id)
      <3>1. f.id \in Nat /\ Found(buf[UserOf[x]], f.id) /\ UserOf[x] \in Users
        BY <2>2, InvFacts DEF IInv, BuffersSound, Event
      <3> QED
        BY <1>5, <1>11, <3>1
    <2> QED
      BY <1>3, <2>1, <2>2 DEF IInv, BuffersSound
  <1>14. ClientsSound'
    <2> SUFFICES ASSUME NEW x \in Clients
                 PROVE  ClientSound(life, lastID, last[x], owed[x], stale'[x])
      BY <1>3 DEF ClientsSound
    <2>1. ClientSound(life, lastID, last[x], owed[x], stale[x]) /\ (stale[x] => stale'[x])
      BY <1>6, InvFacts
    <2> QED
      BY <2>1 DEF ClientSound
  <1>15. SessionsTogether'
    BY <1>3 DEF IInv, SessionsTogether
  <1>16. ~panicked'
    BY <1>3 DEF IInv
  <1>17. \A x \in Clients, l \in Slots :
           ~(stream[x][l].registered /\ ~stream'[x][l].registered)
    BY <1>8, <1>10
  <1> QED
    BY <1>10, <1>12, <1>13, <1>14, <1>15, <1>16, <1>17 DEF IInv

\* What a written frame is to the client: nothing if it left, a resync, or
\* the next event.
LEMMA FrameWritten ==
  ASSUME IInv, NEW c \in Clients, NEW k \in Slots, WriteFrame(c, k)
  PROVE  LET st == stream[c][k]
             x == Head(Source(st))
             e == [life |-> life, id |-> x]
         IN  /\ st.phase = "live" /\ Source(st) # <<>>
             /\ stream' = [stream EXCEPT ![c][k] = Drained(st)]
             /\ UNCHANGED <<hubVars, panicked, session, drops>>
             /\ \/ ~st.attached /\ UNCHANGED <<last, owed, stale>>
                \/ /\ st.attached /\ x = Resync
                   /\ owed' = [owed EXCEPT ![c] = {}]
                   /\ stale' = [stale EXCEPT ![c] = FALSE]
                   /\ UNCHANGED last
                \/ /\ st.attached /\ x # Resync
                   /\ last' = [last EXCEPT ![c] = e]
                   /\ owed' = [owed EXCEPT ![c] = @ \ {e}]
                   /\ UNCHANGED stale
  BY DEF WriteFrame, Source, Drained, Receive

LEMMA WriteFrameInv ==
  ASSUME IInv, NEW c \in Clients, NEW k \in Slots, WriteFrame(c, k)
  PROVE  /\ IInv'
         /\ \A d \in Clients, l \in Slots :
              ~(stream[d][l].registered /\ ~stream'[d][l].registered)
  <1> DEFINE st == stream[c][k]
             x == Head(Source(st))
             e == [life |-> life, id |-> x]
             d == Drained(st)
  <1>1. /\ st \in Stream /\ Len(st.queue) <= QueueCap
        /\ StreamSound(st, life, lastID, last[c], owed[c], stale[c])
        /\ ClientSound(life, lastID, last[c], owed[c], stale[c])
        /\ last[c] \in Event \cup {NoEvent} /\ owed[c] \in SUBSET Event
        /\ stale[c] \in BOOLEAN /\ life \in Nat /\ lastID \in Nat
    BY InvFacts
  <1>2. /\ st.phase = "live" /\ Source(st) # <<>>
        /\ stream' = [stream EXCEPT ![c][k] = d]
        /\ UNCHANGED <<hubVars, panicked, session, drops>>
        /\ \/ ~st.attached /\ UNCHANGED <<last, owed, stale>>
           \/ /\ st.attached /\ x = Resync
              /\ owed' = [owed EXCEPT ![c] = {}]
              /\ stale' = [stale EXCEPT ![c] = FALSE]
              /\ UNCHANGED last
           \/ /\ st.attached /\ x # Resync
              /\ last' = [last EXCEPT ![c] = e]
              /\ owed' = [owed EXCEPT ![c] = @ \ {e}]
              /\ UNCHANGED stale
    BY FrameWritten
  <1>3. InOrder(st) /\ \A y \in Frames(st) : y <= lastID
    BY <1>1 DEF StreamSound
  <1> HIDE DEF st
  <1>4. /\ d \in Stream /\ InOrder(d) /\ Len(d.queue) <= Len(st.queue)
        /\ d.phase = "live" /\ d.attached = st.attached /\ d.registered = st.registered
        /\ Frames(st) = {x} \cup Frames(d) /\ \A y \in Frames(d) : y > x
    BY <1>1, <1>2, <1>3, DrainedFacts
  <1>5. Len(d.queue) <= QueueCap
    <2>1. Len(d.queue) \in Nat /\ Len(st.queue) \in Nat /\ QueueCap \in Nat
      BY <1>1, <1>4, FramesTyped, HubAssumption
    <2> QED
      BY <1>1, <1>4, <2>1
  <1>6. \A y \in Frames(d) : y <= lastID
    BY <1>3, <1>4
  <1>7. /\ life' = life /\ lastID' = lastID /\ buf' = buf /\ known' = known
        /\ panicked' = panicked /\ session' = session /\ drops' = drops
    BY <1>2 DEF hubVars
  <1> HIDE DEF x, d, e
  \* Given what it does to the client, the step keeps the rest.
  <1>8. ASSUME StreamSound(d, life, lastID, last'[c], owed'[c], stale'[c]),
               ClientSound(life, lastID, last'[c], owed'[c], stale'[c]),
               owed'[c] \subseteq owed[c],
               last' \in [Clients -> Event \cup {NoEvent}],
               owed' \in [Clients -> SUBSET Event],
               stale' \in [Clients -> BOOLEAN],
               \A y \in Clients :
                  \/ y = c /\ st.attached
                  \/ last'[y] = last[y] /\ owed'[y] = owed[y] /\ stale'[y] = stale[y]
        PROVE  IInv' /\ \A y \in Clients, l \in Slots :
                           ~(stream[y][l].registered /\ ~stream'[y][l].registered)
    <2>1. /\ StreamsSound'
          /\ stream' \in [Clients -> [Slots -> Stream]]
          /\ \A y \in Clients, l \in Slots : Len(stream'[y][l].queue) <= QueueCap
          /\ stream'[c][k] = d
          /\ \A y \in Clients, l \in Slots : (y = c /\ l = k) \/ stream'[y][l] = stream[y][l]
      <3>0. Replaced(c, k, d)
        BY <1>2 DEF Replaced, d
      <3>1. \A y \in Clients :
                  \/ y = c /\ stream[c][k].attached
                  \/ last'[y] = last[y] /\ owed'[y] = owed[y] /\ stale'[y] = stale[y]
        BY <1>8 DEF st
      <3>2. d.attached => stream[c][k].attached \/ ~Attached(c)
        BY <1>4 DEF st
      <3> QED
        BY ONLY IInv, <1>4, <1>5, <1>7, <1>8, <3>0, <3>1, <3>2, OneStreamSound
    <2>2. TypeOK'
      BY <1>7, <1>8, <2>1 DEF IInv, TypeOK
    <2>3. \A y \in Clients : owed'[y] \subseteq owed[y]
      BY <1>8
    <2>4. BuffersSound'
      BY <1>7, <2>3 DEF IInv, BuffersSound
    <2>5. ClientsSound'
      BY <1>7, <1>8 DEF IInv, ClientsSound
    <2>6. SessionsTogether' /\ ~panicked'
      BY <1>7 DEF IInv, SessionsTogether
    <2>7. \A y \in Clients, l \in Slots :
             ~(stream[y][l].registered /\ ~stream'[y][l].registered)
      BY <1>4, <2>1 DEF st
    <2> QED
      BY <2>1, <2>2, <2>4, <2>5, <2>6, <2>7 DEF IInv
  <1>9. CASE ~st.attached /\ UNCHANGED <<last, owed, stale>>
    <2>1. StreamSound(d, life, lastID, last[c], owed[c], stale[c])
      BY <1>4, <1>6, <1>9 DEF StreamSound
    <2> QED
      BY <1>1, <1>8, <1>9, <2>1 DEF IInv, TypeOK
  <1>10. CASE /\ st.attached /\ x = Resync
              /\ owed' = [owed EXCEPT ![c] = {}]
              /\ stale' = [stale EXCEPT ![c] = FALSE]
              /\ UNCHANGED last
    <2>1. /\ owed' \in [Clients -> SUBSET Event] /\ stale' \in [Clients -> BOOLEAN]
          /\ last' \in [Clients -> Event \cup {NoEvent}]
          /\ owed'[c] = {} /\ stale'[c] = FALSE /\ last'[c] = last[c]
          /\ \A y \in Clients : y = c \/ (/\ last'[y] = last[y] /\ owed'[y] = owed[y]
                                          /\ stale'[y] = stale[y])
      BY <1>10 DEF IInv, TypeOK
    <2>2. Serves(d, life, last[c], {}, FALSE)
      <3>1. Serves(st, life, last[c], owed[c], stale[c])
        BY <1>1, <1>10 DEF StreamSound
      <3> QED
        BY <1>2, <1>4, <3>1 DEF Serves
    <2>3. StreamSound(d, life, lastID, last[c], {}, FALSE)
      BY <1>4, <1>6, <2>2 DEF StreamSound
    <2>4. ClientSound(life, lastID, last[c], {}, FALSE)
      BY <1>1 DEF ClientSound
    <2> QED
      BY <1>8, <1>10, <2>1, <2>3, <2>4
  <1>11. CASE /\ st.attached /\ x # Resync
              /\ last' = [last EXCEPT ![c] = e]
              /\ owed' = [owed EXCEPT ![c] = @ \ {e}]
              /\ UNCHANGED stale
    <2>1. /\ e \in Event
          /\ ClientSound(life, lastID, e, owed[c] \ {e}, stale[c])
          /\ StreamSound(d, life, lastID, e, owed[c] \ {e}, stale[c])
      <3>1. IsFirst(x, st) /\ IsEvent(e, life, x)
        BY DEF IsFirst, IsEvent, x, e
      <3> QED
        BY ONLY <1>1, <1>2, <1>11, <3>1, FrameInTurn DEF d
    <2>2. /\ owed' \in [Clients -> SUBSET Event] /\ stale' \in [Clients -> BOOLEAN]
          /\ last' \in [Clients -> Event \cup {NoEvent}]
          /\ owed'[c] = owed[c] \ {e} /\ stale'[c] = stale[c] /\ last'[c] = e
          /\ \A y \in Clients : y = c \/ (/\ last'[y] = last[y] /\ owed'[y] = owed[y]
                                          /\ stale'[y] = stale[y])
      BY <1>11, <2>1 DEF IInv, TypeOK
    <2> QED
      BY <1>8, <1>11, <2>1, <2>2
  <1> QED
    BY <1>2, <1>9, <1>10, <1>11

\* A step that frees a stream, opens one, or breaks its connection.
LEMMA OnlyStreamInv ==
  ASSUME IInv, NEW c \in Clients, NEW k \in Slots, NEW d \in Stream,
         Replaced(c, k, d),
         Len(d.queue) <= QueueCap,
         d.attached => stream[c][k].attached \/ ~Attached(c),
         StreamSound(d, life, lastID, last[c], owed[c], stale[c]),
         UNCHANGED <<hubVars, session, last, owed, stale>>,
         ~panicked', panicked' \in BOOLEAN, drops' \in 0..MaxDrops
  PROVE  /\ IInv'
         /\ stream'[c][k] = d
         /\ \A x \in Clients, l \in Slots : (x = c /\ l = k) \/ stream'[x][l] = stream[x][l]
  <1>1. /\ life' = life /\ lastID' = lastID /\ session' = session
        /\ last' = last /\ owed' = owed /\ stale' = stale
    BY DEF hubVars
  <1>2. /\ StreamsSound'
        /\ stream' \in [Clients -> [Slots -> Stream]]
        /\ \A x \in Clients, l \in Slots : Len(stream'[x][l].queue) <= QueueCap
        /\ stream'[c][k] = d
        /\ \A x \in Clients, l \in Slots : (x = c /\ l = k) \/ stream'[x][l] = stream[x][l]
    <2>1. \A x \in Clients :
            \/ x = c /\ stream[c][k].attached
            \/ last'[x] = last[x] /\ owed'[x] = owed[x] /\ stale'[x] = stale[x]
      BY <1>1
    <2>2. StreamSound(d, life, lastID, last'[c], owed'[c], stale'[c])
      BY <1>1
    <2> QED
      BY <1>1, <2>1, <2>2, OneStreamSound
  <1>3. TypeOK'
    BY <1>1, <1>2, HubUnchanged DEF IInv, TypeOK
  <1>4. SessionsTogether'
    BY <1>1 DEF IInv, SessionsTogether
  <1> QED
    BY <1>2, <1>3, <1>4, HubUnchanged DEF IInv

LEMMA ConnectionInv ==
  ASSUME IInv, NEW c \in Clients, NEW k \in Slots,
         \/ EndOfStream(c, k) \/ Unsubscribe(c, k) \/ Connect(c) \/ Disconnect(c, k)
  PROVE  /\ IInv'
         /\ \A x \in Clients, l \in Slots :
              stream[x][l].registered /\ ~stream'[x][l].registered => ~stream[x][l].attached
  <1>1. /\ ~panicked /\ panicked \in BOOLEAN /\ drops \in 0..MaxDrops
        /\ 0 <= QueueCap /\ MaxDrops \in Nat
    BY HubAssumption DEF IInv, TypeOK
  <1>2. /\ FreeStream \in Stream /\ Len(FreeStream.queue) = 0 /\ ~FreeStream.attached
        /\ StreamSound(FreeStream, life, lastID, last[c], owed[c], stale[c])
    BY FreeStreamSound
  <1>3. \A l \in Slots : /\ stream[c][l] \in Stream
                         /\ Len(stream[c][l].queue) <= QueueCap
                         /\ StreamSound(stream[c][l], life, lastID, last[c], owed[c], stale[c])
                         /\ stream[c][l].registered =>
                               stream[c][l].phase = "live" /\ ~stream[c][l].closed
    BY InvFacts DEF StreamSound, InOrder
  <1>4. CASE EndOfStream(c, k)
    <2>1. /\ Replaced(c, k, FreeStream) /\ stream[c][k].closed
          /\ UNCHANGED <<hubVars, panicked, session, last, owed, stale, drops>>
      BY <1>4 DEF EndOfStream, Replaced
    <2>2. IInv' /\ \A x \in Clients, l \in Slots : (x = c /\ l = k) \/ stream'[x][l] = stream[x][l]
      BY <1>1, <1>2, <2>1, OnlyStreamInv
    <2> QED
      BY <1>3, <2>1, <2>2
  <1>5. CASE Unsubscribe(c, k)
    <2>1. /\ Replaced(c, k, FreeStream) /\ ~stream[c][k].attached
          /\ UNCHANGED <<hubVars, session, last, owed, stale, drops>>
          /\ panicked' = (panicked \/ (/\ stream[c][k].phase = "live"
                                       /\ UnsubscribeCloses(stream[c][k])
                                       /\ ClosePanics(stream[c][k])))
      BY <1>5 DEF Unsubscribe, Replaced
    <2>2. ~panicked' /\ panicked' \in BOOLEAN
      BY <1>1, <1>3, <2>1 DEF UnsubscribeCloses, ClosePanics
    <2>3. IInv' /\ \A x \in Clients, l \in Slots : (x = c /\ l = k) \/ stream'[x][l] = stream[x][l]
      BY <1>1, <1>2, <2>1, <2>2, OnlyStreamInv
    <2> QED
      BY <2>1, <2>3
  <1>6. CASE Connect(c)
    <2>1. PICK l \in Slots :
            /\ stream[c][l].phase = "free" /\ Replaced(c, l, Requested(last[c]))
            /\ ~Attached(c)
            /\ UNCHANGED <<hubVars, panicked, session, last, owed, stale, drops>>
      BY <1>6 DEF Connect, Replaced, Requested
    <2>2. /\ Requested(last[c]) \in Stream
          /\ StreamSound(Requested(last[c]), life, lastID, last[c], owed[c], stale[c])
          /\ Len(Requested(last[c]).queue) <= QueueCap
      BY <1>1, RequestedSound, InvFacts
    <2>3. IInv' /\ \A x \in Clients, m \in Slots : (x = c /\ m = l) \/ stream'[x][m] = stream[x][m]
      BY <1>1, <2>1, <2>2, OnlyStreamInv
    <2> QED
      BY <1>3, <2>1, <2>3
  <1>7. CASE Disconnect(c, k)
    <2>1. PICK d : d = [stream[c][k] EXCEPT !.attached = FALSE]
      OBVIOUS
    <2>2. /\ d \in Stream /\ StreamSound(d, life, lastID, last[c], owed[c], stale[c])
          /\ d.queue = stream[c][k].queue /\ d.registered = stream[c][k].registered
          /\ ~d.attached
      BY <1>3, <2>1, DetachedSound
    <2>3. Replaced(c, k, d)
      BY <1>7, <2>1, InvFacts DEF Disconnect, Replaced
    <2>4. /\ drops' \in 0..MaxDrops
          /\ UNCHANGED <<hubVars, panicked, session, last, owed, stale>>
      BY <1>1, <1>7 DEF Disconnect
    <2>5. /\ IInv' /\ stream'[c][k] = d
          /\ \A x \in Clients, l \in Slots : (x = c /\ l = k) \/ stream'[x][l] = stream[x][l]
      BY <1>1, <1>3, <2>2, <2>3, <2>4, OnlyStreamInv
    <2> QED
      BY <2>2, <2>5
  <1> QED
    BY <1>4, <1>5, <1>6, <1>7

LEMMA RestartInv ==
  ASSUME IInv, Restart
  PROVE  IInv'
  <1>1. /\ life' = life + 1 /\ lastID' = 0 /\ known' = {} /\ life < MaxLives
        /\ buf' = [u \in Users |-> <<>>]
        /\ stream' = [c \in Clients |-> [k \in Slots |-> FreeStream]]
        /\ UNCHANGED <<panicked, session, last, owed, stale, drops>>
    BY DEF Restart
  <1>2. TypeOK'
    <2>1. <<>> \in Seq(1..lastID') /\ Len(<<>>) = 0
      OBVIOUS
    <2>2. buf' \in [Users -> Seq(1..lastID')] /\ \A u \in Users : Len(buf'[u]) <= MaxEvents
      BY <1>1, <2>1, HubAssumption
    <2>3. /\ stream' \in [Clients -> [Slots -> Stream]]
          /\ \A c \in Clients, k \in Slots : Len(stream'[c][k].queue) <= QueueCap
      BY <1>1, FreeStreamSound, HubAssumption
    <2>4. life' \in 1..MaxLives /\ lastID' \in Nat
      BY <1>1, HubAssumption DEF IInv, TypeOK
    <2> QED
      BY <1>1, <2>2, <2>3, <2>4 DEF IInv, TypeOK
  <1>3. BuffersSound'
    <2>1. \A u \in Users : Ascending(buf'[u]) /\ \A n : Found(buf'[u], n)
      BY <1>1 DEF Ascending, Found
    <2> QED
      BY <1>1, <2>1, HubAssumption DEF BuffersSound
  <1>4. ClientsSound'
    <2> SUFFICES ASSUME NEW c \in Clients
                 PROVE  ClientSound(life', lastID', last[c], owed[c], stale[c])
      BY <1>1 DEF ClientsSound
    <2>1. /\ ClientSound(life, lastID, last[c], owed[c], stale[c])
          /\ last[c] \in Event \cup {NoEvent} /\ owed[c] \in SUBSET Event
      BY InvFacts
    <2>2. \A f \in Event : Published(f, life, lastID) => Published(f, life', lastID')
      BY <1>1, InvFacts DEF Published, Event
    <2> QED
      BY <2>1, <2>2 DEF ClientSound
  <1>5. StreamsSound'
    BY <1>1, FreeStreamSound DEF StreamsSound
  <1>6. SessionsTogether' /\ ~panicked'
    BY <1>1 DEF IInv, SessionsTogether
  <1> QED
    BY <1>2, <1>3, <1>4, <1>5, <1>6 DEF IInv

LEMMA InvStep == IInv /\ [Next]_vars => IInv'
  <1> SUFFICES ASSUME IInv, [Next]_vars PROVE IInv'
    OBVIOUS
  <1>1. ASSUME NEW u \in Users, Publish(u) PROVE IInv'
    <2>1. known' \in SUBSET Users /\ {u} \in SUBSET Users /\ Send({u})
      BY <1>1 DEF Publish, IInv, TypeOK
    <2> QED
      BY <2>1, SendInv
  <1>2. ASSUME Broadcast PROVE IInv'
    <2>1. known \in SUBSET Users /\ known' \in SUBSET Users /\ Send(known)
      BY <1>2 DEF Broadcast, IInv, TypeOK
    <2> QED
      BY <2>1, SendInv
  <1>3. ASSUME NEW c \in Clients, DeleteSession(c) \/ CloseSession(c) \/ Connect(c)
        PROVE  IInv'
    <2>1. CASE Connect(c)
      <3>1. PICK k \in Slots : TRUE
        BY <2>1 DEF Connect
      <3> QED
        BY <2>1, ConnectionInv
    <2>2. UserOf[c] \in Users
      BY InvFacts
    <2> QED
      BY <1>3, <2>1, <2>2, SessionsInv
  <1>4. ASSUME NEW u \in Users, PurgeSessions(u) \/ CloseUser(u)
        PROVE  IInv'
    <2>1. PICK c \in Clients : TRUE
      BY <1>4 DEF PurgeSessions, CloseUser, ClientsOf
    <2> QED
      BY <1>4, <2>1, SessionsInv
  <1>5. ASSUME NEW c \in Clients, NEW k \in Slots,
               \/ Subscribe(c, k) \/ WriteFrame(c, k) \/ EndOfStream(c, k)
               \/ Unsubscribe(c, k) \/ Disconnect(c, k)
        PROVE  IInv'
    BY <1>5, SubscribeInv, WriteFrameInv, ConnectionInv
  <1>6. ASSUME UNCHANGED vars PROVE IInv'
    <2>1. /\ UNCHANGED <<hubVars, stream, panicked, session, last, owed, stale, drops>>
      BY <1>6 DEF vars
    <2>2. TypeOK'
      BY <2>1 DEF IInv, TypeOK, hubVars
    <2>3. StreamsSound' /\ SessionsTogether' /\ ~panicked'
      BY <2>1 DEF IInv, StreamsSound, SessionsTogether, hubVars
    <2> QED
      BY <2>1, <2>2, <2>3, HubUnchanged DEF IInv
  <1> QED
    BY <1>1, <1>2, <1>3, <1>4, <1>5, <1>6, RestartInv DEF Next

\* In every state reached, buffers, queues, and what clients are owed fit
\* together as the invariant says (Hub, subscriber, userState).
THEOREM InvHolds == Spec => []IInv
  BY InvInit, InvStep, PTL DEF Spec

\* Buffers and queues stay within their capacity, ids within the counter.
THEOREM TypeCorrect == Spec => []TypeOK
  <1>1. IInv => TypeOK
    BY DEF IInv
  <1> QED
    BY <1>1, InvHolds, PTL

\* No channel is closed twice or sent to once closed, whichever of fanout,
\* CloseSession, CloseUser and unsubscribe gets to a stream first.
THEOREM ChannelsClosedOnce == Spec => []NoChannelPanic
  <1>1. IInv => NoChannelPanic
    BY InvFacts DEF IInv, NoChannelPanic, StreamSound, InOrder
  <1> QED
    BY <1>1, InvHolds, PTL

-----------------------------------------------------------------------------
(* What a step may do.                                                     *)

\* The cause for which a stream was taken out.
Cause(c, k) ==
    \/ Len(stream[c][k].queue) = QueueCap
    \/ ~stream[c][k].attached
    \/ session[c] # "valid"
    \/ life' # life

LEMMA DropsHaveCause ==
  ASSUME IInv, [Next]_vars, NEW c \in Clients, NEW k \in Slots,
         stream[c][k].registered, ~stream'[c][k].registered
  PROVE  Cause(c, k)
  <1>1. ASSUME NEW u \in Users, Publish(u) PROVE Cause(c, k)
    <2>1. known' \in SUBSET Users /\ {u} \in SUBSET Users /\ Send({u})
      BY <1>1 DEF Publish, IInv, TypeOK
    <2> QED
      BY <2>1, SendInv DEF Cause
  <1>2. ASSUME Broadcast PROVE Cause(c, k)
    <2>1. known \in SUBSET Users /\ known' \in SUBSET Users /\ Send(known)
      BY <1>2 DEF Broadcast, IInv, TypeOK
    <2> QED
      BY <2>1, SendInv DEF Cause
  <1>3. ASSUME NEW d \in Clients, DeleteSession(d) \/ CloseSession(d)
        PROVE  Cause(c, k)
    <2>1. UserOf[d] \in Users
      BY InvFacts
    <2> QED
      BY <1>3, <2>1, SessionsInv DEF Cause
  <1>4. ASSUME NEW u \in Users, PurgeSessions(u) \/ CloseUser(u) PROVE Cause(c, k)
    BY <1>4, SessionsInv DEF Cause
  <1>5. ASSUME NEW d \in Clients, NEW l \in Slots, Subscribe(d, l) \/ WriteFrame(d, l)
        PROVE  Cause(c, k)
    BY <1>5, SubscribeInv, WriteFrameInv
  <1>6. ASSUME NEW d \in Clients, NEW l \in Slots,
               \/ EndOfStream(d, l) \/ Unsubscribe(d, l) \/ Disconnect(d, l)
        PROVE  Cause(c, k)
    BY <1>6, ConnectionInv DEF Cause
  <1>7. ASSUME NEW d \in Clients, Connect(d) PROVE Cause(c, k)
    BY <1>7, ConnectionInv DEF Cause
  <1>8. ASSUME Restart PROVE Cause(c, k)
    BY <1>8, InvFacts DEF Restart, Cause
  <1>9. ASSUME UNCHANGED vars PROVE Cause(c, k)
    BY <1>9 DEF vars
  <1> QED
    BY <1>1, <1>2, <1>3, <1>4, <1>5, <1>6, <1>7, <1>8, <1>9 DEF Next

\* A slow device or a revoked session never costs another device of the user
\* its stream (fanout, CloseSession, CloseUser).
THEOREM StreamsDroppedForCause == Spec => DroppedForCause
  <1>1. IInv /\ [Next]_vars =>
          [\A c \in Clients, k \in Slots :
             LET st == stream[c][k]
             IN  st.registered /\ ~stream'[c][k].registered =>
                   \/ Len(st.queue) = QueueCap
                   \/ ~st.attached
                   \/ session[c] # "valid"
                   \/ life' # life]_vars
    BY DropsHaveCause DEF Cause
  <1> QED
    BY <1>1, InvHolds, PTL DEF Spec, DroppedForCause

-----------------------------------------------------------------------------
(* The hub and its clients implement the feed.                             *)

LEMMA FeedInitMaps == Init => Feed!FeedInit
  BY DEF Init, Feed!FeedInit

Hearing == [c \in Clients |-> session[c] = "valid"]

LEMMA SendIssues ==
  ASSUME IInv, NEW to \in SUBSET Users, Send(to)
  PROVE  \E e \in [life : 1..MaxLives, id : 1..MaxId], those \in SUBSET Clients :
            Feed!Issue(e, those)
  <1> DEFINE e == [life |-> life, id |-> lastID + 1]
             those == {c \in Clients : UserOf[c] \in to /\ last[c] # NoEvent}
  <1>1. /\ lastID + 1 <= MaxId /\ life \in 1..MaxLives /\ lastID \in Nat /\ life \in Nat
        /\ UNCHANGED <<life, session, last, stale>>
        /\ owed' = [c \in Clients |->
                      IF UserOf[c] \in to /\ last[c] # NoEvent
                      THEN owed[c] \cup {e} ELSE owed[c]]
    BY InvFacts DEF Send, IInv, TypeOK
  <1>2. e \in [life : 1..MaxLives, id : 1..MaxId]
    BY <1>1, HubAssumption
  <1>3. ASSUME NEW c \in those
        PROVE  last[c] # NoEvent /\ \A f \in owed[c] \cup {last[c]} : Newer(e, f)
    <2>1. /\ ClientSound(life, lastID, last[c], owed[c], stale[c])
          /\ last[c] \in Event /\ owed[c] \in SUBSET Event
      BY InvFacts
    <2>2. ASSUME NEW f \in owed[c] \cup {last[c]} PROVE Newer(e, f)
      <3>1. f \in Event /\ Published(f, life, lastID)
        BY <2>1 DEF ClientSound
      <3> QED
        BY <1>1, <3>1 DEF Newer, Published, Event
    <2> QED
      BY <2>2
  <1>4. owed' = [c \in Clients |-> IF c \in those THEN owed[c] \cup {e} ELSE owed[c]]
    BY <1>1
  <1>5. Hearing' = Hearing
    BY <1>1 DEF Hearing
  <1>6. Feed!Issue(e, those)
    BY <1>1, <1>3, <1>4, <1>5 DEF Feed!Issue, Hearing
  <1> QED
    BY <1>2, <1>6

LEMMA SessionsLeave ==
  ASSUME IInv, NEW c \in Clients, NEW u \in Users,
         \/ DeleteSession(c) \/ CloseSession(c) \/ PurgeSessions(u) \/ CloseUser(u)
  PROVE  [\E those \in SUBSET Clients : Feed!Leave(those)]_(Feed!feedVars)
  <1>1. session \in [Clients -> {"valid", "deleted", "purged", "closed"}]
    BY DEF IInv, TypeOK
  <1>2. last' = last /\ owed' = owed /\ stale' = stale
    BY DEF DeleteSession, CloseSession, PurgeSessions, CloseUser
  <1>3. CASE DeleteSession(c)
    <2>1. Hearing' = [d \in Clients |-> Hearing[d] /\ d \notin {c}]
      BY <1>1, <1>3 DEF DeleteSession, Hearing
    <2>2. Feed!Leave({c})
      BY <1>2, <2>1 DEF Feed!Leave, Hearing
    <2> QED
      BY <2>2
  <1>4. CASE CloseSession(c)
    <2>1. Hearing' = Hearing
      BY <1>1, <1>4 DEF CloseSession, Hearing
    <2> QED
      BY <1>2, <2>1 DEF Feed!feedVars, Hearing
  <1>5. CASE PurgeSessions(u)
    <2>1. Hearing' = [d \in Clients |-> Hearing[d] /\ d \notin ClientsOf(u)]
      BY <1>1, <1>5 DEF PurgeSessions, Hearing, ClientsOf
    <2>2. Feed!Leave(ClientsOf(u))
      BY <1>2, <2>1 DEF Feed!Leave, Hearing
    <2> QED
      BY <2>2 DEF ClientsOf
  <1>6. CASE CloseUser(u)
    <2>1. Hearing' = Hearing
      BY <1>1, <1>6 DEF CloseUser, Hearing
    <2> QED
      BY <1>2, <2>1 DEF Feed!feedVars, Hearing
  <1> QED
    BY <1>3, <1>4, <1>5, <1>6

LEMMA SubscribeMistakes ==
  ASSUME IInv, NEW c \in Clients, NEW k \in Slots, Subscribe(c, k)
  PROVE  [Feed!Mistake(c)]_(Feed!feedVars)
  <1>1. PICK b : stale' = [stale EXCEPT ![c] = @ \/ b] /\ b \in BOOLEAN
    BY DEF Subscribe
  <1>2. last' = last /\ owed' = owed /\ session' = session
    BY DEF Subscribe
  <1>3. Hearing' = Hearing
    BY <1>2 DEF Hearing
  <1>4. stale \in [Clients -> BOOLEAN]
    BY DEF IInv, TypeOK
  <1>5. CASE b
    <2>1. stale' = [stale EXCEPT ![c] = TRUE]
      BY <1>1, <1>4, <1>5
    <2> QED
      BY <1>2, <1>3, <2>1 DEF Feed!Mistake, Hearing
  <1>6. CASE ~b
    <2>1. stale' = stale
      BY <1>1, <1>4, <1>6
    <2> QED
      BY <1>2, <1>3, <2>1 DEF Feed!feedVars, Hearing
  <1> QED
    BY <1>5, <1>6

LEMMA FramesDeliver ==
  ASSUME IInv, NEW c \in Clients, NEW k \in Slots, WriteFrame(c, k)
  PROVE  [\/ Feed!Refetch(c)
          \/ \E e \in [life : 1..MaxLives, id : 1..MaxId] : Feed!Deliver(c, e)
         ]_(Feed!feedVars)
  <1> DEFINE st == stream[c][k]
             x == Head(Source(st))
             e == [life |-> life, id |-> x]
  <1>1. /\ st.phase = "live" /\ Source(st) # <<>>
        /\ session' = session
        /\ \/ ~st.attached /\ UNCHANGED <<last, owed, stale>>
           \/ /\ st.attached /\ x = Resync
              /\ owed' = [owed EXCEPT ![c] = {}]
              /\ stale' = [stale EXCEPT ![c] = FALSE]
              /\ UNCHANGED last
           \/ /\ st.attached /\ x # Resync
              /\ last' = [last EXCEPT ![c] = e]
              /\ owed' = [owed EXCEPT ![c] = @ \ {e}]
              /\ UNCHANGED stale
    BY FrameWritten
  <1>2. Hearing' = Hearing
    BY <1>1 DEF Hearing
  <1>3. /\ st \in Stream
        /\ StreamSound(st, life, lastID, last[c], owed[c], stale[c])
        /\ ClientSound(life, lastID, last[c], owed[c], stale[c])
        /\ last[c] \in Event \cup {NoEvent} /\ owed[c] \in SUBSET Event
        /\ stale[c] \in BOOLEAN /\ life \in Nat /\ lastID \in Nat
    BY InvFacts
  <1>4. lastID <= MaxId /\ life \in 1..MaxLives /\ MaxId \in Nat
    BY HubAssumption DEF IInv, TypeOK, BuffersSound
  <1>5. IsFirst(x, st) /\ IsEvent(e, life, x)
    BY DEF IsFirst, IsEvent
  <1> HIDE DEF st, x, e
  <1>6. CASE ~st.attached /\ UNCHANGED <<last, owed, stale>>
    BY <1>2, <1>6 DEF Feed!feedVars, Hearing
  <1>7. CASE /\ st.attached /\ x = Resync
             /\ owed' = [owed EXCEPT ![c] = {}]
             /\ stale' = [stale EXCEPT ![c] = FALSE]
             /\ UNCHANGED last
    BY <1>2, <1>7 DEF Feed!Refetch, Hearing
  <1>8. CASE /\ st.attached /\ x # Resync
             /\ last' = [last EXCEPT ![c] = e]
             /\ owed' = [owed EXCEPT ![c] = @ \ {e}]
             /\ UNCHANGED stale
    <2>1. /\ x \in 1..lastID
          /\ last[c] # NoEvent => Newer(e, last[c])
          /\ ~stale[c] => \A f \in owed[c] \ {e} : Newer(f, e)
      <3>1. ClientSound(life, lastID, e, owed[c] \ {e}, stale[c])
        BY ONLY <1>1, <1>3, <1>5, <1>8, FrameInTurn
      <3>2. x \in 1..lastID
        BY ONLY <1>1, <1>3, <1>5, <1>8, FrameInTurn
      <3>3. Fresh(e, last[c])
        BY ONLY <1>1, <1>3, <1>5, <1>8, FrameInTurn
      <3> QED
        BY <3>1, <3>2, <3>3 DEF ClientSound, Fresh
    <2>2. e \in [life : 1..MaxLives, id : 1..MaxId]
      <3>1. x \in 1..MaxId
        BY <1>3, <1>4, <2>1
      <3> QED
        BY <1>4, <3>1 DEF e
    <2>3. Feed!Deliver(c, e)
      BY <1>2, <1>8, <2>1 DEF Feed!Deliver, Hearing
    <2> QED
      BY <2>2, <2>3
  <1> QED
    BY <1>1, <1>6, <1>7, <1>8

\* Every step is one of the feed, or changes nothing the feed speaks of.
LEMMA FeedStepMaps == IInv /\ [Next]_vars => [Feed!FeedNext]_(Feed!feedVars)
  <1> SUFFICES ASSUME IInv, [Next]_vars PROVE [Feed!FeedNext]_(Feed!feedVars)
    OBVIOUS
  <1>1. ASSUME UNCHANGED <<session, last, owed, stale>>
        PROVE  [Feed!FeedNext]_(Feed!feedVars)
    BY <1>1 DEF Feed!feedVars
  <1>2. ASSUME NEW u \in Users, Publish(u) PROVE Feed!FeedNext
    <2>1. {u} \in SUBSET Users /\ Send({u})
      BY <1>2 DEF Publish
    <2> QED
      BY <2>1, SendIssues DEF Feed!FeedNext
  <1>3. ASSUME Broadcast PROVE Feed!FeedNext
    <2>1. known \in SUBSET Users /\ Send(known)
      BY <1>3 DEF Broadcast, IInv, TypeOK
    <2> QED
      BY <2>1, SendIssues DEF Feed!FeedNext
  <1>4. ASSUME NEW c \in Clients, DeleteSession(c) \/ CloseSession(c)
        PROVE  [Feed!FeedNext]_(Feed!feedVars)
    <2>1. UserOf[c] \in Users
      BY InvFacts
    <2> QED
      BY <1>4, <2>1, SessionsLeave DEF Feed!FeedNext
  <1>5. ASSUME NEW u \in Users, PurgeSessions(u) \/ CloseUser(u)
        PROVE  [Feed!FeedNext]_(Feed!feedVars)
    <2>1. PICK c \in Clients : TRUE
      BY <1>5 DEF PurgeSessions, CloseUser, ClientsOf
    <2> QED
      BY <1>5, <2>1, SessionsLeave DEF Feed!FeedNext
  <1>6. ASSUME NEW c \in Clients, NEW k \in Slots, Subscribe(c, k)
        PROVE  [Feed!FeedNext]_(Feed!feedVars)
    BY <1>6, SubscribeMistakes DEF Feed!FeedNext
  <1>7. ASSUME NEW c \in Clients, NEW k \in Slots, WriteFrame(c, k)
        PROVE  [Feed!FeedNext]_(Feed!feedVars)
    BY <1>7, FramesDeliver DEF Feed!FeedNext
  <1>8. ASSUME NEW c \in Clients, NEW k \in Slots,
               EndOfStream(c, k) \/ Unsubscribe(c, k) \/ Disconnect(c, k)
        PROVE  [Feed!FeedNext]_(Feed!feedVars)
    BY <1>1, <1>8 DEF EndOfStream, Unsubscribe, Disconnect
  <1>9. ASSUME NEW c \in Clients, Connect(c) PROVE [Feed!FeedNext]_(Feed!feedVars)
    BY <1>1, <1>9 DEF Connect
  <1>10. ASSUME Restart PROVE [Feed!FeedNext]_(Feed!feedVars)
    BY <1>1, <1>10 DEF Restart
  <1>11. ASSUME UNCHANGED vars PROVE [Feed!FeedNext]_(Feed!feedVars)
    BY <1>1, <1>11 DEF vars
  <1> QED
    BY <1>2, <1>3, <1>4, <1>5, <1>6, <1>7, <1>8, <1>9, <1>10, <1>11 DEF Next

\* Across broken connections, full queues, pruned buffers and restarts, events
\* come in order and none is skipped in silence, to any number of clients (the
\* safety half of ImplementsFeed).
THEOREM ImplementsFeedSafety == Spec => Feed!FeedSafety
  BY FeedInitMaps, FeedStepMaps, InvHolds, PTL DEF Spec, Feed!FeedSafety

=============================================================================
