---------------------------- MODULE UploadProofs ----------------------------
(***************************************************************************)
(* Safety theorems about Upload, for any set of uploads with any metadata, *)
(* any number of free names, of crashes and of failing calls.              *)
(***************************************************************************)
EXTENDS Upload, FiniteSetTheorems, TLAPS

-----------------------------------------------------------------------------
(* The inductive invariant.                                                *)

Moving == {"move", "copy", "remove", "info", "announce"}    \* a path is chosen

\* A finished upload goes from its staged file to gone, and is staged with its
\* .info as long as it is there.
StagingSound ==
    \A u \in Uploads :
        /\ data[u] \in {"part", "full"} => u \in info
        /\ data[u] = "full" => u \in finished
        /\ u \in finished => data[u] \in {"full", "gone"}
        /\ u \in waiting => u \in finished
        /\ u \in old => u \notin waiting /\ (In("loop", "idle") \/ work["loop"].of # u)

\* What is at the path a goroutine has chosen, unless the other chose it too.
Placed(w) ==
    LET u == work[w].of
        p == work[w].at
    IN  CASE In(w, "move") -> disk[p] = NoFile
          [] In(w, "copy") -> disk[p] = [of |-> {u}, whole |-> FALSE]
          [] OTHER -> disk[p] = [of |-> {u}, whole |-> TRUE]

WorkSound(w) ==
    /\ ~In(w, "idle") => work[w].of \in finished
    /\ work[w].phase \in {"info", "announce"} => data[work[w].of] = "gone"
    /\ work[w].phase \in Moving =>
         /\ \E n \in 1..MaxSuffix : work[w].at = Path(work[w].of, n)
         /\ work[w].at \in contested \/ Placed(w)
         /\ \A v \in Others(w) : work[v].at = work[w].at => work[w].at \in contested

Kept(u) == \E n \in 1..MaxSuffix : disk[Path(u, n)] = [of |-> {u}, whole |-> TRUE]

\* What is no longer staged has arrived, and so has what was announced.
Arrived ==
    \A u \in Uploads :
        /\ data[u] = "gone" => Kept(u) \/ u \in expired \/ Contested(u)
        /\ u \in announced => Kept(u) \/ Contested(u)

NoLitter ==
    \A p \in Paths : disk[p] # NoFile /\ ~disk[p].whole =>
        BeingCopied(p) \/ p \in torn \cup contested

\* A goroutine is moving the upload to a path.
Moves(w, u) == work[w].of = u /\ work[w].phase \in Moving

\* An upload that was not moved again has one copy, and while it is staged only
\* the one whose source is about to be removed.
MovedOnce(u) ==
    /\ \A p, q \in Copies(u) : p = q
    /\ \A v, w \in Workers : Moves(v, u) /\ Moves(w, u) => v = w
    /\ \A w \in Workers : work[w].of = u /\ work[w].phase \in {"copy", "remove"} =>
         data[u] = "full"
    /\ data[u] # "gone" => \A p \in Copies(u) : \E w \in Workers :
         In(w, "remove") /\ work[w].of = u /\ work[w].at = p

\* A goroutine has the upload in hand.
Held(u) == \E w \in Workers : ~In(w, "idle") /\ work[w].of = u

\* A finished upload that is still staged waits, is in hand, or was: its move
\* failed or a crash ended it.
Handled == \A u \in Uploads : data[u] = "full" =>
    u \in waiting \cup unmoved \cup dropped \/ Held(u)

\* When Run comes to sweep, it has tried every upload that is old enough and
\* that it knows to be finished.
Tried ==
    /\ round = "sweep" => In("run", "idle")
    /\ \A u \in old : data[u] = "full" =>
         /\ round = "sweep" => u \in unmoved \cup (dropped \ Recorded)
         /\ round = "retry" /\ u \in Recorded =>
              \/ u \in todo \cup unmoved
              \/ ~In("run", "idle") /\ work["run"].of = u

IInv ==
    /\ TypeOK
    /\ StagingSound
    /\ \A w \in Workers : WorkSound(w)
    /\ Arrived
    /\ NoLitter
    /\ \A u \in Uploads \ repeated : MovedOnce(u)
    /\ Handled
    /\ Tried

-----------------------------------------------------------------------------
(* What the definitions come to.                                           *)

Phases == {"idle", "lookup", "name"} \cup Moving
Entry == [of : SUBSET Uploads, whole : BOOLEAN]

LEMMA PathsKnown ==
  /\ NoPath \notin Paths
  /\ \A u \in Uploads, n \in 1..MaxSuffix : Path(u, n) \in Paths
  <1>1. ASSUME NEW u \in Uploads, NEW n \in 1..MaxSuffix
        PROVE  Path(u, n) \in Paths /\ Path(u, n) # NoPath
    <2>1. Path(u, n).n = n /\ NoPath.n = 0 /\ n # 0
      BY UploadAssumption DEF Path, NoPath
    <2> QED
      BY <2>1 DEF Paths
  <1>2. ASSUME NoPath \in Paths
        PROVE  FALSE
    <2>1. PICK u \in Uploads, n \in 1..MaxSuffix : NoPath = Path(u, n)
      BY <1>2 DEF Paths
    <2> QED
      BY <1>1, <2>1
  <1> QED
    BY <1>1, <1>2

LEMMA EntryIsNoNoFile ==
  ASSUME NEW S \in SUBSET Uploads, NEW b \in BOOLEAN
  PROVE  [of |-> S, whole |-> b] \in Entry /\ [of |-> S, whole |-> b] # NoFile
  BY UploadAssumption DEF Entry

LEMMA WholeEntry ==
  ASSUME NEW u \in Uploads
  PROVE  /\ [of |-> {u}, whole |-> TRUE] \in Entry
         /\ [of |-> {u}, whole |-> TRUE] # NoFile
         /\ [of |-> {u}, whole |-> TRUE].whole
         /\ [of |-> {u}, whole |-> FALSE] \in Entry
         /\ [of |-> {u}, whole |-> FALSE] # NoFile
         /\ ~[of |-> {u}, whole |-> FALSE].whole
  BY EntryIsNoNoFile

LEMMA WorkKnown ==
  ASSUME TypeOK, NEW w \in Workers
  PROVE  /\ work[w] \in [phase : Phases, of : Uploads, at : Paths \cup {NoPath}]
         /\ work[w].phase \in Phases /\ work[w].of \in Uploads
         /\ work[w].phase \in Moving => work[w].at \in Paths
         /\ work[w].phase \notin Moving => work[w].at = NoPath
  <1>1. work[w] \in [phase : Phases, of : Uploads, at : Paths \cup {NoPath}]
    BY DEF TypeOK, Phases, Moving
  <1>2. work[w].at \in Paths <=> work[w].phase \notin {"idle", "lookup", "name"}
    BY DEF TypeOK
  <1> QED
    BY <1>1, <1>2, PathsKnown DEF Phases, Moving

LEMMA IdleKnown ==
  /\ Idle \in [phase : Phases, of : Uploads, at : Paths \cup {NoPath}]
  /\ Idle.phase = "idle" /\ Idle.at = NoPath
  <1>1. (CHOOSE u \in Uploads : TRUE) \in Uploads
    BY UploadAssumption, Zenon
  <1> QED
    BY <1>1 DEF Idle, Phases

LEMMA WorkTyped ==
  ASSUME work' \in [Workers -> [phase : Phases, of : Uploads, at : Paths \cup {NoPath}]],
         \A w \in Workers : work'[w].at \in Paths <=> work'[w].phase \in Moving
  PROVE  /\ work' \in [Workers ->
              [phase : {"idle", "lookup", "name", "move", "copy", "remove", "info", "announce"},
               of : Uploads, at : Paths \cup {NoPath}]]
         /\ \A w \in Workers : work'[w].at \in Paths <=> work'[w].phase \notin {"idle", "lookup", "name"}
  <1>1. Phases = {"idle", "lookup", "name", "move", "copy", "remove", "info", "announce"}
    BY DEF Phases, Moving
  <1>2. \A w \in Workers : work'[w].phase \in Phases
    OBVIOUS
  <1>3. \A x \in Phases : x \in Moving <=> x \notin {"idle", "lookup", "name"}
    BY DEF Phases, Moving
  <1> QED
    BY <1>1, <1>2, <1>3

\* The three ways in which a goroutine's call goes on.
LEMMA BeginIs ==
  ASSUME TypeOK, NEW w \in Workers, NEW u \in Uploads, Begin(w, u)
  PROVE  /\ work' \in [Workers -> [phase : Phases, of : Uploads, at : Paths \cup {NoPath}]]
         /\ work'[w].phase = "lookup" /\ work'[w].of = u /\ work'[w].at = NoPath
         /\ \A v \in Workers \ {w} : work'[v] = work[v]
         /\ \A v \in Workers : work'[v].at \in Paths <=> work'[v].phase \in Moving
  <1> DEFINE call == [Idle EXCEPT !.phase = "lookup", !.of = u]
  <1>1. call \in [phase : Phases, of : Uploads, at : Paths \cup {NoPath}]
        /\ call.phase = "lookup" /\ call.of = u /\ call.at = NoPath
    BY IdleKnown DEF Phases
  <1>2. work' = [work EXCEPT ![w] = call]
    BY DEF Begin
  <1> HIDE DEF call
  <1>3. work \in [Workers -> [phase : Phases, of : Uploads, at : Paths \cup {NoPath}]]
    BY WorkKnown DEF TypeOK
  <1> QED
    BY <1>1, <1>2, <1>3, WorkKnown, PathsKnown DEF Moving

LEMMA AdvanceIs ==
  ASSUME TypeOK, NEW w \in Workers, NEW phase \in Moving, Advance(w, phase),
         work[w].phase \in Moving
  PROVE  /\ work' \in [Workers -> [phase : Phases, of : Uploads, at : Paths \cup {NoPath}]]
         /\ work'[w].phase = phase /\ work'[w].of = work[w].of /\ work'[w].at = work[w].at
         /\ \A v \in Workers \ {w} : work'[v] = work[v]
         /\ \A v \in Workers : work'[v].at \in Paths <=> work'[v].phase \in Moving
  <1> DEFINE call == [work[w] EXCEPT !.phase = phase]
  <1>1. work \in [Workers -> [phase : Phases, of : Uploads, at : Paths \cup {NoPath}]]
    BY WorkKnown DEF TypeOK
  <1>2. call \in [phase : Phases, of : Uploads, at : Paths \cup {NoPath}]
        /\ call.phase = phase /\ call.of = work[w].of /\ call.at = work[w].at
    BY <1>1 DEF Phases
  <1>3. work' = [work EXCEPT ![w] = call]
    BY <1>1 DEF Advance
  <1> HIDE DEF call
  <1> QED
    BY <1>1, <1>2, <1>3, WorkKnown, PathsKnown

LEMMA StopIs ==
  ASSUME TypeOK, NEW w \in Workers, work' = [work EXCEPT ![w] = Idle]
  PROVE  /\ work' \in [Workers -> [phase : Phases, of : Uploads, at : Paths \cup {NoPath}]]
         /\ work'[w].phase = "idle" /\ work'[w].at = NoPath
         /\ \A v \in Workers \ {w} : work'[v] = work[v]
         /\ \A v \in Workers : work'[v].at \in Paths <=> work'[v].phase \in Moving
  <1>1. work \in [Workers -> [phase : Phases, of : Uploads, at : Paths \cup {NoPath}]]
    BY WorkKnown DEF TypeOK
  <1> QED
    BY <1>1, WorkKnown, IdleKnown, PathsKnown DEF Moving

-----------------------------------------------------------------------------
(* What a step owes to the rest of the state.                              *)

\* Nothing whole is replaced or taken away, except where both goroutines are.
Undisturbed ==
    \A p \in Paths \ contested :
        disk[p] # NoFile /\ disk[p].whole => disk'[p] = disk[p]

\* Histories only grow, and a file that is gone does not come back.
Growing ==
    /\ finished \subseteq finished' /\ expired \subseteq expired'
    /\ torn \subseteq torn' /\ contested \subseteq contested'
    /\ repeated \subseteq repeated'
    /\ \A u \in Uploads : data[u] = "gone" => data'[u] = "gone"

\* A goroutine that a step leaves alone stays sound if nobody has come to its
\* path, and nothing happened there.
LEMMA OtherStaysSound ==
  ASSUME IInv, Growing, NEW v \in Workers, NEW w \in Workers, v # w,
         work'[v] = work[v],
         work'[w].at = work[v].at => work'[w].at = work[w].at \/ work[v].at \in contested'
                                     \/ work'[w].at = NoPath,
         \A p \in Paths : disk'[p] # disk[p] => p = work[w].at
  PROVE  WorkSound(v)'
  <1>1. WorkSound(v) /\ Others(v) = {w}
    BY DEF IInv, Others, Workers
  <1>2. work[v].phase \in Moving => work[v].at \in Paths /\ work[v].at # NoPath
    BY WorkKnown, PathsKnown DEF IInv
  <1>3. work'[v].phase \in Moving /\ work'[v].at \notin contested' =>
          disk'[work[v].at] = disk[work[v].at]
    BY <1>1, <1>2 DEF WorkSound, Growing
  <1>4. ASSUME ~In(v, "idle")
        PROVE  work[v].of \in finished
    BY <1>1, <1>4 DEF WorkSound
  <1>5. work'[v].phase # "idle" => work'[v].of \in finished'
    BY <1>4 DEF In, Growing
  <1>6. work'[v].phase \in {"info", "announce"} => data'[work'[v].of] = "gone"
    BY <1>1, WorkKnown DEF WorkSound, Growing, IInv
  <1>7. ASSUME work'[v].phase \in Moving
        PROVE  /\ \E n \in 1..MaxSuffix : work'[v].at = Path(work'[v].of, n)
               /\ work'[w].at = work'[v].at => work'[v].at \in contested'
    BY <1>1, <1>2, <1>7 DEF WorkSound, Growing
  <1>8. ASSUME work'[v].phase \in Moving, work'[v].at \notin contested'
        PROVE  Placed(v)'
    <2>1. Placed(v)
      BY <1>1, <1>8 DEF WorkSound, Growing
    <2>2. disk'[work[v].at] = disk[work[v].at]
      BY <1>3, <1>8
    <2> QED
      BY <2>1, <2>2 DEF Placed, In
  <1>9. Others(v)' = {w}
    BY <1>1 DEF Others
  <1> QED
    BY <1>5, <1>6, <1>7, <1>8, <1>9 DEF WorkSound, In

LEMMA ArrivedStays ==
  ASSUME IInv, Growing, Undisturbed,
         \A u \in Uploads : data'[u] = "gone" =>
           data[u] = "gone" \/ Kept(u)' \/ u \in expired' \/ Contested(u)',
         \A u \in announced' \ announced : Kept(u)' \/ Contested(u)'
  PROVE  Arrived'
  <1>1. ASSUME NEW u \in Uploads, Contested(u)
        PROVE  Contested(u)'
    BY <1>1 DEF Contested, Growing
  <1>2. ASSUME NEW u \in Uploads, Kept(u)
        PROVE  Kept(u)' \/ Contested(u)'
    <2>1. PICK n \in 1..MaxSuffix : disk[Path(u, n)] = [of |-> {u}, whole |-> TRUE]
      BY <1>2 DEF Kept
    <2>2. Path(u, n) \in Paths
      BY PathsKnown
    <2>3. CASE Path(u, n) \in contested
      BY <2>3 DEF Contested, Growing
    <2>4. CASE Path(u, n) \notin contested
      <3>1. disk[Path(u, n)] # NoFile /\ disk[Path(u, n)].whole
        BY <2>1, WholeEntry
      <3>2. disk'[Path(u, n)] = [of |-> {u}, whole |-> TRUE]
        BY <2>1, <2>2, <2>4, <3>1 DEF Undisturbed
      <3> QED
        BY <3>2 DEF Kept
    <2> QED
      BY <2>3, <2>4
  <1>3. ASSUME NEW u \in Uploads
        PROVE  /\ data'[u] = "gone" => Kept(u)' \/ u \in expired' \/ Contested(u)'
               /\ u \in announced' => Kept(u)' \/ Contested(u)'
    BY <1>1, <1>2 DEF IInv, Arrived, Growing
  <1> QED
    BY <1>3 DEF Arrived

LEMMA LitterStays ==
  ASSUME IInv, Growing,
         \A p \in Paths : disk'[p] # NoFile /\ ~disk'[p].whole =>
           \/ BeingCopied(p)' \/ p \in torn' \cup contested'
           \/ disk'[p] = disk[p] /\ ~BeingCopied(p)
  PROVE  NoLitter'
  BY DEF IInv, NoLitter, Growing

LEMMA OnceStays ==
  ASSUME IInv, NEW u \in Uploads \ repeated,
         Copies(u)' \subseteq Copies(u),
         \A v \in Workers : Moves(v, u)' => Moves(v, u),
         \A v \in Workers : Moves(v, u)' /\ work'[v].phase \in {"copy", "remove"} =>
           data'[u] = "full",
         data'[u] # "gone" => data[u] # "gone",
         data'[u] # "gone" => \A v \in Workers : In(v, "remove") /\ work[v].of = u =>
           work'[v].phase = "remove" /\ work'[v].of = u /\ work'[v].at = work[v].at
  PROVE  MovedOnce(u)'
  <1>1. MovedOnce(u)
    BY DEF IInv
  <1>2. \A p, q \in Copies(u)' : p = q
    BY <1>1 DEF MovedOnce
  <1>3. \A v, w \in Workers : Moves(v, u)' /\ Moves(w, u)' => v = w
    BY <1>1 DEF MovedOnce
  <1>4. \A w \in Workers : work'[w].of = u /\ work'[w].phase \in {"copy", "remove"} =>
          data'[u] = "full"
    BY DEF Moves, Moving
  <1>5. data'[u] # "gone" => \A p \in Copies(u)' : \E w \in Workers :
          work'[w].phase = "remove" /\ work'[w].of = u /\ work'[w].at = p
    BY <1>1 DEF MovedOnce, In
  <1> QED
    BY <1>2, <1>3, <1>4, <1>5 DEF MovedOnce, In

\* No step but the last PATCH adds to what is to be moved.
LEMMA HandledStays ==
  ASSUME IInv,
         \A u \in Uploads : data'[u] = "full" =>
           /\ data[u] = "full"
           /\ u \in waiting \cup unmoved \cup dropped \/ Held(u) =>
                u \in waiting' \cup unmoved' \cup dropped' \/ Held(u)'
  PROVE  Handled'
  BY DEF IInv, Handled

\* A step that leaves the goroutines, their files and the histories alone.
Still == UNCHANGED <<work, disk, announced, data, finished, expired, dropped, torn, contested,
                     repeated>>

LEMMA StillKeeps ==
  ASSUME IInv, Still
  PROVE  /\ \A w \in Workers : WorkSound(w)'
         /\ Arrived'
         /\ NoLitter'
         /\ \A u \in Uploads \ repeated' : MovedOnce(u)'
         /\ Undisturbed
  <1>1. Growing /\ Undisturbed
    BY DEF Still, Growing, Undisturbed
  <1>2. ASSUME NEW w \in Workers
        PROVE  WorkSound(w)'
    BY DEF IInv, Still, WorkSound, In, Others, Placed
  <1>3. Arrived'
    BY DEF IInv, Still, Arrived, Kept, Contested
  <1>4. NoLitter'
    BY DEF IInv, Still, NoLitter, BeingCopied, Copying, In
  <1>5. ASSUME NEW u \in Uploads \ repeated'
        PROVE  MovedOnce(u)'
    BY DEF IInv, Still, MovedOnce, Copies, Moves, In
  <1> QED
    BY <1>1, <1>2, <1>3, <1>4, <1>5

\* The type of what a still step leaves alone.
LEMMA StillTyped ==
  ASSUME IInv, Still, serving' \in BOOLEAN, oneMount' \in BOOLEAN,
         library' \in {"ok", "readonly", "stale", "gone"}, info' \in SUBSET Uploads,
         old' \in SUBSET Uploads, waiting' \in SUBSET Uploads,
         round' \in {"start", "retry", "sweep", "wait"}, todo' \in SUBSET Uploads,
         unmoved' = unmoved, mishaps' \in 0..MaxMishaps
  PROVE  TypeOK'
  BY DEF IInv, TypeOK, Still

LEMMA MishapTyped ==
  ASSUME TypeOK, Mishap \/ mishaps' = mishaps
  PROVE  mishaps' \in 0..MaxMishaps
  BY UploadAssumption DEF TypeOK, Mishap

LEMMA RunKeeps ==
  ASSUME IInv, Start \/ Tick \/ EndRetry \/ EndSweep \/ ChangeLibrary
  PROVE  IInv' /\ Undisturbed
  <1>1. Still
    BY DEF Start, Tick, EndRetry, EndSweep, ChangeLibrary, Still, staging, history, sweeping
  <1>2. /\ info' = info /\ old' = old /\ waiting' = waiting /\ unmoved' = unmoved
        /\ oneMount' = oneMount
    BY DEF Start, Tick, EndRetry, EndSweep, ChangeLibrary, staging, history, sweeping
  <1>3. serving' \in BOOLEAN /\ library' \in {"ok", "readonly", "stale", "gone"}
    BY DEF Start, Tick, EndRetry, EndSweep, ChangeLibrary, IInv, TypeOK
  <1>4. round' \in {"start", "retry", "sweep", "wait"} /\ todo' \in SUBSET Uploads
    BY DEF Start, Tick, EndRetry, EndSweep, ChangeLibrary, IInv, TypeOK, sweeping
  <1>5. mishaps' \in 0..MaxMishaps
    <2>1. Mishap \/ mishaps' = mishaps
      BY DEF Start, Tick, EndRetry, EndSweep, ChangeLibrary
    <2> QED
      BY <2>1, MishapTyped DEF IInv
  <1>6. TypeOK'
    BY <1>1, <1>2, <1>3, <1>4, <1>5, StillTyped DEF IInv, TypeOK
  <1>7. StagingSound'
    BY <1>1, <1>2 DEF IInv, StagingSound, Still, In
  <1>8. Tried'
    <2>1. CASE Start
      BY <2>1 DEF Start, Tried
    <2>2. CASE Tick
      BY <1>1, <1>2, <2>2 DEF Tick, Tried, Still, IInv, StagingSound, TypeOK
    <2>3. CASE EndRetry
      <3>1. todo = {} /\ In("run", "idle") /\ round' \in {"wait", "sweep"}
            /\ (round' = "sweep" => round = "retry")
        BY <2>3, <1>1 DEF EndRetry, IInv, TypeOK
      <3>2. ASSUME NEW u \in old, data[u] = "full", round = "retry"
            PROVE  u \in unmoved \cup (dropped \ Recorded)
        <4>1. u \in Uploads
          BY <3>2 DEF IInv, TypeOK
        <4>2. u \notin waiting /\ (In("loop", "idle") \/ work["loop"].of # u)
          BY <3>2, <4>1 DEF IInv, StagingSound
        <4>3. ~Held(u)
          BY <3>1, <4>2 DEF Held, Workers
        <4>4. u \in unmoved \cup dropped
          BY <3>2, <4>1, <4>2, <4>3 DEF IInv, Handled
        <4> QED
          BY <3>1, <3>2, <4>4 DEF IInv, Tried
      <3> QED
        BY <1>1, <1>2, <3>1, <3>2 DEF Tried, Still, In
    <2>4. CASE EndSweep
      BY <2>4 DEF EndSweep, Tried
    <2>5. CASE ChangeLibrary
      BY <1>1, <1>2, <2>5 DEF ChangeLibrary, Tried, Still, IInv, In, sweeping
    <2> QED
      BY <2>1, <2>2, <2>3, <2>4, <2>5
  <1>9. Handled'
    BY <1>1, <1>2, HandledStays DEF Still, Held, In
  <1> QED
    BY <1>1, <1>6, <1>7, <1>8, <1>9, StillKeeps DEF IInv

LEMMA GrowKeeps ==
  ASSUME IInv, NEW u \in Uploads, Grow(u)
  PROVE  IInv' /\ Undisturbed
  <1>1. /\ Still /\ old' = old \cup {u} /\ round = "wait" /\ round' = round /\ todo' = todo
        /\ u \notin waiting
        /\ \A w \in Workers : ~In(w, "idle") => work[w].of # u
        /\ UNCHANGED <<serving, oneMount, library, info, waiting, unmoved, mishaps>>
    BY DEF Grow, Still, staging, history, sweeping
  <1>2. TypeOK'
    BY <1>1, StillTyped DEF IInv, TypeOK
  <1>3. StagingSound'
    BY <1>1 DEF IInv, StagingSound, Still, In, Workers
  <1>4. Tried'
    BY <1>1 DEF Tried
  <1>5. Handled'
    BY <1>1, HandledStays DEF Still, Held, In
  <1> QED
    BY <1>1, <1>2, <1>3, <1>4, <1>5, StillKeeps DEF IInv

\* A step that only takes bytes in.
Receiving ==
    /\ UNCHANGED <<work, disk, announced, expired, dropped, torn, contested, repeated>>
    /\ finished \subseteq finished'
    /\ \A u \in Uploads : /\ data'[u] = "gone" <=> data[u] = "gone"
                          /\ data[u] = "full" => data'[u] = "full"

LEMMA ReceivingKeeps ==
  ASSUME IInv, Receiving
  PROVE  /\ \A w \in Workers : WorkSound(w)'
         /\ Arrived'
         /\ NoLitter'
         /\ \A u \in Uploads \ repeated' : MovedOnce(u)'
         /\ Undisturbed
  <1>1. Growing /\ Undisturbed
    BY DEF Receiving, Growing, Undisturbed
  <1>2. ASSUME NEW w \in Workers
        PROVE  WorkSound(w)'
    <2>1. WorkSound(w) /\ work[w].of \in Uploads
      BY WorkKnown DEF IInv
    <2> QED
      BY <2>1 DEF Receiving, WorkSound, In, Others, Placed
  <1>3. Arrived'
    BY DEF IInv, Receiving, Arrived, Kept, Contested
  <1>4. NoLitter'
    BY DEF IInv, Receiving, NoLitter, BeingCopied, Copying, In
  <1>5. ASSUME NEW u \in Uploads \ repeated'
        PROVE  MovedOnce(u)'
    <2>1. MovedOnce(u)
      BY DEF IInv, Receiving
    <2> QED
      BY <2>1 DEF Receiving, MovedOnce, Copies, Moves, In
  <1> QED
    BY <1>1, <1>2, <1>3, <1>4, <1>5

LEMMA CreateKeeps ==
  ASSUME IInv, NEW u \in Uploads, Create(u)
  PROVE  IInv' /\ Undisturbed
  <1>1. /\ data[u] = "new" /\ data' = [data EXCEPT ![u] = "part"]
        /\ info' = info \cup {u}
        /\ UNCHANGED <<serving, oneMount, library, old, waiting, work, round, todo, disk,
                       announced, finished, expired, unmoved, dropped, torn, contested, repeated,
                       mishaps>>
    BY DEF Create, sweeping, history
  <1>2. data' \in [Uploads -> {"new", "part", "full", "gone"}]
        /\ \A x \in Uploads : data'[x] = IF x = u THEN "part" ELSE data[x]
    BY <1>1 DEF IInv, TypeOK
  <1>3. Receiving
    BY <1>1, <1>2 DEF Receiving
  <1>4. TypeOK'
    BY <1>1, <1>2 DEF IInv, TypeOK
  <1>5. StagingSound'
    BY <1>1, <1>2 DEF IInv, StagingSound, In
  <1>6. Tried'
    BY <1>1, <1>2 DEF IInv, Tried, In
  <1>7. Handled'
    BY <1>1, <1>2, HandledStays DEF Held, In
  <1> QED
    BY <1>3, <1>4, <1>5, <1>6, <1>7, ReceivingKeeps DEF IInv

LEMMA PatchKeeps ==
  ASSUME IInv, NEW u \in Uploads, Patch(u)
  PROVE  IInv' /\ Undisturbed
  <1>1. /\ data[u] = "part" /\ old' = old \ {u}
        /\ UNCHANGED <<serving, oneMount, library, info, work, round, todo, disk,
                       announced, expired, unmoved, dropped, torn, contested, repeated, mishaps>>
    BY DEF Patch, sweeping
  <1>2. CASE UNCHANGED <<data, finished, waiting>>
    <2>1. Receiving
      BY <1>1, <1>2 DEF Receiving
    <2>2. TypeOK'
      BY <1>1, <1>2 DEF IInv, TypeOK
    <2>3. StagingSound'
      BY <1>1, <1>2 DEF IInv, StagingSound, In
    <2>4. Tried'
      BY <1>1, <1>2 DEF IInv, Tried, In
    <2>5. Handled'
      BY <1>1, <1>2, HandledStays DEF Held, In
    <2> QED
      BY <2>1, <2>2, <2>3, <2>4, <2>5, ReceivingKeeps DEF IInv
  <1>3. CASE /\ data' = [data EXCEPT ![u] = "full"]
             /\ finished' = finished \cup {u}
             /\ waiting' = waiting \cup {u}
    <2>1. data' \in [Uploads -> {"new", "part", "full", "gone"}]
          /\ \A x \in Uploads : data'[x] = IF x = u THEN "full" ELSE data[x]
      BY <1>3 DEF IInv, TypeOK
    <2>2. Receiving
      BY <1>1, <1>3, <2>1 DEF Receiving
    <2>3. TypeOK'
      BY <1>1, <1>3, <2>1 DEF IInv, TypeOK
    <2>4. StagingSound'
      BY <1>1, <1>3, <2>1 DEF IInv, StagingSound, In
    <2>5. Tried'
      BY <1>1, <1>3, <2>1 DEF IInv, Tried, In
    <2>6. Handled'
      BY <1>1, <1>3, <2>1 DEF IInv, Handled, Held, In
    <2> QED
      BY <2>2, <2>3, <2>4, <2>5, <2>6, ReceivingKeeps DEF IInv
  <1> QED
    BY <1>2, <1>3 DEF Patch

\* A goroutine takes an upload in hand; nothing has a path yet.
LEMMA BeginKeeps ==
  ASSUME IInv, NEW w \in Workers, NEW u \in finished, In(w, "idle"), Begin(w, u),
         UNCHANGED <<disk, announced, data, finished, expired, dropped, torn, contested, repeated>>
  PROVE  /\ \A v \in Workers : WorkSound(v)'
         /\ Arrived'
         /\ NoLitter'
         /\ \A x \in Uploads \ repeated' : MovedOnce(x)'
         /\ Undisturbed
         /\ work'[w].phase = "lookup" /\ work'[w].of = u
         /\ \A v \in Workers \ {w} : work'[v] = work[v]
         /\ work' \in [Workers ->
              [phase : {"idle", "lookup", "name", "move", "copy", "remove", "info", "announce"},
               of : Uploads, at : Paths \cup {NoPath}]]
         /\ \A v \in Workers : work'[v].at \in Paths <=> work'[v].phase \notin {"idle", "lookup", "name"}
  <1>1. Growing /\ Undisturbed
    BY DEF Growing, Undisturbed
  <1>2. u \in Uploads
    BY DEF IInv, TypeOK
  <1>3. /\ work' \in [Workers -> [phase : Phases, of : Uploads, at : Paths \cup {NoPath}]]
        /\ work'[w].phase = "lookup" /\ work'[w].of = u /\ work'[w].at = NoPath
        /\ \A v \in Workers \ {w} : work'[v] = work[v]
        /\ \A v \in Workers : work'[v].at \in Paths <=> work'[v].phase \in Moving
    BY <1>2, BeginIs DEF IInv
  <1>4. WorkSound(w)'
    BY <1>3 DEF WorkSound, In, Moving
  <1>5. ASSUME NEW v \in Workers \ {w}
        PROVE  WorkSound(v)'
    BY <1>1, <1>3, OtherStaysSound
  <1>6. Arrived'
    BY <1>1, ArrivedStays
  <1>7. NoLitter'
    <2>1. ASSUME NEW p \in Paths, BeingCopied(p)
          PROVE  BeingCopied(p)'
      <3>1. PICK v \in Workers : Copying(v, p)
        BY <2>1 DEF BeingCopied
      <3>2. v # w
        BY <3>1 DEF Copying, In
      <3> QED
        BY <1>3, <3>1, <3>2 DEF BeingCopied, Copying, In
    <2> QED
      BY <1>1, <2>1, LitterStays
  <1>8. ASSUME NEW x \in Uploads \ repeated'
        PROVE  MovedOnce(x)'
    <2>1. x \in Uploads \ repeated /\ Copies(x)' = Copies(x) /\ MovedOnce(x)
      BY DEF Copies, IInv
    <2>2. ASSUME NEW v \in Workers, work'[v].phase \in Moving \/ In(v, "remove")
          PROVE  work'[v] = work[v]
      BY <1>3, <2>2 DEF Moving, In
    <2>3. /\ \A v \in Workers : Moves(v, x)' => Moves(v, x)
          /\ \A v \in Workers : Moves(v, x)' /\ work'[v].phase \in {"copy", "remove"} =>
               data'[x] = "full"
          /\ \A v \in Workers : In(v, "remove") /\ work[v].of = x =>
               work'[v].phase = "remove" /\ work'[v].of = x /\ work'[v].at = work[v].at
      BY <2>1, <2>2 DEF Moves, MovedOnce, In
    <2> QED
      BY <2>1, <2>3, OnceStays
  <1> QED
    BY <1>1, <1>3, <1>4, <1>5, <1>6, <1>7, <1>8, WorkTyped

LEMMA TakeKeeps ==
  ASSUME IInv, NEW u \in Uploads, Take(u)
  PROVE  IInv' /\ Undisturbed
  <1>1. /\ In("loop", "idle") /\ u \in waiting /\ waiting' = waiting \ {u}
        /\ Begin("loop", u) /\ "loop" \in Workers
        /\ UNCHANGED <<serving, oneMount, library, data, info, old, round, todo, disk,
                       announced, finished, expired, unmoved, dropped, torn, contested, repeated,
                       mishaps>>
    BY DEF Take, staging, sweeping, history, Workers
  <1>2. u \in finished /\ u \notin old
    BY <1>1 DEF IInv, StagingSound
  <1>3. /\ \A v \in Workers : WorkSound(v)'
        /\ Arrived'
        /\ NoLitter'
        /\ \A x \in Uploads \ repeated' : MovedOnce(x)'
        /\ Undisturbed
        /\ work'["loop"].phase = "lookup" /\ work'["loop"].of = u
        /\ \A v \in Workers \ {"loop"} : work'[v] = work[v]
        /\ work' \in [Workers ->
              [phase : {"idle", "lookup", "name", "move", "copy", "remove", "info", "announce"},
               of : Uploads, at : Paths \cup {NoPath}]]
        /\ \A v \in Workers : work'[v].at \in Paths <=> work'[v].phase \notin {"idle", "lookup", "name"}
    BY <1>1, <1>2, BeginKeeps
  <1>4. TypeOK'
    BY <1>1, <1>3 DEF IInv, TypeOK
  <1>5. StagingSound'
    BY <1>1, <1>2, <1>3 DEF IInv, StagingSound
  <1>6. Tried'
    BY <1>1, <1>3 DEF IInv, Tried, In, Workers
  <1>7. Handled'
    <2>1. ASSUME NEW x \in Uploads, Held(x)
          PROVE  Held(x)'
      BY <1>1, <1>3, <2>1 DEF Held, In, Workers
    <2>2. Held(u)'
      BY <1>1, <1>3 DEF Held, In
    <2> QED
      BY <1>1, <2>1, <2>2, HandledStays
  <1> QED
    BY <1>3, <1>4, <1>5, <1>6, <1>7 DEF IInv

LEMMA RetryKeeps ==
  ASSUME IInv, NEW u \in Uploads, Retry(u)
  PROVE  IInv' /\ Undisturbed
  <1>1. /\ In("run", "idle") /\ round \in {"start", "retry"} /\ todo' = todo \ {u}
        /\ UNCHANGED <<serving, oneMount, library, data, info, old, waiting, round, disk,
                       announced, finished, expired, unmoved, dropped, torn, contested, repeated,
                       mishaps>>
    BY DEF Retry, staging, history
  <1>2. CASE u \in info \cap Recorded /\ data[u] = "full" /\ Begin("run", u)
    <2>1. u \in finished /\ "run" \in Workers
      BY <1>2 DEF IInv, StagingSound, Workers
    <2>2. /\ \A v \in Workers : WorkSound(v)'
          /\ Arrived'
          /\ NoLitter'
          /\ \A x \in Uploads \ repeated' : MovedOnce(x)'
          /\ Undisturbed
          /\ work'["run"].phase = "lookup" /\ work'["run"].of = u
          /\ \A v \in Workers \ {"run"} : work'[v] = work[v]
          /\ work' \in [Workers ->
               [phase : {"idle", "lookup", "name", "move", "copy", "remove", "info", "announce"},
                of : Uploads, at : Paths \cup {NoPath}]]
          /\ \A v \in Workers :
               work'[v].at \in Paths <=> work'[v].phase \notin {"idle", "lookup", "name"}
      BY <1>1, <1>2, <2>1, BeginKeeps
    <2>3. TypeOK'
      BY <1>1, <2>2 DEF IInv, TypeOK
    <2>4. StagingSound'
      BY <1>1, <2>2 DEF IInv, StagingSound, In, Workers
    <2>5. Tried'
      BY <1>1, <2>2 DEF IInv, Tried, In
    <2>6. Handled'
      <3>1. \A x \in Uploads : Held(x) => Held(x)'
        BY <1>1, <2>2 DEF Held, In, Workers
      <3> QED
        BY <1>1, <3>1, HandledStays
    <2> QED
      BY <2>2, <2>3, <2>4, <2>5, <2>6 DEF IInv
  <1>3. CASE ~(u \in info \cap Recorded /\ data[u] = "full") /\ work' = work
    <2>1. Still
      BY <1>1, <1>3 DEF Still
    <2>2. TypeOK'
      BY <1>1, <2>1, StillTyped DEF IInv, TypeOK
    <2>3. StagingSound'
      BY <1>1, <1>3 DEF IInv, StagingSound, In
    <2>4. Tried'
      <3>1. u \in old /\ data[u] = "full" => u \notin Recorded
        BY <1>3 DEF IInv, StagingSound
      <3> QED
        BY <1>1, <1>3, <3>1 DEF IInv, Tried, In
    <2>5. Handled'
      BY <1>1, <1>3, HandledStays DEF Held, In
    <2> QED
      BY <2>1, <2>2, <2>3, <2>4, <2>5, StillKeeps DEF IInv
  <1> QED
    BY <1>2, <1>3 DEF Retry

-----------------------------------------------------------------------------
(* Moving.                                                                 *)

LEMMA MakeFolderKeeps ==
  ASSUME IInv, NEW w \in Workers, MakeFolder(w)
  PROVE  IInv' /\ Undisturbed
  <1>1. /\ work[w].phase = "lookup" /\ work' = [work EXCEPT ![w].phase = "name"]
        /\ UNCHANGED <<serving, oneMount, library, data, info, old, waiting, round, todo,
                       disk, announced, finished, expired, unmoved, dropped, torn,
                       contested, repeated, mishaps>>
    BY DEF MakeFolder, Advance, In, staging, sweeping, history
  <1>2. /\ work[w].at = NoPath /\ work[w].of \in finished
        /\ work \in [Workers -> [phase : Phases, of : Uploads, at : Paths \cup {NoPath}]]
    BY <1>1, WorkKnown DEF IInv, TypeOK, WorkSound, In, Moving
  <1>3. /\ work' \in [Workers -> [phase : Phases, of : Uploads, at : Paths \cup {NoPath}]]
        /\ work'[w].phase = "name" /\ work'[w].of = work[w].of /\ work'[w].at = NoPath
        /\ \A v \in Workers \ {w} : work'[v] = work[v]
    <2> DEFINE call == [work[w] EXCEPT !.phase = "name"]
    <2>1. /\ call \in [phase : Phases, of : Uploads, at : Paths \cup {NoPath}]
          /\ call.phase = "name" /\ call.of = work[w].of /\ call.at = NoPath
      BY <1>2 DEF Phases
    <2>2. work' = [work EXCEPT ![w] = call]
      BY <1>1, <1>2
    <2> HIDE DEF call
    <2> QED
      BY <1>2, <2>1, <2>2
  <1>4. \A v \in Workers : work'[v].at \in Paths <=> work'[v].phase \in Moving
    BY <1>2, <1>3, WorkKnown, PathsKnown DEF IInv, Moving
  <1>5. TypeOK'
    BY <1>1, <1>3, <1>4, WorkTyped DEF IInv, TypeOK
  <1>6. Growing /\ Undisturbed
    BY <1>1 DEF Growing, Undisturbed
  <1>7. \A v \in Workers : /\ In(v, "idle")' <=> In(v, "idle")
                           /\ work'[v].of = work[v].of
                           /\ work'[v].phase \in Moving \/ In(v, "remove") \/ In(v, "copy")
                                => work'[v] = work[v]
    BY <1>1, <1>3 DEF In, Moving
  <1>8. StagingSound'
    BY <1>1, <1>7 DEF IInv, StagingSound, Workers
  <1>9. WorkSound(w)'
    BY <1>1, <1>2, <1>3 DEF WorkSound, In, Moving
  <1>10. ASSUME NEW v \in Workers \ {w}
         PROVE  WorkSound(v)'
    BY <1>1, <1>3, <1>6, OtherStaysSound
  <1>11. Arrived'
    BY <1>1, <1>6, ArrivedStays
  <1>12. NoLitter'
    <2>1. \A p \in Paths : BeingCopied(p) => BeingCopied(p)'
      BY <1>7 DEF BeingCopied, Copying, In
    <2> QED
      BY <1>1, <1>6, <2>1, LitterStays
  <1>13. ASSUME NEW x \in Uploads \ repeated'
         PROVE  MovedOnce(x)'
    <2>1. x \in Uploads \ repeated /\ Copies(x)' = Copies(x) /\ MovedOnce(x)
      BY <1>1 DEF Copies, IInv
    <2>2. \A v \in Workers : Moves(v, x)' => Moves(v, x) /\ work'[v] = work[v]
      BY <1>7 DEF Moves
    <2>3. \A v \in Workers : Moves(v, x)' /\ work'[v].phase \in {"copy", "remove"} =>
               data'[x] = "full"
      BY <1>1, <2>1, <2>2 DEF MovedOnce, Moves
    <2>4. \A v \in Workers : In(v, "remove") /\ work[v].of = x =>
               work'[v].phase = "remove" /\ work'[v].of = x /\ work'[v].at = work[v].at
      BY <1>7 DEF In
    <2> QED
      BY <1>1, <2>1, <2>2, <2>3, <2>4, OnceStays
  <1>14. Handled'
    BY <1>1, <1>7, HandledStays DEF Held
  <1>15. Tried'
    BY <1>1, <1>7 DEF IInv, Tried, Workers
  <1> QED
    BY <1>5, <1>6, <1>8, <1>9, <1>10, <1>11, <1>12, <1>13, <1>14, <1>15 DEF IInv

LEMMA PickPathKeeps ==
  ASSUME IInv, NEW w \in Workers, PickPath(w)
  PROVE  IInv' /\ Undisturbed
  <1> DEFINE u == work[w].of
  <1>1. PICK p \in Free(Path(u, 1)) :
             /\ work' = [work EXCEPT ![w].phase = "move", ![w].at = p]
             /\ contested' = contested \cup
                  {q \in {p} : \E v \in Others(w) : work[v].at = q}
    BY DEF PickPath
  <1>2. /\ In(w, "name")
        /\ repeated' = repeated \cup
             {x \in {u} : \E v \in Others(w) : ~In(v, "idle") /\ work[v].of = u}
        /\ UNCHANGED <<serving, oneMount, library, data, info, old, waiting, round, todo,
                       disk, announced, finished, expired, unmoved, dropped, torn, mishaps>>
    BY DEF PickPath, staging, sweeping
  <1>3. u \in Uploads /\ u \in finished /\ work[w].phase = "name" /\ work[w].at = NoPath
    BY <1>2, WorkKnown DEF IInv, WorkSound, In, Moving
  <1>4. PICK n \in 1..MaxSuffix : p = Path(u, n) /\ disk[p] = NoFile
    BY <1>1 DEF Free, Path
  <1>5. p \in Paths /\ p # NoPath
    BY <1>3, <1>4, PathsKnown
  <1>6. /\ work' \in [Workers -> [phase : Phases, of : Uploads, at : Paths \cup {NoPath}]]
        /\ work'[w].phase = "move" /\ work'[w].of = u /\ work'[w].at = p
        /\ \A v \in Workers \ {w} : work'[v] = work[v]
        /\ \A v \in Workers : work'[v].at \in Paths <=> work'[v].phase \in Moving
    <2> DEFINE call == [work[w] EXCEPT !.phase = "move", !.at = p]
    <2>1. work \in [Workers -> [phase : Phases, of : Uploads, at : Paths \cup {NoPath}]]
      BY WorkKnown DEF IInv, TypeOK
    <2>2. call \in [phase : Phases, of : Uploads, at : Paths \cup {NoPath}]
          /\ call.phase = "move" /\ call.of = u /\ call.at = p
      BY <1>5, <2>1 DEF Phases, Moving
    <2>3. work' = [work EXCEPT ![w] = call]
      BY <1>1, <2>1
    <2> HIDE DEF call
    <2>4. \A v \in Workers : work[v].at \in Paths <=> work[v].phase \in Moving
      BY WorkKnown, PathsKnown DEF IInv
    <2> QED
      BY <1>5, <2>1, <2>2, <2>3, <2>4 DEF Moving
  <1> HIDE DEF u
  <1>7. contested' \in SUBSET Paths /\ repeated' \in SUBSET Uploads
    BY <1>1, <1>2, <1>3, <1>5 DEF IInv, TypeOK
  <1>8. TypeOK'
    <2>1. /\ work' \in [Workers ->
               [phase : {"idle", "lookup", "name", "move", "copy", "remove", "info", "announce"},
                of : Uploads, at : Paths \cup {NoPath}]]
          /\ \A v \in Workers :
               work'[v].at \in Paths <=> work'[v].phase \notin {"idle", "lookup", "name"}
      BY <1>6, WorkTyped
    <2> QED
      BY <1>2, <1>7, <2>1 DEF IInv, TypeOK
  <1>9. StagingSound'
    <2>1. \A x \in Uploads : In("loop", "idle") \/ work["loop"].of # x =>
                             In("loop", "idle")' \/ work'["loop"].of # x
      BY <1>2, <1>6 DEF In, u, Workers
    <2> QED
      BY <1>2, <2>1 DEF IInv, StagingSound
  <1>10. Growing /\ Undisturbed
    BY <1>1, <1>2 DEF Growing, Undisturbed
  <1>11. WorkSound(w)'
    <2>1. \A v \in Others(w) : work'[v].at = work'[w].at => work'[w].at \in contested'
      BY <1>1, <1>6 DEF Others
    <2>2. work'[w].phase = "move" /\ Placed(w)'
      BY <1>2, <1>4, <1>6 DEF Placed, In
    <2> QED
      BY <1>2, <1>3, <1>4, <1>6, <2>1, <2>2 DEF WorkSound, In, Others
  <1>12. ASSUME NEW v \in Workers \ {w}
         PROVE  WorkSound(v)'
    <2>1. work'[w].at = work[v].at => work[v].at \in contested'
      BY <1>1, <1>6 DEF Others
    <2> QED
      BY <1>2, <1>6, <1>10, <2>1, OtherStaysSound
  <1>13. Arrived'
    BY <1>2, <1>10, ArrivedStays
  <1>14. NoLitter'
    <2>1. ASSUME NEW q \in Paths, BeingCopied(q)
          PROVE  BeingCopied(q)'
      <3>1. PICK v \in Workers : Copying(v, q)
        BY <2>1 DEF BeingCopied
      <3>2. v # w
        BY <1>2, <3>1 DEF Copying, In
      <3> QED
        BY <1>6, <3>1, <3>2 DEF BeingCopied, Copying, In
    <2> QED
      BY <1>2, <1>10, <2>1, LitterStays
  <1>15. ASSUME NEW x \in Uploads \ repeated'
         PROVE  MovedOnce(x)'
    <2>1. x \in Uploads \ repeated /\ Copies(x)' = Copies(x) /\ MovedOnce(x)
      BY <1>2 DEF Copies, IInv
    <2>2. \A v \in Workers : v # w => (Moves(v, x)' <=> Moves(v, x))
      BY <1>6 DEF Moves
    <2>3. CASE x # u
      <3>1. ~Moves(w, x)' /\ work[w].of # x
        BY <1>6, <2>3 DEF Moves, u
      <3>2. \A v \in Workers : Moves(v, x)' => Moves(v, x) /\ work'[v] = work[v]
        BY <1>6, <2>2, <3>1
      <3>3. \A v \in Workers : Moves(v, x)' /\ work'[v].phase \in {"copy", "remove"} =>
               data'[x] = "full"
        BY <1>2, <2>1, <3>2 DEF MovedOnce, Moves
      <3>4. \A v \in Workers : In(v, "remove") /\ work[v].of = x =>
               work'[v].phase = "remove" /\ work'[v].of = x /\ work'[v].at = work[v].at
        BY <1>6, <3>1 DEF In
      <3> QED
        BY <1>2, <2>1, <3>2, <3>3, <3>4, OnceStays
    <2>4. CASE x = u
      <3>1. \A v \in Workers \ {w} : In(v, "idle") \/ work[v].of # x
        BY <1>2, <2>4 DEF Others, u
      <3>2. \A v \in Workers \ {w} : ~Moves(v, x)'
        BY <1>6, <3>1 DEF Moves, In, Moving
      <3>3. \A v \in Workers : work'[v].of = x => work'[v].phase \notin {"copy", "remove"}
        BY <1>6, <3>2 DEF Moves, Moving
      <3>4. \A v \in Workers : ~(In(v, "remove") /\ work[v].of = x)
        BY <1>2, <3>1 DEF In
      <3>5. data'[x] # "gone" => Copies(x)' = {}
        BY <1>2, <2>1, <3>4 DEF MovedOnce
      <3>6. \A q, r \in Copies(x)' : q = r
        BY <2>1 DEF MovedOnce
      <3>7. \A v, v2 \in Workers : Moves(v, x)' /\ Moves(v2, x)' => v = v2
        BY <3>2
      <3> QED
        BY <3>3, <3>5, <3>6, <3>7 DEF MovedOnce
    <2> QED
      BY <2>3, <2>4
  <1>16. Tried'
    <2>1. In("run", "idle")' <=> In("run", "idle")
      BY <1>2, <1>6 DEF In, Workers
    <2>2. work'["run"].of = work["run"].of
      BY <1>6 DEF u, Workers
    <2> QED
      BY <1>2, <2>1, <2>2 DEF IInv, Tried
  <1>17. Handled'
    <2>1. ASSUME NEW x \in Uploads, Held(x)
          PROVE  Held(x)'
      <3>1. PICK v \in Workers : ~In(v, "idle") /\ work[v].of = x
        BY <2>1 DEF Held
      <3>2. work'[v].phase # "idle" /\ work'[v].of = x
        BY <1>6, <3>1 DEF In, u
      <3> QED
        BY <3>2 DEF Held, In
    <2> QED
      BY <1>2, <2>1, HandledStays
  <1> QED
    BY <1>8, <1>9, <1>10, <1>11, <1>12, <1>13, <1>14, <1>15, <1>16, <1>17 DEF IInv

\* What is at a path that only one goroutine has chosen.
LEMMA PlacedIs ==
  ASSUME IInv, NEW w \in Workers, work[w].phase \in Moving, work[w].at \notin contested
  PROVE  /\ In(w, "move") => disk[work[w].at] = NoFile
         /\ In(w, "copy") => disk[work[w].at] = [of |-> {work[w].of}, whole |-> FALSE]
         /\ work[w].phase \in {"remove", "info", "announce"} =>
              disk[work[w].at] = [of |-> {work[w].of}, whole |-> TRUE]
  <1>1. Placed(w)
    BY DEF IInv, WorkSound
  <1>2. CASE In(w, "move")
    BY <1>1, <1>2 DEF Placed, In
  <1>3. CASE In(w, "copy")
    BY <1>1, <1>3 DEF Placed, In
  <1>4. CASE work[w].phase \in {"remove", "info", "announce"}
    <2>1. ~In(w, "move") /\ ~In(w, "copy")
      BY <1>4 DEF In
    <2>2. disk[work[w].at] = [of |-> {work[w].of}, whole |-> TRUE]
      BY <1>1, <2>1 DEF Placed
    <2> QED
      BY <2>1, <2>2
  <1> QED
    BY <1>2, <1>3, <1>4 DEF In, Moving

\* A step of a move leaves every file but the goroutine's own alone.
OnlyAt(w) == \A p \in Paths : disk'[p] # disk[p] => p = work[w].at

\* A goroutine's call ends: announced, or given up.
LEMMA StopKeeps ==
  ASSUME IInv, NEW w \in Workers, ~In(w, "idle"), work' = [work EXCEPT ![w] = Idle],
         UNCHANGED <<serving, oneMount, library, data, info, old, waiting, round, todo,
                     finished, expired, dropped, contested>>,
         disk' \in [Paths -> {NoFile} \cup Entry], torn' \in SUBSET Paths,
         torn \subseteq torn',
         \/ disk' = disk /\ (In(w, "copy") => work[w].at \in torn')
         \/ In(w, "copy") /\ disk' = [disk EXCEPT ![work[w].at] = NoFile],
         announced' \in SUBSET Uploads, unmoved' \in SUBSET Uploads,
         repeated' \in SUBSET Uploads, mishaps' \in 0..MaxMishaps,
         unmoved \subseteq unmoved', repeated \subseteq repeated',
         \A x \in announced' \ announced : Kept(x)' \/ Contested(x)',
         data[work[w].of] = "full" => work[w].of \in unmoved',
         In(w, "remove") => work[w].of \in repeated'
  PROVE  IInv' /\ Undisturbed
  <1> DEFINE u == work[w].of
             p == work[w].at
  <1>1. /\ u \in Uploads /\ WorkSound(w)
        /\ work[w].phase \in Moving => p \in Paths /\ p # NoPath
        /\ work[w].phase \notin Moving => p = NoPath
    BY WorkKnown, PathsKnown DEF IInv
  <1>2. /\ work' \in [Workers -> [phase : Phases, of : Uploads, at : Paths \cup {NoPath}]]
        /\ work'[w].phase = "idle" /\ work'[w].at = NoPath
        /\ \A v \in Workers \ {w} : work'[v] = work[v]
        /\ \A v \in Workers : work'[v].at \in Paths <=> work'[v].phase \in Moving
    BY StopIs DEF IInv
  <1>3. \A q \in Paths : \/ disk'[q] = disk[q] /\ (In(w, "copy") /\ q = p => q \in torn')
                         \/ In(w, "copy") /\ q = p /\ disk'[q] = NoFile
    <2>1. disk \in [Paths -> {NoFile} \cup Entry]
      BY DEF IInv, TypeOK, Entry
    <2> QED
      BY <2>1
  <1>4. In(w, "copy") /\ p \notin contested => disk[p] = [of |-> {u}, whole |-> FALSE]
    BY PlacedIs DEF In, Moving
  <1> HIDE DEF u, p
  <1>5. Growing /\ Undisturbed
    <2>1. [of |-> {u}, whole |-> FALSE].whole = FALSE
      OBVIOUS
    <2> QED
      BY <1>3, <1>4, <2>1 DEF Growing, Undisturbed
  <1>6. TypeOK'
    <2>1. /\ work' \in [Workers ->
               [phase : {"idle", "lookup", "name", "move", "copy", "remove", "info", "announce"},
                of : Uploads, at : Paths \cup {NoPath}]]
          /\ \A v \in Workers :
               work'[v].at \in Paths <=> work'[v].phase \notin {"idle", "lookup", "name"}
      BY <1>2, WorkTyped
    <2>2. /\ serving' \in BOOLEAN /\ oneMount' \in BOOLEAN
          /\ library' \in {"ok", "readonly", "stale", "gone"}
          /\ data' \in [Uploads -> {"new", "part", "full", "gone"}]
          /\ info' \in SUBSET Uploads /\ old' \in SUBSET Uploads
          /\ waiting' \in SUBSET Uploads
          /\ round' \in {"start", "retry", "sweep", "wait"} /\ todo' \in SUBSET Uploads
          /\ finished' \in SUBSET Uploads /\ expired' \in SUBSET Uploads
          /\ dropped' \in SUBSET Uploads /\ contested' \in SUBSET Paths
      BY DEF IInv, TypeOK
    <2> QED
      BY ONLY <2>1, <2>2, disk' \in [Paths -> {NoFile} \cup Entry],
         torn' \in SUBSET Paths,
         announced' \in SUBSET Uploads, unmoved' \in SUBSET Uploads,
         repeated' \in SUBSET Uploads, mishaps' \in 0..MaxMishaps DEF TypeOK, Entry
  <1>7. StagingSound'
    <2>1. \A x \in Uploads : In("loop", "idle") \/ work["loop"].of # x =>
                             In("loop", "idle")' \/ work'["loop"].of # x
      BY <1>2 DEF In, Workers
    <2> QED
      BY <2>1 DEF IInv, StagingSound
  <1>8. WorkSound(w)'
    BY <1>2 DEF WorkSound, In, Moving
  <1>9. ASSUME NEW v \in Workers \ {w}
        PROVE  WorkSound(v)'
    BY <1>2, <1>3, <1>5, OtherStaysSound DEF p
  <1>10. Arrived'
    BY <1>5, ArrivedStays
  <1>11. NoLitter'
    <2>1. ASSUME NEW q \in Paths, disk'[q] # NoFile, BeingCopied(q), q \notin torn'
          PROVE  BeingCopied(q)'
      <3>1. PICK v \in Workers : Copying(v, q)
        BY <2>1 DEF BeingCopied
      <3>2. v # w
        BY <1>3, <2>1, <3>1 DEF Copying, p
      <3> QED
        BY <1>2, <3>1, <3>2 DEF BeingCopied, Copying, In
    <2> QED
      BY <1>3, <1>5, <2>1, LitterStays
  <1>12. ASSUME NEW x \in Uploads \ repeated'
         PROVE  MovedOnce(x)'
    <2>1. x \in Uploads \ repeated /\ MovedOnce(x)
      BY DEF IInv
    <2>2. Copies(x)' \subseteq Copies(x)
      <3>1. [of |-> {x}, whole |-> TRUE] # NoFile
        BY <2>1, WholeEntry
      <3> QED
        BY <1>3, <3>1 DEF Copies
    <2>3. \A v \in Workers : Moves(v, x)' => Moves(v, x) /\ work'[v] = work[v]
      BY <1>2 DEF Moves, Moving
    <2>4. \A v \in Workers : Moves(v, x)' /\ work'[v].phase \in {"copy", "remove"} =>
               data'[x] = "full"
      BY <2>1, <2>3 DEF MovedOnce, Moves
    <2>5. \A v \in Workers : In(v, "remove") /\ work[v].of = x =>
               work'[v].phase = "remove" /\ work'[v].of = x /\ work'[v].at = work[v].at
      BY <1>2 DEF In
    <2> QED
      BY <2>1, <2>2, <2>3, <2>4, <2>5, OnceStays
  <1>13. Tried'
    <2>1. round' = "sweep" => In("run", "idle")'
      BY <1>2 DEF IInv, Tried, In, Workers
    <2>2. ASSUME NEW x \in old', data'[x] = "full"
          PROVE  /\ round' = "sweep" => x \in unmoved' \cup (dropped' \ Recorded)
                 /\ round' = "retry" /\ x \in Recorded =>
                      \/ x \in todo' \cup unmoved'
                      \/ ~In("run", "idle")' /\ work'["run"].of = x
      <3>1. CASE w = "run"
        BY <2>2, <3>1 DEF IInv, Tried
      <3>2. CASE w # "run"
        <4>1. work'["run"] = work["run"]
          BY <1>2, <3>2 DEF Workers
        <4> QED
          BY <2>2, <4>1 DEF IInv, Tried, In
      <3> QED
        BY <3>1, <3>2
    <2> QED
      BY <2>1, <2>2 DEF Tried
  <1>14. Handled'
    <2>1. ASSUME NEW x \in Uploads, data[x] = "full", Held(x)
          PROVE  x \in unmoved' \/ Held(x)'
      <3>1. PICK v \in Workers : ~In(v, "idle") /\ work[v].of = x
        BY <2>1 DEF Held
      <3>2. CASE v = w
        BY <2>1, <3>1, <3>2
      <3>3. CASE v # w
        BY <1>2, <3>1, <3>3 DEF Held, In
      <3> QED
        BY <3>2, <3>3
    <2> QED
      BY <2>1, HandledStays
  <1> QED
    BY <1>5, <1>6, <1>7, <1>8, <1>9, <1>10, <1>11, <1>12, <1>13, <1>14 DEF IInv

LEMMA LookupFailsKeeps ==
  ASSUME IInv, NEW w \in Workers, LookupFails(w)
  PROVE  IInv' /\ Undisturbed
  <1>1. /\ In(w, "lookup") /\ work' = [work EXCEPT ![w] = Idle]
        /\ unmoved' = unmoved \cup {work[w].of}
        /\ UNCHANGED <<serving, oneMount, library, data, info, old, waiting, round, todo,
                       disk, announced, finished, expired, dropped, torn, contested, repeated>>
    BY DEF LookupFails, GiveUp, staging, sweeping
  <1>2. mishaps' \in 0..MaxMishaps
    BY MishapTyped DEF LookupFails, IInv
  <1>3. /\ ~In(w, "idle") /\ ~In(w, "copy") /\ ~In(w, "remove")
        /\ disk' \in [Paths -> {NoFile} \cup Entry]
        /\ announced' \in SUBSET Uploads /\ unmoved' \in SUBSET Uploads
        /\ repeated' \in SUBSET Uploads /\ torn' \in SUBSET Paths
    BY <1>1, WorkKnown DEF In, IInv, TypeOK, Entry
  <1> QED
    BY <1>1, <1>2, <1>3, StopKeeps

LEMMA FailCopyKeeps ==
  ASSUME IInv, NEW w \in Workers, FailCopy(w)
  PROVE  IInv' /\ Undisturbed
  <1>1. /\ In(w, "copy") /\ work' = [work EXCEPT ![w] = Idle]
        /\ unmoved' = unmoved \cup {work[w].of}
        /\ \/ disk' = [disk EXCEPT ![work[w].at] = NoFile] /\ torn' = torn
           \/ torn' = torn \cup {work[w].at} /\ disk' = disk
        /\ UNCHANGED <<serving, oneMount, library, data, info, old, waiting, round, todo,
                       announced, finished, expired, dropped, contested, repeated>>
    BY DEF FailCopy, GiveUp, staging, sweeping
  <1>2. mishaps' \in 0..MaxMishaps
    <2>1. Mishap \/ mishaps' = mishaps
      BY DEF FailCopy
    <2> QED
      BY <2>1, MishapTyped DEF IInv
  <1>3. /\ ~In(w, "idle") /\ ~In(w, "remove") /\ work[w].at \in Paths
        /\ announced' \in SUBSET Uploads /\ unmoved' \in SUBSET Uploads
        /\ repeated' \in SUBSET Uploads
    BY <1>1, WorkKnown DEF In, IInv, TypeOK, Moving
  <1>4. disk' \in [Paths -> {NoFile} \cup Entry] /\ torn' \in SUBSET Paths
    BY <1>1, <1>3 DEF IInv, TypeOK, Entry
  <1> QED
    BY <1>1, <1>2, <1>3, <1>4, StopKeeps

LEMMA AnnounceKeeps ==
  ASSUME IInv, NEW w \in Workers, Announce(w)
  PROVE  IInv' /\ Undisturbed
  <1>1. PICK u \in Uploads : u = work[w].of
    BY WorkKnown DEF IInv
  <1>2. /\ In(w, "announce") /\ work' = [work EXCEPT ![w] = Idle]
        /\ announced' = announced \cup {u}
        /\ UNCHANGED <<serving, oneMount, library, data, info, old, waiting, round, todo,
                       disk, finished, expired, unmoved, dropped, torn, contested, repeated, mishaps>>
    BY <1>1 DEF Announce, staging, sweeping, history
  <1>3. /\ ~In(w, "idle") /\ ~In(w, "copy") /\ ~In(w, "remove")
        /\ disk' \in [Paths -> {NoFile} \cup Entry]
        /\ announced' \in SUBSET Uploads /\ unmoved' \in SUBSET Uploads
        /\ repeated' \in SUBSET Uploads /\ mishaps' \in 0..MaxMishaps
        /\ torn' \in SUBSET Paths
    BY <1>2, WorkKnown DEF In, IInv, TypeOK, Entry
  <1>4. work[w].phase = "announce" /\ WorkSound(w)
    BY <1>2 DEF IInv, In
  <1>5. data[u] = "gone"
    BY <1>1, <1>4 DEF WorkSound
  <1>6. Kept(u)' \/ Contested(u)'
    <2>1. PICK n \in 1..MaxSuffix : work[w].at = Path(u, n)
      BY <1>1, <1>4 DEF WorkSound, Moving
    <2>2. CASE work[w].at \in contested
      BY <1>2, <2>1, <2>2 DEF Contested
    <2>3. CASE work[w].at \notin contested
      <3>1. disk[work[w].at] = [of |-> {u}, whole |-> TRUE]
        BY <1>1, <1>4, <2>3, PlacedIs DEF Moving
      <3> QED
        BY <1>2, <2>1, <3>1 DEF Kept
    <2> QED
      BY <2>2, <2>3
  <1>7. data[u] = "full" => u \in unmoved'
    BY <1>5
  <1>8. \A x \in announced' \ announced : Kept(x)' \/ Contested(x)'
    BY <1>2, <1>6
  <1>9. unmoved \subseteq unmoved' /\ repeated \subseteq repeated'
    BY <1>2
  <1> QED
    BY <1>1, <1>2, <1>3, <1>7, <1>8, <1>9, StopKeeps

\* A goroutine's call goes on to its next phase.
LEMMA OnwardKeeps ==
  ASSUME IInv, NEW w \in Workers, NEW u \in Uploads, u = work[w].of,
         NEW p \in Paths, p = work[w].at,
         NEW phase \in Moving, work[w].phase \in Moving, Advance(w, phase),
         UNCHANGED <<serving, oneMount, library, old, waiting, round, todo, announced,
                     finished, expired, unmoved, dropped, torn, contested, repeated>>,
         mishaps' \in 0..MaxMishaps,
         data' \in [Uploads -> {"new", "part", "full", "gone"}],
         \A x \in Uploads : data'[x] # data[x] =>
           x = u /\ data[x] = "full" /\ data'[x] = "gone" /\ phase = "info",
         phase \in {"info", "announce"} => data'[u] = "gone",
         info' \subseteq info, \A x \in info \ info' : x = u /\ data'[x] = "gone",
         disk' \in [Paths -> {NoFile} \cup Entry],
         OnlyAt(w),
         p \notin contested /\ disk[p] # NoFile /\ disk[p].whole => disk'[p] = disk[p],
         p \notin contested => Placed(w)',
         \A x \in Uploads \ {u} :
           disk'[p] = [of |-> {x}, whole |-> TRUE] => disk[p] = disk'[p],
         u \notin repeated => MovedOnce(u)'
  PROVE  IInv' /\ Undisturbed
  <1>1. /\ work' \in [Workers -> [phase : Phases, of : Uploads, at : Paths \cup {NoPath}]]
        /\ work'[w].phase = phase /\ work'[w].of = u /\ work'[w].at = p
        /\ \A v \in Workers \ {w} : work'[v] = work[v]
        /\ \A v \in Workers : work'[v].at \in Paths <=> work'[v].phase \in Moving
    BY AdvanceIs DEF IInv
  <1>2. WorkSound(w) /\ phase # "idle" /\ work[w].phase # "idle"
    BY DEF IInv, Moving
  <1>3. PICK n \in 1..MaxSuffix : p = Path(u, n)
    BY <1>2 DEF WorkSound
  <1>4. \A q \in Paths : disk'[q] # disk[q] => q = p
    BY DEF OnlyAt
  <1>5. Growing /\ Undisturbed
    BY <1>4 DEF Growing, Undisturbed
  <1>6. TypeOK'
    <2>1. /\ work' \in [Workers ->
               [phase : {"idle", "lookup", "name", "move", "copy", "remove", "info", "announce"},
                of : Uploads, at : Paths \cup {NoPath}]]
          /\ \A v \in Workers :
               work'[v].at \in Paths <=> work'[v].phase \notin {"idle", "lookup", "name"}
      BY <1>1, WorkTyped
    <2>2. /\ serving' \in BOOLEAN /\ oneMount' \in BOOLEAN
          /\ library' \in {"ok", "readonly", "stale", "gone"}
          /\ info' \in SUBSET Uploads /\ old' \in SUBSET Uploads
          /\ waiting' \in SUBSET Uploads
          /\ round' \in {"start", "retry", "sweep", "wait"} /\ todo' \in SUBSET Uploads
          /\ announced' \in SUBSET Uploads /\ finished' \in SUBSET Uploads
          /\ expired' \in SUBSET Uploads /\ unmoved' \in SUBSET Uploads
          /\ torn' \in SUBSET Paths /\ contested' \in SUBSET Paths
          /\ repeated' \in SUBSET Uploads /\ dropped' \in SUBSET Uploads
      BY DEF IInv, TypeOK
    <2> QED
      BY ONLY <2>1, <2>2, disk' \in [Paths -> {NoFile} \cup Entry],
         mishaps' \in 0..MaxMishaps,
         data' \in [Uploads -> {"new", "part", "full", "gone"}] DEF TypeOK, Entry
  <1>7. StagingSound'
    <2>1. \A x \in Uploads : In("loop", "idle") \/ work["loop"].of # x =>
                             In("loop", "idle")' \/ work'["loop"].of # x
      BY <1>1, <1>2 DEF In, Workers
    <2>2. u \in finished
      BY <1>2 DEF WorkSound, In
    <2> QED
      BY <2>1, <2>2 DEF IInv, StagingSound
  <1>8. WorkSound(w)'
    <2>1. u \in finished'
      BY <1>2 DEF WorkSound, In
    <2>2. \A v \in Others(w) : work'[v].at = p => p \in contested'
      BY <1>1, <1>2 DEF WorkSound, Others
    <2>3. p \in contested' \/ Placed(w)'
      OBVIOUS
    <2> QED
      BY <1>1, <1>3, <2>1, <2>2, <2>3 DEF WorkSound, Others
  <1>9. ASSUME NEW v \in Workers \ {w}
        PROVE  WorkSound(v)'
    BY <1>1, <1>4, <1>5, OtherStaysSound
  <1>10. Arrived'
    <2>1. ASSUME NEW x \in Uploads, data'[x] = "gone", data[x] # "gone"
          PROVE  Kept(x)' \/ Contested(x)'
      <3>1. x = u /\ phase = "info"
        BY <2>1
      <3>2. CASE p \in contested
        BY <1>3, <3>1, <3>2 DEF Contested
      <3>3. CASE p \notin contested
        <4>1. Placed(w)' /\ work'[w].phase = "info"
          BY <1>1, <3>1, <3>3
        <4>2. disk'[p] = [of |-> {u}, whole |-> TRUE]
          BY <1>1, <4>1 DEF Placed, In
        <4> QED
          BY <1>3, <3>1, <4>2 DEF Kept
      <3> QED
        BY <3>2, <3>3
    <2> QED
      BY <1>5, <2>1, ArrivedStays
  <1>11. NoLitter'
    <2>1. ASSUME NEW q \in Paths \ {p}, BeingCopied(q)
          PROVE  BeingCopied(q)'
      <3>1. PICK v \in Workers : Copying(v, q)
        BY <2>1 DEF BeingCopied
      <3>2. v # w
        BY <2>1, <3>1 DEF Copying
      <3> QED
        BY <1>1, <3>1, <3>2 DEF BeingCopied, Copying, In
    <2>2. disk'[p] # NoFile /\ ~disk'[p].whole => BeingCopied(p)' \/ p \in contested'
      <3>1. CASE p \in contested
        BY <3>1
      <3>2. CASE p \notin contested
        <4>1. Placed(w)'
          BY <3>2
        <4>2. CASE phase = "move"
          BY <1>1, <4>1, <4>2 DEF Placed, In
        <4>3. CASE phase = "copy"
          BY <1>1, <4>3 DEF BeingCopied, Copying, In
        <4>4. CASE phase \notin {"move", "copy"}
          <5>1. disk'[p] = [of |-> {u}, whole |-> TRUE]
            BY <1>1, <4>1, <4>4 DEF Placed, In
          <5> QED
            BY <5>1, WholeEntry
        <4> QED
          BY <4>2, <4>3, <4>4
      <3> QED
        BY <3>1, <3>2
    <2> QED
      BY <1>4, <1>5, <2>1, <2>2, LitterStays
  <1>12. ASSUME NEW x \in Uploads \ repeated', x # u
         PROVE  MovedOnce(x)'
    <2>1. x \in Uploads \ repeated /\ MovedOnce(x) /\ data'[x] = data[x]
      BY <1>12 DEF IInv
    <2>2. Copies(x)' \subseteq Copies(x)
      BY <1>4, <1>12 DEF Copies
    <2>3. \A v \in Workers : Moves(v, x)' => Moves(v, x) /\ work'[v] = work[v]
      BY <1>1, <1>12 DEF Moves
    <2>4. \A v \in Workers : Moves(v, x)' /\ work'[v].phase \in {"copy", "remove"} =>
               data'[x] = "full"
      BY <2>1, <2>3 DEF MovedOnce, Moves
    <2>5. \A v \in Workers : In(v, "remove") /\ work[v].of = x =>
               work'[v].phase = "remove" /\ work'[v].of = x /\ work'[v].at = work[v].at
      BY <1>1, <1>12 DEF In
    <2> QED
      BY <2>1, <2>2, <2>3, <2>4, <2>5, OnceStays
  <1>13. Tried'
    <2>1. In("run", "idle")' <=> In("run", "idle")
      BY <1>1, <1>2 DEF In, Workers
    <2>2. work'["run"].of = work["run"].of
      BY <1>1 DEF Workers
    <2>3. ASSUME NEW x \in old', data'[x] = "full"
          PROVE  x \in old /\ data[x] = "full"
      <3>1. x \in Uploads /\ x \in old
        BY DEF IInv, TypeOK
      <3>2. data'[x] # "gone"
        BY <2>3
      <3> QED
        BY <2>3, <3>1, <3>2
    <2>4. Tried
      BY DEF IInv
    <2>5. UNCHANGED <<round, todo, unmoved, dropped>>
      OBVIOUS
    <2> QED
      BY ONLY <2>1, <2>2, <2>3, <2>4, <2>5 DEF Tried
  <1>14. Handled'
    <2>1. \A x \in Uploads : Held(x) => Held(x)'
      BY <1>1, <1>2 DEF Held, In
    <2>2. \A x \in Uploads : data'[x] = "full" => data[x] = "full"
      OBVIOUS
    <2> QED
      BY <2>1, <2>2, HandledStays
  <1> QED
    BY <1>5, <1>6, <1>7, <1>8, <1>9, <1>10, <1>11, <1>12, <1>13, <1>14 DEF IInv

\* While it is staged and nobody else has it in hand, an upload that a goroutine
\* moves has no copy but the one whose source is to be removed.
LEMMA NoCopyYet ==
  ASSUME IInv, NEW w \in Workers, NEW u \in Uploads \ repeated, u = work[w].of,
         work[w].phase \in {"move", "copy"}, data[u] # "gone"
  PROVE  /\ Copies(u) = {}
         /\ \A v \in Workers \ {w} : ~Moves(v, u)
  <1>1. MovedOnce(u) /\ Moves(w, u)
    BY DEF IInv, Moves, Moving
  <1>2. \A v \in Workers \ {w} : ~Moves(v, u)
    BY <1>1 DEF MovedOnce
  <1>3. \A v \in Workers : ~(In(v, "remove") /\ work[v].of = u)
    BY <1>2 DEF Moves, In, Moving
  <1> QED
    BY <1>1, <1>2, <1>3 DEF MovedOnce

LEMMA RenameKeeps ==
  ASSUME IInv, NEW w \in Workers, Rename(w)
  PROVE  IInv' /\ Undisturbed
  <1>1. PICK u \in Uploads : u = work[w].of
    BY WorkKnown DEF IInv
  <1>2. work[w].phase = "move"
    BY DEF Rename, In
  <1>3. PICK p \in Paths : p = work[w].at
    BY <1>2, WorkKnown DEF IInv, Moving
  <1>4. /\ data[u] = "full" /\ data' = [data EXCEPT ![u] = "gone"]
        /\ disk' = [disk EXCEPT ![p] = [of |-> {u}, whole |-> TRUE]]
        /\ Advance(w, "info")
        /\ UNCHANGED <<serving, oneMount, library, info, old, waiting, round, todo,
                       announced, finished, expired, unmoved, dropped, torn, contested, repeated,
                       mishaps>>
    BY <1>1, <1>3 DEF Rename, CanRename, sweeping, history
  <1>5. /\ work'[w].phase = "info" /\ work'[w].of = u /\ work'[w].at = p
        /\ \A v \in Workers \ {w} : work'[v] = work[v]
    BY <1>1, <1>2, <1>3, <1>4, AdvanceIs DEF IInv, Moving
  <1>6. /\ data' \in [Uploads -> {"new", "part", "full", "gone"}]
        /\ \A x \in Uploads : data'[x] = IF x = u THEN "gone" ELSE data[x]
    BY <1>4 DEF IInv, TypeOK
  <1>7. /\ disk' \in [Paths -> {NoFile} \cup Entry]
        /\ \A q \in Paths : disk'[q] = IF q = p THEN [of |-> {u}, whole |-> TRUE] ELSE disk[q]
    BY <1>4, WholeEntry DEF IInv, TypeOK, Entry
  <1>8. OnlyAt(w)
    BY <1>3, <1>7 DEF OnlyAt
  <1>9. p \notin contested => disk[p] = NoFile
    BY <1>2, <1>3, PlacedIs DEF In, Moving
  <1>10. Placed(w)'
    BY <1>5, <1>7 DEF Placed, In
  <1>11. \A x \in Uploads \ {u} :
           disk'[p] = [of |-> {x}, whole |-> TRUE] => disk[p] = disk'[p]
    <2>1. ASSUME NEW x \in Uploads \ {u}
          PROVE  disk'[p] # [of |-> {x}, whole |-> TRUE]
      BY <1>7
    <2> QED
      BY <2>1
  <1>12. ASSUME u \notin repeated
         PROVE  MovedOnce(u)'
    <2>1. Copies(u) = {} /\ \A v \in Workers \ {w} : ~Moves(v, u)
      BY <1>1, <1>2, <1>4, <1>12, NoCopyYet
    <2>2. Copies(u)' \subseteq {p}
      BY <1>7, <2>1 DEF Copies
    <2>3. \A v \in Workers \ {w} : ~Moves(v, u)'
      BY <1>5, <2>1 DEF Moves
    <2>4. \A v \in Workers : work'[v].of = u => work'[v].phase \notin {"copy", "remove"}
      BY <1>5, <2>3 DEF Moves, Moving
    <2>5. \A v, v2 \in Workers : Moves(v, u)' /\ Moves(v2, u)' => v = v2
      BY <2>3
    <2> QED
      BY <1>6, <2>2, <2>4, <2>5 DEF MovedOnce
  <1>13. /\ \A x \in Uploads : data'[x] # data[x] =>
              x = u /\ data[x] = "full" /\ data'[x] = "gone"
         /\ data'[u] = "gone"
         /\ p \notin contested /\ disk[p] # NoFile /\ disk[p].whole => disk'[p] = disk[p]
         /\ info' \subseteq info /\ \A x \in info \ info' : x = u /\ data'[x] = "gone"
         /\ "info" \in Moving /\ work[w].phase \in Moving
    BY <1>2, <1>4, <1>6, <1>9 DEF Moving
  <1> QED
    <2>1. /\ Advance(w, "info")
          /\ UNCHANGED <<serving, oneMount, library, old, waiting, round, todo, announced,
                         finished, expired, unmoved, dropped, torn, contested, repeated, mishaps>>
      BY <1>4
    <2>2. /\ disk' \in [Paths -> {NoFile} \cup Entry]
          /\ data' \in [Uploads -> {"new", "part", "full", "gone"}]
          /\ mishaps' \in 0..MaxMishaps
      BY <1>4, <1>6, <1>7 DEF IInv, TypeOK
    <2>3. \A x \in Uploads : data'[x] # data[x] =>
            x = u /\ data[x] = "full" /\ data'[x] = "gone" /\ "info" = "info"
      BY <1>13
    <2>4. "info" \in {"info", "announce"} => data'[u] = "gone"
      BY <1>13
    <2> QED
      BY <1>1, <1>3, <1>8, <1>10, <1>11, <1>12, <1>13, <2>1, <2>2, <2>3, <2>4, OnwardKeeps

LEMMA OpenCopyKeeps ==
  ASSUME IInv, NEW w \in Workers, OpenCopy(w)
  PROVE  IInv' /\ Undisturbed
  <1>1. PICK u \in Uploads : u = work[w].of
    BY WorkKnown DEF IInv
  <1>2. work[w].phase = "move"
    BY DEF OpenCopy, In
  <1>3. PICK p \in Paths : p = work[w].at
    BY <1>2, WorkKnown DEF IInv, Moving
  <1>4. UNCHANGED <<serving, oneMount, library, data, info, old, waiting, round, todo,
                    announced, finished, expired, dropped, torn, contested, repeated, mishaps>>
    BY DEF OpenCopy, staging, sweeping
  <1>5. CASE /\ data[u] = "full"
             /\ disk' = [disk EXCEPT ![p] = [of |-> {u}, whole |-> FALSE]]
             /\ Advance(w, "copy") /\ unmoved' = unmoved
    <2>1. /\ work'[w].phase = "copy" /\ work'[w].of = u /\ work'[w].at = p
          /\ \A v \in Workers \ {w} : work'[v] = work[v]
      BY <1>1, <1>2, <1>3, <1>5, AdvanceIs DEF IInv, Moving
    <2>2. /\ disk' \in [Paths -> {NoFile} \cup Entry]
          /\ \A q \in Paths :
               disk'[q] = IF q = p THEN [of |-> {u}, whole |-> FALSE] ELSE disk[q]
      BY <1>5, WholeEntry DEF IInv, TypeOK, Entry
    <2>3. OnlyAt(w)
      BY <1>3, <2>2 DEF OnlyAt
    <2>4. p \notin contested => disk[p] = NoFile
      BY <1>2, <1>3, PlacedIs DEF In, Moving
    <2>5. Placed(w)'
      BY <2>1, <2>2 DEF Placed, In
    <2>6. \A x \in Uploads : disk'[p] # [of |-> {x}, whole |-> TRUE]
      BY <2>2
    <2>7. ASSUME u \notin repeated
          PROVE  MovedOnce(u)'
      <3>1. Copies(u) = {} /\ \A v \in Workers \ {w} : ~Moves(v, u)
        BY <1>1, <1>2, <1>5, <2>7, NoCopyYet
      <3>2. Copies(u)' = {}
        BY <2>2, <2>6, <3>1 DEF Copies
      <3>3. \A v \in Workers \ {w} : ~Moves(v, u)'
        BY <2>1, <3>1 DEF Moves
      <3>4. \A v, v2 \in Workers : Moves(v, u)' /\ Moves(v2, u)' => v = v2
        BY <3>3
      <3> QED
        BY <1>4, <1>5, <3>2, <3>4 DEF MovedOnce
    <2>8. /\ data' \in [Uploads -> {"new", "part", "full", "gone"}]
          /\ mishaps' \in 0..MaxMishaps
      BY <1>4 DEF IInv, TypeOK
    <2> QED
      BY <1>1, <1>2, <1>3, <1>4, <1>5, <2>2, <2>3, <2>4, <2>5, <2>6, <2>7, <2>8, OnwardKeeps
         DEF Moving
  <1>6. CASE GiveUp(w) /\ disk' = disk
    <2>1. /\ work' = [work EXCEPT ![w] = Idle]
          /\ unmoved' = unmoved \cup {u}
      BY <1>1, <1>6 DEF GiveUp
    <2>2. ~In(w, "idle") /\ ~In(w, "copy") /\ ~In(w, "remove")
      BY <1>2 DEF In
    <2>3. /\ disk' \in [Paths -> {NoFile} \cup Entry]
          /\ announced' \in SUBSET Uploads /\ unmoved' \in SUBSET Uploads
          /\ repeated' \in SUBSET Uploads /\ mishaps' \in 0..MaxMishaps
          /\ torn' \in SUBSET Paths
      BY <1>4, <1>6, <2>1 DEF IInv, TypeOK, Entry
    <2> QED
      BY <1>1, <1>4, <1>6, <2>1, <2>2, <2>3, StopKeeps
  <1>7. \/ /\ data[u] = "full"
           /\ disk' = [disk EXCEPT ![p] = [of |-> {u}, whole |-> FALSE]]
           /\ Advance(w, "copy") /\ unmoved' = unmoved
        \/ GiveUp(w) /\ disk' = disk
    BY <1>1, <1>3 DEF OpenCopy
  <1> QED
    BY <1>5, <1>6, <1>7

LEMMA FinishCopyKeeps ==
  ASSUME IInv, NEW w \in Workers, FinishCopy(w)
  PROVE  IInv' /\ Undisturbed
  <1>1. PICK u \in Uploads : u = work[w].of
    BY WorkKnown DEF IInv
  <1>2. work[w].phase = "copy"
    BY DEF FinishCopy, In
  <1>3. PICK p \in Paths : p = work[w].at
    BY <1>2, WorkKnown DEF IInv, Moving
  <1> DEFINE alone == ~\E v \in Others(w) : Copying(v, p)
             mixed == [of |-> disk[p].of \cup {u}, whole |-> alone]
  <1>4. /\ disk' = [disk EXCEPT ![p] = IF disk[p] = NoFile THEN disk[p] ELSE mixed]
        /\ Advance(w, "remove")
        /\ UNCHANGED <<serving, oneMount, library, data, info, old, waiting, round, todo,
                       announced, finished, expired, unmoved, dropped, torn, contested, repeated,
                       mishaps>>
    <2>1. disk \in [Paths -> {NoFile} \cup Entry]
      BY DEF IInv, TypeOK, Entry
    <2> QED
      BY <1>1, <1>3, <2>1 DEF FinishCopy, staging, sweeping, history
  <1>5. /\ work'[w].phase = "remove" /\ work'[w].of = u /\ work'[w].at = p
        /\ \A v \in Workers \ {w} : work'[v] = work[v]
    BY <1>1, <1>2, <1>3, <1>4, AdvanceIs DEF IInv, Moving
  <1>6. disk[p] # NoFile => mixed \in Entry /\ disk[p].of \in SUBSET Uploads
    BY <1>1, <1>3 DEF IInv, TypeOK, Entry
  <1>7. /\ disk' \in [Paths -> {NoFile} \cup Entry]
        /\ \A q \in Paths : disk'[q] = IF q = p /\ disk[p] # NoFile THEN mixed ELSE disk[q]
    BY <1>4, <1>6 DEF IInv, TypeOK, Entry
  <1>8. OnlyAt(w)
    BY <1>3, <1>7 DEF OnlyAt
  <1>9. ASSUME p \notin contested
        PROVE  /\ disk[p] = [of |-> {u}, whole |-> FALSE]
               /\ disk'[p] = [of |-> {u}, whole |-> TRUE]
    <2>1. disk[p] = [of |-> {u}, whole |-> FALSE]
      BY <1>1, <1>2, <1>3, <1>9, PlacedIs DEF In, Moving
    <2>2. disk[p] # NoFile /\ disk[p].of = {u}
      <3>1. [of |-> {u}, whole |-> FALSE] # NoFile
        BY WholeEntry
      <3>2. [of |-> {u}, whole |-> FALSE].of = {u}
        OBVIOUS
      <3> QED
        BY <2>1, <3>1, <3>2
    <2>3. alone
      BY <1>2, <1>3, <1>9 DEF IInv, WorkSound, Copying, Moving
    <2>4. mixed = [of |-> {u}, whole |-> TRUE]
      BY <2>2, <2>3
    <2> QED
      BY <1>7, <2>1, <2>2, <2>4
  <1>10. disk'[p] = disk[p] \/ u \in disk'[p].of
    BY <1>7
  <1> HIDE DEF mixed, alone
  <1>11. p \notin contested => Placed(w)'
    BY <1>5, <1>9 DEF Placed, In
  <1>12. \A x \in Uploads \ {u} :
           disk'[p] = [of |-> {x}, whole |-> TRUE] => disk[p] = disk'[p]
    BY <1>10
  <1>13. ASSUME u \notin repeated
         PROVE  MovedOnce(u)'
    <2>1. data[u] = "full"
      BY <1>1, <1>2, <1>13 DEF IInv, MovedOnce
    <2>2. Copies(u) = {} /\ \A v \in Workers \ {w} : ~Moves(v, u)
      BY <1>1, <1>2, <1>13, <2>1, NoCopyYet
    <2>3. Copies(u)' \subseteq {p}
      BY <1>7, <2>2 DEF Copies
    <2>4. \A v \in Workers \ {w} : ~Moves(v, u)'
      BY <1>5, <2>2 DEF Moves
    <2>5. \A v, v2 \in Workers : Moves(v, u)' /\ Moves(v2, u)' => v = v2
      BY <2>4
    <2>6. \A q \in Copies(u)' : \E v \in Workers :
            work'[v].phase = "remove" /\ work'[v].of = u /\ work'[v].at = q
      BY <1>5, <2>3
    <2> QED
      BY <1>4, <2>1, <2>3, <2>5, <2>6 DEF MovedOnce, In
  <1>14. data' \in [Uploads -> {"new", "part", "full", "gone"}] /\ mishaps' \in 0..MaxMishaps
    BY <1>4 DEF IInv, TypeOK
  <1>15. /\ p \notin contested /\ disk[p] # NoFile /\ disk[p].whole => disk'[p] = disk[p]
         /\ "remove" \in Moving /\ work[w].phase \in Moving
    <2>1. [of |-> {u}, whole |-> FALSE].whole = FALSE
      OBVIOUS
    <2> QED
      BY <1>2, <1>9, <2>1 DEF Moving
  <1> QED
    BY <1>1, <1>3, <1>4, <1>7, <1>8, <1>11, <1>12, <1>13, <1>14, <1>15, OnwardKeeps

LEMMA RemoveSourceKeeps ==
  ASSUME IInv, NEW w \in Workers, RemoveSource(w)
  PROVE  IInv' /\ Undisturbed
  <1>1. PICK u \in Uploads : u = work[w].of
    BY WorkKnown DEF IInv
  <1>2. work[w].phase = "remove"
    BY DEF RemoveSource, In
  <1>3. PICK p \in Paths : p = work[w].at
    BY <1>2, WorkKnown DEF IInv, Moving
  <1>4. UNCHANGED <<serving, oneMount, library, info, old, waiting, round, todo,
                    disk, announced, finished, expired, dropped, torn, contested>>
    BY DEF RemoveSource, sweeping
  <1>5. disk' \in [Paths -> {NoFile} \cup Entry]
    BY <1>4 DEF IInv, TypeOK, Entry
  <1>6. CASE /\ data[u] = "full" /\ data' = [data EXCEPT ![u] = "gone"]
             /\ Advance(w, "info") /\ UNCHANGED <<unmoved, repeated, mishaps>>
    <2>1. /\ work'[w].phase = "info" /\ work'[w].of = u /\ work'[w].at = p
          /\ \A v \in Workers \ {w} : work'[v] = work[v]
      BY <1>1, <1>2, <1>3, <1>6, AdvanceIs DEF IInv, Moving
    <2>2. /\ data' \in [Uploads -> {"new", "part", "full", "gone"}]
          /\ mishaps' \in 0..MaxMishaps
          /\ \A x \in Uploads : data'[x] = IF x = u THEN "gone" ELSE data[x]
      BY <1>6 DEF IInv, TypeOK
    <2>3. OnlyAt(w)
      BY <1>4 DEF OnlyAt
    <2>4. p \notin contested => Placed(w)'
      <3>1. ASSUME p \notin contested
            PROVE  disk[p] = [of |-> {u}, whole |-> TRUE]
        BY <1>1, <1>2, <1>3, <3>1, PlacedIs DEF Moving
      <3> QED
        BY <1>4, <2>1, <3>1 DEF Placed, In
    <2>5. ASSUME u \notin repeated
          PROVE  MovedOnce(u)'
      <3>1. MovedOnce(u)
        BY <2>5 DEF IInv
      <3>2. Copies(u)' = Copies(u)
        BY <1>4 DEF Copies
      <3>3. Moves(w, u)
        BY <1>1, <1>2 DEF Moves, Moving
      <3>4. \A v \in Workers \ {w} : ~Moves(v, u)
        BY <3>1, <3>3 DEF MovedOnce
      <3>5. \A v \in Workers \ {w} : ~Moves(v, u)'
        BY <2>1, <3>4 DEF Moves
      <3>6. \A v \in Workers : work'[v].of = u => work'[v].phase \notin {"copy", "remove"}
        BY <2>1, <3>5 DEF Moves, Moving
      <3>7. \A v, v2 \in Workers : Moves(v, u)' /\ Moves(v2, u)' => v = v2
        BY <3>5
      <3>8. \A q, r \in Copies(u)' : q = r
        BY <3>1, <3>2 DEF MovedOnce
      <3> QED
        BY <2>2, <3>6, <3>7, <3>8 DEF MovedOnce
    <2>6. /\ \A x \in Uploads : data'[x] # data[x] =>
               x = u /\ data[x] = "full" /\ data'[x] = "gone"
          /\ data'[u] = "gone"
          /\ info' \subseteq info /\ \A x \in info \ info' : x = u /\ data'[x] = "gone"
          /\ "info" \in Moving /\ work[w].phase \in Moving
      BY <1>2, <1>4, <1>6, <2>2 DEF Moving
    <2> QED
      BY <1>1, <1>3, <1>4, <1>5, <1>6, <2>2, <2>3, <2>4, <2>5, <2>6, OnwardKeeps
  <1>7. ASSUME GiveUp(w), data' = data, repeated \subseteq repeated', u \in repeated',
               repeated' \in SUBSET Uploads, Mishap \/ mishaps' = mishaps
        PROVE  IInv' /\ Undisturbed
    <2>1. /\ work' = [work EXCEPT ![w] = Idle]
          /\ unmoved' = unmoved \cup {u}
      BY <1>1, <1>7 DEF GiveUp
    <2>2. ~In(w, "idle") /\ ~In(w, "copy")
      BY <1>2 DEF In
    <2>3. announced' \in SUBSET Uploads /\ unmoved' \in SUBSET Uploads
          /\ torn' \in SUBSET Paths
      BY <1>4, <2>1 DEF IInv, TypeOK
    <2>4. mishaps' \in 0..MaxMishaps
      BY <1>7, MishapTyped DEF IInv
    <2> QED
      BY <1>1, <1>4, <1>5, <1>7, <2>1, <2>2, <2>3, <2>4, StopKeeps
  <1>8. CASE Mishap /\ GiveUp(w) /\ repeated' = repeated \cup {u} /\ data' = data
    BY <1>1, <1>7, <1>8 DEF IInv, TypeOK
  <1>9. CASE data[u] = "gone" /\ GiveUp(w) /\ UNCHANGED <<data, repeated, mishaps>>
    <2>1. u \in repeated
      BY <1>1, <1>2, <1>9 DEF IInv, MovedOnce
    <2> QED
      BY <1>7, <1>9, <2>1 DEF IInv, TypeOK
  <1>10. \/ /\ data[u] = "full" /\ data' = [data EXCEPT ![u] = "gone"]
            /\ Advance(w, "info") /\ UNCHANGED <<unmoved, repeated, mishaps>>
         \/ Mishap /\ GiveUp(w) /\ repeated' = repeated \cup {u} /\ data' = data
         \/ data[u] = "gone" /\ GiveUp(w) /\ UNCHANGED <<data, repeated, mishaps>>
    BY <1>1 DEF RemoveSource
  <1> QED
    BY <1>6, <1>8, <1>9, <1>10

LEMMA RemoveInfoKeeps ==
  ASSUME IInv, NEW w \in Workers, RemoveInfo(w)
  PROVE  IInv' /\ Undisturbed
  <1>1. PICK u \in Uploads : u = work[w].of
    BY WorkKnown DEF IInv
  <1>2. work[w].phase = "info"
    BY DEF RemoveInfo, In
  <1>3. PICK p \in Paths : p = work[w].at
    BY <1>2, WorkKnown DEF IInv, Moving
  <1>4. /\ Advance(w, "announce") /\ info' \in {info, info \ {u}}
        /\ Mishap \/ mishaps' = mishaps
        /\ UNCHANGED <<serving, oneMount, library, data, old, waiting, round, todo, disk,
                       announced, finished, expired, unmoved, dropped, torn, contested,
                       repeated>>
    BY <1>1 DEF RemoveInfo, sweeping, history
  <1>5. /\ work'[w].phase = "announce" /\ work'[w].of = u /\ work'[w].at = p
        /\ \A v \in Workers \ {w} : work'[v] = work[v]
    BY <1>1, <1>2, <1>3, <1>4, AdvanceIs DEF IInv, Moving
  <1>6. data[u] = "gone"
    BY <1>1, <1>2 DEF IInv, WorkSound
  <1>7. p \notin contested => Placed(w)'
    <2>1. ASSUME p \notin contested
          PROVE  disk[p] = [of |-> {u}, whole |-> TRUE]
      BY <1>1, <1>2, <1>3, <2>1, PlacedIs DEF Moving
    <2> QED
      BY <1>4, <1>5, <2>1 DEF Placed, In
  <1>8. ASSUME u \notin repeated
        PROVE  MovedOnce(u)'
    <2>1. MovedOnce(u) /\ Copies(u)' = Copies(u)
      BY <1>4, <1>8 DEF IInv, Copies
    <2>2. Moves(w, u)
      BY <1>1, <1>2 DEF Moves, Moving
    <2>3. \A v \in Workers \ {w} : ~Moves(v, u)
      BY <2>1, <2>2 DEF MovedOnce
    <2>4. \A v \in Workers \ {w} : ~Moves(v, u)'
      BY <1>5, <2>3 DEF Moves
    <2>5. \A v \in Workers : work'[v].of = u => work'[v].phase \notin {"copy", "remove"}
      BY <1>5, <2>4 DEF Moves, Moving
    <2>6. \A v, v2 \in Workers : Moves(v, u)' /\ Moves(v2, u)' => v = v2
      BY <2>4
    <2>7. \A q, r \in Copies(u)' : q = r
      BY <2>1 DEF MovedOnce
    <2> QED
      BY <1>4, <1>6, <2>5, <2>6, <2>7 DEF MovedOnce
  <1>9. /\ disk' \in [Paths -> {NoFile} \cup Entry]
        /\ data' \in [Uploads -> {"new", "part", "full", "gone"}]
        /\ mishaps' \in 0..MaxMishaps
    BY <1>4, MishapTyped DEF IInv, TypeOK, Entry
  <1>10. /\ OnlyAt(w) /\ data'[u] = "gone"
         /\ info' \subseteq info /\ \A x \in info \ info' : x = u /\ data'[x] = "gone"
         /\ "announce" \in Moving /\ work[w].phase \in Moving
    BY <1>2, <1>4, <1>6 DEF OnlyAt, Moving
  <1> QED
    BY <1>1, <1>3, <1>4, <1>7, <1>8, <1>9, <1>10, OnwardKeeps

-----------------------------------------------------------------------------
(* Sweeping, and the death of the process.                                 *)

LEMMA SweepKeeps ==
  ASSUME IInv, NEW u \in Uploads, Sweep(u)
  PROVE  IInv' /\ Undisturbed
  <1>1. /\ round = "sweep" /\ todo' = todo \ {u}
        /\ UNCHANGED <<serving, oneMount, library, old, waiting, work, round, disk,
                       announced, finished, unmoved, dropped, torn, contested, repeated>>
        /\ mishaps' \in 0..MaxMishaps
    <2>1. Mishap \/ mishaps' = mishaps
      BY DEF Sweep
    <2> QED
      BY <2>1, MishapTyped DEF Sweep, IInv
  <1>2. CASE UNCHANGED <<data, info, expired>>
    <2>1. Still
      BY <1>1, <1>2 DEF Still
    <2>2. TypeOK'
      BY <1>1, <1>2, <2>1, StillTyped DEF IInv, TypeOK
    <2>3. StagingSound'
      BY <1>1, <1>2 DEF IInv, StagingSound, In
    <2>4. Tried'
      BY <1>1, <1>2 DEF IInv, Tried, In
    <2>5. Handled'
      BY <1>1, <1>2, HandledStays DEF Held, In
    <2> QED
      BY <2>1, <2>2, <2>3, <2>4, <2>5, StillKeeps DEF IInv
  <1>3. CASE /\ u \in old /\ data[u] \in {"part", "full"}
             /\ data' = [data EXCEPT ![u] = "gone"]
             /\ info' \in {info, info \ {u}}
             /\ expired' = expired \cup {u}
    <2>1. /\ data' \in [Uploads -> {"new", "part", "full", "gone"}]
          /\ \A x \in Uploads : data'[x] = IF x = u THEN "gone" ELSE data[x]
      BY <1>3 DEF IInv, TypeOK
    <2>2. \A w \in Workers : In(w, "idle") \/ work[w].of # u
      BY <1>1, <1>3 DEF IInv, StagingSound, Tried, Workers
    <2>3. Growing /\ Undisturbed
      BY <1>1, <1>3, <2>1 DEF Growing, Undisturbed
    <2>4. TypeOK'
      BY <1>1, <1>3, <2>1 DEF IInv, TypeOK
    <2>5. StagingSound'
      BY <1>1, <1>3, <2>1 DEF IInv, StagingSound, In
    <2>6. ASSUME NEW w \in Workers
          PROVE  WorkSound(w)'
      <3>1. WorkSound(w) /\ work[w].of \in Uploads
        BY WorkKnown DEF IInv
      <3> QED
        BY <1>1, <2>1, <3>1 DEF WorkSound, In, Others, Placed
    <2>7. Arrived'
      BY <1>1, <1>3, <2>1, <2>3, ArrivedStays
    <2>8. NoLitter'
      BY <1>1 DEF IInv, NoLitter, BeingCopied, Copying, In
    <2>9. ASSUME NEW x \in Uploads \ repeated'
          PROVE  MovedOnce(x)'
      <3>1. MovedOnce(x) /\ Copies(x)' = Copies(x)
        BY <1>1 DEF IInv, Copies
      <3>2. \A w \in Workers : work[w].of = u => work[w].phase \notin {"copy", "remove"}
        BY <2>2 DEF In
      <3> QED
        BY <1>1, <2>1, <3>1, <3>2 DEF MovedOnce, Moves, In
    <2>10. Tried'
      BY <1>1, <2>1 DEF IInv, Tried, In, TypeOK
    <2>11. Handled'
      BY <1>1, <2>1, HandledStays DEF Held, In
    <2> QED
      BY <2>3, <2>4, <2>5, <2>6, <2>7, <2>8, <2>9, <2>10, <2>11 DEF IInv
  <1> QED
    BY <1>2, <1>3 DEF Sweep

LEMMA CrashKeeps ==
  ASSUME IInv, Crash
  PROVE  IInv' /\ Undisturbed
  <1>1. /\ serving' = FALSE /\ waiting' = {} /\ work' = [w \in Workers |-> Idle]
        /\ round' = "wait" /\ todo' = {}
        /\ dropped' = dropped \cup waiting
                      \cup {work[w].of : w \in {v \in Workers : ~In(v, "idle")}}
        /\ torn' = torn \cup {p \in Paths : \E w \in Workers : Copying(w, p)}
        /\ repeated' = repeated \cup {u \in Uploads : \E w \in Workers :
                                        In(w, "remove") /\ work[w].of = u}
        /\ UNCHANGED <<oneMount, library, data, info, old, disk, announced, finished,
                       expired, unmoved, contested>>
    BY DEF Crash, staging
  <1>2. mishaps' \in 0..MaxMishaps
    BY MishapTyped DEF Crash, IInv
  <1>3. \A w \in Workers : work'[w] = Idle
    BY <1>1
  <1>4. Growing /\ Undisturbed
    BY <1>1 DEF Growing, Undisturbed
  <1>5. TypeOK'
    <2>1. /\ work' \in [Workers -> [phase : Phases, of : Uploads, at : Paths \cup {NoPath}]]
          /\ \A v \in Workers : work'[v].at \in Paths <=> work'[v].phase \in Moving
      BY <1>1, IdleKnown, PathsKnown DEF Moving
    <2>2. /\ work' \in [Workers ->
               [phase : {"idle", "lookup", "name", "move", "copy", "remove", "info", "announce"},
                of : Uploads, at : Paths \cup {NoPath}]]
          /\ \A v \in Workers :
               work'[v].at \in Paths <=> work'[v].phase \notin {"idle", "lookup", "name"}
      BY <2>1, WorkTyped
    <2>3. dropped' \in SUBSET Uploads
      BY <1>1, WorkKnown DEF IInv, TypeOK
    <2> QED
      BY <1>1, <1>2, <2>2, <2>3 DEF IInv, TypeOK
  <1>6. StagingSound'
    BY <1>1, <1>3, IdleKnown DEF IInv, StagingSound, In, Workers
  <1>7. ASSUME NEW w \in Workers
        PROVE  WorkSound(w)'
    BY <1>3, IdleKnown DEF WorkSound, In, Moving
  <1>8. Arrived'
    BY <1>1, <1>4, ArrivedStays
  <1>9. NoLitter'
    <2>1. \A p \in Paths : BeingCopied(p) => p \in torn'
      BY <1>1 DEF BeingCopied
    <2> QED
      BY <1>1, <1>4, <2>1, LitterStays
  <1>10. ASSUME NEW x \in Uploads \ repeated'
         PROVE  MovedOnce(x)'
    <2>1. x \in Uploads \ repeated /\ MovedOnce(x) /\ Copies(x)' = Copies(x)
      BY <1>1 DEF IInv, Copies
    <2>2. \A w \in Workers : ~(In(w, "remove") /\ work[w].of = x)
      BY <1>1
    <2>3. data[x] # "gone" => Copies(x) = {}
      BY <2>1, <2>2 DEF MovedOnce
    <2>4. \A w \in Workers : work'[w].phase \notin Moving
      BY <1>3, IdleKnown DEF Moving
    <2> QED
      BY <1>1, <2>1, <2>3, <2>4 DEF MovedOnce, Moves, Moving
  <1>11. Tried'
    BY <1>1 DEF Tried
  <1>12. Handled'
    <2>1. \A u \in Uploads : u \in waiting \cup dropped \/ Held(u) => u \in dropped'
      BY <1>1 DEF Held
    <2> QED
      BY <1>1, <2>1, HandledStays
  <1> QED
    BY <1>4, <1>5, <1>6, <1>7, <1>8, <1>9, <1>10, <1>11, <1>12 DEF IInv

-----------------------------------------------------------------------------
(* The invariant holds.                                                    *)

LEMMA InitSound ==
  ASSUME Init
  PROVE  IInv
  <1>1. /\ serving = FALSE /\ oneMount \in BOOLEAN /\ library = "ok"
        /\ data = [u \in Uploads |-> "new"] /\ info = {} /\ old = {}
        /\ waiting = {} /\ work = [w \in Workers |-> Idle]
        /\ round = "wait" /\ todo = {}
        /\ disk = [p \in Paths |-> NoFile] /\ announced = {}
        /\ finished = {} /\ expired = {} /\ unmoved = {} /\ dropped = {}
        /\ torn = {} /\ contested = {} /\ repeated = {}
        /\ mishaps = 0
    BY DEF Init
  <1>2. \A w \in Workers : work[w] = Idle
    BY <1>1
  <1>3. \A u \in Uploads : data[u] = "new"
    BY <1>1
  <1>4. TypeOK
    <2>1. Idle \in [phase : {"idle", "lookup", "name", "move", "copy", "remove", "info", "announce"},
                    of : Uploads, at : Paths \cup {NoPath}]
      BY IdleKnown DEF Phases, Moving
    <2>2. \A w \in Workers : work[w].at \in Paths <=> work[w].phase \notin {"idle", "lookup", "name"}
      BY <1>2, IdleKnown, PathsKnown
    <2>3. mishaps \in 0..MaxMishaps
      BY <1>1, UploadAssumption
    <2>4. /\ disk \in [Paths -> {NoFile} \cup [of : SUBSET Uploads, whole : BOOLEAN]]
          /\ data \in [Uploads -> {"new", "part", "full", "gone"}]
      BY <1>1
    <2> QED
      BY <1>1, <2>1, <2>2, <2>3, <2>4 DEF TypeOK
  <1>5. StagingSound
    BY <1>1, <1>3 DEF StagingSound
  <1>6. \A w \in Workers : WorkSound(w)
    BY <1>2, IdleKnown DEF WorkSound, In, Moving
  <1>7. Arrived
    BY <1>1, <1>3 DEF Arrived
  <1>8. NoLitter
    BY <1>1 DEF NoLitter
  <1>9. ASSUME NEW u \in Uploads
        PROVE  MovedOnce(u)
    <2>1. Copies(u) = {}
      BY <1>1, WholeEntry DEF Copies
    <2>2. \A w \in Workers : work[w].phase \notin Moving
      BY <1>2, IdleKnown DEF Moving
    <2> QED
      BY <2>1, <2>2 DEF MovedOnce, Moves, Moving
  <1>10. Tried
    BY <1>1 DEF Tried
  <1>11. Handled
    BY <1>3 DEF Handled
  <1> QED
    BY <1>4, <1>5, <1>6, <1>7, <1>8, <1>9, <1>10, <1>11 DEF IInv

LEMMA StepKeeps ==
  ASSUME IInv, [Next]_vars
  PROVE  IInv' /\ Undisturbed
  <1>1. CASE Start \/ Tick \/ EndRetry \/ EndSweep \/ ChangeLibrary
    BY <1>1, RunKeeps
  <1>2. CASE Crash
    BY <1>2, CrashKeeps
  <1>3. ASSUME NEW u \in Uploads,
               Create(u) \/ Patch(u) \/ Take(u) \/ Retry(u) \/ Sweep(u) \/ Grow(u)
        PROVE  IInv' /\ Undisturbed
    BY <1>3, CreateKeeps, PatchKeeps, TakeKeeps, RetryKeeps, SweepKeeps, GrowKeeps
  <1>4. ASSUME NEW w \in Workers, Move(w)
        PROVE  IInv' /\ Undisturbed
    BY <1>4, MakeFolderKeeps, PickPathKeeps, LookupFailsKeeps, RenameKeeps, OpenCopyKeeps, FinishCopyKeeps,
       FailCopyKeeps, RemoveSourceKeeps, RemoveInfoKeeps, AnnounceKeeps DEF Move
  <1>5. CASE UNCHANGED vars
    <2>1. /\ Still
          /\ UNCHANGED <<serving, oneMount, library, info, old, waiting, round, todo,
                         unmoved, mishaps>>
      BY <1>5 DEF vars, Still, staging, sweeping, history
    <2>2. TypeOK'
      BY <2>1, StillTyped DEF IInv, TypeOK
    <2>3. StagingSound'
      BY <2>1 DEF IInv, StagingSound, Still, In
    <2>4. Tried'
      BY <2>1 DEF IInv, Tried, Still, In
    <2>5. Handled'
      BY <2>1, HandledStays DEF Still, Held, In
    <2> QED
      BY <2>1, <2>2, <2>3, <2>4, <2>5, StillKeeps DEF IInv
  <1> QED
    BY <1>1, <1>2, <1>3, <1>4, <1>5 DEF Next

-----------------------------------------------------------------------------
(* The theorems.                                                           *)

\* Every reachable state satisfies the inductive invariant, which says where the
\* bytes of each upload are at each step of its move.
THEOREM InvHolds == Spec => []IInv
  <1>1. IInv /\ [Next]_vars => IInv'
    BY StepKeeps
  <1> QED
    BY InitSound, <1>1, PTL DEF Spec

\* The state of the upload service stays in its type: in particular a call has a
\* destination exactly from the choice of its path on (handleComplete).
THEOREM TypeCorrect == Spec => []TypeOK
  <1>1. IInv => TypeOK
    BY DEF IInv
  <1> QED
    BY InvHolds, <1>1, PTL

\* Whatever fails and wherever the process dies, an upload received in full is
\* in the library or staged with its .info, until the sweep removes it
\* (handleComplete, moveFile, sweepExpired).
THEOREM NothingIsLost == Spec => []NothingLost
  <1>1. ASSUME IInv
        PROVE  NothingLost
    <2>1. ASSUME NEW u \in Uploads, Kept(u)
          PROVE  InLibrary(u)
      BY <2>1, PathsKnown DEF Kept, InLibrary
    <2>2. ASSUME NEW u \in finished
          PROVE  /\ InLibrary(u) \/ Staged(u) \/ u \in expired \/ Contested(u)
                 /\ u \in announced => InLibrary(u) \/ Contested(u)
      <3>1. u \in Uploads
        BY <1>1 DEF IInv, TypeOK
      <3>2. u \in announced => InLibrary(u) \/ Contested(u)
        BY <1>1, <2>1, <3>1 DEF IInv, Arrived
      <3>3. CASE data[u] = "gone"
        BY <1>1, <2>1, <3>1, <3>2, <3>3 DEF IInv, Arrived
      <3>4. CASE data[u] = "full"
        BY <1>1, <3>1, <3>2, <3>4 DEF IInv, StagingSound, Staged
      <3> QED
        BY <1>1, <3>1, <3>3, <3>4 DEF IInv, StagingSound
    <2> QED
      BY <2>2 DEF NothingLost
  <1> QED
    BY InvHolds, <1>1, PTL

\* An upload is in the library once unless its move was repeated, and a file
\* that is not whole is being copied or was left by a crash or by a failed copy
\* that could not be removed (moveFile, retryUnmoved).
THEOREM NothingIsStray == Spec => []NothingStray
  <1>1. ASSUME IInv
        PROVE  NothingStray
    <2>1. ASSUME NEW u \in Uploads \ repeated
          PROVE  Cardinality(Copies(u)) <= 1
      <3>1. \A p, q \in Copies(u) : p = q
        BY <1>1 DEF IInv, MovedOnce
      <3>2. CASE Copies(u) = {}
        BY <3>2, FS_EmptySet
      <3>3. ASSUME NEW p \in Copies(u)
            PROVE  Cardinality(Copies(u)) <= 1
        <4>1. Copies(u) = {p}
          BY <3>1
        <4>2. Cardinality({p}) = 1
          BY FS_Singleton
        <4> QED
          BY ONLY <4>1, <4>2
      <3> QED
        BY <3>2, <3>3
    <2>2. NoLitter
      BY <1>1 DEF IInv
    <2> QED
      BY <2>1, <2>2 DEF NothingStray, NoLitter
  <1> QED
    BY InvHolds, <1>1, PTL

\* No step of any move replaces, changes or takes away a whole file of the
\* library, unless both goroutines took its path for free (uniqueFile, moveFile).
THEOREM LibraryIsKept == Spec => LibraryKept
  <1>1. IInv /\ [Next]_vars =>
          [\A p \in Paths :
             disk[p] # NoFile /\ disk[p].whole /\ disk'[p] # disk[p] =>
                p \in contested]_vars
    BY StepKeeps DEF Undisturbed
  <1> QED
    BY InvHolds, <1>1, PTL DEF Spec, LibraryKept

\* What the sweep removes of the finished uploads, a move of it was tried and
\* failed before, however long the process was down, or a crash ended its one
\* attempt and its .info does not say that it is finished (Run, sweepExpired).
THEOREM SweptOnlyAfterTrying == Spec => SweptOnlyUnmovable
  <1>1. ASSUME IInv, [Next]_vars
        PROVE  [\A u \in (expired' \ expired) \cap finished :
                  u \in unmoved \cup (dropped \ Recorded)]_vars
    <2>1. ASSUME NEW u \in Uploads, Sweep(u),
                 NEW x \in (expired' \ expired) \cap finished
          PROVE  x \in unmoved \cup (dropped \ Recorded)
      <3>1. x = u /\ u \in old /\ data[u] \in {"part", "full"} /\ round = "sweep"
        BY <2>1 DEF Sweep
      <3>2. data[u] = "full"
        BY <1>1, <2>1, <3>1 DEF IInv, StagingSound
      <3> QED
        BY <1>1, <3>1, <3>2 DEF IInv, Tried
    <2>2. CASE Start \/ Tick \/ EndRetry \/ EndSweep \/ ChangeLibrary \/ Crash
      <3>1. expired' = expired
        BY <2>2 DEF Start, Tick, EndRetry, EndSweep, ChangeLibrary, Crash, history
      <3> QED
        BY <3>1
    <2>3. ASSUME NEW u \in Uploads,
                 Create(u) \/ Patch(u) \/ Take(u) \/ Retry(u) \/ Grow(u)
          PROVE  expired' = expired
      BY <2>3 DEF Create, Patch, Take, Retry, Grow, history
    <2>4. ASSUME NEW w \in Workers, Move(w)
          PROVE  expired' = expired
      <3>1. CASE PickPath(w) \/ LookupFails(w) \/ FailCopy(w) \/ RemoveSource(w)
        BY <3>1 DEF PickPath, LookupFails, FailCopy, RemoveSource
      <3>2. CASE Rename(w) \/ OpenCopy(w)
        BY <3>2 DEF Rename, OpenCopy, history
      <3>3. CASE MakeFolder(w) \/ FinishCopy(w) \/ RemoveInfo(w) \/ Announce(w)
        BY <3>3 DEF MakeFolder, FinishCopy, RemoveInfo, Announce, history
      <3> QED
        BY <2>4, <3>1, <3>2, <3>3 DEF Move
    <2>5. CASE UNCHANGED vars
      BY <2>5
    <2>6. CASE Next
      <3>1. ASSUME NEW u \in Uploads, Sweep(u)
            PROVE  \A x \in (expired' \ expired) \cap finished :
                      x \in unmoved \cup (dropped \ Recorded)
        BY <2>1, <3>1
      <3> QED
        BY <2>2, <2>3, <2>4, <2>6, <3>1 DEF Next
    <2> QED
      BY <1>1, <2>5, <2>6
  <1> QED
    BY InvHolds, <1>1, PTL DEF Spec, SweptOnlyUnmovable

=============================================================================
