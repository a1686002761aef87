------------------------------- MODULE Upload -------------------------------
(***************************************************************************)
(* The upload server (internal/upload/tus.go, internal/api/upload.go).     *)
(*                                                                         *)
(* An upload is staged as a data file and an .info file.  Once its last    *)
(* byte is in, it is moved into its library, by one of two goroutines that *)
(* do not exclude each other: the completion loop, which takes finished    *)
(* uploads from tusd's channel, and Run, which looks through the staging   *)
(* directory when it starts and every hour for finished uploads that are   *)
(* still there, and then removes what is older than MaxAge.                *)
(*                                                                         *)
(* The service is created by the first upload request of a process, the    *)
(* process may crash between any two steps, and every step of a move may   *)
(* fail.  tusd itself is external: what it does is taken from how this     *)
(* code uses it.  Whether the .info file of a finished upload says that it *)
(* is finished (its Offset), which retryUnmoved goes by and nothing in     *)
(* this repository writes, is left open for each upload.                   *)
(***************************************************************************)
EXTENDS Integers, FiniteSets

CONSTANTS
    Uploads,
    Author, Title, File,    \* metadata of each upload, sanitized
    Recorded,               \* uploads whose .info says it when they are finished
    Blank,                  \* an author or title that was not given
    NoFile,                 \* there is nothing at a library path
    MaxSuffix,              \* highest " (n)" suffix, a bound of the model
    MaxMishaps              \* crashes and failing calls, a bound of the model

ASSUME UploadAssumption ==
    /\ MaxSuffix \in Nat \ {0}
    /\ MaxMishaps \in Nat
    /\ Uploads # {} /\ Recorded \subseteq Uploads
    /\ NoFile \notin [of : SUBSET Uploads, whole : BOOLEAN]

VARIABLES
    serving,    \* the service exists in the running process
    oneMount,   \* staging and library are on one file system
    library,    \* the target library: "ok", "readonly", a "stale" mount on
                \* which every call fails, or its row is "gone"
    data,       \* data file of each upload: "new", "part", "full", "gone"
    info,       \* uploads that have an .info file
    old,        \* uploads whose data file is older than MaxAge
    waiting,    \* uploads whose last PATCH waits on CompleteUploads
    work,       \* the handleComplete call of each goroutine
    round,      \* Run: "start", "retry", "sweep", or between ticks, "wait"
    todo,       \* directory entries that Run's current pass has still to visit
    disk,       \* the library: which uploads' bytes are at each path
    announced,  \* uploads handed to onComplete
    finished, expired,  \* history: received in full; removed by the sweep
    unmoved,    \* history: an attempt to move the upload failed
    dropped,    \* history: a crash took it from the completion loop's channel,
                \* or out of a goroutine's hands
    torn,       \* history: paths left half written, by a crash or by a failed
                \* copy that could not be removed
    contested,  \* history: paths picked by both goroutines
    repeated,   \* history: uploads moved again after a copy was complete
    mishaps

staging == <<data, info, old>>
sweeping == <<round, todo>>
history == <<finished, expired, unmoved, dropped, torn, contested, repeated>>
vars == <<serving, oneMount, library, staging, waiting, work, sweeping, disk,
          announced, history, mishaps>>

Workers == {"loop", "run"}

\* destFolder: the title names the book, the file name only stands in for it.
\* (How the parts are joined is layout.)
Folder(u) ==
    IF Title[u] # Blank THEN <<Author[u], Title[u]>>
    ELSE <<IF Author[u] # Blank THEN Author[u] ELSE "Uploads", File[u]>>

Path(u, n) == [dir |-> Folder(u), file |-> File[u], n |-> n]
Paths == {Path(u, n) : u \in Uploads, n \in 1..MaxSuffix}
NoPath == [dir |-> <<>>, file |-> Blank, n |-> 0]

Idle == [phase |-> "idle", of |-> CHOOSE u \in Uploads : TRUE, at |-> NoPath]

TypeOK ==
    /\ serving \in BOOLEAN /\ oneMount \in BOOLEAN
    /\ library \in {"ok", "readonly", "stale", "gone"}
    /\ data \in [Uploads -> {"new", "part", "full", "gone"}]
    /\ info \in SUBSET Uploads /\ old \in SUBSET Uploads
    /\ waiting \in SUBSET Uploads
    /\ work \in [Workers ->
          [phase : {"idle", "lookup", "name", "move", "copy", "remove", "info",
                    "announce"},
           of : Uploads, at : Paths \cup {NoPath}]]
    /\ \A w \in Workers :
          work[w].at \in Paths <=> work[w].phase \notin {"idle", "lookup", "name"}
    /\ round \in {"start", "retry", "sweep", "wait"} /\ todo \in SUBSET Uploads
    /\ disk \in [Paths -> {NoFile} \cup [of : SUBSET Uploads, whole : BOOLEAN]]
    /\ announced \in SUBSET Uploads /\ finished \in SUBSET Uploads
    /\ expired \in SUBSET Uploads /\ unmoved \in SUBSET Uploads
    /\ dropped \in SUBSET Uploads /\ repeated \in SUBSET Uploads
    /\ torn \in SUBSET Paths /\ contested \in SUBSET Paths
    /\ mishaps \in 0..MaxMishaps

Init ==
    /\ serving = FALSE /\ oneMount \in BOOLEAN /\ library = "ok"
    /\ data = [u \in Uploads |-> "new"] /\ info = {} /\ old = {}
    /\ waiting = {} /\ work = [w \in Workers |-> Idle]
    /\ round = "wait" /\ todo = {}
    /\ disk = [p \in Paths |-> NoFile] /\ announced = {}
    /\ finished = {} /\ expired = {} /\ unmoved = {} /\ dropped = {}
    /\ torn = {} /\ contested = {} /\ repeated = {}
    /\ mishaps = 0

Mishap == mishaps < MaxMishaps /\ mishaps' = mishaps + 1

-----------------------------------------------------------------------------
(* Requests.                                                               *)

\* The first request an admin makes to the upload endpoint builds the service
\* (getUploadService, New); Run begins with the uploads left unmoved.
Start ==
    /\ ~serving
    /\ serving' = TRUE
    /\ round' = "start" /\ todo' = info
    /\ UNCHANGED <<oneMount, library, staging, waiting, work, disk, announced,
                   history, mishaps>>

\* preCreate refuses an upload the library could not take.
Create(u) ==
    /\ serving /\ data[u] = "new" /\ library = "ok"
    /\ data' = [data EXCEPT ![u] = "part"]
    /\ info' = info \cup {u}
    /\ UNCHANGED <<serving, oneMount, library, old, waiting, work, sweeping,
                   disk, announced, history, mishaps>>

\* A PATCH appends; the one that completes the upload waits until the
\* completion loop has taken it.
Patch(u) ==
    /\ serving /\ data[u] = "part"
    /\ old' = old \ {u}
    /\ \/ data' = [data EXCEPT ![u] = "full"]
          /\ finished' = finished \cup {u}
          /\ waiting' = waiting \cup {u}
       \/ UNCHANGED <<data, finished, waiting>>
    /\ UNCHANGED <<serving, oneMount, library, info, work, sweeping, disk, announced,
                   expired, unmoved, dropped, torn, contested, repeated, mishaps>>

-----------------------------------------------------------------------------
(* Moving a finished upload: handleComplete, in either goroutine.          *)

\* (Operators whose name starts with "Slip" are the mistakes the model checker
\* is asked to notice: no action uses them.)
\* The destination of the one before is used again.
SlipBegin(w, u) == work' = [work EXCEPT ![w].phase = "move", ![w].of = u]

Begin(w, u) == work' = [work EXCEPT ![w] = [Idle EXCEPT !.phase = "lookup", !.of = u]]
Advance(w, phase) == work' = [work EXCEPT ![w].phase = phase]
In(w, phase) == work[w].phase = phase

\* completionLoop takes what waits on the channel, in any order.
Take(u) ==
    /\ In("loop", "idle") /\ u \in waiting
    /\ waiting' = waiting \ {u}
    /\ Begin("loop", u)
    /\ UNCHANGED <<serving, oneMount, library, staging, sweeping, disk, announced,
                   history, mishaps>>

\* The failure is logged, but handleComplete goes on.
SlipGiveUp(w) ==
    /\ Advance(w, "info")
    /\ unmoved' = unmoved \cup {work[w].of}

\* handleComplete returns, leaving the staged files as they are.
GiveUp(w) ==
    /\ work' = [work EXCEPT ![w] = Idle]
    /\ unmoved' = unmoved \cup {work[w].of}

\* Whether the name is taken is not looked at.
SlipFree(p) == {p}

\* uniqueFile: the path itself, or the first free " (n)".
Free(p) ==
    LET free == {n \in 1..MaxSuffix : disk[[p EXCEPT !.n = n]] = NoFile}
    IN  {[p EXCEPT !.n = n] : n \in {m \in free : \A k \in free : m <= k}}

Others(w) == Workers \ {w}

Writable == library \notin {"readonly", "stale"}

\* The library's row is read, and the folder made: on a read-only mount it may
\* be there already.
MakeFolder(w) ==
    /\ In(w, "lookup") /\ library \in {"ok", "readonly"}
    /\ Advance(w, "name")
    /\ UNCHANGED <<serving, oneMount, library, staging, waiting, sweeping, disk,
                   announced, history, mishaps>>

\* uniqueFile goes on to the next name for whatever error but "not found", so on
\* a stale mount it does not come back.
PickPath(w) ==
    LET u == work[w].of
    IN  /\ In(w, "name") /\ library # "stale"
        /\ \E p \in Free(Path(u, 1)) :
             /\ work' = [work EXCEPT ![w].phase = "move", ![w].at = p]
             /\ contested' = contested \cup
                  {q \in {p} : \E v \in Others(w) : work[v].at = q}
        /\ repeated' = repeated \cup
             {x \in {u} : \E v \in Others(w) : ~In(v, "idle") /\ work[v].of = u}
        /\ UNCHANGED <<serving, oneMount, library, staging, waiting, sweeping, disk,
                       announced, finished, expired, unmoved, dropped, torn, mishaps>>

\* The lookup fails (row gone, or the request's context cancelled), or the
\* folder cannot be made.
LookupFails(w) ==
    /\ In(w, "lookup")
    /\ \/ library # "ok" /\ UNCHANGED mishaps
       \/ library = "ok" /\ Mishap
    /\ GiveUp(w)
    /\ UNCHANGED <<serving, oneMount, library, staging, waiting, sweeping, disk,
                   announced, finished, expired, dropped, torn, contested, repeated>>

CanRename(w) == oneMount /\ data[work[w].of] = "full" /\ Writable

\* os.Rename, which replaces whatever is at the path by now.
Rename(w) ==
    LET u == work[w].of
    IN  /\ In(w, "move") /\ CanRename(w)
        /\ disk' = [disk EXCEPT ![work[w].at] = [of |-> {u}, whole |-> TRUE]]
        /\ data' = [data EXCEPT ![u] = "gone"]
        /\ Advance(w, "info")
        /\ UNCHANGED <<serving, oneMount, library, info, old, waiting, sweeping,
                       announced, history, mishaps>>

\* Otherwise the file is copied: open both ends, truncating the destination.
OpenCopy(w) ==
    LET u == work[w].of
    IN  /\ In(w, "move") /\ ~CanRename(w)
        /\ IF data[u] = "full" /\ Writable
           THEN /\ disk' = [disk EXCEPT ![work[w].at] = [of |-> {u}, whole |-> FALSE]]
                /\ Advance(w, "copy")
                /\ UNCHANGED unmoved
           ELSE GiveUp(w) /\ UNCHANGED disk
        /\ UNCHANGED <<serving, oneMount, library, staging, waiting, sweeping, announced,
                       finished, expired, dropped, torn, contested, repeated, mishaps>>

Copying(w, p) == In(w, "copy") /\ work[w].at = p

\* The source is left for the sweep.
SlipFinishCopy(w) ==
    /\ In(w, "copy")
    /\ disk' = [disk EXCEPT ![work[w].at] = [of |-> {work[w].of}, whole |-> TRUE]]
    /\ Advance(w, "announce")
    /\ UNCHANGED <<serving, oneMount, library, staging, waiting, sweeping,
                   announced, history, mishaps>>

\* Copied and synced.  Two copies into one path mix, and a file the other one
\* has removed meanwhile is written to no avail.
FinishCopy(w) ==
    LET p == work[w].at
    IN  /\ In(w, "copy")
        /\ disk' = [disk EXCEPT ![p] =
             IF @ = NoFile THEN @
             ELSE [of |-> @.of \cup {work[w].of},
                   whole |-> ~\E v \in Others(w) : Copying(v, p)]]
        /\ Advance(w, "remove")
        /\ UNCHANGED <<serving, oneMount, library, staging, waiting, sweeping,
                       announced, history, mishaps>>

\* Copying, syncing or closing fails, and the destination is removed; nobody
\* looks whether that worked.
FailCopy(w) ==
    /\ In(w, "copy")
    /\ IF Writable THEN Mishap ELSE UNCHANGED mishaps
    /\ \/ /\ Writable
          /\ disk' = [disk EXCEPT ![work[w].at] = NoFile]
          /\ UNCHANGED torn
       \/ torn' = torn \cup {work[w].at} /\ UNCHANGED disk
    /\ GiveUp(w)
    /\ UNCHANGED <<serving, oneMount, library, staging, waiting, sweeping, announced,
                   finished, expired, dropped, contested, repeated>>

\* The source goes last; not being able to remove it fails the whole move,
\* whose copy stays.
RemoveSource(w) ==
    LET u == work[w].of
    IN  /\ In(w, "remove")
        /\ \/ /\ data[u] = "full"
              /\ data' = [data EXCEPT ![u] = "gone"]
              /\ Advance(w, "info")
              /\ UNCHANGED <<unmoved, repeated, mishaps>>
           \/ /\ data[u] = "full" /\ Mishap
              /\ GiveUp(w)
              /\ repeated' = repeated \cup {u}
              /\ UNCHANGED data
           \/ /\ data[u] = "gone"
              /\ GiveUp(w)
              /\ UNCHANGED <<data, repeated, mishaps>>
        /\ UNCHANGED <<serving, oneMount, library, info, old, waiting, sweeping,
                       disk, announced, finished, expired, dropped, torn, contested>>

\* An .info file that cannot be removed is only logged.
RemoveInfo(w) ==
    /\ In(w, "info")
    /\ \/ info' = info \ {work[w].of} /\ UNCHANGED mishaps
       \/ Mishap /\ UNCHANGED info
    /\ Advance(w, "announce")
    /\ UNCHANGED <<serving, oneMount, library, data, old, waiting, sweeping,
                   disk, announced, history>>

\* onComplete: scan the folder, and broadcast.
Announce(w) ==
    /\ In(w, "announce")
    /\ announced' = announced \cup {work[w].of}
    /\ work' = [work EXCEPT ![w] = Idle]
    /\ UNCHANGED <<serving, oneMount, library, staging, waiting, sweeping, disk,
                   history, mishaps>>

-----------------------------------------------------------------------------
(* Run: retryUnmoved, then sweepExpired, every hour.                       *)

Tick ==
    /\ serving /\ round = "wait"
    /\ round' = "retry" /\ todo' = info
    /\ UNCHANGED <<serving, oneMount, library, staging, waiting, work, disk,
                   announced, history, mishaps>>

\* Finished uploads are taken for those still in progress.
SlipRetry(u) ==
    /\ round \in {"start", "retry"} /\ u \in todo /\ In("run", "idle")
    /\ todo' = todo \ {u}
    /\ UNCHANGED work
    /\ UNCHANGED <<serving, oneMount, library, staging, waiting, round, disk,
                   announced, history, mishaps>>

\* One entry: skipped unless its .info says that the upload is complete and its
\* data is there.
Retry(u) ==
    /\ round \in {"start", "retry"} /\ u \in todo /\ In("run", "idle")
    /\ todo' = todo \ {u}
    /\ IF u \in info \cap Recorded /\ data[u] = "full" THEN Begin("run", u)
       ELSE UNCHANGED work
    /\ UNCHANGED <<serving, oneMount, library, staging, waiting, round, disk,
                   announced, history, mishaps>>

EndRetry ==
    /\ round \in {"start", "retry"} /\ todo = {} /\ In("run", "idle")
    /\ IF round = "start" THEN round' = "wait" /\ UNCHANGED todo
       ELSE round' = "sweep" /\ todo' = {u \in Uploads : data[u] \in {"part", "full"}}
    /\ UNCHANGED <<serving, oneMount, library, staging, waiting, work, disk,
                   announced, history, mishaps>>

\* By age alone: the data file, then its .info.  Either may be there to stay.
Sweep(u) ==
    /\ round = "sweep" /\ u \in todo
    /\ todo' = todo \ {u}
    /\ \/ /\ u \in old /\ data[u] \in {"part", "full"}
          /\ data' = [data EXCEPT ![u] = "gone"]
          /\ \/ info' = info \ {u} /\ UNCHANGED mishaps
             \/ Mishap /\ UNCHANGED info
          /\ expired' = expired \cup {u}
       \/ /\ IF u \in old /\ data[u] \in {"part", "full"} THEN Mishap
             ELSE UNCHANGED mishaps
          /\ UNCHANGED <<data, info, expired>>
    /\ UNCHANGED <<serving, oneMount, library, old, waiting, work, round, disk,
                   announced, finished, unmoved, dropped, torn, contested, repeated>>

EndSweep ==
    /\ round = "sweep" /\ todo = {}
    /\ round' = "wait"
    /\ UNCHANGED <<serving, oneMount, library, staging, waiting, work, todo, disk,
                   announced, history, mishaps>>

-----------------------------------------------------------------------------
(* The environment.                                                        *)

\* MaxAge is seven days: no file reaches it while Run is in a pass or while it
\* is being moved.
Grow(u) ==
    /\ data[u] \in {"part", "full"} /\ u \notin old
    /\ round = "wait" /\ u \notin waiting
    /\ \A w \in Workers : ~In(w, "idle") => work[w].of # u
    /\ old' = old \cup {u}
    /\ UNCHANGED <<serving, oneMount, library, data, info, waiting, work,
                   sweeping, disk, announced, history, mishaps>>

\* The mount becomes read-only or stale, or works again; the library is deleted.
ChangeLibrary ==
    /\ library # "gone"
    /\ \/ library # "ok" /\ library' = "ok" /\ UNCHANGED mishaps
       \/ library = "ok" /\ library' \in {"readonly", "stale"} /\ Mishap
       \/ library' = "gone" /\ Mishap
    /\ UNCHANGED <<serving, oneMount, staging, waiting, work, sweeping, disk,
                   announced, history>>

Crash ==
    /\ serving /\ Mishap
    /\ serving' = FALSE
    /\ waiting' = {} /\ work' = [w \in Workers |-> Idle]
    /\ round' = "wait" /\ todo' = {}
    /\ dropped' = dropped \cup waiting
                  \cup {work[w].of : w \in {v \in Workers : ~In(v, "idle")}}
    /\ torn' = torn \cup {p \in Paths : \E w \in Workers : Copying(w, p)}
    /\ repeated' = repeated \cup {u \in Uploads : \E w \in Workers :
                                    In(w, "remove") /\ work[w].of = u}
    /\ UNCHANGED <<oneMount, library, staging, disk, announced, finished, expired,
                   unmoved, contested>>

Move(w) ==
    \/ MakeFolder(w) \/ LookupFails(w) \/ PickPath(w) \/ Rename(w) \/ OpenCopy(w)
    \/ FinishCopy(w) \/ FailCopy(w) \/ RemoveSource(w) \/ RemoveInfo(w)
    \/ Announce(w)

Next ==
    \/ Start \/ Tick \/ EndRetry \/ EndSweep \/ ChangeLibrary \/ Crash
    \/ \E u \in Uploads :
          Create(u) \/ Patch(u) \/ Take(u) \/ Retry(u) \/ Sweep(u) \/ Grow(u)
    \/ \E w \in Workers : Move(w)

\* The goroutines run and the ticker ticks.  Nobody has to upload, so after a
\* crash the service may never come back.
Fairness ==
    /\ WF_vars(Tick) /\ WF_vars(EndRetry) /\ WF_vars(EndSweep)
    /\ \A u \in Uploads : WF_vars(Take(u)) /\ WF_vars(Retry(u)) /\ WF_vars(Sweep(u))
    /\ \A w \in Workers : WF_vars(Move(w))

Spec == Init /\ [][Next]_vars /\ Fairness

-----------------------------------------------------------------------------
(* Properties.                                                             *)

InLibrary(u) == \E p \in Paths : disk[p] = [of |-> {u}, whole |-> TRUE]
Staged(u) == data[u] = "full" /\ u \in info
Contested(u) == \E n \in 1..MaxSuffix : Path(u, n) \in contested

\* An upload the server has received in full is never lost: it is in the
\* library, or staged where a retry will find it, until the sweep removes it.
\* Whatever fails, wherever the process dies; and what onComplete was told of is
\* in the library (handleComplete, moveFile).
\* Excepted is a path that both goroutines took for free.
NothingLost ==
    \A u \in finished :
        /\ InLibrary(u) \/ Staged(u) \/ u \in expired \/ Contested(u)
        /\ u \in announced => InLibrary(u) \/ Contested(u)

\* A file in the library is not replaced or taken away by an upload of the same
\* name, unless both goroutines took the path for free at the same time
\* (uniqueFile looks before moveFile acts).
LibraryKept ==
    [][\A p \in Paths :
         disk[p] # NoFile /\ disk[p].whole /\ disk'[p] # disk[p] =>
            p \in contested]_vars

Copies(u) == {p \in Paths : disk[p] = [of |-> {u}, whole |-> TRUE]}
BeingCopied(p) == \E w \in Workers : Copying(w, p)

\* The library shows the listener each upload once, and nothing unfinished.  A
\* second copy means that the upload was moved again after its first copy was
\* complete: its source could not be removed, the process died before that, or
\* the other goroutine had it in hand too (moveFile, retryUnmoved).  A file that
\* is not whole is being copied, or a crash left it, or a copy that failed and
\* then could not be removed: no other failing copy leaves anything behind
\* (moveFile).
NothingStray ==
    /\ \A u \in Uploads \ repeated : Cardinality(Copies(u)) <= 1
    /\ \A p \in Paths : disk[p] # NoFile /\ ~disk[p].whole =>
          BeingCopied(p) \/ p \in torn \cup contested

\* A finished upload is swept only after a move of it was tried and failed: Run
\* retries before it sweeps, also after a week of downtime (Run, sweepExpired).
\* Excepted is one that a crash took from the completion loop and whose .info
\* never said that it was complete (retryUnmoved).
SweptOnlyUnmovable ==
    [][\A u \in (expired' \ expired) \cap finished :
         u \in unmoved \cup (dropped \ Recorded)]_vars

\* While the service runs on and the library can be written, every finished
\* upload gets there, or has expired (completionLoop, Run).  Only the completion
\* loop's one attempt stands behind one whose .info does not say that it is
\* complete.
EventuallyMoved ==
    <>[](serving /\ library = "ok") =>
        \A u \in Uploads : u \in finished ~>
            \/ InLibrary(u) \/ u \in expired \/ Contested(u)
            \/ u \in (unmoved \cup dropped) \ Recorded
=============================================================================
