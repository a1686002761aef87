------------------------------ MODULE Scanner ------------------------------
(***************************************************************************)
(* The scans of one library (internal/library: scanner.go, scanpath.go,    *)
(* watch.go), which bring the books table in line with the disk, and what  *)
(* they run against: the disk, which changes under them, the admin who     *)
(* edits a book, the watcher, uploads and API calls that want a scan.      *)
(*                                                                         *)
(* Full and targeted scans of a library exclude one another; a call that   *)
(* finds one running leaves a note and returns.  A scan reads a book       *)
(* (os.Stat, SELECT), works on its files for seconds, and writes it in a   *)
(* transaction: three steps, with anybody's steps in between.              *)
(*                                                                         *)
(* A book is a folder; its scan hash is the number of the change that made *)
(* it what it is.  Its metadata is either what the tags say or what an     *)
(* admin wrote.                                                            *)
(***************************************************************************)
EXTENDS Naturals, FiniteSets

CONSTANTS
    Folders, Scans,     \* goroutines that may be scanning
    None,
    MaxChanges, MaxEdits, MaxFaults     \* bounds of the model

ASSUME ScannerAssumption ==
    /\ None \notin Folders
    /\ IsFiniteSet(Folders)
    /\ MaxChanges \in Nat \ {0} /\ MaxEdits \in Nat /\ MaxFaults \in Nat

VARIABLES
    disk,       \* each folder's last change, or 0 when it is not there
    mounted,    \* the library's root is there
    rows,       \* the books rows
    scanning,   \* Scanner.scanning[library]
    rescan,     \* Scanner.rescan[library]
    scan,       \* each goroutine's scan
    watching,   \* Watch runs (after the initial scan)
    wanted,     \* its debounce timer is armed, or its request queued
    missed,     \* history: something was passed over, and no full scan began since
    changes, edits, faults

vars == <<disk, mounted, rows, scanning, rescan, scan, watching, wanted,
          missed, changes, edits, faults>>
world == <<disk, mounted, changes>>
budget == <<changes, edits, faults>>

Row == [hash : Nat, meta : {"tags", "edited"}, locked : BOOLEAN]

ASSUME NoneAssumption == None \notin Row

Scan == [kind : {"boot", "full", "path"},
         pc : {"idle", "begin", "walk", "visit", "books", "tags", "end"},
         target : Folders \cup {None},      \* of a targeted scan
         valid : SUBSET Folders,            \* what its walk found
         vanished : SUBSET Folders,         \* history: and took for gone with the share
         at : Nat,                          \* history: changes when it read the root
         partial : BOOLEAN, failed : BOOLEAN,
         todo : SUBSET Folders,             \* folders not yet read, then groups to process
         book : Folders \cup {None},        \* the one in hand,
         hash : Nat,                        \* its hash
         existing : Row \cup {None}]        \* and the row read for it

Idle == [kind |-> "full", pc |-> "idle", target |-> None, valid |-> {},
         vanished |-> {}, at |-> 0, partial |-> FALSE, failed |-> FALSE, todo |-> {},
         book |-> None, hash |-> 0, existing |-> None]

TypeOK ==
    /\ disk \in [Folders -> 0..MaxChanges]
    /\ mounted \in BOOLEAN /\ scanning \in BOOLEAN /\ rescan \in BOOLEAN
    /\ watching \in BOOLEAN /\ wanted \in BOOLEAN /\ missed \in BOOLEAN
    /\ rows \in [Folders -> Row \cup {None}]
    /\ scan \in [Scans -> Scan]
    /\ \A s \in Scans : scan[s].pc # "visit" => scan[s].todo \subseteq scan[s].valid
    /\ \A s \in Scans : (scan[s].pc = "tags") = (scan[s].book # None)
    /\ \A s \in Scans : (scan[s].kind = "path") = (scan[s].target # None)
    /\ changes \in 0..MaxChanges /\ edits \in 0..MaxEdits /\ faults \in 0..MaxFaults

\* The goroutine that main starts, any of them.
Boot == CHOOSE s \in Scans : TRUE

\* The server starts: the initial scan is about to begin, of a disk where
\* anything may have changed while it was down.
Init ==
    /\ disk \in [Folders -> {0, 1}]
    /\ mounted = TRUE
    /\ rows \in [Folders -> {None, [hash |-> 1, meta |-> "tags", locked |-> FALSE]}]
    /\ scanning = FALSE /\ rescan = FALSE
    /\ scan = [s \in Scans |->
                 IF s = Boot THEN [Idle EXCEPT !.kind = "boot", !.pc = "begin"] ELSE Idle]
    /\ watching = FALSE /\ wanted = FALSE /\ missed = TRUE
    /\ changes = 1 /\ edits = 0 /\ faults = 0

-----------------------------------------------------------------------------
(* The world around the scanner.                                           *)

\* Something goes wrong that need not have.
Fault == faults < MaxFaults /\ faults' = faults + 1

\* A folder becomes v.  The watcher arms its timer (trigger), unless it was
\* not told: a directory it could not add, a queue that overflowed.
Changed(f, v) ==
    /\ mounted /\ changes < MaxChanges
    /\ changes' = changes + 1
    /\ disk' = [disk EXCEPT ![f] = v]
    /\ \/ watching /\ wanted' = TRUE /\ UNCHANGED <<missed, faults>>
       \/ ~watching /\ missed' = TRUE /\ UNCHANGED <<wanted, faults>>
       \/ watching /\ Fault /\ missed' = TRUE /\ UNCHANGED wanted
    /\ UNCHANGED <<mounted, rows, scanning, rescan, watching, edits>>

\* A folder appears, changes or goes.
Change(f) ==
    /\ \/ Changed(f, changes + 1)
       \/ disk[f] # 0 /\ Changed(f, 0)
    /\ UNCHANGED scan

\* The share the library is on goes, and comes back.
Unmount ==
    /\ mounted /\ mounted' = FALSE /\ Fault
    /\ UNCHANGED <<disk, rows, scanning, rescan, scan, watching, wanted, missed, changes, edits>>

Mount ==
    /\ ~mounted /\ mounted' = TRUE
    /\ UNCHANGED <<disk, rows, scanning, rescan, scan, watching, wanted, missed, budget>>

\* updateBook: an admin edits a book's metadata, which locks it.
UpdateBook(f) ==
    /\ rows[f] # None /\ edits < MaxEdits
    /\ edits' = edits + 1
    /\ rows' = [rows EXCEPT ![f].meta = "edited", ![f].locked = TRUE]
    /\ UNCHANGED <<world, scanning, rescan, scan, watching, wanted, missed, faults>>

-----------------------------------------------------------------------------
(* Beginning and ending a scan.                                            *)

Targeted(s) == scan[s].kind = "path"

\* ScanLibrary returns: what called it at startup goes on to Watch.
Returned(s) ==
    /\ scan' = [scan EXCEPT ![s] = Idle]
    /\ watching' = (watching \/ scan[s].kind = "boot")

\* (Operators whose name starts with "Slip" are the mistakes the model checker
\* is asked to notice: no action uses them.)
SlipBusy(s) == scanning /\ scan[s].kind # "path"
SlipNote == rescan

\* beginScan: a call that finds the library claimed leaves the note for the
\* scan that has it to repeat, and returns; otherwise it claims the library.
Busy(s) == scanning
Note == TRUE

BeginScan(s) ==
    /\ scan[s].pc = "begin"
    /\ IF Busy(s)
       THEN Returned(s) /\ rescan' = Note /\ UNCHANGED scanning
       ELSE /\ scanning' = TRUE
            /\ scan' = [scan EXCEPT ![s].pc = "walk"]
            /\ UNCHANGED <<rescan, watching>>
    /\ UNCHANGED <<world, rows, wanted, missed, edits, faults>>

\* checkRoot comes first in ScanPath: if it fails, the upload's hook asks for a
\* full scan instead.
PathRefused(s) ==
    /\ scan[s].pc = "begin" /\ scan[s].kind = "path"
    /\ (~mounted /\ UNCHANGED faults) \/ (mounted /\ Fault)
    /\ scan' = [scan EXCEPT ![s] = [Idle EXCEPT !.pc = "begin"]]
    /\ UNCHANGED <<world, rows, scanning, rescan, watching, wanted, missed, edits>>

Called(s, kind, target) ==
    /\ scan[s].pc = "idle"
    /\ scan' = [scan EXCEPT ![s] =
                  [Idle EXCEPT !.kind = kind, !.target = target, !.pc = "begin"]]

\* The twelve-hourly ScanAll, POST /libraries/{id}/scan.
CallScanLibrary(s) ==
    /\ watching /\ Called(s, "full", None)
    /\ UNCHANGED <<world, rows, scanning, rescan, watching, wanted, missed, edits, faults>>

\* The debounce timer fires and the event loop starts a scan.
RunScan(s) ==
    /\ wanted /\ wanted' = FALSE
    /\ Called(s, "full", None)
    /\ UNCHANGED <<world, rows, scanning, rescan, watching, missed, edits, faults>>

\* An upload puts its file into f and calls ScanPath.
Upload(s, f) == Changed(f, changes + 1) /\ Called(s, "path", f)

\* What endScan leaves of the claim.
SlipClaim(s) == scan[s].failed
Claim(s) == FALSE

\* endScan releases the library and takes the note.  A full scan that was
\* asked to goes again; a targeted one that failed falls back to a full one
\* (the upload's hook).  Anything else leaves with the note.
EndScan(s) ==
    LET again == ~Targeted(s) /\ rescan /\ ~scan[s].failed
        fallback == Targeted(s) /\ scan[s].failed
    IN  /\ scan[s].pc = "end"
        /\ scanning' = Claim(s)
        /\ rescan' = FALSE
        /\ IF again \/ fallback
           THEN /\ scan' = [scan EXCEPT ![s] =
                  [Idle EXCEPT !.pc = "begin",
                     !.kind = IF fallback THEN "full" ELSE scan[s].kind]]
                /\ UNCHANGED watching
           ELSE Returned(s)
        /\ missed' = (missed \/ scan[s].failed \/ (rescan /\ ~again))
        /\ UNCHANGED <<world, rows, wanted, edits, faults>>

-----------------------------------------------------------------------------
(* A scan, from walk to end.                                               *)

Present == {f \in Folders : disk[f] # 0}

\* scanOnce returns, and what it found is forgotten.
Ended(s, failed) ==
    scan' = [scan EXCEPT ![s] = [Idle EXCEPT !.kind = scan[s].kind, !.pc = "end",
                                   !.target = scan[s].target, !.failed = failed]]

\* checkRoot and the walk's root: one that is not there or cannot be read fails
\* the scan.  The root of a targeted scan is its target.
WalkFails(s) ==
    /\ scan[s].pc = "walk"
    /\ IF mounted /\ (Targeted(s) => disk[scan[s].target] # 0)
       THEN Fault ELSE UNCHANGED faults
    /\ Ended(s, TRUE)
    /\ UNCHANGED <<world, rows, scanning, rescan, watching, wanted, missed, edits>>

\* The root is read, and the walk goes into one folder of it after another.
Walk(s) ==
    /\ scan[s].pc = "walk" /\ mounted
    /\ IF Targeted(s)
       THEN /\ disk[scan[s].target] # 0
            /\ scan' = [scan EXCEPT ![s].pc = "books", ![s].at = changes,
                           ![s].valid = {scan[s].target}, ![s].todo = {scan[s].target}]
            /\ UNCHANGED missed
       ELSE /\ scan' = [scan EXCEPT ![s].pc = "visit", ![s].at = changes, ![s].valid = {},
                                    ![s].partial = FALSE, ![s].todo = Present]
            /\ missed' = FALSE
    /\ UNCHANGED <<world, rows, scanning, rescan, watching, wanted, edits, faults>>

There(f) == mounted /\ disk[f] # 0

\* A folder is read; one that is no longer there is passed over, and that is
\* what every folder looks like once the share is gone (IsNotExist); any other
\* error makes the walk partial.
Visit(s, f) ==
    /\ scan[s].pc = "visit" /\ f \in scan[s].todo
    /\ \/ /\ There(f) /\ UNCHANGED <<missed, faults>>
          /\ scan' = [scan EXCEPT ![s].todo = @ \ {f}, ![s].valid = @ \cup {f}]
       \/ /\ mounted /\ ~There(f) /\ UNCHANGED <<missed, faults>>
          /\ scan' = [scan EXCEPT ![s].todo = @ \ {f}]
       \/ /\ ~mounted /\ missed' = TRUE /\ UNCHANGED faults
          /\ scan' = [scan EXCEPT ![s].todo = @ \ {f}, ![s].vanished = @ \cup {f}]
       \/ /\ (~mounted /\ UNCHANGED faults) \/ (There(f) /\ Fault)
          /\ missed' = TRUE
          /\ scan' = [scan EXCEPT ![s].todo = @ \ {f}, ![s].partial = TRUE]
    /\ UNCHANGED <<world, rows, scanning, rescan, watching, wanted, edits>>

\* groupBooks: what the walk found is to be processed.
Group(s) ==
    /\ scan[s].pc = "visit" /\ scan[s].todo = {}
    /\ scan' = [scan EXCEPT ![s].pc = "books", ![s].todo = scan[s].valid]
    /\ UNCHANGED <<world, rows, scanning, rescan, watching, wanted, missed, edits, faults>>

\* One group is done with.
SlipDone(s, f) == [scan EXCEPT ![s].pc = "books", ![s].todo = @ \ {f}]

Done(s, f) == [scan EXCEPT ![s].pc = "books", ![s].todo = @ \ {f},
                            ![s].book = None, ![s].hash = 0, ![s].existing = None]

\* processBookGroup up to the comparison of hashes.
ReadBook(s, f) ==
    /\ scan[s].pc = "books" /\ f \in scan[s].todo
    /\ There(f)
    /\ scan' = IF rows[f] # None /\ rows[f].hash = disk[f] THEN Done(s, f)
               ELSE [scan EXCEPT ![s].pc = "tags", ![s].book = f,
                                 ![s].hash = disk[f], ![s].existing = rows[f]]
    /\ UNCHANGED <<world, rows, scanning, rescan, watching, wanted, missed, edits, faults>>

\* upsertBookAndChildren, by the row as it was read.
Refreshed(row, existing, hash) ==
    IF row = None THEN [hash |-> hash, meta |-> "tags", locked |-> FALSE]
    ELSE IF existing.locked THEN [row EXCEPT !.hash = hash]
    ELSE [row EXCEPT !.hash = hash, !.meta = "tags"]

WriteBook(s) ==
    LET f == scan[s].book
    IN  /\ scan[s].pc = "tags"
        /\ (rows[f] = None) = (scan[s].existing = None)
        /\ rows' = [rows EXCEPT ![f] = Refreshed(@, scan[s].existing, scan[s].hash)]
        /\ scan' = Done(s, f)
        /\ UNCHANGED <<world, scanning, rescan, watching, wanted, missed, edits, faults>>

\* One book fails, the scan goes on: its files are gone (for which the watcher
\* has armed its timer), its root is, or it cannot be read or written.
BookFails(s, f) ==
    /\ \/ scan[s].pc = "books" /\ f \in scan[s].todo
       \/ scan[s].pc = "tags" /\ f = scan[s].book
    /\ IF There(f)
       THEN Fault /\ missed' = TRUE
       ELSE UNCHANGED faults /\ missed' = (missed \/ ~mounted)
    /\ scan' = Done(s, f)
    /\ UNCHANGED <<world, rows, scanning, rescan, watching, wanted, edits>>

\* removeStale, unless the walk was partial: books whose folder it did not
\* find go, and their progress and bookmarks with them.
SlipMayRemove(s) == ~Targeted(s)

MayRemove(s) == ~Targeted(s) /\ ~scan[s].partial

\* Its error is only logged: the scan succeeds, and the rows stay.
RemoveStale(s) ==
    /\ scan[s].pc = "books" /\ scan[s].todo = {}
    /\ \/ /\ MayRemove(s)
          /\ \/ /\ rows' = [f \in Folders |-> IF f \in scan[s].valid THEN rows[f] ELSE None]
                /\ UNCHANGED <<missed, faults>>
             \/ Fault /\ missed' = TRUE /\ UNCHANGED rows
       \/ ~MayRemove(s) /\ UNCHANGED <<rows, missed, faults>>
    /\ Ended(s, FALSE)
    /\ UNCHANGED <<world, scanning, rescan, watching, wanted, edits>>

Work(s) ==
    \/ BeginScan(s) \/ PathRefused(s) \/ Walk(s) \/ WalkFails(s) \/ Group(s)
    \/ WriteBook(s) \/ RemoveStale(s) \/ EndScan(s)
    \/ \E f \in Folders : Visit(s, f) \/ ReadBook(s, f) \/ BookFails(s, f)

Next ==
    \/ \E f \in Folders : Change(f) \/ UpdateBook(f)
    \/ Unmount \/ Mount
    \/ \E s \in Scans :
         \/ Work(s) \/ CallScanLibrary(s) \/ RunScan(s)
         \/ \E f \in Folders : Upload(s, f)

\* Goroutines run, the ticker of Watch ticks; the share comes back.
Fairness ==
    /\ \A s \in Scans : WF_vars(Work(s))
    /\ WF_vars(\E s \in Scans : CallScanLibrary(s))
    /\ WF_vars(Mount)

Spec == Init /\ [][Next]_vars /\ Fairness

-----------------------------------------------------------------------------
(* Properties.                                                             *)

Working(s) == scan[s].pc \in {"walk", "visit", "books", "tags", "end"}

\* Full and targeted scans of a library never overlap, however calls, repeats
\* and fallbacks interleave, and the library is released after each
\* (beginScan, endScan).
OneScanAtATime ==
    \A s \in Scans : Working(s) =>
        scanning /\ \A t \in Scans \ {s} : ~Working(t)

Reconciled ==
    \A f \in Folders :
        IF disk[f] = 0 THEN rows[f] = None
        ELSE rows[f] # None /\ rows[f].hash = disk[f]

\* "No filesystem change is lost" (beginScan): when no scan is running, about
\* to, or asked for, the books are those on the disk, whatever changed while
\* a scan was under way.  As long as nothing was passed over for good: a
\* change before Watch runs or that the watcher was not told of, a folder, a
\* book, a removal or a scan that failed, and the note left to a targeted scan
\* or to one that fails, which throws it away (against beginScan's words).
NoChangeLost ==
    (\A s \in Scans : scan[s].pc = "idle") /\ ~wanted /\ ~missed => Reconciled

\* A book, and everybody's progress in it, is only removed when its folder
\* really was not there when the walk came to it: not for a missing root, an
\* unreadable folder, a failing book or a targeted scan (ErrRootUnavailable,
\* partial).  Except in a share that went away under the walk, whose folders
\* all look gone and leave the walk complete (IsNotExist).
RemovedOnlyIfGone ==
    [][\A f \in Folders : rows[f] # None /\ rows'[f] = None =>
         \/ disk[f] = 0
         \/ \E s \in Scans : /\ scan[s].pc = "books"
                             /\ (disk[f] > scan[s].at \/ f \in scan[s].vanished)]_vars

\* Whatever was passed over, the next scans make good (the twelve-hourly
\* ScanAll).
EventuallyReconciled == []<>Reconciled

\* "The scanner's tag-derived rescans do not overwrite the edit" (updateBook,
\* book_edit.go:39).  It fails: the scanner decides by the lock it read before
\* it worked on the files.
EditsSurvive ==
    \A f \in Folders : rows[f] # None /\ rows[f].locked => rows[f].meta = "edited"
=============================================================================
