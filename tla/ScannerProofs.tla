--------------------------- MODULE ScannerProofs ---------------------------
(***************************************************************************)
(* Theorems about Scanner, for any number of folders and of scanning       *)
(* goroutines, any bounds and any assumption on fairness: scans exclude    *)
(* one another, only what is gone is removed, and no change is lost.       *)
(***************************************************************************)
EXTENDS Scanner, TLAPS

-----------------------------------------------------------------------------
(* Type correctness.                                                       *)

\* What goes wrong stays within the bound of the model.
LEMMA FaultCounted ==
  ASSUME faults \in 0..MaxFaults, Fault
  PROVE  faults' \in 0..MaxFaults
  BY ScannerAssumption DEF Fault

\* What a scan writes is a row.
LEMMA RefreshedRow ==
  ASSUME NEW row \in Row \cup {None}, NEW existing \in Row \cup {None},
         NEW hash \in Nat, (row = None) = (existing = None)
  PROVE  Refreshed(row, existing, hash) \in Row
  BY DEF Refreshed, Row

\* One goroutine's scan is well-formed.
WellFormed(c) ==
    /\ c \in Scan
    /\ c.pc # "visit" => c.todo \subseteq c.valid
    /\ (c.pc = "tags") = (c.book # None)
    /\ (c.kind = "path") = (c.target # None)

Scanners == scan \in [Scans -> Scan] /\ \A t \in Scans : WellFormed(scan[t])

LEMMA TypeOKScanners == TypeOK => Scanners
  BY DEF TypeOK, Scanners, WellFormed

\* A step of one goroutine leaves all scans well-formed if it leaves its own.
LEMMA OneChanges ==
  ASSUME Scanners, NEW s \in Scans, NEW c, WellFormed(c),
         scan' = [scan EXCEPT ![s] = c]
  PROVE  Scanners'
  BY DEF Scanners, WellFormed

LEMMA IdleWellFormed ==
  ASSUME NEW kind \in {"boot", "full", "path"}, NEW target \in Folders \cup {None},
         NEW pc \in {"idle", "begin"}, (kind = "path") = (target # None)
  PROVE  WellFormed([Idle EXCEPT !.kind = kind, !.target = target, !.pc = pc])
  BY DEF Idle, Scan, WellFormed

LEMMA EndedWellFormed ==
  ASSUME Scanners, NEW s \in Scans, NEW failed \in BOOLEAN, Ended(s, failed)
  PROVE  Scanners'
  <1> DEFINE k == scan[s].kind
             g == scan[s].target
             c == [Idle EXCEPT !.kind = k, !.pc = "end", !.target = g, !.failed = failed]
  <1>1. /\ k \in {"boot", "full", "path"} /\ g \in Folders \cup {None}
        /\ (k = "path") = (g # None)
    BY DEF Scanners, WellFormed, Scan
  <1>2. WellFormed(c)
    <2> HIDE DEF k, g
    <2> QED
      BY <1>1 DEF Idle, Scan, WellFormed
  <1>3. scan' = [scan EXCEPT ![s] = c]
    BY DEF Ended
  <1> QED
    BY <1>2, <1>3, OneChanges

\* What reading a folder does to a scan.
LEMMA VisitIs ==
  ASSUME Scanners, NEW s \in Scans, NEW f \in Folders, Visit(s, f)
  PROVE  LET Cell(v, w, p) == [scan[s] EXCEPT !.todo = @ \ {f}, !.valid = v,
                                             !.vanished = w, !.partial = p]
             c == scan[s]
         IN  \/ scan' = [scan EXCEPT ![s] = Cell(c.valid \cup {f}, c.vanished, c.partial)]
             \/ scan' = [scan EXCEPT ![s] = Cell(c.valid, c.vanished, c.partial)]
             \/ scan' = [scan EXCEPT ![s] = Cell(c.valid, c.vanished \cup {f}, c.partial)]
             \/ scan' = [scan EXCEPT ![s] = Cell(c.valid, c.vanished, TRUE)]
  <1> DEFINE Cell(v, w, p) == [scan[s] EXCEPT !.todo = @ \ {f}, !.valid = v,
                                             !.vanished = w, !.partial = p]
             c == scan[s]
  <1>1. scan[s] \in Scan /\ scan \in [Scans -> Scan]
    BY DEF Scanners
  <1>2. CASE scan' = [scan EXCEPT ![s].todo = @ \ {f}, ![s].valid = @ \cup {f}]
    <2>1. scan' = [scan EXCEPT ![s] = Cell(c.valid \cup {f}, c.vanished, c.partial)]
      BY <1>1, <1>2 DEF Scan
    <2> QED
      BY <2>1
  <1>3. CASE scan' = [scan EXCEPT ![s].todo = @ \ {f}]
    <2>1. scan' = [scan EXCEPT ![s] = Cell(c.valid, c.vanished, c.partial)]
      BY <1>1, <1>3 DEF Scan
    <2> QED
      BY <2>1
  <1>4. CASE scan' = [scan EXCEPT ![s].todo = @ \ {f}, ![s].vanished = @ \cup {f}]
    <2>1. scan' = [scan EXCEPT ![s] = Cell(c.valid, c.vanished \cup {f}, c.partial)]
      BY <1>1, <1>4 DEF Scan
    <2> QED
      BY <2>1
  <1>5. CASE scan' = [scan EXCEPT ![s].todo = @ \ {f}, ![s].partial = TRUE]
    <2>1. scan' = [scan EXCEPT ![s] = Cell(c.valid, c.vanished, TRUE)]
      BY <1>1, <1>5 DEF Scan
    <2> QED
      BY <2>1
  <1> QED
    BY <1>2, <1>3, <1>4, <1>5, Zenon DEF Visit

LEMMA DoneWellFormed ==
  ASSUME Scanners, NEW s \in Scans, NEW f \in Folders, scan' = Done(s, f),
         scan[s].pc # "visit"
  PROVE  Scanners'
  <1> DEFINE c == [scan[s] EXCEPT !.pc = "books", !.todo = @ \ {f},
                                  !.book = None, !.hash = 0, !.existing = None]
  <1>1. scan[s] \in Scan /\ WellFormed(scan[s])
    BY DEF Scanners
  <1>2. c \in Scan
    BY <1>1 DEF Scan
  <1>3. WellFormed(c)
    <2>1. /\ c.pc = "books" /\ c.todo = scan[s].todo \ {f} /\ c.book = None
          /\ c.valid = scan[s].valid
          /\ c.kind = scan[s].kind /\ c.target = scan[s].target
      BY <1>1 DEF Scan
    <2> HIDE DEF c
    <2> QED
      BY <1>1, <1>2, <2>1 DEF WellFormed
  <1>4. scan' = [scan EXCEPT ![s] = c]
    BY DEF Done, Scanners
  <1> QED
    BY <1>3, <1>4, OneChanges

\* The rest of TypeOK: the flags, and the disk, the rows and the budgets.
Flags ==
    /\ mounted \in BOOLEAN /\ scanning \in BOOLEAN /\ rescan \in BOOLEAN
    /\ watching \in BOOLEAN /\ wanted \in BOOLEAN /\ missed \in BOOLEAN

Tables ==
    /\ disk \in [Folders -> 0..MaxChanges]
    /\ rows \in [Folders -> Row \cup {None}]
    /\ changes \in 0..MaxChanges /\ edits \in 0..MaxEdits /\ faults \in 0..MaxFaults

LEMMA TypeOKParts == TypeOK <=> Flags /\ Tables /\ Scanners
  BY DEF TypeOK, Flags, Tables, Scanners, WellFormed

LEMMA TypeOKInit == Init => TypeOK
  <1> SUFFICES ASSUME Init PROVE TypeOK
    OBVIOUS
  <1>1. Flags
    BY DEF Init, Flags
  <1>5. Tables
    <2>1. 0 \in 0..MaxChanges /\ 1 \in 0..MaxChanges /\ 0 \in 0..MaxEdits /\ 0 \in 0..MaxFaults
      BY ScannerAssumption
    <2>2. [hash |-> 1, meta |-> "tags", locked |-> FALSE] \in Row
      BY DEF Row
    <2>3. disk \in [Folders -> {0, 1}] /\ changes = 1 /\ edits = 0 /\ faults = 0
      BY DEF Init
    <2>4. rows \in [Folders -> {None, [hash |-> 1, meta |-> "tags", locked |-> FALSE]}]
      BY DEF Init
    <2>5. disk \in [Folders -> 0..MaxChanges]
      BY <2>1, <2>3
    <2>6. rows \in [Folders -> Row \cup {None}]
      BY <2>2, <2>4
    <2> QED
      BY <2>1, <2>3, <2>5, <2>6 DEF Tables
  <1>2. scan = [s \in Scans |->
                  IF s = Boot THEN [Idle EXCEPT !.kind = "boot", !.pc = "begin"] ELSE Idle]
    BY DEF Init
  <1>3. WellFormed(Idle) /\ WellFormed([Idle EXCEPT !.kind = "boot", !.pc = "begin"])
    BY DEF WellFormed, Idle, Scan
  <1>4. Scanners
    BY <1>2, <1>3 DEF Scanners, WellFormed
  <1> QED
    BY <1>1, <1>4, <1>5, TypeOKParts

\* A scan's own steps set a flag only to a truth value.
LEMMA FlagsStep == TypeOK /\ [Next]_vars => Flags'
  <1> SUFFICES ASSUME TypeOK, [Next]_vars PROVE Flags'
    OBVIOUS
  <1>0. Flags
    BY TypeOKParts
  <1>1. ASSUME NEW f \in Folders, NEW v, Changed(f, v) PROVE Flags'
    BY <1>0, <1>1, Zenon DEF Changed, Fault, Flags
  <1>2. ASSUME NEW f \in Folders, UpdateBook(f) PROVE Flags'
    BY <1>0, <1>2, Zenon DEF UpdateBook, Flags, world
  <1>3. CASE Unmount \/ Mount
    BY <1>0, <1>3, Zenon DEF Unmount, Mount, Fault, Flags, budget
  <1>4. ASSUME NEW s \in Scans, BeginScan(s) \/ CallScanLibrary(s) \/ RunScan(s)
        PROVE  Flags'
    BY <1>0, <1>4, Zenon
       DEF BeginScan, CallScanLibrary, RunScan, Returned, Note, Flags, world
  <1>5. ASSUME NEW s \in Scans, EndScan(s) PROVE Flags'
    BY <1>0, <1>5, Zenon DEF EndScan, Returned, Claim, Flags, world
  <1>6. ASSUME NEW s \in Scans, Walk(s) \/ RemoveStale(s) PROVE Flags'
    <2>1. missed' = missed \/ missed' = FALSE \/ missed' = TRUE
      BY <1>6, Zenon DEF Walk, RemoveStale
    <2> QED
      BY <1>0, <1>6, <2>1, Zenon DEF Walk, RemoveStale, Flags, world
  <1>7. ASSUME NEW s \in Scans, NEW f \in Folders, BookFails(s, f) \/ Visit(s, f)
        PROVE  Flags'
    BY <1>0, <1>7, Zenon DEF BookFails, Visit, Flags, world
  <1>8. ASSUME NEW s \in Scans,
               \/ PathRefused(s) \/ WalkFails(s) \/ Group(s) \/ WriteBook(s)
               \/ \E f \in Folders : ReadBook(s, f)
        PROVE  Flags'
    <2>1. UNCHANGED <<mounted, scanning, rescan, watching, wanted, missed>>
      BY <1>8 DEF PathRefused, WalkFails, Group, ReadBook, WriteBook, world
    <2> QED
      BY <1>0, <2>1, Zenon DEF Flags
  <1>9. CASE UNCHANGED vars
    BY <1>0, <1>9, Zenon DEF vars, Flags
  <1> QED
    BY <1>1, <1>2, <1>3, <1>4, <1>5, <1>6, <1>7, <1>8, <1>9
       DEF Next, Work, Change, Upload

\* The disk, the rows and the budgets stay within their types.
LEMMA TablesStep == TypeOK /\ [Next]_vars => Tables'
  <1> SUFFICES ASSUME TypeOK, [Next]_vars PROVE Tables'
    OBVIOUS
  <1>0. Tables /\ Scanners
    BY TypeOKParts
  <1>1. ASSUME NEW f \in Folders, Changed(f, 0) \/ Changed(f, changes + 1)
        PROVE  Tables'
    <2>1. changes' \in 0..MaxChanges /\ 0 \in 0..MaxChanges /\ changes' = changes + 1
      BY <1>0, <1>1, ScannerAssumption DEF Changed, Tables
    <2>2. disk' \in [Folders -> 0..MaxChanges]
      BY <1>0, <1>1, <2>1 DEF Changed, Tables
    <2>3. faults' \in 0..MaxFaults
      BY <1>0, <1>1, FaultCounted DEF Changed, Tables
    <2> QED
      BY <1>0, <1>1, <2>1, <2>2, <2>3 DEF Changed, Tables
  <1>2. ASSUME NEW f \in Folders, UpdateBook(f) PROVE Tables'
    <2>1. rows[f] \in Row
      BY <1>0, <1>2 DEF UpdateBook, Tables
    <2>2. [rows[f] EXCEPT !.meta = "edited", !.locked = TRUE] \in Row
      BY <2>1 DEF Row
    <2>3. rows' = [rows EXCEPT ![f] = [rows[f] EXCEPT !.meta = "edited", !.locked = TRUE]]
      BY <1>0, <1>2, Zenon DEF UpdateBook, Tables
    <2>4. rows' \in [Folders -> Row \cup {None}]
      BY <1>0, <2>2, <2>3 DEF Tables
    <2>5. edits' \in 0..MaxEdits
      BY <1>0, <1>2, ScannerAssumption DEF UpdateBook, Tables
    <2> QED
      BY <1>0, <1>2, <2>4, <2>5 DEF UpdateBook, Tables, world
  <1>3. CASE Unmount
    <2>1. faults' \in 0..MaxFaults
      BY <1>0, <1>3, FaultCounted DEF Unmount, Tables
    <2> QED
      BY <1>0, <1>3, <2>1 DEF Unmount, Tables
  <1>4. CASE Mount
    BY <1>0, <1>4 DEF Mount, Tables, budget
  <1>5. ASSUME NEW s \in Scans,
               \/ BeginScan(s) \/ EndScan(s) \/ CallScanLibrary(s) \/ RunScan(s)
               \/ Walk(s) \/ Group(s) \/ \E f \in Folders : ReadBook(s, f)
        PROVE  Tables'
    <2>1. UNCHANGED <<disk, rows, changes, edits, faults>>
      BY <1>5, Zenon DEF BeginScan, EndScan, CallScanLibrary, RunScan, Walk, Group,
                         ReadBook, world
    <2> QED
      BY <1>0, <2>1 DEF Tables
  <1>6. ASSUME NEW s \in Scans,
               \/ PathRefused(s) \/ WalkFails(s)
               \/ \E f \in Folders : Visit(s, f) \/ BookFails(s, f)
        PROVE  Tables'
    <2>1. UNCHANGED <<disk, rows, changes, edits>>
      BY <1>6, Zenon DEF PathRefused, WalkFails, Visit, BookFails, world
    <2>2. faults' = faults \/ Fault
      BY <1>6, Zenon DEF PathRefused, WalkFails, Visit, BookFails
    <2>3. faults' \in 0..MaxFaults
      BY <1>0, <2>2, FaultCounted DEF Tables
    <2> QED
      BY <1>0, <2>1, <2>3 DEF Tables
  <1>8. ASSUME NEW s \in Scans, WriteBook(s) PROVE Tables'
    <2>1. WellFormed(scan[s])
      BY <1>0 DEF Scanners
    <2>2. scan[s].book \in Folders
      BY <1>8, <2>1 DEF WriteBook, WellFormed, Scan
    <2>3. rows[scan[s].book] \in Row \cup {None}
      BY <1>0, <2>2 DEF Tables
    <2>4. scan[s].existing \in Row \cup {None} /\ scan[s].hash \in Nat
      BY <2>1 DEF WellFormed, Scan
    <2>5. Refreshed(rows[scan[s].book], scan[s].existing, scan[s].hash) \in Row
      BY <1>8, <2>3, <2>4, RefreshedRow DEF WriteBook
    <2>6. rows' = [rows EXCEPT ![scan[s].book] =
                    Refreshed(rows[scan[s].book], scan[s].existing, scan[s].hash)]
      BY <1>8, Zenon DEF WriteBook
    <2>7. rows' \in [Folders -> Row \cup {None}]
      BY <1>0, <2>5, <2>6 DEF Tables
    <2>8. UNCHANGED <<disk, changes, edits, faults>>
      BY <1>8, Zenon DEF WriteBook, world
    <2> QED
      BY <1>0, <2>7, <2>8 DEF Tables
  <1>9. ASSUME NEW s \in Scans, RemoveStale(s) PROVE Tables'
    <2>1. rows' \in [Folders -> Row \cup {None}]
      BY <1>0, <1>9 DEF RemoveStale, Tables
    <2>2. UNCHANGED <<disk, changes, edits>>
      BY <1>9, Zenon DEF RemoveStale, world
    <2>3. faults' = faults \/ Fault
      BY <1>9, Zenon DEF RemoveStale
    <2>4. faults' \in 0..MaxFaults
      BY <1>0, <2>3, FaultCounted DEF Tables
    <2> QED
      BY <1>0, <2>1, <2>2, <2>4 DEF Tables
  <1>10. CASE UNCHANGED vars
    BY <1>0, <1>10 DEF vars, Tables
  <1> QED
    BY <1>1, <1>2, <1>3, <1>4, <1>5, <1>6, <1>8, <1>9, <1>10
       DEF Next, Work, Change, Upload

\* Every step of a goroutine leaves a well-formed scan.
LEMMA ScannersStep == TypeOK /\ [Next]_vars => Scanners'
  <1> SUFFICES ASSUME TypeOK, [Next]_vars PROVE Scanners'
    OBVIOUS
  <1>0. Tables /\ Scanners
    BY TypeOKParts
  <1>1. ASSUME NEW s \in Scans, NEW kind \in {"full", "path"},
               NEW target \in Folders \cup {None}, (kind = "path") = (target # None),
               Called(s, kind, target)
        PROVE  Scanners'
    <2> DEFINE c == [Idle EXCEPT !.kind = kind, !.target = target, !.pc = "begin"]
    <2>1. WellFormed(c)
      <3>1. kind \in {"boot", "full", "path"} /\ "begin" \in {"idle", "begin"}
        OBVIOUS
      <3> QED
        BY <1>1, <3>1, IdleWellFormed
    <2> QED
      BY <1>0, <1>1, <2>1, OneChanges DEF Called
  <1>2. ASSUME NEW s \in Scans, Returned(s) PROVE Scanners'
    <2>1. WellFormed(Idle)
      BY DEF Idle, WellFormed, Scan
    <2> QED
      BY <1>0, <1>2, <2>1, OneChanges DEF Returned
  <1>3. ASSUME NEW s \in Scans, BeginScan(s), ~Returned(s) PROVE Scanners'
    <2> DEFINE c == [scan[s] EXCEPT !.pc = "walk"]
    <2>1. WellFormed(c)
      BY <1>0, <1>3 DEF Scanners, BeginScan, WellFormed, Scan
    <2>2. scan' = [scan EXCEPT ![s] = c]
      BY <1>0, <1>3 DEF Scanners, BeginScan
    <2> QED
      BY <1>0, <2>1, <2>2, OneChanges
  <1>4. ASSUME NEW s \in Scans, EndScan(s), ~Returned(s) PROVE Scanners'
    <2> DEFINE k == IF Targeted(s) /\ scan[s].failed THEN "full" ELSE scan[s].kind
               c == [Idle EXCEPT !.pc = "begin", !.kind = k]
    <2>1. k \in {"boot", "full"}
      BY <1>0, <1>4, Zenon DEF Scanners, WellFormed, Scan, EndScan, Targeted
    <2>2. WellFormed(c)
      <3> HIDE DEF k
      <3> QED
        BY <2>1 DEF Idle, Scan, WellFormed
    <2>3. scan' = [scan EXCEPT ![s] = c]
      BY <1>4, Zenon DEF EndScan
    <2> QED
      BY <1>0, <2>2, <2>3, OneChanges
  <1>5. ASSUME NEW s \in Scans, WalkFails(s) \/ RemoveStale(s) PROVE Scanners'
    BY <1>0, <1>5, EndedWellFormed DEF WalkFails, RemoveStale
  <1>6. ASSUME NEW s \in Scans, Walk(s) PROVE Scanners'
    <2>0. /\ scan[s] \in Scan /\ scan[s].book = None
          /\ Present \in SUBSET Folders /\ changes \in Nat
      BY <1>0, <1>6 DEF Scanners, WellFormed, Walk, Present, Tables
    <2>1. CASE Targeted(s)
      <3> DEFINE v == {scan[s].target}
                 c == [scan[s] EXCEPT !.pc = "books", !.at = changes, !.valid = v, !.todo = v]
      <3>1. scan' = [scan EXCEPT ![s] = c]
        BY <1>0, <1>6, <2>1 DEF Walk, Scanners
      <3>2. scan[s].target \in Folders
        BY <1>0, <2>0, <2>1 DEF Scanners, WellFormed, Scan, Targeted
      <3>3. WellFormed(c)
        <4>1. v \in SUBSET Folders
          BY <3>2
        <4> HIDE DEF v
        <4>2. c \in Scan
          BY <2>0, <4>1 DEF Scan
        <4>3. /\ c.pc = "books" /\ c.todo = v /\ c.valid = v /\ c.book = None
              /\ c.kind = scan[s].kind /\ c.target = scan[s].target
          BY <2>0 DEF Scan
        <4>4. (scan[s].kind = "path") = (scan[s].target # None)
          BY <1>0 DEF Scanners, WellFormed
        <4> HIDE DEF c
        <4> QED
          BY <4>2, <4>3, <4>4 DEF WellFormed
      <3> QED
        BY <1>0, <3>1, <3>3, OneChanges
    <2>2. CASE ~Targeted(s)
      <3> DEFINE c == [scan[s] EXCEPT !.pc = "visit", !.at = changes, !.valid = {},
                                      !.partial = FALSE, !.todo = Present]
      <3>1. scan' = [scan EXCEPT ![s] = c]
        BY <1>0, <1>6, <2>2 DEF Walk, Scanners
      <3>2. WellFormed(c)
        <4>1. c \in Scan
          BY <2>0 DEF Scan
        <4>2. /\ c.pc = "visit" /\ c.book = None
              /\ c.kind = scan[s].kind /\ c.target = scan[s].target
          BY <2>0 DEF Scan
        <4>3. (scan[s].kind = "path") = (scan[s].target # None)
          BY <1>0 DEF Scanners, WellFormed
        <4> HIDE DEF c
        <4> QED
          BY <4>1, <4>2, <4>3 DEF WellFormed
      <3> QED
        BY <1>0, <3>1, <3>2, OneChanges
    <2> QED
      BY <2>1, <2>2
  <1>7. ASSUME NEW s \in Scans, NEW f \in Folders, ReadBook(s, f), scan' # Done(s, f)
        PROVE  Scanners'
    <2> DEFINE c == [scan[s] EXCEPT !.pc = "tags", !.book = f, !.hash = disk[f],
                                    !.existing = rows[f]]
    <2>1. disk[f] \in Nat /\ rows[f] \in Row \cup {None} /\ f # None
      BY <1>0, ScannerAssumption DEF Tables
    <2>2. scan[s] \in Scan /\ WellFormed(scan[s]) /\ scan[s].pc = "books"
      BY <1>0, <1>7, Zenon DEF Scanners, WellFormed, ReadBook
    <2>3. WellFormed(c)
      <3>1. c \in Scan
        BY <2>1, <2>2 DEF Scan
      <3>2. /\ c.pc = "tags" /\ c.book = f /\ c.todo = scan[s].todo
            /\ c.valid = scan[s].valid
            /\ c.kind = scan[s].kind /\ c.target = scan[s].target
        BY <2>2 DEF Scan
      <3> HIDE DEF c
      <3> QED
        BY <2>1, <2>2, <3>1, <3>2 DEF WellFormed
    <2>4. scan' = [scan EXCEPT ![s] = c]
      BY <1>0, <1>7 DEF Scanners, ReadBook
    <2> QED
      BY <1>0, <2>3, <2>4, OneChanges
  <1>8. ASSUME NEW s \in Scans, NEW f \in Folders, scan' = Done(s, f),
               scan[s].pc # "visit"
        PROVE  Scanners'
    BY <1>0, <1>8, DoneWellFormed
  <1>9. ASSUME NEW s \in Scans, WriteBook(s) PROVE Scanners'
    <2>1. scan[s].book \in Folders
      BY <1>0, <1>9 DEF WriteBook, Scanners, WellFormed, Scan
    <2> QED
      BY <1>8, <1>9, <2>1 DEF WriteBook
  <1>10. ASSUME NEW s \in Scans, PathRefused(s) \/ Group(s) PROVE Scanners'
    <2>1. CASE PathRefused(s)
      <3>1. WellFormed([Idle EXCEPT !.pc = "begin"])
        BY DEF Idle, Scan, WellFormed
      <3> QED
        BY <1>0, <2>1, <3>1, OneChanges DEF PathRefused
    <2>2. CASE Group(s)
      <3> DEFINE c == [scan[s] EXCEPT !.pc = "books", !.todo = scan[s].valid]
      <3>1. WellFormed(c)
        BY <1>0, <2>2, ZenonT(60) DEF Scanners, Group, WellFormed, Scan
      <3>2. scan' = [scan EXCEPT ![s] = c]
        BY <1>0, <2>2 DEF Scanners, Group
      <3> QED
        BY <1>0, <3>1, <3>2, OneChanges
    <2> QED
      BY <1>10, <2>1, <2>2
  <1>13. ASSUME NEW s \in Scans, NEW f \in Folders, Visit(s, f) PROVE Scanners'
    <2> DEFINE Cell(v, w, p) == [scan[s] EXCEPT !.todo = @ \ {f}, !.valid = v,
                                               !.vanished = w, !.partial = p]
    <2>1. scan[s] \in Scan /\ WellFormed(scan[s]) /\ scan[s].pc = "visit"
      BY <1>0, <1>13 DEF Scanners, Visit
    <2>2. ASSUME NEW v \in SUBSET Folders, NEW w \in SUBSET Folders, NEW p \in BOOLEAN
          PROVE  WellFormed(Cell(v, w, p))
      BY <2>1, <2>2 DEF WellFormed, Scan
    <2>3. /\ scan[s].valid \cup {f} \in SUBSET Folders
          /\ scan[s].vanished \cup {f} \in SUBSET Folders
          /\ scan[s].valid \in SUBSET Folders /\ scan[s].vanished \in SUBSET Folders
          /\ scan[s].partial \in BOOLEAN
      BY <2>1 DEF Scan
    <2>4. \/ scan' = [scan EXCEPT ![s] = Cell(scan[s].valid \cup {f}, scan[s].vanished, scan[s].partial)]
          \/ scan' = [scan EXCEPT ![s] = Cell(scan[s].valid, scan[s].vanished, scan[s].partial)]
          \/ scan' = [scan EXCEPT ![s] = Cell(scan[s].valid, scan[s].vanished \cup {f}, scan[s].partial)]
          \/ scan' = [scan EXCEPT ![s] = Cell(scan[s].valid, scan[s].vanished, TRUE)]
      BY <1>0, <1>13, VisitIs
    <2> HIDE DEF Cell
    <2> QED
      BY <1>0, <2>2, <2>3, <2>4, OneChanges
  <1>11. CASE UNCHANGED scan
    BY <1>0, <1>11 DEF Scanners, WellFormed
  <1>12. ASSUME NEW s \in Scans,
                Work(s) \/ CallScanLibrary(s) \/ RunScan(s)
                \/ \E f \in Folders : Upload(s, f)
         PROVE  Scanners'
    <2>1. ASSUME NEW f \in Folders, Visit(s, f) \/ ReadBook(s, f) \/ BookFails(s, f)
          PROVE  Scanners'
      BY <1>7, <1>8, <1>13, <2>1 DEF ReadBook, BookFails
    <2>2. CASE CallScanLibrary(s) \/ RunScan(s)
      BY <1>1, <2>2 DEF CallScanLibrary, RunScan
    <2>3. ASSUME NEW f \in Folders, Upload(s, f) PROVE Scanners'
      <3>1. f # None
        BY ScannerAssumption
      <3> QED
        BY <1>1, <2>3, <3>1 DEF Upload
    <2> QED
      BY <1>2, <1>3, <1>4, <1>5, <1>6, <1>9, <1>10, <1>12, <2>1, <2>2, <2>3 DEF Work
  <1> QED
    BY <1>11, <1>12, Zenon DEF Next, Change, UpdateBook, Unmount, Mount, vars

\* TypeOK of Scanner: every reachable state is type-correct, and a goroutine
\* has a book in hand exactly while it works on one.
THEOREM TypeCorrect == Spec => []TypeOK
  <1>1. TypeOK /\ [Next]_vars => TypeOK'
    <2> SUFFICES ASSUME TypeOK, [Next]_vars PROVE TypeOK'
      OBVIOUS
    <2>1. Flags' /\ Tables' /\ Scanners'
      BY FlagsStep, TablesStep, ScannersStep
    <2> QED
      BY <2>1 DEF TypeOK, Flags, Tables, Scanners, WellFormed
  <1> QED
    BY <1>1, TypeOKInit, PTL DEF Spec

-----------------------------------------------------------------------------
(* What the steps of a scan do to it, and that they leave the others alone. *)

LEMMA ScanOf ==
  ASSUME Scanners, NEW s \in Scans, NEW c, scan' = [scan EXCEPT ![s] = c]
  PROVE  scan'[s] = c /\ \A t \in Scans \ {s} : scan'[t] = scan[t]
  BY DEF Scanners

LEMMA DoneIs ==
  ASSUME Scanners, NEW s \in Scans, NEW f \in Folders, scan' = Done(s, f)
  PROVE  /\ \A t \in Scans \ {s} : scan'[t] = scan[t]
         /\ scan'[s].pc = "books" /\ scan'[s].todo = scan[s].todo \ {f}
         /\ scan'[s].kind = scan[s].kind /\ scan'[s].valid = scan[s].valid
         /\ scan'[s].partial = scan[s].partial /\ scan'[s].failed = scan[s].failed
         /\ scan'[s].at = scan[s].at /\ scan'[s].vanished = scan[s].vanished
  <1> DEFINE c == [scan[s] EXCEPT !.pc = "books", !.todo = @ \ {f},
                                  !.book = None, !.hash = 0, !.existing = None]
  <1>1. scan[s] \in Scan
    BY DEF Scanners
  <1>2. scan' = [scan EXCEPT ![s] = c]
    BY DEF Done, Scanners
  <1>3. /\ c.pc = "books" /\ c.todo = scan[s].todo \ {f} /\ c.kind = scan[s].kind
        /\ c.valid = scan[s].valid /\ c.partial = scan[s].partial
        /\ c.failed = scan[s].failed /\ c.at = scan[s].at
        /\ c.vanished = scan[s].vanished
    BY <1>1 DEF Scan
  <1> HIDE DEF c
  <1> QED
    BY <1>2, <1>3, ScanOf, ZenonT(60)

LEMMA EndedIs ==
  ASSUME Scanners, NEW s \in Scans, NEW failed, Ended(s, failed)
  PROVE  /\ \A t \in Scans \ {s} : scan'[t] = scan[t]
         /\ scan'[s].pc = "end" /\ scan'[s].failed = failed /\ scan'[s].at = 0
         /\ scan'[s].kind = scan[s].kind
  <1> DEFINE c == [Idle EXCEPT !.kind = scan[s].kind, !.pc = "end",
                               !.target = scan[s].target, !.failed = failed]
  <1>1. /\ c.pc = "end" /\ c.failed = failed /\ c.at = 0 /\ c.kind = scan[s].kind
    BY DEF Idle
  <1>2. scan' = [scan EXCEPT ![s] = c]
    BY DEF Ended
  <1> HIDE DEF c
  <1> QED
    BY <1>1, <1>2, ScanOf

LEMMA TargetedWalkIs ==
  ASSUME Scanners, NEW s \in Scans, Walk(s), Targeted(s)
  PROVE  /\ \A t \in Scans \ {s} : scan'[t] = scan[t]
         /\ scan'[s].pc = "books" /\ scan'[s].kind = "path" /\ scan'[s].at = changes
         /\ missed' = missed
  <1> DEFINE v == {scan[s].target}
             c == [scan[s] EXCEPT !.pc = "books", !.at = changes, !.valid = v, !.todo = v]
  <1>1. scan[s] \in Scan /\ missed' = missed /\ scan[s].kind = "path"
    BY DEF Scanners, Walk, Targeted
  <1>2. c.pc = "books" /\ c.kind = "path" /\ c.at = changes
    BY <1>1 DEF Scan
  <1>3. scan' = [scan EXCEPT ![s] = c]
    BY DEF Walk, Scanners
  <1> HIDE DEF c
  <1> QED
    BY <1>1, <1>2, <1>3, ScanOf

LEMMA FullWalkIs ==
  ASSUME Scanners, NEW s \in Scans, Walk(s), ~Targeted(s)
  PROVE  /\ \A t \in Scans \ {s} : scan'[t] = scan[t]
         /\ scan'[s].pc = "visit" /\ scan'[s].kind = scan[s].kind
         /\ scan'[s].at = changes /\ ~scan'[s].partial
         /\ scan'[s].valid = {} /\ scan'[s].todo = Present
  <1> DEFINE c == [scan[s] EXCEPT !.pc = "visit", !.at = changes, !.valid = {},
                                  !.partial = FALSE, !.todo = Present]
  <1>1. scan[s] \in Scan
    BY DEF Scanners
  <1>2. /\ c.pc = "visit" /\ c.kind = scan[s].kind /\ c.at = changes
        /\ c.partial = FALSE /\ c.valid = {} /\ c.todo = Present
    BY <1>1 DEF Scan
  <1>3. scan' = [scan EXCEPT ![s] = c]
    BY DEF Walk, Scanners
  <1> HIDE DEF c
  <1> QED
    BY <1>2, <1>3, ScanOf

LEMMA VisitLeaves ==
  ASSUME Scanners, NEW s \in Scans, NEW f \in Folders, Visit(s, f)
  PROVE  /\ \A t \in Scans \ {s} : scan'[t] = scan[t]
         /\ scan[s].pc = "visit" /\ scan'[s].pc = "visit"
         /\ scan'[s].todo = scan[s].todo \ {f}
         /\ scan'[s].kind = scan[s].kind /\ scan'[s].at = scan[s].at
         /\ scan[s].valid \subseteq scan'[s].valid
         /\ scan[s].vanished \subseteq scan'[s].vanished
         /\ \/ /\ There(f) /\ scan'[s].valid = scan[s].valid \cup {f}
               /\ scan'[s].partial = scan[s].partial
            \/ /\ disk[f] = 0 /\ scan'[s].valid = scan[s].valid
               /\ scan'[s].partial = scan[s].partial
            \/ missed' /\ (f \in scan'[s].vanished \/ scan'[s].partial)
         /\ scan[s].partial => scan'[s].partial
  <1>1. scan[s] \in Scan /\ scan \in [Scans -> Scan] /\ scan[s].pc = "visit"
    BY DEF Scanners, Visit
  <1>2. \/ There(f) /\ scan' = [scan EXCEPT ![s].todo = @ \ {f}, ![s].valid = @ \cup {f}]
        \/ mounted /\ ~There(f) /\ scan' = [scan EXCEPT ![s].todo = @ \ {f}]
        \/ missed' = TRUE /\ scan' = [scan EXCEPT ![s].todo = @ \ {f}, ![s].vanished = @ \cup {f}]
        \/ missed' = TRUE /\ scan' = [scan EXCEPT ![s].todo = @ \ {f}, ![s].partial = TRUE]
    BY Zenon DEF Visit
  <1>3. CASE There(f) /\ scan' = [scan EXCEPT ![s].todo = @ \ {f}, ![s].valid = @ \cup {f}]
    BY <1>1, <1>3 DEF Scan
  <1>4. CASE mounted /\ ~There(f) /\ scan' = [scan EXCEPT ![s].todo = @ \ {f}]
    BY <1>1, <1>4 DEF Scan, There
  <1>5. CASE missed' = TRUE /\ scan' = [scan EXCEPT ![s].todo = @ \ {f}, ![s].vanished = @ \cup {f}]
    BY <1>1, <1>5 DEF Scan
  <1>6. CASE missed' = TRUE /\ scan' = [scan EXCEPT ![s].todo = @ \ {f}, ![s].partial = TRUE]
    BY <1>1, <1>6 DEF Scan
  <1> QED
    BY <1>2, <1>3, <1>4, <1>5, <1>6

LEMMA GroupIs ==
  ASSUME Scanners, NEW s \in Scans, Group(s)
  PROVE  /\ \A t \in Scans \ {s} : scan'[t] = scan[t]
         /\ scan[s].pc = "visit" /\ scan[s].todo = {}
         /\ scan'[s].pc = "books" /\ scan'[s].todo = scan[s].valid
         /\ scan'[s].kind = scan[s].kind /\ scan'[s].at = scan[s].at
         /\ scan'[s].valid = scan[s].valid /\ scan'[s].vanished = scan[s].vanished
         /\ scan'[s].partial = scan[s].partial
  BY DEF Scanners, Group, Scan

\* Every step of a scan's walk and work is its own.
LEMMA OthersStay ==
  ASSUME Scanners, NEW s \in Scans,
         \/ WalkFails(s) \/ Walk(s) \/ Group(s) \/ WriteBook(s) \/ RemoveStale(s)
         \/ \E f \in Folders : Visit(s, f) \/ ReadBook(s, f) \/ BookFails(s, f)
  PROVE  \A t \in Scans \ {s} : scan'[t] = scan[t]
  <1>1. CASE WalkFails(s) \/ RemoveStale(s)
    BY <1>1, EndedIs DEF WalkFails, RemoveStale
  <1>2. CASE Walk(s)
    BY <1>2, TargetedWalkIs, FullWalkIs
  <1>3. CASE Group(s) \/ \E f \in Folders : Visit(s, f)
    BY <1>3, GroupIs, VisitLeaves
  <1>4. CASE WriteBook(s) \/ \E f \in Folders : ReadBook(s, f) \/ BookFails(s, f)
    BY <1>4 DEF WriteBook, ReadBook, BookFails, Done, Scanners
  <1> QED
    BY <1>1, <1>2, <1>3, <1>4

-----------------------------------------------------------------------------
(* Mutual exclusion.  Whoever works holds the claim, and nobody else works: *)
(* inductive as it stands, since a claim is only made when nobody has it    *)
(* and only given up by the one who works.                                  *)

\* A step in which no goroutine sets to work leaves the property alone.
LEMMA NoNewWorker ==
  ASSUME OneScanAtATime, scanning' = scanning,
         \A s \in Scans : Working(s)' => Working(s)
  PROVE  OneScanAtATime'
  BY Zenon DEF OneScanAtATime

LEMMA OneScanStep == TypeOK /\ OneScanAtATime /\ [Next]_vars => OneScanAtATime'
  <1> SUFFICES ASSUME TypeOK, OneScanAtATime, [Next]_vars PROVE OneScanAtATime'
    OBVIOUS
  <1>0. Scanners
    BY TypeOKParts
  <1>1. ASSUME NEW s \in Scans, NEW kind, NEW target, Called(s, kind, target),
               scanning' = scanning
        PROVE  OneScanAtATime'
    <2>1. \A t \in Scans : Working(t)' => Working(t)
      BY <1>0, <1>1 DEF Called, Working, Scanners, Idle
    <2> QED
      BY <1>1, <2>1, NoNewWorker
  <1>2. ASSUME NEW s \in Scans, BeginScan(s) PROVE OneScanAtATime'
    <2>1. CASE scanning
      <3>1. scan' = [scan EXCEPT ![s] = Idle] /\ scanning' = scanning
        BY <1>2, <2>1 DEF BeginScan, Busy, Returned
      <3>2. \A t \in Scans : Working(t)' => Working(t)
        BY <1>0, <3>1 DEF Working, Scanners, Idle
      <3> QED
        BY <3>1, <3>2, NoNewWorker
    <2>2. CASE ~scanning
      <3>1. scanning' = TRUE /\ scan' = [scan EXCEPT ![s].pc = "walk"]
        BY <1>2, <2>2, Zenon DEF BeginScan, Busy
      <3>2. \A t \in Scans : ~Working(t)
        BY <2>2, Zenon DEF OneScanAtATime
      <3>3. \A t \in Scans \ {s} : ~Working(t)'
        BY <1>0, <3>1, <3>2 DEF Working, Scanners
      <3> QED
        BY <3>1, <3>3, Zenon DEF OneScanAtATime
    <2> QED
      BY <2>1, <2>2
  <1>3. ASSUME NEW s \in Scans, EndScan(s) PROVE OneScanAtATime'
    <2>1. Working(s)
      BY <1>3 DEF EndScan, Working
    <2>2. \A t \in Scans \ {s} : ~Working(t)
      BY <2>1, Zenon DEF OneScanAtATime
    <2> DEFINE k == IF Targeted(s) /\ scan[s].failed THEN "full" ELSE scan[s].kind
               c == [Idle EXCEPT !.pc = "begin", !.kind = k]
    <2>3. scan' = [scan EXCEPT ![s] = Idle] \/ scan' = [scan EXCEPT ![s] = c]
      BY <1>3, Zenon DEF EndScan, Returned
    <2>4. c.pc = "begin" /\ Idle.pc = "idle"
      <3> HIDE DEF k
      <3> QED
        BY DEF Idle
    <2>5. \A t \in Scans : ~Working(t)'
      <3> HIDE DEF c
      <3> QED
        BY <1>0, <2>2, <2>3, <2>4 DEF Working, Scanners
    <2> QED
      BY <2>5, Zenon DEF OneScanAtATime
  <1>4. ASSUME NEW s \in Scans,
               \/ WalkFails(s) \/ Walk(s) \/ Group(s) \/ WriteBook(s) \/ RemoveStale(s)
               \/ \E f \in Folders : Visit(s, f) \/ ReadBook(s, f) \/ BookFails(s, f)
        PROVE  OneScanAtATime'
    <2>1. Working(s) /\ scanning' = scanning
      BY <1>4, Zenon DEF WalkFails, Walk, Group, WriteBook, RemoveStale, Visit, ReadBook,
                         BookFails, Working
    <2>2. \A t \in Scans \ {s} : scan'[t] = scan[t]
      BY <1>0, <1>4, OthersStay
    <2>3. \A t \in Scans : Working(t)' => Working(t)
      BY <2>1, <2>2 DEF Working
    <2> QED
      BY <2>1, <2>3, NoNewWorker
  <1>5. ASSUME UNCHANGED <<scan, scanning>> PROVE OneScanAtATime'
    <2>1. \A t \in Scans : Working(t)' => Working(t)
      BY <1>5 DEF Working
    <2> QED
      BY <1>5, <2>1, NoNewWorker
  <1>6. ASSUME NEW f \in Folders, Change(f) \/ UpdateBook(f) PROVE OneScanAtATime'
    BY <1>5, <1>6, Zenon DEF Change, Changed, UpdateBook
  <1>7. CASE Unmount \/ Mount \/ UNCHANGED vars
    BY <1>5, <1>7, Zenon DEF Unmount, Mount, vars
  <1>8. ASSUME NEW s \in Scans,
               \/ CallScanLibrary(s) \/ RunScan(s)
               \/ \E f \in Folders : Upload(s, f)
        PROVE  OneScanAtATime'
    BY <1>1, <1>8, Zenon DEF CallScanLibrary, RunScan, Upload, Changed
  <1>9. ASSUME NEW s \in Scans, PathRefused(s) PROVE OneScanAtATime'
    <2>1. \A t \in Scans : Working(t)' => Working(t)
      BY <1>0, <1>9 DEF PathRefused, Working, Scanners, Idle
    <2>2. scanning' = scanning
      BY <1>9, Zenon DEF PathRefused
    <2> QED
      BY <2>1, <2>2, NoNewWorker
  <1> QED
    BY <1>2, <1>3, <1>4, <1>6, <1>7, <1>8, <1>9, Zenon DEF Next, Work

LEMMA OneScanInit == Init => OneScanAtATime
  BY DEF Init, OneScanAtATime, Working, Idle

\* OneScanAtATime of Scanner: full and targeted scans of a library never
\* overlap, for any number of goroutines that want one (beginScan, endScan).
THEOREM ScansExclude == Spec => []OneScanAtATime
  <1>1. OneScanAtATime /\ TypeOK /\ [Next]_vars => OneScanAtATime'
    BY OneScanStep
  <1> QED
    BY <1>1, OneScanInit, TypeCorrect, PTL DEF Spec

-----------------------------------------------------------------------------
(* What a scan removes.  A full scan knows, from its walk to its end, that  *)
(* a folder it did not find was not there, or has only come since.         *)

\* A scan's walk: what it means that a folder is neither found nor still to be
\* read.
Trusted(c) == c.pc \in {"visit", "books", "tags"} /\ c.kind # "path" /\ ~c.partial

Covered(c) == c.valid \cup c.todo \cup c.vanished

CellSound(c) ==
    /\ c.at <= changes
    /\ Trusted(c) =>
          \A f \in Folders : f \in Covered(c) \/ disk[f] = 0 \/ disk[f] > c.at

WalkSound == \A s \in Scans : CellSound(scan[s])

\* A scan that has forgotten its walk, or never made one, knows nothing wrong.
LEMMA UnwalkedSound ==
  ASSUME Tables, NEW c, c.at = 0, c.pc \notin {"visit", "books", "tags"}
  PROVE  CellSound(c)
  BY DEF CellSound, Trusted, Tables

\* The disk and its changes staying put, only the scan of s needs looking at.
LEMMA OneCellSound ==
  ASSUME Scanners, WalkSound, NEW s \in Scans, NEW c, CellSound(c),
         scan' = [scan EXCEPT ![s] = c], UNCHANGED <<disk, changes>>
  PROVE  WalkSound'
  BY DEF WalkSound, CellSound, Trusted, Covered, Scanners

\* A scan that keeps what it found, when and how, keeps its soundness.
LEMMA SameWalk ==
  ASSUME Scanners, WalkSound, NEW s \in Scans,
         UNCHANGED <<disk, changes>>,
         \A t \in Scans \ {s} : scan'[t] = scan[t],
         scan'[s].at = scan[s].at, Covered(scan[s]) \subseteq Covered(scan'[s]),
         scan'[s].kind = scan[s].kind, scan'[s].partial = scan[s].partial,
         scan'[s].pc \in {"visit", "books", "tags"} =>
             scan[s].pc \in {"visit", "books", "tags"}
  PROVE  WalkSound'
  BY DEF WalkSound, CellSound, Trusted, Scanners

LEMMA WalkSoundInit == Init => WalkSound
  BY DEF Init, WalkSound, CellSound, Trusted, Idle

LEMMA WalkSoundStep == TypeOK /\ WalkSound /\ [Next]_vars => WalkSound'
  <1> SUFFICES ASSUME TypeOK, WalkSound, [Next]_vars PROVE WalkSound'
    OBVIOUS
  <1>0. Scanners /\ Tables
    BY TypeOKParts
  <1>1. ASSUME NEW s \in Scans, NEW c, c.at = 0, c.pc \notin {"visit", "books", "tags"},
               scan' = [scan EXCEPT ![s] = c], UNCHANGED <<disk, changes>>
        PROVE  WalkSound'
    BY <1>0, <1>1, UnwalkedSound, OneCellSound
  <1>2. ASSUME NEW s \in Scans, NEW kind, NEW target, Called(s, kind, target),
               UNCHANGED <<disk, changes>>
        PROVE  WalkSound'
    <2> DEFINE c == [Idle EXCEPT !.kind = kind, !.target = target, !.pc = "begin"]
    <2>1. c.at = 0 /\ c.pc = "begin"
      BY DEF Idle
    <2>2. scan' = [scan EXCEPT ![s] = c]
      BY <1>2 DEF Called
    <2> QED
      BY <1>1, <1>2, <2>1, <2>2
  <1>3. ASSUME NEW s \in Scans, Returned(s), UNCHANGED <<disk, changes>> PROVE WalkSound'
    <2>1. Idle.at = 0 /\ Idle.pc = "idle"
      BY DEF Idle
    <2> QED
      BY <1>1, <1>3, <2>1 DEF Returned
  <1>4. ASSUME NEW s \in Scans, EndScan(s) PROVE WalkSound'
    <2> DEFINE k == IF Targeted(s) /\ scan[s].failed THEN "full" ELSE scan[s].kind
               c == [Idle EXCEPT !.pc = "begin", !.kind = k]
    <2>1. Returned(s) \/ scan' = [scan EXCEPT ![s] = c]
      BY <1>4, Zenon DEF EndScan
    <2>2. c.at = 0 /\ c.pc = "begin"
      <3> HIDE DEF k
      <3> QED
        BY DEF Idle
    <2>3. UNCHANGED <<disk, changes>>
      BY <1>4, Zenon DEF EndScan, world
    <2> QED
      BY <1>1, <1>3, <2>1, <2>2, <2>3
  <1>5. ASSUME NEW s \in Scans, BeginScan(s) PROVE WalkSound'
    <2>1. UNCHANGED <<disk, changes>>
      BY <1>5, Zenon DEF BeginScan, world
    <2>2. Returned(s) \/ scan' = [scan EXCEPT ![s].pc = "walk"]
      BY <1>5, Zenon DEF BeginScan
    <2>3. ASSUME scan' = [scan EXCEPT ![s].pc = "walk"] PROVE WalkSound'
      <3>1. /\ \A t \in Scans \ {s} : scan'[t] = scan[t]
            /\ scan'[s] = [scan[s] EXCEPT !.pc = "walk"]
        BY <1>0, <2>3 DEF Scanners
      <3> QED
        BY <1>0, <2>1, <3>1, SameWalk DEF Covered, Scanners, WellFormed, Scan
    <2> QED
      BY <1>3, <2>1, <2>2, <2>3
  <1>6. ASSUME NEW s \in Scans, WalkFails(s) \/ RemoveStale(s) PROVE WalkSound'
    <2>1. UNCHANGED <<disk, changes>>
      BY <1>6, Zenon DEF WalkFails, RemoveStale, world
    <2>2. PICK c : /\ scan' = [scan EXCEPT ![s] = c]
                   /\ c \in {[Idle EXCEPT !.kind = scan[s].kind, !.pc = "end",
                                !.target = scan[s].target, !.failed = failed]
                              : failed \in BOOLEAN}
      BY <1>6, Zenon DEF WalkFails, RemoveStale, Ended
    <2>3. c.at = 0 /\ c.pc = "end"
      BY <2>2 DEF Idle
    <2> QED
      BY <1>1, <2>1, <2>2, <2>3
  <1>7. ASSUME NEW s \in Scans, NEW f \in Folders, scan' = Done(s, f),
               scan[s].pc \in {"books", "tags"}, UNCHANGED <<disk, changes>>
        PROVE  WalkSound'
    <2>1. scan[s].todo \subseteq scan[s].valid
      BY <1>0, <1>7 DEF Scanners, WellFormed
    <2> QED
      BY <1>0, <1>7, <2>1, DoneIs, SameWalk DEF Covered
  <1>8. ASSUME NEW s \in Scans, NEW f \in Folders, ReadBook(s, f) \/ BookFails(s, f)
        PROVE  WalkSound'
    <2>1. UNCHANGED <<disk, changes>> /\ scan[s].pc \in {"books", "tags"}
      BY <1>8, Zenon DEF ReadBook, BookFails, world
    <2>2. \/ scan' = Done(s, f)
          \/ scan' = [scan EXCEPT ![s].pc = "tags", ![s].book = f,
                                  ![s].hash = disk[f], ![s].existing = rows[f]]
      BY <1>8, Zenon DEF ReadBook, BookFails
    <2>3. ASSUME scan' = [scan EXCEPT ![s].pc = "tags", ![s].book = f,
                                      ![s].hash = disk[f], ![s].existing = rows[f]]
          PROVE  WalkSound'
      <3>1. /\ \A t \in Scans \ {s} : scan'[t] = scan[t]
            /\ scan'[s] = [scan[s] EXCEPT !.pc = "tags", !.book = f,
                                          !.hash = disk[f], !.existing = rows[f]]
        BY <1>0, <2>3 DEF Scanners
      <3> QED
        BY <1>0, <2>1, <3>1, SameWalk DEF Covered, Scanners, WellFormed, Scan
    <2> QED
      BY <1>7, <2>1, <2>2, <2>3
  <1>9. ASSUME NEW s \in Scans, WriteBook(s) PROVE WalkSound'
    <2>1. scan[s].book \in Folders
      BY <1>0, <1>9 DEF WriteBook, Scanners, WellFormed, Scan
    <2>2. scan' = Done(s, scan[s].book) /\ scan[s].pc = "tags"
      BY <1>9, Zenon DEF WriteBook
    <2>3. UNCHANGED <<disk, changes>>
      BY <1>9, Zenon DEF WriteBook, world
    <2> QED
      BY <1>7, <2>1, <2>2, <2>3
  <1>10. ASSUME NEW s \in Scans, Walk(s) PROVE WalkSound'
    <2>0. UNCHANGED <<disk, changes>>
      BY <1>10, Zenon DEF Walk, world
    <2>1. UNCHANGED <<disk, changes>> /\ changes \in Nat
      BY <1>0, <2>0 DEF Tables
    <2>2. (\A t \in Scans \ {s} : scan'[t] = scan[t]) /\ scan'[s].at = changes
      BY <1>0, <1>10, TargetedWalkIs, FullWalkIs
    <2>3. ASSUME Trusted(scan[s])' PROVE Present \subseteq Covered(scan'[s])
      <3>1. ~Targeted(s)
        BY <1>0, <1>10, <2>3, TargetedWalkIs DEF Trusted
      <3> QED
        BY <1>0, <1>10, <3>1, FullWalkIs DEF Covered
    <2>4. CellSound(scan[s])'
      BY <2>1, <2>2, <2>3 DEF CellSound, Present, Trusted
    <2> QED
      BY <2>1, <2>2, <2>4 DEF WalkSound, CellSound, Trusted, Covered
  <1>11. ASSUME NEW f \in Folders, Changed(f, 0) \/ Changed(f, changes + 1)
         PROVE  \A t \in Scans : CellSound(scan[t])' \/ scan'[t] # scan[t]
    <2>1. /\ changes' = changes + 1 /\ changes \in Nat
          /\ \A g \in Folders : disk'[g] = disk[g] \/ disk'[g] \in {0, changes + 1}
      BY <1>0, <1>11 DEF Changed, Tables
    <2>2. \A t \in Scans : scan[t].at \in Nat
      BY <1>0 DEF Scanners, WellFormed, Scan
    <2> QED
      BY <2>1, <2>2 DEF WalkSound, CellSound, Trusted, Covered
  <1>12. ASSUME NEW f \in Folders, Change(f) PROVE WalkSound'
    BY <1>11, <1>12 DEF Change, WalkSound
  <1>13. ASSUME NEW s \in Scans, NEW f \in Folders, Upload(s, f) PROVE WalkSound'
    <2> DEFINE c == [Idle EXCEPT !.kind = "path", !.target = f, !.pc = "begin"]
    <2>1. scan' = [scan EXCEPT ![s] = c]
      BY <1>13 DEF Upload, Called
    <2>2. c.at = 0 /\ c.pc = "begin"
      BY DEF Idle
    <2>3. Changed(f, changes + 1) /\ changes' \in Nat
      BY <1>0, <1>13 DEF Upload, Changed, Tables
    <2>4. scan'[s] = c /\ \A t \in Scans \ {s} : scan'[t] = scan[t]
      BY <1>0, <2>1 DEF Scanners
    <2>5. CellSound(scan[s])'
      <3> HIDE DEF c
      <3> QED
        BY <2>2, <2>3, <2>4 DEF CellSound, Trusted
    <2> QED
      BY <1>11, <2>3, <2>4, <2>5 DEF WalkSound
  <1>14. ASSUME UNCHANGED <<disk, changes, scan>> PROVE WalkSound'
    BY <1>14 DEF WalkSound, CellSound, Trusted, Covered
  <1>15. ASSUME NEW s \in Scans, CallScanLibrary(s) \/ RunScan(s) PROVE WalkSound'
    BY <1>2, <1>15, Zenon DEF CallScanLibrary, RunScan, world
  <1>16. ASSUME \/ Unmount \/ Mount \/ UNCHANGED vars
                \/ \E f \in Folders : UpdateBook(f)
         PROVE  WalkSound'
    BY <1>14, <1>16, Zenon DEF Unmount, Mount, UpdateBook, vars, world, budget
  <1>17. ASSUME NEW s \in Scans, NEW f \in Folders, Visit(s, f) PROVE WalkSound'
    <2>1. UNCHANGED <<disk, changes>>
      BY <1>17, Zenon DEF Visit, world
    <2>2. /\ \A t \in Scans \ {s} : scan'[t] = scan[t]
          /\ scan[s].pc = "visit" /\ scan'[s].at = scan[s].at
          /\ scan'[s].kind = scan[s].kind /\ (scan[s].partial => scan'[s].partial)
      BY <1>0, <1>17, VisitLeaves
    <2>3. ASSUME Trusted(scan[s])', NEW g \in Folders, g \in Covered(scan[s])
          PROVE  g \in Covered(scan'[s]) \/ disk[g] = 0
      BY <1>0, <1>17, <2>3, VisitLeaves DEF Covered, Trusted
    <2>4. Trusted(scan[s])' => Trusted(scan[s])
      BY <2>2 DEF Trusted
    <2>5. CellSound(scan[s])'
      BY <2>1, <2>2, <2>3, <2>4 DEF WalkSound, CellSound
    <2> QED
      BY <2>1, <2>2, <2>5 DEF WalkSound, CellSound, Trusted, Covered
  <1>18. ASSUME NEW s \in Scans, Group(s) PROVE WalkSound'
    <2>1. UNCHANGED <<disk, changes>>
      BY <1>18, Zenon DEF Group, world
    <2>2. Covered(scan[s]) \subseteq Covered(scan'[s])
      BY <1>0, <1>18, GroupIs DEF Covered
    <2> QED
      BY <1>0, <1>18, <2>1, <2>2, GroupIs, SameWalk
  <1>19. ASSUME NEW s \in Scans, PathRefused(s) PROVE WalkSound'
    <2>1. Idle.at = 0 /\ [Idle EXCEPT !.pc = "begin"].at = 0
          /\ [Idle EXCEPT !.pc = "begin"].pc = "begin"
      BY DEF Idle
    <2>2. UNCHANGED <<disk, changes>>
      BY <1>19, Zenon DEF PathRefused, world
    <2>3. scan' = [scan EXCEPT ![s] = [Idle EXCEPT !.pc = "begin"]]
      BY <1>19, Zenon DEF PathRefused
    <2> QED
      BY <1>1, <2>1, <2>2, <2>3
  <1> QED
    BY <1>4, <1>5, <1>6, <1>8, <1>9, <1>10, <1>12, <1>13, <1>15, <1>16, <1>17, <1>18,
       <1>19, Zenon DEF Next, Work

\* Only removeStale removes a row, and only one whose folder it did not find.
LEMMA RemovalCases ==
  ASSUME TypeOK, [Next]_vars, NEW f \in Folders, rows[f] # None, rows'[f] = None
  PROVE  \E s \in Scans : /\ scan[s].pc = "books" /\ scan[s].todo = {}
                          /\ MayRemove(s) /\ f \notin scan[s].valid
  <1>0. Scanners /\ Tables
    BY TypeOKParts
  <1>1. ASSUME NEW g \in Folders, UpdateBook(g) PROVE FALSE
    <2>1. [rows[g] EXCEPT !.meta = "edited", !.locked = TRUE] \in Row
      BY <1>0, <1>1 DEF UpdateBook, Tables, Row
    <2>2. rows' = [rows EXCEPT ![g] = [rows[g] EXCEPT !.meta = "edited", !.locked = TRUE]]
      BY <1>0, <1>1, Zenon DEF UpdateBook, Tables
    <2> QED
      BY <1>0, <2>1, <2>2, NoneAssumption DEF Tables
  <1>2. ASSUME NEW s \in Scans, WriteBook(s) PROVE FALSE
    <2>1. scan[s].book \in Folders /\ scan[s].hash \in Nat
          /\ scan[s].existing \in Row \cup {None}
      BY <1>0, <1>2 DEF WriteBook, Scanners, WellFormed, Scan
    <2>2. Refreshed(rows[scan[s].book], scan[s].existing, scan[s].hash) \in Row
      BY <1>0, <1>2, <2>1, RefreshedRow DEF WriteBook, Tables
    <2>3. rows' = [rows EXCEPT ![scan[s].book] =
                    Refreshed(rows[scan[s].book], scan[s].existing, scan[s].hash)]
      BY <1>2, Zenon DEF WriteBook
    <2> QED
      BY <1>0, <2>1, <2>2, <2>3, NoneAssumption DEF Tables
  <1>3. ASSUME NEW s \in Scans, RemoveStale(s)
        PROVE  /\ scan[s].pc = "books" /\ scan[s].todo = {}
               /\ MayRemove(s) /\ f \notin scan[s].valid
    BY <1>3 DEF RemoveStale
  <1>4. rows' # rows
    OBVIOUS
  <1>5. ASSUME NEW s \in Scans, Work(s)
        PROVE  WriteBook(s) \/ RemoveStale(s)
    BY <1>4, <1>5, Zenon
       DEF Work, BeginScan, PathRefused, EndScan, WalkFails, Walk, Visit, Group, ReadBook,
           BookFails
  <1>6. (\E s \in Scans : Work(s)) \/ (\E g \in Folders : UpdateBook(g))
    BY <1>4, Zenon
       DEF Next, Change, Changed, Unmount, Mount, CallScanLibrary, RunScan, Upload, vars
  <1> QED
    BY <1>1, <1>2, <1>3, <1>5, <1>6

\* RemovedOnlyIfGone of Scanner: a book is removed, and everybody's progress
\* in it with it, only when its folder is gone, has only come since the scan
\* read the root, or looked gone because the share went away under the walk
\* (walkAudioFiles); never for a root that is not there, a folder that cannot
\* be read, a book that fails or a targeted scan (scanOnce, removeStale).
THEOREM SoundRemoval == Spec => RemovedOnlyIfGone
  <1>1. TypeOK /\ WalkSound /\ [Next]_vars =>
          [\A f \in Folders : rows[f] # None /\ rows'[f] = None =>
             \/ disk[f] = 0
             \/ \E s \in Scans :
                  /\ scan[s].pc = "books"
                  /\ (disk[f] > scan[s].at \/ f \in scan[s].vanished)]_vars
    <2> SUFFICES ASSUME TypeOK, WalkSound, [Next]_vars, NEW f \in Folders,
                        rows[f] # None, rows'[f] = None
                 PROVE  \/ disk[f] = 0
                        \/ \E s \in Scans :
                             /\ scan[s].pc = "books"
                             /\ (disk[f] > scan[s].at \/ f \in scan[s].vanished)
      OBVIOUS
    <2>1. PICK s \in Scans : /\ scan[s].pc = "books" /\ scan[s].todo = {}
                             /\ MayRemove(s) /\ f \notin scan[s].valid
      BY RemovalCases
    <2>2. Trusted(scan[s])
      BY <2>1 DEF Trusted, MayRemove, Targeted
    <2> QED
      BY <2>1, <2>2 DEF WalkSound, CellSound, Covered
  <1>2. TypeOK /\ WalkSound /\ [Next]_vars => WalkSound'
    BY WalkSoundStep
  <1> QED
    BY <1>1, <1>2, WalkSoundInit, TypeCorrect, PTL DEF Spec, RemovedOnlyIfGone

-----------------------------------------------------------------------------
(* No change is lost.  A difference between disk and books is either owed to *)
(* a full scan that has not walked yet (or to the timer or the note that    *)
(* will start one), or it is in the hands of one that has.                  *)

\* The claim is held by somebody who works, and the note is for them.
Held ==
    /\ rescan => scanning
    /\ scanning => \E s \in Scans : Working(s)

LEMMA HeldInit == Init => Held
  BY DEF Init, Held

LEMMA HeldStep == TypeOK /\ Held /\ [Next]_vars => Held'
  <1> SUFFICES ASSUME TypeOK, Held, [Next]_vars PROVE Held'
    OBVIOUS
  <1>0. Scanners
    BY TypeOKParts
  <1>1. ASSUME UNCHANGED <<scanning, rescan>>, \A s \in Scans : Working(s) => Working(s)'
        PROVE  Held'
    BY <1>1, Zenon DEF Held
  <1>2. ASSUME NEW s \in Scans, NEW kind, NEW target, Called(s, kind, target),
               UNCHANGED <<scanning, rescan>>
        PROVE  Held'
    <2>1. \A t \in Scans : Working(t) => Working(t)'
      BY <1>0, <1>2 DEF Called, Working, Scanners
    <2> QED
      BY <1>1, <1>2, <2>1
  <1>3. ASSUME NEW s \in Scans, BeginScan(s) PROVE Held'
    <2>1. CASE scanning
      <3>1. scan' = [scan EXCEPT ![s] = Idle] /\ scanning' = scanning /\ scan[s].pc = "begin"
        BY <1>3, <2>1 DEF BeginScan, Busy, Returned
      <3>2. \A t \in Scans : Working(t) => Working(t)'
        BY <1>0, <3>1 DEF Working, Scanners
      <3> QED
        BY <2>1, <3>1, <3>2 DEF Held
    <2>2. CASE ~scanning
      <3>1. /\ scanning' = TRUE /\ scan' = [scan EXCEPT ![s].pc = "walk"]
        BY <1>3, <2>2, Zenon DEF BeginScan, Busy
      <3>2. Working(s)'
        BY <1>0, <3>1 DEF Working, Scanners, Scan
      <3> QED
        BY <3>1, <3>2 DEF Held
    <2> QED
      BY <2>1, <2>2
  <1>4. ASSUME NEW s \in Scans, EndScan(s) PROVE Held'
    BY <1>4 DEF EndScan, Claim, Held
  <1>5. ASSUME NEW s \in Scans,
               \/ WalkFails(s) \/ Walk(s) \/ Group(s) \/ WriteBook(s) \/ RemoveStale(s)
               \/ \E f \in Folders : Visit(s, f) \/ ReadBook(s, f) \/ BookFails(s, f)
        PROVE  Held'
    <2>1. UNCHANGED <<scanning, rescan>>
      BY <1>5, Zenon DEF WalkFails, Walk, Group, WriteBook, RemoveStale, Visit, ReadBook,
                         BookFails
    <2>2. scan[s] \in Scan /\ (scan[s].pc = "tags" => scan[s].book \in Folders)
      BY <1>0 DEF Scanners, WellFormed, Scan
    <2>3. \A t \in Scans \ {s} : scan'[t] = scan[t]
      BY <1>0, <1>5, OthersStay
    <2>4. Working(s)'
      <3>1. CASE WalkFails(s) \/ RemoveStale(s)
        BY <1>0, <3>1, EndedIs DEF WalkFails, RemoveStale, Working
      <3>2. CASE Walk(s) \/ Group(s) \/ \E f \in Folders : Visit(s, f)
        BY <1>0, <3>2, TargetedWalkIs, FullWalkIs, GroupIs, VisitLeaves DEF Working
      <3>3. CASE WriteBook(s)
        BY <1>0, <2>2, <3>3, DoneIs DEF WriteBook, Working
      <3>4. ASSUME NEW f \in Folders, ReadBook(s, f) \/ BookFails(s, f)
            PROVE  Working(s)'
        <4>1. CASE scan' = Done(s, f)
          BY <1>0, <4>1, DoneIs DEF Working
        <4>2. CASE scan' = [scan EXCEPT ![s].pc = "tags", ![s].book = f,
                                        ![s].hash = disk[f], ![s].existing = rows[f]]
          BY <1>0, <2>2, <4>2 DEF Scanners, Scan, Working
        <4> QED
          BY <3>4, <4>1, <4>2, Zenon DEF ReadBook, BookFails
      <3> QED
        BY <1>5, <3>1, <3>2, <3>3, <3>4
    <2> QED
      BY <1>1, <2>1, <2>3, <2>4 DEF Working
  <1>6. ASSUME UNCHANGED <<scan, scanning, rescan>> PROVE Held'
    BY <1>1, <1>6 DEF Working
  <1>7. ASSUME NEW f \in Folders, Change(f) \/ UpdateBook(f) PROVE Held'
    BY <1>6, <1>7, Zenon DEF Change, Changed, UpdateBook
  <1>8. CASE Unmount \/ Mount \/ UNCHANGED vars
    BY <1>6, <1>8, Zenon DEF Unmount, Mount, vars
  <1>9. ASSUME NEW s \in Scans,
               CallScanLibrary(s) \/ RunScan(s) \/ \E f \in Folders : Upload(s, f)
        PROVE  Held'
    BY <1>2, <1>9, Zenon DEF CallScanLibrary, RunScan, Upload, Changed
  <1>10. ASSUME NEW s \in Scans, PathRefused(s) PROVE Held'
    <2>1. \A t \in Scans : Working(t) => Working(t)'
      BY <1>0, <1>10 DEF PathRefused, Working, Scanners
    <2>2. UNCHANGED <<scanning, rescan>>
      BY <1>10, Zenon DEF PathRefused
    <2> QED
      BY <1>1, <2>1, <2>2
  <1> QED
    BY <1>3, <1>4, <1>5, <1>7, <1>8, <1>9, <1>10, Zenon DEF Next, Work

\* A full scan that is about to walk will find whatever there is, and a scan
\* that failed will say so.
Owed(c) ==
    \/ c.kind # "path" /\ c.pc \in {"begin", "walk"}
    \/ c.pc = "end" /\ c.failed

Outstanding == missed \/ wanted \/ rescan \/ \E s \in Scans : Owed(scan[s])

Full(c) == c.kind # "path" /\ c.pc \in {"visit", "books", "tags"}

\* What a scan knows of the disk is still so.
Fresh(c) ==
    /\ c.pc = "tags" => c.hash # 0 /\ c.hash = disk[c.book]
    /\ Full(c) => c.valid \cup c.todo = Present /\ ~c.partial

Matches(f) ==
    IF disk[f] = 0 THEN rows[f] = None
    ELSE rows[f] # None /\ rows[f].hash = disk[f]

\* A full scan has still to come to the folder, or to find that it is gone.
InHand(s, f) ==
    Full(scan[s]) /\ (disk[f] = 0 \/ f \in scan[s].todo \/ scan[s].pc = "visit")

Accounted ==
    /\ \A s \in Scans : Fresh(scan[s])
    /\ \A f \in Folders : Matches(f) \/ \E s \in Scans : InHand(s, f)

\* A step of one goroutine's scan, the disk staying as it is.
LEMMA AccountedStays ==
  ASSUME Accounted, NEW s \in Scans, \A t \in Scans \ {s} : scan'[t] = scan[t],
         disk' = disk, Fresh(scan[s])',
         \A f \in Folders : Matches(f) => Matches(f)',
         \A f \in Folders : InHand(s, f) => Matches(f)' \/ InHand(s, f)'
  PROVE  Accounted'
  <1>1. ASSUME NEW t \in Scans
        PROVE  Fresh(scan[t])'
    <2>1. CASE t # s
      BY <2>1 DEF Accounted, Fresh, Full, Present
    <2> QED
      BY <2>1
  <1>2. ASSUME NEW f \in Folders
        PROVE  Matches(f)' \/ \E t \in Scans : InHand(t, f)'
    <2>1. CASE Matches(f)
      BY <2>1
    <2>2. ASSUME NEW t \in Scans, InHand(t, f)
          PROVE  Matches(f)' \/ \E r \in Scans : InHand(r, f)'
      <3>1. CASE t = s
        BY <2>2, <3>1
      <3>2. CASE t # s
        <4>1. InHand(t, f)'
          BY <2>2, <3>2 DEF InHand, Full
        <4> QED
          BY <4>1
      <3> QED
        BY <3>1, <3>2
    <2> QED
      BY <2>1, <2>2 DEF Accounted
  <1> QED
    BY <1>1, <1>2 DEF Accounted

\* Nothing of this changes when only the flags of books do.
LEMMA AccountedSame ==
  ASSUME Accounted, UNCHANGED <<scan, disk>>,
         \A f \in Folders : rows[f] = None <=> rows'[f] = None,
         \A f \in Folders : rows[f] # None => rows'[f].hash = rows[f].hash
  PROVE  Accounted'
  <1>1. Present' = Present
    BY DEF Present
  <1> QED
    BY <1>1 DEF Accounted, Fresh, Full, Matches, InHand

\* A full walk settles what was outstanding; nothing else does.
LEMMA WalkAccounts ==
  ASSUME TypeOK, OneScanAtATime, NEW s \in Scans, Walk(s), ~Targeted(s)
  PROVE  Accounted'
  <1>0. Scanners
    BY TypeOKParts
  <1>1. /\ \A t \in Scans \ {s} : scan'[t] = scan[t]
        /\ scan'[s].pc = "visit" /\ scan'[s].kind # "path" /\ ~scan'[s].partial
        /\ scan'[s].valid = {} /\ scan'[s].todo = Present
    BY <1>0, FullWalkIs DEF Targeted
  <1>2. disk' = disk /\ Present' = Present
    BY DEF Walk, world, Present
  <1>3. ASSUME NEW t \in Scans
        PROVE  Fresh(scan[t])'
    <2>1. CASE t = s
      BY <1>1, <1>2, <2>1 DEF Fresh
    <2>2. CASE t # s
      <3>1. ~Working(t)
        BY <2>2 DEF OneScanAtATime, Walk, Working
      <3> QED
        BY <1>1, <2>2, <3>1 DEF Fresh, Full, Working
    <2> QED
      BY <2>1, <2>2
  <1>4. ASSUME NEW f \in Folders
        PROVE  InHand(s, f)'
    BY <1>1 DEF InHand, Full
  <1> QED
    BY <1>3, <1>4 DEF Accounted

LEMMA OutstandingStep ==
  ASSUME TypeOK, OneScanAtATime, Outstanding, [Next]_vars, ~Outstanding'
  PROVE  Accounted'
  <1>0. Scanners /\ ~missed' /\ ~wanted' /\ ~rescan' /\ \A s \in Scans : ~Owed(scan[s])'
    BY TypeOKParts DEF Outstanding
  <1>1. ASSUME NEW s \in Scans, NEW kind, NEW target, Called(s, kind, target),
               missed' = missed, rescan' = rescan, wanted' = wanted \/ kind = "full"
        PROVE  FALSE
    <2> DEFINE c == [Idle EXCEPT !.kind = kind, !.target = target, !.pc = "begin"]
    <2>1. c.kind = kind /\ c.pc = "begin"
      BY DEF Idle
    <2>2. scan[s].pc = "idle" /\ scan' = [scan EXCEPT ![s] = c]
      BY <1>1 DEF Called
    <2> HIDE DEF c
    <2>3. scan'[s] = c /\ \A t \in Scans \ {s} : scan'[t] = scan[t]
      BY <1>0, <2>2, ScanOf
    <2>4. \A t \in Scans : Owed(scan[t]) => Owed(scan[t])'
      BY <2>2, <2>3 DEF Owed
    <2>5. kind = "full" => Owed(scan[s])'
      BY <2>1, <2>3 DEF Owed
    <2> QED
      BY <1>0, <1>1, <2>4, <2>5 DEF Outstanding
  <1>2. ASSUME NEW s \in Scans, BeginScan(s) PROVE FALSE
    <2>1. ~scanning /\ scan' = [scan EXCEPT ![s].pc = "walk"]
          /\ missed' = missed /\ wanted' = wanted /\ rescan' = rescan /\ scan[s].pc = "begin"
      BY <1>0, <1>2 DEF BeginScan, Busy, Note
    <2>2. /\ scan'[s].pc = "walk" /\ scan'[s].kind = scan[s].kind
          /\ \A t \in Scans \ {s} : scan'[t] = scan[t]
      BY <1>0, <2>1 DEF Scanners, Scan
    <2>3. \A t \in Scans : Owed(scan[t]) => Owed(scan[t])'
      BY <2>1, <2>2 DEF Owed
    <2> QED
      BY <1>0, <2>1, <2>3 DEF Outstanding
  <1>3. ASSUME NEW s \in Scans, EndScan(s) PROVE FALSE
    <2>1. ~scan[s].failed /\ wanted' = wanted /\ scan[s].pc = "end" /\ ~missed
          /\ (rescan => scan[s].kind # "path")
      BY <1>0, <1>3 DEF EndScan, Targeted
    <2> DEFINE c == [Idle EXCEPT !.pc = "begin", !.kind = scan[s].kind]
    <2>2. rescan => scan' = [scan EXCEPT ![s] = c]
      BY <1>3, <2>1 DEF EndScan, Targeted
    <2>3. c.pc = "begin" /\ c.kind = scan[s].kind
      BY DEF Idle
    <2>4. scan' = [scan EXCEPT ![s] = c] \/ scan' = [scan EXCEPT ![s] = Idle]
      BY <1>3, <2>1, Zenon DEF EndScan, Returned
    <2> HIDE DEF c
    <2>5. rescan => Owed(scan[s])'
      BY <1>0, <2>1, <2>2, <2>3, ScanOf DEF Owed
    <2>6. \A t \in Scans \ {s} : scan'[t] = scan[t]
      BY <1>0, <2>4, ScanOf
    <2>7. \A t \in Scans : Owed(scan[t]) => Owed(scan[t])'
      BY <2>1, <2>6 DEF Owed
    <2> QED
      BY <1>0, <2>1, <2>5, <2>7 DEF Outstanding
  <1>4. ASSUME NEW s \in Scans, WalkFails(s) \/ PathRefused(s) PROVE FALSE
    <2>1. CASE WalkFails(s)
      <3>1. scan'[s].pc = "end" /\ scan'[s].failed
        BY <1>0, <2>1, EndedIs DEF WalkFails
      <3> QED
        BY <1>0, <3>1 DEF Owed
    <2>2. CASE PathRefused(s)
      <3>1. scan'[s].pc = "begin" /\ scan'[s].kind = "full"
        BY <1>0, <2>2 DEF PathRefused, Scanners, Idle
      <3> QED
        BY <1>0, <3>1 DEF Owed
    <2> QED
      BY <1>4, <2>1, <2>2
  <1>5. ASSUME NEW s \in Scans,
               \/ Group(s) \/ WriteBook(s) \/ RemoveStale(s)
               \/ \E f \in Folders : Visit(s, f) \/ ReadBook(s, f) \/ BookFails(s, f)
        PROVE  FALSE
    <2>1. missed => missed'
      BY <1>5, Zenon DEF Group, WriteBook, RemoveStale, Visit, ReadBook, BookFails
    <2>2. /\ scan[s].pc \in {"visit", "books", "tags"}
          /\ wanted' = wanted /\ rescan' = rescan
      BY <1>5, Zenon DEF Group, WriteBook, RemoveStale, Visit, ReadBook, BookFails
    <2>3. \A t \in Scans \ {s} : scan'[t] = scan[t]
      BY <1>0, <1>5, OthersStay
    <2>4. \A t \in Scans : Owed(scan[t]) => Owed(scan[t])'
      BY <2>2, <2>3 DEF Owed
    <2> QED
      BY <1>0, <2>1, <2>2, <2>4 DEF Outstanding
  <1>8. ASSUME NEW s \in Scans, Walk(s)
        PROVE  Accounted'
    <2>1. CASE ~Targeted(s)
      BY <1>8, <2>1, WalkAccounts
    <2>2. CASE Targeted(s)
      <3>1. missed' = missed /\ (\A t \in Scans \ {s} : scan'[t] = scan[t])
        BY <1>0, <1>8, <2>2, TargetedWalkIs
      <3>2. wanted' = wanted /\ rescan' = rescan /\ ~Owed(scan[s])
        BY <1>8, <2>2 DEF Walk, Owed, Targeted
      <3>3. \A t \in Scans : Owed(scan[t]) => Owed(scan[t])'
        BY <3>1, <3>2
      <3> QED
        BY <1>0, <3>1, <3>2, <3>3 DEF Outstanding
    <2> QED
      BY <2>1, <2>2
  <1>9. ASSUME NEW f \in Folders, NEW v, Changed(f, v) PROVE FALSE
    BY <1>0, <1>9 DEF Changed
  <1>10. ASSUME UNCHANGED <<scan, missed, wanted, rescan>> PROVE FALSE
    BY <1>0, <1>10 DEF Outstanding
  <1>11. CASE \/ Unmount \/ Mount \/ UNCHANGED vars
              \/ \E f \in Folders : Change(f) \/ UpdateBook(f)
    BY <1>9, <1>10, <1>11, Zenon DEF Unmount, Mount, vars, Change, UpdateBook
  <1>12. ASSUME NEW s \in Scans,
                CallScanLibrary(s) \/ RunScan(s) \/ \E f \in Folders : Upload(s, f)
         PROVE  FALSE
    BY <1>1, <1>9, <1>12 DEF CallScanLibrary, RunScan, Upload
  <1> QED
    BY <1>2, <1>3, <1>4, <1>5, <1>8, <1>11, <1>12, Zenon DEF Next, Work

LEMMA AccountedStep ==
  ASSUME TypeOK, ~Outstanding, Accounted, [Next]_vars, ~Outstanding'
  PROVE  Accounted'
  <1>0. /\ Scanners /\ Tables
        /\ ~missed' /\ ~wanted' /\ ~rescan' /\ \A s \in Scans : ~Owed(scan[s])'
        /\ ~missed /\ ~wanted /\ ~rescan /\ \A s \in Scans : ~Owed(scan[s])
    BY TypeOKParts DEF Outstanding
  <1>1. ASSUME NEW s \in Scans, NEW f \in Folders, scan' = Done(s, f), disk' = disk,
               scan[s].pc \in {"books", "tags"},
               \A g \in Folders : Matches(g) => Matches(g)',
               disk[f] = 0 \/ Matches(f)'
        PROVE  Accounted'
    <2>1. /\ \A t \in Scans \ {s} : scan'[t] = scan[t]
          /\ scan'[s].pc = "books" /\ scan'[s].todo = scan[s].todo \ {f}
          /\ scan'[s].kind = scan[s].kind /\ scan'[s].valid = scan[s].valid
          /\ scan'[s].partial = scan[s].partial
      BY <1>0, <1>1, DoneIs
    <2>2. scan[s].todo \subseteq scan[s].valid
      BY <1>0, <1>1 DEF Scanners, WellFormed
    <2>3. Fresh(scan[s])'
      BY <1>1, <2>1, <2>2 DEF Accounted, Fresh, Full, Present
    <2>4. ASSUME NEW g \in Folders, InHand(s, g)
          PROVE  Matches(g)' \/ InHand(s, g)'
      BY <1>1, <2>1, <2>4 DEF InHand, Full
    <2> QED
      BY <1>1, <2>1, <2>3, <2>4, AccountedStays
  <1>2. ASSUME NEW s \in Scans, \A t \in Scans \ {s} : scan'[t] = scan[t],
               disk' = disk, rows' = rows, ~Full(scan[s]),
               scan'[s].pc # "tags" /\ ~Full(scan[s])'
        PROVE  Accounted'
    <2>1. Fresh(scan[s])'
      BY <1>2 DEF Fresh
    <2>2. \A g \in Folders : Matches(g) => Matches(g)'
      BY <1>2 DEF Matches
    <2>3. \A g \in Folders : ~InHand(s, g)
      BY <1>2 DEF InHand
    <2> QED
      BY <1>2, <2>1, <2>2, <2>3, AccountedStays
  <1>3. ASSUME NEW s \in Scans, BeginScan(s) PROVE Accounted'
    <2>1. /\ scan' = [scan EXCEPT ![s].pc = "walk"] /\ scan[s].pc = "begin"
          /\ disk' = disk /\ rows' = rows
      BY <1>0, <1>3 DEF BeginScan, Busy, Note, world
    <2>2. /\ scan'[s].pc = "walk" /\ \A t \in Scans \ {s} : scan'[t] = scan[t]
      BY <1>0, <2>1 DEF Scanners, Scan
    <2> QED
      BY <1>2, <2>1, <2>2 DEF Full
  <1>4. ASSUME NEW s \in Scans, EndScan(s) PROVE Accounted'
    <2>1. /\ scan[s].pc = "end" /\ disk' = disk /\ rows' = rows
          /\ ~scan[s].failed
      BY <1>0, <1>4 DEF EndScan, Owed, world
    <2>2. scan' = [scan EXCEPT ![s] = Idle]
      BY <1>0, <1>4, <2>1, Zenon DEF EndScan, Returned
    <2>3. scan'[s] = Idle /\ \A t \in Scans \ {s} : scan'[t] = scan[t]
      BY <1>0, <2>2, ScanOf
    <2>4. scan'[s].pc = "idle"
      BY <2>3 DEF Idle
    <2> QED
      BY <1>2, <2>1, <2>3, <2>4 DEF Full
  <1>5. ASSUME NEW s \in Scans, WalkFails(s) \/ PathRefused(s) PROVE FALSE
    <2>1. CASE WalkFails(s)
      <3>1. scan'[s].pc = "end" /\ scan'[s].failed
        BY <1>0, <2>1, EndedIs DEF WalkFails
      <3> QED
        BY <1>0, <3>1 DEF Owed
    <2>2. CASE PathRefused(s)
      <3>1. scan'[s].pc = "begin" /\ scan'[s].kind = "full"
        BY <1>0, <2>2 DEF PathRefused, Scanners, Idle
      <3> QED
        BY <1>0, <3>1 DEF Owed
    <2> QED
      BY <1>5, <2>1, <2>2
  <1>6. ASSUME NEW s \in Scans, Walk(s) PROVE Accounted'
    <2>1. Targeted(s) /\ scan[s].pc = "walk" /\ disk' = disk /\ rows' = rows
      BY <1>0, <1>6 DEF Walk, Owed, Targeted, world
    <2>2. (\A t \in Scans \ {s} : scan'[t] = scan[t]) /\ scan'[s].pc = "books"
          /\ scan'[s].kind = "path"
      BY <1>0, <1>6, <2>1, TargetedWalkIs
    <2> QED
      BY <1>2, <2>1, <2>2 DEF Full
  <1>17. ASSUME NEW s \in Scans, NEW f \in Folders, Visit(s, f) PROVE Accounted'
    <2>1. /\ disk' = disk /\ rows' = rows /\ Present' = Present /\ ~missed'
          /\ f \in scan[s].todo
      BY <1>0, <1>17, Zenon DEF Visit, world, Present
    <2>2. /\ \A t \in Scans \ {s} : scan'[t] = scan[t]
          /\ scan[s].pc = "visit" /\ scan'[s].pc = "visit"
          /\ scan'[s].todo = scan[s].todo \ {f} /\ scan'[s].kind = scan[s].kind
          /\ scan'[s].partial = scan[s].partial
          /\ \/ There(f) /\ scan'[s].valid = scan[s].valid \cup {f}
             \/ disk[f] = 0 /\ scan'[s].valid = scan[s].valid
      BY <1>0, <1>17, <2>1, VisitLeaves
    <2>3. Fresh(scan[s])'
      <3>1. CASE Full(scan[s])
        <4>1. disk[f] # 0
          BY <2>1, <3>1 DEF Accounted, Fresh, Present
        <4> QED
          BY <2>1, <2>2, <3>1, <4>1 DEF Accounted, Fresh
      <3>2. CASE ~Full(scan[s])
        BY <2>2, <3>2 DEF Fresh, Full
      <3> QED
        BY <3>1, <3>2
    <2>4. \A g \in Folders : Matches(g) => Matches(g)'
      BY <2>1 DEF Matches
    <2>5. \A g \in Folders : InHand(s, g) => InHand(s, g)'
      BY <2>2 DEF InHand, Full
    <2> QED
      BY <2>1, <2>2, <2>3, <2>4, <2>5, AccountedStays
  <1>18. ASSUME NEW s \in Scans, Group(s) PROVE Accounted'
    <2>1. /\ disk' = disk /\ rows' = rows /\ Present' = Present
      BY <1>18, Zenon DEF Group, world, Present
    <2>2. Fresh(scan[s])'
      BY <1>0, <1>18, <2>1, GroupIs DEF Accounted, Fresh, Full
    <2>3. \A g \in Folders : Matches(g) => Matches(g)'
      BY <2>1 DEF Matches
    <2>4. ASSUME NEW g \in Folders, InHand(s, g) PROVE InHand(s, g)'
      <3>1. Full(scan[s]) /\ scan'[s].todo = scan[s].valid /\ scan[s].todo = {}
            /\ Full(scan[s])'
        BY <1>0, <1>18, <2>4, GroupIs DEF InHand, Full
      <3>2. scan'[s].todo = Present
        BY <3>1 DEF Accounted, Fresh
      <3> QED
        BY <2>1, <3>1, <3>2 DEF InHand, Present
    <2> QED
      BY <1>0, <1>18, <2>1, <2>2, <2>3, <2>4, GroupIs, AccountedStays
  <1>7. ASSUME NEW s \in Scans, NEW f \in Folders, ReadBook(s, f) PROVE Accounted'
    <2>1. /\ scan[s].pc = "books" /\ f \in scan[s].todo /\ disk[f] # 0
          /\ disk' = disk /\ rows' = rows
      BY <1>7 DEF ReadBook, There, world
    <2>2. \A g \in Folders : Matches(g) => Matches(g)'
      BY <2>1 DEF Matches
    <2>3. CASE /\ rows[f] # None /\ rows[f].hash = disk[f]
               /\ scan' = Done(s, f)
      <3>1. Matches(f)'
        BY <2>1, <2>3 DEF Matches
      <3> QED
        BY <1>1, <2>1, <2>2, <2>3, <3>1
    <2>4. CASE scan' = [scan EXCEPT ![s].pc = "tags", ![s].book = f,
                                    ![s].hash = disk[f], ![s].existing = rows[f]]
      <3> DEFINE c == [scan[s] EXCEPT !.pc = "tags", !.book = f,
                                      !.hash = disk[f], !.existing = rows[f]]
      <3>1. scan[s] \in Scan
        BY <1>0 DEF Scanners
      <3>2. /\ c.pc = "tags" /\ c.book = f /\ c.hash = disk[f] /\ c.kind = scan[s].kind
            /\ c.valid = scan[s].valid /\ c.partial = scan[s].partial
            /\ c.todo = scan[s].todo
        BY <3>1 DEF Scan
      <3>3. scan' = [scan EXCEPT ![s] = c]
        BY <1>0, <2>4 DEF Scanners
      <3> HIDE DEF c
      <3>4. scan'[s] = c /\ \A t \in Scans \ {s} : scan'[t] = scan[t]
        BY <1>0, <3>3, ScanOf
      <3>5. Fresh(scan[s])'
        BY <2>1, <3>2, <3>4 DEF Accounted, Fresh, Full, Present
      <3>6. \A g \in Folders : InHand(s, g) => InHand(s, g)'
        BY <2>1, <3>2, <3>4 DEF InHand, Full
      <3> QED
        BY <2>1, <2>2, <3>4, <3>5, <3>6, AccountedStays
    <2> QED
      BY <1>7, <2>3, <2>4, Zenon DEF ReadBook
  <1>8. ASSUME NEW s \in Scans, NEW f \in Folders, BookFails(s, f) PROVE Accounted'
    <2>1. /\ scan' = Done(s, f) /\ disk' = disk /\ rows' = rows /\ disk[f] = 0
          /\ scan[s].pc \in {"books", "tags"}
      BY <1>0, <1>8 DEF BookFails, There, world
    <2>2. \A g \in Folders : Matches(g) => Matches(g)'
      BY <2>1 DEF Matches
    <2> QED
      BY <1>1, <2>1, <2>2
  <1>9. ASSUME NEW s \in Scans, WriteBook(s) PROVE Accounted'
    <2>1. scan[s].book \in Folders /\ scan[s].hash \in Nat /\ scan[s].pc = "tags"
          /\ scan[s].existing \in Row \cup {None}
      BY <1>0, <1>9 DEF WriteBook, Scanners, WellFormed, Scan
    <2>2. PICK f \in Folders : f = scan[s].book
      BY <2>1
    <2>3. PICK row : row = Refreshed(rows[f], scan[s].existing, scan[s].hash)
      OBVIOUS
    <2>4. /\ rows' = [rows EXCEPT ![f] = row]
          /\ (rows[f] = None) = (scan[s].existing = None)
          /\ scan' = Done(s, f) /\ disk' = disk
      BY <1>0, <1>9, <2>2, <2>3 DEF WriteBook, Tables, world
    <2>5. row \in Row /\ row.hash = scan[s].hash
      <3>1. rows[f] \in Row \cup {None}
        BY <1>0 DEF Tables
      <3>2. row \in Row
        BY <2>1, <2>3, <2>4, <3>1, RefreshedRow
      <3>3. row.hash = scan[s].hash
        BY <2>1, <2>3, <2>4, <3>1 DEF Refreshed, Row
      <3> QED
        BY <3>2, <3>3
    <2>6. scan[s].hash # 0 /\ scan[s].hash = disk[f]
      BY <2>1, <2>2 DEF Accounted, Fresh
    <2>7. \A g \in Folders : rows'[g] = IF g = f THEN row ELSE rows[g]
      BY <1>0, <2>4 DEF Tables
    <2>8. row # None
      BY <2>5, NoneAssumption
    <2>9. Matches(f)'
      BY <2>4, <2>5, <2>6, <2>7, <2>8 DEF Matches
    <2>10. \A g \in Folders : Matches(g) => Matches(g)'
      BY <2>4, <2>7, <2>9 DEF Matches
    <2> QED
      BY <1>1, <2>1, <2>4, <2>9, <2>10
  <1>10. ASSUME NEW s \in Scans, RemoveStale(s) PROVE Accounted'
    <2>1. /\ scan[s].pc = "books" /\ scan[s].todo = {} /\ disk' = disk
          /\ \/ /\ MayRemove(s)
                /\ rows' = [f \in Folders |-> IF f \in scan[s].valid THEN rows[f] ELSE None]
             \/ ~MayRemove(s) /\ rows' = rows
      BY <1>0, <1>10 DEF RemoveStale, world
    <2>2. scan'[s].pc = "end" /\ \A t \in Scans \ {s} : scan'[t] = scan[t]
      BY <1>0, <1>10, EndedIs DEF RemoveStale
    <2>3. CASE Targeted(s)
      <3>1. rows' = rows /\ ~Full(scan[s])
        BY <2>1, <2>3 DEF MayRemove, Full, Targeted
      <3> QED
        BY <1>2, <2>1, <2>2, <3>1 DEF Full
    <2>4. CASE ~Targeted(s)
      <3>1. scan[s].valid = Present /\ MayRemove(s)
        BY <2>1, <2>4 DEF Accounted, Fresh, Full, MayRemove, Targeted
      <3>2. \A f \in Folders : rows'[f] = IF disk[f] # 0 THEN rows[f] ELSE None
        BY <2>1, <3>1 DEF Present
      <3>3. \A f \in Folders : Matches(f) \/ disk[f] = 0 => Matches(f)'
        BY <2>1, <3>2 DEF Matches
      <3>4. \A f \in Folders : InHand(s, f) => disk[f] = 0
        BY <2>1 DEF InHand
      <3>5. Fresh(scan[s])'
        BY <2>2 DEF Fresh, Full
      <3> QED
        BY <2>1, <2>2, <3>3, <3>4, <3>5, AccountedStays
    <2> QED
      BY <2>3, <2>4
  <1>11. ASSUME NEW s \in Scans, NEW kind, NEW target, Called(s, kind, target),
                kind = "full"
         PROVE  FALSE
    <2> DEFINE c == [Idle EXCEPT !.kind = kind, !.target = target, !.pc = "begin"]
    <2>1. c.kind = kind /\ c.pc = "begin"
      BY DEF Idle
    <2>2. scan' = [scan EXCEPT ![s] = c]
      BY <1>11 DEF Called
    <2> HIDE DEF c
    <2>3. scan'[s] = c
      BY <1>0, <2>2, ScanOf
    <2>4. Owed(scan[s])'
      BY <1>11, <2>1, <2>3 DEF Owed
    <2> QED
      BY <1>0, <2>4
  <1>12. ASSUME NEW f \in Folders, NEW v, Changed(f, v) PROVE FALSE
    BY <1>0, <1>12 DEF Changed
  <1>13. ASSUME NEW s \in Scans,
                CallScanLibrary(s) \/ RunScan(s) \/ \E f \in Folders : Upload(s, f)
         PROVE  FALSE
    BY <1>11, <1>12, <1>13 DEF CallScanLibrary, RunScan, Upload
  <1>14. ASSUME NEW f \in Folders, Change(f) PROVE FALSE
    BY <1>12, <1>14 DEF Change
  <1>15. CASE Unmount \/ Mount \/ UNCHANGED vars
    <2>1. UNCHANGED <<scan, disk, rows>>
      BY <1>15, Zenon DEF Unmount, Mount, vars
    <2> QED
      BY <2>1, AccountedSame
  <1>16. ASSUME NEW f \in Folders, UpdateBook(f) PROVE Accounted'
    <2> DEFINE row == [rows[f] EXCEPT !.meta = "edited", !.locked = TRUE]
    <2>1. rows[f] \in Row
      BY <1>0, <1>16 DEF UpdateBook, Tables
    <2>2. row \in Row /\ row.hash = rows[f].hash
      BY <2>1 DEF Row
    <2>3. rows' = [rows EXCEPT ![f] = row] /\ UNCHANGED <<scan, disk>> /\ rows[f] # None
      BY <1>0, <1>16 DEF UpdateBook, Tables, world
    <2> HIDE DEF row
    <2>4. \A g \in Folders : rows'[g] = IF g = f THEN row ELSE rows[g]
      BY <1>0, <2>3 DEF Tables
    <2>5. row # None
      BY <2>2, NoneAssumption
    <2> QED
      BY <2>2, <2>3, <2>4, <2>5, AccountedSame
  <1> QED
    BY <1>3, <1>4, <1>5, <1>6, <1>7, <1>8, <1>9, <1>10, <1>13, <1>14, <1>15, <1>16,
       <1>17, <1>18, Zenon DEF Next, Work

\* NoChangeLost of Scanner: when no scan is under way, asked for or about to be,
\* and nothing was passed over for good, the books are those on the disk,
\* whatever changed while scans were running, for any number of folders and
\* goroutines ("no filesystem change is lost", beginScan, watch).
THEOREM ChangesAreKept == Spec => []NoChangeLost
  <1> DEFINE Good == Outstanding \/ Accounted
  <1>1. Init => Good
    BY DEF Init, Outstanding
  <1>2. TypeOK /\ OneScanAtATime /\ Good /\ [Next]_vars => Good'
    BY OutstandingStep, AccountedStep
  <1>3. ASSUME Held, Good
        PROVE  NoChangeLost
    <2>1. ASSUME \A s \in Scans : scan[s].pc = "idle", ~wanted, ~missed
          PROVE  Reconciled
      <3>1. ~rescan
        BY <1>3, <2>1 DEF Held, Working
      <3>2. \A s \in Scans : ~Owed(scan[s]) /\ ~Full(scan[s])
        BY <2>1 DEF Owed, Full
      <3>3. Accounted
        BY <1>3, <2>1, <3>1, <3>2 DEF Outstanding
      <3> QED
        BY <3>2, <3>3 DEF Accounted, InHand, Matches, Reconciled
    <2> QED
      BY <2>1 DEF NoChangeLost
  <1>4. TypeOK /\ Held /\ [Next]_vars => Held'
    BY HeldStep
  <1> HIDE DEF Good
  <1> QED
    BY <1>1, <1>2, <1>3, <1>4, HeldInit, TypeCorrect, ScansExclude, PTL DEF Spec

=============================================================================
