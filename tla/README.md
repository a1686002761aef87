# Storykeeper: a verification project

Storykeeper is a self-hosted audiobook server (Go, SQLite) with a Svelte web
client. It scans libraries of audio files on disk, streams the files, and keeps
each listener's position in each book the same on every device. This directory
holds TLA+ models of its stateful parts, TLC configurations that check them on
small instances, and proofs of theorems about them checked by TLAPS.

    tlc -workers 2 -config MCScanner.cfg MCScanner     # a run
    tlapm ProgressStoreProofs.tla                      # proofs: any ...Proofs module

`PROJECT.json` maps every definition to the lines it models and lists the
components, runs, mutants, findings, hazards and theorems. An operator whose
name starts with `Slip` is a plausible mistake in the definition that follows
it; each checked property is broken by at least one of them.

## 1. The system

| Component | State | Operations | Talks to |
|---|---|---|---|
| Progress store `internal/progress` | `progress` (one row per user and book), `progress_log`, the counter `progress_seq`, `pruneMu` globals | Report, SetPlaybackRate, ListSince, GetBook, Recent | called by the progress API; its rows cascade away with books, which the scanner removes |
| Progress API `internal/api/progress.go` | none | PUT, GET, beacon, rate, list, recent | store, then event hub |
| Event hub `internal/events`, `api/events.go` | last id, per-user replay buffer and subscribers, each with a bounded channel | Publish, Broadcast, Serve, CloseSession, CloseUser | published to by the API and the scan endpoint; read by browsers |
| Event client `events.svelte.ts` | EventSource, last ping, the map of progress events | start, connect, reconnect, stop | hub; hands progress to the reporter |
| Reporter, journal, resume `lib/player` | in flight/pending report, last acknowledged listen time; localStorage journal | report, send, accept, adopt, reconcile, flush; read and write the journal; choose a start position | player engine, progress API |
| Player engine `machine.svelte.ts`, sleep timer | status, file and position, rate, last listen time, what it expects of the element; timers | load, play, pause, seek, ended, reset, hide, show, unload; arm, tick, fade | reporter, media element |
| Scanner, watcher `internal/library` | `scanning` and `rescan` per library, books and their files and chapters; debounce timers | ScanLibrary, ScanPath, ScanAll, Watch | disk, database; asked by API, uploads, watcher, ticker |
| Book edit API | books row and `metadata_locked` | updateBook | races with the scanner for the row |
| Uploads `internal/upload`, `queue.svelte.ts` | tus data and info files; per-item state in the browser | complete, retry, sweep; pause, resume, retry, remove | moves files into a library, then ScanPath |
| Accounts, sessions, limiter `internal/auth` | users, sessions, attempt buckets | login, lookup, logout, create, update, delete | hub (closing streams) |
| Preferences, bookmarks, libraries | one row or list each | get and put | browser stores apply them optimistically |
| Reading side: browsing, facets, media, covers, pages | caches of resized covers | queries | - |

What is hard here, and what has to hold:

* **Position store.** Reports arrive late and in any order, from clocks that
  disagree. The most recent listen must win; a client that syncs by cursor must
  miss nothing; the log must explain what the row holds; edits of the rate must
  not pass for listens.
* **Event hub.** Publishers, revocations and stream handlers interleave frame by
  frame; channels fill; connections break and resume; the process restarts. No
  event may go missing silently, no channel may be closed twice, and one device
  must not cost another its stream.
* **Progress sync.** One report is in flight while the user moves on; answers,
  conflicts, events and reconciling fetches cross; the page is killed between
  any two steps. Devices must come to agree, no newest listen may be dropped, and
  what the server never got must survive in the journal.
* **Scanner.** Scans, repeats and fallbacks from four sources, over a disk that
  changes while it is read, with an admin editing rows. No two scans at once, no
  change lost, nothing removed that is still there, no edit overwritten.
* **Accounts.** Checks made before the transaction that relies on them (last
  admin, password at login), and row ids that come back. **Login limiter.**
  Fixed windows under concurrent logins.
* **Uploads.** A move of several steps that is retried, swept, done by two
  goroutines and repeated after a crash. Nothing received may be lost, nothing in
  the library overwritten. In the browser, slots and starts that come late.
* **Player engine.** An audio element that reports late, goes silent without a
  word, empties itself and refuses to play. The listener's place must not move
  back by itself, files must follow each other, and a player that cannot play
  must say so.
* **Preferences.** Optimistic saves that overlap, fail and answer late.

`PROJECT.json` lists each hazard at its line with the properties about it, or
the reason there is none.

## 2. The models

### ProgressStore (`internal/progress/store.go`)

Every store operation runs in `db.Write`, one serialised transaction, so each is
one action: `Report` (its three outcomes `ReportStale`, `ReportRejected`,
`ReportAccepted`), `SetPlaybackRate`, and `Sync`, the reader of `ListSince`.
`ScanBook` and `RemoveBook` are what the scanner does to a book's rows (ids are
reused: the table has no AUTOINCREMENT), `Restart` clears the process globals of
the pruning rule, `Tick` is the server clock.

A report carries two client clocks of which the code uses only the difference;
the model's input is that difference, negative values included. Log rows equal in
every column are one element. The server clock does not go back. Deleting a user
is left to the accounts model. A report for a missing book changes nothing and is
not an action. The bounds (`MaxTime`, `MaxSeq`, `MaxLogRows`) are guards of the
actions; the theorems hold with or without them since they are arbitrary.

### EventHub (`internal/events/hub.go`, `api/events.go`, `events.svelte.ts`)

One action per critical section of the hub's mutex (`Publish`, `Broadcast`,
`CloseSession`, `CloseUser`, `Subscribe`, `Unsubscribe`) and one per frame of a
`Serve` loop (`WriteFrame`, `EndOfStream`). A revocation is two steps, the row
(`DeleteSession`, `PurgeSessions`) and the hub, as the handlers do it; so is
opening a stream, the session check (`Connect`) and `Subscribe`. Clients lose
their connection at any moment (`Disconnect`) and come back with the last id they
saw, possibly while the server still serves their previous stream (`Slots`).
`Restart` empties the hub. An event is its id and the life of the hub that issued
it. Age-based pruning may drop any prefix of the buffer. The history variable
`owed` holds the events a client has been neither given nor excused by a resync.
A client that never received an id resumes from nothing and is owed only what
comes after its subscription: that is the code's contract, not a guarantee that
it sees everything.

`EventFeed` is the abstract specification: clients to which events are issued,
each delivered in order or excused by a refetch, and, as long as the client
listens, not for ever pending. There are no buffers, queues, streams or
connections in it. EventHub implements it under `last` and `owed`, with `excepted`
the clients that resumed from an id of an earlier life and have not refetched
since (see section 4), and `listening` those whose session stands.

### ProgressSync (`lib/player/{reporter,journal,resume}.ts`, parts of `machine.svelte.ts`)

One book of one user on several devices. A page's handlers run to completion and
interleave at each `await`: sending a report, its arrival (`Store`), the event
and the answer (`Respond`) and the handling of the answer are separate steps, and
so are the steps of a restore or reconcile. The store is reduced to one row, the
event stream to what EventFeed promises: in order, and nothing skipped but in a
resync (`Resync`), which takes from a page the first of what was still to come to it,
any number of times over. The page's player does nothing about it (section 4). An edit
of the book's rate (`EditRate`, of any client) publishes the row as it is once more.
The listener acts on a page in sight or from the lock screen.

Abstractions: one unit of time or position is more than the two seconds the code
calls the same; at most one GET is outstanding per page; no book is opened while
the flush at start runs; reports take at most `MaxDelay`; the maximum report age
is out of reach. Left out: the finished flag, undo after a jump, auto-rewind,
recovery of a suspended media element, the dialog for a conflict on screen.
`base_seq` is sent by the client and not used by the server, so it is not there.

`misled` is history. It has the devices set back by the last they heard: what a
device acts on is a record that newer news has overtaken, and the newer news has
already been there (an answer or event older than what it knew, one taken for the
answer to a listen that never arrived, or the record a restore fetched before an event
it missed: `Hears`, `TakeRestored`). And it has the devices cut off by a resync: a
paused player whose last event of the record went with it, with no other on its way
(`Resync`). A device that hears of the record after all is misled no longer.
`Converged` excuses these, the devices within the adoption threshold and those with a
listen the server was never reached with.

### Scanner (`internal/library/{scanner,scanpath,watch}.go`, `book_edit.go`)

One library. Processing a book is two steps, `ReadBook` (stat and SELECT) and
`WriteBook` (the transaction), with anyone's steps in between: `Change` of the
disk, `Unmount`/`Mount`, `UpdateBook` by an admin, and other callers
(`CallScanLibrary`, `RunScan` of the watcher, `Upload`) that find the library
claimed. `BeginScan`/`EndScan` are the two critical sections of the claim; a
targeted scan that fails falls back to a full one as the upload hook does
(`PathRefused`, `EndScan`). `Walk` reads the root and `Visit` one folder after another,
which may be unreadable, or no longer there: also because the share went, in which case
every folder not yet visited either fails or looks deleted (`vanished`). Any book may
fail (`BookFails`), and so may the removal of the stale ones, whose error the scan only
logs (`RemoveStale`). The watcher may not be told of a change (`Changed`).

Abstractions: a book is a folder and its scan hash the number of its last change;
the query and the deletes of `removeStale` are one step; groups are processed in any
order; the debounce timer and the request queue of the watcher are one flag; the walk
of a targeted scan, which removes nothing, is that of one folder. `missed` is history:
something was passed over that only a later full scan can make good (a change before
`Watch` runs or that the watcher was not told of, a failed scan, folder, book or
removal, a folder taken for gone with the share, a note thrown away). Removing a
library under a scan is not modelled, nor a book that moves under the scan.

### Accounts (`internal/auth`, `api/{users,sessions,auth_handlers,middleware}.go`)

A few requests at a time. Each is the steps it has in the code: the principal
(`BeginCall`) or the password (`BeginLogin`), the reads that check (`CheckOwner`,
`CheckUser`, `CheckLastAdmin`), the transaction (`InsertSession`, `DeleteSession`,
`CreateUser`, `UpdateUser`, `DeleteUser`, `SetGrants`), any of which may fail. Ids
are SQLite's: one more than the largest, so that of a deleted row can come back;
sessions and grants go with their user by cascade. `Restart` includes
`bootstrapAdmin`. Histories: what a session's login had verified, for whom a
grant was made, and whether another request took away what one relied on
(`crossed`). Passwords are numbers, tokens are rows; a session's expiry may happen
at any time, being a removal by id like a logout. Changing role and password in
one PATCH is left out, and the grants are those of one library.

### LoginLimiter (`internal/auth/ratelimit.go`, `api/auth_handlers.go`)

The two limiters and the login handlers between them. A limiter only compares
ages, so buckets have ages, which makes the state finite without a bound on
time. `admitted` counts, as history, what was let through in each of the last ticks,
by key: a user name of the one limiter or an address of the other, which are apart
also when they are the same string.

### Upload (`internal/upload/tus.go`, `api/upload.go`)

Two goroutines, the completion loop and `Run`, each with a `handleComplete` of its
own (`work`), which do not exclude each other. A move is its system calls:
looking up the library and making the folder (`MakeFolder`), a free name
(`PickPath`), `Rename`, or else `OpenCopy`, `FinishCopy`, `RemoveSource`; then
`RemoveInfo` and `Announce`. Each may fail, removals included: a copy that fails may
leave its destination behind (`FailCopy`), always so in a library that has gone
read-only or stale. The process may die between any two, and whether staging and
library share a file system is open. `Retry`, `Sweep` are one directory entry each. The
service comes into being with the first upload request of a process (`Start`).

tusd is external and taken as this code uses it. `retryUnmoved` takes an upload for
finished by the `Offset` in its `.info` file, which nothing in this repository writes,
so the model leaves it open: `Recorded` has the uploads whose `.info` says so once they
are finished, any set of them. For the others the retry is as good as absent, and
`SweptOnlyUnmovable` and `EventuallyMoved` say of them only what the completion loop's
one attempt is worth: not if a crash took it away (`dropped`), and no second time. If
tusd does not rewrite the file after creation, that is every upload. A library whose
mount is stale fails every call but lets `uniqueFile` look for a free name for ever
(`PickPath`). Folder and name are those of the code because two uploads meet only in the
same folder under the same name. File contents are which uploads' bytes they are and
whether they are whole. `MaxAge` (a week) does not pass while a pass of `Run` or a move
is under way, or while a finished upload waits for the completion loop. Terminating an
upload by DELETE is not modelled.

### Prefs (`internal/prefs`, `api/prefs.go`, `player/prefs.svelte.ts`)

The record of each user and the store of each device, with requests in between
that are served and answered in any order and fail before or after they were
served. Two fields stand for the five, one that localStorage keeps (the rate) and
one that it does not. `TakeLoad` includes the one-time migration, which is a save.
`keyed` marks a device whose rate the keyboard set past the store; `unsure` one
whose own requests overlapped, or whose user saved elsewhere, or a save of which
was stored though it failed: such a device may show something else than the record
until the next answer to a request of its own that nothing overlaps.

### UploadQueue (`upload/queue.svelte.ts`)

The list, the items' states and `pump()`. A first run looks for earlier uploads
and starts its transfer when that answers (`Found`), whatever has happened since:
`interrupted` marks the items for which something has. tus-js-client is external.

### PlayerEngine (`player/{machine,sleep}.svelte.ts`, `autorewind.ts`)

One record `p` holds the engine and its element; what a handler does is a function
of it, so that handlers call each other as in the code. The engine's half is
translated from the source. The element's half (external) follows the HTML media
element as far as the engine uses it: events are queued and delivered later in
order, `load()` empties the queue and rejects pending promises, the end of a file
brings `pause` and then `ended`, the pipeline can stall or die in silence, WebKit
can empty the element, the browser can refuse to play, and the system can pause
it. That the element knows its media (`Metadata`) and the engine's handler of
`loadedmetadata`, which applies the pending seek (`OnMetadata`), are two steps with
anything in between, and in between the element is at its file's start or already where
its source's fragment points. The position is counted in units of half a second or more.

`odd` names, for the properties, what a few interleavings do to the player (these
are the code's, and each exception in a property names the one it needs):
*missed*, an event that told of a stop was dropped by a load, or ignored within
the last quarter second of a file, or an element reset disarmed the play timer of
a paused player; *crossed*, a `pause` was heeded after the page had started the
player again; *overtaken*, a seek before metadata was overwritten by the pending
one. A promise whose settling task is dropped is rejected; on a dead pipeline
`play()` never settles. Chapters are not there, so the timer's "end of chapter" is
that of a book without chapters; rate, journal and reports are in other modules.

## 3. The runs

| Run | Shows | Bounds |
|---|---|---|
| `mc_progress_store` | the store's type invariant and its five properties | 1 user, 2 books, 1 device; ages before, on and past every limit; 2 seqs, 2 log rows, a clock of 3 values |
| `mc_progress_chain` (violation) | chains of ties walk the listen time back | reports only |
| `mc_event_hub` | the hub implements the feed; no panic; one stream's fate is not another's | 1 client with 2 overlapping streams, 3 ids, and 2 breaks or a break and a restart; or 2 clients with a stream each, 2 ids, 1 break |
| `mc_progress_sync` | devices converge; the newest listen goes out; the journal is resumed | 2 positions; 2 devices, time 3, no request lost, any event lost in a resync, 2 reports handled at a time and 2 events on their way to a device; or 1 device, time 4, 1 loss, 1 kill; listening and 1 act besides (a pause, seek, change or edit of the rate, leaving the page) |
| `mc_scanner` | exclusion, no lost change, sound removal, liveness | 2 folders, 2 goroutines, 3 changes, 1 edit or 1 fault (a share that goes, a change not noticed, a failing folder, book, scan or removal) |
| `mc_scanner_edit` (violation) | an edit lost to a scan under way | the same, with both |
| `mc_accounts` | sessions and grants stay with their user, the last admin is only lost by a crossing, no session of others is removed; the limiter's bound | 2 requests, 2 user ids for 3 persons, 2 sessions, 2 passwords; 2 names, 1 address, 2 logins, limits 2 and 3, a window of 2 ticks |
| `mc_accounts_admin` (violation) | two admins remove each other | 2 requests |
| `mc_upload` | nothing lost, nothing stray, nothing overwritten, sweeping, moving in the end | 2 uploads of the same name, the `.info` of one says that it is finished, 5 suffixes, 1 crash or failing call |
| `mc_browser` | player, settings and record agree; slots and transfers, every item runs | 2 devices, 2 users, 2 requests at a time, 3 changes; 3 files, 2 slots, 3 clicks |
| `mc_player` | place, boundaries, agreement with the element, sleep timer, every standstill surfaces | 2 files of 2 units, 3 acts of the listener, 2 mishaps, one less while the sleep timer is in use |
| `mc_player_pause` (violation) | a pause between a file's end and its event | 2 acts, no mishap |

Some MC modules hold two instances, told apart by a variable that never changes
(`alone`, `part`): two components without common state, or a wide and a deep
instance of one. Every behaviour of such a run is one of the instance it chose, so
a property holds of the run exactly if it holds of both; where a property has
nothing to do with the other part it holds there because its variables stand still.

Why the bounds are enough. The store's rules compare two listens at a time, and
the ages straddle the tie window, the maximum age and the retention; the proofs
then remove the bounds. In the hub three events overflow a buffer of two and a
queue of one, two slots overlap an old stream with a new one, and two lives are
what a stale id needs. In the sync model a device needs one report in flight, one
waiting and one foreign event; the runs have room for that: opening the book, playing
and reporting what is heard take no act, on either device, and the one act makes a
paused device, or sends it back. The clocks of the
devices agree in the runs (`Skew` is a parameter): the code uses differences of one
device's clock, and the server's. For the scanner, one scan under way, one call
turned away and a change for each is the interesting case. For accounts, two
requests cross pairwise, and a third person takes the id of a deleted one. For
uploads, two of one name contend for a path, and a failure, a retry and the sweep
follow each other without a bound on rounds; one mishap is one crash at any step, and
of the two uploads the retry can tell one to be finished. What needs two mishaps at once
in the code, such as a failing copy in a library that just went read-only, needs one in
the model, where what the state makes fail costs nothing.
The queue has one file more than slots. The player has a boundary between files, a
last file, and room to play, seek and pause around any two mishaps.

`CHECK_DEADLOCK FALSE` is in the configurations whose models run out of bounded
events and really stop; the scanner's and the upload server's tickers never stop
and deadlock is checked there.

**Fairness.** `ProgressStore`, `ProgressSync`, `Accounts`, `LoginLimiter` and
`Prefs` have safety properties only and state none. Elsewhere it is weak, and on
what the code or the platform goes on doing by itself:

* `EventHub`: Go runs every `Serve` goroutine (`Subscribe`, `WriteFrame`,
  `EndOfStream`, `Unsubscribe`), and a client retries for as long as it runs
  (`Connect`: EventSource itself, and the watchdog every ten seconds). Nobody need
  publish, break or restart.
* `Scanner`: scanning goroutines run (`Work`), the twelve-hour ticker of `Watch`
  ticks (`CallScanLibrary`), and the share comes back some day (`Mount`). The
  watcher's own timer is not assumed to fire.
* `Upload`: both goroutines run, and the hourly ticker ticks. Nobody has to upload
  anything, so after a crash the service, which starts with the first upload, may
  never come back; `EventuallyMoved` is therefore conditional on the service being
  up and the library writable from some point on.
* `UploadQueue`: lookups answer and transfers end, one way or the other.
* `PlayerEngine`: queued media events are delivered and the page's timers fire
  while the page lives. Neither the network's recovery, nor metadata, nor the
  listener's next press is assumed.

## 4. Where the code and its words disagree

Four runs each end in a counterexample; `PROJECT.json` quotes the lines.

1. **Old listens can clobber newer positions** (`OldListenCannotClobber`). Within
   the tie window a larger position wins and its older listen time is stored, so
   a chain of reports, each within the window of the one before, walks the time
   back until a far older listen is the newest on record.
2. **An edit lost to a scan under way** (`EditsSurvive`). The scanner decides by
   the lock it read before it worked on the files; the edit is overwritten and,
   the row being locked from then on, stays so.
3. **Two admins remove each other** (`AdminRemains`). The role and the number of
   other admins are read before the transaction that acts on them. The passing
   run shows that a crossing of this kind is the only way to be left without one.
4. **A pause at the end of a file does not show** (`DeliberatePauseShows`). The
   `pause` event waits behind `ended`, whose handler loads the next file, which
   drops it: the player says "playing" and is not.

Other disagreements met while modelling have no run of their own. The passing
properties either name them as exceptions or do not depend on them.

* *Hub.* Event ids start at 1 again after a restart; an id of the earlier life
  that is not before the new buffer is taken for a place in the new life: the client
  gets a replay with a gap, or none, and no resync (`excepted` in EventHub). A session
  is checked in the middleware and its stream registered later, so a revocation between
  the two leaves a revoked session with a stream.
* *Progress.* Seek and pause journal their position as synced before it is sent:
  killed while an older report is unanswered, the next page takes that report's
  record for somebody's newer listen. `adopt()` seeks, and a seek counts as a
  listen: a delayed event, adopted while the device's own newer report is
  unanswered, overwrites it. An answer that newer news has overtaken sets a paused
  device back, and nothing corrects it until the page is next shown (`misled`).
  `events.svelte.ts:105-109` answers a resync by emptying its map and counting it, on
  which the lists refetch but the reporter does not: a page in sight with a paused
  player stays at the old position until it is next shown (`misled`). An edit of the
  rate publishes the row under the device that last listened; that device's reporter
  takes it for an answer and marks its journal synced, whatever it holds by then.
* *Scanner.* `fs.go:40-42` says that an unmounted share is always an error; if it goes
  while it is walked, the folders not yet read are passed over as deleted
  (`fs.go:49-51`), the walk counts as complete, and their books go with everybody's
  progress (`vanished`). `scanner.go:80-83` says that a request noted during a scan
  makes it repeat so that no change is lost, and `scanpath.go:29-32` that the next scan
  picks it up: the note of a scan that fails and that of a targeted one are deleted by
  `endScan` and nobody acts on them until the next change or the twelve-hourly scan.
  A failing `removeStale` is logged and the scan reports success (`scanner.go:178`).
* *Limiter.* Windows are fixed: up to twice the limit passes in one window's
  length around a reset, which is what `LimitHolds` states.
* *Uploads.* The sweep removes by age alone, so also a finished upload whose move
  kept failing, where the comment speaks of incomplete ones. `retryUnmoved` needs an
  `Offset` in the `.info` file that this code does not write (`Recorded`); without it a
  finished upload whose move failed is never retried, and one that a crash caught is
  swept untried, where the comment on `retryUnmoved` speaks of finding them. No other
  finished upload is swept (`SweptOnlyUnmovable`). A copy that fails is removed without
  looking whether that worked (`tus.go:410`), so an unfinished file can stay (`torn`).
  `uniqueFile` tries the next name after any error but "not found": on a stale mount, or
  when a name of up to 200 characters and its suffix are longer than the file system
  takes, it does not return and the completion loop stands still.
* *Upload queue.* An item paused or removed while its earlier uploads are looked up
  is started all the same and holds no slot (`interrupted`).
* *Preferences.* The one-time migration can overwrite a rate of 1.0 chosen on
  purpose, or one changed while it loads; when its save fails, the local rate is
  taken back. The keyboard sets the engine's rate past the store (`keyed`). The
  settings' slider saves without waiting for the save before it, and a load under
  way for one user is joined by the next user's sign-in.
* *Player* (`odd`). Between the element's metadata and the handler that applies the
  pending seek, a page change or a pause reads the element's own place and keeps it as
  the listener's (`syncPosition` asks for metadata, not whether a seek is pending). A
  seek before metadata is overwritten by the pending one; a
  system pause in the last quarter second of a file is ignored; a queued `pause`
  is heeded after the page started playing again; an element reset under a paused
  player with `play()` under way disarms the play timer and tells nobody. Without
  a property: playing on return to the page cancels the timer's fade; a `play()`
  rejected after `markFinished` or `unload` sets "suspended"; `load` leaves
  `needsGesture` as it was.

## 5. The proofs

Each `...Proofs` module extends the module it is about and proves its theorems for
all values of the constants under that module's ASSUMEs, which ask only for what
the code has (counts are natural numbers, a placeholder is none of the values it
stands beside, finitely many folders or files) and which TLC evaluates on every
run. No theorem uses fairness. All have the same shape: an inductive
invariant, one lemma per action that the action keeps it, an `InvHolds`, and the
properties as consequences of the invariant or, for an action property, of it and
the actions. Every inductive invariant was model-checked before it was proved.

**ProgressStoreProofs**, for all users, books, devices, ages and bounds.
`TypeCorrect`; `Invariance`, with `SeqBounded` as the strengthening: no seq on
record, in a client's copy or in its cursor exceeds the counter. That a fresh seq
is not already behind a client's cursor follows only from it.
`CursorSyncIsComplete`, `EveryListenIsLogged`, `StoredListensAreSound`,
`RateEditsAreNotListens` follow, and `ReplacedByWinner`, an action property.
`StepCases` sorts every step into the few kinds of effect that matter (an accepted
report, an edited rate, a sync, a removal, anything quiet), each described by an
`...Effect` lemma that hides the action; the invariant is kept kind by kind.

**ScannerProofs**, for any folders, goroutines and bounds.

* `TypeCorrect`, by the parts `Flags`, `Tables`, `Scanners`.
* `ScansExclude`: `OneScanAtATime`, inductive on top of `TypeOK`: the claim is
  made only when nobody works and given up only by the one who does.
* `SoundRemoval`, the action property `RemovedOnlyIfGone`, from `WalkSound`: from the
  moment a full scan has read the root, unless it has met a folder it could not read, a
  folder that it has neither found nor still to visit is not there, changed after that
  moment, or was taken for gone with the share. Only `RemoveStale` removes rows
  (`RemovalCases`).
* `ChangesAreKept`: `NoChangeLost`. It speaks of quiet states only; what holds in
  all is that a full scan is `Outstanding` (asked for, noted, about to walk, failed, or
  something passed over for good), or every folder is `Accounted` for: its row is what
  is on disk, or it is in the hands of the scan under way (`InHand`), whose knowledge of
  the disk is still so (`Fresh`). `Held`: the claim and the note are somebody's.

**EventHubProofs**, for any users, clients, slots and capacities.

* `InvHolds`: buffers, queues and replays ascend, one after the other; an attached
  stream has still to write every event its client is owed, or begins with a
  resync, or belongs to a client the code excepts (`Serves`); what a client is owed
  in this life can be found in the buffer or is seen to be missing from it
  (`Found`). Without the last, a reconnection could not be shown to owe nothing.
* `ChannelsClosedOnce`: `NoChannelPanic`. `StreamsDroppedForCause`: `DroppedForCause`.
* `ImplementsFeedSafety`: `Spec => Feed!FeedSafety`, the safety half of the
  refinement of EventFeed. `FeedInitMaps` maps the initial states, and
  `FeedStepMaps` every step to `Issue`, `Deliver`, a mistake or refetch, a
  departure, or a stutter. The liveness half is the run's.

**AccountsProofs**, for any number of requests, users, sessions and passwords.
`NextId` is not in use, by well-founded choice of the largest id. `InvHolds` adds
to the tables what each request relies on at each of its steps; `TypeCorrect`,
`RowsAreOfTheirUser` and `OthersSessionsAreSpared` follow.
`LastAdminLostOnlyByCrossing` needs most of it: a removal that nobody crossed
since its check leaves an admin, as every step that takes one away marks the
removals in hand. That proof found the history too narrow: it marked nobody when a
promotion went through, and a delete that had found its user to be no admin, who
is promoted before the delete's transaction, also leaves none (`Misled`).
`LimiterTypeCorrect` is of the login limiter beside it, whose type invariant is
inductive as it stands (a login has a name and an address to be counted by), and
`MCTypeCorrect` of the two together.

`LimitIsHeld` is `LimitHolds` for any limits and any length of the window. What is
inductive (`FewEnough`) is said of each key and its bucket: once the bucket has
expired or is gone, less than one limit is left in the window; before, the ticks
since it was started hold fewer than it counts, and the whole window less than one
limit more than it counts. The sums are values of a
recursive function (`Attempts`), of which three facts are needed: what a tick does to
them, what one attempt more does, and that nothing adds up to nothing. Each is an
induction over the ticks, carried out as membership of the set of numbers it holds
of (`InEveryNat`), which needs no operator as parameter.

**BrowserProofs**, of the two stores of the browser beside the player.

*Prefs*, for any devices, users, values and requests at a time. Agreement
is of quiet devices; what makes it inductive is that a device that is not `unsure`
has one request at most, and that what the request will show or go back to is the
record (`Truthful`), that one load goes out at a time (`OneLoad`) and with a user
(`LoadsCarry`). `PrefsTypeCorrect`, `PlayerAndServerAgree` (`InAgreement`).

*UploadQueue*, for any finite set of files, slots and clicks. What is under
way for an item is what its slot is for, and a lookup that was interrupted adds one
transfer, never two (`ItemSound`); the items with a slot number at most
`MaxConcurrent`. `pump()` is a loop; its step is described by `Without`, and the
invariant is stated of lists and maps rather than of variables so that it can be
said of the state pump finds and of the one it leaves. `QueueTypeCorrect`,
`TransfersAreCapped`, and `BrowserTypeCorrect` of both stores in one page.

**UploadProofs**, for any uploads and metadata, suffixes, crashes and failures
(there is an upload, and the placeholder for no file is no file). The invariant
follows an upload's bytes: staged with its `.info` until it is gone (`StagingSound`),
at the path a goroutine has chosen in the state that its step says, unless the
other goroutine took the same path (`WorkSound`), in the library once gone
(`Arrived`); nothing unfinished lies about but what is being copied, was torn by a
crash or a copy that could not be removed, or is contested (`NoLitter`); an upload whose
move was not repeated has one copy (`MovedOnce`). That nothing is swept untried has two
halves, for an upload may be one the retry does not know to be finished (`Recorded` is
any set of uploads): one that is complete and still staged waits for the completion loop,
is in hand, failed to move, or was dropped by a crash (`Handled`), and those the retry
does know it has tried when the sweep begins (`Tried`). `NothingIsLost`,
`NothingIsStray`, and the action properties `LibraryIsKept` and
`SweptOnlyAfterTrying`.

**ProgressSyncProofs**, for any devices, skews of their clocks, delays, losses and
kills. A page has one request on its way at most and what comes back answers it
(`OneExchange`); an entry that is being flushed stays as it is, and its answer is a
record at least as recent (`Flushes`); until it is resumed from, the journal is what
the last page left, or an answer as recent (`LeftStands`).

* `NewestPositionIsReported`: `NewestIsReported`.
* `ConvergingHolds`, `DevicesConverge`: `Converged`. At every moment a paused device
  agrees with the record or is excused; or it is still to hear of it, from its stream
  or from an event not published yet (`News`); or the record is in an answer on its way
  (`Answered`); or the device has a report of its own out or waiting, which will decide
  (`Asserts`). When all is quiet only the first is left. A resync takes news away, and
  what is left to a paused device then is one of the others, or it was its last
  (`ResyncKeeps`, `ResyncConverges`, `LaterNews`). The first form of `Converged` held without
  kills and within the run's bounds only: an answer overtaken by newer news takes a
  device back with nothing left to correct it, which the induction met at once.
  `misled` now says which steps do that, and the theorem that nothing else does.
* `UnsyncedListenIsResumed`: the action property `UnsyncedIsResumed`. Its first
  form compared a listen on a device's clock with the server's record; with clocks
  that disagree that says little, and TLC refuted it as soon as one device ran
  fast. It now compares by the server's clock, as the age in a report does.

**PlayerProofs**, for any number of files of any length, of acts and of mishaps.
`PlayerInvHolds` is of one record, engine and element and the events between them;
`InStep` speaks of it when no event is to come, so the invariant says what the ones
to come will tell:

* `Queued`: an event that says the element started either still tells the truth or
  is followed by a pause, unless one went missing; a pause was asked for.
* `Agrees`: an engine that says it plays while the element does not is going to be
  told (`Stops`), offers to resume, or is in a handler whose promise was rejected.
* `Wanted`, `Promised`: what plays was meant to; a start that came before the
  metadata is still owed an answer.
* `Settled`: the element has its media and the engine has heard of it. Between the two
  the pending seek is still to be applied.
* `Placed`, `InFile`: the place of a settled element, or the one the pending seek will
  take it to, is not behind the engine's, unless a seek overtook it.
* `EndAhead`, `Rested`, `Bookless`, `Flags`: the element on its own, the end of a
  file that the engine has not heard of yet, the player at the end and without a book.

One handler calls another (`play`, `seekTo`, `setSource`, `finish`) on a record it
has half changed, so each method has a lemma of its own about any record of which
`Base`, all of that but `Agrees`, holds; `Alike` says which changes the invariant
does not see. From the invariant and what each action adds (`Onward`, `Willing`)
follow `PlayerTypeCorrect`, `StaysInStep`, and the action properties
`PlaysOnAtBoundaries` and `PlaceAdvances`.

**What stays with TLC.** Liveness (`EveryItemRuns`, `EventuallyMoved`,
`EventuallyReconciled`, `Surfaced`, `SleepStops`, and the liveness half of
`ImplementsFeed`): beyond this prover, as is ENABLED. Every invariant and every action
property that a passing run checks is a theorem.

## 6. What is not modelled

* Tags, sidecars, chapters, covers and grouping: functions of file contents,
  without state, whose unit tests reach what they compute.
* Browsing, search, facets, media and cover serving, pages and widgets: queries,
  file I/O and presentation. Bookmarks and the editing of libraries are single
  statements.
* HTTP plumbing (routing, headers, encoding, shutdown) and migrations.
* A share that leaves an empty mount point behind: to the scanner, and so to a
  model of it, it is a library whose folders were all deleted.
* Removing a library under a scan, and a DELETE of an upload: each adds an actor to
  a model that is at its bound.

## 7. Plan

Every component with state of its own is modelled, and every safety property is
proved. What could come next:

1. **ProgressSync with prompt answers**: how many ties and overtaken answers it takes to
   leave a device misled, and that a page shown again is misled no longer, as a liveness
   property of a run with relaunches on two devices.
2. **The halves that stay with TLC**: liveness, should the prover come to know ENABLED.
