---------------------------- MODULE PlayerEngine ----------------------------
(***************************************************************************)
(* The player (web/src/lib/player/machine.svelte.ts) on its one audio      *)
(* element, with the sleep timer (sleep.svelte.ts).                        *)
(*                                                                         *)
(* A book is Files files of Units units; its timeline is the sum of them.  *)
(* The engine follows the element by events that arrive later, in order,   *)
(* from the element's task queue; load() empties that queue.  Everything   *)
(* one handler does is a function of the record p, so that handlers call   *)
(* each other as in the code; rejected promises are caught at its end.     *)
(* The element is external: it is modelled as far as the engine uses it.   *)
(***************************************************************************)
EXTENDS Integers, SequencesExt

CONSTANTS
    Files,          \* files of the book
    Units,          \* length of a file; a unit is half a second or more
    None,
    MaxClicks,      \* acts of the listener, a bound of the model
    MaxMishaps      \* stalls, resets, refusals and so on, likewise

ASSUME PlayerAssumption ==
    /\ Files \in Nat \ {0} /\ Units \in Nat \ {0, 1}
    /\ MaxClicks \in Nat /\ MaxMishaps \in Nat
    /\ None \notin Nat

VARIABLES
    p,              \* engine and element
    sleep,          \* the sleep timer's mode
    mark,           \* the file it was armed in
    page,           \* "visible", "hidden" or "away": hidden for over 30 s
    slept,          \* history: it fired, and nobody pressed play since
    clicks,
    mishaps

playerVars == <<p, sleep, mark, page, slept, clicks, mishaps>>

Length == Files * Units
Places == 0..Length

\* The engine's fields, then the element's, then two histories.
Fresh ==
    [book |-> FALSE, status |-> "idle", file |-> 0, pos |-> 0,
     want |-> FALSE, reload |-> FALSE, seek |-> None, expect |-> FALSE,
     stale |-> FALSE, gesture |-> FALSE, timer |-> FALSE, fade |-> FALSE,
     rest |-> "none",           \* how long ago it entered 'paused'
     src |-> FALSE, ready |-> FALSE, time |-> 0, playing |-> FALSE,
     ended |-> FALSE, pipe |-> "ok",
     plays |-> {},              \* play() calls not settled
     rejected |-> {},           \* those rejected in this step
     tasks |-> <<>>,            \* events to come: a kind and the calls it settles
     asked |-> FALSE,           \* a stop was asked for since the last play()
     odd |-> {}]                \* surprises met since the last load

Kinds == {"emptied", "metadata", "playing", "resolved", "pause", "end", "error"}
Calls == {"play", "soft"}       \* play()'s own, and one with a short catch

\* Nothing plays without a book; what the element owes is of a known kind.
PlayerTypeOK ==
    /\ p.status \in {"idle", "loading", "paused", "playing", "suspended", "ended"}
    /\ p.file \in 0..Files - 1 /\ p.pos \in Places
    /\ p.seek \in (0..Units) \cup {None} /\ p.time \in 0..Units
    /\ p.rest \in {"none", "brief", "while", "long"}
    /\ p.pipe \in {"ok", "stalled", "dead"}
    /\ p.rejected = {} /\ p.plays \subseteq Calls
    /\ \A i \in DOMAIN p.tasks : p.tasks[i] \in Kinds \X SUBSET Calls
    /\ ~p.book => ~p.want /\ ~p.playing /\ p.status \in {"idle", "suspended"}
    /\ sleep \in {"off", "minutes", "chapter"} /\ mark \in 0..Files - 1
    /\ page \in {"visible", "hidden", "away"} /\ slept \in BOOLEAN
    /\ clicks \in 0..MaxClicks /\ mishaps \in 0..MaxMishaps

-----------------------------------------------------------------------------
(* The element.                                                            *)

Owes(q, kind) == \E i \in DOMAIN q.tasks : q.tasks[i][1] = kind
Owed(q) == UNION {q.tasks[i][2] : i \in DOMAIN q.tasks}
Queue(q, kind) ==
    [q EXCEPT !.tasks = Append(@, <<kind, q.plays>>), !.plays = {}]

\* Sound is coming out.
Moving(q) == q.playing /\ q.ready /\ q.pipe = "ok"

\* load(): silent, without media, its queue dropped, its promises rejected.
Emptied(q) ==
    [q EXCEPT !.ready = FALSE, !.time = 0, !.playing = FALSE, !.ended = FALSE,
              !.pipe = "ok", !.rejected = @ \cup q.plays \cup Owed(q),
              !.plays = {},
              !.tasks = IF q.src THEN << <<"emptied", {}>> >> ELSE <<>>,
              !.odd = IF Owes(q, "pause") \/ (Owes(q, "emptied") /\ ~q.expect)
                      THEN @ \cup {"missed"} ELSE @]

\* play(): the browser may refuse; on a dead pipeline it never settles.
StartElement(q, call, ok) ==
    LET s == [q EXCEPT !.playing = TRUE, !.plays = @ \cup {call},
                       !.time = IF q.ended THEN 0 ELSE @, !.ended = FALSE,
                       !.odd = IF q.ended THEN @ \cup {"overtaken"} ELSE @]
    IN  IF ~ok /\ ~q.playing THEN [q EXCEPT !.rejected = @ \cup {call}]
        ELSE IF ~q.ready \/ q.pipe # "ok" THEN s
        ELSE Queue(s, IF q.playing THEN "resolved" ELSE "playing")

\* pause(): at once, and its event later.
PauseElement(q) ==
    IF q.playing THEN Queue([q EXCEPT !.playing = FALSE], "pause")
    ELSE q

\* (Operators whose name starts with "Slip" are the mistakes the model checker
\* is asked to notice: no action uses them.)
\* The pause that goes with an end is taken for the listener's.
SlipAtEndOfFile(q) == FALSE

AtEndOfFile(q) == q.ready /\ (q.ended \/ q.time = Units)

-----------------------------------------------------------------------------
(* The engine's methods.                                                   *)

\* locate(): never the very end of a file, where nothing would play.
FileAt(place) == IF place = Length THEN Files - 1 ELSE place \div Units
OffsetAt(place) ==
    LET offset == place - FileAt(place) * Units
    IN  IF offset = Units THEN Units - 1 ELSE offset

\* The file p.file, from an offset on.
SetSrc(q, offset) ==
    [Emptied(q) EXCEPT !.seek = offset, !.expect = TRUE, !.stale = FALSE,
                       !.src = TRUE, !.odd = @ \ {"overtaken"}]

\* The element is believed at any time.
SlipSyncPosition(q) == [q EXCEPT !.pos = q.file * Units + q.time]

SyncPosition(q) ==
    IF ~q.stale /\ q.ready THEN [q EXCEPT !.pos = q.file * Units + q.time] ELSE q

SeekTo(q, place, ok) ==
    LET s == [q EXCEPT !.pos = place, !.file = FileAt(place),
                       !.status = IF @ # "ended" THEN @
                                  ELSE IF q.want THEN "loading" ELSE "paused"]
        o == OffsetAt(place)
    IN  IF s.file = q.file /\ ~q.stale
        THEN [s EXCEPT !.time = o, !.ended = FALSE,
                       !.odd = IF q.ready /\ q.seek = None THEN @
                               ELSE @ \cup {"overtaken"}]
        ELSE IF q.want THEN StartElement(SetSrc(s, o), "soft", ok)
        ELSE SetSrc(s, o)

\* autoRewindMs(): nothing within 10 s, then a unit.
Rewinds(rest) == rest \in {"while", "long"}

Play(q, auto, ok) ==
    LET rested == IF q.status = "paused" THEN q.rest ELSE "none"
        s == [q EXCEPT !.rest = "none", !.fade = FALSE, !.want = TRUE,
                       !.asked = Owes(q, "pause")]
        t == IF q.status = "ended" THEN SeekTo(s, 0, ok)
             ELSE IF ~auto /\ Rewinds(rested)
             THEN SeekTo(s, IF q.pos = 0 THEN 0 ELSE q.pos - 1, ok)
             ELSE s
        u == IF t.reload \/ (rested = "long" /\ page # "visible")
             THEN SetSrc([t EXCEPT !.reload = FALSE], t.pos - t.file * Units)
             ELSE t
    IN  IF ~q.book THEN q
        ELSE StartElement([u EXCEPT !.timer = TRUE], "play", ok)

Pause(q) ==
    PauseElement([q EXCEPT !.timer = FALSE, !.want = FALSE, !.asked = TRUE])

LoadBook(q, place) ==
    LET s == [q EXCEPT !.book = TRUE, !.status = "loading", !.rest = "none",
                       !.file = FileAt(place), !.pos = place]
    IN  [SetSrc(s, OffsetAt(place)) EXCEPT !.odd = {}]

\* It stays willing to play.
SlipUnloadBook(q) ==
    [Fresh EXCEPT !.want = q.want, !.expect = TRUE, !.tasks = Emptied(q).tasks,
                  !.rejected = Emptied(q).rejected]

\* Everything but the element and an expected 'emptied' is as at the start.
UnloadBook(q) ==
    LET s == Emptied(PauseElement(q))
    IN  [Fresh EXCEPT !.expect = TRUE, !.tasks = s.tasks, !.rejected = s.rejected]

Finish(q) ==
    LET s == PauseElement([q EXCEPT !.fade = FALSE, !.want = FALSE,
                                    !.file = Files - 1, !.asked = TRUE])
    IN  [SetSrc(s, Units - 1) EXCEPT !.pos = Length, !.status = "ended"]

Suspend(q) == [q EXCEPT !.status = "suspended", !.gesture = TRUE]

\* Nobody is told.
SlipOnElementReset(q) ==
    [q EXCEPT !.stale = TRUE, !.seek = None, !.reload = TRUE, !.timer = FALSE]

OnElementReset(q) ==
    LET s == [q EXCEPT !.stale = TRUE, !.seek = None, !.reload = TRUE,
                       !.timer = FALSE]
    IN  IF ~q.book THEN q
        ELSE IF q.status \in {"playing", "loading"} THEN Suspend(s)
        ELSE [s EXCEPT !.odd = IF q.timer THEN @ \cup {"missed"} ELSE @]

\* The handler of 'pause'.
OnPause(q) ==
    LET stops == [q EXCEPT !.want = FALSE,
                           !.status = IF @ = "suspended" THEN @ ELSE "paused",
                           !.rest = IF q.status = "suspended" THEN @ ELSE "brief",
                           !.odd = IF q.playing THEN @ \cup {"crossed"} ELSE @]
    IN  IF ~q.book \/ q.status = "ended" THEN q
        ELSE IF q.want /\ AtEndOfFile(q)
        THEN [q EXCEPT !.odd = IF q.ended THEN @ ELSE @ \cup {"missed"}]
        ELSE SyncPosition(stops)

\* The handler of 'loadedmetadata'.
OnMetadata(q) ==
    [q EXCEPT !.expect = FALSE, !.time = IF q.seek = None THEN @ ELSE q.seek,
              !.seek = None]

OnPlaying(q) ==
    [q EXCEPT !.timer = FALSE, !.status = "playing", !.gesture = FALSE]

OnEnded(q, ok) ==
    LET next == SetSrc([q EXCEPT !.file = @ + 1, !.pos = (q.file + 1) * Units], 0)
    IN  IF ~q.book THEN q
        ELSE IF q.file = Files - 1
        THEN [q EXCEPT !.status = "ended", !.want = FALSE, !.pos = Length,
                       !.odd = IF q.ended THEN @ ELSE @ \cup {"crossed"}]
        ELSE IF q.want THEN StartElement(next, "soft", ok)
        ELSE next

\* The catch handlers of play().
Caught(q) ==
    LET s == [q EXCEPT !.rejected = {}]
    IN  IF "play" \in q.rejected THEN Suspend([s EXCEPT !.timer = FALSE])
        ELSE IF "soft" \in q.rejected THEN [s EXCEPT !.gesture = TRUE]
        ELSE s

-----------------------------------------------------------------------------
PlayerInit ==
    /\ p = Fresh /\ sleep = "off" /\ mark = 0 /\ page = "visible"
    /\ slept = FALSE /\ clicks = 0 /\ mishaps = 0

Click == clicks < MaxClicks /\ clicks' = clicks + 1
Mishap == mishaps < MaxMishaps /\ mishaps' = mishaps + 1
Permits(ok) == IF ok THEN UNCHANGED mishaps ELSE Mishap

-----------------------------------------------------------------------------
(* The listener.  A player bar is there only while a book is loaded.       *)

\* The relaunch puts the last book back, paused.
Restore(place) ==
    /\ Click /\ ~p.book
    /\ p' = Caught([LoadBook(p, place) EXCEPT !.status = "paused"])
    /\ UNCHANGED <<sleep, mark, page, slept, mishaps>>

Load(place, ok) ==
    /\ Click /\ Permits(ok) /\ page = "visible"
    /\ p' = Caught(Play(LoadBook(p, place), TRUE, ok))
    /\ slept' = FALSE
    /\ UNCHANGED <<sleep, mark, page>>

PressPlay(ok) ==
    /\ Click /\ Permits(ok) /\ p.book
    /\ p' = Caught(Play(p, FALSE, ok))
    /\ slept' = FALSE
    /\ UNCHANGED <<sleep, mark, page>>

PressPause ==
    /\ Click /\ p.book
    /\ p' = Caught(Pause(p))
    /\ UNCHANGED <<sleep, mark, page, slept, mishaps>>

Seek(place, ok) ==
    /\ Click /\ Permits(ok) /\ p.book
    /\ p' = Caught(SeekTo(p, place, ok))
    /\ UNCHANGED <<sleep, mark, page, slept>>

MarkFinished(finished) ==
    /\ Click /\ p.book
    /\ p' = IF finished THEN Caught(Finish(p))
            ELSE [p EXCEPT !.status = IF @ = "ended" THEN "paused" ELSE @]
    /\ UNCHANGED <<sleep, mark, page, slept, mishaps>>

Unload ==
    /\ Click /\ p.book
    /\ p' = Caught(UnloadBook(p))
    /\ UNCHANGED <<sleep, mark, page, slept, mishaps>>

SetSleep(mode) ==
    /\ Click /\ p.book
    /\ sleep' = mode /\ mark' = IF mode = "off" THEN 0 ELSE p.file
    /\ p' = IF mode = "off" THEN p ELSE [p EXCEPT !.fade = FALSE]
    /\ slept' = (slept /\ mode = "off")
    /\ UNCHANGED <<page, mishaps>>

-----------------------------------------------------------------------------
(* Timers.                                                                 *)

\* The time passes and nobody is told.
SlipPlayTimeout ==
    /\ p.timer /\ p.tasks = <<>>
    /\ p' = [p EXCEPT !.timer = FALSE]
    /\ UNCHANGED <<sleep, mark, page, slept, clicks, mishaps>>

\* Ten seconds after play() without a 'playing'.
PlayTimeout ==
    /\ p.timer /\ p.tasks = <<>>
    /\ LET s == [p EXCEPT !.timer = FALSE]
       IN  p' = IF ~p.book \/ ~p.want \/ p.status = "playing" THEN s
                ELSE Suspend([s EXCEPT !.reload = TRUE])
    /\ UNCHANGED <<sleep, mark, page, slept, clicks, mishaps>>

\* The position stood still for over four seconds.
Watchdog ==
    /\ p.status = "playing" /\ p.playing /\ ~Moving(p) /\ p.tasks = <<>>
    /\ p' = Suspend(p)
    /\ UNCHANGED <<sleep, mark, page, slept, clicks, mishaps>>

\* A fade whose player stopped by itself is only dropped.
SlipFadeTick ==
    /\ p.fade
    /\ LET s == [p EXCEPT !.fade = FALSE]
       IN  p' = IF p.status = "playing" THEN Caught(Pause(s)) ELSE s
    /\ UNCHANGED <<sleep, mark, page, slept, clicks, mishaps>>

\* fadeOutAndPause(), once it is quiet or the player stopped by itself.
FadeTick ==
    /\ p.fade
    /\ p' = Caught(Pause([p EXCEPT !.fade = FALSE]))
    /\ UNCHANGED <<sleep, mark, page, slept, clicks, mishaps>>

Fire ==
    /\ sleep' = "off" /\ mark' = 0 /\ slept' = TRUE
    /\ p' = Caught(IF p.status = "playing" THEN [p EXCEPT !.fade = TRUE]
                   ELSE Pause([p EXCEPT !.fade = FALSE]))

SleepTick ==
    /\ sleep # "off"
    /\ IF ~p.book THEN sleep' = "off" /\ mark' = 0 /\ UNCHANGED <<p, slept>>
       ELSE IF \/ p.status = "playing" /\ (sleep = "minutes" \/ p.file # mark)
               \/ p.status = "ended" /\ sleep = "chapter"
       THEN Fire
       ELSE /\ sleep = "chapter" /\ p.status # "playing"
            /\ mark' = p.file /\ UNCHANGED <<p, sleep, slept>>
    /\ UNCHANGED <<page, clicks, mishaps>>

\* The pause grows longer.
RestOn ==
    /\ p.rest \in {"brief", "while"}
    /\ p' = [p EXCEPT !.rest = IF @ = "brief" THEN "while" ELSE "long"]
    /\ UNCHANGED <<sleep, mark, page, slept, clicks, mishaps>>

-----------------------------------------------------------------------------
(* The page.                                                               *)

Hide ==
    /\ Click /\ page = "visible" /\ page' = "hidden"
    /\ p' = IF p.book THEN SyncPosition(p) ELSE p
    /\ UNCHANGED <<sleep, mark, slept, mishaps>>

\* Hidden for over 30 s; the audio session of a paused element dies.
StayAway ==
    /\ page = "hidden" /\ page' = "away"
    /\ p' = IF p.src /\ ~p.playing THEN [p EXCEPT !.pipe = "dead"] ELSE p
    /\ UNCHANGED <<sleep, mark, slept, clicks, mishaps>>

\* A restart by the page itself ends a fade of the sleep timer too.
Show(ok) ==
    /\ page # "visible" /\ page' = "visible" /\ Permits(ok)
    /\ LET s == [SyncPosition(p) EXCEPT !.reload = @ \/ page = "away"]
           restarts == p.book /\ p.want /\ (~p.playing \/ p.ended)
       IN  /\ p' = IF restarts THEN Caught(Play(s, TRUE, ok))
                   ELSE IF p.book THEN s
                   ELSE p
           /\ slept' = (slept /\ ~(restarts /\ p.fade))
    /\ UNCHANGED <<sleep, mark, clicks>>

-----------------------------------------------------------------------------
(* The element's own doings.                                               *)

\* The next event in its queue.
HandleTask(ok) ==
    /\ p.tasks # <<>> /\ Permits(ok)
    /\ LET kind == Head(p.tasks)[1]
           calls == Head(p.tasks)[2]
           q == [p EXCEPT !.tasks = Tail(@)]
           settled == IF "play" \in calls THEN [q EXCEPT !.gesture = FALSE] ELSE q
           stopped == IF q.ended /\ q.playing
                      THEN OnPause([q EXCEPT !.playing = FALSE,
                                             !.rejected = q.plays, !.plays = {}])
                      ELSE q
       IN  p' = Caught(
                CASE kind = "emptied" -> IF p.expect THEN q ELSE OnElementReset(q)
                  [] kind = "metadata" -> OnMetadata(q)
                  [] kind = "playing" -> OnPlaying(settled)
                  [] kind = "resolved" -> settled
                  [] kind = "pause" -> [OnPause(q) EXCEPT !.rejected = calls]
                  [] kind = "end" -> OnEnded(stopped, ok)
                  [] kind = "error" -> Suspend(q))
    /\ UNCHANGED <<sleep, mark, page, slept, clicks>>

\* The element knows its media, and says so later: until then it may be at the
\* file's start, or already where the '#t' of its source points.
Metadata ==
    /\ p.src /\ ~p.ready /\ p.pipe # "dead" /\ ~Owes(p, "emptied")
    /\ \E time \in {p.time, p.seek} \ {None} :
         LET s == [p EXCEPT !.ready = TRUE, !.time = time,
                            !.tasks = Append(@, <<"metadata", {}>>)]
         IN  p' = IF p.playing /\ p.pipe = "ok" THEN Queue(s, "playing") ELSE s
    /\ UNCHANGED <<sleep, mark, page, slept, clicks, mishaps>>

\* A unit is heard; 'timeupdate' follows the position.
Advance ==
    /\ Moving(p) /\ p.time < Units /\ p.tasks = <<>>
    /\ LET s == [p EXCEPT !.time = @ + 1]
       IN  p' = IF p.status = "playing" THEN SyncPosition(s) ELSE s
    /\ UNCHANGED <<sleep, mark, page, slept, clicks, mishaps>>

ReachEnd ==
    /\ Moving(p) /\ p.time = Units /\ ~p.ended /\ p.tasks = <<>>
    /\ p' = [p EXCEPT !.ended = TRUE, !.tasks = << <<"end", {}>> >>]
    /\ UNCHANGED <<sleep, mark, page, slept, clicks, mishaps>>

\* Headphones out, or another app takes the session.
OsPause ==
    /\ Mishap /\ p.playing
    /\ p' = PauseElement([p EXCEPT !.asked = TRUE])
    /\ UNCHANGED <<sleep, mark, page, slept, clicks>>

\* The network is slow, or the pipeline dies and tells nobody.
Falter(pipe) ==
    /\ Mishap /\ p.src /\ p.pipe = "ok" /\ ~p.ended
    /\ p' = [p EXCEPT !.pipe = pipe]
    /\ UNCHANGED <<sleep, mark, page, slept, clicks>>

Recover ==
    /\ p.pipe = "stalled"
    /\ LET s == [p EXCEPT !.pipe = "ok"]
       IN  p' = IF p.playing /\ p.ready THEN Queue(s, "playing") ELSE s
    /\ UNCHANGED <<sleep, mark, page, slept, clicks, mishaps>>

\* WebKit takes the media process away: the element empties itself.
Reset ==
    /\ Mishap /\ p.src
    /\ p' = Caught(Emptied(p))
    /\ UNCHANGED <<sleep, mark, page, slept, clicks>>

Fail ==
    /\ Mishap /\ p.src
    /\ p' = Queue([p EXCEPT !.pipe = "dead"], "error")
    /\ UNCHANGED <<sleep, mark, page, slept, clicks>>

-----------------------------------------------------------------------------
\* What the listener does to the place on the timeline.
Moves ==
    \/ \E place \in Places : Restore(place)
    \/ \E place \in Places, ok \in BOOLEAN : Load(place, ok) \/ Seek(place, ok)
    \/ \E ok \in BOOLEAN : PressPlay(ok)
    \/ \E finished \in BOOLEAN : MarkFinished(finished)
    \/ Unload

PlayerNext ==
    \/ Moves
    \/ PressPause
    \/ \E mode \in {"off", "minutes", "chapter"} : SetSleep(mode)
    \/ PlayTimeout \/ Watchdog \/ FadeTick \/ SleepTick \/ RestOn
    \/ Hide \/ StayAway \/ \E ok \in BOOLEAN : Show(ok)
    \/ \E ok \in BOOLEAN : HandleTask(ok)
    \/ Metadata \/ Advance \/ ReachEnd
    \/ OsPause \/ \E pipe \in {"stalled", "dead"} : Falter(pipe)
    \/ Recover \/ Reset \/ Fail

\* Events are delivered and timers run while the page lives.
PlayerFairness ==
    /\ WF_playerVars(HandleTask(TRUE))
    /\ WF_playerVars(PlayTimeout) /\ WF_playerVars(Watchdog)
    /\ WF_playerVars(FadeTick)

PlayerSpec == PlayerInit /\ [][PlayerNext]_playerVars /\ PlayerFairness

-----------------------------------------------------------------------------
(* What the player promises.  odd names what a few interleavings do to it: *)
(* "missed", an event that told of a stop was dropped by a load or not     *)
(* heeded; "crossed", one was heeded that no longer described the element; *)
(* "overtaken", the element took another place than the engine believes.   *)

\* Whatever events, resets, reloads and page changes come, the listener's
\* place moves back only when the listener moves it (syncPosition(), whose
\* guards keep an emptied element's 0 out of the journal).  locate() stops
\* half a second short of the end, and a sync may bring that back; and one
\* between the element's metadata and the handler that seeks takes the
\* element's own place, which may be the file's start.
PlaceOnlyAdvances ==
    [][\/ Moves
       \/ p'.pos >= p.pos
       \/ Owes(p, "metadata") /\ p'.pos = p.file * Units + p.time
       \/ p.odd \cap {"overtaken", "crossed"} # {}
       \/ p.pos = Length /\ p'.pos = Length - 1]_playerVars

\* With every event delivered, engine and element agree: a player that says it
\* plays has an element that does, or offers to resume; and what plays is meant
\* to, or else it would stop at the next file's start, and a pause not hold
\* (the 'playing' and 'pause' handlers, onElementReset).
InStep ==
    p.tasks = <<>> =>
        /\ p.status = "playing" /\ ~p.playing =>
              p.gesture \/ p.odd \cap {"missed", "crossed"} # {}
        /\ p.playing => p.want \/ "crossed" \in p.odd

\* The player stops wanting to play because somebody asked, or the book
\* ended: never because a file did ('pause' comes before 'ended').
BoundaryPlaysOn ==
    [][p.want /\ ~p'.want
        => p.asked \/ p'.asked \/ ~p'.book \/ p'.status = "ended"]_playerVars

\* A player that is to play and does not comes to play, gives up wanting, or
\* offers to resume: the play timer, the watchdog and the catches together.
Surfaced ==
    (p.want /\ ~Moving(p))
        ~> (~p.want \/ Moving(p) \/ p.gesture \/ "missed" \in p.odd)

\* Once the sleep timer fired the player stops, whatever else happens to it
\* during the fade, unless the listener or the page starts it again.
SleepStops == slept ~> (~slept \/ ~p.want)

\* "a deliberate pause at the end of a file is unaffected" (the 'pause'
\* handler): a player paused by its listener does not say it plays.
DeliberatePauseShows ==
    p.asked /\ ~p.want /\ ~p.playing /\ p.tasks = <<>> => p.status # "playing"
=============================================================================
