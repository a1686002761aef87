------------------------------- MODULE Prefs --------------------------------
(***************************************************************************)
(* Playback preferences: the server's record of a user                     *)
(* (internal/prefs/store.go, internal/api/prefs.go) and the store of each  *)
(* device (player/prefs.svelte.ts), which loads it, saves changes          *)
(* optimistically, and keeps the player engine set to what it shows.       *)
(*                                                                         *)
(* Requests are served and answered in any order and any of them may fail, *)
(* served or not.  Two of the five preferences stand for all: the rate,    *)
(* which the device also keeps in localStorage, and one that it does not.  *)
(***************************************************************************)
EXTENDS Integers, FiniteSets

CONSTANTS
    Devices, Accounts,
    Calls,          \* requests on their way at a time, a bound of the model
    Nobody, NoPrefs,
    Values,         \* values of a preference
    MaxChanges      \* saves, sign-ins, relaunches: a bound of the model

Default == 1

ASSUME PrefsAssumption ==
    /\ Default \in Values
    /\ Nobody \notin Accounts /\ Nobody \notin Devices
    /\ NoPrefs \notin [{"rate", "skip"} -> Values]
    /\ MaxChanges \in Nat

VARIABLES
    record,     \* server: preferences of each user
    who,        \* who is signed in on each device, or Nobody
    shown,      \* what the device's store holds
    loaded,     \* devices whose store has been loaded since its last reset()
    engine,     \* the player's defaults; its rate is kept in localStorage
    call,       \* requests: see Call
    keyed,      \* history: devices whose rate was last set from the keyboard
    unsure,     \* history: devices that may show something else than the record
    changes

client == <<who, shown, loaded, engine>>
prefsVars == <<record, client, call, keyed, unsure, changes>>

Fields == {"rate", "skip"}
AllPrefs == [Fields -> Values]
Defaults == [f \in Fields |-> Default]
Patches == {[field |-> f, value |-> v] : f \in Fields, v \in Values}
NoPatch == [field |-> "none", value |-> Default]

NoCall == [op |-> "none", from |-> Nobody, of |-> Nobody, patch |-> NoPatch,
           before |-> Defaults, answer |-> NoPrefs]

Call == [op : {"none", "load", "save", "migrate"},
         from : Devices \cup {Nobody},   \* Nobody: a page that is gone
         of : Accounts \cup {Nobody},    \* whose cookie it carries
         patch : Patches \cup {NoPatch},
         before : AllPrefs,      \* prev of save(), localDefaultRate of doLoad()
         answer : AllPrefs \cup {NoPrefs}]   \* NoPrefs until it is served

PrefsTypeOK ==
    /\ record \in [Accounts -> AllPrefs]
    /\ who \in [Devices -> Accounts \cup {Nobody}]
    /\ shown \in [Devices -> AllPrefs] /\ engine \in [Devices -> AllPrefs]
    /\ loaded \in SUBSET Devices
    /\ call \in [Calls -> Call]
    /\ keyed \in SUBSET Devices /\ unsure \in SUBSET Devices
    /\ changes \in 0..MaxChanges

PrefsInit ==
    /\ record = [u \in Accounts |-> Defaults]
    /\ who = [d \in Devices |-> Nobody]
    /\ shown = [d \in Devices |-> Defaults] /\ loaded = {}
    /\ engine \in [Devices -> {[Defaults EXCEPT !.rate = v] : v \in Values}]
    /\ call = [c \in Calls |-> NoCall]
    /\ keyed = {} /\ unsure = {}
    /\ changes = 0

-----------------------------------------------------------------------------
(* The device.                                                             *)

Change == changes < MaxChanges /\ changes' = changes + 1

Live(d) == {c \in Calls : call[c].from = d}

\* load() joins one that has not ended, its migration included.
InFlight(d) == \E c \in Live(d) : call[c].op \in {"load", "migrate"}

Idle == {c \in Calls : call[c] = NoCall}

\* A request goes out while others of the device are on their way.
Send(d, r) ==
    /\ \E c \in Idle : call' = [call EXCEPT ![c] = r]
    /\ unsure' = IF Live(d) = {} THEN unsure ELSE unsure \cup {d}

LoadOf(d, u) == [NoCall EXCEPT !.op = "load", !.from = d, !.of = u, !.before = engine[d]]

\* load() by the layout's effect or the settings page.
Load(d, u) ==
    IF InFlight(d) THEN UNCHANGED call /\ unsure' = unsure \cup {d}
    ELSE Send(d, LoadOf(d, u))

\* teardown, on signing out and in: reset() leaves the engine alone, and the
\* requests on their way.
Reset(d) ==
    /\ shown' = [shown EXCEPT ![d] = Defaults]
    /\ loaded' = loaded \ {d}

SignIn(d, u) ==
    /\ who[d] = Nobody /\ Change
    /\ who' = [who EXCEPT ![d] = u]
    /\ Reset(d)
    /\ Load(d, u)
    /\ UNCHANGED <<record, engine, keyed>>

SignOut(d) ==
    /\ who[d] # Nobody
    /\ who' = [who EXCEPT ![d] = Nobody]
    /\ Reset(d)
    /\ UNCHANGED <<record, engine, call, keyed, unsure, changes>>

OpenSettings(d) ==
    /\ who[d] # Nobody /\ d \notin loaded /\ ~InFlight(d) /\ Change
    /\ Load(d, who[d])
    /\ UNCHANGED <<record, client, keyed>>

\* The page is loaded anew: what it was waiting for is lost, and the engine
\* takes the rate from localStorage (restoreRate).
Relaunch(d) ==
    /\ who[d] # Nobody /\ Change
    /\ shown' = [shown EXCEPT ![d] = Defaults]
    /\ loaded' = loaded \ {d}
    /\ engine' = [engine EXCEPT ![d].skip = Default]
    /\ \E c \in Idle :
         call' = [k \in Calls |->
           IF k = c THEN [LoadOf(d, who[d]) EXCEPT !.before.skip = Default]
           ELSE IF k \in Live(d) THEN [call[k] EXCEPT !.from = Nobody]
           ELSE call[k]]
    /\ UNCHANGED <<record, who, keyed, unsure>>

Patched(all, patch) ==
    [f \in Fields |-> IF f = patch.field THEN patch.value ELSE all[f]]

\* The store and, through applyToEngine, the engine show these.
Show(d, all) ==
    /\ shown' = [shown EXCEPT ![d] = all]
    /\ engine' = [engine EXCEPT ![d] = all]
    /\ keyed' = keyed \ {d}

SaveOf(d, patch) ==
    [NoCall EXCEPT !.op = "save", !.from = d, !.of = who[d], !.patch = patch,
                   !.before = shown[d]]

\* save(): applied at once, then sent.
Save(d, patch) ==
    /\ who[d] # Nobody /\ Change
    /\ Show(d, Patched(shown[d], patch))
    /\ Send(d, SaveOf(d, patch))
    /\ UNCHANGED <<record, who, loaded>>

\* The keyboard sets the engine's default rate past the store (stepRate).
KeyRate(d) ==
    /\ who[d] # Nobody
    /\ \E v \in Values : v # engine[d].rate /\ engine' = [engine EXCEPT ![d].rate = v]
    /\ Change
    /\ keyed' = keyed \cup {d}
    /\ UNCHANGED <<record, who, shown, loaded, call, unsure>>

-----------------------------------------------------------------------------
(* The server.                                                             *)

\* Get and Update, each one transaction: putPrefs changes only what is given.
Updated(r) == Patched(record[r.of], r.patch)

\* Devices that do not know of a change to u's record by request c.
Unaware(c) == {d \in Devices : who[d] = call[c].of /\ call[c].from # d}

\* An answer to a device's only request tells it what the record is.
Told(c) == {d \in Devices : Live(d) = {c} /\ who[d] = call[c].of}

ServeLoad(c) ==
    LET r == call[c]
    IN  /\ r.op = "load" /\ r.answer = NoPrefs
        /\ call' = [call EXCEPT ![c].answer = record[r.of]]
        /\ unsure' = unsure \ Told(c)
        /\ UNCHANGED <<record, client, keyed, changes>>

ServeSave(c) ==
    LET r == call[c]
        after == Updated(r)
    IN  /\ r.op \in {"save", "migrate"} /\ r.of # Nobody /\ r.answer = NoPrefs
        /\ record' = [record EXCEPT ![r.of] = after]
        /\ call' = [call EXCEPT ![c].answer = after]
        /\ unsure' = (unsure \ Told(c)) \cup Unaware(c)
        /\ UNCHANGED <<client, keyed, changes>>

-----------------------------------------------------------------------------
(* Answers.                                                                *)

\* A loaded default rate is replaced by the device's own, the one it had when
\* the load began.
TakeLoad(c) ==
    LET r == call[c]
        migrates == r.answer.rate = Default /\ r.before.rate # Default
        patch == [field |-> "rate", value |-> r.before.rate]
        migration == [op |-> "migrate", from |-> r.from, of |-> who[r.from],
                      patch |-> patch, before |-> r.answer, answer |-> NoPrefs]
    IN  /\ r.op = "load" /\ r.from # Nobody /\ r.answer # NoPrefs
        /\ loaded' = loaded \cup {r.from}
        /\ Show(r.from, IF migrates THEN Patched(r.answer, patch) ELSE r.answer)
        /\ call' = [call EXCEPT ![c] = IF migrates THEN migration ELSE NoCall]
        /\ UNCHANGED <<record, who, unsure, changes>>

\* (Operators whose name starts with "Slip" are the mistakes the model checker
\* is asked to notice: no action uses them.)
\* The optimistic values stay.
SlipTakeSaved(c) ==
    LET r == call[c]
    IN  /\ r.op \in {"save", "migrate"} /\ r.from # Nobody /\ r.answer # NoPrefs
        /\ call' = [call EXCEPT ![c] = NoCall]
        /\ UNCHANGED <<record, client, keyed, unsure, changes>>

TakeSaved(c) ==
    LET r == call[c]
    IN  /\ r.op \in {"save", "migrate"} /\ r.from # Nobody /\ r.answer # NoPrefs
        /\ Show(r.from, r.answer)
        /\ call' = [call EXCEPT ![c] = NoCall]
        /\ UNCHANGED <<record, who, loaded, unsure, changes>>

\* A load leaves everything as it is, a save goes back to what it found.
Fail(c) ==
    LET r == call[c]
    IN  /\ r.op # "none" /\ r.from # Nobody
        /\ IF r.op = "load" THEN UNCHANGED <<shown, engine, keyed>>
           ELSE Show(r.from, r.before)
        /\ call' = [call EXCEPT ![c] = NoCall]
        /\ unsure' = IF r.op # "load" /\ r.answer # NoPrefs
                     THEN unsure \cup {r.from} ELSE unsure
        /\ UNCHANGED <<record, who, loaded, changes>>

\* A request of a page that is gone ends.
Forget(c) ==
    /\ call[c].op # "none" /\ call[c].from = Nobody
    /\ call' = [call EXCEPT ![c] = NoCall]
    /\ UNCHANGED <<record, client, keyed, unsure, changes>>

PrefsNext ==
    \/ \E d \in Devices :
          \/ \E u \in Accounts : SignIn(d, u)
          \/ SignOut(d) \/ OpenSettings(d) \/ Relaunch(d) \/ KeyRate(d)
          \/ \E patch \in Patches : Save(d, patch)
    \/ \E c \in Calls :
          \/ ServeLoad(c) \/ ServeSave(c)
          \/ TakeLoad(c) \/ TakeSaved(c) \/ Fail(c) \/ Forget(c)

PrefsSpec == PrefsInit /\ [][PrefsNext]_prefsVars

-----------------------------------------------------------------------------
(* Properties.                                                             *)

\* The player, the settings shown and the server's record agree.  Once loaded,
\* the player runs with what is shown, through optimistic changes, failures and
\* late answers; only the keyboard sets a rate past the store.  And a device
\* that waits for nothing shows what the server has, unless its own requests
\* overlapped, another page of the user has changed the record since, or a save
\* was stored and its answer lost (save, doLoad, applyToEngine, Update).
InAgreement ==
    \A d \in loaded :
        /\ engine[d].skip = shown[d].skip
        /\ d \notin keyed => engine[d].rate = shown[d].rate
        /\ d \notin unsure /\ who[d] # Nobody /\ Live(d) = {} =>
              shown[d] = record[who[d]]
=============================================================================
