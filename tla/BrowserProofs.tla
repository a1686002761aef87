--------------------------- MODULE BrowserProofs ----------------------------
(***************************************************************************)
(* Safety theorems about the two parts of the browser's state that live    *)
(* beside the player: Prefs, for any devices, users and values and any     *)
(* number of requests on their way; and UploadQueue, for any finite set of *)
(* files, any number of transfers at a time and any number of clicks.      *)
(***************************************************************************)
EXTENDS MCBrowser, FiniteSetTheorems, SequenceTheorems, TLAPS

-----------------------------------------------------------------------------
(* Prefs: the inductive invariant, device by device.                       *)

\* Once loaded, the player runs with what is shown, but for the keyboard.
EngineFollows(d) ==
    d \in loaded => /\ engine[d].skip = shown[d].skip
                    /\ d \notin keyed => engine[d].rate = shown[d].rate

\* load() joins one that has not ended, and there is nothing to load any more
\* once it has.
OneLoad(d) ==
    /\ \A c, k \in Live(d) : call[c].op \in {"load", "migrate"}
                             /\ call[k].op \in {"load", "migrate"} => c = k
    /\ \A c \in Live(d) : call[c].op = "load" => d \notin loaded

\* What a device's request is about to tell it, or to go back to, is the record.
Truthful(d, c) ==
    /\ call[c].of = who[d]
    /\ call[c].answer # NoPrefs => call[c].answer = record[who[d]]
    /\ call[c].op # "load" /\ call[c].answer = NoPrefs /\ d \in loaded =>
         call[c].before = record[who[d]]

\* A device that is not unsure has at most one request on its way.
Informed(d) ==
    /\ \A c, k \in Live(d) : c = k
    /\ who[d] # Nobody =>
         /\ \A c \in Live(d) : Truthful(d, c)
         /\ Live(d) = {} /\ d \in loaded => shown[d] = record[who[d]]

Sound(d) ==
    /\ EngineFollows(d)
    /\ OneLoad(d)
    /\ d \notin unsure => Informed(d)

\* A load goes out with a cookie.
LoadsCarry == \A c \in Calls : call[c].op = "load" => call[c].of # Nobody

PrefsInv == PrefsTypeOK /\ LoadsCarry /\ \A d \in Devices : Sound(d)

-----------------------------------------------------------------------------
(* Records and requests.                                                   *)

LEMMA PrefsKnown ==
  /\ NoPrefs \notin AllPrefs
  /\ Defaults \in AllPrefs
  /\ \A all \in AllPrefs : all.rate \in Values /\ all.skip \in Values
  BY PrefsAssumption DEF AllPrefs, Defaults, Fields

LEMMA PatchedIs ==
  ASSUME NEW all \in AllPrefs, NEW patch \in Patches
  PROVE  Patched(all, patch) \in AllPrefs
  BY DEF Patched, AllPrefs, Patches, Fields

LEMMA CallKnown ==
  ASSUME PrefsTypeOK, NEW c \in Calls
  PROVE  /\ call[c] \in Call
         /\ call[c].op \in {"none", "load", "save", "migrate"}
         /\ call[c].from \in Devices \cup {Nobody}
         /\ call[c].of \in Accounts \cup {Nobody}
         /\ call[c].patch \in Patches \cup {NoPatch}
         /\ call[c].before \in AllPrefs
         /\ call[c].answer \in AllPrefs \cup {NoPrefs}
  BY DEF PrefsTypeOK, Call

LEMMA NoCallIs ==
  /\ NoCall \in Call
  /\ NoCall.op = "none" /\ NoCall.from = Nobody
  BY PrefsKnown DEF NoCall, Call

LEMMA LoadOfIs ==
  ASSUME PrefsTypeOK, NEW d \in Devices, NEW u \in Accounts
  PROVE  /\ LoadOf(d, u) \in Call
         /\ LoadOf(d, u).op = "load" /\ LoadOf(d, u).from = d /\ LoadOf(d, u).of = u
         /\ LoadOf(d, u).answer = NoPrefs
  <1>1. engine[d] \in AllPrefs
    BY DEF PrefsTypeOK
  <1> QED
    BY <1>1 DEF LoadOf, NoCall, Call

LEMMA SaveOfIs ==
  ASSUME PrefsTypeOK, NEW d \in Devices, NEW patch \in Patches, who[d] # Nobody
  PROVE  /\ SaveOf(d, patch) \in Call
         /\ SaveOf(d, patch).op = "save" /\ SaveOf(d, patch).from = d
         /\ SaveOf(d, patch).of = who[d] /\ SaveOf(d, patch).before = shown[d]
         /\ SaveOf(d, patch).answer = NoPrefs
  <1>1. shown[d] \in AllPrefs /\ who[d] \in Accounts
    BY DEF PrefsTypeOK
  <1> QED
    BY <1>1 DEF SaveOf, NoCall, Call

\* One request becomes r.
LEMMA CallBecomes ==
  ASSUME PrefsTypeOK, NEW c \in Calls, NEW r \in Call, call' = [call EXCEPT ![c] = r]
  PROVE  /\ call' \in [Calls -> Call]
         /\ call'[c] = r /\ \A k \in Calls \ {c} : call'[k] = call[k]
  BY DEF PrefsTypeOK

LEMMA SendIs ==
  ASSUME PrefsTypeOK, NEW d \in Devices, NEW r \in Call, Send(d, r)
  PROVE  /\ call' \in [Calls -> Call]
         /\ unsure' \in SUBSET Devices /\ unsure \subseteq unsure'
         /\ d \notin unsure' => d \notin unsure /\ Live(d) = {}
         /\ \E c \in Calls : /\ call[c].from = Nobody /\ call'[c] = r
                             /\ \A k \in Calls \ {c} : call'[k] = call[k]
  <1>1. PICK c \in Idle : call' = [call EXCEPT ![c] = r]
    BY DEF Send
  <1>2. c \in Calls /\ call[c].from = Nobody
    BY <1>1, NoCallIs DEF Idle
  <1>3. /\ call' \in [Calls -> Call]
        /\ call'[c] = r /\ \A k \in Calls \ {c} : call'[k] = call[k]
    BY <1>1, <1>2, CallBecomes
  <1>4. /\ unsure' \in SUBSET Devices /\ unsure \subseteq unsure'
        /\ d \notin unsure' => d \notin unsure /\ Live(d) = {}
    BY DEF Send, PrefsTypeOK
  <1> QED
    BY <1>2, <1>3, <1>4

\* What does not concern a device leaves it sound.
Untouched(e) ==
    /\ who'[e] = who[e] /\ shown'[e] = shown[e] /\ engine'[e] = engine[e]
    /\ e \in loaded' <=> e \in loaded
    /\ e \in keyed' <=> e \in keyed
    /\ \A k \in Calls : call[k].from = e \/ call'[k].from = e => call'[k] = call[k]

LEMMA UntouchedStays ==
  ASSUME NEW e \in Devices, Sound(e), Untouched(e), record' = record,
         e \in unsure => e \in unsure'
  PROVE  Sound(e)'
  <1>1. Live(e)' = Live(e) /\ \A k \in Live(e) : call'[k] = call[k] /\ k \in Calls
    BY DEF Live, Untouched
  <1>2. EngineFollows(e)'
    BY DEF Sound, EngineFollows, Untouched
  <1>3. OneLoad(e)'
    BY <1>1 DEF Sound, OneLoad, Untouched
  <1>4. e \notin unsure' => Informed(e)'
    BY <1>1 DEF Sound, Informed, Truthful, Untouched
  <1> QED
    BY <1>2, <1>3, <1>4 DEF Sound

\* A request of a device that goes out is one more of it, and of no other.
LEMMA SendReaches ==
  ASSUME PrefsTypeOK, NEW d \in Devices, NEW r \in Call, r.from = d, Send(d, r)
  PROVE  /\ call' \in [Calls -> Call]
         /\ unsure' \in SUBSET Devices /\ unsure \subseteq unsure'
         /\ d \notin unsure' => d \notin unsure /\ Live(d) = {}
         /\ \E c \in Calls \ Live(d) :
              /\ Live(d)' = Live(d) \cup {c} /\ call'[c] = r
              /\ \A k \in Calls \ {c} : call'[k] = call[k]
         /\ \A e \in Devices \ {d}, k \in Calls :
              call[k].from = e \/ call'[k].from = e => call'[k] = call[k]
  <1>1. PICK c \in Calls : /\ call[c].from = Nobody /\ call'[c] = r
                           /\ \A k \in Calls \ {c} : call'[k] = call[k]
    BY SendIs
  <1>2. c \notin Live(d) /\ Live(d)' = Live(d) \cup {c}
    BY <1>1, PrefsAssumption DEF Live
  <1>3. ASSUME NEW e \in Devices \ {d}, NEW k \in Calls,
               call[k].from = e \/ call'[k].from = e
        PROVE  call'[k] = call[k]
    BY <1>1, <1>3, PrefsAssumption
  <1> QED
    BY <1>1, <1>2, <1>3, SendIs

\* load() of a device that has nothing loaded yet leaves it sound.
LEMMA LoadStays ==
  ASSUME PrefsTypeOK, LoadsCarry, NEW d \in Devices, NEW u \in Accounts, Sound(d),
         Load(d, u), d \notin loaded', who'[d] = u
  PROVE  /\ call' \in [Calls -> Call] /\ LoadsCarry'
         /\ unsure' \in SUBSET Devices /\ unsure \subseteq unsure'
         /\ \A e \in Devices \ {d}, k \in Calls :
              call[k].from = e \/ call'[k].from = e => call'[k] = call[k]
         /\ Sound(d)'
  <1>1. CASE InFlight(d)
    <2>1. call' = call /\ unsure' = unsure \cup {d}
      BY <1>1 DEF Load
    <2>2. Live(d)' = Live(d)
      BY <2>1 DEF Live
    <2>3. Sound(d)'
      BY <2>1, <2>2 DEF Sound, EngineFollows, OneLoad
    <2> QED
      BY <2>1, <2>3 DEF PrefsTypeOK, LoadsCarry
  <1>2. CASE ~InFlight(d)
    <2>1. PICK r \in Call : /\ r.op = "load" /\ r.from = d /\ r.of = u
                            /\ r.answer = NoPrefs /\ Send(d, r)
      BY <1>2, LoadOfIs DEF Load
    <2>2. PICK c \in Calls \ Live(d) :
              /\ Live(d)' = Live(d) \cup {c} /\ call'[c] = r
              /\ \A k \in Calls \ {c} : call'[k] = call[k]
      BY <2>1, SendReaches
    <2>3. \A k \in Live(d) : /\ k # c /\ call'[k] = call[k]
                             /\ call[k].op \notin {"load", "migrate"}
      BY <1>2, <2>2 DEF InFlight, Live
    <2>4. OneLoad(d)'
      BY <2>2, <2>3, <2>1 DEF OneLoad
    <2>5. d \notin unsure' => Informed(d)'
      <3> SUFFICES ASSUME d \notin unsure' PROVE Informed(d)'
        OBVIOUS
      <3>1. Live(d) = {}
        BY <2>1, SendReaches
      <3>2. Live(d)' = {c}
        BY <3>1, <2>2
      <3>3. Truthful(d, c)'
        BY <2>1, <2>2 DEF Truthful
      <3> QED
        BY <3>2, <3>3 DEF Informed
    <2>6. LoadsCarry'
      BY <2>1, <2>2, PrefsAssumption DEF LoadsCarry
    <2>7. Sound(d)'
      BY <2>4, <2>5 DEF Sound, EngineFollows
    <2>8. /\ call' \in [Calls -> Call]
          /\ unsure' \in SUBSET Devices /\ unsure \subseteq unsure'
          /\ \A e \in Devices \ {d}, k \in Calls :
               call[k].from = e \/ call'[k].from = e => call'[k] = call[k]
      BY <2>1, SendReaches
    <2> QED
      BY <2>6, <2>7, <2>8
  <1> QED
    BY <1>1, <1>2

-----------------------------------------------------------------------------
(* Each action keeps the invariant.                                        *)

LEMMA SignInKeeps ==
  ASSUME PrefsInv, NEW d \in Devices, NEW u \in Accounts, SignIn(d, u)
  PROVE  PrefsInv'
  <1>1. /\ Load(d, u) /\ d \notin loaded' /\ who'[d] = u
        /\ record' = record /\ engine' = engine /\ keyed' = keyed
        /\ who' = [who EXCEPT ![d] = u]
        /\ shown' = [shown EXCEPT ![d] = Defaults] /\ loaded' = loaded \ {d}
        /\ changes < MaxChanges /\ changes' = changes + 1
    BY DEF SignIn, Reset, Change, PrefsInv, PrefsTypeOK
  <1>2. /\ call' \in [Calls -> Call] /\ LoadsCarry'
        /\ unsure' \in SUBSET Devices /\ unsure \subseteq unsure'
        /\ \A e \in Devices \ {d}, k \in Calls :
             call[k].from = e \/ call'[k].from = e => call'[k] = call[k]
        /\ Sound(d)'
    BY <1>1, LoadStays DEF PrefsInv
  <1>3. PrefsTypeOK'
    BY <1>1, <1>2, PrefsKnown, PrefsAssumption DEF PrefsInv, PrefsTypeOK
  <1>4. ASSUME NEW e \in Devices \ {d} PROVE Sound(e)'
    <2>1. Untouched(e)
      BY <1>1, <1>2, <1>4 DEF Untouched, PrefsInv, PrefsTypeOK
    <2> QED
      BY <1>1, <1>2, <2>1, UntouchedStays DEF PrefsInv
  <1> QED
    BY <1>2, <1>3, <1>4 DEF PrefsInv

LEMMA SignOutKeeps ==
  ASSUME PrefsInv, NEW d \in Devices, SignOut(d)
  PROVE  PrefsInv'
  <1>1. /\ d \notin loaded' /\ who'[d] = Nobody
        /\ record' = record /\ engine' = engine /\ keyed' = keyed
        /\ call' = call /\ unsure' = unsure /\ changes' = changes
        /\ who' = [who EXCEPT ![d] = Nobody]
        /\ shown' = [shown EXCEPT ![d] = Defaults] /\ loaded' = loaded \ {d}
    BY DEF SignOut, Reset, PrefsInv, PrefsTypeOK
  <1>2. PrefsTypeOK' /\ LoadsCarry'
    BY <1>1, PrefsKnown DEF PrefsInv, PrefsTypeOK, LoadsCarry
  <1>3. Live(d)' = Live(d)
    BY <1>1 DEF Live
  <1>4. Sound(d)'
    BY <1>1, <1>3 DEF PrefsInv, Sound, EngineFollows, OneLoad, Informed
  <1>5. ASSUME NEW e \in Devices \ {d} PROVE Sound(e)'
    <2>1. Untouched(e)
      BY <1>1, <1>5 DEF Untouched, PrefsInv, PrefsTypeOK
    <2> QED
      BY <1>1, <2>1, UntouchedStays DEF PrefsInv
  <1> QED
    BY <1>2, <1>4, <1>5 DEF PrefsInv

LEMMA OpenSettingsKeeps ==
  ASSUME PrefsInv, NEW d \in Devices, OpenSettings(d)
  PROVE  PrefsInv'
  <1>1. /\ Load(d, who[d]) /\ d \notin loaded' /\ who[d] \in Accounts
        /\ record' = record /\ engine' = engine /\ keyed' = keyed
        /\ who' = who /\ shown' = shown /\ loaded' = loaded
        /\ changes < MaxChanges /\ changes' = changes + 1
    BY DEF OpenSettings, client, Change, PrefsInv, PrefsTypeOK
  <1>2. /\ call' \in [Calls -> Call] /\ LoadsCarry'
        /\ unsure' \in SUBSET Devices /\ unsure \subseteq unsure'
        /\ \A e \in Devices \ {d}, k \in Calls :
             call[k].from = e \/ call'[k].from = e => call'[k] = call[k]
        /\ Sound(d)'
    BY <1>1, LoadStays DEF PrefsInv
  <1>3. PrefsTypeOK'
    BY <1>1, <1>2, PrefsAssumption DEF PrefsInv, PrefsTypeOK
  <1>4. ASSUME NEW e \in Devices \ {d} PROVE Sound(e)'
    <2>1. Untouched(e)
      BY <1>1, <1>2, <1>4 DEF Untouched
    <2> QED
      BY <1>1, <1>2, <2>1, UntouchedStays DEF PrefsInv
  <1> QED
    BY <1>2, <1>3, <1>4 DEF PrefsInv

LEMMA KeyRateKeeps ==
  ASSUME PrefsInv, NEW d \in Devices, KeyRate(d)
  PROVE  PrefsInv'
  <1>1. PICK v \in Values : engine' = [engine EXCEPT ![d].rate = v]
    BY DEF KeyRate
  <1>2. /\ record' = record /\ keyed' = keyed \cup {d} /\ unsure' = unsure
        /\ who' = who /\ shown' = shown /\ loaded' = loaded /\ call' = call
        /\ changes < MaxChanges /\ changes' = changes + 1
    BY DEF KeyRate, Change
  <1>3. engine' \in [Devices -> AllPrefs] /\ engine'[d].skip = engine[d].skip
    BY <1>1 DEF PrefsInv, PrefsTypeOK, AllPrefs, Fields
  <1>4. PrefsTypeOK' /\ LoadsCarry'
    BY <1>2, <1>3, PrefsAssumption DEF PrefsInv, PrefsTypeOK, LoadsCarry
  <1>5. Live(d)' = Live(d)
    BY <1>2 DEF Live
  <1>6. Sound(d)'
    BY <1>2, <1>3, <1>5 DEF PrefsInv, Sound, EngineFollows, OneLoad, Informed, Truthful
  <1>7. ASSUME NEW e \in Devices \ {d} PROVE Sound(e)'
    <2>1. Untouched(e)
      BY <1>1, <1>2, <1>7 DEF Untouched, PrefsInv, PrefsTypeOK
    <2> QED
      BY <1>2, <2>1, UntouchedStays DEF PrefsInv
  <1> QED
    BY <1>4, <1>6, <1>7 DEF PrefsInv

LEMMA RelaunchKeeps ==
  ASSUME PrefsInv, NEW d \in Devices, Relaunch(d)
  PROVE  PrefsInv'
  <1>1. /\ record' = record /\ who' = who /\ keyed' = keyed /\ unsure' = unsure
        /\ shown' = [shown EXCEPT ![d] = Defaults] /\ loaded' = loaded \ {d}
        /\ engine' = [engine EXCEPT ![d].skip = Default]
        /\ changes < MaxChanges /\ changes' = changes + 1
        /\ who[d] \in Accounts
    BY DEF Relaunch, Change, PrefsInv, PrefsTypeOK
  <1>2. PICK c \in Idle :
          call' = [k \in Calls |->
            IF k = c THEN [LoadOf(d, who[d]) EXCEPT !.before.skip = Default]
            ELSE IF k \in Live(d) THEN [call[k] EXCEPT !.from = Nobody]
            ELSE call[k]]
    BY DEF Relaunch
  <1>3. PICK r \in Call : /\ r = [LoadOf(d, who[d]) EXCEPT !.before.skip = Default]
                          /\ r.op = "load" /\ r.from = d /\ r.of = who[d]
                          /\ r.answer = NoPrefs
    <2>1. PICK l \in Call : /\ l = LoadOf(d, who[d])
                            /\ l.op = "load" /\ l.from = d /\ l.of = who[d]
                            /\ l.answer = NoPrefs
      BY <1>1, LoadOfIs DEF PrefsInv
    <2>2. PICK b \in AllPrefs : b = [l.before EXCEPT !.skip = Default]
      BY PrefsAssumption DEF Call, AllPrefs, Fields
    <2>3. [l EXCEPT !.before.skip = Default] = [l EXCEPT !.before = b]
      BY <2>2 DEF Call
    <2>4. /\ [l EXCEPT !.before = b] \in Call
          /\ [l EXCEPT !.before = b].op = l.op /\ [l EXCEPT !.before = b].from = l.from
          /\ [l EXCEPT !.before = b].of = l.of /\ [l EXCEPT !.before = b].answer = l.answer
      BY <2>2 DEF Call
    <2> QED
      BY <2>1, <2>3, <2>4
  <1>4. c \in Calls /\ c \notin Live(d) /\ call'[c] = r
    BY <1>2, <1>3, NoCallIs, PrefsAssumption DEF Idle, Live
  <1>5. ASSUME NEW k \in Live(d)
        PROVE  k # c /\ k \in Calls /\ call'[k] \in Call /\ call'[k].from = Nobody
               /\ call'[k].op = call[k].op /\ call'[k].of = call[k].of
    <2>1. k \in Calls /\ k # c /\ call'[k] = [call[k] EXCEPT !.from = Nobody]
      BY <1>2, <1>4 DEF Live
    <2> QED
      BY <2>1, CallKnown DEF PrefsInv, Call
  <1>6. \A k \in Calls : k # c /\ k \notin Live(d) => call'[k] = call[k] /\ call[k].from # d
    BY <1>2 DEF Live
  <1>7. call' \in [Calls -> Call]
    <2>1. \A k \in Calls : call'[k] \in Call
      BY <1>3, <1>4, <1>5, <1>6, CallKnown DEF PrefsInv
    <2> QED
      BY <1>2, <2>1
  <1>8. engine' \in [Devices -> AllPrefs]
    BY <1>1, PrefsAssumption DEF PrefsInv, PrefsTypeOK, AllPrefs, Fields
  <1>9. PrefsTypeOK'
    BY <1>1, <1>7, <1>8, PrefsKnown, PrefsAssumption DEF PrefsInv, PrefsTypeOK
  <1>10. LoadsCarry'
    <2>1. ASSUME NEW k \in Calls, call'[k].op = "load" PROVE call'[k].of # Nobody
      <3>1. CASE k = c
        BY <1>1, <1>3, <1>4, <3>1, PrefsAssumption
      <3>2. CASE k \in Live(d)
        BY <1>5, <2>1, <3>2 DEF PrefsInv, LoadsCarry
      <3>3. CASE k # c /\ k \notin Live(d)
        BY <1>6, <2>1, <3>3 DEF PrefsInv, LoadsCarry
      <3> QED
        BY <3>1, <3>2, <3>3
    <2> QED
      BY <2>1 DEF LoadsCarry
  <1>11. Live(d)' = {c}
    <2>1. \A k \in Calls : k # c => call'[k].from # d
      BY <1>5, <1>6, PrefsAssumption
    <2> QED
      BY <1>3, <1>4, <2>1 DEF Live
  <1>12. Truthful(d, c)'
    BY <1>1, <1>3, <1>4 DEF Truthful
  <1>13. Sound(d)'
    BY <1>1, <1>11, <1>12 DEF Sound, EngineFollows, OneLoad, Informed
  <1>14. ASSUME NEW e \in Devices \ {d} PROVE Sound(e)'
    <2>1. ASSUME NEW k \in Calls, call[k].from = e \/ call'[k].from = e
          PROVE  call'[k] = call[k]
      <3>1. k # c
        BY <1>2, <1>3, <1>4, <2>1, NoCallIs, PrefsAssumption DEF Idle
      <3>2. k \notin Live(d)
        BY <1>5, <2>1, PrefsAssumption DEF Live
      <3> QED
        BY <1>6, <3>1, <3>2
    <2>2. /\ who'[e] = who[e] /\ shown'[e] = shown[e] /\ engine'[e] = engine[e]
          /\ e \in loaded' <=> e \in loaded
          /\ e \in keyed' <=> e \in keyed
      BY <1>1, <1>14 DEF PrefsInv, PrefsTypeOK
    <2>3. Untouched(e)
      BY <2>1, <2>2 DEF Untouched
    <2> QED
      BY <1>1, <2>3, UntouchedStays DEF PrefsInv
  <1> QED
    BY <1>9, <1>10, <1>13, <1>14 DEF PrefsInv

\* What Show leaves and changes.
LEMMA ShowIs ==
  ASSUME PrefsTypeOK, NEW d \in Devices, NEW all \in AllPrefs, Show(d, all)
  PROVE  /\ shown' \in [Devices -> AllPrefs] /\ engine' \in [Devices -> AllPrefs]
         /\ keyed' \in SUBSET Devices
         /\ shown'[d] = all /\ engine'[d] = all
         /\ \A e \in Devices \ {d} : /\ shown'[e] = shown[e] /\ engine'[e] = engine[e]
                                     /\ e \in keyed' <=> e \in keyed
  BY DEF Show, PrefsTypeOK

LEMMA SaveKeeps ==
  ASSUME PrefsInv, NEW d \in Devices, NEW patch \in Patches, Save(d, patch)
  PROVE  PrefsInv'
  <1>1. /\ record' = record /\ who' = who /\ loaded' = loaded
        /\ changes < MaxChanges /\ changes' = changes + 1
        /\ who[d] # Nobody
    BY DEF Save, Change
  <1>2. PICK all \in AllPrefs : Show(d, all)
    <2>1. Patched(shown[d], patch) \in AllPrefs
      BY PatchedIs DEF PrefsInv, PrefsTypeOK
    <2> QED
      BY <2>1 DEF Save
  <1>3. /\ shown' \in [Devices -> AllPrefs] /\ engine' \in [Devices -> AllPrefs]
        /\ keyed' \in SUBSET Devices
        /\ shown'[d] = all /\ engine'[d] = all
        /\ \A e \in Devices \ {d} : /\ shown'[e] = shown[e] /\ engine'[e] = engine[e]
                                    /\ e \in keyed' <=> e \in keyed
    BY <1>2, ShowIs DEF PrefsInv
  <1>4. PICK r \in Call : /\ r.op = "save" /\ r.from = d /\ r.of = who[d]
                          /\ r.before = shown[d] /\ r.answer = NoPrefs /\ Send(d, r)
    BY <1>1, SaveOfIs DEF Save, PrefsInv
  <1>5. /\ call' \in [Calls -> Call]
        /\ unsure' \in SUBSET Devices /\ unsure \subseteq unsure'
        /\ d \notin unsure' => d \notin unsure /\ Live(d) = {}
        /\ \A e \in Devices \ {d}, k \in Calls :
             call[k].from = e \/ call'[k].from = e => call'[k] = call[k]
    BY <1>4, SendReaches DEF PrefsInv
  <1>6. PICK c \in Calls \ Live(d) :
          /\ Live(d)' = Live(d) \cup {c} /\ call'[c] = r
          /\ \A k \in Calls \ {c} : call'[k] = call[k]
    BY <1>4, SendReaches DEF PrefsInv
  <1>7. PrefsTypeOK'
    BY <1>1, <1>3, <1>5, PrefsAssumption DEF PrefsInv, PrefsTypeOK
  <1>8. LoadsCarry'
    BY <1>4, <1>6 DEF PrefsInv, LoadsCarry
  <1>9. Sound(d)'
    <2>1. \A k \in Live(d) : k # c /\ call'[k] = call[k]
      BY <1>6 DEF Live
    <2>2. OneLoad(d)'
      BY <1>1, <1>4, <1>6, <2>1 DEF PrefsInv, Sound, OneLoad
    <2>3. ASSUME d \notin unsure' PROVE Informed(d)'
      <3>1. Live(d) = {} /\ Live(d)' = {c} /\ Informed(d)
        BY <1>5, <1>6, <2>3 DEF PrefsInv, Sound
      <3>2. Truthful(d, c)'
        BY <1>1, <1>4, <1>6, <3>1 DEF Truthful, Informed
      <3> QED
        BY <3>1, <3>2 DEF Informed
    <2> QED
      BY <1>3, <2>2, <2>3 DEF Sound, EngineFollows
  <1>10. ASSUME NEW e \in Devices \ {d} PROVE Sound(e)'
    <2>1. Untouched(e)
      BY <1>1, <1>3, <1>5, <1>10 DEF Untouched
    <2> QED
      BY <1>1, <1>5, <2>1, UntouchedStays DEF PrefsInv
  <1> QED
    BY <1>7, <1>8, <1>9, <1>10 DEF PrefsInv

-----------------------------------------------------------------------------
(* Answers.                                                                *)

LEMMA TakeLoadKeeps ==
  ASSUME PrefsInv, NEW c \in Calls, TakeLoad(c)
  PROVE  PrefsInv'
  <1> DEFINE r == call[c]
             migrates == r.answer.rate = Default /\ r.before.rate # Default
             patch == [field |-> "rate", value |-> r.before.rate]
             migration == [op |-> "migrate", from |-> r.from, of |-> who[r.from],
                           patch |-> patch, before |-> r.answer, answer |-> NoPrefs]
  <1>1. PICK d \in Devices : call[c].from = d
    BY CallKnown DEF TakeLoad, PrefsInv
  <1>2. /\ record' = record /\ who' = who /\ unsure' = unsure /\ changes' = changes
        /\ loaded' = loaded \cup {d}
        /\ r.op = "load" /\ r.answer \in AllPrefs /\ r.answer # NoPrefs
        /\ r.before \in AllPrefs
    BY <1>1, CallKnown DEF TakeLoad, PrefsInv
  <1>3. patch \in Patches
    BY <1>2, PrefsKnown DEF Patches, Fields
  <1>4. PICK all \in AllPrefs : Show(d, all) /\ (~migrates => all = r.answer)
    BY <1>1, <1>2, <1>3, PatchedIs DEF TakeLoad
  <1>5. PICK n \in Call : /\ call' = [call EXCEPT ![c] = n]
                          /\ ~migrates => n = NoCall
                          /\ migrates => /\ n.op = "migrate" /\ n.from = d /\ n.of = who[d]
                                         /\ n.before = r.answer /\ n.answer = NoPrefs
    <2>1. CASE migrates
      <3>1. who[d] \in Accounts \cup {Nobody}
        BY DEF PrefsInv, PrefsTypeOK
      <3>2. migration \in Call
        BY <1>1, <1>2, <1>3, <3>1 DEF Call
      <3>3. call' = [call EXCEPT ![c] = migration]
        BY <2>1 DEF TakeLoad
      <3> QED
        BY <1>1, <2>1, <3>2, <3>3
    <2>2. CASE ~migrates
      BY <2>2, NoCallIs DEF TakeLoad
    <2> QED
      BY <2>1, <2>2
  <1> HIDE DEF r, migrates, patch, migration
  <1>6. /\ call' \in [Calls -> Call]
        /\ call'[c] = n /\ \A k \in Calls \ {c} : call'[k] = call[k]
    BY <1>5, CallBecomes DEF PrefsInv
  <1>7. /\ shown' \in [Devices -> AllPrefs] /\ engine' \in [Devices -> AllPrefs]
        /\ keyed' \in SUBSET Devices
        /\ shown'[d] = all /\ engine'[d] = all
        /\ \A e \in Devices \ {d} : /\ shown'[e] = shown[e] /\ engine'[e] = engine[e]
                                    /\ e \in keyed' <=> e \in keyed
    BY <1>4, ShowIs DEF PrefsInv
  <1>8. PrefsTypeOK'
    BY <1>2, <1>6, <1>7 DEF PrefsInv, PrefsTypeOK
  <1>9. n.op # "load" /\ (n.from = d \/ n.from = Nobody)
    BY <1>5, NoCallIs
  <1>10. LoadsCarry'
    BY <1>6, <1>9 DEF PrefsInv, LoadsCarry
  <1>11. /\ c \in Live(d) /\ Live(d) \subseteq Calls
         /\ \A k \in Calls \ {c} : k \in Live(d)' <=> k \in Live(d)
         /\ c \in Live(d)' => migrates
    BY <1>1, <1>5, <1>6, NoCallIs, PrefsAssumption DEF Live
  <1>12. Sound(d)'
    <2>1. \A k \in Live(d)' : k # c => k \in Live(d) /\ call'[k] = call[k]
      BY <1>6, <1>11 DEF Live
    <2>2. \A k \in Live(d) : k # c => call[k].op \notin {"load", "migrate"}
      BY <1>2, <1>11 DEF PrefsInv, Sound, OneLoad, r
    <2>3. OneLoad(d)'
      BY <1>6, <1>9, <2>1, <2>2 DEF OneLoad
    <2>4. ASSUME d \notin unsure PROVE Informed(d)'
      <3>1. Informed(d) /\ Live(d) = {c}
        BY <1>11, <2>4 DEF PrefsInv, Sound, Informed
      <3>2. who[d] # Nobody => r.answer = record[who[d]]
        BY <1>2, <3>1 DEF Informed, Truthful, r
      <3>3. Live(d)' \subseteq {c}
        BY <2>1, <3>1
      <3>4. CASE migrates
        <4>1. who[d] # Nobody => Truthful(d, c)'
          BY <1>2, <1>5, <1>6, <3>2, <3>4 DEF Truthful
        <4>2. Live(d)' # {}
          BY <1>5, <1>6, <3>4 DEF Live
        <4> QED
          BY <1>2, <3>3, <4>1, <4>2 DEF Informed
      <3>5. CASE ~migrates
        <4>1. Live(d)' = {}
          BY <1>11, <3>3, <3>5
        <4> QED
          BY <1>2, <1>4, <1>7, <3>2, <3>5, <4>1 DEF Informed
      <3> QED
        BY <3>4, <3>5
    <2> QED
      BY <1>2, <1>7, <2>3, <2>4 DEF Sound, EngineFollows
  <1>13. ASSUME NEW e \in Devices \ {d} PROVE Sound(e)'
    <2>1. \A k \in Calls : call[k].from = e \/ call'[k].from = e => call'[k] = call[k]
      BY <1>1, <1>6, <1>9, <1>13, PrefsAssumption
    <2>2. Untouched(e)
      BY <1>2, <1>7, <1>13, <2>1 DEF Untouched
    <2> QED
      BY <1>2, <2>2, UntouchedStays DEF PrefsInv
  <1> QED
    BY <1>8, <1>10, <1>12, <1>13 DEF PrefsInv

\* The request c of device d is answered or fails: it is gone.
LEMMA EndedIs ==
  ASSUME PrefsInv, NEW c \in Calls, NEW d \in Devices, call[c].from = d,
         call' = [call EXCEPT ![c] = NoCall]
  PROVE  /\ call' \in [Calls -> Call] /\ LoadsCarry'
         /\ c \in Live(d) /\ Live(d)' = Live(d) \ {c}
         /\ \A k \in Calls \ {c} : call'[k] = call[k]
         /\ \A e \in Devices \ {d}, k \in Calls :
              call[k].from = e \/ call'[k].from = e => call'[k] = call[k]
         /\ (loaded' \subseteq loaded => OneLoad(d)')
  <1>1. /\ call' \in [Calls -> Call]
        /\ call'[c] = NoCall /\ \A k \in Calls \ {c} : call'[k] = call[k]
    BY CallBecomes, NoCallIs DEF PrefsInv
  <1>2. LoadsCarry'
    BY <1>1, NoCallIs DEF PrefsInv, LoadsCarry
  <1>3. c \in Live(d) /\ Live(d)' = Live(d) \ {c}
    BY <1>1, NoCallIs, PrefsAssumption DEF Live
  <1>4. \A e \in Devices \ {d}, k \in Calls :
          call[k].from = e \/ call'[k].from = e => call'[k] = call[k]
    BY <1>1, NoCallIs, PrefsAssumption
  <1>5. ASSUME loaded' \subseteq loaded PROVE OneLoad(d)'
    <2>1. \A k \in Live(d)' : k \in Live(d) /\ call'[k] = call[k]
      BY <1>1, <1>3 DEF Live
    <2> QED
      BY <1>5, <2>1 DEF PrefsInv, Sound, OneLoad
  <1> QED
    BY <1>1, <1>2, <1>3, <1>4, <1>5

LEMMA TakeSavedKeeps ==
  ASSUME PrefsInv, NEW c \in Calls, TakeSaved(c)
  PROVE  PrefsInv'
  <1>1. PICK d \in Devices : call[c].from = d
    BY CallKnown DEF TakeSaved, PrefsInv
  <1>2. /\ record' = record /\ who' = who /\ loaded' = loaded
        /\ unsure' = unsure /\ changes' = changes
        /\ call[c].op # "load" /\ call[c].answer \in AllPrefs /\ call[c].answer # NoPrefs
        /\ Show(d, call[c].answer)
        /\ call' = [call EXCEPT ![c] = NoCall]
    BY <1>1, CallKnown DEF TakeSaved, PrefsInv
  <1>3. /\ shown' \in [Devices -> AllPrefs] /\ engine' \in [Devices -> AllPrefs]
        /\ keyed' \in SUBSET Devices
        /\ shown'[d] = call[c].answer /\ engine'[d] = call[c].answer
        /\ \A e \in Devices \ {d} : /\ shown'[e] = shown[e] /\ engine'[e] = engine[e]
                                    /\ e \in keyed' <=> e \in keyed
    BY <1>2, ShowIs DEF PrefsInv
  <1>4. /\ call' \in [Calls -> Call] /\ LoadsCarry'
        /\ c \in Live(d) /\ Live(d)' = Live(d) \ {c}
        /\ \A e \in Devices \ {d}, k \in Calls :
             call[k].from = e \/ call'[k].from = e => call'[k] = call[k]
        /\ OneLoad(d)'
    BY <1>1, <1>2, EndedIs
  <1>5. PrefsTypeOK'
    BY <1>2, <1>3, <1>4 DEF PrefsInv, PrefsTypeOK
  <1>6. Sound(d)'
    <2>1. ASSUME d \notin unsure PROVE Informed(d)'
      <3>1. Informed(d) /\ Live(d)' = {}
        BY <1>4, <2>1 DEF PrefsInv, Sound, Informed
      <3>2. who[d] # Nobody => call[c].answer = record[who[d]]
        BY <1>2, <1>4, <3>1 DEF Informed, Truthful
      <3> QED
        BY <1>2, <1>3, <3>1, <3>2 DEF Informed
    <2> QED
      BY <1>2, <1>3, <1>4, <2>1 DEF Sound, EngineFollows
  <1>7. ASSUME NEW e \in Devices \ {d} PROVE Sound(e)'
    <2>1. Untouched(e)
      BY <1>2, <1>3, <1>4, <1>7 DEF Untouched
    <2> QED
      BY <1>2, <2>1, UntouchedStays DEF PrefsInv
  <1> QED
    BY <1>4, <1>5, <1>6, <1>7 DEF PrefsInv

LEMMA FailKeeps ==
  ASSUME PrefsInv, NEW c \in Calls, Fail(c)
  PROVE  PrefsInv'
  <1>1. PICK d \in Devices : call[c].from = d
    BY CallKnown DEF Fail, PrefsInv
  <1>2. /\ record' = record /\ who' = who /\ loaded' = loaded /\ changes' = changes
        /\ unsure' \in SUBSET Devices /\ unsure \subseteq unsure'
        /\ d \notin unsure' /\ call[c].op # "load" => call[c].answer = NoPrefs
        /\ call[c].before \in AllPrefs
        /\ call' = [call EXCEPT ![c] = NoCall]
    BY <1>1, CallKnown DEF Fail, PrefsInv, PrefsTypeOK
  <1>3. /\ call' \in [Calls -> Call] /\ LoadsCarry'
        /\ c \in Live(d) /\ Live(d)' = Live(d) \ {c}
        /\ \A e \in Devices \ {d}, k \in Calls :
             call[k].from = e \/ call'[k].from = e => call'[k] = call[k]
        /\ OneLoad(d)'
    BY <1>1, <1>2, EndedIs
  <1>4. ASSUME d \notin unsure'
        PROVE  Informed(d) /\ Live(d) = {c} /\ Live(d)' = {}
    BY <1>2, <1>3, <1>4 DEF PrefsInv, Sound, Informed
  <1>5. CASE call[c].op = "load"
    <2>1. shown' = shown /\ engine' = engine /\ keyed' = keyed
      BY <1>5 DEF Fail
    <2>2. d \notin loaded
      BY <1>3, <1>5 DEF PrefsInv, Sound, OneLoad
    <2>3. PrefsTypeOK'
      BY <1>2, <1>3, <2>1 DEF PrefsInv, PrefsTypeOK
    <2>4. Sound(d)'
      BY <1>2, <1>3, <1>4, <2>2 DEF Sound, EngineFollows, Informed
    <2>5. ASSUME NEW e \in Devices \ {d} PROVE Sound(e)'
      <3>1. Untouched(e)
        BY <1>2, <1>3, <2>1, <2>5 DEF Untouched
      <3> QED
        BY <1>2, <3>1, UntouchedStays DEF PrefsInv
    <2> QED
      BY <1>3, <2>3, <2>4, <2>5 DEF PrefsInv
  <1>6. CASE call[c].op # "load"
    <2>1. Show(d, call[c].before)
      BY <1>1, <1>6 DEF Fail
    <2>2. /\ shown' \in [Devices -> AllPrefs] /\ engine' \in [Devices -> AllPrefs]
          /\ keyed' \in SUBSET Devices
          /\ shown'[d] = call[c].before /\ engine'[d] = call[c].before
          /\ \A e \in Devices \ {d} : /\ shown'[e] = shown[e] /\ engine'[e] = engine[e]
                                      /\ e \in keyed' <=> e \in keyed
      BY <1>2, <2>1, ShowIs DEF PrefsInv
    <2>3. PrefsTypeOK'
      BY <1>2, <1>3, <2>2 DEF PrefsInv, PrefsTypeOK
    <2>4. ASSUME d \notin unsure' PROVE Informed(d)'
      <3>1. who[d] # Nobody /\ d \in loaded => call[c].before = record[who[d]]
        BY <1>2, <1>4, <1>6, <2>4 DEF Informed, Truthful
      <3> QED
        BY <1>2, <1>4, <2>2, <2>4, <3>1 DEF Informed
    <2>5. Sound(d)'
      BY <1>2, <1>3, <2>2, <2>4 DEF Sound, EngineFollows
    <2>6. ASSUME NEW e \in Devices \ {d} PROVE Sound(e)'
      <3>1. Untouched(e)
        BY <1>2, <1>3, <2>2, <2>6 DEF Untouched
      <3> QED
        BY <1>2, <3>1, UntouchedStays DEF PrefsInv
    <2> QED
      BY <1>3, <2>3, <2>5, <2>6 DEF PrefsInv
  <1> QED
    BY <1>5, <1>6

LEMMA ForgetKeeps ==
  ASSUME PrefsInv, NEW c \in Calls, Forget(c)
  PROVE  PrefsInv'
  <1>1. /\ record' = record /\ who' = who /\ shown' = shown /\ loaded' = loaded
        /\ engine' = engine /\ keyed' = keyed /\ unsure' = unsure /\ changes' = changes
        /\ call[c].from = Nobody /\ call' = [call EXCEPT ![c] = NoCall]
    BY DEF Forget, client
  <1>2. /\ call' \in [Calls -> Call]
        /\ call'[c] = NoCall /\ \A k \in Calls \ {c} : call'[k] = call[k]
    BY <1>1, CallBecomes, NoCallIs DEF PrefsInv
  <1>3. PrefsTypeOK'
    BY <1>1, <1>2 DEF PrefsInv, PrefsTypeOK
  <1>4. LoadsCarry'
    BY <1>2, NoCallIs DEF PrefsInv, LoadsCarry
  <1>5. ASSUME NEW e \in Devices PROVE Sound(e)'
    <2>1. Untouched(e)
      BY <1>1, <1>2, NoCallIs, PrefsAssumption DEF Untouched
    <2> QED
      BY <1>1, <2>1, UntouchedStays DEF PrefsInv
  <1> QED
    BY <1>3, <1>4, <1>5 DEF PrefsInv

-----------------------------------------------------------------------------
(* The server.                                                             *)

\* A served request is the one it was, with an answer.
LEMMA ServedIs ==
  ASSUME PrefsInv, NEW c \in Calls, NEW answer \in AllPrefs,
         call' = [call EXCEPT ![c].answer = answer]
  PROVE  /\ call' \in [Calls -> Call] /\ LoadsCarry'
         /\ call'[c].answer = answer
         /\ \A k \in Calls : /\ call'[k].op = call[k].op /\ call'[k].from = call[k].from
                             /\ call'[k].of = call[k].of
         /\ \A k \in Calls \ {c} : call'[k] = call[k]
         /\ \A e \in Devices : Live(e)' = Live(e)
  <1>1. call[c] \in Call /\ call \in [Calls -> Call]
    BY CallKnown DEF PrefsInv, PrefsTypeOK
  <1>2. call' = [call EXCEPT ![c] = [call[c] EXCEPT !.answer = answer]]
    BY <1>1
  <1>3. PICK r \in Call : /\ r = [call[c] EXCEPT !.answer = answer]
                          /\ r.op = call[c].op /\ r.from = call[c].from
                          /\ r.of = call[c].of /\ r.answer = answer
    BY <1>1 DEF Call
  <1>4. /\ call' \in [Calls -> Call]
        /\ call'[c] = r /\ \A k \in Calls \ {c} : call'[k] = call[k]
    BY <1>2, <1>3, CallBecomes DEF PrefsInv
  <1>5. \A k \in Calls : /\ call'[k].op = call[k].op /\ call'[k].from = call[k].from
                         /\ call'[k].of = call[k].of
    BY <1>3, <1>4
  <1>6. LoadsCarry'
    BY <1>5 DEF PrefsInv, LoadsCarry
  <1>7. \A e \in Devices : Live(e)' = Live(e)
    BY <1>5 DEF Live
  <1> QED
    BY <1>3, <1>4, <1>5, <1>6, <1>7

LEMMA ServeLoadKeeps ==
  ASSUME PrefsInv, NEW c \in Calls, ServeLoad(c)
  PROVE  PrefsInv'
  <1>1. /\ record' = record /\ who' = who /\ shown' = shown /\ loaded' = loaded
        /\ engine' = engine /\ keyed' = keyed /\ changes' = changes
        /\ unsure' = unsure \ Told(c)
        /\ call[c].op = "load"
    BY DEF ServeLoad, client
  <1>2. call[c].of \in Accounts
    BY <1>1, CallKnown DEF PrefsInv, LoadsCarry
  <1>3. PICK answer \in AllPrefs : /\ answer = record[call[c].of]
                                   /\ call' = [call EXCEPT ![c].answer = answer]
    BY <1>2 DEF ServeLoad, PrefsInv, PrefsTypeOK
  <1>4. /\ call' \in [Calls -> Call] /\ LoadsCarry'
        /\ call'[c].answer = answer
        /\ \A k \in Calls : /\ call'[k].op = call[k].op /\ call'[k].from = call[k].from
                            /\ call'[k].of = call[k].of
        /\ \A k \in Calls \ {c} : call'[k] = call[k]
        /\ \A e \in Devices : Live(e)' = Live(e)
    BY <1>3, ServedIs
  <1>5. PrefsTypeOK'
    BY <1>1, <1>4 DEF PrefsInv, PrefsTypeOK
  <1>6. ASSUME NEW e \in Devices PROVE Sound(e)'
    <2>1. Live(e)' = Live(e) /\ Live(e) \subseteq Calls
      BY <1>4 DEF Live
    <2>2. EngineFollows(e)'
      BY <1>1 DEF PrefsInv, Sound, EngineFollows
    <2>3. OneLoad(e)'
      BY <1>1, <1>4, <2>1 DEF PrefsInv, Sound, OneLoad
    <2>4. CASE e \in Told(c)
      <3>1. Live(e)' = {c} /\ who[e] = call[c].of
        BY <2>1, <2>4 DEF Told
      <3>2. Truthful(e, c)'
        BY <1>1, <1>3, <1>4, <3>1 DEF Truthful
      <3>3. Informed(e)'
        BY <3>1, <3>2 DEF Informed
      <3> QED
        BY <2>2, <2>3, <3>3 DEF Sound
    <2>5. CASE e \notin Told(c)
      <3>1. ASSUME e \notin unsure' PROVE Informed(e)'
        <4>1. Informed(e)
          BY <1>1, <2>5, <3>1 DEF PrefsInv, Sound
        <4>2. ASSUME NEW k \in Live(e), who[e] # Nobody PROVE Truthful(e, k)'
          <5>1. Truthful(e, k)
            BY <4>1, <4>2 DEF Informed
          <5>2. CASE k = c
            BY <1>1, <1>3, <1>4, <5>1, <5>2 DEF Truthful
          <5>3. CASE k # c
            BY <1>1, <1>4, <2>1, <5>1, <5>3 DEF Truthful
          <5> QED
            BY <5>2, <5>3
        <4> QED
          BY <1>1, <2>1, <4>1, <4>2 DEF Informed
      <3> QED
        BY <2>2, <2>3, <3>1 DEF Sound
    <2> QED
      BY <2>4, <2>5
  <1> QED
    BY <1>4, <1>5, <1>6 DEF PrefsInv

LEMMA ServeSaveKeeps ==
  ASSUME PrefsInv, NEW c \in Calls, ServeSave(c)
  PROVE  PrefsInv'
  <1>1. /\ who' = who /\ shown' = shown /\ loaded' = loaded
        /\ engine' = engine /\ keyed' = keyed /\ changes' = changes
        /\ unsure' = (unsure \ Told(c)) \cup Unaware(c)
        /\ call[c].op \in {"save", "migrate"}
    BY DEF ServeSave, client
  <1>2. call[c].of \in Accounts
    BY CallKnown DEF ServeSave, PrefsInv
  <1>3. PICK after \in AllPrefs : /\ record' = [record EXCEPT ![call[c].of] = after]
                                  /\ call' = [call EXCEPT ![c].answer = after]
    <2>1. call[c].patch \in Patches \cup {NoPatch} /\ record[call[c].of] \in AllPrefs
      BY <1>2, CallKnown DEF PrefsInv, PrefsTypeOK
    <2>2. Updated(call[c]) \in AllPrefs
      BY <2>1, PrefsAssumption DEF Updated, Patched, Patches, NoPatch, AllPrefs, Fields
    <2> QED
      BY <2>2 DEF ServeSave
  <1>4. /\ call' \in [Calls -> Call] /\ LoadsCarry'
        /\ call'[c].answer = after
        /\ \A k \in Calls : /\ call'[k].op = call[k].op /\ call'[k].from = call[k].from
                            /\ call'[k].of = call[k].of
        /\ \A k \in Calls \ {c} : call'[k] = call[k]
        /\ \A e \in Devices : Live(e)' = Live(e)
    BY <1>3, ServedIs
  <1>5. /\ record' \in [Accounts -> AllPrefs] /\ record'[call[c].of] = after
        /\ \A u \in Accounts : u # call[c].of => record'[u] = record[u]
    BY <1>2, <1>3 DEF PrefsInv, PrefsTypeOK
  <1>6. PrefsTypeOK'
    BY <1>1, <1>4, <1>5 DEF PrefsInv, PrefsTypeOK, Unaware
  <1>7. after # NoPrefs
    BY PrefsKnown
  <1>8. ASSUME NEW e \in Devices PROVE Sound(e)'
    <2>1. Live(e)' = Live(e) /\ Live(e) \subseteq Calls
      BY <1>4 DEF Live
    <2>2. EngineFollows(e)'
      BY <1>1 DEF PrefsInv, Sound, EngineFollows
    <2>3. OneLoad(e)'
      BY <1>1, <1>4, <2>1 DEF PrefsInv, Sound, OneLoad
    <2>4. ASSUME Live(e) = {c}, who[e] = call[c].of PROVE Informed(e)'
      <3>1. Truthful(e, c)'
        BY <1>1, <1>4, <1>5, <1>7, <2>4 DEF Truthful
      <3> QED
        BY <2>1, <2>4, <3>1 DEF Informed
    <2>5. ASSUME e \notin unsure' PROVE Informed(e)'
      <3>1. CASE e \in Told(c)
        BY <2>4, <3>1 DEF Told
      <3>2. CASE e \notin Told(c) /\ call[c].from = e
        <4>1. Informed(e) /\ Live(e) = {c}
          BY <1>1, <2>5, <3>2 DEF PrefsInv, Sound, Informed, Live
        <4>2. CASE who[e] = Nobody
          BY <1>1, <2>1, <4>1, <4>2 DEF Informed
        <4>3. CASE who[e] # Nobody
          BY <2>4, <4>1, <4>3 DEF Informed, Truthful
        <4> QED
          BY <4>2, <4>3
      <3>3. CASE e \notin Told(c) /\ call[c].from # e
        <4>1. Informed(e) /\ who[e] # call[c].of /\ c \notin Live(e)
          BY <1>1, <2>5, <3>3 DEF PrefsInv, Sound, Unaware, Live
        <4>2. who[e] # Nobody => record'[who[e]] = record[who[e]]
          BY <1>5, <4>1 DEF PrefsInv, PrefsTypeOK
        <4>3. \A k \in Live(e) : call'[k] = call[k]
          BY <1>4, <2>1, <4>1
        <4> QED
          BY <1>1, <2>1, <4>1, <4>2, <4>3 DEF Informed, Truthful
      <3> QED
        BY <3>1, <3>2, <3>3
    <2> QED
      BY <2>2, <2>3, <2>5 DEF Sound
  <1> QED
    BY <1>4, <1>6, <1>8 DEF PrefsInv

-----------------------------------------------------------------------------
(* The theorems.                                                           *)

LEMMA InitHolds ==
  PrefsInit => PrefsInv
  <1> SUFFICES ASSUME PrefsInit PROVE PrefsInv
    OBVIOUS
  <1>1. \A v \in Values : [Defaults EXCEPT !.rate = v] \in AllPrefs
    BY PrefsKnown DEF AllPrefs, Fields
  <1>2. call \in [Calls -> Call] /\ \A c \in Calls : call[c] = NoCall
    BY NoCallIs DEF PrefsInit
  <1>3. PrefsTypeOK
    BY <1>1, <1>2, PrefsKnown, PrefsAssumption DEF PrefsInit, PrefsTypeOK
  <1>4. \A d \in Devices : Live(d) = {}
    BY <1>2, NoCallIs, PrefsAssumption DEF Live
  <1>5. LoadsCarry
    BY <1>2, NoCallIs DEF LoadsCarry
  <1>6. \A d \in Devices : Sound(d)
    BY <1>4 DEF PrefsInit, Sound, EngineFollows, OneLoad, Informed
  <1> QED
    BY <1>3, <1>5, <1>6 DEF PrefsInv

LEMMA NextKeeps ==
  PrefsInv /\ [PrefsNext]_prefsVars => PrefsInv'
  <1> SUFFICES ASSUME PrefsInv, [PrefsNext]_prefsVars PROVE PrefsInv'
    OBVIOUS
  <1>1. CASE UNCHANGED prefsVars
    BY <1>1 DEF prefsVars, client, PrefsInv, PrefsTypeOK, LoadsCarry, Sound, EngineFollows,
                OneLoad, Informed, Truthful, Live
  <1>2. ASSUME NEW d \in Devices,
               \/ \E u \in Accounts : SignIn(d, u)
               \/ SignOut(d) \/ OpenSettings(d) \/ Relaunch(d) \/ KeyRate(d)
               \/ \E patch \in Patches : Save(d, patch)
        PROVE  PrefsInv'
    BY <1>2, SignInKeeps, SignOutKeeps, OpenSettingsKeeps, RelaunchKeeps, KeyRateKeeps,
       SaveKeeps
  <1>3. ASSUME NEW c \in Calls,
               \/ ServeLoad(c) \/ ServeSave(c)
               \/ TakeLoad(c) \/ TakeSaved(c) \/ Fail(c) \/ Forget(c)
        PROVE  PrefsInv'
    BY <1>3, ServeLoadKeeps, ServeSaveKeeps, TakeLoadKeeps, TakeSavedKeeps, FailKeeps,
       ForgetKeeps
  <1> QED
    BY <1>1, <1>2, <1>3 DEF PrefsNext

\* The inductive invariant: whatever the order in which requests of a device and
\* of the user's others are served, answered and lost, a device that is not
\* unsure has one request at most, and what that request will show is the record.
THEOREM PrefsInvHolds == PrefsSpec => []PrefsInv
  BY InitHolds, NextKeeps, PTL DEF PrefsSpec

LEMMA PrefsTyped ==
  PrefsInv => PrefsTypeOK
  BY DEF PrefsInv

\* The records, the stores and the requests keep their shape.
THEOREM PrefsTypeCorrect == PrefsSpec => []PrefsTypeOK
  BY PrefsTyped, PrefsInvHolds, PTL

\* A loaded device's player runs with what the device shows, and a device that
\* waits for nothing shows what the server has recorded, through optimistic saves,
\* the migration of its own rate, failures and late answers (save, doLoad,
\* applyToEngine).
THEOREM PlayerAndServerAgree == PrefsSpec => []InAgreement
  <1>1. PrefsInv => InAgreement
    BY DEF PrefsInv, PrefsTypeOK, Sound, EngineFollows, Informed, InAgreement
  <1> QED
    BY <1>1, PrefsInvHolds, PTL

-----------------------------------------------------------------------------
(* UploadQueue: the inductive invariant, of the queue as it is between two  *)
(* calls and as pump() finds it.                                            *)

Active(i, list, of) == i \in ToSet(list) /\ of[i] = "uploading"

\* What is under way for an item: its transfers, and the lookup that ends in one.
Work(i, lk, going) == going[i] + (IF i \in lk THEN 1 ELSE 0)

\* Nothing is under way for an item but what its slot is for.  A lookup that went
\* on through a pause or a removal adds one transfer to that, never two.
ItemSound(i, list, of, st, lk, going, intr) ==
    /\ i \notin intr => Work(i, lk, going) = IF Active(i, list, of) THEN 1 ELSE 0
    /\ Work(i, lk, going) <= IF Active(i, list, of) THEN 2 ELSE 1
    /\ i \notin st => Work(i, lk, going) = 0
    /\ of[i] = "new" => i \notin st
    /\ i \in ToSet(list) => of[i] # "new"

QueueSound(list, of, st, lk, going, intr) ==
    /\ list \in Seq(Items) /\ IsInjective(list)
    /\ of \in [Items -> States]
    /\ st \in SUBSET Items /\ lk \subseteq st
    /\ going \in [Items -> Nat]
    /\ intr \in SUBSET Items
    /\ \A i \in Items : ItemSound(i, list, of, st, lk, going, intr)
    /\ Cardinality(With("uploading", list, of)) <= MaxConcurrent

QueueInv == QueueSound(items, state, started, lookup, transfers, interrupted)
        /\ clicks \in 0..MaxClicks

-----------------------------------------------------------------------------
(* The list of items.                                                      *)

LEMMA ItemHasItsPlace ==
  ASSUME NEW S, NEW list \in Seq(S), IsInjective(list), NEW i \in ToSet(list)
  PROVE  At(list, i) \in 1..Len(list) /\ list[At(list, i)] = i
  <1>1. \E n \in DOMAIN list : list[n] = i
    BY DEF ToSet
  <1>2. At(list, i) \in DOMAIN list /\ list[At(list, i)] = i
    BY <1>1, Zenon DEF At
  <1> QED
    BY <1>2

LEMMA AppendAddsAnItem ==
  ASSUME NEW S, NEW list \in Seq(S), IsInjective(list), NEW i \in S, i \notin ToSet(list)
  PROVE  /\ Append(list, i) \in Seq(S)
         /\ IsInjective(Append(list, i))
         /\ ToSet(Append(list, i)) = ToSet(list) \cup {i}
  <1> DEFINE t == Append(list, i)
  <1>1. t \in Seq(S) /\ Len(t) = Len(list) + 1 /\ Len(list) \in Nat
    OBVIOUS
  <1>2. DOMAIN list = 1..Len(list) /\ DOMAIN t = 1..(Len(list) + 1)
    BY <1>1
  <1>3. /\ \A n \in 1..Len(list) : t[n] = list[n]
        /\ t[Len(list) + 1] = i
    OBVIOUS
  <1> HIDE DEF t
  <1>4. IsInjective(t)
    BY <1>1, <1>2, <1>3 DEF IsInjective, ToSet
  <1>5. ToSet(t) = ToSet(list) \cup {i}
    BY <1>1, <1>2, <1>3 DEF ToSet
  <1> QED
    BY <1>1, <1>4, <1>5 DEF t

LEMMA WithoutTakesItsItem ==
  ASSUME NEW S, NEW list \in Seq(S), IsInjective(list), NEW i \in ToSet(list)
  PROVE  /\ Without(list, i) \in Seq(S)
         /\ IsInjective(Without(list, i))
         /\ ToSet(Without(list, i)) = ToSet(list) \ {i}
  <1> DEFINE p == At(list, i)
             t == Without(list, i)
             m == Len(list)
  <1>1. p \in 1..m /\ list[p] = i /\ m \in Nat /\ DOMAIN list = 1..m
    BY ItemHasItsPlace
  <1> HIDE DEF p, m
  <1> DEFINE low == SubSeq(list, 1, p - 1)
             high == SubSeq(list, p + 1, m)
  <1>2. t = low \o high
    BY DEF Without, RemoveAt, p, m
  <1>3. 1 \in Int /\ p - 1 \in Int /\ p + 1 \in Int /\ m \in Int
    BY <1>1
  <1>4. /\ \A n \in 1..(p - 1) : list[n] \in S
        /\ \A n \in (p + 1)..m : list[n] \in S
    BY <1>1 DEF m
  <1>5. /\ low \in Seq(S)
        /\ Len(low) = IF 1 <= p - 1 THEN (p - 1) - 1 + 1 ELSE 0
        /\ \A n \in 1..(p - 1) - 1 + 1 : low[n] = list[1 + n - 1]
    BY ONLY <1>3, <1>4, SubSeqProperties
  <1>6. /\ high \in Seq(S)
        /\ Len(high) = IF p + 1 <= m THEN m - (p + 1) + 1 ELSE 0
        /\ \A n \in 1..m - (p + 1) + 1 : high[n] = list[(p + 1) + n - 1]
    BY ONLY <1>3, <1>4, SubSeqProperties
  <1> HIDE DEF low, high, t
  <1>7. t \in Seq(S) /\ Len(t) = m - 1 /\ DOMAIN t = 1..(m - 1)
    <2>1. Len(low) = p - 1 /\ Len(high) = m - p
      BY <1>1, <1>5, <1>6
    <2>2. t \in Seq(S) /\ Len(t) = Len(low) + Len(high)
      BY <1>2, <1>5, <1>6
    <2>3. Len(t) = m - 1
      BY <1>1, <2>1, <2>2
    <2> QED
      BY <2>2, <2>3
  <1>8. ASSUME NEW n \in 1..(m - 1)
        PROVE  t[n] = IF n < p THEN list[n] ELSE list[n + 1]
    <2>1. Len(low) = p - 1 /\ Len(high) = m - p
      BY <1>1, <1>5, <1>6
    <2>2. CASE n < p
      <3>1. n \in 1..Len(low)
        BY <1>1, <2>1, <2>2
      <3>2. t[n] = low[n]
        BY <1>2, <1>5, <1>6, <3>1
      <3>3. n \in 1..(p - 1) - 1 + 1 /\ 1 + n - 1 = n
        BY <1>1, <2>2
      <3> QED
        BY <1>5, <2>2, <3>2, <3>3
    <2>3. CASE ~(n < p)
      <3>1. n - Len(low) \in 1..Len(high) /\ n = Len(low) + (n - Len(low))
        BY <1>1, <2>1, <2>3
      <3>2. t[n] = high[n - Len(low)]
        <4>1. \A x \in 1..Len(low) + Len(high) :
                (low \o high)[x] = IF x <= Len(low) THEN low[x] ELSE high[x - Len(low)]
          BY ONLY <1>5, <1>6, ConcatProperties
        <4>2. n \in 1..Len(low) + Len(high) /\ ~(n <= Len(low))
          BY <1>1, <2>1, <2>3
        <4> QED
          BY <1>2, <4>1, <4>2
      <3>3. /\ n - Len(low) \in 1..m - (p + 1) + 1
            /\ (p + 1) + (n - Len(low)) - 1 = n + 1
        BY <1>1, <2>1, <2>3
      <3> QED
        BY <1>6, <2>3, <3>2, <3>3
    <2> QED
      BY <2>2, <2>3
  <1>9. IsInjective(t)
    <2> SUFFICES ASSUME NEW a \in 1..(m - 1), NEW b \in 1..(m - 1), t[a] = t[b]
                 PROVE  a = b
      BY <1>7 DEF IsInjective
    <2> DEFINE from(n) == IF n < p THEN n ELSE n + 1
    <2>1. \A n \in 1..(m - 1) : from(n) \in 1..m /\ t[n] = list[from(n)]
      BY <1>1, <1>8
    <2>2. \A x, y \in 1..m : list[x] = list[y] => x = y
      BY <1>1 DEF IsInjective
    <2>3. from(a) = from(b)
      BY <2>1, <2>2
    <2> QED
      BY <1>1, <2>3
  <1>10. ToSet(t) = ToSet(list) \ {i}
    <2>1. ASSUME NEW n \in 1..(m - 1)
          PROVE  t[n] \in ToSet(list) \ {i}
      <3>1. PICK k \in 1..m : k # p /\ t[n] = list[k]
        BY <1>1, <1>8
      <3> QED
        BY <1>1, <3>1 DEF ToSet, IsInjective
    <2>2. ASSUME NEW n \in 1..m, n # p
          PROVE  list[n] \in ToSet(t)
      <3>1. CASE n < p
        <4>1. n \in 1..(m - 1) /\ t[n] = list[n]
          BY <1>1, <1>8, <3>1
        <4> QED
          BY <1>7, <4>1 DEF ToSet
      <3>2. CASE n > p
        <4>1. n - 1 \in 1..(m - 1) /\ ~(n - 1 < p) /\ (n - 1) + 1 = n
          BY <1>1, <3>2
        <4>2. t[n - 1] = list[n]
          BY <1>8, <4>1
        <4> QED
          BY <1>7, <4>1, <4>2 DEF ToSet
      <3> QED
        BY <1>1, <2>2, <3>1, <3>2
    <2>3. ToSet(t) \subseteq ToSet(list) \ {i}
      BY <1>7, <2>1 DEF ToSet
    <2>4. ToSet(list) \ {i} \subseteq ToSet(t)
      BY <1>1, <2>2 DEF ToSet
    <2> QED
      BY <2>3, <2>4
  <1> QED
    BY <1>7, <1>9, <1>10 DEF t

LEMMA ListFits ==
  ASSUME NEW list \in Seq(Items), IsInjective(list)
  PROVE  list \in SeqOf(Items, Cardinality(Items))
  <1>1. list \in [1..Len(list) -> Items] /\ Len(list) \in Nat
    OBVIOUS
  <1>2. list \in Injection(1..Len(list), Items)
    BY <1>1 DEF Injection
  <1>3. Cardinality(1..Len(list)) <= Cardinality(Items)
    BY ONLY <1>2, QueueAssumption, FS_Injection DEF QueueAssumption
  <1>4. Cardinality(1..Len(list)) = Len(list)
    <2>1. 1 \in Int /\ Len(list) \in Int
      BY <1>1
    <2>2. Cardinality(1..Len(list)) = IF 1 > Len(list) THEN 0 ELSE Len(list) - 1 + 1
      BY ONLY <2>1, FS_Interval
    <2> QED
      BY <1>1, <2>2
  <1>5. Cardinality(Items) \in Nat
    BY QueueAssumption, FS_CardinalityType DEF QueueAssumption
  <1> QED
    BY <1>1, <1>3, <1>4, <1>5 DEF SeqOf

-----------------------------------------------------------------------------
(* pump() runs no more items than there are slots.                         *)

LEMMA PickedFits ==
  ASSUME NEW list \in Seq(Items), IsInjective(list), NEW of, Slots(list, of) \in Nat
  PROVE  /\ IsFiniteSet(Picked(list, of))
         /\ Cardinality(Picked(list, of)) <= Slots(list, of)
         /\ Picked(list, of) \subseteq With("queued", list, of)
  <1> DEFINE Q == With("queued", list, of)
             Before(i) == {j \in Q : At(list, j) < At(list, i)}
             rank == [i \in Picked(list, of) |-> Cardinality(Before(i))]
             k == Slots(list, of)
  <1>1. Q \subseteq ToSet(list) /\ ToSet(list) \subseteq Items
    BY DEF With, ToSet
  <1>2. IsFiniteSet(Q)
    BY <1>1, QueueAssumption, FS_Subset
  <1>3. \A i \in Q : At(list, i) \in Nat /\ list[At(list, i)] = i
    BY <1>1, ItemHasItsPlace
  <1>4. Picked(list, of) = {i \in Q : Cardinality(Before(i)) < k}
    BY DEF Picked
  <1> HIDE DEF Q, k
  <1>5. \A i \in Q : IsFiniteSet(Before(i)) /\ Cardinality(Before(i)) \in Nat
    BY <1>2, FS_Subset, FS_CardinalityType
  <1>6. ASSUME NEW i \in Q, NEW j \in Q, At(list, i) < At(list, j)
        PROVE  Cardinality(Before(i)) # Cardinality(Before(j))
    <2>1. Before(i) \subseteq Before(j)
      BY <1>3, <1>6
    <2>2. i \in Before(j) /\ i \notin Before(i)
      BY <1>3, <1>6
    <2> HIDE DEF Before
    <2> QED
      BY <1>5, <2>1, <2>2, FS_Subset
  <1>7. ASSUME NEW i \in Q, NEW j \in Q, Cardinality(Before(i)) = Cardinality(Before(j))
        PROVE  i = j
    <2>1. ~(At(list, i) < At(list, j)) /\ ~(At(list, j) < At(list, i))
      BY <1>6, <1>7
    <2>2. At(list, i) = At(list, j)
      BY <1>3, <2>1
    <2> QED
      BY <1>3, <2>2
  <1> HIDE DEF Before
  <1>8. rank \in [Picked(list, of) -> 0..(k - 1)]
    <2>1. k \in Nat
      BY DEF k
    <2> QED
      BY <1>4, <1>5, <2>1
  <1>9. rank \in Injection(Picked(list, of), 0..(k - 1))
    BY <1>4, <1>7, <1>8 DEF Injection, IsInjective
  <1>10. IsFiniteSet(0..(k - 1)) /\ Cardinality(0..(k - 1)) = k
    <2>1. k \in Nat /\ 0 \in Int /\ k - 1 \in Int
      BY DEF k
    <2>2. /\ IsFiniteSet(0..(k - 1))
          /\ Cardinality(0..(k - 1)) = IF 0 > k - 1 THEN 0 ELSE (k - 1) - 0 + 1
      BY ONLY <2>1, FS_Interval
    <2> QED
      BY <2>1, <2>2
  <1> HIDE DEF rank
  <1>11. IsFiniteSet(Picked(list, of)) /\ Cardinality(Picked(list, of)) <= k
    BY ONLY <1>9, <1>10, FS_Injection
  <1> QED
    BY <1>4, <1>11 DEF Q, k

-----------------------------------------------------------------------------
(* pump() and the items it runs.                                           *)

LEMMA WithIsFinite ==
  ASSUME NEW list \in Seq(Items), NEW of, NEW s
  PROVE  /\ With(s, list, of) \subseteq Items
         /\ IsFiniteSet(With(s, list, of))
         /\ Cardinality(With(s, list, of)) \in Nat
  <1>1. With(s, list, of) \subseteq Items
    BY DEF With, ToSet
  <1>2. IsFiniteSet(With(s, list, of))
    BY <1>1, QueueAssumption, FS_Subset
  <1> QED
    BY <1>1, <1>2, FS_CardinalityType

\* pump() leaves in order what it found in order.
LEMMA PumpKeeps ==
  ASSUME NEW list, NEW of, NEW going, NEW intr,
         QueueSound(list, of, started, lookup, going, intr),
         Pump(list, of, going)
  PROVE  QueueSound(items', state', started', lookup', transfers', intr)
  <1> DEFINE run == Picked(list, of)
             up(l, o) == With("uploading", l, o)
  <1>1. /\ list \in Seq(Items) /\ IsInjective(list)
        /\ of \in [Items -> States]
        /\ started \in SUBSET Items /\ lookup \subseteq started
        /\ going \in [Items -> Nat]
        /\ intr \in SUBSET Items
        /\ Cardinality(up(list, of)) <= MaxConcurrent
    BY DEF QueueSound
  <1>2. /\ items' = list
        /\ state' = [i \in Items |-> IF i \in run THEN "uploading" ELSE of[i]]
        /\ started' = started \cup run
        /\ lookup' = lookup \cup (run \ started)
        /\ transfers' = [i \in Items |->
             IF i \in run \cap started THEN going[i] + 1 ELSE going[i]]
    BY DEF Pump
  <1>3. Slots(list, of) \in Nat /\ Slots(list, of) = MaxConcurrent - Cardinality(up(list, of))
        /\ Cardinality(up(list, of)) \in Nat /\ IsFiniteSet(up(list, of))
    <2>1. Cardinality(up(list, of)) \in Nat /\ IsFiniteSet(up(list, of))
      BY <1>1, WithIsFinite
    <2> QED
      BY <1>1, <2>1, QueueAssumption DEF Slots
  <1>4. /\ IsFiniteSet(run)
        /\ Cardinality(run) <= Slots(list, of)
        /\ run \subseteq With("queued", list, of)
    BY ONLY <1>1, <1>3, PickedFits
  <1>5. \A i \in run : i \in Items /\ i \in ToSet(list) /\ of[i] = "queued"
    BY <1>1, <1>4 DEF With, ToSet
  <1> HIDE DEF run
  <1>6. state' \in [Items -> States] /\ started' \in SUBSET Items /\ lookup' \subseteq started'
        /\ transfers' \in [Items -> Nat]
    BY <1>1, <1>2, <1>5 DEF States
  <1>7. ASSUME NEW i \in Items
        PROVE  ItemSound(i, items', state', started', lookup', transfers', intr)
    <2>1. ItemSound(i, list, of, started, lookup, going, intr)
      BY DEF QueueSound
    <2>2. CASE i \notin run
      <3>1. /\ state'[i] = of[i] /\ (i \in started' <=> i \in started)
            /\ (i \in lookup' <=> i \in lookup) /\ transfers'[i] = going[i]
        BY <1>2, <2>2
      <3> QED
        BY <1>2, <2>1, <3>1 DEF ItemSound, Work, Active
    <2>3. CASE i \in run
      <3>1. /\ of[i] = "queued" /\ state'[i] = "uploading" /\ i \in ToSet(items')
            /\ i \in started' /\ going[i] \in Nat
        BY <1>1, <1>2, <1>5, <2>3
      <3>2. /\ Work(i, lookup, going) <= 1 /\ Work(i, lookup, going) \in Nat
            /\ i \notin intr => Work(i, lookup, going) = 0
            /\ i \notin started => Work(i, lookup, going) = 0
        BY <2>1, <3>1 DEF ItemSound, Active, Work
      <3>3. Work(i, lookup', transfers') = Work(i, lookup, going) + 1
        BY <1>1, <1>2, <2>3, <3>1 DEF Work
      <3>4. Active(i, items', state')
        BY <3>1 DEF Active
      <3> QED
        BY <3>1, <3>2, <3>3, <3>4 DEF ItemSound
    <2> QED
      BY <2>2, <2>3
  <1>8. Cardinality(up(items', state')) <= MaxConcurrent
    <2>1. up(items', state') = up(list, of) \cup run
      <3>1. \A i \in ToSet(list) : i \in Items
        BY <1>1 DEF ToSet
      <3> QED
        BY <1>2, <1>5, <3>1 DEF With
    <2>2. up(list, of) \cap run = {}
      BY <1>5 DEF With
    <2> HIDE DEF up
    <2>3. Cardinality(up(list, of) \cup run)
            = Cardinality(up(list, of)) + Cardinality(run)
              - Cardinality(up(list, of) \cap run)
      BY ONLY <1>3, <1>4, FS_Union
    <2>4. Cardinality(run) \in Nat
      BY <1>4, FS_CardinalityType
    <2>5. Cardinality(up(list, of) \cap run) = 0
      BY <2>2, FS_EmptySet
    <2>6. Cardinality(up(list, of)) + Cardinality(run) <= MaxConcurrent
      BY <1>3, <1>4, <2>4, QueueAssumption
    <2>7. Cardinality(up(list, of) \cup run) <= MaxConcurrent
      BY <1>3, <2>3, <2>4, <2>5, <2>6
    <2> QED
      BY <2>1, <2>7
  <1> QED
    BY <1>1, <1>2, <1>6, <1>7, <1>8 DEF QueueSound

-----------------------------------------------------------------------------
(* The calls.                                                              *)

\* An item that has no slot, or loses it, makes room.
LEMMA FewerUploading ==
  ASSUME NEW list \in Seq(Items), NEW of, NEW list2 \in Seq(Items), NEW of2,
         Cardinality(With("uploading", list, of)) <= MaxConcurrent,
         With("uploading", list2, of2) \subseteq With("uploading", list, of)
  PROVE  Cardinality(With("uploading", list2, of2)) <= MaxConcurrent
  <1> DEFINE A == With("uploading", list, of)
             B == With("uploading", list2, of2)
  <1>1. IsFiniteSet(A) /\ Cardinality(A) \in Nat /\ Cardinality(B) \in Nat /\ B \in SUBSET A
        /\ Cardinality(A) <= MaxConcurrent
    BY WithIsFinite
  <1> HIDE DEF A, B
  <1>2. Cardinality(B) <= Cardinality(A)
    BY <1>1, FS_Subset
  <1>3. Cardinality(B) <= MaxConcurrent
    BY <1>1, <1>2, QueueAssumption
  <1> QED
    BY <1>3 DEF B

\* What holds of the queue between two calls.
LEMMA Known ==
  ASSUME QueueInv
  PROVE  /\ items \in Seq(Items) /\ IsInjective(items) /\ Listed \subseteq Items
         /\ state \in [Items -> States]
         /\ started \in SUBSET Items /\ lookup \subseteq started
         /\ transfers \in [Items -> Nat]
         /\ interrupted \in SUBSET Items
         /\ \A i \in Items :
              ItemSound(i, items, state, started, lookup, transfers, interrupted)
         /\ Cardinality(With("uploading", items, state)) <= MaxConcurrent
         /\ clicks \in 0..MaxClicks
  BY DEF QueueInv, QueueSound, Listed, ToSet

LEMMA AddItemKeeps ==
  ASSUME QueueInv, NEW i \in Items, AddItem(i)
  PROVE  QueueInv'
  <1> DEFINE list == Append(items, i)
             of == [state EXCEPT ![i] = "queued"]
  <1>1. i \notin ToSet(items) /\ state[i] = "new"
    BY Known DEF AddItem, ItemSound
  <1>2. list \in Seq(Items) /\ IsInjective(list) /\ ToSet(list) = ToSet(items) \cup {i}
    BY ONLY QueueInv, <1>1, Known, AppendAddsAnItem
  <1> HIDE DEF list
  <1>3. of \in [Items -> States] /\ of[i] = "queued"
        /\ \A j \in Items \ {i} : of[j] = state[j]
    BY Known DEF States
  <1> HIDE DEF of
  <1>4. ASSUME NEW j \in Items
        PROVE  ItemSound(j, list, of, started, lookup, transfers, interrupted)
    <2>1. ItemSound(j, items, state, started, lookup, transfers, interrupted)
      BY Known
    <2> QED
      BY <1>1, <1>2, <1>3, <2>1 DEF ItemSound, Active
  <1>5. With("uploading", list, of) \subseteq With("uploading", items, state)
    BY <1>1, <1>2, <1>3, Known DEF With, Listed
  <1>6. Cardinality(With("uploading", list, of)) <= MaxConcurrent
    BY ONLY QueueInv, <1>2, <1>5, Known, FewerUploading
  <1>7. QueueSound(list, of, started, lookup, transfers, interrupted)
    BY <1>2, <1>3, <1>4, <1>6, Known DEF QueueSound
  <1>8. Pump(list, of, transfers) /\ interrupted' = interrupted /\ clicks' = clicks
    BY DEF AddItem, list, of
  <1>9. QueueSound(items', state', started', lookup', transfers', interrupted)
    BY ONLY <1>7, <1>8, PumpKeeps
  <1> QED
    BY <1>8, <1>9 DEF QueueInv

LEMMA FoundKeeps ==
  ASSUME QueueInv, NEW i \in Items, Found(i)
  PROVE  QueueInv'
  <1>1. /\ i \in lookup /\ lookup' = lookup \ {i}
        /\ transfers' = [transfers EXCEPT ![i] = @ + 1]
        /\ UNCHANGED <<items, state, started, interrupted, clicks>>
    BY DEF Found
  <1>2. /\ transfers' \in [Items -> Nat] /\ lookup' \subseteq started'
        /\ \A j \in Items : transfers'[j] = IF j = i THEN transfers[j] + 1 ELSE transfers[j]
    BY <1>1, Known
  <1>3. \A j \in Items : Work(j, lookup', transfers') = Work(j, lookup, transfers)
    BY <1>1, <1>2, Known DEF Work
  <1>4. \A j \in Items :
          ItemSound(j, items', state', started', lookup', transfers', interrupted')
    BY <1>1, <1>3, Known DEF ItemSound, Active
  <1>5. With("uploading", items', state') = With("uploading", items, state)
    BY <1>1
  <1> QED
    BY <1>1, <1>2, <1>4, <1>5, Known DEF QueueInv, QueueSound

\* Pausing, resuming, retrying and settling give an item another state, and may
\* stop transfers of it.
LEMMA RestateKeeps ==
  ASSUME QueueInv, NEW i \in Items, NEW s \in States \ {"new", "uploading"},
         NEW n \in Nat, NEW intr \in SUBSET Items, interrupted \subseteq intr,
         \A j \in Items \ {i} : j \in intr => j \in interrupted,
         i \in started \/ n = 0,
         i \notin intr => n = 0 /\ i \notin lookup,
         n + (IF i \in lookup THEN 1 ELSE 0) <= 1,
         state[i] # "new",
         Pump(items, [state EXCEPT ![i] = s], [transfers EXCEPT ![i] = n])
  PROVE  QueueSound(items', state', started', lookup', transfers', intr)
  <1> DEFINE of == [state EXCEPT ![i] = s]
             going == [transfers EXCEPT ![i] = n]
  <1>1. of \in [Items -> States] /\ of[i] = s /\ \A j \in Items \ {i} : of[j] = state[j]
    BY Known
  <1>2. going \in [Items -> Nat] /\ going[i] = n
        /\ \A j \in Items \ {i} : going[j] = transfers[j]
    BY Known
  <1>3. Pump(items, of, going)
    OBVIOUS
  <1> HIDE DEF of, going
  <1>4. ASSUME NEW j \in Items
        PROVE  ItemSound(j, items, of, started, lookup, going, intr)
    <2>1. ItemSound(j, items, state, started, lookup, transfers, interrupted)
      BY Known
    <2>2. CASE j = i
      BY <1>1, <1>2, <2>1, <2>2, Known DEF ItemSound, Active, Work
    <2>3. CASE j # i
      BY <1>1, <1>2, <2>1, <2>3 DEF ItemSound, Active, Work
    <2> QED
      BY <2>2, <2>3
  <1>5. With("uploading", items, of) \subseteq With("uploading", items, state)
    BY <1>1, Known DEF With, Listed
  <1>6. Cardinality(With("uploading", items, of)) <= MaxConcurrent
    BY ONLY QueueInv, <1>5, Known, FewerUploading
  <1>7. QueueSound(items, of, started, lookup, going, intr)
    BY <1>1, <1>2, <1>4, <1>6, Known DEF QueueSound
  <1> QED
    BY ONLY <1>3, <1>7, PumpKeeps

LEMMA PauseItemKeeps ==
  ASSUME QueueInv, NEW i \in Items, PauseItem(i)
  PROVE  QueueInv'
  <1> DEFINE intr == interrupted \cup ({i} \cap lookup)
  <1>1. /\ i \in Listed /\ state[i] = "uploading"
        /\ interrupted' = intr /\ clicks < MaxClicks /\ clicks' = clicks + 1
        /\ Pump(items, [state EXCEPT ![i] = "paused"], [transfers EXCEPT ![i] = 0])
    BY DEF PauseItem, Click, Interrupt
  <1>2. /\ "paused" \in States \ {"new", "uploading"} /\ 0 \in Nat
        /\ intr \in SUBSET Items /\ interrupted \subseteq intr
        /\ \A j \in Items \ {i} : j \in intr => j \in interrupted
        /\ i \in started \/ 0 = 0
        /\ i \notin intr => 0 = 0 /\ i \notin lookup
        /\ 0 + (IF i \in lookup THEN 1 ELSE 0) <= 1
        /\ state[i] # "new"
    BY <1>1, Known DEF States
  <1> HIDE DEF intr
  <1>3. QueueSound(items', state', started', lookup', transfers', intr)
    BY ONLY QueueInv, <1>1, <1>2, RestateKeeps
  <1>4. clicks' \in 0..MaxClicks
    BY <1>1, Known, QueueAssumption
  <1> QED
    BY <1>1, <1>3, <1>4 DEF QueueInv

\* Back in line: ResumeItem and RetryItem.
LEMMA RequeueKeeps ==
  ASSUME QueueInv, NEW i \in Items, state[i] \in {"paused", "error"},
         Pump(items, [state EXCEPT ![i] = "queued"], transfers),
         UNCHANGED <<interrupted, clicks>>
  PROVE  QueueInv'
  <1> DEFINE n == transfers[i]
  <1>1. ItemSound(i, items, state, started, lookup, transfers, interrupted) /\ n \in Nat
    BY Known
  <1>2. /\ "queued" \in States \ {"new", "uploading"}
        /\ interrupted \in SUBSET Items /\ interrupted \subseteq interrupted
        /\ \A j \in Items \ {i} : j \in interrupted => j \in interrupted
        /\ i \in started \/ n = 0
        /\ i \notin interrupted => n = 0 /\ i \notin lookup
        /\ n + (IF i \in lookup THEN 1 ELSE 0) <= 1
        /\ state[i] # "new"
    BY <1>1, Known DEF States, ItemSound, Active, Work
  <1>3. Pump(items, [state EXCEPT ![i] = "queued"], [transfers EXCEPT ![i] = n])
    <2>1. [transfers EXCEPT ![i] = n] = transfers
      BY Known
    <2> QED
      BY <2>1
  <1> HIDE DEF n
  <1>4. QueueSound(items', state', started', lookup', transfers', interrupted)
    BY ONLY QueueInv, <1>1, <1>2, <1>3, RestateKeeps
  <1> QED
    BY <1>4, Known DEF QueueInv

LEMMA RemoveItemKeeps ==
  ASSUME QueueInv, NEW i \in Items, RemoveItem(i)
  PROVE  QueueInv'
  <1> DEFINE intr == interrupted \cup ({i} \cap lookup)
             list == Without(items, i)
             going == [transfers EXCEPT ![i] = 0]
  <1>1. /\ i \in ToSet(items) /\ Pump(list, state, going)
        /\ interrupted' = intr /\ clicks < MaxClicks /\ clicks' = clicks + 1
    BY DEF RemoveItem, Click, Interrupt, Listed
  <1>2. list \in Seq(Items) /\ IsInjective(list) /\ ToSet(list) = ToSet(items) \ {i}
    BY ONLY QueueInv, <1>1, Known, WithoutTakesItsItem
  <1>3. going \in [Items -> Nat] /\ going[i] = 0
        /\ \A j \in Items \ {i} : going[j] = transfers[j]
    BY Known
  <1>4. intr \in SUBSET Items /\ (i \notin intr => i \notin lookup)
        /\ \A j \in Items \ {i} : j \in intr <=> j \in interrupted
    BY Known
  <1> HIDE DEF intr, list, going
  <1>5. ASSUME NEW j \in Items
        PROVE  ItemSound(j, list, state, started, lookup, going, intr)
    <2>1. ItemSound(j, items, state, started, lookup, transfers, interrupted)
      BY Known
    <2>2. CASE j = i
      BY <1>2, <1>3, <1>4, <2>1, <2>2, Known DEF ItemSound, Active, Work
    <2>3. CASE j # i
      BY <1>2, <1>3, <1>4, <2>1, <2>3 DEF ItemSound, Active, Work
    <2> QED
      BY <2>2, <2>3
  <1>6. With("uploading", list, state) \subseteq With("uploading", items, state)
    BY <1>2 DEF With
  <1>7. Cardinality(With("uploading", list, state)) <= MaxConcurrent
    BY ONLY QueueInv, <1>2, <1>6, Known, FewerUploading
  <1>8. QueueSound(list, state, started, lookup, going, intr)
    BY <1>2, <1>3, <1>4, <1>5, <1>7, Known DEF QueueSound
  <1>9. QueueSound(items', state', started', lookup', transfers', intr)
    BY ONLY <1>1, <1>8, PumpKeeps
  <1>10. clicks' \in 0..MaxClicks
    BY <1>1, Known, QueueAssumption
  <1> QED
    BY <1>1, <1>9, <1>10 DEF QueueInv

LEMMA SettleKeeps ==
  ASSUME QueueInv, NEW i \in Items, NEW s \in {"done", "error"}, Settle(i, s),
         clicks' \in 0..MaxClicks
  PROVE  QueueInv'
  <1> DEFINE n == transfers[i] - 1
  <1>1. /\ transfers[i] > 0 /\ interrupted' = interrupted
        /\ Pump(items, [state EXCEPT ![i] = s], [transfers EXCEPT ![i] = n])
    BY DEF Settle
  <1>2. ItemSound(i, items, state, started, lookup, transfers, interrupted) /\ n \in Nat
    BY <1>1, Known
  <1>3. /\ s \in States \ {"new", "uploading"}
        /\ interrupted \in SUBSET Items /\ interrupted \subseteq interrupted
        /\ \A j \in Items \ {i} : j \in interrupted => j \in interrupted
        /\ i \in started \/ n = 0
        /\ i \notin interrupted => n = 0 /\ i \notin lookup
        /\ n + (IF i \in lookup THEN 1 ELSE 0) <= 1
        /\ state[i] # "new"
    BY <1>1, <1>2, Known DEF States, ItemSound, Active, Work
  <1> HIDE DEF n
  <1>4. QueueSound(items', state', started', lookup', transfers', interrupted)
    BY ONLY QueueInv, <1>1, <1>2, <1>3, RestateKeeps
  <1> QED
    BY <1>1, <1>4 DEF QueueInv

-----------------------------------------------------------------------------
(* The theorems.                                                           *)

LEMMA InitSound ==
  ASSUME QueueInit
  PROVE  QueueInv
  <1>1. items \in Seq(Items) /\ IsInjective(items) /\ ToSet(items) = {}
    BY DEF QueueInit, IsInjective, ToSet
  <1>2. With("uploading", items, state) = {}
    BY <1>1 DEF With
  <1>3. Cardinality(With("uploading", items, state)) <= MaxConcurrent
    BY <1>2, FS_EmptySet, QueueAssumption
  <1>4. \A i \in Items : ItemSound(i, items, state, started, lookup, transfers, interrupted)
    BY <1>1 DEF QueueInit, ItemSound, Active, Work
  <1>5. state \in [Items -> States]
    BY DEF QueueInit, States
  <1> QED
    BY <1>1, <1>3, <1>4, <1>5, QueueAssumption DEF QueueInit, QueueInv, QueueSound

LEMMA StepKeeps ==
  ASSUME QueueInv, [QueueNext]_queueVars
  PROVE  QueueInv'
  <1>1. ASSUME NEW i \in Items, AddItem(i) \/ Found(i) \/ PauseItem(i) \/ RemoveItem(i)
        PROVE  QueueInv'
    BY <1>1, AddItemKeeps, FoundKeeps, PauseItemKeeps, RemoveItemKeeps
  <1>2. ASSUME NEW i \in Items, ResumeItem(i) \/ RetryItem(i)
        PROVE  QueueInv'
    BY <1>2, RequeueKeeps DEF ResumeItem, RetryItem
  <1>3. ASSUME NEW i \in Items, Succeed(i)
        PROVE  QueueInv'
    BY <1>3, SettleKeeps, Known DEF Succeed
  <1>4. ASSUME NEW i \in Items, Err(i)
        PROVE  QueueInv'
    <2>1. clicks' \in 0..MaxClicks
      BY <1>4, Known, QueueAssumption DEF Err, Click
    <2> QED
      BY <1>4, <2>1, SettleKeeps DEF Err
  <1>5. CASE UNCHANGED queueVars
    BY <1>5 DEF queueVars, QueueInv
  <1> QED
    BY <1>1, <1>2, <1>3, <1>4, <1>5 DEF QueueNext

\* The queue's inductive invariant: what is under way for each item, and how many
\* items have a slot.
THEOREM QueueInvHolds == QueueSpec => []QueueInv
  BY InitSound, StepKeeps, PTL DEF QueueSpec

LEMMA QueueTyped ==
  QueueInv => QueueTypeOK
  <1> SUFFICES ASSUME QueueInv
               PROVE  QueueTypeOK
    OBVIOUS
  <1>1. items \in SeqOf(Items, Cardinality(Items))
    BY Known, ListFits
  <1>2. ASSUME NEW i \in Items
        PROVE  transfers[i] \in 0..2
    <2>1. ItemSound(i, items, state, started, lookup, transfers, interrupted)
          /\ transfers[i] \in Nat
      BY Known
    <2>2. Work(i, lookup, transfers) <= 2 /\ transfers[i] <= Work(i, lookup, transfers)
          /\ Work(i, lookup, transfers) \in Nat
      BY <2>1 DEF ItemSound, Work
    <2> QED
      BY <2>1, <2>2
  <1>3. transfers \in [Items -> 0..2]
    BY <1>2, Known
  <1>4. \A i \in Listed : state[i] # "new"
    BY Known DEF ItemSound, Listed
  <1> QED
    BY <1>1, <1>3, <1>4, Known DEF QueueTypeOK

\* The queue keeps its types: no file twice in the list, no lookup but a first
\* run's, and never more than two transfers of one file.
THEOREM QueueTypeCorrect == QueueSpec => []QueueTypeOK
  BY QueueTyped, QueueInvHolds, PTL

\* Transfers go on for listed items that have a slot, one for each, and so for no
\* more than MaxConcurrent; an item that was paused or removed during its lookup
\* is the only exception (pump, run).
THEOREM TransfersAreCapped == QueueSpec => []TransfersCapped
  <1>1. QueueInv => TransfersCapped
    <2> SUFFICES ASSUME QueueInv
                 PROVE  TransfersCapped
      OBVIOUS
    <2>1. ASSUME NEW i \in Items \ interrupted, transfers[i] > 0
          PROVE  i \in Listed /\ state[i] = "uploading" /\ transfers[i] = 1
      BY <2>1, Known DEF ItemSound, Work, Active, Listed
    <2>2. ASSUME interrupted = {}
          PROVE  Cardinality({i \in Items : transfers[i] > 0}) <= MaxConcurrent
      <3> DEFINE A == With("uploading", items, state)
                 B == {i \in Items : transfers[i] > 0}
      <3>1. B \subseteq A
        BY <2>1, <2>2 DEF With, Listed
      <3>2. IsFiniteSet(A) /\ Cardinality(A) \in Nat /\ Cardinality(A) <= MaxConcurrent
        BY WithIsFinite, Known
      <3> HIDE DEF A, B
      <3>3. IsFiniteSet(B) /\ Cardinality(B) <= Cardinality(A)
        BY <3>1, <3>2, FS_Subset
      <3>4. Cardinality(B) \in Nat
        BY <3>3, FS_CardinalityType
      <3>5. Cardinality(B) <= MaxConcurrent
        BY <3>2, <3>3, <3>4, QueueAssumption
      <3> QED
        BY <3>5 DEF B
    <2> QED
      BY <2>1, <2>2 DEF TransfersCapped
  <1> QED
    BY <1>1, QueueInvHolds, PTL

\* Side by side in one page neither disturbs the other: both keep their types
\* (MCBrowser's specification, for every value of its constants).
THEOREM BrowserTypeCorrect == MCSpec => []MCTypeOK
  <1>1. MCInit => PrefsInv /\ QueueInv
    BY InitHolds, InitSound DEF MCInit
  <1>2. ASSUME PrefsInv /\ QueueInv, [MCNext]_<<part, prefsVars, queueVars>>
        PROVE  (PrefsInv /\ QueueInv)'
    <2>1. [PrefsNext]_prefsVars /\ [QueueNext]_queueVars
      BY <1>2 DEF MCNext
    <2> QED
      BY <1>2, <2>1, NextKeeps, StepKeeps
  <1>3. PrefsInv /\ QueueInv => MCTypeOK
    BY PrefsTyped, QueueTyped DEF MCTypeOK
  <1> QED
    BY <1>1, <1>2, <1>3, PTL DEF MCSpec
=============================================================================
