---------------------------- MODULE UploadQueue -----------------------------
(***************************************************************************)
(* The browser's upload queue (web/src/lib/upload/queue.svelte.ts).        *)
(*                                                                         *)
(* Each file is an item with a tus.Upload of its own.  pump() runs queued  *)
(* items while fewer than MaxConcurrent are uploading.  The first run of   *)
(* an item looks for earlier uploads of the file first, and starts the     *)
(* transfer when that answers, whatever has happened to the item since.    *)
(* tus-js-client is external: start() begins a transfer, abort() ends      *)
(* those that are going on.                                                *)
(***************************************************************************)
EXTENDS Integers, FiniteSets, SequencesExt

CONSTANTS
    Items,
    MaxConcurrent,  \* MAX_CONCURRENT
    MaxClicks       \* pauses, retries and removals, a bound of the model

ASSUME QueueAssumption ==
    /\ IsFiniteSet(Items)
    /\ MaxConcurrent \in Nat \ {0}
    /\ MaxClicks \in Nat

VARIABLES
    items,          \* the list shown, in order
    state,          \* of each item; "new" is not added yet
    started,        \* items that have been run once
    lookup,         \* items whose earlier uploads are being looked up
    transfers,      \* transfers going on for each item
    interrupted,    \* history: items paused or removed during their lookup
    clicks

queueVars == <<items, state, started, lookup, transfers, interrupted, clicks>>

States == {"new", "queued", "uploading", "paused", "done", "error"}
Listed == ToSet(items)
With(s, list, of) == {i \in ToSet(list) : of[i] = s}

\* An item that waits or has a slot is in the list; only a first run looks up.
QueueTypeOK ==
    /\ items \in SeqOf(Items, Cardinality(Items)) /\ IsInjective(items)
    /\ state \in [Items -> States]
    /\ started \in SUBSET Items /\ lookup \subseteq started
    /\ transfers \in [Items -> 0..2]
    /\ interrupted \in SUBSET Items
    /\ \A i \in Listed : state[i] # "new"
    /\ clicks \in 0..MaxClicks

QueueInit ==
    /\ items = <<>> /\ state = [i \in Items |-> "new"]
    /\ started = {} /\ lookup = {} /\ transfers = [i \in Items |-> 0]
    /\ interrupted = {} /\ clicks = 0

-----------------------------------------------------------------------------

Click == clicks < MaxClicks /\ clicks' = clicks + 1

At(list, i) == CHOOSE n \in DOMAIN list : list[n] = i

Without(list, i) == RemoveAt(list, At(list, i))

\* The items pump() runs: the first queued ones that fit.
Slots(list, of) == MaxConcurrent - Cardinality(With("uploading", list, of))
Picked(list, of) ==
    {i \in With("queued", list, of) :
       Cardinality({j \in With("queued", list, of) :
                      At(list, j) < At(list, i)}) < Slots(list, of)}

\* (Operators whose name starts with "Slip" are the mistakes the model checker
\* is asked to notice: no action uses them.)
\* `started` is not set.
SlipPump(list, of, going) ==
    LET run == Picked(list, of)
    IN  /\ items' = list
        /\ state' = [i \in Items |-> IF i \in run THEN "uploading" ELSE of[i]]
        /\ lookup' = lookup \cup (run \ started)
        /\ transfers' = going
        /\ UNCHANGED started

\* pump() over a list and its states, and run() for what it picks: a first run
\* goes to its lookup, a later one starts the transfer at once.
\* `going` are the transfers before it.
Pump(list, of, going) ==
    LET run == Picked(list, of)
    IN  /\ items' = list
        /\ state' = [i \in Items |-> IF i \in run THEN "uploading" ELSE of[i]]
        /\ started' = started \cup run
        /\ lookup' = lookup \cup (run \ started)
        /\ transfers' = [i \in Items |->
             IF i \in run \cap started THEN going[i] + 1 ELSE going[i]]

AddItem(i) ==
    /\ state[i] = "new"
    /\ Pump(Append(items, i), [state EXCEPT ![i] = "queued"], transfers)
    /\ UNCHANGED <<interrupted, clicks>>

\* findPreviousUploads answers, or fails: start().
Found(i) ==
    /\ i \in lookup
    /\ lookup' = lookup \ {i}
    /\ transfers' = [transfers EXCEPT ![i] = @ + 1]
    /\ UNCHANGED <<items, state, started, interrupted, clicks>>

Interrupt(i) == interrupted' = interrupted \cup ({i} \cap lookup)

PauseItem(i) ==
    /\ i \in Listed /\ state[i] = "uploading" /\ Click
    /\ Interrupt(i)
    /\ Pump(items, [state EXCEPT ![i] = "paused"], [transfers EXCEPT ![i] = 0])

ResumeItem(i) ==
    /\ i \in Listed /\ state[i] = "paused"
    /\ Pump(items, [state EXCEPT ![i] = "queued"], transfers)
    /\ UNCHANGED <<interrupted, clicks>>

RetryItem(i) ==
    /\ i \in Listed /\ state[i] = "error"
    /\ Pump(items, [state EXCEPT ![i] = "queued"], transfers)
    /\ UNCHANGED <<interrupted, clicks>>

SlipRemoveItem(i) ==
    /\ i \in Listed /\ Click
    /\ Pump(Without(items, i), state, transfers)
    /\ UNCHANGED interrupted

RemoveItem(i) ==
    /\ i \in Listed /\ Click
    /\ Interrupt(i)
    /\ Pump(Without(items, i), state, [transfers EXCEPT ![i] = 0])

SlipSettle(i, s) ==
    /\ transfers[i] > 0
    /\ state' = [state EXCEPT ![i] = s]
    /\ transfers' = [transfers EXCEPT ![i] = @ - 1]
    /\ UNCHANGED <<items, started, lookup, interrupted>>

\* onSuccess and onError of a transfer; its item may have any state by now, and
\* may have left the list.
Settle(i, s) ==
    /\ transfers[i] > 0
    /\ Pump(items, [state EXCEPT ![i] = s], [transfers EXCEPT ![i] = @ - 1])
    /\ UNCHANGED interrupted

Succeed(i) == Settle(i, "done") /\ UNCHANGED clicks
Err(i) == Settle(i, "error") /\ Click

QueueNext ==
    \E i \in Items :
        \/ AddItem(i) \/ Found(i) \/ PauseItem(i) \/ ResumeItem(i) \/ RetryItem(i)
        \/ RemoveItem(i) \/ Succeed(i) \/ Err(i)

\* Lookups answer and transfers end, one way or the other.
QueueFairness ==
    \A i \in Items : WF_queueVars(Found(i)) /\ WF_queueVars(Succeed(i) \/ Err(i))

QueueSpec == QueueInit /\ [][QueueNext]_queueVars /\ QueueFairness

-----------------------------------------------------------------------------
(* Properties.                                                             *)

\* Transfers belong to listed items that are uploading, one each, so that no
\* more than MaxConcurrent go on: except those of items that were paused or
\* removed while their earlier uploads were looked up (run).
TransfersCapped ==
    /\ \A i \in Items \ interrupted :
         transfers[i] > 0 => i \in Listed /\ state[i] = "uploading" /\ transfers[i] = 1
    /\ interrupted = {} => Cardinality({i \in Items : transfers[i] > 0}) <= MaxConcurrent

\* An item that waits gets its turn (pump).
EveryItemRuns ==
    \A i \in Items : i \in With("queued", items, state) ~>
                        i \notin With("queued", items, state)
=============================================================================
