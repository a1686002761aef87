----------------------------- MODULE MCBrowser ------------------------------
(***************************************************************************)
(* Small instances of Prefs and UploadQueue for TLC.  The two share no     *)
(* state: a behaviour is one of the one or of the other.  Where the queue  *)
(* stands still none of its fair actions is enabled.                       *)
(***************************************************************************)
EXTENDS Prefs, UploadQueue

VARIABLE part

MCInit == part \in {"prefs", "queue"} /\ PrefsInit /\ QueueInit

MCNext ==
    /\ UNCHANGED part
    /\ \/ part = "prefs" /\ PrefsNext /\ UNCHANGED queueVars
       \/ part = "queue" /\ QueueNext /\ UNCHANGED prefsVars

\* Type correctness of both.
MCTypeOK == PrefsTypeOK /\ QueueTypeOK

MCSpec == MCInit /\ [][MCNext]_<<part, prefsVars, queueVars>> /\ QueueFairness
=============================================================================
