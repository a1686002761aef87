------------------------------ MODULE MCPlayer ------------------------------
(***************************************************************************)
(* Small instances of PlayerEngine for TLC.  All the clicks together with  *)
(* all the mishaps happen only while the sleep timer is off and has not    *)
(* fired, one less of either at any time.                                  *)
(***************************************************************************)
EXTENDS PlayerEngine

Bounds == clicks + mishaps = MaxClicks + MaxMishaps => sleep = "off" /\ ~slept

MCSpec ==
    PlayerInit /\ [][PlayerNext /\ Bounds']_playerVars /\ PlayerFairness
=============================================================================
