-------------------------- MODULE MCProgressStore --------------------------
(* Small instances of ProgressStore for TLC. *)
EXTENDS ProgressStore, TLC

\* A clock stepped back (a fresh listen), a delayed listen, a stale one.
MCAges == {-1, 1, 3}

\* Books are interchangeable, and every property run here is about safety.
Symmetry == Permutations(Books)

\* One millisecond steps, for the walk back through the tie window.
ChainAges == 0..4

\* Reports and ticks alone, on books that stay: the walk needs nothing else.
ReportsNext ==
    \/ \E u \in Users, b \in Books, d \in Devices, age \in Ages,
          pos \in Positions : ReportAccepted(u, b, d, age, pos, "absent")
    \/ Tick

ReportsSpec == Init /\ [][ReportsNext]_vars
=============================================================================
