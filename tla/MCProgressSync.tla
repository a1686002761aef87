--------------------------- MODULE MCProgressSync ---------------------------
(***************************************************************************)
(* Small instances of ProgressSync for TLC.  A behaviour is one of two     *)
(* devices whose pages stay up and whose messages all arrive, or one of a  *)
(* single device with more time, of which a message is lost and the page   *)
(* killed.                                                                 *)
(***************************************************************************)
EXTENDS ProgressSync, TLC

VARIABLE alone      \* the only device, or None

SameClock == [d \in Devices |-> 0]
Symmetry == Permutations(Devices)

\* Reports handled at a time, and events on their way to a device.
MaxCrossing == 2

\* The other device of a lone one never opens its page.
Bounds ==
    IF alone = None
    THEN /\ now <= 3 /\ faults = 0 /\ kills = 0
         /\ Cardinality(handled) <= MaxCrossing
         /\ \A d \in Devices : Len(stream[d]) <= MaxCrossing
    ELSE \A d \in Devices : page[d].state = "dead" \/ d = alone

MCInit ==
    /\ alone \in Devices \cup {None}
    /\ Init
    /\ \A d \in Devices : page[d].state = "browsing" <=> alone \in {d, None}

MCNext == UNCHANGED alone /\ Next /\ Bounds'

MCSpec == MCInit /\ [][MCNext]_<<vars, alone>>
=============================================================================
