----------------------------- MODULE MCScanner -----------------------------
(***************************************************************************)
(* Small instances of Scanner for TLC.                                     *)
(***************************************************************************)
EXTENDS Scanner, TLC

\* (Boot picks one of the goroutines: they are not interchangeable.)
Symmetry == Permutations(Folders)

\* In the passing run an admin edits a book, or something goes wrong.
MCNext == Next /\ edits' + faults' <= 1

MCSpec == Init /\ [][MCNext]_vars /\ Fairness
=============================================================================
