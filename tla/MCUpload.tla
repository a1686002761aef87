------------------------------ MODULE MCUpload ------------------------------
(* Small instances of Upload for TLC. *)
EXTENDS Upload, TLC

CONSTANTS a, b, author, title, track

\* Two files of one book that have the same name.
SameAuthor == a :> author @@ b :> author
SameTitle == a :> title @@ b :> title
SameFile == a :> track @@ b :> track
=============================================================================
