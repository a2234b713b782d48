--------------------------- MODULE MCFileStorage ----------------------------
(* FileStorage for TLC: two filenames that sanitize_filename() maps to one, and one that is refused. *)
EXTENDS FileStorage

MCClean == [f \in Filenames |-> IF f = "a b.txt" THEN "a_b.txt" ELSE f]
=============================================================================
