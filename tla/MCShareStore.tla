---------------------------- MODULE MCShareStore ----------------------------
(***************************************************************************)
(* Small instances of ShareStore for TLC.  Handlers and hashes are         *)
(* interchangeable, so the safety runs use both as symmetry sets.          *)
(***************************************************************************)
EXTENDS ShareStore, TLC

Symmetry == Permutations(Workers) \cup Permutations(Shares)

(* Negative numbers cannot be written in a .cfg; an admin's form may carry *)
(* one.                                                                    *)
AllDownloadChoices == {-1, 0, 1, 2}

=============================================================================
