--------------------------- MODULE MCChunkedUpload ---------------------------
(***************************************************************************)
(* Small instances of ChunkedUpload for TLC.  Handlers, upload ids and     *)
(* file names are interchangeable.                                         *)
(***************************************************************************)
EXTENDS ChunkedUpload, TLC

Symmetry == Permutations(Workers) \cup Permutations(Sessions) \cup Permutations(Blobs)

=============================================================================
