--------------------------- MODULE MCReaderCache ---------------------------
(* Small instances of ReaderCache for TLC. *)
EXTENDS ReaderCache

\* Claude's policy has a ladder that starts at MinInterval and grows.
MCLadder == <<2, 3>>
=============================================================================
