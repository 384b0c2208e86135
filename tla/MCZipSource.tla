----------------------------- MODULE MCZipSource -----------------------------
(* Two addresses, one content besides the empty one. *)
EXTENDS ZipSource
=============================================================================
