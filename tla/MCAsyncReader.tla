---------------------------- MODULE MCAsyncReader ----------------------------
(***************************************************************************)
(* AsyncReader on entries of none, of one and a half and of two chunks,    *)
(* intact or with a wrong CRC, a wrong size, a stream the decoder rejects. *)
(***************************************************************************)
EXTENDS AsyncReader

Member(len, size, crcOk, broken) ==
  [len |-> len, size |-> size, crcOk |-> crcOk, checkCrc |-> TRUE,
   buffered |-> FALSE, broken |-> broken]

FewEntries ==
  {Member(0, 0, TRUE, FALSE), Member(3, 3, TRUE, FALSE),
   Member(4, 4, FALSE, FALSE), Member(3, 4, TRUE, FALSE),
   Member(2, 3, TRUE, TRUE), Member(4, 1, TRUE, FALSE),
   [Member(4, 4, TRUE, FALSE) EXCEPT !.buffered = TRUE]}

NoSeeks == {}
=============================================================================
