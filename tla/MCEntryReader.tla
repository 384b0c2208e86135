---------------------------- MODULE MCEntryReader ----------------------------
(***************************************************************************)
(* EntryReader on entries of up to three bytes: intact ones, ones with too *)
(* few or too many bytes, with a wrong CRC, with one that is not checked,  *)
(* with a stream the decoder rejects, and ones over the limit.             *)
(***************************************************************************)
EXTENDS EntryReader

SmallEntries ==
  {e \in [len : 0 .. 4, size : {0, 2, 3}, crcOk : BOOLEAN, checkCrc : BOOLEAN,
          buffered : BOOLEAN, broken : BOOLEAN] : e.buffered => ~e.broken}

NearOffsets == -1 .. 1
=============================================================================
