---------------------------- MODULE MCZipHandle ----------------------------
(***************************************************************************)
(* ZipHandle on small archives.  An entry of a and an entry of b, with the *)
(* payload of b optionally undecodable or encrypted.                       *)
(***************************************************************************)
EXTENDS ZipHandle

CONSTANTS a, b, d, x, y, z, c, at, pw

OnDiskEntry(n, v, e) ==
  [name |-> n, data |-> v, comment |-> c, time |-> 4, attrs |-> DefaultAttrs,
   comp |-> "store", enc |-> e]

Encrypted == [entries |-> <<OnDiskEntry(a, x, pw)>>, comment |-> None]
Undecodable == [entries |-> <<OnDiskEntry(a, Corrupt, None)>>, comment |-> c]

NewOrEncrypted == {None, Encrypted}
OldOrBroken == {Damaged, Encrypted, Undecodable}
OddTime == {3}
MixedModes == {{"CREATE"}, {"RDONLY"}, {"RDONLY", "TRUNCATE"}}
FewModes == {{"CREATE"}, {"TRUNCATE"}, {"CREATE", "RDONLY"}}
=============================================================================
