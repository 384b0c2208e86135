---------------------------- MODULE MCModifyFile ----------------------------
(***************************************************************************)
(* Archives of up to three entries, names of one and two characters, the   *)
(* limit of a plain count at two.                                          *)
(***************************************************************************)
EXTENDS ModifyFile

Member == [kind |-> "member"]
Char(c) == [kind |-> "char", char |-> c]
Comment == <<Char("c")>>
SomeCells == {Member} \cup {Char(c) : c \in {"a", "b", "c", "j", "."}}

TwoMembers == <<Member, Member>>
A == <<Char("a")>>
BC == <<Char("b"), Char("c")>>
Dots == <<Char(".")>>
SafeNames == {A, BC}
NoNames == {}
DotNames == {Dots}
AllNames == {A, BC, Dots}

EntriesUpTo(n) ==
  UNION {[1 .. k -> {A, BC}] : k \in 0 .. n}
Archive(names, comment, isZip64) ==
  [entries |-> [k \in DOMAIN names |-> [at |-> k, name |-> names[k]]],
   comment |-> comment, isZip64 |-> isZip64, offset |-> 0]
SmallArchives ==
  {Archive(names, comment, isZip64) :
     names \in EntriesUpTo(3), comment \in {<<>>, Comment}, isZip64 \in BOOLEAN}
OneArchive == {Archive(<<A, A>>, <<>>, FALSE)}

NoJunk == {<<>>}
SomeJunk == {<<>>, <<Char("j")>>}

Rename(i, n) == [index |-> i, name |-> n]
\* None, one, two of one entry, two of two; index 3 is out of range.
FewRenames ==
  {<<>>, <<Rename(3, A)>>} \cup {<<Rename(i, n)>> : i \in 0 .. 1, n \in Names}
    \cup {<<Rename(1, m), Rename(i, n)>> : i \in {1, 2}, m \in Names, n \in Names}
FewDeletes == {{}, {0}, {1}, {0, 1}, {0, 2, 3}, {0, 1, 2}}
=============================================================================
