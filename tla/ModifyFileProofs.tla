-------------------------- MODULE ModifyFileProofs --------------------------
(***************************************************************************)
(* Proofs about ModifyFile for any members, directories, limits and edits, *)
(* and any number of calls, each stopped anywhere: the members of the file *)
(* are never touched; and while what the calls serialize is legible, a     *)
(* call that succeeds leaves what was asked for, and a tail that is        *)
(* written but not yet cut reads as the new directory or as an error.      *)
(***************************************************************************)
EXTENDS ModifyFile, SequenceTheorems, FiniteSetTheorems, WellFoundedInduction, TLAPS

Here == Len(Data)

\* What a file may hold.  An end record tells where the directory is, or has a
\* size that no parse accepts.
Heads == [kind : {"head"}, at : Nat, nameLen : Nat]
End64s == [kind : {"end64"}, count : Nat, size : Nat, offset : {Here}]
Locators == [kind : {"locator"}, end64 : Nat]
PlainEnds == [kind : {"end"}, count : Nat, size : Nat, offset : {Here}, commentLen : Nat]
FullEnds ==
  [kind : {"end"}, count : Nat, size : {FieldLimit}, offset : {FieldLimit}, commentLen : Nat]

Cells == Plain \cup Heads \cup End64s \cup Locators \cup PlainEnds \cup FullEnds

Text == Seq(Cells)
Entries == Seq([at : Nat, name : Text])

\* The call writes from where the members end, and what it has written is there.
CallOK ==
  /\ modify \in [busy : BOOLEAN, offset : Nat, tail : Text, written : Nat]
  /\ modify.busy => /\ modify.offset = Here
                    /\ modify.written =< Len(modify.tail)
                    /\ Len(file) >= Here + modify.written

ModifyInv == file \in Text /\ DataUntouched /\ CallOK

----------------------------------------------------------------------------
(* Induction up to a number, as a fact about sets.                         *)

\* A set of naturals has a least element.
LEMMA LeastElement ==
  ASSUME NEW S \in SUBSET Nat, S # {}
  PROVE  \E m \in S : \A k \in S : m =< k
<1> DEFINE Sub == StrictSubsetOrdering(Nat)
           T == {0 .. n : n \in S}
<1>1. IsWellFoundedOn(Sub, FiniteSubsetsOf(Nat))
  BY FS_StrictSubsetOrderingWellFounded
<1>2. T \subseteq FiniteSubsetsOf(Nat)
  <2> SUFFICES ASSUME NEW n \in S PROVE 0 .. n \in FiniteSubsetsOf(Nat)
    OBVIOUS
  <2>1. 0 .. n \subseteq Nat
    OBVIOUS
  <2>2. IsFiniteSet(0 .. n)
    <3>1. 0 \in Int /\ n \in Int
      OBVIOUS
    <3> QED BY ONLY <3>1, FS_Interval, Zenon
  <2> QED BY <2>1, <2>2 DEF FiniteSubsetsOf
<1>3. T # {}
  OBVIOUS
<1>4. PICK x \in T : \A y \in T : ~ (<<y, x>> \in Sub)
  <2> HIDE DEF Sub, T
  <2> QED BY <1>1, <1>2, <1>3, WFMin
<1>5. PICK m \in S : x = 0 .. m
  OBVIOUS
<1>6. ASSUME NEW k \in S, k < m PROVE FALSE
  <2>1. 0 .. k \in T
    OBVIOUS
  <2>2. <<0 .. k, x>> \in Sub
    BY <1>5, <1>6 DEF StrictSubsetOrdering
  <2> QED BY <1>4, <2>1, <2>2
<1> QED BY <1>6

LEMMA Induct ==
  ASSUME NEW n \in Nat, NEW S, 0 \in S, \A k \in 1..n : k - 1 \in S => k \in S
  PROVE  \A k \in 0..n : k \in S
<1> DEFINE Bad == {k \in 0..n : k \notin S}
<1> SUFFICES ASSUME Bad # {} PROVE FALSE
  OBVIOUS
<1>1. PICK m \in Bad : \A k \in Bad : m =< k
  <2>1. Bad \in SUBSET Nat
    OBVIOUS
  <2> QED BY ONLY <2>1, Bad # {}, LeastElement
<1>2. m \in 1..n /\ m - 1 \in 0..n /\ m \notin S /\ ~(m =< m - 1)
  OBVIOUS
<1>3. m - 1 \notin Bad
  <2> HIDE DEF Bad
  <2> QED BY <1>1, <1>2
<1> QED BY <1>2, <1>3

\* Some numbers up to n have a greatest.
LEMMA GreatestElement ==
  ASSUME NEW n \in Nat, NEW S, S \subseteq 0..n, S # {}
  PROVE  Max(S) \in S /\ \A j \in S : Max(S) >= j
<1> DEFINE T == {n - k : k \in S}
<1>1. T \in SUBSET Nat /\ T # {}
  <2>1. \A k \in S : n - k \in Nat
    <3>1. \A k \in 0..n : n - k \in Nat
      OBVIOUS
    <3> QED BY <3>1
  <2>2. PICK k \in S : TRUE
    OBVIOUS
  <2>3. n - k \in T
    OBVIOUS
  <2> QED BY <2>1, <2>3
<1>2. PICK m \in T : \A k \in T : m =< k
  <2> HIDE DEF T
  <2> QED BY <1>1, LeastElement
<1>3. PICK k \in S : m = n - k
  BY <1>2
<1>4. ASSUME NEW j \in S PROVE k >= j
  <2>1. n - j \in T
    OBVIOUS
  <2>2. n - k =< n - j
    BY <1>2, <1>3, <2>1
  <2>3. k \in 0..n /\ j \in 0..n
    OBVIOUS
  <2> QED BY <2>2, <2>3
<1>5. \E x \in S : \A y \in S : x >= y
  BY <1>4
<1> QED BY <1>5 DEF Max

\* A recursive function over the numbers up to n, whose step is a function.
IsIterated(n, base, step, f) ==
  f = [k \in 0..n |-> IF k = 0 THEN base ELSE step[<<k, f[k - 1]>>]]

LEMMA IteratedExists ==
  ASSUME NEW n \in Nat, NEW S, NEW base \in S, NEW step,
         \A k \in 1..n : \A x \in S : step[<<k, x>>] \in S
  PROVE  \E f : IsIterated(n, base, step, f) /\ \A k \in 0..n : f[k] \in S
<1> DEFINE T == {m \in 0..n : \E f : IsIterated(m, base, step, f) /\ \A k \in 0..m : f[k] \in S}
<1>1. 0 \in T
  <2> DEFINE f == [k \in 0..0 |-> base]
  <2>1. IsIterated(0, base, step, f) /\ \A k \in 0..0 : f[k] \in S
    BY DEF IsIterated
  <2>2. 0 \in 0..n
    OBVIOUS
  <2> HIDE DEF f
  <2> QED BY <2>1, <2>2
<1>2. ASSUME NEW m \in 1..n, m - 1 \in T PROVE m \in T
  <2>1. PICK g : IsIterated(m - 1, base, step, g) /\ \A k \in 0..(m - 1) : g[k] \in S
    BY <1>2
  <2> DEFINE last == step[<<m, g[m - 1]>>]
             h == [k \in 0..m |-> IF k < m THEN g[k] ELSE last]
  <2>2. last \in S
    <3>1. m - 1 \in 0..(m - 1)
      OBVIOUS
    <3> QED BY <2>1, <3>1
  <2>3. h[m] = last /\ \A k \in 0..(m - 1) : h[k] = g[k]
    <3> HIDE DEF last
    <3> QED OBVIOUS
  <2>4. ASSUME NEW k \in 0..m
        PROVE  h[k] = IF k = 0 THEN base ELSE step[<<k, h[k - 1]>>]
    <3> HIDE DEF h
    <3>1. CASE k = m
      <4>1. m - 1 \in 0..(m - 1) /\ k # 0
        BY <3>1
      <4> QED BY <2>3, <3>1, <4>1
    <3>2. CASE k # m
      <4>1. k \in 0..(m - 1) /\ (k # 0 => k - 1 \in 0..(m - 1))
        BY <3>2
      <4>2. g[k] = IF k = 0 THEN base ELSE step[<<k, g[k - 1]>>]
        BY <2>1, <4>1 DEF IsIterated
      <4> QED BY <2>3, <4>1, <4>2
    <3> QED BY <3>1, <3>2
  <2>5. h = [k \in 0..m |-> h[k]]
    OBVIOUS
  <2>6. \A k \in 0..m : h[k] \in S
    <3>1. \A k \in 0..m : k = m \/ k \in 0..(m - 1)
      OBVIOUS
    <3> HIDE DEF h, last
    <3> QED BY <2>1, <2>2, <2>3, <3>1
  <2>7. IsIterated(m, base, step, h)
    <3> HIDE DEF h
    <3> QED BY <2>4, <2>5 DEF IsIterated
  <2>8. m \in 0..n
    OBVIOUS
  <2> HIDE DEF h
  <2> QED BY <2>6, <2>7, <2>8
<1>3. \A m \in 0..n : m \in T
  <2> HIDE DEF T
  <2> QED BY <1>1, <1>2, Induct
<1>4. n \in 0..n
  OBVIOUS
<1> QED BY <1>3, <1>4

----------------------------------------------------------------------------
(* What records, texts and directories are made of.                        *)

LEMMA HereIsNat == Here \in Nat
<1>1. Data \in Seq(Plain)
  BY PlainAssumption
<1> QED BY <1>1, LenProperties DEF Here

LEMMA CellIs ==
  ASSUME NEW c \in Cells
  PROVE  /\ c.kind = "head" => c.at \in Nat /\ c.nameLen \in Nat
         /\ c.kind = "locator" => c.end64 \in Nat
         /\ c.kind = "end64" => c \in End64s
         /\ c.kind = "end" => c \in PlainEnds \/ c \in FullEnds
<1>1. c \in Plain => c.kind \notin {"head", "end64", "locator", "end"}
  BY PlainAssumption
<1>2. c \in Heads => c.kind = "head" /\ c.at \in Nat /\ c.nameLen \in Nat
  BY DEF Heads
<1>3. c \in End64s => c.kind = "end64"
  BY DEF End64s
<1>4. c \in Locators => c.kind = "locator" /\ c.end64 \in Nat
  BY DEF Locators
<1>5. c \in PlainEnds => c.kind = "end"
  BY DEF PlainEnds
<1>6. c \in FullEnds => c.kind = "end"
  BY DEF FullEnds
<1> QED BY <1>1, <1>2, <1>3, <1>4, <1>5, <1>6 DEF Cells

LEMMA PlainText ==
  ASSUME NEW s \in Seq(Plain)
  PROVE  s \in Text
<1>1. Plain \subseteq Cells
  BY DEF Cells
<1> QED BY <1>1, SeqMonotonic DEF Text

LEMMA TextIs ==
  ASSUME NEW s \in Text
  PROVE  /\ Len(s) \in Nat
         /\ DOMAIN s = 1..Len(s)
         /\ \A i \in 1..Len(s) : s[i] \in Cells
<1> HIDE DEF Cells
<1> QED BY LenProperties, ElementOfSeq DEF Text

LEMMA TextConcat ==
  ASSUME NEW s \in Text, NEW t \in Text
  PROVE  s \o t \in Text /\ Len(s \o t) = Len(s) + Len(t)
<1> HIDE DEF Cells
<1> QED BY ConcatProperties DEF Text

\* A part of a text, if it is one.
LEMMA TextPart ==
  ASSUME NEW s \in Text, NEW m \in Nat, NEW n \in Nat, m > 0, n =< Len(s) \/ n < m
  PROVE  SubSeq(s, m, n) \in Text /\ Len(SubSeq(s, m, n)) = IF m =< n THEN n - m + 1 ELSE 0
<1>1. \A i \in m..n : s[i] \in Cells
  BY TextIs
<1>2. m \in Int /\ n \in Int
  OBVIOUS
<1> HIDE DEF Cells
<1> QED BY <1>1, <1>2, SubSeqProperties DEF Text

LEMMA OneCell ==
  ASSUME NEW c \in Cells
  PROVE  <<c>> \in Text
<1> HIDE DEF Cells
<1> QED BY DEF Text

LEMMA EntriesAre ==
  ASSUME NEW es \in Entries
  PROVE  /\ Len(es) \in Nat
         /\ DOMAIN es = 1..Len(es)
         /\ \A k \in 1..Len(es) : es[k] \in [at : Nat, name : Text]
<1> DEFINE Entry == [at : Nat, name : Text]
<1>1. es \in Seq(Entry)
  BY DEF Entries
<1> HIDE DEF Entry
<1>2. Len(es) \in Nat /\ DOMAIN es = 1..Len(es) /\ \A k \in 1..Len(es) : es[k] \in Entry
  BY <1>1, LenProperties, ElementOfSeq
<1> QED BY <1>2 DEF Entry

LEMMA RecordText ==
  ASSUME NEW e \in [at : Nat, name : Text]
  PROVE  Record(e) \in Text
<1>1. e.at \in Nat /\ e.name \in Text
  OBVIOUS
<1>2. Len(e.name) \in Nat
  BY <1>1, TextIs
<1>3. FixedPart(e) \in Heads
  BY <1>1, <1>2 DEF FixedPart, Heads
<1>4. <<FixedPart(e)>> \in Text
  BY <1>3, OneCell DEF Cells
<1> QED BY <1>1, <1>4, TextConcat DEF Record

\* The recursion of FlattenSeq, and that it has a function.
IsFlat(seqs, m, f) ==
  f = [i \in 1..m |-> IF i = 1 THEN seqs[i] ELSE f[i - 1] \o seqs[i]]

LEMMA FlatExists ==
  ASSUME NEW seqs, NEW len \in Nat
  PROVE  \E f : IsFlat(seqs, len, f)
<1> DEFINE S == {m \in 0..len : \E f : IsFlat(seqs, m, f)}
<1>1. 0 \in S
  <2> DEFINE f == [i \in 1..0 |-> <<>>]
  <2>1. IsFlat(seqs, 0, f) /\ 0 \in 0..len
    BY DEF IsFlat
  <2> HIDE DEF f
  <2> QED BY <2>1
<1>2. ASSUME NEW m \in 1..len, m - 1 \in S PROVE m \in S
  <2>1. PICK g : IsFlat(seqs, m - 1, g)
    BY <1>2
  <2> DEFINE last == IF m = 1 THEN seqs[m] ELSE g[m - 1] \o seqs[m]
             h == [i \in 1..m |-> IF i < m THEN g[i] ELSE last]
  <2>2. h[m] = last /\ \A i \in 1..(m - 1) : h[i] = g[i]
    <3> HIDE DEF last
    <3> QED OBVIOUS
  <2>3. ASSUME NEW i \in 1..m
        PROVE  h[i] = IF i = 1 THEN seqs[i] ELSE h[i - 1] \o seqs[i]
    <3> HIDE DEF h
    <3>1. CASE i = m
      <4>1. i # 1 => m - 1 \in 1..(m - 1)
        BY <3>1
      <4> QED BY <2>2, <3>1, <4>1
    <3>2. CASE i # m
      <4>1. i \in 1..(m - 1) /\ (i # 1 => i - 1 \in 1..(m - 1))
        BY <3>2
      <4>2. g[i] = IF i = 1 THEN seqs[i] ELSE g[i - 1] \o seqs[i]
        BY <2>1, <4>1 DEF IsFlat
      <4> QED BY <2>2, <4>1, <4>2
    <3> QED BY <3>1, <3>2
  <2>4. h = [i \in 1..m |-> h[i]]
    OBVIOUS
  <2>5. IsFlat(seqs, m, h)
    <3> HIDE DEF h
    <3> QED BY <2>3, <2>4 DEF IsFlat
  <2>6. m \in 0..len
    OBVIOUS
  <2> HIDE DEF h
  <2> QED BY <2>5, <2>6
<1>3. \A m \in 0..len : m \in S
  <2> HIDE DEF S
  <2> QED BY <1>1, <1>2, Induct
<1>4. len \in 0..len
  OBVIOUS
<1> QED BY <1>3, <1>4

LEMMA FlatSeq ==
  ASSUME NEW X, NEW seqs \in Seq(Seq(X))
  PROVE  FlattenSeq(seqs) \in Seq(X)
<1> DEFINE n == Len(seqs)
           f == CHOOSE g : IsFlat(seqs, n, g)
           S == {m \in 0..n : m = 0 \/ f[m] \in Seq(X)}
<1>1. n \in Nat /\ \A i \in 1..n : seqs[i] \in Seq(X)
  <2> DEFINE Y == Seq(X)
  <2>1. seqs \in Seq(Y)
    OBVIOUS
  <2> HIDE DEF Y
  <2>2. n \in Nat /\ \A i \in 1..n : seqs[i] \in Y
    BY <2>1, LenProperties, ElementOfSeq
  <2> QED BY <2>2 DEF Y
<1>2. FlattenSeq(seqs) = IF n = 0 THEN seqs ELSE f[n]
  BY DEF FlattenSeq, IsFlat
<1> HIDE DEF n
<1>3. IsFlat(seqs, n, f)
  BY <1>1, FlatExists
<1> HIDE DEF f
<1>4. CASE n = 0
  <2>1. seqs = <<>>
    BY <1>4, EmptySeq DEF n
  <2>2. <<>> \in Seq(X)
    OBVIOUS
  <2> QED BY <1>2, <1>4, <2>1, <2>2
<1>5. CASE n # 0
  <2>1. 0 \in S
    BY <1>1
  <2>2. ASSUME NEW m \in 1..n, m - 1 \in S PROVE m \in S
    <3>1. f[m] = IF m = 1 THEN seqs[m] ELSE f[m - 1] \o seqs[m]
      BY <1>3 DEF IsFlat
    <3>2. m # 1 => f[m - 1] \in Seq(X)
      BY <2>2
    <3>3. f[m] \in Seq(X)
      BY <1>1, <3>1, <3>2, ConcatProperties
    <3> QED BY <3>3
  <2>3. \A m \in 0..n : m \in S
    <3> HIDE DEF S
    <3> QED BY <1>1, <2>1, <2>2, Induct
  <2>4. n \in 0..n
    BY <1>1
  <2> QED BY <1>2, <1>5, <2>3, <2>4
<1> QED BY <1>4, <1>5

LEMMA FlatText ==
  ASSUME NEW seqs \in Seq(Text)
  PROVE  FlattenSeq(seqs) \in Text
<1>1. seqs \in Seq(Seq(Cells))
  BY DEF Text
<1> HIDE DEF Cells
<1> QED BY <1>1, FlatSeq DEF Text

LEMMA DirectoryText ==
  ASSUME NEW es \in Entries
  PROVE  Directory(es) \in Text
<1> DEFINE seqs == [k \in DOMAIN es |-> Record(es[k])]
           n == Len(es)
<1>1. n \in Nat /\ DOMAIN es = 1..n /\ \A k \in 1..n : Record(es[k]) \in Text
  BY EntriesAre, RecordText
<1> HIDE DEF n
<1>2. seqs \in [1..n -> Text]
  BY <1>1
<1>3. Directory(es) = FlattenSeq(seqs)
  BY DEF Directory
<1> HIDE DEF seqs
<1>4. seqs \in Seq(Text)
  BY <1>1, <1>2, SeqDef
<1> QED BY <1>3, <1>4, FlatText

\* What Serialize writes.
LEMMA SerializeText ==
  ASSUME NEW cd, cd.entries \in Entries, cd.comment \in Text, cd.offset = Here
  PROVE  Serialize(cd) \in Text
<1> DEFINE n == Len(cd.entries)
           dir == Directory(cd.entries)
           size == Len(dir)
           e64 == End64(n, size, cd.offset)
           loc == Locator(cd.offset + size)
           full == End(CountLimit, FieldLimit, FieldLimit, cd.comment)
           plain == End(n, size, cd.offset, cd.comment)
<1>1. n \in Nat /\ dir \in Text /\ size \in Nat /\ Len(cd.comment) \in Nat /\ cd.offset \in Nat
  BY EntriesAre, DirectoryText, TextIs, HereIsNat
<1>2. cd.offset + size \in Nat
  BY <1>1
<1>3. e64 \in Cells /\ loc \in Cells /\ full \in Cells /\ plain \in Cells
  <2>1. e64 \in End64s
    BY <1>1 DEF End64, End64s
  <2>2. loc \in Locators
    BY <1>2 DEF Locator, Locators
  <2>3. full \in FullEnds
    BY <1>1, LimitAssumption DEF End, FullEnds
  <2>4. plain \in PlainEnds
    BY <1>1 DEF End, PlainEnds
  <2> QED BY <2>1, <2>2, <2>3, <2>4 DEF Cells
<1>4. Serialize(cd) = dir \o (IF NeedZip64(cd) THEN <<e64, loc, full>> ELSE <<plain>>) \o cd.comment
  BY DEF Serialize
<1> HIDE DEF n, dir, size, e64, loc, full, plain
<1>5. <<e64, loc, full>> \in Text /\ <<plain>> \in Text
  <2> HIDE DEF Cells
  <2> QED BY <1>3 DEF Text
<1> QED BY <1>1, <1>4, <1>5, TextConcat

----------------------------------------------------------------------------
(* Editing keeps entries entries.                                          *)

\* A recursion over the numbers up to n whose function is CHOSEN.
LEMMA IteratedStays ==
  ASSUME NEW n \in Nat, NEW S, NEW f, f[0] \in S,
         \A k \in 1..n : f[k - 1] \in S => f[k] \in S
  PROVE  f[n] \in S
<1> DEFINE T == {k \in 0..n : f[k] \in S}
<1>1. 0 \in T
  OBVIOUS
<1>2. \A k \in 1..n : k - 1 \in T => k \in T
  OBVIOUS
<1>3. n \in 0..n
  OBVIOUS
<1>4. \A k \in 0..n : k \in T
  <2> HIDE DEF T
  <2> QED BY <1>1, <1>2, Induct
<1> QED BY <1>3, <1>4

RenameStep(renames, n, es) ==
  IF renames[n].index < Len(es)
  THEN [es EXCEPT ![renames[n].index + 1].name = renames[n].name]
  ELSE es

IsRenaming(entries, renames, f) ==
  f = [n \in 0..Len(renames) |->
         IF n = 0 THEN entries ELSE RenameStep(renames, n, f[n - 1])]

LEMMA RenameEntries ==
  ASSUME NEW es \in Entries, NEW renames \in Seq([index : Nat, name : Names]),
         NEW n \in 1..Len(renames)
  PROVE  RenameStep(renames, n, es) \in Entries
<1> DEFINE r == renames[n]
           i == r.index + 1
           e == [es[i] EXCEPT !.name = r.name]
           Entry == [at : Nat, name : Text]
<1>1. r \in [index : Nat, name : Names]
  <2> DEFINE Pair == [index : Nat, name : Names]
  <2>1. renames \in Seq(Pair)
    OBVIOUS
  <2> HIDE DEF Pair
  <2>2. renames[n] \in Pair
    BY <2>1, ElementOfSeq
  <2> QED BY <2>2 DEF Pair
<1>2. r.index \in Nat /\ r.name \in Text
  <2>1. r.name \in Seq(Plain)
    BY <1>1, PlainAssumption
  <2> QED BY <1>1, <2>1, PlainText
<1>3. CASE r.index < Len(es)
  <2>1. i \in 1..Len(es)
    BY <1>2, <1>3, EntriesAre
  <2>2. e \in Entry
    BY <1>2, <2>1, EntriesAre
  <2>3. RenameStep(renames, n, es) = [es EXCEPT ![i] = e]
    BY <1>3 DEF RenameStep
  <2>4. es \in Seq(Entry)
    BY DEF Entries
  <2> HIDE DEF e, i, Entry
  <2>5. [es EXCEPT ![i] = e] \in Seq(Entry)
    BY <2>1, <2>2, <2>4, ExceptSeq
  <2> QED BY <2>3, <2>5 DEF Entries, Entry
<1>4. CASE ~(r.index < Len(es))
  BY <1>4 DEF RenameStep
<1> QED BY <1>3, <1>4

LEMMA RenamingExists ==
  ASSUME NEW entries \in Entries, NEW renames \in Seq([index : Nat, name : Names])
  PROVE  \E f : IsRenaming(entries, renames, f)
<1> DEFINE n == Len(renames)
           step == [x \in (1..n) \X Entries |-> RenameStep(renames, x[1], x[2])]
<1>1. n \in Nat
  BY LenProperties
<1>2. \A k \in 1..n : \A x \in Entries :
        step[<<k, x>>] = RenameStep(renames, k, x) /\ step[<<k, x>>] \in Entries
  BY RenameEntries
<1> HIDE DEF step
<1>3. \A k \in 1..n : \A x \in Entries : step[<<k, x>>] \in Entries
  BY <1>2
<1>4. PICK g : IsIterated(n, entries, step, g) /\ \A k \in 0..n : g[k] \in Entries
  <2> HIDE DEF n
  <2> QED BY <1>1, <1>3, IteratedExists
<1>5. IsRenaming(entries, renames, g)
  <2>1. ASSUME NEW k \in 0..n
        PROVE  g[k] = IF k = 0 THEN entries ELSE RenameStep(renames, k, g[k - 1])
    <3>1. g[k] = IF k = 0 THEN entries ELSE step[<<k, g[k - 1]>>]
      BY <1>4 DEF IsIterated
    <3>2. k # 0 => k \in 1..n /\ k - 1 \in 0..n
      OBVIOUS
    <3> HIDE DEF n
    <3> QED BY <1>2, <1>4, <3>1, <3>2
  <2>2. g = [k \in 0..n |-> g[k]]
    BY <1>4 DEF IsIterated
  <2> QED BY <2>1, <2>2 DEF IsRenaming
<1> QED BY <1>5

LEMMA RenamedEntries ==
  ASSUME NEW entries \in Entries, NEW renames \in Seq([index : Nat, name : Names])
  PROVE  Renamed(entries, renames) \in Entries
<1> DEFINE n == Len(renames)
           f == CHOOSE g : IsRenaming(entries, renames, g)
<1>1. n \in Nat
  BY LenProperties
<1>2. Renamed(entries, renames) = f[n]
  BY DEF Renamed, IsRenaming, RenameStep
<1>3. IsRenaming(entries, renames, f)
  BY RenamingExists
<1> HIDE DEF f
<1>4. f[0] = entries /\ \A k \in 1..n : f[k] = RenameStep(renames, k, f[k - 1])
  BY <1>1, <1>3 DEF IsRenaming
<1>5. \A k \in 1..n : f[k - 1] \in Entries => f[k] \in Entries
  BY <1>4, RenameEntries
<1>6. f[n] \in Entries
  <2> HIDE DEF n
  <2> QED BY <1>1, <1>4, <1>5, IteratedStays
<1> QED BY <1>2, <1>6

LEMMA RemoveEntries ==
  ASSUME NEW es \in Entries, NEW d \in Nat
  PROVE  RemoveIndex(es, d) \in Entries
<1> DEFINE Entry == [at : Nat, name : Text]
           n == Len(es)
           before == SubSeq(es, 1, d)
           behind == SubSeq(es, d + 2, n)
<1>1. CASE d < n
  <2>1. n \in Nat /\ \A k \in 1..n : es[k] \in Entry
    BY EntriesAre
  <2> HIDE DEF Entry, n
  <2>2. (\A k \in 1..d : es[k] \in Entry) /\ (\A k \in (d + 2)..n : es[k] \in Entry)
    BY <1>1, <2>1
  <2>3. 1 \in Int /\ d \in Int /\ d + 2 \in Int /\ n \in Int
    BY <2>1
  <2>4. before \in Seq(Entry) /\ behind \in Seq(Entry)
    BY <2>2, <2>3, SubSeqProperties
  <2>5. RemoveIndex(es, d) = before \o behind
    <3> DEFINE k == d + 1
    <3>1. k - 1 = d /\ k + 1 = d + 2
      OBVIOUS
    <3>2. RemoveIndex(es, d) = RemoveAt(es, k)
      BY <1>1 DEF RemoveIndex, n
    <3> HIDE DEF k
    <3>3. RemoveAt(es, k) = SubSeq(es, 1, k - 1) \o SubSeq(es, k + 1, Len(es))
      BY DEF RemoveAt
    <3> QED BY <3>1, <3>2, <3>3 DEF n
  <2> HIDE DEF before, behind
  <2>6. before \o behind \in Seq(Entry)
    BY <2>4, ConcatProperties
  <2> QED BY <2>5, <2>6 DEF Entries, Entry
<1>2. CASE ~(d < n)
  BY <1>2 DEF RemoveIndex
<1> QED BY <1>1, <1>2

RemoveStep(entries, deletes, n, es) ==
  IF Len(entries) - n \in deletes THEN RemoveIndex(es, Len(entries) - n) ELSE es

IsRemoving(entries, deletes, f) ==
  f = [n \in 0..Len(entries) |->
         IF n = 0 THEN entries ELSE RemoveStep(entries, deletes, n, f[n - 1])]

LEMMA RemoveStepEntries ==
  ASSUME NEW entries \in Entries, NEW deletes, NEW k \in 1..Len(entries), NEW es \in Entries
  PROVE  RemoveStep(entries, deletes, k, es) \in Entries
<1>1. Len(entries) \in Nat
  BY EntriesAre
<1>2. Len(entries) - k \in Nat
  BY <1>1
<1>3. RemoveIndex(es, Len(entries) - k) \in Entries
  BY <1>2, RemoveEntries
<1> QED BY <1>3 DEF RemoveStep

LEMMA RemovingExists ==
  ASSUME NEW entries \in Entries, NEW deletes
  PROVE  \E f : IsRemoving(entries, deletes, f)
<1> DEFINE n == Len(entries)
           step == [x \in (1..n) \X Entries |-> RemoveStep(entries, deletes, x[1], x[2])]
<1>1. n \in Nat
  BY EntriesAre
<1>2. \A k \in 1..n : \A x \in Entries :
        step[<<k, x>>] = RemoveStep(entries, deletes, k, x) /\ step[<<k, x>>] \in Entries
  BY RemoveStepEntries
<1> HIDE DEF step
<1>3. PICK g : IsIterated(n, entries, step, g) /\ \A k \in 0..n : g[k] \in Entries
  <2>1. \A k \in 1..n : \A x \in Entries : step[<<k, x>>] \in Entries
    BY <1>2
  <2> HIDE DEF n
  <2> QED BY <1>1, <2>1, IteratedExists
<1>4. IsRemoving(entries, deletes, g)
  <2>1. ASSUME NEW k \in 0..n
        PROVE  g[k] = IF k = 0 THEN entries ELSE RemoveStep(entries, deletes, k, g[k - 1])
    <3>1. g[k] = IF k = 0 THEN entries ELSE step[<<k, g[k - 1]>>]
      BY <1>3 DEF IsIterated
    <3>2. k # 0 => k \in 1..n /\ k - 1 \in 0..n
      BY <1>1
    <3> HIDE DEF n
    <3> QED BY <1>2, <1>3, <3>1, <3>2
  <2>2. g = [k \in 0..n |-> g[k]]
    BY <1>3 DEF IsIterated
  <2> QED BY <2>1, <2>2 DEF IsRemoving
<1> QED BY <1>4

LEMMA RemainingEntries ==
  ASSUME NEW entries \in Entries, NEW deletes
  PROVE  Remaining(entries, deletes) \in Entries
<1> DEFINE n == Len(entries)
           f == CHOOSE g : IsRemoving(entries, deletes, g)
<1>1. n \in Nat
  BY EntriesAre
<1>2. Remaining(entries, deletes) = f[n]
  BY DEF Remaining, IsRemoving, RemoveStep
<1>3. IsRemoving(entries, deletes, f)
  BY RemovingExists
<1> HIDE DEF f
<1>4. f[0] = entries /\ \A k \in 1..n : f[k] = RemoveStep(entries, deletes, k, f[k - 1])
  BY <1>1, <1>3 DEF IsRemoving
<1>5. \A k \in 1..n : f[k - 1] \in Entries => f[k] \in Entries
  BY <1>4, RemoveStepEntries
<1>6. f[n] \in Entries
  <2> HIDE DEF n
  <2> QED BY <1>1, <1>4, <1>5, IteratedStays
<1> QED BY <1>2, <1>6

LEMMA EditedEntries ==
  ASSUME NEW entries \in Entries, NEW renames \in Renames, NEW deletes
  PROVE  Edited(entries, renames, deletes) \in Entries
BY PlainAssumption, RenamedEntries, RemainingEntries DEF Edited

----------------------------------------------------------------------------
(* What the parser returns.                                                *)

ParsedAt(buf, i) == [at |-> buf[i].at, name |-> NameAt(buf, i)]
Following(buf, i) == i + 1 + buf[i].nameLen

\* The entries from the last k positions on, the one past the end among them.
IsParsing(buf, k, f) ==
  f = [i \in (Len(buf) + 2 - k)..(Len(buf) + 1) |->
         IF Parses(buf, i) THEN <<ParsedAt(buf, i)>> \o f[Following(buf, i)] ELSE <<>>]

LEMMA ParsesIs ==
  ASSUME NEW buf \in Text, NEW i \in 1..(Len(buf) + 1), Parses(buf, i)
  PROVE  /\ ParsedAt(buf, i) \in [at : Nat, name : Text]
         /\ Following(buf, i) \in (i + 1)..(Len(buf) + 1)
<1>1. i \in 1..Len(buf) /\ i + buf[i].nameLen =< Len(buf) /\ buf[i].kind = "head"
  BY TextIs DEF Parses
<1>2. Len(buf) \in Nat /\ buf[i] \in Cells
  BY <1>1, TextIs
<1>3. buf[i].at \in Nat /\ buf[i].nameLen \in Nat
  BY <1>1, <1>2, CellIs
<1>4. NameAt(buf, i) \in Text
  <2> DEFINE m == i + 1
             n == i + buf[i].nameLen
  <2>1. m \in Nat /\ n \in Nat /\ m > 0 /\ n =< Len(buf)
    BY <1>1, <1>3
  <2> HIDE DEF m, n
  <2>2. SubSeq(buf, m, n) \in Text
    BY <2>1, TextPart
  <2> QED BY <2>2 DEF NameAt, m, n
<1>5. ParsedAt(buf, i) \in [at : Nat, name : Text]
  BY <1>3, <1>4 DEF ParsedAt
<1>6. Following(buf, i) \in (i + 1)..(Len(buf) + 1)
  BY <1>1, <1>2, <1>3 DEF Following
<1> QED BY <1>5, <1>6

LEMMA ParsingExists ==
  ASSUME NEW buf \in Text
  PROVE  \E f : IsParsing(buf, Len(buf) + 1, f)
<1> DEFINE len == Len(buf)
           n == len + 1
           S == {k \in 0..n : \E f : IsParsing(buf, k, f)}
           Case(f, i) == IF Parses(buf, i) THEN <<ParsedAt(buf, i)>> \o f[Following(buf, i)] ELSE <<>>
<1>1. len \in Nat /\ n \in Nat
  BY TextIs
<1>2. 0 \in S
  <2> DEFINE f == [i \in (len + 2 - 0)..(len + 1) |-> <<>>]
  <2>1. (len + 2 - 0)..(len + 1) = {}
    BY <1>1
  <2>2. f = [i \in (len + 2 - 0)..(len + 1) |-> Case(f, i)]
    BY <2>1
  <2> HIDE DEF f
  <2>3. IsParsing(buf, 0, f)
    BY <2>2 DEF IsParsing
  <2> QED BY <1>1, <2>3
<1>3. ASSUME NEW k \in 1..n, k - 1 \in S PROVE k \in S
  <2>1. PICK g : IsParsing(buf, k - 1, g)
    BY <1>3
  <2> DEFINE low == len + 2 - k
             first == Case(g, low)
             h == [i \in low..(len + 1) |-> IF i = low THEN first ELSE g[i]]
  <2>2. low \in 1..(len + 1) /\ len + 2 - (k - 1) = low + 1
    BY <1>1
  <2>3. g = [i \in (low + 1)..(len + 1) |-> Case(g, i)]
    <3>1. g = [i \in (len + 2 - (k - 1))..(len + 1) |-> Case(g, i)]
      BY <2>1 DEF IsParsing
    <3> QED BY <2>2, <3>1
  <2> HIDE DEF low
  <2>4. h[low] = first /\ \A i \in (low + 1)..(len + 1) : h[i] = g[i]
    <3> HIDE DEF first, len
    <3> QED BY <1>1, <2>2
  <2>5. \A i \in low..(len + 1) : Parses(buf, i) => h[Following(buf, i)] = g[Following(buf, i)]
    <3> SUFFICES ASSUME NEW i \in low..(len + 1), Parses(buf, i)
                 PROVE  h[Following(buf, i)] = g[Following(buf, i)]
      OBVIOUS
    <3>1. i \in 1..(len + 1)
      BY <1>1, <2>2
    <3>2. Following(buf, i) \in (i + 1)..(len + 1)
      BY <3>1, ParsesIs
    <3>3. Following(buf, i) \in (low + 1)..(len + 1)
      BY <1>1, <2>2, <3>2
    <3> HIDE DEF h
    <3> QED BY <2>4, <3>3
  <2>6. ASSUME NEW i \in low..(len + 1) PROVE h[i] = Case(h, i)
    <3>1. Case(h, i) = Case(g, i)
      <4> HIDE DEF h
      <4> QED BY <2>5
    <3>2. i = low \/ i \in (low + 1)..(len + 1)
      BY <1>1, <2>2
    <3>3. i # low => h[i] = Case(g, i)
      <4> HIDE DEF h
      <4> QED BY <2>3, <2>4, <3>2
    <3>4. i = low => h[i] = Case(g, i)
      <4> HIDE DEF h
      <4> QED BY <2>4
    <3> QED BY ONLY <3>1, <3>3, <3>4
  <2>7. h = [i \in low..(len + 1) |-> h[i]]
    OBVIOUS
  <2> HIDE DEF h
  <2>8. IsParsing(buf, k, h)
    BY <2>6, <2>7 DEF IsParsing, low
  <2> QED BY <2>8
<1>4. \A k \in 0..n : k \in S
  <2> HIDE DEF S, n
  <2> QED BY <1>1, <1>2, <1>3, Induct
<1>5. n \in 0..n
  BY <1>1
<1> QED BY <1>4, <1>5

\* The recursion of ParseEntries.
IsParser(buf, f) ==
  \A i \in 1..(Len(buf) + 1) :
    f[i] = IF Parses(buf, i) THEN <<ParsedAt(buf, i)>> \o f[Following(buf, i)] ELSE <<>>

LEMMA ParserExists ==
  ASSUME NEW buf \in Text
  PROVE  \E f : ParseEntries(buf) = f[1] /\ IsParser(buf, f)
<1> DEFINE len == Len(buf)
           n == len + 1
           f == CHOOSE g : IsParsing(buf, n, g)
<1>1. len \in Nat /\ len + 2 - n = 1
  BY TextIs
<1>2. ParseEntries(buf) = f[1]
  <2> DEFINE from == CHOOSE g : g = [i \in 1..(len + 1) |->
                       IF Parses(buf, i) THEN <<ParsedAt(buf, i)>> \o g[Following(buf, i)] ELSE <<>>]
  <2>1. ParseEntries(buf) = from[1]
    BY DEF ParseEntries, ParsedAt, Following
  <2>2. f = from
    BY <1>1 DEF IsParsing
  <2> HIDE DEF f, from
  <2> QED BY <2>1, <2>2
<1>3. IsParsing(buf, n, f)
  BY ParsingExists
<1> HIDE DEF f
<1>4. IsParser(buf, f)
  BY <1>1, <1>3 DEF IsParsing, IsParser
<1> QED BY <1>2, <1>4

LEMMA ParsedEntries ==
  ASSUME NEW buf \in Text
  PROVE  ParseEntries(buf) \in Entries
<1> DEFINE len == Len(buf)
           n == len + 1
           Entry == [at : Nat, name : Text]
<1>1. len \in Nat /\ n \in Nat
  BY TextIs
<1>2. PICK f : ParseEntries(buf) = f[1] /\ IsParser(buf, f)
  BY ParserExists
<1> DEFINE S == {k \in 0..n : \A i \in (len + 2 - k)..(len + 1) : f[i] \in Entries}
<1>4. \A i \in 1..(len + 1) :
        f[i] = IF Parses(buf, i) THEN <<ParsedAt(buf, i)>> \o f[Following(buf, i)] ELSE <<>>
  BY <1>2 DEF IsParser
<1>5. 0 \in S
  BY <1>1
<1>6. ASSUME NEW k \in 1..n, k - 1 \in S PROVE k \in S
  <2> DEFINE low == len + 2 - k
  <2>1. low \in 1..(len + 1) /\ \A i \in (low + 1)..(len + 1) : f[i] \in Entries
    <3>1. len + 2 - (k - 1) = low + 1
      BY <1>1
    <3>2. \A i \in (len + 2 - (k - 1))..(len + 1) : f[i] \in Entries
      BY <1>6
    <3>3. low \in 1..(len + 1)
      BY <1>1
    <3> QED BY <3>1, <3>2, <3>3
  <2> HIDE DEF low
  <2>2. f[low] \in Entries
    <3>1. CASE Parses(buf, low)
      <4> DEFINE e == ParsedAt(buf, low)
                 rest == f[Following(buf, low)]
      <4>1. e \in Entry
        BY <2>1, <3>1, ParsesIs
      <4>2. rest \in Entries
        <5>1. Following(buf, low) \in (low + 1)..(len + 1)
          BY <2>1, <3>1, ParsesIs
        <5> QED BY <2>1, <5>1
      <4>3. f[low] = <<e>> \o rest
        BY <1>4, <2>1, <3>1
      <4> HIDE DEF e, rest, Entry
      <4>4. <<e>> \in Seq(Entry)
        BY <4>1
      <4>5. rest \in Seq(Entry)
        BY <4>2 DEF Entries, Entry
      <4>6. <<e>> \o rest \in Seq(Entry)
        BY <4>4, <4>5, ConcatProperties
      <4> QED BY <4>3, <4>6 DEF Entries, Entry
    <3>2. CASE ~Parses(buf, low)
      <4>1. f[low] = <<>>
        BY <1>4, <2>1, <3>2
      <4> QED BY <4>1 DEF Entries
    <3> QED BY <3>1, <3>2
  <2>3. \A i \in low..(len + 1) : i = low \/ i \in (low + 1)..(len + 1)
    BY <1>1, <2>1
  <2>4. \A i \in low..(len + 1) : f[i] \in Entries
    BY <2>1, <2>2, <2>3
  <2> QED BY <2>4 DEF low
<1>7. \A k \in 0..n : k \in S
  <2> HIDE DEF S, n
  <2> QED BY <1>1, <1>5, <1>6, Induct
<1>8. f[1] \in Entries
  <2>1. n \in S
    BY <1>1, <1>7
  <2>2. 1 \in (len + 2 - n)..(len + 1)
    BY <1>1
  <2> QED BY <2>1, <2>2
<1> QED BY <1>2, <1>8

----------------------------------------------------------------------------
(* What the reader returns.                                                *)

\* A directory that begins where the members end.
Opened(cd) ==
  cd.entries \in Entries /\ cd.comment \in Text /\ cd.offset = Here /\ cd.size \in Nat

LEMMA CentralDirOpened ==
  ASSUME NEW entries \in Entries, NEW comment \in Text, NEW isZip64, NEW offset, offset = Here,
         NEW size \in Nat
  PROVE  Opened(CentralDir(entries, comment, isZip64, offset, size))
BY DEF Opened, CentralDir

\* A record that tells the place of the directory, or a size too large.
EndsIs(r) == r.size \in Nat /\ (r.offset = Here \/ (r.size = FieldLimit /\ r.offset = FieldLimit))

LEMMA EndCell ==
  ASSUME NEW c \in Cells, c.kind = "end"
  PROVE  EndsIs(c) /\ c.count \in Nat /\ c.commentLen \in Nat
<1>1. c \in PlainEnds \/ c \in FullEnds
  BY CellIs
<1>2. c \in PlainEnds => EndsIs(c) /\ c.count \in Nat /\ c.commentLen \in Nat
  BY DEF PlainEnds, EndsIs
<1>3. c \in FullEnds => EndsIs(c) /\ c.count \in Nat /\ c.commentLen \in Nat
  BY LimitAssumption DEF FullEnds, EndsIs
<1> QED BY <1>1, <1>2, <1>3

LEMMA End64Cell ==
  ASSUME NEW c \in Cells, c.kind = "end64"
  PROVE  EndsIs(c)
<1>1. c \in End64s
  BY CellIs
<1> QED BY <1>1 DEF End64s, EndsIs

LEMMA ReadEntriesOpened ==
  ASSUME NEW f \in Text, NEW r, EndsIs(r), NEW n, NEW comment \in Text, NEW isZip64,
         ReadEntries(f, r.offset, r.size, n, comment, isZip64).found
  PROVE  Opened(ReadEntries(f, r.offset, r.size, n, comment, isZip64))
<1> DEFINE offset == r.offset
           size == r.size
           buf == SubSeq(f, offset + 1, offset + size)
           read == ReadEntries(f, offset, size, n, comment, isZip64)
<1>1. ~Failed.found
  BY DEF Failed
<1>2. /\ ~(size > MaxCdSize) /\ ~(size > 0 /\ offset + size > Len(f))
      /\ read = CentralDir(ParseEntries(buf), comment, isZip64, offset, size)
  <2> DEFINE cd == CentralDir(ParseEntries(buf), comment, isZip64, offset, size)
             bad == \/ size > MaxCdSize \/ (size > 0 /\ offset + size > Len(f))
                    \/ ~CountValid(Len(ParseEntries(buf)), n)
  <2>1. read = IF bad THEN Failed ELSE cd
    BY DEF ReadEntries
  <2>2. read.found
    OBVIOUS
  <2> HIDE DEF cd, read
  <2>3. ~bad /\ read = cd
    <3> HIDE DEF bad
    <3> QED BY <1>1, <2>1, <2>2
  <2> QED BY <2>3 DEF cd
<1>3. offset = Here /\ offset \in Nat /\ size \in Nat
  BY <1>2, LimitAssumption, HereIsNat DEF EndsIs
<1> HIDE DEF offset, size, read
<1>4. buf \in Text
  <2> DEFINE first == offset + 1
             last == offset + size
  <2>1. Len(f) \in Nat
    BY TextIs
  <2>2. first \in Nat /\ first > 0 /\ last \in Nat /\ (last =< Len(f) \/ last < first)
    BY <1>2, <1>3, <2>1
  <2>3. buf = SubSeq(f, first, last)
    OBVIOUS
  <2> HIDE DEF first, last, buf
  <2> QED BY <2>2, <2>3, TextPart
<1>5. ParseEntries(buf) \in Entries
  <2> HIDE DEF buf
  <2> QED BY <1>4, ParsedEntries
<1> HIDE DEF buf
<1>6. Opened(read)
  BY <1>2, <1>3, <1>5, CentralDirOpened
<1> QED BY <1>6 DEF read, offset, size

LEMMA TailStartIs ==
  ASSUME NEW f \in Text
  PROVE  TailStart(f) \in Nat
<1> DEFINE m == Min({Len(f), MaxCdBuffer})
<1>1. Len(f) \in Nat /\ MaxCdBuffer \in Nat
  BY TextIs, LimitAssumption
<1>2. m \in {Len(f), MaxCdBuffer} /\ m =< Len(f)
  <2>1. \E x \in {Len(f), MaxCdBuffer} : \A y \in {Len(f), MaxCdBuffer} : x =< y
    BY <1>1
  <2>2. m = CHOOSE x \in {Len(f), MaxCdBuffer} : \A y \in {Len(f), MaxCdBuffer} : x =< y
    BY DEF Min
  <2> QED BY <2>1, <2>2
<1>3. TailStart(f) = Len(f) - m
  BY DEF TailStart
<1> HIDE DEF m
<1> QED BY <1>1, <1>2, <1>3

LEMMA LocatedCell ==
  ASSUME NEW f \in Text, NEW i \in 1..Len(f), HasEnd64(f, i)
  PROVE  f[Located(f, i)] \in Cells /\ f[Located(f, i)].kind = "end64"
<1> DEFINE at == i - 1
           there == Located(f, i)
<1>1. Len(f) \in Nat /\ TailStart(f) \in Nat
  BY TextIs, TailStartIs
<1>2. HasLocator(f, i) /\ there =< Len(f) /\ f[there].kind = "end64"
  BY DEF HasEnd64
<1>3. at > TailStart(f) /\ f[at].kind = "locator"
  BY <1>2 DEF HasLocator
<1>4. at \in 1..Len(f)
  BY <1>1, <1>3
<1>5. there = f[at].end64 + 1
  BY DEF Located
<1> HIDE DEF at, there
<1>6. f[at].end64 \in Nat
  BY <1>3, <1>4, TextIs, CellIs
<1>7. there \in 1..Len(f)
  BY <1>1, <1>2, <1>5, <1>6
<1>8. f[there] \in Cells
  BY <1>7, TextIs
<1> QED BY <1>2, <1>8 DEF there

LEMMA TryOpened ==
  ASSUME NEW f \in Text, NEW i \in 1..Len(f), f[i].kind = "end", TryParseCdir(f, i).found
  PROVE  Opened(TryParseCdir(f, i))
<1> DEFINE c == f[i]
           comment == SubSeq(f, i + 1, i + c.commentLen)
           r == IF HasEnd64(f, i) THEN f[Located(f, i)] ELSE c
           n == IF c.count = CountLimit THEN r.count ELSE c.count
           isZip64 == HasLocator(f, i)
           empty == CentralDir(<<>>, comment, isZip64, 0, 0)
           read == ReadEntries(f, r.offset, r.size, n, comment, isZip64)
           try == TryParseCdir(f, i)
<1>1. c \in Cells /\ Len(f) \in Nat
  BY TextIs
<1>2. EndsIs(c) /\ c.commentLen \in Nat
  BY <1>1, EndCell
<1>3. EndsIs(r)
  BY <1>2, LocatedCell, End64Cell
<1>4. try = IF i + c.commentLen > Len(f) THEN Passed ELSE IF IsEmpty(r, n) THEN empty ELSE read
  BY DEF TryParseCdir
<1>5. ~Passed.found
  BY DEF Passed
<1>6. try.found
  OBVIOUS
<1> HIDE DEF c, r, n, isZip64, try
<1>7. ~(i + c.commentLen > Len(f))
  <2> HIDE DEF empty, read
  <2> QED BY <1>4, <1>5, <1>6
<1>8. comment \in Text
  <2> DEFINE first == i + 1
             last == i + c.commentLen
  <2>1. first \in Nat /\ first > 0 /\ last \in Nat /\ last =< Len(f)
    BY <1>1, <1>2, <1>7
  <2> HIDE DEF first, last
  <2>2. SubSeq(f, first, last) \in Text
    BY <2>1, TextPart
  <2> QED BY <2>2 DEF first, last
<1> HIDE DEF comment
<1>9. ASSUME IsEmpty(r, n) PROVE Opened(try)
  <2>1. r.size = 0 /\ r.offset = 0
    BY <1>9 DEF IsEmpty
  <2>2. 0 = Here
    BY <1>3, <2>1, LimitAssumption DEF EndsIs
  <2>3. Opened(empty)
    <3> DEFINE none == <<>>
    <3>1. none \in Entries
      BY DEF Entries
    <3> HIDE DEF none
    <3>2. Opened(CentralDir(none, comment, isZip64, 0, 0))
      BY <1>8, <2>2, <3>1, CentralDirOpened
    <3> QED BY <3>2 DEF none
  <2>4. try = empty
    BY <1>4, <1>7, <1>9
  <2> QED BY <2>3, <2>4
<1>10. ASSUME ~IsEmpty(r, n) PROVE Opened(try)
  <2>1. try = read
    BY <1>4, <1>7, <1>10
  <2>2. read.found
    BY <1>6, <2>1
  <2> QED BY <1>3, <1>8, <2>1, <2>2, ReadEntriesOpened
<1>11. Opened(try)
  BY <1>9, <1>10
<1> QED BY <1>11 DEF try

LEMMA ReadOpened ==
  ASSUME NEW f \in Text, ReadCentralDir(f).found
  PROVE  Opened(ReadCentralDir(f))
<1> DEFINE S == {i \in TailStart(f) + 1 .. Len(f) : f[i].kind = "end" /\ TryParseCdir(f, i) # Passed}
           i == Max(S)
<1>1. Len(f) \in Nat /\ TailStart(f) \in Nat
  BY TextIs, TailStartIs
<1>2. ReadCentralDir(f) = IF S = {} THEN Failed ELSE TryParseCdir(f, i)
  BY DEF ReadCentralDir
<1>3. ~Failed.found
  BY DEF Failed
<1>4. S \subseteq 1..Len(f) /\ S \subseteq 0..Len(f)
  BY <1>1
<1>5. \A j \in S : f[j].kind = "end"
  OBVIOUS
<1> HIDE DEF S
<1>6. S # {} /\ ReadCentralDir(f) = TryParseCdir(f, i)
  BY <1>2, <1>3
<1>7. i \in S
  BY <1>1, <1>4, <1>6, GreatestElement
<1> HIDE DEF i
<1>8. i \in 1..Len(f) /\ f[i].kind = "end" /\ TryParseCdir(f, i).found
  BY <1>4, <1>5, <1>6, <1>7
<1> QED BY <1>6, <1>8, TryOpened

----------------------------------------------------------------------------
(* The steps.                                                              *)

\* A text that begins with the members.
Begins(s) == Len(s) >= Here /\ \A i \in 1..Here : s[i] = Data[i]

LEMMA UntouchedIs == DataUntouched <=> Begins(file)
BY DEF DataUntouched, Begins, Here

LEMMA IdleOK == modify = Idle => CallOK
<1>1. <<>> \in Text
  BY DEF Text
<1> QED BY <1>1 DEF CallOK, Idle

LEMMA InitInv == Init => ModifyInv
<1> SUFFICES ASSUME Init PROVE ModifyInv
  OBVIOUS
<1>1. PICK cd \in Archives, j \in Junk :
        file = Data \o Serialize([cd EXCEPT !.offset = Len(Data)]) \o j
  BY DEF Init
<1> DEFINE from == [cd EXCEPT !.offset = Len(Data)]
           rest == Serialize(from)
<1>2. /\ cd.entries \in Seq([at : Nat, name : Names]) /\ cd.comment \in Seq(Plain)
      /\ from.entries = cd.entries /\ from.comment = cd.comment /\ from.offset = Here
  <2>1. cd \in [entries : Seq([at : Nat, name : Names]), comment : Seq(Plain),
                isZip64 : BOOLEAN, offset : Nat]
    BY PlainAssumption
  <2> QED BY <2>1 DEF Here
<1>3. cd.entries \in Entries
  <2> DEFINE Named == [at : Nat, name : Names]
             Entry == [at : Nat, name : Text]
  <2>1. \A name \in Names : name \in Text
    BY PlainAssumption, PlainText
  <2>2. Named \subseteq Entry
    BY <2>1
  <2>3. cd.entries \in Seq(Named)
    BY <1>2
  <2> HIDE DEF Named, Entry
  <2>4. cd.entries \in Seq(Entry)
    BY <2>2, <2>3, SeqMonotonic
  <2> QED BY <2>4 DEF Entries, Entry
<1>4. cd.comment \in Text
  BY <1>2, PlainText
<1> HIDE DEF from
<1>5. rest \in Text
  BY <1>2, <1>3, <1>4, SerializeText
<1>6. Data \in Text /\ j \in Text
  BY PlainAssumption, PlainText
<1>7. file = Data \o rest \o j
  BY <1>1 DEF from
<1> HIDE DEF rest
<1>8. Data \o rest \in Text /\ file \in Text /\ Len(file) = Len(Data) + Len(rest) + Len(j)
  BY <1>5, <1>6, <1>7, TextConcat
<1>9. Begins(file)
  <2> DEFINE most == Data \o rest
  <2>1. \A i \in 1..Len(Data) : most[i] = Data[i]
    <3> HIDE DEF Text
    <3> QED BY <1>5, <1>6, ConcatProperties DEF Text
  <2>2. most \in Text /\ Len(most) = Len(Data) + Len(rest) /\ file = most \o j
    BY <1>5, <1>6, <1>7, TextConcat
  <2> HIDE DEF most
  <2>3. \A i \in 1..Len(most) : file[i] = most[i]
    BY <1>6, <2>2, ConcatProperties DEF Text
  <2>4. Len(Data) \in Nat /\ Len(rest) \in Nat /\ Len(j) \in Nat
    BY <1>5, <1>6, TextIs
  <2>5. \A i \in 1..Len(Data) : i \in 1..Len(most)
    BY <2>2, <2>4
  <2> QED BY <1>8, <2>1, <2>3, <2>4, <2>5 DEF Begins, Here
<1>10. modify = Idle
  BY DEF Init
<1> QED BY <1>8, <1>9, <1>10, UntouchedIs, IdleOK DEF ModifyInv

\* What is found has the fields of a directory.
LEMMA FoundIs ==
  ASSUME NEW f, ReadCentralDir(f).found
  PROVE  \E entries, comment, isZip64, offset, size :
           ReadCentralDir(f) = CentralDir(entries, comment, isZip64, offset, size)
<1> DEFINE cd == ReadCentralDir(f)
           S == {i \in TailStart(f) + 1 .. Len(f) : f[i].kind = "end" /\ TryParseCdir(f, i) # Passed}
<1>1. ~Failed.found /\ ~Passed.found /\ cd.found
  BY DEF Failed, Passed
<1>2. cd = IF S = {} THEN Failed ELSE TryParseCdir(f, Max(S))
  BY DEF ReadCentralDir
<1> HIDE DEF S
<1>3. cd = TryParseCdir(f, Max(S))
  <2> HIDE DEF cd
  <2> QED BY <1>1, <1>2
<1> HIDE DEF cd
<1> DEFINE i == Max(S)
           comment == SubSeq(f, i + 1, i + f[i].commentLen)
           r == IF HasEnd64(f, i) THEN f[Located(f, i)] ELSE f[i]
           n == IF f[i].count = CountLimit THEN r.count ELSE f[i].count
           empty == CentralDir(<<>>, comment, HasLocator(f, i), 0, 0)
           read == ReadEntries(f, r.offset, r.size, n, comment, HasLocator(f, i))
<1>4. cd = Passed \/ cd = empty \/ cd = read
  BY <1>3 DEF TryParseCdir
<1>5. read = Failed \/ read = CentralDir(ParseEntries(SubSeq(f, r.offset + 1, r.offset + r.size)),
                                         comment, HasLocator(f, i), r.offset, r.size)
  BY DEF ReadEntries
<1>6. \E entries, c, isZip64, offset, size : cd = CentralDir(entries, c, isZip64, offset, size)
  <2> HIDE DEF read, comment, r
  <2> QED BY <1>1, <1>4, <1>5
<1> QED BY <1>6 DEF cd

\* The call starts where the members end.
LEMMA ModifyArchiveFileIs ==
  ASSUME ModifyInv, NEW renames \in Renames, NEW deletes, ModifyArchiveFile(renames, deletes)
  PROVE  \E new :
           /\ Opened(ReadCentralDir(file))
           /\ new.entries = Edited(ReadCentralDir(file).entries, renames, deletes)
           /\ new.entries \in Entries /\ new.comment = ReadCentralDir(file).comment
           /\ new.comment \in Text /\ new.offset = Here
           /\ file' = file
           /\ modify' = [busy |-> TRUE, offset |-> Here, written |-> 0, tail |-> Serialize(new)]
<1> DEFINE cd == ReadCentralDir(file)
           edited == Edited(cd.entries, renames, deletes)
           new == [cd EXCEPT !.entries = edited]
           tail == Serialize(new)
<1>1. file \in Text /\ file' = file
  BY DEF ModifyInv, ModifyArchiveFile
<1>2. Opened(cd)
  BY <1>1, ReadOpened DEF ModifyArchiveFile
<1>3. edited \in Entries
  BY <1>2, EditedEntries DEF Opened
<1>4. new.entries = edited /\ new.comment = cd.comment /\ new.offset = cd.offset
  <2>1. cd.found
    BY DEF ModifyArchiveFile
  <2>2. \E entries, comment, isZip64, offset, size :
          cd = CentralDir(entries, comment, isZip64, offset, size)
    BY <2>1, FoundIs
  <2> QED BY <2>2 DEF CentralDir
<1>5. modify' = [busy |-> TRUE, offset |-> cd.offset, written |-> 0, tail |-> tail]
  BY DEF ModifyArchiveFile
<1>6. cd.offset = Here /\ cd.comment \in Text
  BY <1>2 DEF Opened
<1> HIDE DEF new, edited, cd
<1> QED BY <1>1, <1>2, <1>3, <1>4, <1>5, <1>6 DEF edited, cd

LEMMA ModifyArchiveFileKeeps ==
  ASSUME ModifyInv, NEW renames \in Renames, NEW deletes, ModifyArchiveFile(renames, deletes)
  PROVE  ModifyInv'
<1>1. file \in Text /\ DataUntouched
  BY DEF ModifyInv
<1>2. PICK new : /\ new.entries \in Entries /\ new.comment \in Text /\ new.offset = Here
                 /\ file' = file
                 /\ modify' = [busy |-> TRUE, offset |-> Here, written |-> 0, tail |-> Serialize(new)]
  BY ModifyArchiveFileIs
<1> DEFINE tail == Serialize(new)
<1>3. tail \in Text
  BY <1>2, SerializeText
<1> HIDE DEF tail
<1>4. Len(file) >= Here /\ Len(file) \in Nat /\ Here \in Nat /\ Len(tail) \in Nat
  BY <1>1, <1>3, UntouchedIs, HereIsNat, TextIs DEF Begins
<1>5. CallOK'
  BY <1>1, <1>2, <1>3, <1>4 DEF CallOK, tail
<1>6. DataUntouched'
  BY <1>1, <1>2 DEF DataUntouched
<1> QED BY <1>1, <1>2, <1>5, <1>6 DEF ModifyInv

\* A cell is written behind the members, at most one behind the file's end.
LEMMA WriteAllIs ==
  ASSUME ModifyInv, WriteAll
  PROVE  /\ file' \in Text /\ Len(file') >= Len(file) /\ Len(file') >= Here + (modify.written + 1)
         /\ modify.written \in Nat /\ modify.written + 1 \in 1..Len(modify.tail)
         /\ modify'.busy = modify.busy /\ modify'.offset = modify.offset
         /\ modify'.tail = modify.tail /\ modify'.written = modify.written + 1
         /\ \A i \in 1..Len(file') :
              /\ file'[i] = IF i = Here + (modify.written + 1)
                            THEN modify.tail[modify.written + 1] ELSE file[i]
              /\ i # Here + (modify.written + 1) => i \in 1..Len(file)
<1> DEFINE p == modify.offset + modify.written + 1
           m == Max({Len(file), p})
           cell == modify.tail[modify.written + 1]
<1>1. /\ file \in Text /\ Begins(file) /\ Len(file) \in Nat /\ Here \in Nat
      /\ modify \in [busy : BOOLEAN, offset : Nat, tail : Text, written : Nat]
      /\ modify.offset = Here /\ Len(file) >= Here + modify.written
      /\ modify.written < Len(modify.tail)
  BY UntouchedIs, HereIsNat, TextIs DEF ModifyInv, CallOK, WriteAll
<1>2. Len(modify.tail) \in Nat /\ cell \in Cells
  <2>1. modify.tail \in Text /\ modify.written \in Nat
    BY <1>1
  <2>2. Len(modify.tail) \in Nat
    BY <2>1, TextIs
  <2>3. modify.written + 1 \in 1..Len(modify.tail)
    BY <1>1, <2>1, <2>2
  <2> QED BY <2>1, <2>2, <2>3, TextIs
<1>3. p \in Nat /\ p = Here + modify.written + 1 /\ p =< Len(file) + 1
  BY <1>1
<1>4. m \in {Len(file), p} /\ m >= Len(file) /\ m >= p
  <2> HIDE DEF p
  <2>1. \E x \in {Len(file), p} : \A y \in {Len(file), p} : x >= y
    BY <1>1, <1>3
  <2>2. m = CHOOSE x \in {Len(file), p} : \A y \in {Len(file), p} : x >= y
    BY DEF Max
  <2> QED BY <2>1, <2>2
<1>5. /\ file' = [i \in 1..m |-> IF i = p THEN cell ELSE file[i]]
      /\ modify' = [modify EXCEPT !.written = @ + 1]
  BY DEF WriteAll
<1> HIDE DEF m, p, cell
<1>6. \A i \in 1..m : (IF i = p THEN cell ELSE file[i]) \in Cells
  <2>1. \A i \in 1..m : i # p => i \in 1..Len(file)
    BY <1>1, <1>3, <1>4
  <2> HIDE DEF Cells
  <2> QED BY <1>1, <1>2, <2>1, TextIs
<1>7. file' \in Text /\ Len(file') = m
  <2> HIDE DEF Cells
  <2>1. m \in Nat
    BY <1>1, <1>3, <1>4
  <2>2. file' \in [1..m -> Cells]
    BY <1>5, <1>6
  <2>3. file' \in Text
    BY <2>1, <2>2, SeqDef DEF Text
  <2>4. DOMAIN file' = 1..m /\ DOMAIN file' = 1..Len(file') /\ Len(file') \in Nat
    BY <2>2, <2>3, LenProperties DEF Text
  <2>5. Len(file') = m
    BY <2>1, <2>4
  <2> QED BY <2>3, <2>5
<1>8. /\ modify.written \in Nat /\ modify.written + 1 \in 1..Len(modify.tail)
      /\ p = Here + (modify.written + 1)
  BY <1>1, <1>2, <1>3
<1>9. /\ modify'.busy = modify.busy /\ modify'.offset = modify.offset
      /\ modify'.tail = modify.tail /\ modify'.written = modify.written + 1
  BY <1>1, <1>5
<1>10. \A i \in 1..m : i # p => i \in 1..Len(file)
  BY <1>1, <1>3, <1>4
<1> QED BY <1>4, <1>5, <1>7, <1>8, <1>9, <1>10 DEF cell

LEMMA WriteAllKeeps ==
  ASSUME ModifyInv, WriteAll
  PROVE  ModifyInv'
<1> DEFINE p == Here + (modify.written + 1)
<1>1. /\ file \in Text /\ Begins(file) /\ Len(file) \in Nat /\ Here \in Nat
      /\ modify \in [busy : BOOLEAN, offset : Nat, tail : Text, written : Nat]
      /\ modify.offset = Here
  BY UntouchedIs, HereIsNat, TextIs DEF ModifyInv, CallOK, WriteAll
<1>2. /\ file' \in Text /\ Len(file') >= Len(file) /\ Len(file') >= p
      /\ modify.written \in Nat /\ modify.written + 1 \in 1..Len(modify.tail)
      /\ modify'.offset = modify.offset
      /\ modify'.tail = modify.tail /\ modify'.written = modify.written + 1
      /\ \A i \in 1..Len(file') : i # p => file'[i] = file[i]
  BY WriteAllIs
<1>3. Begins(file')
  <2>1. Len(file') \in Nat
    BY <1>2, TextIs
  <2>2. \A i \in 1..Here : i \in 1..Len(file') /\ i # p
    BY <1>1, <1>2, <2>1 DEF Begins
  <2>3. \A i \in 1..Here : file'[i] = Data[i]
    BY <1>1, <1>2, <2>2 DEF Begins
  <2>4. Len(file') >= Here
    BY <1>1, <1>2, <2>1 DEF Begins
  <2> QED BY <2>3, <2>4 DEF Begins
<1>4. CallOK'
  <2> HIDE DEF Text
  <2>1. modify' \in [busy : BOOLEAN, offset : Nat, tail : Text, written : Nat]
    BY <1>1 DEF WriteAll
  <2>2. Len(modify.tail) \in Nat
    BY <1>1, TextIs
  <2>3. modify.written + 1 =< Len(modify.tail)
    BY <1>2, <2>2
  <2> QED BY <1>1, <1>2, <2>1, <2>3 DEF CallOK, Here
<1>5. DataUntouched'
  BY <1>3 DEF DataUntouched, Begins, Here
<1> QED BY <1>2, <1>4, <1>5 DEF ModifyInv

\* The file is cut behind the new tail.
LEMMA SetLenIs ==
  ASSUME ModifyInv, SetLen
  PROVE  /\ file' \in Text /\ Len(file') = Here + Len(modify.tail) /\ Len(file') =< Len(file)
         /\ \A i \in 1..Len(file') : file'[i] = file[i]
<1> DEFINE n == modify.offset + Len(modify.tail)
           one == 1
<1>1. /\ file \in Text /\ Begins(file) /\ Len(file) \in Nat /\ Here \in Nat
      /\ modify.tail \in Text /\ modify.offset = Here /\ Len(file) >= Here + modify.written
      /\ modify.written = Len(modify.tail)
  BY UntouchedIs, HereIsNat, TextIs DEF ModifyInv, CallOK, SetLen, AllWritten
<1>2. file' = SubSeq(file, one, n) /\ modify' = Idle
  BY DEF SetLen
<1>3. Len(modify.tail) \in Nat
  BY <1>1, TextIs
<1>4. n \in Nat /\ n >= Here /\ n =< Len(file) /\ one \in Nat /\ one > 0
  BY <1>1, <1>3
<1>5. one = 1
  OBVIOUS
<1> HIDE DEF n, one
<1>6. file' \in Text /\ Len(file') = n
  <2>1. SubSeq(file, one, n) \in Text /\ Len(SubSeq(file, one, n)) = IF one =< n THEN n - one + 1 ELSE 0
    BY <1>1, <1>4, TextPart
  <2>2. (IF one =< n THEN n - one + 1 ELSE 0) = n
    BY <1>4, <1>5
  <2> QED BY <1>2, <2>1, <2>2
<1>7. \A i \in 1..n : file'[i] = file[i]
  <2> HIDE DEF Cells
  <2>1. \A i \in one..n : file[i] \in Cells
    BY <1>1, <1>4, <1>5, TextIs
  <2>2. one \in Int /\ n \in Int
    BY <1>4
  <2>3. \A i \in 1..(n - one + 1) : SubSeq(file, one, n)[i] = file[one + i - 1]
    BY <2>1, <2>2, SubSeqProperties
  <2>4. \A i \in 1..n : i \in 1..(n - one + 1) /\ one + i - 1 = i
    BY <1>4, <1>5
  <2> QED BY <1>2, <2>3, <2>4
<1> QED BY <1>1, <1>4, <1>6, <1>7 DEF n

LEMMA SetLenKeeps ==
  ASSUME ModifyInv, SetLen
  PROVE  ModifyInv'
<1>1. /\ Begins(file) /\ Here \in Nat /\ Len(modify.tail) \in Nat
  BY UntouchedIs, HereIsNat, TextIs DEF ModifyInv, CallOK
<1>2. /\ file' \in Text /\ Len(file') = Here + Len(modify.tail)
      /\ \A i \in 1..Len(file') : file'[i] = file[i]
  BY SetLenIs
<1>3. Begins(file')
  <2>1. Len(file') >= Here /\ \A i \in 1..Here : i \in 1..Len(file')
    BY <1>1, <1>2
  <2> QED BY <1>1, <1>2, <2>1 DEF Begins
<1>4. CallOK'
  <2>1. <<>> \in Text
    BY DEF Text
  <2>2. modify' = Idle
    BY DEF SetLen
  <2> QED BY <2>1, <2>2 DEF CallOK, Idle
<1>5. DataUntouched'
  BY <1>3 DEF DataUntouched, Begins, Here
<1> QED BY <1>2, <1>4, <1>5 DEF ModifyInv

LEMMA StopKeeps ==
  ASSUME ModifyInv, Stop
  PROVE  ModifyInv'
<1>1. file' = file /\ modify' = Idle
  BY DEF Stop
<1>2. <<>> \in Text
  BY DEF Text
<1>3. CallOK'
  BY <1>1, <1>2 DEF CallOK, Idle
<1> QED BY <1>1, <1>3 DEF ModifyInv, DataUntouched

LEMMA NextInv ==
  ASSUME ModifyInv, [Next]_vars
  PROVE  ModifyInv'
<1>1. CASE \E renames \in Renames, deletes \in Deletes : ModifyArchiveFile(renames, deletes)
  BY <1>1, ModifyArchiveFileKeeps
<1>2. CASE WriteAll
  BY <1>2, WriteAllKeeps
<1>3. CASE SetLen
  BY <1>3, SetLenKeeps
<1>4. CASE Stop
  BY <1>4, StopKeeps
<1>5. CASE UNCHANGED vars
  BY <1>5 DEF vars, ModifyInv, DataUntouched, CallOK
<1> QED BY <1>1, <1>2, <1>3, <1>4, <1>5 DEF Next

----------------------------------------------------------------------------
(* The theorem.                                                            *)

\* modify_archive_file never touches a member: not by a call that is stopped
\* between any two writes, nor by the calls upon the torn tails this leaves.  That
\* no member or name holds a record of its own is assumed (PlainAssumption).
THEOREM MembersAreNeverTouched == Spec => []DataUntouched
<1>1. Init => ModifyInv
  BY InitInv
<1>2. ModifyInv /\ [Next]_vars => ModifyInv'
  BY NextInv
<1>3. ModifyInv => DataUntouched
  BY DEF ModifyInv
<1> QED BY <1>1, <1>2, <1>3, PTL DEF Spec

----------------------------------------------------------------------------
(* The loops of the code do what was asked for.                            *)

\* The greatest of some numbers up to n.
LEMMA GreatestIs ==
  ASSUME NEW n \in Nat, NEW S, S \subseteq 0..n, NEW k \in S, \A j \in S : j =< k
  PROVE  Max(S) = k
<1>1. Max(S) \in S
  BY GreatestElement
<1>2. \A j \in S : Max(S) >= j
  BY GreatestElement
<1> DEFINE m == Max(S)
<1>3. m \in 0..n /\ k \in 0..n
  BY <1>1
<1>4. m >= k /\ m =< k
  BY <1>1, <1>2
<1> HIDE DEF m
<1>5. m = k
  BY ONLY <1>3, <1>4, n \in Nat
<1> QED BY <1>5 DEF m

\* The first n of the renames that are about entry i, and the name they leave.
About(renames, n, i) == {j \in 1..n : renames[j].index + 1 = i}
NameLeft(entries, renames, n, i) ==
  IF About(renames, n, i) = {} THEN entries[i].name
  ELSE renames[Max(About(renames, n, i))].name
EntryLeft(entries, renames, n, i) ==
  [entries[i] EXCEPT !.name = NameLeft(entries, renames, n, i)]

LEMMA RenameOne ==
  ASSUME NEW renames, NEW n \in Nat, n # 0, NEW entries, NEW i
  PROVE  NameLeft(entries, renames, n, i) =
           IF renames[n].index + 1 = i THEN renames[n].name
           ELSE NameLeft(entries, renames, n - 1, i)
<1> DEFINE S == About(renames, n, i)
           R == About(renames, n - 1, i)
<1>1. n \in 1..n /\ \A j \in 1..n : j = n \/ j \in 1..(n - 1)
  OBVIOUS
<1>2. CASE renames[n].index + 1 = i
  <2>1. n \in S /\ S \subseteq 0..n /\ \A j \in S : j =< n
    BY <1>1, <1>2 DEF About
  <2> HIDE DEF S
  <2>2. Max(S) = n
    BY <1>1, <2>1, GreatestIs
  <2> QED BY <1>2, <2>1, <2>2 DEF NameLeft, S
<1>3. CASE renames[n].index + 1 # i
  <2>1. S = R
    BY <1>1, <1>3 DEF About
  <2> QED BY <1>3, <2>1 DEF NameLeft
<1> QED BY <1>2, <1>3

LEMMA RenamedIs ==
  ASSUME NEW entries \in Entries, NEW renames \in Seq([index : Nat, name : Names])
  PROVE  Renamed(entries, renames) =
           [i \in 1..Len(entries) |-> EntryLeft(entries, renames, Len(renames), i)]
<1> DEFINE n == Len(renames)
           len == Len(entries)
           f == CHOOSE g : IsRenaming(entries, renames, g)
           Left(k) == [i \in 1..len |-> EntryLeft(entries, renames, k, i)]
           S == {k \in 0..n : f[k] = Left(k)}
<1>1. n \in Nat /\ len \in Nat /\ DOMAIN entries = 1..len
  BY LenProperties, EntriesAre
<1>2. Renamed(entries, renames) = f[n]
  BY DEF Renamed, IsRenaming, RenameStep
<1>3. IsRenaming(entries, renames, f)
  BY RenamingExists
<1> HIDE DEF f
<1>4. f[0] = entries /\ \A k \in 1..n : f[k] = RenameStep(renames, k, f[k - 1])
  <2> HIDE DEF Left, S, len
  <2>1. f = [j \in 0..n |-> IF j = 0 THEN entries ELSE RenameStep(renames, j, f[j - 1])]
    BY <1>3 DEF IsRenaming
  <2> HIDE DEF n
  <2>2. 0 \in 0..n /\ \A k \in 1..n : k \in 0..n /\ k # 0
    BY <1>1
  <2>3. \A k \in 0..n : f[k] = IF k = 0 THEN entries ELSE RenameStep(renames, k, f[k - 1])
    BY ONLY <2>1
  <2> QED BY ONLY <2>2, <2>3
<1>5. 0 \in S
  <2>1. \A i \in 1..len : EntryLeft(entries, renames, 0, i) = entries[i]
    <3> TAKE i \in 1..len
    <3>1. About(renames, 0, i) = {}
      BY DEF About
    <3>2. entries[i] \in [at : Nat, name : Text]
      BY EntriesAre
    <3> QED BY <3>1, <3>2 DEF EntryLeft, NameLeft
  <2>2. entries = [i \in 1..len |-> entries[i]]
    BY <1>1, LenProperties DEF Entries
  <2>3. Left(0) = entries
    BY <2>1, <2>2
  <2> QED BY <1>1, <1>4, <2>3
<1>6. ASSUME NEW k \in 1..n, k - 1 \in S PROVE k \in S
  <2> DEFINE r == renames[k]
             before == Left(k - 1)
  <2>1. f[k] = RenameStep(renames, k, before)
    BY <1>4, <1>6
  <2>2. r.index \in Nat
    <3> DEFINE Pair == [index : Nat, name : Names]
    <3>1. renames \in Seq(Pair)
      OBVIOUS
    <3> HIDE DEF Pair
    <3>2. renames[k] \in Pair
      BY <3>1, ElementOfSeq
    <3> QED BY <3>2 DEF Pair
  <2>3. Len(before) = len /\ DOMAIN before = 1..len
    <3>1. before = [i \in 1..len |-> before[i]]
      OBVIOUS
    <3> HIDE DEF before
    <3> QED BY <1>1, <3>1
  <2>4. \A i \in 1..len : EntryLeft(entries, renames, k, i) =
          IF i = r.index + 1 THEN [before[i] EXCEPT !.name = r.name] ELSE before[i]
    <3> TAKE i \in 1..len
    <3>1. entries[i] \in [at : Nat, name : Text]
      BY EntriesAre
    <3>2. before[i] = [entries[i] EXCEPT !.name = NameLeft(entries, renames, k - 1, i)]
      BY DEF EntryLeft
    <3>3. NameLeft(entries, renames, k, i) =
            IF r.index + 1 = i THEN r.name ELSE NameLeft(entries, renames, k - 1, i)
      <4> HIDE DEF before, S
      <4>1. k \in Nat /\ k # 0
        BY <1>1
      <4> QED BY ONLY <4>1, RenameOne
    <3> HIDE DEF before
    <3> QED BY <3>1, <3>2, <3>3 DEF EntryLeft
  <2>5. CASE r.index < len
    <3>1. r.index + 1 \in 1..len
      BY <1>1, <2>2, <2>5
    <3>2. RenameStep(renames, k, before) = [before EXCEPT ![r.index + 1].name = r.name]
      BY <2>3, <2>5 DEF RenameStep
    <3> HIDE DEF before
    <3>3. [before EXCEPT ![r.index + 1].name = r.name] =
            [i \in 1..len |-> IF i = r.index + 1 THEN [before[i] EXCEPT !.name = r.name]
                              ELSE before[i]]
      BY <2>3, <3>1
    <3>4. f[k] = Left(k)
      BY <2>1, <2>4, <3>2, <3>3
    <3> QED BY <3>4, <1>1
  <2>6. CASE ~(r.index < len)
    <3>1. \A i \in 1..len : i # r.index + 1
      BY <1>1, <2>2, <2>6
    <3>2. RenameStep(renames, k, before) = before
      BY <2>3, <2>6 DEF RenameStep
    <3>3. Left(k) = before
      BY <2>4, <3>1
    <3>4. f[k] = Left(k)
      <4> HIDE DEF before, Left
      <4> QED BY <2>1, <3>2, <3>3
    <3> QED BY <3>4, <1>1
  <2> QED BY <2>5, <2>6
<1>7. \A k \in 0..n : k \in S
  <2> HIDE DEF S
  <2> QED BY <1>1, <1>5, <1>6, Induct
<1>8. n \in S
  BY <1>1, <1>7
<1> QED BY <1>2, <1>8

\* D lists the members of K, which are numbers up to len, in their order.
InOrder(D, K, len) ==
  /\ D \in Seq(1..len)
  /\ \A j, k \in 1..Len(D) : j < k => D[j] < D[k]
  /\ \A i \in 1..len : i \in K <=> \E k \in 1..Len(D) : D[k] = i

\* A list without its element p.
Without(D, p) == [k \in 1..(Len(D) - 1) |-> IF k < p THEN D[k] ELSE D[k + 1]]

LEMMA WithoutIs ==
  ASSUME NEW X, NEW D \in Seq(X), NEW p \in 1..Len(D)
  PROVE  /\ RemoveAt(D, p) = Without(D, p)
         /\ Without(D, p) \in Seq(X)
         /\ Len(Without(D, p)) = Len(D) - 1
<1> DEFINE n == Len(D)
           E == Without(D, p)
           before == SubSeq(D, 1, p - 1)
           behind == SubSeq(D, p + 1, n)
<1>1. n \in Nat /\ p \in Nat /\ p # 0 /\ p =< n /\ n - 1 \in Nat /\ \A k \in 1..n : D[k] \in X
  BY LenProperties, ElementOfSeq
<1>2. E = [k \in 1..(n - 1) |-> IF k < p THEN D[k] ELSE D[k + 1]]
  BY DEF Without
<1>3. \A k \in 1..(n - 1) : k \in 1..n /\ k + 1 \in 1..n
  BY <1>1
<1>4. E \in [1..(n - 1) -> X]
  <2> HIDE DEF n, E
  <2> QED BY <1>1, <1>2, <1>3
<1>5. E \in Seq(X) /\ Len(E) = n - 1
  <2> HIDE DEF n, E
  <2>1. E \in Seq(X)
    BY <1>1, <1>4, SeqDef
  <2>2. DOMAIN E = 1..(n - 1)
    BY <1>4
  <2> QED BY <1>1, <2>1, <2>2, LenProperties
<1>6. /\ before \in Seq(X) /\ Len(before) = p - 1
      /\ \A k \in 1..(p - 1) : before[k] = D[k]
  <2> DEFINE m == p - 1
  <2>1. m \in Int /\ 1 \in Int /\ m \in Nat /\ \A k \in 1..m : D[k] \in X
    BY <1>1
  <2> HIDE DEF m, n
  <2>2. /\ SubSeq(D, 1, m) \in Seq(X)
        /\ Len(SubSeq(D, 1, m)) = IF 1 =< m THEN m - 1 + 1 ELSE 0
        /\ \A k \in 1..(m - 1 + 1) : SubSeq(D, 1, m)[k] = D[1 + k - 1]
    BY <2>1, SubSeqProperties
  <2>3. \A k \in 1..m : 1 + k - 1 = k
    BY <2>1
  <2>4. m - 1 + 1 = m /\ (~(1 =< m) => m = 0)
    BY <2>1
  <2> QED BY <2>2, <2>3, <2>4 DEF m
<1>7. /\ behind \in Seq(X) /\ Len(behind) = n - p
      /\ \A k \in 1..(n - p) : behind[k] = D[p + k]
  <2> DEFINE m == p + 1
  <2>1. m \in Int /\ n \in Int /\ m \in Nat /\ m > 0 /\ \A k \in m..n : D[k] \in X
    BY <1>1
  <2> HIDE DEF m, n
  <2>2. /\ SubSeq(D, m, n) \in Seq(X)
        /\ Len(SubSeq(D, m, n)) = IF m =< n THEN n - m + 1 ELSE 0
        /\ \A k \in 1..(n - m + 1) : SubSeq(D, m, n)[k] = D[m + k - 1]
    BY <2>1, SubSeqProperties
  <2>3. n - m + 1 = n - p /\ (~(m =< n) => n - p = 0) /\ \A k \in 1..(n - p) : m + k - 1 = p + k
    BY <1>1 DEF m
  <2> QED BY <2>2, <2>3 DEF m
<1>8. RemoveAt(D, p) = before \o behind
  BY DEF RemoveAt
<1> HIDE DEF before, behind, n, E
<1>9. /\ before \o behind \in Seq(X) /\ Len(before \o behind) = p - 1 + (n - p)
      /\ \A i \in 1..(Len(before) + Len(behind)) :
           (before \o behind)[i] = IF i =< Len(before) THEN before[i] ELSE behind[i - Len(before)]
  BY <1>6, <1>7, ConcatProperties
<1>10. p - 1 + (n - p) = n - 1
  BY <1>1
<1>11. \A i \in 1..(n - 1) : (before \o behind)[i] = E[i]
  <2> TAKE i \in 1..(n - 1)
  <2>1. (before \o behind)[i] = IF i =< p - 1 THEN before[i] ELSE behind[i - (p - 1)]
    BY <1>6, <1>7, <1>9, <1>10
  <2>2. E[i] = IF i < p THEN D[i] ELSE D[i + 1]
    BY <1>2
  <2>3. CASE i < p
    <3>1. i \in 1..(p - 1) /\ i =< p - 1
      BY <1>1, <2>3
    <3> QED BY <1>6, <2>1, <2>2, <2>3, <3>1
  <2>4. CASE ~(i < p)
    <3>1. i - (p - 1) \in 1..(n - p) /\ ~(i =< p - 1) /\ p + (i - (p - 1)) = i + 1
      BY <1>1, <2>4
    <3> QED BY <1>7, <2>1, <2>2, <2>4, <3>1
  <2> QED BY <2>3, <2>4
<1>12. before \o behind = E
  <2> DEFINE both == before \o behind
  <2>1. both \in Seq(X) /\ Len(both) = n - 1 /\ \A i \in 1..(n - 1) : both[i] = E[i]
    BY <1>9, <1>10, <1>11
  <2> HIDE DEF both
  <2>2. both = E
    BY <1>1, <1>5, <2>1, SeqEqual
  <2> QED BY <2>2 DEF both
<1> QED BY <1>5, <1>8, <1>12 DEF E, n

\* What is left of entry numbers when those from n on are gone through.
Kept(deletes, n, len) == {i \in 1..len : i =< n \/ i - 1 \notin deletes}

LEMMA WithoutInOrder ==
  ASSUME NEW len \in Nat, NEW K, NEW J, NEW D, InOrder(D, K, len), NEW p \in 1..Len(D),
         \A i \in 1..len : i \in J <=> i \in K /\ i # D[p]
  PROVE  InOrder(Without(D, p), J, len)
<1> DEFINE X == 1..len
           n == Len(D)
           E == Without(D, p)
<1>1. D \in Seq(X) /\ \A j, k \in 1..n : j < k => D[j] < D[k]
  BY DEF InOrder
<1>2. \A i \in X : i \in K <=> \E k \in 1..n : D[k] = i
  BY DEF InOrder
<1>3. n \in Nat /\ p \in 1..n /\ \A k \in 1..n : D[k] \in X
  <2> HIDE DEF X
  <2> QED BY <1>1, LenProperties, ElementOfSeq
<1>4. E \in Seq(X) /\ Len(E) = n - 1
  <2> HIDE DEF X
  <2> QED BY <1>1, WithoutIs
<1>5. \A k \in 1..(n - 1) : E[k] = IF k < p THEN D[k] ELSE D[k + 1]
  BY DEF Without
<1> HIDE DEF E, n
<1>6. \A j, k \in 1..(n - 1) : j < k => E[j] < E[k]
  <2> SUFFICES ASSUME NEW j \in 1..(n - 1), NEW k \in 1..(n - 1), j < k PROVE E[j] < E[k]
    OBVIOUS
  <2>1. j \in 1..n /\ k \in 1..n /\ j + 1 \in 1..n /\ k + 1 \in 1..n
    BY <1>3
  <2>2. j < k + 1 /\ j + 1 < k + 1 /\ (k < p => j < p)
    BY <1>3
  <2> QED BY <1>1, <1>5, <2>1, <2>2
<1>7. ASSUME NEW i \in X PROVE i \in J <=> \E k \in 1..(n - 1) : E[k] = i
  <2>1. ASSUME i \in J PROVE \E k \in 1..(n - 1) : E[k] = i
    <3>1. PICK m \in 1..n : D[m] = i
      BY <1>2, <2>1
    <3>2. m # p
      BY <2>1, <3>1
    <3>3. CASE m < p
      <4>1. m \in 1..(n - 1)
        BY <1>3, <3>3
      <4> QED BY <1>5, <3>1, <3>3, <4>1
    <3>4. CASE m > p
      <4>1. m - 1 \in 1..(n - 1) /\ ~(m - 1 < p) /\ m - 1 + 1 = m
        BY <1>3, <3>4
      <4>2. E[m - 1] = D[m - 1 + 1]
        BY <1>5, <4>1
      <4> QED BY <3>1, <4>1, <4>2
    <3> QED BY <1>3, <3>2, <3>3, <3>4
  <2>2. ASSUME NEW k \in 1..(n - 1), E[k] = i PROVE i \in J
    <3>1. PICK m \in 1..n : m # p /\ D[m] = i
      <4>1. CASE k < p
        <5>1. k \in 1..n /\ k # p
          BY <1>3, <4>1
        <5>2. D[k] = i
          BY <1>5, <2>2, <4>1
        <5> QED BY <5>1, <5>2
      <4>2. CASE ~(k < p)
        <5>1. k + 1 \in 1..n /\ k + 1 # p
          BY <1>3, <4>2
        <5>2. D[k + 1] = i
          BY <1>5, <2>2, <4>2
        <5> QED BY <5>1, <5>2
      <4> QED BY <4>1, <4>2
    <3>2. D[m] # D[p]
      <4>1. m < p \/ p < m
        BY <1>3, <3>1
      <4>2. D[m] < D[p] \/ D[p] < D[m]
        BY <1>1, <1>3, <4>1
      <4>3. D[m] \in Nat /\ D[p] \in Nat
        BY <1>3
      <4> QED BY <4>2, <4>3
    <3> QED BY <1>2, <3>1, <3>2
  <2> QED BY <2>1, <2>2
<1> QED BY <1>4, <1>6, <1>7 DEF InOrder, E

\* The k-th in order is the one that has k up to it.
LEMMA RankIs ==
  ASSUME NEW len \in Nat, NEW K, K \subseteq 1..len, NEW D, InOrder(D, K, len)
  PROVE  /\ Cardinality(K) = Len(D)
         /\ \A k \in 1..Len(D) : D[k] \in K /\ Cardinality({h \in K : h =< D[k]}) = k
<1> DEFINE X == 1..len
           n == Len(D)
           first(k) == {D[j] : j \in 1..k}
           S == {k \in 0..n : IsFiniteSet(first(k)) /\ Cardinality(first(k)) = k}
<1>1. D \in Seq(X) /\ \A j, k \in 1..n : j < k => D[j] < D[k]
  BY DEF InOrder
<1>2. \A i \in X : i \in K <=> \E k \in 1..n : D[k] = i
  BY DEF InOrder
<1>3. n \in Nat /\ \A k \in 1..n : D[k] \in X /\ D[k] \in Nat
  <2>1. n \in Nat /\ \A k \in 1..n : D[k] \in X
    <3> HIDE DEF X
    <3> QED BY <1>1, LenProperties, ElementOfSeq
  <2> QED BY <2>1
<1> HIDE DEF n
<1>4. 0 \in S
  <2>1. first(0) = {}
    OBVIOUS
  <2> QED BY <1>3, <2>1, FS_EmptySet
<1>5. ASSUME NEW k \in 1..n, k - 1 \in S PROVE k \in S
  <2> DEFINE F == first(k - 1)
             d == D[k]
  <2>1. IsFiniteSet(F) /\ Cardinality(F) = k - 1
    BY <1>5
  <2>2. d \notin F
    <3>1. \A j \in 1..(k - 1) : D[j] < D[k] /\ D[j] \in Nat /\ D[k] \in Nat
      BY <1>1, <1>3
    <3>2. \A j \in 1..(k - 1) : D[j] # D[k]
      BY <3>1
    <3> QED BY <3>2
  <2>3. first(k) = F \cup {d}
    <3>1. \A j \in 1..k : j = k \/ j \in 1..(k - 1)
      BY <1>3
    <3>2. k \in 1..k /\ \A j \in 1..(k - 1) : j \in 1..k
      BY <1>3
    <3> QED BY <3>1, <3>2
  <2> HIDE DEF F, d
  <2>4. IsFiniteSet(F \cup {d}) /\ Cardinality(F \cup {d}) = Cardinality(F) + 1
    BY ONLY <2>1, <2>2, FS_AddElement
  <2>5. k - 1 + 1 = k /\ k \in 0..n
    BY <1>3
  <2>6. IsFiniteSet(first(k)) /\ Cardinality(first(k)) = k
    BY <2>1, <2>3, <2>4, <2>5
  <2> QED BY <2>5, <2>6
<1>6. \A k \in 0..n : k \in S
  <2> HIDE DEF S
  <2> QED BY <1>3, <1>4, <1>5, Induct
<1>7. \A k \in 0..n : Cardinality(first(k)) = k
  BY <1>6
<1>8. K = first(n)
  BY <1>2, <1>3
<1>9. ASSUME NEW k \in 1..n PROVE D[k] \in K /\ Cardinality({h \in K : h =< D[k]}) = k
  <2>1. {h \in K : h =< D[k]} = first(k)
    <3>1. ASSUME NEW h \in K, h =< D[k] PROVE h \in first(k)
      <4>1. PICK j \in 1..n : D[j] = h
        BY <1>2
      <4>2. ~(k < j)
        <5>1. k < j => D[k] < D[j]
          BY <1>1
        <5>2. D[k] \in Nat /\ D[j] \in Nat
          BY <1>3
        <5> QED BY <3>1, <4>1, <5>1, <5>2
      <4>3. j \in 1..k
        BY <1>3, <4>2
      <4> QED BY <4>1, <4>3
    <3>2. ASSUME NEW j \in 1..k PROVE D[j] \in K /\ D[j] =< D[k]
      <4>1. j \in 1..n /\ (j = k \/ j < k)
        BY <1>3
      <4>2. D[j] \in X /\ D[j] \in Nat /\ D[k] \in Nat
        BY <1>3, <4>1
      <4>3. j < k => D[j] < D[k]
        BY <1>1, <4>1
      <4>4. D[j] =< D[k]
        BY <4>1, <4>2, <4>3
      <4> QED BY <1>2, <4>1, <4>2, <4>4
    <3> QED BY <3>1, <3>2
  <2>2. D[k] \in K
    BY <1>2, <1>3
  <2>3. k \in 0..n
    BY <1>3
  <2> QED BY <1>7, <2>1, <2>2, <2>3
<1>10. n \in 0..n
  BY <1>3
<1> QED BY <1>7, <1>8, <1>9, <1>10 DEF n

Picked(es, D) == [k \in 1..Len(D) |-> es[D[k]]]

LEMMA PickedIs ==
  ASSUME NEW X, NEW es \in Seq(X), NEW D \in Seq(1..Len(es))
  PROVE  Picked(es, D) \in Seq(X) /\ Len(Picked(es, D)) = Len(D)
<1> DEFINE E == Picked(es, D)
           n == Len(D)
           len == Len(es)
<1>1. n \in Nat /\ len \in Nat /\ \A i \in 1..len : es[i] \in X
  BY LenProperties, ElementOfSeq
<1>2. \A k \in 1..n : D[k] \in 1..len
  BY ElementOfSeq
<1>3. E = [k \in 1..n |-> es[D[k]]]
  BY DEF Picked
<1> HIDE DEF E, n, len
<1>4. E \in [1..n -> X]
  BY <1>1, <1>2, <1>3
<1>5. E \in Seq(X) /\ DOMAIN E = 1..n
  BY <1>1, <1>4, SeqDef
<1>6. Len(E) = n
  BY <1>1, <1>5, LenProperties
<1> QED BY <1>5, <1>6 DEF E, n

LEMMA RemovePicked ==
  ASSUME NEW X, NEW es \in Seq(X), NEW D \in Seq(1..Len(es)), NEW d \in Nat, d < Len(D)
  PROVE  RemoveIndex(Picked(es, D), d) = Picked(es, Without(D, d + 1))
<1> DEFINE P == Picked(es, D)
           W == Without(D, d + 1)
           n == Len(D)
           p == d + 1
           Y == 1..Len(es)
<1>1. P \in Seq(X) /\ Len(P) = n /\ n \in Nat
  BY PickedIs, LenProperties
<1>2. p \in 1..n
  BY <1>1
<1>3. P = [k \in 1..n |-> es[D[k]]]
  BY DEF Picked
<1>4. RemoveIndex(P, d) = RemoveAt(P, p)
  BY <1>1 DEF RemoveIndex
<1>5. D \in Seq(Y)
  OBVIOUS
<1>6. W = [k \in 1..(n - 1) |-> IF k < p THEN D[k] ELSE D[k + 1]]
  BY DEF Without
<1>7. Without(D, p) = W
  OBVIOUS
<1> HIDE DEF P, W, p, Y
<1>8. RemoveAt(P, p) = Without(P, p)
  <2>1. p \in 1..Len(P)
    BY <1>1, <1>2
  <2> QED BY ONLY <1>1, <2>1, WithoutIs
<1>9. Len(W) = n - 1
  <2>1. Len(Without(D, p)) = Len(D) - 1
    BY ONLY <1>2, <1>5, WithoutIs DEF n
  <2> QED BY <1>7, <2>1
<1>10. Without(P, p) = [k \in 1..(n - 1) |-> IF k < p THEN P[k] ELSE P[k + 1]]
  BY <1>1 DEF Without
<1>11. Picked(es, W) = [k \in 1..(n - 1) |-> es[W[k]]]
  BY <1>9 DEF Picked
<1>12. ASSUME NEW k \in 1..(n - 1)
       PROVE  es[W[k]] = IF k < p THEN P[k] ELSE P[k + 1]
  <2>1. k \in 1..n /\ k + 1 \in 1..n
    BY <1>1
  <2>2. W[k] = IF k < p THEN D[k] ELSE D[k + 1]
    BY <1>6
  <2>3. P[k] = es[D[k]] /\ P[k + 1] = es[D[k + 1]]
    BY <1>3, <2>1
  <2> QED BY <2>2, <2>3
<1>13. Without(P, p) = Picked(es, W)
  <2> HIDE DEF n
  <2> QED BY ONLY <1>10, <1>11, <1>12
<1> QED BY <1>4, <1>8, <1>13 DEF P, W

LEMMA RemainingIs ==
  ASSUME NEW es \in Entries, NEW deletes
  PROVE  \E D : InOrder(D, Kept(deletes, 0, Len(es)), Len(es)) /\ Remaining(es, deletes) = Picked(es, D)
<1> DEFINE L == Len(es)
           X == [at : Nat, name : Text]
           f == CHOOSE g : IsRemoving(es, deletes, g)
           Keeps(n, D) == /\ InOrder(D, Kept(deletes, L - n, L), L)
                          /\ f[n] = Picked(es, D)
                          /\ \A k \in 1..(L - n) : k \in 1..Len(D) /\ D[k] = k
           T == {n \in 0..L : \E D : Keeps(n, D)}
<1>1. L \in Nat /\ es \in Seq(X)
  BY EntriesAre DEF Entries
<1>2. Remaining(es, deletes) = f[L]
  BY DEF Remaining, IsRemoving, RemoveStep
<1>3. IsRemoving(es, deletes, f)
  BY RemovingExists
<1> HIDE DEF f, X
<1>4. f[0] = es /\ \A k \in 1..L : f[k] = RemoveStep(es, deletes, k, f[k - 1])
  <2>1. f = [n \in 0..L |-> IF n = 0 THEN es ELSE RemoveStep(es, deletes, n, f[n - 1])]
    BY <1>3 DEF IsRemoving
  <2> HIDE DEF L
  <2>2. 0 \in 0..L /\ \A k \in 1..L : k \in 0..L /\ k # 0
    BY <1>1
  <2>3. \A n \in 0..L : f[n] = IF n = 0 THEN es ELSE RemoveStep(es, deletes, n, f[n - 1])
    BY ONLY <2>1
  <2> QED BY ONLY <2>2, <2>3
<1>5. 0 \in T
  <2> DEFINE D == [k \in 1..L |-> k]
  <2>1. D \in Seq(1..L) /\ Len(D) = L /\ \A k \in 1..L : D[k] = k
    <3>1. D \in [1..L -> 1..L]
      OBVIOUS
    <3>2. \A k \in 1..L : D[k] = k
      OBVIOUS
    <3> HIDE DEF D, L
    <3>3. D \in Seq(1..L) /\ DOMAIN D = 1..L
      BY <1>1, <3>1, SeqDef
    <3> QED BY <1>1, <3>2, <3>3, LenProperties
  <2> HIDE DEF D
  <2>2. Picked(es, D) = es
    <3>1. Picked(es, D) = [k \in 1..L |-> es[k]]
      BY <2>1 DEF Picked
    <3>2. es = [k \in 1..L |-> es[k]]
      BY <1>1, LenProperties
    <3> QED BY <3>1, <3>2
  <2>3. InOrder(D, Kept(deletes, L - 0, L), L)
    <3>1. Kept(deletes, L - 0, L) = 1..L
      BY <1>1 DEF Kept
    <3> HIDE DEF L
    <3> QED BY <2>1, <3>1 DEF InOrder
  <2>4. L - 0 = L /\ 0 \in 0..L
    BY <1>1
  <2>5. Keeps(0, D)
    BY <1>4, <2>1, <2>2, <2>3, <2>4
  <2> QED BY <2>4, <2>5
<1>6. ASSUME NEW n \in 1..L, n - 1 \in T PROVE n \in T
  <2>1. PICK D : Keeps(n - 1, D)
    BY <1>6
  <2> DEFINE q == L - n
             p == q + 1
             K == Kept(deletes, p, L)
             J == Kept(deletes, q, L)
  <2>2. q \in Nat /\ p \in 1..L /\ L - (n - 1) = p /\ n \in 0..L
    BY <1>1
  <2>3. InOrder(D, K, L) /\ f[n - 1] = Picked(es, D) /\ \A k \in 1..p : k \in 1..Len(D) /\ D[k] = k
    BY <2>1, <2>2
  <2>4. f[n] = IF q \in deletes THEN RemoveIndex(Picked(es, D), q) ELSE Picked(es, D)
    BY <1>4, <2>3 DEF RemoveStep
  <2>5. D \in Seq(1..L) /\ Len(D) \in Nat
    <3>1. D \in Seq(1..L)
      BY <2>3 DEF InOrder
    <3> QED BY <3>1, LenProperties
  <2>6. p \in 1..Len(D) /\ D[p] = p
    <3>1. p \in 1..p
      BY <2>2
    <3> HIDE DEF p
    <3> QED BY <2>3, <3>1
  <2>7. CASE q \in deletes
    <3> DEFINE E == Without(D, p)
    <3>1. \A i \in 1..L : i \in J <=> i \in K /\ i # D[p]
      <4>1. \A i \in 1..L : i =< p <=> i =< q \/ i = p
        BY <2>2
      <4>2. p - 1 = q
        BY <2>2
      <4>3. \A i \in 1..L : i = p => ~(i =< q)
        BY <2>2
      <4> HIDE DEF p, q
      <4> QED BY <2>6, <2>7, <4>1, <4>2, <4>3 DEF Kept
    <3>2. InOrder(E, J, L)
      <4> HIDE DEF p, K, J, L
      <4> QED BY ONLY <1>1, <2>3, <2>6, <3>1, WithoutInOrder
    <3>3. f[n] = Picked(es, E)
      <4>1. q < Len(D)
        BY <2>2, <2>5, <2>6
      <4> HIDE DEF q
      <4>2. RemoveIndex(Picked(es, D), q) = Picked(es, Without(D, q + 1))
        BY ONLY <1>1, <2>2, <2>5, <4>1, RemovePicked DEF L
      <4> QED BY <2>4, <2>7, <4>2
    <3>4. ASSUME NEW k \in 1..q PROVE k \in 1..Len(E) /\ E[k] = k
      <4>1. k \in 1..p /\ k < p /\ k \in 1..(Len(D) - 1)
        BY <2>2, <2>5, <2>6
      <4>2. Len(E) = Len(D) - 1
        <5> DEFINE Y == 1..L
        <5>1. D \in Seq(Y)
          BY <2>5
        <5> HIDE DEF Y, p
        <5> QED BY ONLY <2>6, <5>1, WithoutIs
      <4>3. E[k] = D[k]
        BY <4>1 DEF Without
      <4> HIDE DEF E, p
      <4> QED BY <2>3, <4>1, <4>2, <4>3
    <3> HIDE DEF E
    <3>5. Keeps(n, E)
      BY <3>2, <3>3, <3>4
    <3> QED BY <2>2, <3>5
  <2>8. CASE q \notin deletes
    <3>1. J = K
      <4>1. \A i \in 1..L : i =< p <=> i =< q \/ i = p
        BY <2>2
      <4>2. p - 1 = q
        BY <2>2
      <4> HIDE DEF p, q
      <4> QED BY <2>8, <4>1, <4>2 DEF Kept
    <3>2. \A k \in 1..q : k \in 1..p
      BY <2>2
    <3> HIDE DEF p, K
    <3>3. Keeps(n, D)
      BY <2>3, <2>4, <2>8, <3>1, <3>2
    <3> QED BY <2>2, <3>3
  <2> QED BY <2>7, <2>8
<1>7. \A n \in 0..L : n \in T
  <2> HIDE DEF T
  <2> QED BY <1>1, <1>5, <1>6, Induct
<1>8. L \in 0..L /\ L - L = 0
  BY <1>1
<1>9. PICK D : Keeps(L, D)
  BY <1>7, <1>8
<1> QED BY <1>2, <1>8, <1>9

\* Renames in turn and then removals from the highest index on leave what was
\* asked for.
LEMMA EditedIsAsked ==
  ASSUME NEW entries \in Entries, NEW renames \in Renames, NEW deletes
  PROVE  Edited(entries, renames, deletes) = Asked(entries, renames, deletes)
<1> DEFINE L == Len(entries)
           n == Len(renames)
           es == Renamed(entries, renames)
           K == Kept(deletes, 0, L)
           of(i) == {j \in DOMAIN renames : renames[j].index + 1 = i}
           name(i) == IF of(i) = {} THEN entries[i].name ELSE renames[Max(of(i))].name
           kept == {i \in DOMAIN entries : i - 1 \notin deletes}
           pick(k) == CHOOSE j \in kept : Cardinality({h \in kept : h =< j}) = k
<1>1. L \in Nat /\ DOMAIN entries = 1..L
  BY EntriesAre
<1>2. renames \in Seq([index : Nat, name : Names])
  BY PlainAssumption
<1>3. n \in Nat /\ DOMAIN renames = 1..n
  BY <1>2, LenProperties
<1>4. es \in Entries /\ es = [i \in 1..L |-> EntryLeft(entries, renames, n, i)]
  BY <1>2, RenamedIs, RenamedEntries
<1>5. Asked(entries, renames, deletes) =
        [k \in 1..Cardinality(kept) |-> [entries[pick(k)] EXCEPT !.name = name(pick(k))]]
  BY DEF Asked
<1>6. kept = K
  <2>1. \A i \in 1..L : ~(i =< 0)
    BY <1>1
  <2> QED BY <1>1, <2>1 DEF Kept
<1>7. \A i : [entries[i] EXCEPT !.name = name(i)] = EntryLeft(entries, renames, n, i)
  <2>1. \A i : of(i) = About(renames, n, i)
    BY <1>3 DEF About
  <2> HIDE DEF of
  <2> QED BY <2>1 DEF EntryLeft, NameLeft
<1> HIDE DEF es
<1>8. Len(es) = L
  <2>1. \A k \in 1..L : TRUE
    OBVIOUS
  <2>2. DOMAIN es = 1..L
    BY <1>4
  <2>3. Len(es) \in Nat /\ DOMAIN es = 1..Len(es)
    BY <1>4, EntriesAre
  <2> HIDE DEF L
  <2> QED BY <1>1, <2>2, <2>3
<1>9. PICK D : InOrder(D, K, L) /\ Remaining(es, deletes) = Picked(es, D)
  BY <1>4, <1>8, RemainingIs
<1>10. K \subseteq 1..L
  BY DEF Kept
<1> HIDE DEF K, kept, name, L
<1>11. Cardinality(K) = Len(D) /\ \A k \in 1..Len(D) : D[k] \in K /\ Cardinality({h \in K : h =< D[k]}) = k
  BY <1>1, <1>9, <1>10, RankIs
<1>12. ASSUME NEW k \in 1..Len(D) PROVE pick(k) = D[k]
  <2>1. \E j \in K : Cardinality({h \in K : h =< j}) = k
    BY <1>11
  <2>2. pick(k) \in K /\ Cardinality({h \in K : h =< pick(k)}) = k
    BY <1>6, <2>1
  <2> HIDE DEF pick
  <2>3. PICK m \in 1..Len(D) : D[m] = pick(k)
    BY <1>9, <1>10, <2>2 DEF InOrder
  <2>4. m = k
    BY <1>11, <2>2, <2>3
  <2> QED BY <2>3, <2>4
<1>13. \A k \in 1..Len(D) : D[k] \in 1..L
  BY <1>10, <1>11
<1>14. Picked(es, D) = [k \in 1..Len(D) |-> EntryLeft(entries, renames, n, D[k])]
  <2>1. \A k \in 1..Len(D) : es[D[k]] = EntryLeft(entries, renames, n, D[k])
    BY <1>4, <1>13
  <2> QED BY <2>1 DEF Picked
<1> HIDE DEF pick
<1>15. Asked(entries, renames, deletes) = [k \in 1..Len(D) |-> EntryLeft(entries, renames, n, D[k])]
  <2>1. Asked(entries, renames, deletes) =
          [k \in 1..Cardinality(K) |-> EntryLeft(entries, renames, n, pick(k))]
    BY <1>5, <1>6, <1>7
  <2> QED BY <1>11, <1>12, <2>1
<1>16. Edited(entries, renames, deletes) = Remaining(es, deletes)
  BY DEF Edited, es
<1> QED BY <1>9, <1>14, <1>15, <1>16

----------------------------------------------------------------------------
(* A directory that was written is parsed.                                 *)

\* The record of e behind the first p cells of s.
RecordAt(s, p, e) ==
  /\ p + 1 + Len(e.name) =< Len(s)
  /\ s[p + 1] = FixedPart(e)
  /\ \A j \in 1..Len(e.name) : s[p + 1 + j] = e.name[j]

LEMMA ConcatAt ==
  ASSUME NEW X, NEW s \in Seq(X), NEW t \in Seq(X)
  PROVE  /\ s \o t \in Seq(X) /\ Len(s \o t) = Len(s) + Len(t)
         /\ \A i \in 1..Len(s) : (s \o t)[i] = s[i]
         /\ \A j \in 1..Len(t) : (s \o t)[Len(s) + j] = t[j]
<1> DEFINE m == Len(s)
           n == Len(t)
           both == s \o t
<1>1. m \in Nat /\ n \in Nat
  BY LenProperties
<1>2. /\ both \in Seq(X) /\ Len(both) = m + n
      /\ \A i \in 1..(m + n) : both[i] = IF i =< m THEN s[i] ELSE t[i - m]
  BY ConcatProperties
<1> HIDE DEF m, n, both
<1>3. \A i \in 1..m : both[i] = s[i]
  <2>1. \A i \in 1..m : i \in 1..(m + n) /\ i =< m
    BY <1>1
  <2> QED BY <1>2, <2>1
<1>4. \A j \in 1..n : both[m + j] = t[j]
  <2> TAKE j \in 1..n
  <2> DEFINE k == m + j
  <2>1. k \in 1..(m + n) /\ ~(k =< m) /\ k - m = j
    BY <1>1
  <2> HIDE DEF k
  <2>2. both[k] = t[k - m]
    BY <1>2, <2>1
  <2>3. both[k] = t[j]
    BY <2>1, <2>2
  <2> QED BY <2>3 DEF k
<1> QED BY <1>2, <1>3, <1>4 DEF m, n, both

LEMMA TextConcatAt ==
  ASSUME NEW s \in Text, NEW t \in Text
  PROVE  /\ \A i \in 1..Len(s) : (s \o t)[i] = s[i]
         /\ \A j \in 1..Len(t) : (s \o t)[Len(s) + j] = t[j]
<1>1. s \in Seq(Cells) /\ t \in Seq(Cells)
  BY DEF Text
<1> QED BY ONLY <1>1, ConcatAt

LEMMA RecordIs ==
  ASSUME NEW e \in [at : Nat, name : Text]
  PROVE  Record(e) \in Text /\ Len(Record(e)) = 1 + Len(e.name) /\ RecordAt(Record(e), 0, e)
<1> DEFINE one == <<FixedPart(e)>>
           name == e.name
<1>1. e.at \in Nat /\ name \in Text /\ Len(name) \in Nat
  BY TextIs
<1>2. FixedPart(e) \in Cells
  BY <1>1 DEF FixedPart, Heads, Cells
<1>3. one \in Text /\ Len(one) = 1 /\ one[1] = FixedPart(e)
  BY <1>2, OneCell
<1>4. Record(e) = one \o name
  BY DEF Record
<1> HIDE DEF one, name
<1>5. one \o name \in Text /\ Len(one \o name) = 1 + Len(name)
  BY <1>1, <1>3, TextConcat
<1>6. /\ \A i \in 1..1 : (one \o name)[i] = one[i]
      /\ \A j \in 1..Len(name) : (one \o name)[1 + j] = name[j]
  BY <1>1, <1>3, TextConcatAt
<1>7. (one \o name)[1] = FixedPart(e)
  <2>1. 1 \in 1..1
    OBVIOUS
  <2> QED BY <1>3, <1>6, <2>1
<1>8. \A j \in 1..Len(name) : (one \o name)[1 + j] = name[j]
  BY <1>6
<1>9. 0 + 1 = 1 /\ \A j \in 1..Len(name) : 0 + 1 + j = 1 + j
  BY <1>1
<1>10. 0 + 1 + Len(name) =< 1 + Len(name)
  BY <1>1
<1> QED BY <1>4, <1>5, <1>7, <1>8, <1>9, <1>10 DEF RecordAt, name

LEMMA RecordStays ==
  ASSUME NEW s \in Text, NEW t \in Text, NEW p \in Nat, NEW e \in [at : Nat, name : Text],
         RecordAt(s, p, e), Len(s) =< Len(t), \A i \in 1..Len(s) : t[i] = s[i]
  PROVE  RecordAt(t, p, e)
<1>1. Len(e.name) \in Nat /\ Len(s) \in Nat /\ Len(t) \in Nat
  BY TextIs
<1>2. p + 1 + Len(e.name) =< Len(s)
  BY DEF RecordAt
<1>3. p + 1 \in 1..Len(s) /\ \A j \in 1..Len(e.name) : p + 1 + j \in 1..Len(s)
  BY <1>1, <1>2
<1>4. p + 1 + Len(e.name) =< Len(t)
  BY <1>1, <1>2
<1> HIDE DEF Text
<1> QED BY <1>3, <1>4 DEF RecordAt

LEMMA RecordAppended ==
  ASSUME NEW s \in Text, NEW e \in [at : Nat, name : Text]
  PROVE  /\ s \o Record(e) \in Text /\ Len(s \o Record(e)) = Len(s) + 1 + Len(e.name)
         /\ RecordAt(s \o Record(e), Len(s), e)
         /\ \A i \in 1..Len(s) : (s \o Record(e))[i] = s[i]
<1> DEFINE r == Record(e)
           t == s \o r
           m == Len(e.name)
           n == Len(s)
<1>1. r \in Text /\ Len(r) = 1 + m /\ RecordAt(r, 0, e) /\ m \in Nat /\ n \in Nat
  <2>1. e.name \in Text
    OBVIOUS
  <2> QED BY <2>1, RecordIs, TextIs
<1> HIDE DEF r, m, n
<1>2. t \in Text /\ Len(t) = n + (1 + m)
  BY <1>1, TextConcat DEF n
<1>3. (\A i \in 1..n : t[i] = s[i]) /\ \A j \in 1..(1 + m) : t[n + j] = r[j]
  BY <1>1, TextConcatAt DEF n
<1> HIDE DEF t
<1>4. r[1] = FixedPart(e) /\ \A j \in 1..m : r[1 + j] = e.name[j]
  <2>1. 0 + 1 = 1 /\ \A j \in 1..m : 0 + 1 + j = 1 + j
    BY <1>1
  <2> QED BY <1>1, <2>1 DEF RecordAt, m
<1>5. t[n + 1] = FixedPart(e)
  <2>1. 1 \in 1..(1 + m)
    BY <1>1
  <2> QED BY <1>3, <1>4, <2>1
<1>6. \A j \in 1..m : t[n + 1 + j] = e.name[j]
  <2> TAKE j \in 1..m
  <2>1. 1 + j \in 1..(1 + m) /\ n + (1 + j) = n + 1 + j
    BY <1>1
  <2> QED BY <1>3, <1>4, <2>1
<1>7. n + 1 + m =< Len(t) /\ Len(t) = n + 1 + m
  BY <1>1, <1>2
<1>8. RecordAt(t, n, e)
  BY <1>5, <1>6, <1>7 DEF RecordAt, m
<1> QED BY <1>2, <1>3, <1>7, <1>8 DEF t, n, m, r

\* The records of the entries lie one behind the other in s, the k-th behind
\* pos[k - 1] cells.
Laid(pos, es, s) ==
  /\ pos[0] = 0
  /\ \A k \in 1..Len(es) : /\ pos[k - 1] \in Nat
                           /\ pos[k] = pos[k - 1] + 1 + Len(es[k].name)
                           /\ RecordAt(s, pos[k - 1], es[k])

LEMMA DirectoryLaid ==
  ASSUME NEW es \in Entries
  PROVE  \E pos : Laid(pos, es, Directory(es)) /\ pos[Len(es)] = Len(Directory(es))
<1> DEFINE n == Len(es)
           seqs == [k \in DOMAIN es |-> Record(es[k])]
           f == CHOOSE g : IsFlat(seqs, n, g)
           prefix(k) == IF k = 0 THEN <<>> ELSE f[k]
           pos == [k \in 0..n |-> Len(prefix(k))]
           Placed(k, h) == /\ pos[h - 1] \in Nat
                           /\ pos[h] = pos[h - 1] + 1 + Len(es[h].name)
                           /\ RecordAt(prefix(k), pos[h - 1], es[h])
           S == {k \in 0..n : prefix(k) \in Text /\ \A h \in 1..k : Placed(k, h)}
<1>1. n \in Nat /\ DOMAIN es = 1..n /\ \A k \in 1..n : es[k] \in [at : Nat, name : Text]
  BY EntriesAre
<1>2. seqs \in Seq(Text) /\ Len(seqs) = n
  <2>1. \A k \in 1..n : Record(es[k]) \in Text
    BY <1>1, RecordText
  <2> HIDE DEF n
  <2>2. seqs \in [1..n -> Text]
    BY <1>1, <2>1
  <2> HIDE DEF seqs
  <2>3. seqs \in Seq(Text) /\ DOMAIN seqs = 1..n
    BY <1>1, <2>2, SeqDef
  <2> QED BY <1>1, <2>3, LenProperties
<1>3. Directory(es) = FlattenSeq(seqs)
  BY DEF Directory
<1>4. \A k \in 1..n : seqs[k] = Record(es[k])
  BY <1>1
<1> HIDE DEF n, seqs
<1>5. FlattenSeq(seqs) = IF n = 0 THEN seqs ELSE f[n]
  BY <1>2 DEF FlattenSeq, IsFlat
<1>6. IsFlat(seqs, n, f)
  BY <1>1, FlatExists
<1> HIDE DEF f
<1>7. Directory(es) = prefix(n)
  <2>1. n = 0 => seqs = <<>>
    BY <1>2, EmptySeq
  <2> QED BY <1>3, <1>5, <2>1
<1>8. prefix(0) \in Text /\ Len(prefix(0)) = 0
  BY DEF Text
<1>9. ASSUME NEW k \in 1..n, prefix(k - 1) \in Text
      PROVE  prefix(k) = prefix(k - 1) \o Record(es[k])
  <2>1. f[k] = IF k = 1 THEN seqs[k] ELSE f[k - 1] \o seqs[k]
    BY <1>6 DEF IsFlat
  <2>2. seqs[k] \in Text /\ seqs[k] = Record(es[k])
    BY <1>1, <1>4, RecordText
  <2>3. k # 0 /\ (k = 1 <=> k - 1 = 0)
    BY <1>1
  <2>4. <<>> \o seqs[k] = seqs[k]
    BY <2>2, ConcatEmptySeq DEF Text
  <2> QED BY <2>1, <2>2, <2>3, <2>4
<1>10. \A k \in 0..n : pos[k] = Len(prefix(k))
  OBVIOUS
<1> HIDE DEF prefix, pos
<1>11. 0 \in S
  <2>1. 0 \in 0..n /\ 1..0 = {}
    BY <1>1
  <2> QED BY <1>8, <2>1
<1>12. ASSUME NEW k \in 1..n, k - 1 \in S PROVE k \in S
  <2> DEFINE s == prefix(k - 1)
             e == es[k]
             t == prefix(k)
  <2>1. s \in Text /\ \A h \in 1..(k - 1) : Placed(k - 1, h)
    BY <1>12
  <2>2. e \in [at : Nat, name : Text] /\ t = s \o Record(e)
    BY <1>1, <1>9, <2>1
  <2>3. k \in 0..n /\ k - 1 \in 0..n
    BY <1>1
  <2>4. pos[k - 1] = Len(s) /\ pos[k] = Len(t)
    BY <1>10, <2>3
  <2> HIDE DEF s, e, t
  <2>5. /\ t \in Text /\ Len(t) = Len(s) + 1 + Len(e.name)
        /\ RecordAt(t, Len(s), e) /\ \A i \in 1..Len(s) : t[i] = s[i]
    BY <2>1, <2>2, RecordAppended
  <2>6. Len(s) \in Nat /\ Len(e.name) \in Nat
    <3>1. e.name \in Text
      BY <2>2
    <3> QED BY <2>1, <3>1, TextIs
  <2>7. Placed(k, k)
    BY <2>4, <2>5, <2>6 DEF e, t
  <2>8. ASSUME NEW h \in 1..(k - 1) PROVE Placed(k, h)
    <3> DEFINE q == pos[h - 1]
               d == es[h]
    <3>1. h \in 1..n
      BY <1>1
    <3>2. q \in Nat /\ d \in [at : Nat, name : Text] /\ RecordAt(s, q, d)
      BY <1>1, <2>1, <3>1 DEF s
    <3>3. Len(s) =< Len(t)
      <4> DEFINE a == Len(s)
                 b == Len(e.name)
                 c == Len(t)
      <4>1. a \in Nat /\ b \in Nat /\ c = a + 1 + b
        BY <2>5, <2>6
      <4> HIDE DEF a, b, c
      <4>2. a =< c
        BY <4>1
      <4> QED BY <4>2 DEF a, c
    <3> HIDE DEF q, d
    <3>4. RecordAt(t, q, d)
      BY ONLY <2>1, <2>5, <3>2, <3>3, RecordStays
    <3> QED BY <2>1, <3>4 DEF t, q, d
  <2>9. \A h \in 1..k : Placed(k, h)
    <3>1. \A h \in 1..k : h = k \/ h \in 1..(k - 1)
      BY <1>1
    <3> HIDE DEF Placed
    <3> QED BY <2>7, <2>8, <3>1
  <2> QED BY <2>3, <2>5, <2>9 DEF t
<1>13. \A k \in 0..n : k \in S
  <2> HIDE DEF S
  <2> QED BY <1>1, <1>11, <1>12, Induct
<1>14. 0 \in 0..n /\ n \in 0..n
  BY <1>1
<1>15. pos[0] = 0 /\ pos[n] = Len(Directory(es))
  BY <1>7, <1>8, <1>10, <1>14
<1>16. \A h \in 1..n : Placed(n, h)
  BY <1>13, <1>14
<1> HIDE DEF S
<1>17. Laid(pos, es, Directory(es))
  BY <1>7, <1>15, <1>16 DEF Laid, n
<1> QED BY <1>15, <1>17 DEF n

\* What is parsed where the records of some entries lie, up to a cell that begins
\* none: these entries.
LEMMA LaidParses ==
  ASSUME NEW buf \in Text, NEW es \in Entries, NEW pos, Laid(pos, es, buf),
         \A k \in 1..Len(es) : es[k].name \notin Unsafe,
         pos[Len(es)] = Len(buf) \/ buf[pos[Len(es)] + 1].kind # "head"
  PROVE  ParseEntries(buf) = es
<1> DEFINE n == Len(es)
           len == Len(buf)
           X == [at : Nat, name : Text]
           tail(k) == [j \in 1..(n - k) |-> es[k + j]]
<1>1. n \in Nat /\ es \in Seq(X) /\ \A k \in 1..n : es[k] \in X
  BY EntriesAre DEF Entries
<1>2. len \in Nat
  BY TextIs
<1>3. PICK f : ParseEntries(buf) = f[1] /\ IsParser(buf, f)
  BY ParserExists
<1>4. \A i \in 1..(len + 1) :
        f[i] = IF Parses(buf, i) THEN <<ParsedAt(buf, i)>> \o f[Following(buf, i)] ELSE <<>>
  BY <1>3 DEF IsParser
<1>5. pos[0] = 0
  BY DEF Laid
<1>6. \A k \in 1..n : /\ pos[k - 1] \in Nat /\ pos[k] = pos[k - 1] + 1 + Len(es[k].name)
                      /\ pos[k] =< len /\ Len(es[k].name) \in Nat
                      /\ buf[pos[k - 1] + 1] = FixedPart(es[k])
                      /\ \A j \in 1..Len(es[k].name) : buf[pos[k - 1] + 1 + j] = es[k].name[j]
  <2> TAKE k \in 1..n
  <2>1. /\ pos[k - 1] \in Nat /\ pos[k] = pos[k - 1] + 1 + Len(es[k].name)
        /\ RecordAt(buf, pos[k - 1], es[k])
    BY DEF Laid
  <2>2. Len(es[k].name) \in Nat
    <3>1. es[k].name \in Text
      BY <1>1
    <3> QED BY <3>1, TextIs
  <2> QED BY <2>1, <2>2 DEF RecordAt
<1> DEFINE S == {m \in 0..n : f[pos[n - m] + 1] = tail(n - m)}
<1>7. pos[n] \in Nat /\ pos[n] =< len
  <2>1. CASE n = 0
    BY <1>2, <1>5, <2>1
  <2>2. CASE n # 0
    <3>1. n \in 1..n
      BY <1>1, <2>2
    <3> QED BY <1>6, <3>1
  <2> QED BY <2>1, <2>2
<1>8. 0 \in S
  <2> DEFINE i == pos[n] + 1
  <2>1. i \in 1..(len + 1)
    BY <1>2, <1>7
  <2>2. i > len \/ buf[i].kind # "head"
    BY <1>2, <1>7
  <2>3. ~Parses(buf, i)
    <3> HIDE DEF i
    <3> QED BY <1>2, <2>1, <2>2 DEF Parses
  <2> HIDE DEF i
  <2>4. f[i] = <<>>
    BY <1>4, <2>1, <2>3
  <2>5. n - 0 = n /\ 0 \in 0..n /\ 1..(n - n) = {}
    BY <1>1
  <2>6. tail(n) = <<>>
    BY <2>5
  <2> QED BY <2>4, <2>5, <2>6 DEF i
<1>9. ASSUME NEW m \in 1..n, m - 1 \in S PROVE m \in S
  <2> DEFINE k == n - m + 1
             e == es[k]
             p == pos[k - 1]
             i == p + 1
             nameLen == Len(e.name)
  <2>1. k \in 1..n /\ n - (m - 1) = k /\ n - m = k - 1 /\ m \in 0..n
    BY <1>1
  <2>2. /\ e \in X /\ p \in Nat /\ pos[k] = p + 1 + nameLen /\ pos[k] =< len /\ nameLen \in Nat
        /\ buf[i] = FixedPart(e) /\ \A j \in 1..nameLen : buf[p + 1 + j] = e.name[j]
        /\ e.name \notin Unsafe
    <3> HIDE DEF k
    <3> QED BY <1>1, <1>6, <2>1
  <2>3. f[pos[k] + 1] = tail(k)
    BY <1>9, <2>1
  <2> HIDE DEF e, p, k, nameLen
  <2>4. e.at \in Nat /\ e.name \in Text /\ e = [at |-> e.at, name |-> e.name]
    BY <2>2
  <2>5. buf[i].kind = "head" /\ buf[i].at = e.at /\ buf[i].nameLen = nameLen
    BY <2>2 DEF FixedPart, nameLen
  <2>6. i + nameLen = pos[k] /\ i \in Nat /\ i =< len /\ i + nameLen =< len
    BY <1>2, <2>2
  <2>7. \A j \in 1..nameLen : buf[i + j] = e.name[j]
    BY <2>2
  <2> HIDE DEF i
  <2>8. NameAt(buf, i) = e.name
    <3> DEFINE first == i + 1
               last == i + nameLen
               part == SubSeq(buf, first, last)
    <3>1. first \in Int /\ last \in Int /\ first \in Nat /\ last \in Nat /\ first > 0
          /\ (last - first + 1 = nameLen) /\ (first =< last <=> nameLen # 0)
      BY <2>2, <2>6
    <3>2. \A j \in first..last : j \in 1..len
      BY <2>6, <1>2, <2>2
    <3>3. \A j \in first..last : buf[j] \in Cells
      BY <3>2, TextIs
    <3>4. \A j \in 1..nameLen : first + j - 1 = i + j
      BY <2>2, <2>6
    <3> HIDE DEF first, last, Cells
    <3>5. /\ part \in Seq(Cells)
          /\ Len(part) = IF first =< last THEN last - first + 1 ELSE 0
          /\ \A j \in 1..(last - first + 1) : part[j] = buf[first + j - 1]
      BY <3>1, <3>3, SubSeqProperties
    <3> HIDE DEF part
    <3>6. Len(part) = nameLen
      BY <3>1, <3>5
    <3>7. \A j \in 1..nameLen : part[j] = e.name[j]
      BY <2>7, <3>1, <3>4, <3>5
    <3>8. e.name \in Seq(Cells) /\ Len(e.name) = Len(part) /\ \A j \in 1..Len(part) : part[j] = e.name[j]
      BY <2>4, <3>6, <3>7 DEF Text, nameLen
    <3>9. part = e.name
      BY ONLY <3>5, <3>8, SeqEqual
    <3> QED BY <2>5, <3>9 DEF NameAt, part, first, last
  <2>9. Parses(buf, i) /\ ParsedAt(buf, i) = e /\ Following(buf, i) = pos[k] + 1
    <3>1. Parses(buf, i)
      BY <2>2, <2>5, <2>6, <2>8 DEF Parses
    <3>2. ParsedAt(buf, i) = e
      BY <2>4, <2>5, <2>8 DEF ParsedAt
    <3>3. i + 1 + nameLen = i + nameLen + 1
      BY <2>2, <2>6
    <3>4. Following(buf, i) = pos[k] + 1
      BY <2>5, <2>6, <3>3 DEF Following
    <3> QED BY <3>1, <3>2, <3>4
  <2>10. i \in 1..(len + 1)
    BY <1>2, <2>2, <2>6 DEF i
  <2>11. f[i] = <<e>> \o tail(k)
    BY <1>4, <2>3, <2>9, <2>10
  <2>12. <<e>> \o tail(k) = tail(k - 1)
    <3> DEFINE t == tail(k)
               u == tail(k - 1)
               c == n - k
               one == <<e>>
    <3>1. c \in Nat /\ n - (k - 1) = c + 1
      BY <1>1, <2>1
    <3>2. t \in Seq(X) /\ Len(t) = c /\ \A j \in 1..c : t[j] = es[k + j]
      <4>1. \A j \in 1..c : k + j \in 1..n
        BY <1>1, <2>1
      <4>2. t \in [1..c -> X]
        <5> HIDE DEF X, n
        <5> QED BY <1>1, <4>1
      <4>3. \A j \in 1..c : t[j] = es[k + j]
        OBVIOUS
      <4> HIDE DEF t, c, X
      <4>4. t \in Seq(X) /\ DOMAIN t = 1..c
        BY <3>1, <4>2, SeqDef
      <4> QED BY <3>1, <4>3, <4>4, LenProperties
    <3>3. u \in Seq(X) /\ Len(u) = c + 1 /\ \A j \in 1..(c + 1) : u[j] = es[k - 1 + j]
      <4>1. \A j \in 1..(c + 1) : k - 1 + j \in 1..n
        BY <1>1, <2>1
      <4>2. u = [j \in 1..(c + 1) |-> es[k - 1 + j]]
        BY <3>1
      <4> HIDE DEF u, c, X, n
      <4>3. u \in [1..(c + 1) -> X]
        BY <1>1, <4>1, <4>2
      <4>4. c + 1 \in Nat
        BY <3>1
      <4>5. u \in Seq(X) /\ DOMAIN u = 1..(c + 1)
        BY <4>3, <4>4, SeqDef
      <4> QED BY <4>2, <4>4, <4>5, LenProperties
    <3>4. one \in Seq(X) /\ Len(one) = 1 /\ one[1] = e
      BY <2>2
    <3> HIDE DEF t, u, c, X, one
    <3>5. /\ one \o t \in Seq(X) /\ Len(one \o t) = Len(one) + Len(t)
          /\ \A j \in 1..Len(one) : (one \o t)[j] = one[j]
          /\ \A j \in 1..Len(t) : (one \o t)[Len(one) + j] = t[j]
      <4>1. one \in Seq(X) /\ t \in Seq(X)
        BY <3>2, <3>4
      <4> QED BY ONLY <4>1, ConcatAt
    <3>6. \A j \in 1..(1 + c) : (one \o t)[j] = u[j]
      <4> TAKE j \in 1..(1 + c)
      <4>1. CASE j = 1
        <5>1. k - 1 + 1 = k /\ 1 \in 1..(c + 1) /\ 1 \in 1..1
          BY <1>1, <2>1, <3>1
        <5>2. u[1] = es[k]
          BY <3>3, <5>1
        <5>3. (one \o t)[1] = one[1]
          BY <3>4, <3>5, <5>1
        <5> QED BY <3>4, <4>1, <5>2, <5>3 DEF e
      <4>2. CASE j # 1
        <5> DEFINE h == j - 1
        <5>1. h \in 1..c /\ k - 1 + j = k + h /\ j \in 1..(c + 1) /\ 1 + h = j
          BY <1>1, <2>1, <3>1, <4>2
        <5> HIDE DEF h
        <5>2. (one \o t)[1 + h] = t[h]
          BY <3>2, <3>4, <3>5, <5>1
        <5> QED BY <3>2, <3>3, <5>1, <5>2
      <4> QED BY <4>1, <4>2
    <3> DEFINE both == one \o t
    <3>7. both \in Seq(X) /\ u \in Seq(X) /\ Len(both) = Len(u) /\ \A j \in 1..Len(both) : both[j] = u[j]
      <4>1. 1 + c = c + 1
        BY <3>1
      <4> QED BY <3>2, <3>3, <3>4, <3>5, <3>6, <4>1
    <3> HIDE DEF both
    <3>8. both = u
      BY ONLY <3>7, SeqEqual
    <3> QED BY <3>8 DEF both, one, t, u
  <2>13. f[pos[n - m] + 1] = tail(n - m)
    BY <2>1, <2>11, <2>12 DEF i, p
  <2> QED BY <2>1, <2>13
<1>10. \A m \in 0..n : m \in S
  <2> HIDE DEF S
  <2> QED BY <1>1, <1>8, <1>9, Induct
<1>11. n \in 0..n /\ n - n = 0 /\ pos[0] + 1 = 1
  BY <1>1, <1>5
<1>12. f[1] = tail(0)
  BY <1>10, <1>11
<1>13. tail(0) = es
  <2>1. n - 0 = n /\ \A j \in 1..n : 0 + j = j
    BY <1>1
  <2>2. es = [j \in 1..n |-> es[j]]
    BY <1>1, LenProperties
  <2> QED BY <2>1, <2>2
<1> QED BY <1>3, <1>12, <1>13

LEMMA ParseDirectory ==
  ASSUME NEW buf \in Text, NEW es \in Entries,
         \A k \in 1..Len(es) : es[k].name \notin Unsafe,
         Len(Directory(es)) =< Len(buf),
         \A i \in 1..Len(Directory(es)) : buf[i] = Directory(es)[i],
         Len(Directory(es)) = Len(buf) \/ buf[Len(Directory(es)) + 1].kind # "head"
  PROVE  ParseEntries(buf) = es
<1> DEFINE dir == Directory(es)
<1>1. PICK pos : Laid(pos, es, dir) /\ pos[Len(es)] = Len(dir)
  BY DirectoryLaid
<1>2. dir \in Text
  BY DirectoryText
<1>3. Len(dir) =< Len(buf) /\ \A i \in 1..Len(dir) : buf[i] = dir[i]
  OBVIOUS
<1>4. pos[Len(es)] = Len(buf) \/ buf[pos[Len(es)] + 1].kind # "head"
  BY <1>1
<1> HIDE DEF dir
<1>5. ASSUME NEW k \in 1..Len(es) PROVE RecordAt(buf, pos[k - 1], es[k])
  <2> DEFINE p == pos[k - 1]
             e == es[k]
  <2>1. p \in Nat /\ RecordAt(dir, p, e)
    BY <1>1 DEF Laid
  <2>2. e \in [at : Nat, name : Text]
    BY EntriesAre
  <2> HIDE DEF p, e
  <2>3. buf \in Text
    OBVIOUS
  <2>4. RecordAt(buf, p, e)
    BY ONLY <1>2, <1>3, <2>1, <2>2, <2>3, RecordStays
  <2> QED BY <2>4 DEF p, e
<1>6. Laid(pos, es, buf)
  BY <1>1, <1>5 DEF Laid
<1> QED BY <1>4, <1>6, LaidParses

----------------------------------------------------------------------------
(* The tail of an archive.                                                 *)

\* Where the end record is in a tail that begins with n cells of a directory.
EndAt(tail, n) == IF tail[n + 1].kind = "end64" THEN n + 3 ELSE n + 1

\* The directory of es and the records that tell where it is.
IsTail(tail, es) ==
  LET n == Len(Directory(es))
      e == EndAt(tail, n)
  IN  /\ tail \in Text /\ es \in Entries
      /\ \A i \in 1..n : tail[i] = Directory(es)[i]
      /\ e =< Len(tail) /\ tail[e].kind = "end" /\ e + tail[e].commentLen = Len(tail)
      /\ \/ /\ tail[n + 1] = End64(Len(es), n, Here)
            /\ tail[n + 2] = Locator(Here + n)
            /\ tail[e].count = CountLimit /\ tail[e].size = FieldLimit
         \/ /\ tail[n + 1].kind = "end" /\ tail[n + 1].count = Len(es)
            /\ tail[n + 1].size = n /\ tail[n + 1].offset = Here

LEMMA SerializeIsTail ==
  ASSUME NEW cd, cd.entries \in Entries, cd.comment \in Text, cd.offset = Here
  PROVE  /\ IsTail(Serialize(cd), cd.entries)
         /\ LET e == EndAt(Serialize(cd), Len(Directory(cd.entries)))
            IN  /\ Serialize(cd)[e].commentLen = Len(cd.comment)
                /\ \A j \in 1..Len(cd.comment) : Serialize(cd)[e + j] = cd.comment[j]
<1> DEFINE es == cd.entries
           c == cd.comment
           dir == Directory(es)
           k == Len(es)
           n == Len(dir)
           m == Len(c)
           e64 == End64(k, n, cd.offset)
           loc == Locator(cd.offset + n)
           full == End(CountLimit, FieldLimit, FieldLimit, c)
           plain == End(k, n, cd.offset, c)
           mid == IF NeedZip64(cd) THEN <<e64, loc, full>> ELSE <<plain>>
           l == Len(mid)
           front == dir \o mid
           tail == Serialize(cd)
           e == EndAt(tail, n)
<1>1. k \in Nat /\ dir \in Text /\ n \in Nat /\ c \in Text /\ m \in Nat /\ Here \in Nat
  BY EntriesAre, DirectoryText, TextIs, HereIsNat
<1>2. e64 \in Cells /\ loc \in Cells /\ full \in Cells /\ plain \in Cells
  <2>1. cd.offset + n \in Nat
    BY <1>1
  <2>2. e64 \in End64s
    BY <1>1 DEF End64, End64s
  <2>3. loc \in Locators
    BY <2>1 DEF Locator, Locators
  <2>4. full \in FullEnds
    BY <1>1, LimitAssumption DEF End, FullEnds
  <2>5. plain \in PlainEnds
    BY <1>1 DEF End, PlainEnds
  <2> QED BY <2>2, <2>3, <2>4, <2>5 DEF Cells
<1>3. /\ e64 = End64(k, n, Here) /\ e64.kind = "end64"
      /\ loc = Locator(Here + n)
      /\ full.kind = "end" /\ full.commentLen = m /\ full.count = CountLimit
      /\ full.size = FieldLimit
      /\ plain.kind = "end" /\ plain.commentLen = m /\ plain.count = k /\ plain.size = n
      /\ plain.offset = Here
  BY DEF End64, End
<1>4. tail = dir \o mid \o c
  BY DEF Serialize
<1> HIDE DEF e64, loc, full, plain
<1>5. mid \in Text /\ l \in Nat
  <2>1. mid \in Text
    <3> HIDE DEF Cells
    <3> QED BY <1>2 DEF Text
  <2> HIDE DEF mid
  <2> QED BY <2>1, TextIs
<1>6. /\ NeedZip64(cd) => l = 3 /\ mid[1] = e64 /\ mid[2] = loc /\ mid[3] = full
      /\ ~NeedZip64(cd) => l = 1 /\ mid[1] = plain
  OBVIOUS
<1> HIDE DEF mid
<1>7. /\ front \in Text /\ Len(front) = n + l
      /\ \A i \in 1..n : front[i] = dir[i]
      /\ \A j \in 1..l : front[n + j] = mid[j]
  <2> HIDE DEF dir
  <2> QED BY <1>1, <1>5, TextConcat, TextConcatAt
<1> HIDE DEF dir, n, l, front, c, tail
<1>8. /\ tail \in Text /\ Len(tail) = Len(front) + m
      /\ \A i \in 1..Len(front) : tail[i] = front[i]
      /\ \A j \in 1..m : tail[Len(front) + j] = c[j]
  <2>1. tail = front \o c
    BY <1>4 DEF front
  <2> QED BY <1>1, <1>7, <2>1, TextConcat, TextConcatAt
<1> HIDE DEF m
<1>9. Len(tail) = n + l + m /\ \A i \in 1..n : tail[i] = dir[i]
  <2>1. \A i \in 1..n : i \in 1..(n + l)
    BY <1>1, <1>5
  <2> QED BY <1>7, <1>8, <2>1
<1>10. \A j \in 1..l : tail[n + j] = mid[j]
  <2> TAKE j \in 1..l
  <2>1. n + j \in 1..(n + l)
    BY <1>1, <1>5
  <2> QED BY <1>7, <1>8, <2>1
<1>11. ASSUME NeedZip64(cd)
       PROVE  tail[n + 1] = e64 /\ tail[n + 2] = loc /\ tail[n + 3] = full /\ e = n + 3 /\ l = 3
  <2>1. l = 3 /\ 1 \in 1..3 /\ 2 \in 1..3 /\ 3 \in 1..3
    BY <1>6, <1>11
  <2>2. tail[n + 1] = e64 /\ tail[n + 2] = loc /\ tail[n + 3] = full
    BY <1>6, <1>10, <1>11, <2>1
  <2> QED BY <1>3, <2>1, <2>2 DEF EndAt
<1>12. ASSUME ~NeedZip64(cd)
       PROVE  tail[n + 1] = plain /\ e = n + 1 /\ l = 1
  <2>1. l = 1 /\ 1 \in 1..1
    BY <1>6, <1>12
  <2>2. tail[n + 1] = plain
    BY <1>6, <1>10, <1>12, <2>1
  <2> QED BY <1>3, <2>1, <2>2 DEF EndAt
<1>13. e = n + l /\ tail[e].kind = "end" /\ tail[e].commentLen = m
  <2>1. ASSUME NeedZip64(cd) PROVE e = n + l /\ tail[e].kind = "end" /\ tail[e].commentLen = m
    BY <1>3, <1>11, <2>1
  <2>2. ASSUME ~NeedZip64(cd) PROVE e = n + l /\ tail[e].kind = "end" /\ tail[e].commentLen = m
    BY <1>3, <1>12, <2>2
  <2> HIDE DEF e
  <2> QED BY <2>1, <2>2
<1>14. \/ /\ tail[n + 1] = End64(k, n, Here)
          /\ tail[n + 2] = Locator(Here + n)
          /\ tail[e].count = CountLimit /\ tail[e].size = FieldLimit
       \/ /\ tail[n + 1].kind = "end" /\ tail[n + 1].count = k
          /\ tail[n + 1].size = n /\ tail[n + 1].offset = Here
  <2>1. ASSUME NeedZip64(cd)
        PROVE  /\ tail[n + 1] = End64(k, n, Here) /\ tail[n + 2] = Locator(Here + n)
               /\ tail[e].count = CountLimit /\ tail[e].size = FieldLimit
    <3>1. tail[e] = full
      BY <1>11, <2>1
    <3> HIDE DEF e
    <3> QED BY <1>3, <1>11, <2>1, <3>1
  <2>2. ASSUME ~NeedZip64(cd)
        PROVE  /\ tail[n + 1].kind = "end" /\ tail[n + 1].count = k
               /\ tail[n + 1].size = n /\ tail[n + 1].offset = Here
    BY <1>3, <1>12, <2>2
  <2> HIDE DEF e, k
  <2> QED BY <2>1, <2>2
<1> HIDE DEF e, k
<1>15. e =< Len(tail) /\ e + tail[e].commentLen = Len(tail)
  BY <1>1, <1>5, <1>9, <1>13
<1>16. \A j \in 1..m : tail[e + j] = c[j]
  BY <1>7, <1>8, <1>13
<1>17. IsTail(tail, es)
  BY <1>8, <1>9, <1>13, <1>14, <1>15 DEF IsTail, e, k, n, dir
<1> QED BY <1>13, <1>16, <1>17 DEF tail, e, n, dir, m, c

----------------------------------------------------------------------------
(* Reading a file that has been written over.                              *)

\* Where records are: an end record behind the directory it gives the size of,
\* unless it leaves the size to the record that its locator, next to it, locates.
\* The comment of every end record fits into what a reader reads.
PlacedAt(c, p) ==
  /\ c.kind = "end" => /\ c.size = FieldLimit \/ p = Here + c.size + 1
                       /\ c.commentLen + 2 =< MaxCdBuffer
  /\ c.kind = "end64" => p = Here + c.size + 1
  /\ c.kind = "locator" => p = c.end64 + 2

Placed(s, from) == \A i \in 1..Len(s) : PlacedAt(s[i], from + i)

\* Behind n cells of a directory are the only records that end an archive: no name
\* and no comment holds one.
OnlyEnds(tail, n) ==
  \A i \in DOMAIN tail :
    tail[i].kind \in {"end64", "locator", "end"} => i \in n + 1 .. EndAt(tail, n)

\* A reader can take the directory: it is not too large, no name is refused, and
\* no name and no comment holds a record that ends an archive.
LegibleTail(tail, es) ==
  /\ Len(Directory(es)) =< MaxCdSize
  /\ \A k \in DOMAIN es : es[k].name \notin Unsafe
  /\ OnlyEnds(tail, Len(Directory(es)))

\* The tail is in the file, behind the members.
Holds(f, tail) ==
  /\ Len(f) >= Here + Len(tail)
  /\ \A i \in 1..Len(tail) : f[Here + i] = tail[i]

Rewritten(f, tail, es) ==
  /\ f \in Text /\ Begins(f) /\ Placed(f, 0)
  /\ IsTail(tail, es) /\ LegibleTail(tail, es) /\ Holds(f, tail)

\* The directory's cells, and at least one record behind them.
LEMMA RewrittenIs ==
  ASSUME NEW f, NEW tail, NEW es, Rewritten(f, tail, es)
  PROVE  /\ Len(f) \in Nat /\ Len(tail) \in Nat /\ Here \in Nat
         /\ Len(Directory(es)) \in Nat /\ Directory(es) \in Text
         /\ Len(Directory(es)) < Len(tail) /\ Here + Len(tail) =< Len(f)
         /\ EndAt(tail, Len(Directory(es))) \in Nat
         /\ EndAt(tail, Len(Directory(es))) > Len(Directory(es))
         /\ EndAt(tail, Len(Directory(es))) =< Len(tail)
         /\ f \in Text /\ tail \in Text /\ es \in Entries
<1>1. f \in Text /\ tail \in Text /\ es \in Entries /\ EndAt(tail, Len(Directory(es))) =< Len(tail)
  BY DEF Rewritten, IsTail
<1>2. Directory(es) \in Text
  BY <1>1, DirectoryText
<1>3. Len(f) \in Nat /\ Len(tail) \in Nat /\ Here \in Nat /\ Len(Directory(es)) \in Nat
  BY <1>1, <1>2, TextIs, HereIsNat
<1>4. /\ EndAt(tail, Len(Directory(es))) \in Nat
      /\ EndAt(tail, Len(Directory(es))) > Len(Directory(es))
  BY <1>3 DEF EndAt
<1>5. Here + Len(tail) =< Len(f)
  BY <1>3 DEF Rewritten, Holds
<1>6. Len(Directory(es)) < Len(tail)
  <2> DEFINE n == Len(Directory(es))
             e == EndAt(tail, n)
             l == Len(tail)
  <2>1. n \in Nat /\ e \in Nat /\ l \in Nat /\ e > n /\ e =< l
    BY <1>1, <1>3, <1>4
  <2> HIDE DEF n, e, l
  <2>2. n < l
    BY <2>1
  <2> QED BY <2>2 DEF n, l
<1> QED BY <1>1, <1>2, <1>3, <1>4, <1>5, <1>6

LEMMA PartParses ==
  ASSUME NEW f, NEW tail, NEW es, Rewritten(f, tail, es),
         NEW size \in Nat, size >= Len(Directory(es)), Here + size =< Len(f)
  PROVE  ParseEntries(SubSeq(f, Here + 1, Here + size)) = es
<1> DEFINE n == Len(Directory(es))
           first == Here + 1
           last == Here + size
           buf == SubSeq(f, first, last)
<1>1. /\ Len(f) \in Nat /\ Here \in Nat /\ n \in Nat /\ Len(tail) \in Nat /\ n < Len(tail)
      /\ f \in Text /\ es \in Entries /\ Here + Len(tail) =< Len(f)
  BY RewrittenIs
<1>2. (\A i \in 1..n : f[Here + i] = Directory(es)[i]) /\ f[Here + (n + 1)].kind # "head"
  <2>1. \A i \in 1..Len(tail) : f[Here + i] = tail[i]
    BY DEF Rewritten, Holds
  <2>2. /\ \A i \in 1..n : tail[i] = Directory(es)[i]
        /\ tail[n + 1] = End64(Len(es), n, Here) \/ tail[n + 1].kind = "end"
    BY DEF Rewritten, IsTail
  <2>3. tail[n + 1].kind # "head"
    BY <2>2 DEF End64
  <2>4. n + 1 \in 1..Len(tail) /\ \A i \in 1..n : i \in 1..Len(tail)
    BY <1>1
  <2> HIDE DEF n
  <2> QED BY <2>1, <2>2, <2>3, <2>4
<1>3. n =< size /\ \A k \in 1..Len(es) : es[k].name \notin Unsafe
  <2>1. DOMAIN es = 1..Len(es)
    BY <1>1, EntriesAre
  <2> QED BY <2>1 DEF Rewritten, LegibleTail
<1> HIDE DEF n
<1>4. /\ buf \in Text /\ Len(buf) = size /\ \A i \in 1..size : buf[i] = f[Here + i]
  <2>1. first \in Nat /\ last \in Nat /\ first > 0 /\ last =< Len(f)
    BY <1>1
  <2>2. (IF first =< last THEN last - first + 1 ELSE 0) = size /\ last - first + 1 = size
    BY <1>1
  <2>3. \A i \in 1..size : first + i - 1 = Here + i
    BY <1>1
  <2>4. \A i \in first..last : i \in 1..Len(f)
    BY <1>1
  <2>5. first \in Int /\ last \in Int /\ \A i \in first..last : f[i] \in Cells
    BY <1>1, <2>1, <2>4, TextIs
  <2> HIDE DEF first, last, Cells
  <2>6. buf \in Text /\ Len(buf) = size
    BY <1>1, <2>1, <2>2, TextPart
  <2>7. \A i \in 1..(last - first + 1) : buf[i] = f[first + i - 1]
    BY <2>5, SubSeqProperties
  <2> QED BY <2>2, <2>3, <2>6, <2>7
<1> HIDE DEF buf
<1>5. \A i \in 1..n : buf[i] = Directory(es)[i]
  <2>1. \A i \in 1..n : i \in 1..size
    BY <1>1, <1>3
  <2> QED BY <1>2, <1>4, <2>1
<1>6. n = Len(buf) \/ buf[n + 1].kind # "head"
  <2>1. n # size => n + 1 \in 1..size
    BY <1>1, <1>3
  <2> QED BY <1>2, <1>4, <2>1
<1>7. n =< Len(buf)
  BY <1>3, <1>4
<1>8. ParseEntries(buf) = es
  BY <1>1, <1>3, <1>4, <1>5, <1>6, <1>7, ParseDirectory DEF n
<1> QED BY <1>8 DEF buf

\* What is read with a size that is not the limit's is at least the directory.
LEMMA ReadGivesGoal ==
  ASSUME NEW f, NEW tail, NEW es, Rewritten(f, tail, es),
         NEW size \in Nat, size >= Len(Directory(es)), NEW k, NEW comment, NEW isZip64,
         ReadEntries(f, Here, size, k, comment, isZip64).found
  PROVE  ReadEntries(f, Here, size, k, comment, isZip64).entries = es
<1> DEFINE part == SubSeq(f, Here + 1, Here + size)
           cd == CentralDir(ParseEntries(part), comment, isZip64, Here, size)
           bad == \/ size > MaxCdSize \/ (size > 0 /\ Here + size > Len(f))
                  \/ ~CountValid(Len(ParseEntries(part)), k)
           read == ReadEntries(f, Here, size, k, comment, isZip64)
<1>1. read = IF bad THEN Failed ELSE cd
  BY DEF ReadEntries
<1>2. ~Failed.found
  BY DEF Failed
<1>3. cd.entries = ParseEntries(part)
  BY DEF CentralDir
<1>4. read.found
  OBVIOUS
<1> HIDE DEF cd, read
<1>5. ~bad /\ read = cd
  <2> HIDE DEF bad
  <2> QED BY <1>1, <1>2, <1>4
<1>6. Here + size =< Len(f)
  <2>1. Here \in Nat /\ Len(f) \in Nat /\ Here + Len(tail) =< Len(f) /\ Len(tail) \in Nat
    BY RewrittenIs
  <2> QED BY <1>5, <2>1
<1>7. ParseEntries(part) = es
  BY <1>6, PartParses
<1> QED BY <1>3, <1>5, <1>7 DEF read

\* With the directory's own size and count, it is found.
LEMMA ReadFinds ==
  ASSUME NEW f, NEW tail, NEW es, Rewritten(f, tail, es), NEW comment, NEW isZip64
  PROVE  /\ ReadEntries(f, Here, Len(Directory(es)), Len(es), comment, isZip64).found
         /\ ReadEntries(f, Here, Len(Directory(es)), Len(es), comment, isZip64).entries = es
<1> DEFINE size == Len(Directory(es))
           k == Len(es)
           part == SubSeq(f, Here + 1, Here + size)
           cd == CentralDir(ParseEntries(part), comment, isZip64, Here, size)
           bad == \/ size > MaxCdSize \/ (size > 0 /\ Here + size > Len(f))
                  \/ ~CountValid(Len(ParseEntries(part)), k)
           read == ReadEntries(f, Here, size, k, comment, isZip64)
<1>1. /\ Here \in Nat /\ Len(f) \in Nat /\ Here + Len(tail) =< Len(f) /\ Len(tail) \in Nat
      /\ size \in Nat /\ size < Len(tail)
  BY RewrittenIs
<1>2. read = IF bad THEN Failed ELSE cd
  BY DEF ReadEntries
<1>3. size =< MaxCdSize /\ MaxCdSize \in Nat
  BY LimitAssumption DEF Rewritten, LegibleTail
<1>4. Here + size =< Len(f) /\ size >= size
  BY <1>1
<1>5. ParseEntries(part) = es
  BY <1>1, <1>4, PartParses
<1>6. ~bad
  <2>1. CountValid(Len(ParseEntries(part)), k)
    BY <1>5 DEF CountValid
  <2>2. ~(size > MaxCdSize) /\ ~(Here + size > Len(f))
    BY <1>1, <1>3, <1>4
  <2> HIDE DEF size, part, k
  <2> QED BY <2>1, <2>2
<1>7. cd.found /\ cd.entries = ParseEntries(part)
  BY DEF CentralDir
<1> HIDE DEF cd, read, bad, part
<1> QED BY <1>2, <1>5, <1>6, <1>7 DEF read

\* The record that the end record at i leaves the size to, and the count it gives.
RecordOf(f, i) == IF HasEnd64(f, i) THEN f[Located(f, i)] ELSE f[i]
CountOf(f, i) == IF f[i].count = CountLimit THEN RecordOf(f, i).count ELSE f[i].count
CommentOf(f, i) == SubSeq(f, i + 1, i + f[i].commentLen)

LEMMA TryIs ==
  ASSUME NEW f, NEW i
  PROVE  TryParseCdir(f, i) =
           IF i + f[i].commentLen > Len(f) THEN Passed
           ELSE IF IsEmpty(RecordOf(f, i), CountOf(f, i))
                THEN CentralDir(<<>>, CommentOf(f, i), HasLocator(f, i), 0, 0)
                ELSE ReadEntries(f, RecordOf(f, i).offset, RecordOf(f, i).size, CountOf(f, i),
                                 CommentOf(f, i), HasLocator(f, i))
BY DEF TryParseCdir, RecordOf, CountOf, CommentOf

LEMMA ReadTooLarge ==
  ASSUME NEW f, NEW offset, NEW k, NEW comment, NEW isZip64
  PROVE  ~ReadEntries(f, offset, FieldLimit, k, comment, isZip64).found
<1>1. FieldLimit > MaxCdSize
  BY LimitAssumption
<1>2. ReadEntries(f, offset, FieldLimit, k, comment, isZip64) = Failed
  BY <1>1 DEF ReadEntries
<1> QED BY <1>2 DEF Failed

\* The record gives the size of the directory, or more.
Covers(r, count, n, k) ==
  /\ EndsIs(r)
  /\ r.size = FieldLimit \/ r.size > n \/ (r.size = n /\ count = k)

LEMMA CoveringGivesGoal ==
  ASSUME NEW f, NEW tail, NEW es, Rewritten(f, tail, es), NEW i,
         Covers(RecordOf(f, i), CountOf(f, i), Len(Directory(es)), Len(es)),
         TryParseCdir(f, i).found
  PROVE  TryParseCdir(f, i).entries = es
<1> DEFINE r == RecordOf(f, i)
           count == CountOf(f, i)
           comment == CommentOf(f, i)
           z == HasLocator(f, i)
           n == Len(Directory(es))
           try == TryParseCdir(f, i)
           empty == CentralDir(<<>>, comment, z, 0, 0)
           read == ReadEntries(f, r.offset, r.size, count, comment, z)
           passes == i + f[i].commentLen > Len(f)
<1>1. try = IF passes THEN Passed ELSE IF IsEmpty(r, count) THEN empty ELSE read
  BY TryIs
<1>2. ~Passed.found /\ try.found
  BY DEF Passed
<1>3. n \in Nat /\ es \in Entries /\ Len(es) \in Nat
  <2>1. n \in Nat /\ es \in Entries
    BY RewrittenIs
  <2> QED BY <2>1, EntriesAre
<1>4. /\ r.size \in Nat /\ (r.offset = Here \/ (r.size = FieldLimit /\ r.offset = FieldLimit))
      /\ r.size = FieldLimit \/ r.size > n \/ (r.size = n /\ count = Len(es))
  BY DEF Covers, EndsIs
<1> HIDE DEF r, count, comment, z, n, try, read, empty, passes
<1>5. CASE IsEmpty(r, count)
  <2>1. r.size = 0 /\ count = 0
    BY <1>5 DEF IsEmpty
  <2>2. FieldLimit # 0 /\ ~(0 > n)
    BY <1>3, LimitAssumption
  <2>3. Len(es) = 0
    BY <1>4, <2>1, <2>2
  <2>4. es = <<>>
    BY <1>3, <2>3, EmptySeq DEF Entries
  <2>5. try = empty
    BY <1>1, <1>2, <1>5
  <2>6. empty.entries = <<>>
    BY DEF empty, CentralDir
  <2> QED BY <2>4, <2>5, <2>6 DEF try
<1>6. CASE ~IsEmpty(r, count)
  <2>1. try = read /\ read.found
    BY <1>1, <1>2, <1>6
  <2>2. r.size # FieldLimit
    <3>1. r.size = FieldLimit => ~read.found
      BY ReadTooLarge DEF read
    <3> QED BY <2>1, <3>1
  <2>3. r.offset = Here /\ r.size >= n
    BY <1>3, <1>4, <2>2
  <2> DEFINE size == r.size
  <2>4. size \in Nat /\ size >= n
    BY <1>4, <2>3
  <2>5. read = ReadEntries(f, Here, size, count, comment, z)
    BY <2>3 DEF read
  <2> HIDE DEF size
  <2>6. read.entries = es
    BY <2>1, <2>4, <2>5, ReadGivesGoal DEF n
  <2> QED BY <2>1, <2>6 DEF try
<1> QED BY <1>5, <1>6

\* A tail's end record leads to its directory, unless its locator was not read.
LEMMA EndCovers ==
  ASSUME NEW f, NEW tail, NEW es, Rewritten(f, tail, es)
  PROVE  LET n == Len(Directory(es))
             e == EndAt(tail, n)
             i == Here + e
         IN  /\ i \in 1..Len(f) /\ f[i] = tail[e] /\ f[i].kind = "end"
             /\ i + f[i].commentLen = Here + Len(tail)
             /\ Covers(RecordOf(f, i), CountOf(f, i), n, Len(es))
             /\ i - 1 > TailStart(f) \/ tail[n + 1].kind = "end" =>
                  /\ RecordOf(f, i).size = n /\ RecordOf(f, i).offset = Here
                  /\ CountOf(f, i) = Len(es)
<1> DEFINE n == Len(Directory(es))
           k == Len(es)
           e == EndAt(tail, n)
           i == Here + e
           r == RecordOf(f, i)
<1>1. /\ Len(f) \in Nat /\ Len(tail) \in Nat /\ Here \in Nat /\ n \in Nat /\ e \in Nat
      /\ n < Len(tail) /\ Here + Len(tail) =< Len(f) /\ e > n /\ e =< Len(tail)
      /\ f \in Text /\ tail \in Text
  BY RewrittenIs
<1>2. \A j \in 1..Len(tail) : f[Here + j] = tail[j]
  BY DEF Rewritten, Holds
<1>3. /\ tail[e].kind = "end" /\ e + tail[e].commentLen = Len(tail)
      /\ \/ /\ tail[n + 1] = End64(k, n, Here)
            /\ tail[n + 2] = Locator(Here + n)
            /\ tail[e].count = CountLimit /\ tail[e].size = FieldLimit
         \/ /\ tail[n + 1].kind = "end" /\ tail[n + 1].count = k
            /\ tail[n + 1].size = n /\ tail[n + 1].offset = Here
  BY DEF Rewritten, IsTail
<1>4. e = IF tail[n + 1].kind = "end64" THEN n + 3 ELSE n + 1
  BY DEF EndAt
<1> HIDE DEF n, k, e
<1>5. i \in 1..Len(f) /\ i \in Nat /\ e \in 1..Len(tail)
  BY <1>1
<1>6. f[i] = tail[e] /\ f[i].kind = "end"
  BY <1>2, <1>3, <1>5
<1>7. f[i] \in Cells
  BY <1>1, <1>5, TextIs
<1>8. f[i].commentLen \in Nat /\ EndsIs(f[i])
  BY <1>6, <1>7, EndCell
<1>9. i + f[i].commentLen = Here + Len(tail)
  <2> DEFINE c == f[i].commentLen
  <2>1. c \in Nat /\ e + c = Len(tail)
    BY <1>3, <1>6, <1>8
  <2> HIDE DEF c
  <2>2. i + c = Here + Len(tail)
    BY <1>1, <2>1
  <2> QED BY <2>2 DEF c
<1>10. ASSUME tail[n + 1] = End64(k, n, Here), tail[n + 2] = Locator(Here + n),
              tail[e].count = CountLimit, tail[e].size = FieldLimit
       PROVE  /\ Covers(r, CountOf(f, i), n, k)
              /\ i - 1 > TailStart(f) => r.size = n /\ r.offset = Here /\ CountOf(f, i) = k
  <2> DEFINE at == i - 1
             there == Here + (n + 1)
  <2>1. e = n + 3
    BY <1>4, <1>10 DEF End64
  <2>2. n + 1 \in 1..Len(tail) /\ n + 2 \in 1..Len(tail) /\ at = Here + (n + 2)
        /\ there \in 1..Len(f) /\ Here + n + 1 = there
    BY <1>1, <2>1
  <2>3. f[at] = Locator(Here + n) /\ f[there] = End64(k, n, Here)
    BY <1>2, <1>10, <2>2
  <2>4. Located(f, i) = there
    BY <2>2, <2>3 DEF Located, Locator
  <2>5. f[at].kind = "locator" /\ f[there].kind = "end64"
    BY <2>3 DEF Locator, End64
  <2>6. there =< Len(f)
    BY <1>1, <2>2
  <2>7. HasEnd64(f, i) <=> i - 1 > TailStart(f)
    BY <2>4, <2>5, <2>6 DEF HasEnd64, HasLocator
  <2> HIDE DEF i, at, there
  <2>8. ASSUME i - 1 > TailStart(f)
        PROVE  r.size = n /\ r.offset = Here /\ CountOf(f, i) = k /\ EndsIs(r)
    <3>1. r = End64(k, n, Here)
      BY <2>3, <2>4, <2>7, <2>8 DEF RecordOf
    <3>2. r.size = n /\ r.offset = Here /\ r.count = k
      BY <3>1 DEF End64
    <3>3. EndsIs(r)
      BY <1>1, <3>2 DEF EndsIs
    <3>4. CountOf(f, i) = r.count
      BY <1>6, <1>10 DEF CountOf
    <3> HIDE DEF r
    <3> QED BY <3>2, <3>3, <3>4
  <2>9. ASSUME ~(i - 1 > TailStart(f)) PROVE r.size = FieldLimit /\ EndsIs(r)
    <3>1. r = f[i]
      BY <2>7, <2>9 DEF RecordOf
    <3> HIDE DEF r
    <3> QED BY <1>6, <1>8, <1>10, <3>1
  <2> HIDE DEF r
  <2> QED BY <2>8, <2>9 DEF Covers
<1>11. ASSUME tail[n + 1].kind = "end", tail[n + 1].count = k, tail[n + 1].size = n,
              tail[n + 1].offset = Here
       PROVE  Covers(r, CountOf(f, i), n, k) /\ r.size = n /\ r.offset = Here /\ CountOf(f, i) = k
  <2> DEFINE at == i - 1
  <2>1. e = n + 1
    BY <1>4, <1>11
  <2>2. at = Here + n
    BY <1>1, <2>1
  <2>3. ~HasLocator(f, i)
    <3>1. ASSUME at > TailStart(f), f[at].kind = "locator" PROVE FALSE
      <4>1. TailStart(f) \in Nat
        BY <1>1, TailStartIs
      <4>2. CASE n = 0
        <5>1. at = Here /\ Here \in 1..Here
          BY <1>1, <2>2, <3>1, <4>1, <4>2
        <5>2. f[Here] = Data[Here]
          BY <5>1 DEF Rewritten, Begins
        <5>3. Data[Here] \in Plain
          BY <5>1, PlainAssumption, ElementOfSeq DEF Here
        <5>4. Data[Here].kind # "locator"
          BY <5>3, PlainAssumption
        <5> QED BY <3>1, <5>1, <5>2, <5>4
      <4>3. CASE n # 0
        <5>1. n \in 1..Len(tail) /\ n \notin n + 1 .. e
          BY <1>1, <4>3
        <5>2. f[at] = tail[n]
          BY <1>2, <2>2, <5>1
        <5>3. n \in DOMAIN tail
          BY <1>1, <5>1, TextIs
        <5>4. tail[n].kind # "locator"
          BY <5>1, <5>3 DEF Rewritten, LegibleTail, OnlyEnds, n, e
        <5> QED BY <3>1, <5>2, <5>4
      <4> QED BY <4>2, <4>3
    <3> QED BY <3>1 DEF HasLocator
  <2>4. r = f[i]
    BY <2>3 DEF RecordOf, HasEnd64
  <2>5. f[i] = tail[n + 1]
    BY <1>6, <2>1
  <2> HIDE DEF i, r
  <2>6. r.size = n /\ r.offset = Here /\ r.count = k /\ f[i].count = k
    BY <1>11, <2>4, <2>5
  <2>7. CountOf(f, i) = k
    BY <2>6 DEF CountOf, r
  <2> QED BY <1>8, <2>4, <2>6, <2>7 DEF Covers
<1>12. /\ Covers(r, CountOf(f, i), n, k)
       /\ i - 1 > TailStart(f) \/ tail[n + 1].kind = "end" =>
            r.size = n /\ r.offset = Here /\ CountOf(f, i) = k
  <2> HIDE DEF i, r
  <2>1. tail[n + 1] = End64(k, n, Here) => tail[n + 1].kind # "end"
    BY DEF End64
  <2> QED BY <1>3, <1>10, <1>11, <2>1
<1> QED BY <1>5, <1>6, <1>9, <1>12 DEF n, k, e

\* An end record left over behind the tail gives a size that takes in more.
LEMMA LeftoverCovers ==
  ASSUME NEW f, NEW tail, NEW es, Rewritten(f, tail, es),
         NEW i \in 1..Len(f), i > Here + Len(tail), f[i].kind = "end"
  PROVE  Covers(RecordOf(f, i), CountOf(f, i), Len(Directory(es)), Len(es))
<1> DEFINE n == Len(Directory(es))
           l == Len(tail)
           r == RecordOf(f, i)
<1>1. /\ Len(f) \in Nat /\ l \in Nat /\ Here \in Nat /\ n \in Nat /\ n < l
      /\ f \in Text /\ tail \in Text /\ Here + l =< Len(f)
  BY RewrittenIs
<1>2. \A p \in 1..Len(f) : PlacedAt(f[p], p)
  <2>1. \A p \in 1..Len(f) : PlacedAt(f[p], 0 + p) /\ 0 + p = p
    BY <1>1 DEF Rewritten, Placed
  <2> QED BY <2>1
<1>3. f[i] \in Cells /\ EndsIs(f[i])
  <2>1. f[i] \in Cells
    BY <1>1, TextIs
  <2> QED BY <2>1, EndCell
<1> HIDE DEF n, l
<1>4. CASE ~HasEnd64(f, i)
  <2>1. r = f[i]
    BY <1>4 DEF RecordOf
  <2>2. r.size = FieldLimit \/ i = Here + r.size + 1
    BY <1>2, <2>1 DEF PlacedAt
  <2> HIDE DEF r
  <2>3. EndsIs(r) /\ r.size \in Nat
    BY <1>3, <2>1 DEF EndsIs
  <2>4. i = Here + r.size + 1 => r.size > n
    <3> DEFINE size == r.size
    <3>1. size \in Nat
      BY <2>3
    <3> HIDE DEF size
    <3>2. i = Here + size + 1 => size > n
      BY <1>1, <3>1, i > Here + Len(tail) DEF l
    <3> QED BY <3>2 DEF size
  <2> QED BY <2>2, <2>3, <2>4 DEF Covers, n, r
<1>5. CASE HasEnd64(f, i)
  <2> DEFINE at == i - 1
             there == Located(f, i)
             size == r.size
  <2>1. r = f[there] /\ r \in Cells /\ r.kind = "end64" /\ EndsIs(r) /\ size \in Nat
    <3>1. f[Located(f, i)] \in Cells /\ f[Located(f, i)].kind = "end64"
      BY <1>1, <1>5, LocatedCell
    <3>2. r = f[there]
      BY <1>5 DEF RecordOf
    <3>3. EndsIs(r)
      BY <3>1, <3>2, End64Cell
    <3> QED BY <3>1, <3>2, <3>3 DEF EndsIs
  <2>2. /\ at > TailStart(f) /\ f[at].kind = "locator" /\ there = f[at].end64 + 1
        /\ there =< Len(f)
    BY <1>5 DEF HasEnd64, HasLocator, Located
  <2>3. at \in 1..Len(f)
    <3>1. TailStart(f) \in Nat
      BY <1>1, TailStartIs
    <3> QED BY <1>1, <2>2, <3>1
  <2> HIDE DEF at
  <2>4. f[at].end64 \in Nat /\ at = f[at].end64 + 2
    <3>1. f[at] \in Cells
      BY <1>1, <2>3, TextIs
    <3>2. PlacedAt(f[at], at)
      BY <1>2, <2>3
    <3> QED BY <2>2, <3>1, <3>2, CellIs DEF PlacedAt
  <2>5. there \in 1..Len(f) /\ there = at - 1
    <3> DEFINE d == f[at].end64
    <3>1. d \in Nat /\ at = d + 2 /\ there = d + 1 /\ there =< Len(f)
      BY <2>2, <2>4
    <3> HIDE DEF d, there
    <3> QED BY <1>1, <3>1
  <2> HIDE DEF there
  <2>6. there = Here + size + 1
    <3>1. PlacedAt(f[there], there)
      BY <1>2, <2>5
    <3> QED BY <2>1, <3>1 DEF PlacedAt
  <2>7. there > Here + l
    <3>1. SUFFICES ASSUME ~(there > Here + l) PROVE FALSE
      OBVIOUS
    <3> DEFINE j == there - Here
    <3>2. j \in 1..l /\ there = Here + j /\ j = size + 1 /\ j + 2 > l
      BY <1>1, <2>1, <2>5, <2>6, <3>1, i > Here + Len(tail) DEF at, l
    <3>3. f[there] = tail[j]
      <4>1. \A k \in 1..l : f[Here + k] = tail[k]
        BY DEF Rewritten, Holds, l
      <4> HIDE DEF j
      <4> QED BY <3>2, <4>1
    <3> HIDE DEF j
    <3>4. j \in DOMAIN tail /\ tail[j].kind = "end64"
      BY <1>1, <2>1, <3>2, <3>3, TextIs DEF l
    <3> DEFINE e == EndAt(tail, n)
    <3>5. j \in n + 1 .. e
      BY <3>4 DEF Rewritten, LegibleTail, OnlyEnds, n
    <3>6. e =< l /\ tail[e].kind = "end"
      BY DEF Rewritten, IsTail, n, l
    <3>7. \/ tail[n + 1] = End64(Len(es), n, Here) /\ tail[n + 2] = Locator(Here + n)
          \/ tail[n + 1].kind = "end"
      BY DEF Rewritten, IsTail, n
    <3>8. CASE tail[n + 1].kind = "end64"
      <4>1. e = n + 3
        BY <3>8 DEF EndAt
      <4>2. tail[n + 2].kind = "locator"
        BY <3>7, <3>8 DEF Locator
      <4> HIDE DEF e
      <4>3. j # n + 2 /\ j # n + 3
        BY <3>4, <3>6, <4>1, <4>2
      <4>4. j = n + 1
        BY <1>1, <3>2, <3>5, <4>1, <4>3
      <4> QED BY <1>1, <3>2, <3>6, <4>1, <4>4
    <3>9. CASE tail[n + 1].kind # "end64"
      <4>1. e = n + 1
        BY <3>9 DEF EndAt
      <4> HIDE DEF e
      <4>2. j = n + 1
        BY <1>1, <3>2, <3>5, <4>1
      <4> QED BY <3>4, <3>9, <4>2
    <3> QED BY <3>8, <3>9
  <2>8. size > n
    <3> HIDE DEF size
    <3> QED BY <1>1, <2>1, <2>6, <2>7
  <2> QED BY <2>1, <2>8 DEF Covers, n
<1> QED BY <1>4, <1>5

\* The comment of the tail holds no end record.
LEMMA CommentHasNoEnd ==
  ASSUME NEW f, NEW tail, NEW es, Rewritten(f, tail, es),
         NEW i \in 1..Len(f), i > Here + EndAt(tail, Len(Directory(es))), i =< Here + Len(tail)
  PROVE  f[i].kind # "end"
<1> DEFINE n == Len(Directory(es))
           e == EndAt(tail, n)
           j == i - Here
<1>1. Here \in Nat /\ Len(tail) \in Nat /\ n \in Nat /\ e \in Nat /\ tail \in Text /\ Len(f) \in Nat
  BY RewrittenIs
<1>2. j \in 1..Len(tail) /\ j > e /\ i = Here + j
  BY <1>1
<1>3. \A k \in 1..Len(tail) : f[Here + k] = tail[k]
  BY DEF Rewritten, Holds
<1> HIDE DEF j, e, n
<1>4. f[i] = tail[j] /\ j \in DOMAIN tail /\ j \notin n + 1 .. e
  BY <1>1, <1>2, <1>3, TextIs
<1> QED BY <1>4 DEF Rewritten, LegibleTail, OnlyEnds, e, n

Candidates(f) == {i \in TailStart(f) + 1 .. Len(f) : f[i].kind = "end" /\ TryParseCdir(f, i) # Passed}

LEMMA ReadIs ==
  ASSUME NEW f \in Text
  PROVE  /\ TailStart(f) \in Nat /\ Candidates(f) \subseteq 0..Len(f)
         /\ Candidates(f) # {} => Max(Candidates(f)) \in Candidates(f)
         /\ ReadCentralDir(f) =
              IF Candidates(f) = {} THEN Failed ELSE TryParseCdir(f, Max(Candidates(f)))
<1> DEFINE S == Candidates(f)
<1>1. TailStart(f) \in Nat /\ Len(f) \in Nat
  BY TextIs, TailStartIs
<1>2. S \subseteq 0..Len(f)
  BY <1>1 DEF Candidates
<1>3. ReadCentralDir(f) = IF S = {} THEN Failed ELSE TryParseCdir(f, Max(S))
  BY DEF ReadCentralDir, Candidates
<1> HIDE DEF S
<1>4. S # {} => Max(S) \in S
  BY <1>1, <1>2, GreatestElement
<1> QED BY <1>1, <1>2, <1>3, <1>4 DEF S

LEMMA EndIsCandidate ==
  ASSUME NEW f, NEW tail, NEW es, Rewritten(f, tail, es),
         Here + EndAt(tail, Len(Directory(es))) > TailStart(f)
  PROVE  Here + EndAt(tail, Len(Directory(es))) \in Candidates(f)
<1> DEFINE n == Len(Directory(es))
           i == Here + EndAt(tail, n)
           comment == CommentOf(f, i)
           z == HasLocator(f, i)
           r == RecordOf(f, i)
           count == CountOf(f, i)
<1>1. f \in Text /\ Len(f) \in Nat /\ Here + Len(tail) =< Len(f) /\ Here \in Nat /\ Len(tail) \in Nat
  BY RewrittenIs
<1>2. i \in 1..Len(f) /\ f[i].kind = "end" /\ i + f[i].commentLen = Here + Len(tail)
  BY EndCovers
<1>3. ~(i + f[i].commentLen > Len(f))
  <2> HIDE DEF i
  <2> QED BY <1>1, <1>2
<1>4. TryParseCdir(f, i) # Passed
  <2>1. TryParseCdir(f, i) = IF IsEmpty(r, count) THEN CentralDir(<<>>, comment, z, 0, 0)
                             ELSE ReadEntries(f, r.offset, r.size, count, comment, z)
    BY <1>3, TryIs
  <2>2. ~Passed.found /\ ~Passed.found /\ Passed.passed /\ ~Failed.passed /\ Passed # Failed
    BY DEF Passed, Failed
  <2>3. \A entries, c, y, offset, size : CentralDir(entries, c, y, offset, size).found
    BY DEF CentralDir
  <2>4. \A entries, c, y, offset, size : CentralDir(entries, c, y, offset, size) # Passed
    BY <2>2, <2>3
  <2>5. \A offset, size, k, c, y : ReadEntries(f, offset, size, k, c, y) # Passed
    BY <2>2, <2>4 DEF ReadEntries
  <2> QED BY <2>1, <2>4, <2>5
<1>5. TailStart(f) \in Nat
  BY <1>1, TailStartIs
<1>6. i \in TailStart(f) + 1 .. Len(f)
  BY <1>1, <1>2, <1>5
<1> QED BY <1>2, <1>4, <1>6 DEF Candidates

\* Once a tail is written, a reader finds its directory or none.
LEMMA NewOrNone ==
  ASSUME NEW f, NEW tail, NEW es, Rewritten(f, tail, es), ReadCentralDir(f).found
  PROVE  ReadCentralDir(f).entries = es
<1> DEFINE n == Len(Directory(es))
           last == Here + EndAt(tail, n)
           S == Candidates(f)
           i == Max(S)
<1>1. /\ f \in Text /\ Len(f) \in Nat /\ Here \in Nat /\ Len(tail) \in Nat /\ n \in Nat
      /\ EndAt(tail, n) \in Nat /\ EndAt(tail, n) =< Len(tail)
  BY RewrittenIs
<1>2. /\ TailStart(f) \in Nat /\ S \subseteq 0..Len(f) /\ (S # {} => i \in S)
      /\ ReadCentralDir(f) = IF S = {} THEN Failed ELSE TryParseCdir(f, i)
  BY <1>1, ReadIs
<1>3. S # {}
  <2>1. ~Failed.found
    BY DEF Failed
  <2> HIDE DEF S, i
  <2> QED BY <1>2, <2>1
<1>4. i \in S /\ ReadCentralDir(f) = TryParseCdir(f, i)
  BY <1>2, <1>3
<1>5. \A j \in S : i >= j
  <2> HIDE DEF S
  <2> QED BY <1>1, <1>2, <1>3, GreatestElement
<1> HIDE DEF i
<1>6. i \in 1..Len(f) /\ f[i].kind = "end" /\ i > TailStart(f)
  BY <1>1, <1>2, <1>4 DEF Candidates
<1>7. i >= last
  <2>1. CASE last > TailStart(f)
    <3>1. last \in S
      BY <2>1, EndIsCandidate
    <3> HIDE DEF last, S
    <3> QED BY <1>5, <3>1
  <2>2. CASE ~(last > TailStart(f))
    <3> HIDE DEF S
    <3> QED BY <1>1, <1>2, <1>6, <2>2
  <2> QED BY <2>1, <2>2
<1>8. i = last \/ i > Here + Len(tail)
  <2>1. i > last /\ i =< Here + Len(tail) => f[i].kind # "end"
    BY <1>6, CommentHasNoEnd
  <2> HIDE DEF S
  <2> QED BY <1>1, <1>6, <1>7, <2>1
<1>9. Covers(RecordOf(f, i), CountOf(f, i), n, Len(es))
  <2>1. i = last => Covers(RecordOf(f, i), CountOf(f, i), n, Len(es))
    BY EndCovers
  <2>2. i > Here + Len(tail) => Covers(RecordOf(f, i), CountOf(f, i), n, Len(es))
    BY <1>6, LeftoverCovers
  <2> QED BY <1>8, <2>1, <2>2
<1>10. TryParseCdir(f, i).found
  BY <1>4
<1>11. TryParseCdir(f, i).entries = es
  BY <1>9, <1>10, CoveringGivesGoal
<1> QED BY <1>4, <1>11

\* In a file that ends with its tail, a reader finds it.
LEMMA TailIsFound ==
  ASSUME NEW f, NEW tail, NEW es, Rewritten(f, tail, es), Len(f) = Here + Len(tail)
  PROVE  ReadCentralDir(f).found
<1> DEFINE n == Len(Directory(es))
           e == EndAt(tail, n)
           i == Here + e
           r == RecordOf(f, i)
           count == CountOf(f, i)
           comment == CommentOf(f, i)
           z == HasLocator(f, i)
           S == Candidates(f)
<1>1. /\ f \in Text /\ Len(f) \in Nat /\ Here \in Nat /\ Len(tail) \in Nat /\ n \in Nat
      /\ e \in Nat /\ e =< Len(tail) /\ e > n
  BY RewrittenIs
<1>2. /\ i \in 1..Len(f) /\ f[i].kind = "end" /\ i + f[i].commentLen = Len(f)
      /\ i - 1 > TailStart(f) \/ tail[n + 1].kind = "end" =>
           r.size = n /\ r.offset = Here /\ count = Len(es)
  BY EndCovers
<1>3. f[i].commentLen \in Nat /\ f[i].commentLen + 2 =< MaxCdBuffer
  <2>1. f[i] \in Cells
    BY <1>1, <1>2, TextIs
  <2>2. PlacedAt(f[i], 0 + i)
    BY <1>2 DEF Rewritten, Placed
  <2> HIDE DEF i
  <2> QED BY <1>2, <2>1, <2>2, EndCell DEF PlacedAt
<1>4. TailStart(f) = 0 \/ TailStart(f) = Len(f) - MaxCdBuffer
  <2> DEFINE m == Min({Len(f), MaxCdBuffer})
  <2>1. MaxCdBuffer \in Nat
    BY LimitAssumption
  <2>2. m \in {Len(f), MaxCdBuffer}
    <3>1. \E x \in {Len(f), MaxCdBuffer} : \A y \in {Len(f), MaxCdBuffer} : x =< y
      BY <1>1, <2>1
    <3>2. m = CHOOSE x \in {Len(f), MaxCdBuffer} : \A y \in {Len(f), MaxCdBuffer} : x =< y
      BY DEF Min
    <3> QED BY <3>1, <3>2
  <2>3. TailStart(f) = Len(f) - m
    BY DEF TailStart
  <2> HIDE DEF m
  <2> QED BY <1>1, <2>1, <2>2, <2>3
<1>5. i > TailStart(f) /\ (i - 1 > TailStart(f) \/ tail[n + 1].kind = "end")
  <2> DEFINE c == f[i].commentLen
             start == TailStart(f)
  <2>1. /\ c \in Nat /\ c + 2 =< MaxCdBuffer /\ i + c = Len(f) /\ i \in 1..Len(f) /\ MaxCdBuffer \in Nat
        /\ start = 0 \/ start = Len(f) - MaxCdBuffer
    BY <1>2, <1>3, <1>4, LimitAssumption
  <2>2. tail[n + 1].kind = "end" \/ e = n + 3
    <3>1. \/ tail[n + 1] = End64(Len(es), n, Here) \/ tail[n + 1].kind = "end"
      BY DEF Rewritten, IsTail
    <3>2. tail[n + 1] = End64(Len(es), n, Here) => tail[n + 1].kind = "end64"
      BY DEF End64
    <3> HIDE DEF n
    <3> QED BY <3>1, <3>2 DEF EndAt
  <2> HIDE DEF c, start, e, n
  <2>3. i > start
    BY <1>1, <2>1
  <2>4. e = n + 3 => i - 1 > start
    BY <1>1, <2>1
  <2> QED BY <2>2, <2>3, <2>4 DEF start
<1>6. i \in S
  BY <1>5, EndIsCandidate
<1>7. /\ TailStart(f) \in Nat /\ S \subseteq 0..Len(f) /\ Max(S) \in S
      /\ ReadCentralDir(f) = TryParseCdir(f, Max(S))
  BY <1>1, <1>6, ReadIs
<1>8. \A j \in S : j =< i
  <2> SUFFICES ASSUME NEW j \in S, j > i PROVE FALSE
    <3> HIDE DEF S, i
    <3>1. \A j \in S : j \in Int
      BY <1>7
    <3>2. i \in Int
      BY <1>2
    <3> QED BY <3>1, <3>2
  <2>1. j \in 1..Len(f) /\ f[j].kind = "end"
    BY <1>1, <1>7 DEF Candidates
  <2>2. j > Here + e /\ j =< Here + Len(tail)
    <3> HIDE DEF S, e
    <3> QED BY <2>1
  <2>3. f[j].kind # "end"
    BY <2>1, <2>2, CommentHasNoEnd
  <2> QED BY <2>1, <2>3
<1>9. Max(S) = i
  <2> HIDE DEF S, i
  <2> QED BY <1>1, <1>6, <1>7, <1>8, GreatestIs
<1>10. TryParseCdir(f, i).found
  <2> DEFINE read == ReadEntries(f, r.offset, r.size, count, comment, z)
             empty == CentralDir(<<>>, comment, z, 0, 0)
  <2>1. TryParseCdir(f, i) = IF i + f[i].commentLen > Len(f) THEN Passed
                             ELSE IF IsEmpty(r, count) THEN empty ELSE read
    BY TryIs
  <2>2. ~(i + f[i].commentLen > Len(f))
    <3> HIDE DEF i
    <3> QED BY <1>1, <1>2
  <2>3. empty.found
    BY DEF CentralDir
  <2>4. read.found
    <3>1. r.size = n /\ r.offset = Here /\ count = Len(es)
      BY <1>2, <1>5
    <3> HIDE DEF r, count, comment, z
    <3> QED BY <3>1, ReadFinds
  <2> HIDE DEF read, empty
  <2> QED BY <2>1, <2>2, <2>3, <2>4
<1> QED BY <1>7, <1>9, <1>10

----------------------------------------------------------------------------
(* Where records are, through the calls.                                   *)

LEMMA PlainPlaced ==
  ASSUME NEW c \in Plain, NEW p
  PROVE  PlacedAt(c, p)
<1>1. c.kind \notin {"head", "end64", "locator", "end"}
  BY PlainAssumption
<1> QED BY <1>1 DEF PlacedAt

LEMMA TailPlaced ==
  ASSUME NEW tail, NEW es, IsTail(tail, es), OnlyEnds(tail, Len(Directory(es))),
         tail[EndAt(tail, Len(Directory(es)))].commentLen + 2 =< MaxCdBuffer
  PROVE  Placed(tail, Here)
<1> DEFINE n == Len(Directory(es))
           e == EndAt(tail, n)
<1>1. n \in Nat /\ Here \in Nat /\ Len(tail) \in Nat /\ DOMAIN tail = 1..Len(tail)
  <2>1. tail \in Text /\ es \in Entries
    BY DEF IsTail
  <2> QED BY <2>1, HereIsNat, DirectoryText, TextIs
<1>2. /\ tail[e].kind = "end" /\ tail[e].commentLen + 2 =< MaxCdBuffer
      /\ \/ /\ tail[n + 1] = End64(Len(es), n, Here)
            /\ tail[n + 2] = Locator(Here + n) /\ tail[e].size = FieldLimit
         \/ tail[n + 1].kind = "end" /\ tail[n + 1].size = n
  BY DEF IsTail
<1>3. \A i \in 1..Len(tail) : tail[i].kind \in {"end64", "locator", "end"} => i \in n + 1 .. e
  BY <1>1 DEF OnlyEnds
<1>4. e = IF tail[n + 1].kind = "end64" THEN n + 3 ELSE n + 1
  BY DEF EndAt
<1> HIDE DEF n, e
<1> SUFFICES ASSUME NEW i \in 1..Len(tail) PROVE PlacedAt(tail[i], Here + i)
  BY DEF Placed
<1>5. CASE tail[i].kind \notin {"end64", "locator", "end"}
  BY <1>5 DEF PlacedAt
<1>6. ASSUME i \in n + 1 .. e, tail[n + 1] = End64(Len(es), n, Here),
             tail[n + 2] = Locator(Here + n), tail[e].size = FieldLimit
      PROVE  PlacedAt(tail[i], Here + i)
  <2>1. tail[n + 1].kind = "end64" /\ tail[n + 1].size = n
    BY <1>6 DEF End64
  <2>2. e = n + 3
    BY <1>4, <2>1
  <2>3. i = n + 1 \/ i = n + 2 \/ i = e
    BY <1>1, <1>6, <2>2
  <2>4. CASE i = n + 1
    <3>1. Here + i = Here + n + 1
      BY <1>1, <2>4
    <3>2. tail[i].kind = "end64" /\ tail[i].size = n
      BY <2>1, <2>4
    <3> QED BY <3>1, <3>2 DEF PlacedAt
  <2>5. CASE i = n + 2
    <3>1. tail[i].kind = "locator" /\ tail[i].end64 = Here + n
      BY <1>6, <2>5 DEF Locator
    <3>2. Here + i = Here + n + 2
      BY <1>1, <2>5
    <3> QED BY <3>1, <3>2 DEF PlacedAt
  <2>6. CASE i = e
    BY <1>2, <1>6, <2>6 DEF PlacedAt
  <2> QED BY <2>3, <2>4, <2>5, <2>6
<1>7. ASSUME i \in n + 1 .. e, tail[n + 1].kind = "end", tail[n + 1].size = n
      PROVE  PlacedAt(tail[i], Here + i)
  <2>1. e = n + 1
    BY <1>4, <1>7
  <2>2. i = n + 1 /\ i = e
    BY <1>1, <1>7, <2>1
  <2>3. Here + i = Here + n + 1
    BY <1>1, <2>2
  <2>4. tail[i].kind = "end" /\ tail[i].size = n /\ tail[i].commentLen + 2 =< MaxCdBuffer
    BY <1>2, <1>7, <2>2
  <2> QED BY <2>3, <2>4 DEF PlacedAt
<1> QED BY <1>2, <1>3, <1>5, <1>6, <1>7

LEMMA ConcatPlaced ==
  ASSUME NEW s \in Text, NEW t \in Text, NEW from \in Nat, Placed(s, from), Placed(t, from + Len(s))
  PROVE  Placed(s \o t, from)
<1> DEFINE m == Len(s)
           n == Len(t)
           both == s \o t
<1>1. m \in Nat /\ n \in Nat /\ Len(both) = m + n
  BY TextIs, TextConcat
<1>2. (\A i \in 1..m : both[i] = s[i]) /\ \A j \in 1..n : both[m + j] = t[j]
  BY TextConcatAt
<1>3. (\A i \in 1..m : PlacedAt(s[i], from + i)) /\ \A j \in 1..n : PlacedAt(t[j], from + m + j)
  BY DEF Placed
<1> HIDE DEF m, n, both
<1> SUFFICES ASSUME NEW i \in 1..(m + n) PROVE PlacedAt(both[i], from + i)
  BY <1>1 DEF Placed, both
<1>4. CASE i =< m
  <2>1. i \in 1..m
    BY <1>1, <1>4
  <2> QED BY <1>2, <1>3, <2>1
<1>5. CASE ~(i =< m)
  <2> DEFINE j == i - m
  <2>1. j \in 1..n /\ i = m + j /\ from + i = from + m + j
    BY <1>1, <1>5
  <2> HIDE DEF j
  <2>2. both[i] = t[j]
    BY <1>2, <2>1
  <2> QED BY <1>3, <2>1, <2>2
<1> QED BY <1>4, <1>5

\* The directory of entries that there are at first holds heads and names.
LEMMA NamedDirectory ==
  ASSUME NEW es \in Seq([at : Nat, name : Names])
  PROVE  Directory(es) \in Seq(Plain \cup Heads)
<1> DEFINE X == Plain \cup Heads
           Named == [at : Nat, name : Names]
           n == Len(es)
           seqs == [k \in DOMAIN es |-> Record(es[k])]
<1>1. n \in Nat /\ DOMAIN es = 1..n /\ \A k \in 1..n : es[k] \in Named
  <2> HIDE DEF Named
  <2>1. es \in Seq(Named)
    BY DEF Named
  <2> QED BY <2>1, LenProperties, ElementOfSeq
<1>2. ASSUME NEW k \in 1..n PROVE Record(es[k]) \in Seq(X)
  <2> DEFINE name == es[k].name
             one == <<FixedPart(es[k])>>
  <2>1. es[k].at \in Nat /\ name \in Seq(Plain)
    <3>1. es[k] \in Named
      BY <1>1
    <3> QED BY <3>1, PlainAssumption
  <2>2. Len(name) \in Nat
    BY <2>1, LenProperties
  <2>3. FixedPart(es[k]) \in Heads
    BY <2>1, <2>2 DEF FixedPart, Heads
  <2>4. FixedPart(es[k]) \in X
    BY <2>3
  <2>5. Plain \subseteq X
    OBVIOUS
  <2>6. Record(es[k]) = one \o name
    BY DEF Record
  <2> HIDE DEF X, name
  <2>7. one \in Seq(X)
    BY <2>4
  <2>8. name \in Seq(X)
    BY <2>1, <2>5, SeqMonotonic
  <2> HIDE DEF one
  <2> QED BY <2>6, <2>7, <2>8, ConcatProperties
<1> HIDE DEF X, n
<1>3. seqs \in [1..n -> Seq(X)]
  BY <1>1, <1>2
<1>4. Directory(es) = FlattenSeq(seqs)
  BY DEF Directory
<1> HIDE DEF seqs
<1>5. seqs \in Seq(Seq(X))
  BY <1>1, <1>3, SeqDef
<1>6. FlattenSeq(seqs) \in Seq(X)
  BY <1>5, FlatSeq
<1> QED BY <1>4, <1>6 DEF X

\* The archive there is at first.
LEMMA ArchivePlaced ==
  ASSUME NEW cd, cd.entries \in Seq([at : Nat, name : Names]), cd.comment \in Seq(Plain),
         cd.offset = Here, Len(cd.comment) + 2 =< MaxCdBuffer, cd.entries \in Entries
  PROVE  Placed(Serialize(cd), Here)
<1> DEFINE tail == Serialize(cd)
           es == cd.entries
           dir == Directory(es)
           n == Len(dir)
           e == EndAt(tail, n)
           m == Len(cd.comment)
<1>1. cd.comment \in Text /\ m \in Nat
  BY PlainText, LenProperties
<1>2. /\ IsTail(tail, es) /\ tail[e].commentLen = m
      /\ \A j \in 1..m : tail[e + j] = cd.comment[j]
  BY <1>1, SerializeIsTail
<1>3. dir \in Seq(Plain \cup Heads)
  BY NamedDirectory
<1> HIDE DEF tail, e, dir
<1>4. \A c \in Plain \cup Heads : c.kind \notin {"end64", "locator", "end"}
  <2>1. \A c \in Heads : c.kind = "head"
    BY DEF Heads
  <2>2. \A c \in Plain : c.kind \notin {"head", "end64", "locator", "end"}
    BY PlainAssumption
  <2> QED BY <2>1, <2>2
<1>5. /\ n \in Nat /\ \A i \in 1..n : dir[i] \in Plain \cup Heads
  <2> DEFINE X == Plain \cup Heads
  <2>1. dir \in Seq(X)
    BY <1>3
  <2> HIDE DEF X
  <2>2. n \in Nat /\ \A i \in 1..n : dir[i] \in X
    BY <2>1, LenProperties, ElementOfSeq
  <2> QED BY <2>2 DEF X
<1>6. /\ tail \in Text /\ e =< Len(tail) /\ e + m = Len(tail)
      /\ \A i \in 1..n : tail[i] = dir[i]
  BY <1>2 DEF IsTail, e, dir
<1>7. e \in Nat
  BY <1>5 DEF e, EndAt
<1>8. OnlyEnds(tail, n)
  <2> SUFFICES ASSUME NEW i \in DOMAIN tail, tail[i].kind \in {"end64", "locator", "end"}
               PROVE  i \in n + 1 .. e
    BY DEF OnlyEnds, e
  <2>1. i \in 1..Len(tail) /\ Len(tail) \in Nat
    BY <1>6, TextIs
  <2>2. CASE i =< n
    <3>1. i \in 1..n
      BY <1>5, <2>1, <2>2
    <3>2. tail[i] \in Plain \cup Heads
      BY <1>5, <1>6, <3>1
    <3> QED BY <1>4, <3>2
  <2>3. CASE i > e
    <3> DEFINE j == i - e
    <3>1. j \in 1..m /\ i = e + j
      BY <1>1, <1>6, <1>7, <2>1, <2>3
    <3> HIDE DEF j
    <3>2. tail[i] = cd.comment[j]
      BY <1>2, <3>1
    <3>3. cd.comment[j] \in Plain
      BY <3>1, ElementOfSeq
    <3> QED BY <1>4, <3>2, <3>3
  <2> QED BY <1>5, <1>7, <2>1, <2>2, <2>3
<1>9. tail[e].commentLen + 2 =< MaxCdBuffer
  BY <1>2
<1>10. Placed(tail, Here)
  BY <1>2, <1>8, <1>9, TailPlaced DEF e, dir
<1> QED BY <1>10 DEF tail

\* The comment of a directory that is found fits as well.
LEMMA ReadComment ==
  ASSUME NEW f \in Text, Placed(f, 0), ReadCentralDir(f).found
  PROVE  Len(ReadCentralDir(f).comment) + 2 =< MaxCdBuffer
<1> DEFINE S == Candidates(f)
           i == Max(S)
           c == f[i].commentLen
           comment == CommentOf(f, i)
           r == RecordOf(f, i)
           count == CountOf(f, i)
           z == HasLocator(f, i)
           read == ReadEntries(f, r.offset, r.size, count, comment, z)
           empty == CentralDir(<<>>, comment, z, 0, 0)
           try == TryParseCdir(f, i)
<1>1. Len(f) \in Nat
  BY TextIs
<1>2. /\ TailStart(f) \in Nat /\ S \subseteq 0..Len(f) /\ (S # {} => i \in S)
      /\ ReadCentralDir(f) = IF S = {} THEN Failed ELSE try
  BY ReadIs
<1>3. ~Failed.found /\ ~Passed.found
  BY DEF Failed, Passed
<1>4. i \in S /\ ReadCentralDir(f) = try /\ try.found
  <2> HIDE DEF S, i, try
  <2> QED BY <1>2, <1>3
<1>5. i \in 1..Len(f) /\ f[i].kind = "end"
  <2> HIDE DEF i
  <2> QED BY <1>1, <1>2, <1>4 DEF Candidates
<1>6. c \in Nat /\ c + 2 =< MaxCdBuffer
  <2> HIDE DEF i
  <2>1. f[i] \in Cells
    BY <1>5, TextIs
  <2>2. PlacedAt(f[i], 0 + i)
    BY <1>5 DEF Placed
  <2> QED BY <1>5, <2>1, <2>2, EndCell DEF PlacedAt
<1>7. try = IF i + c > Len(f) THEN Passed ELSE IF IsEmpty(r, count) THEN empty ELSE read
  BY TryIs
<1>8. empty.comment = comment
  BY DEF CentralDir
<1>9. read = Failed \/ read.comment = comment
  <2> HIDE DEF i, comment, r, count, z
  <2>1. \A entries : CentralDir(entries, comment, z, r.offset, r.size).comment = comment
    BY DEF CentralDir
  <2> QED BY <2>1 DEF ReadEntries
<1>10. CommentOf(f, i) = SubSeq(f, i + 1, i + c)
  BY DEF CommentOf
<1> HIDE DEF S, i, c, comment, read, empty, try
<1>11. ~(i + c > Len(f)) /\ try.comment = comment
  <2> HIDE DEF r, count, z
  <2> QED BY <1>3, <1>4, <1>7, <1>8, <1>9
<1>12. Len(comment) = c
  <2> DEFINE first == i + 1
             last == i + c
  <2>1. first \in Nat /\ last \in Nat /\ first > 0 /\ last =< Len(f)
    BY <1>1, <1>5, <1>6, <1>11
  <2>2. (IF first =< last THEN last - first + 1 ELSE 0) = c
    BY <1>1, <1>5, <1>6
  <2>3. comment = SubSeq(f, first, last)
    BY <1>10 DEF comment
  <2> HIDE DEF first, last
  <2> QED BY <2>1, <2>2, <2>3, TextPart
<1> QED BY <1>4, <1>6, <1>11, <1>12

\* What the calls serialize, a reader can take.
Legible == modify.busy => LegibleTail(modify.tail, goal)

\* The tail under way is one of the goal, and so far it is in the file.
UnderWay ==
  modify.busy =>
    /\ IsTail(modify.tail, goal) /\ Placed(modify.tail, Here)
    /\ \A i \in 1..modify.written : file[Here + i] = modify.tail[i]
    /\ returned = "none"

EditInv == ModifyInv /\ Placed(file, 0) /\ UnderWay /\ SuccessIsEdited

LEMMA InitEdit == Init => EditInv
<1> SUFFICES ASSUME Init PROVE EditInv
  OBVIOUS
<1>1. ModifyInv
  BY InitInv
<1>2. PICK cd \in Archives, j \in Junk :
        file = Data \o Serialize([cd EXCEPT !.offset = Len(Data)]) \o j
  BY DEF Init
<1> DEFINE from == [cd EXCEPT !.offset = Len(Data)]
           tail == Serialize(from)
           most == Data \o tail
<1>3. /\ cd.entries \in Seq([at : Nat, name : Names]) /\ cd.comment \in Seq(Plain)
      /\ from.entries = cd.entries /\ from.comment = cd.comment /\ from.offset = Here
      /\ Len(cd.comment) + 2 =< MaxCdBuffer
  <2>1. cd \in [entries : Seq([at : Nat, name : Names]), comment : Seq(Plain),
                isZip64 : BOOLEAN, offset : Nat]
    BY PlainAssumption
  <2>2. Len(cd.comment) + 2 =< MaxCdBuffer
    BY CommentAssumption
  <2> QED BY <2>1, <2>2 DEF Here
<1>4. cd.entries \in Entries /\ cd.comment \in Text
  <2> DEFINE Named == [at : Nat, name : Names]
             Entry == [at : Nat, name : Text]
  <2>1. \A name \in Names : name \in Text
    BY PlainAssumption, PlainText
  <2>2. Named \subseteq Entry
    BY <2>1
  <2>3. cd.entries \in Seq(Named)
    BY <1>3
  <2> HIDE DEF Named, Entry
  <2>4. cd.entries \in Seq(Entry)
    BY <2>2, <2>3, SeqMonotonic
  <2> QED BY <1>3, <2>4, PlainText DEF Entries, Entry
<1>5. file = most \o j
  BY <1>2
<1> HIDE DEF from
<1>6. tail \in Text /\ Placed(tail, Here)
  <2>1. tail \in Text
    BY <1>3, <1>4, SerializeText
  <2>2. Placed(tail, Here)
    BY <1>3, <1>4, ArchivePlaced
  <2> QED BY <2>1, <2>2
<1>7. Data \in Seq(Plain) /\ j \in Seq(Plain) /\ Data \in Text /\ j \in Text /\ Here \in Nat
  BY PlainAssumption, PlainText, HereIsNat
<1>8. \A from_ : Placed(Data, from_) /\ Placed(j, from_)
  <2>1. \A p \in 1..Len(Data) : Data[p] \in Plain
    BY <1>7, ElementOfSeq
  <2>2. \A p \in 1..Len(j) : j[p] \in Plain
    BY <1>7, ElementOfSeq
  <2> QED BY <2>1, <2>2, PlainPlaced DEF Placed
<1> HIDE DEF tail
<1>9. most \in Text /\ Placed(most, 0)
  <2> DEFINE none == 0
  <2>1. none \in Nat /\ none + Len(Data) = Here
    BY <1>7 DEF Here
  <2>2. Placed(Data, none) /\ Placed(tail, none + Len(Data))
    BY <1>6, <1>8, <2>1
  <2> HIDE DEF none
  <2>3. Placed(Data \o tail, none)
    BY <1>6, <1>7, <2>1, <2>2, ConcatPlaced
  <2> QED BY <1>6, <1>7, <2>3, TextConcat DEF none
<1> HIDE DEF most
<1>10. Placed(file, 0)
  <2> DEFINE none == 0
  <2>1. none \in Nat /\ Placed(most, none) /\ Placed(j, none + Len(most))
    BY <1>8, <1>9
  <2> HIDE DEF none
  <2>2. Placed(most \o j, none)
    BY <1>7, <1>9, <2>1, ConcatPlaced
  <2> QED BY <1>5, <2>2 DEF none
<1>11. ~modify.busy /\ returned = "none"
  BY DEF Init, Idle
<1> QED BY <1>1, <1>10, <1>11 DEF EditInv, UnderWay, SuccessIsEdited

LEMMA ModifyArchiveFileEdit ==
  ASSUME EditInv, Legible', NEW renames \in Renames, NEW deletes, ModifyArchiveFile(renames, deletes)
  PROVE  EditInv'
<1> DEFINE cd == ReadCentralDir(file)
<1>1. ModifyInv /\ Placed(file, 0) /\ file \in Text
  BY DEF EditInv, ModifyInv
<1>2. ModifyInv'
  BY <1>1, ModifyArchiveFileKeeps
<1>3. PICK new : /\ Opened(cd) /\ new.entries = Edited(cd.entries, renames, deletes)
                 /\ new.entries \in Entries /\ new.comment = cd.comment
                 /\ new.comment \in Text /\ new.offset = Here
                 /\ file' = file
                 /\ modify' = [busy |-> TRUE, offset |-> Here, written |-> 0, tail |-> Serialize(new)]
  BY <1>1, ModifyArchiveFileIs
<1>4. cd.found /\ goal' = Asked(cd.entries, renames, deletes) /\ returned' = "none"
  BY DEF ModifyArchiveFile
<1>5. goal' = new.entries
  <2>1. cd.entries \in Entries
    BY <1>3 DEF Opened
  <2> HIDE DEF cd
  <2> QED BY <1>3, <1>4, <2>1, EditedIsAsked
<1>6. Len(new.comment) + 2 =< MaxCdBuffer
  BY <1>1, <1>3, <1>4, ReadComment
<1> HIDE DEF cd
<1>7. modify'.busy /\ modify'.tail = Serialize(new) /\ modify'.written = 0
  BY <1>3
<1> DEFINE tail == modify'.tail
           es == goal'
           e == EndAt(tail, Len(Directory(es)))
<1>8. IsTail(tail, es) /\ tail[e].commentLen = Len(new.comment)
  <2>1. /\ IsTail(Serialize(new), new.entries)
        /\ Serialize(new)[EndAt(Serialize(new), Len(Directory(new.entries)))].commentLen = Len(new.comment)
    BY <1>3, SerializeIsTail
  <2> QED BY <1>5, <1>7, <2>1
<1>9. LegibleTail(tail, es)
  BY <1>7 DEF Legible
<1>10. Placed(tail, Here)
  <2>1. tail[e].commentLen + 2 =< MaxCdBuffer
    BY <1>6, <1>8
  <2> HIDE DEF tail, es
  <2> QED BY <1>8, <1>9, <2>1, TailPlaced DEF LegibleTail
<1>11. UnderWay'
  <2>1. 1..modify'.written = {}
    BY <1>7
  <2>2. Here' = Here
    BY DEF Here
  <2> QED BY <1>4, <1>8, <1>10, <2>1, <2>2 DEF UnderWay, IsTail, Placed, PlacedAt, Here
<1>12. SuccessIsEdited'
  BY <1>4 DEF SuccessIsEdited
<1>13. Placed(file, 0)'
  BY <1>1, <1>3 DEF Placed, PlacedAt, Here
<1> QED BY <1>2, <1>11, <1>12, <1>13 DEF EditInv

LEMMA WriteAllEdit ==
  ASSUME EditInv, WriteAll
  PROVE  EditInv'
<1> DEFINE w == modify.written
           p == Here + (w + 1)
           tail == modify.tail
<1>1. /\ ModifyInv /\ Placed(file, 0) /\ modify.busy
      /\ IsTail(tail, goal) /\ Placed(tail, Here) /\ returned = "none"
      /\ \A i \in 1..w : file[Here + i] = tail[i]
  BY DEF EditInv, UnderWay, WriteAll
<1>2. ModifyInv'
  BY <1>1, WriteAllKeeps
<1>3. /\ file' \in Text /\ Len(file') >= Len(file) /\ Len(file') >= p
      /\ w \in Nat /\ w + 1 \in 1..Len(tail)
      /\ modify'.busy = modify.busy /\ modify'.tail = tail /\ modify'.written = w + 1
      /\ \A i \in 1..Len(file') : /\ file'[i] = IF i = p THEN tail[w + 1] ELSE file[i]
                                  /\ i # p => i \in 1..Len(file)
  BY <1>1, WriteAllIs
<1>4. goal' = goal /\ returned' = returned
  BY DEF WriteAll
<1>5. Here \in Nat /\ Len(file') \in Nat
  BY <1>3, HereIsNat, TextIs
<1> HIDE DEF w, tail
<1>6. Placed(file', 0)
  <2> SUFFICES ASSUME NEW i \in 1..Len(file') PROVE PlacedAt(file'[i], 0 + i)
    BY DEF Placed
  <2>1. 0 + i = i
    BY <1>5
  <2>2. CASE i = p
    <3>1. PlacedAt(tail[w + 1], Here + (w + 1))
      BY <1>1, <1>3 DEF Placed
    <3> QED BY <1>3, <2>1, <2>2, <3>1
  <2>3. CASE i # p
    <3>1. i \in 1..Len(file) /\ file'[i] = file[i]
      BY <1>3, <2>3
    <3>2. PlacedAt(file[i], 0 + i)
      BY <1>1, <3>1 DEF Placed
    <3> QED BY <3>1, <3>2
  <2> QED BY <2>2, <2>3
<1>7. \A i \in 1..(w + 1) : file'[Here + i] = tail[i]
  <2> TAKE i \in 1..(w + 1)
  <2> DEFINE q == Here + i
  <2>1. q \in 1..Len(file') /\ (i # w + 1 => i \in 1..w /\ q # p) /\ (i = w + 1 => q = p)
    BY <1>3, <1>5
  <2>2. file'[q] = IF q = p THEN tail[w + 1] ELSE file[q]
    <3> HIDE DEF q, p
    <3> QED BY <1>3, <2>1
  <2>3. i # w + 1 => file[q] = tail[i]
    BY <1>1, <2>1
  <2> HIDE DEF q, p
  <2>4. file'[q] = tail[i]
    BY <2>1, <2>2, <2>3
  <2> QED BY <2>4 DEF q
<1>8. UnderWay'
  BY <1>1, <1>3, <1>4, <1>7 DEF UnderWay, IsTail, Placed, PlacedAt, Here
<1>9. SuccessIsEdited'
  BY <1>1, <1>4 DEF SuccessIsEdited
<1>10. Placed(file, 0)'
  BY <1>6 DEF Placed, PlacedAt, Here
<1> QED BY <1>2, <1>8, <1>9, <1>10 DEF EditInv

\* When everything is written, the tail is in the file.
LEMMA WrittenIs ==
  ASSUME EditInv, Legible, AllWritten
  PROVE  Rewritten(file, modify.tail, goal)
<1>1. /\ ModifyInv /\ Placed(file, 0) /\ modify.busy /\ modify.written = Len(modify.tail)
      /\ IsTail(modify.tail, goal)
      /\ \A i \in 1..modify.written : file[Here + i] = modify.tail[i]
  BY DEF EditInv, UnderWay, AllWritten
<1>2. LegibleTail(modify.tail, goal)
  BY <1>1 DEF Legible
<1>3. file \in Text /\ Begins(file) /\ Len(file) >= Here + modify.written
  BY <1>1, UntouchedIs DEF ModifyInv, CallOK
<1>4. Holds(file, modify.tail)
  BY <1>1, <1>3 DEF Holds
<1> QED BY <1>1, <1>2, <1>3, <1>4 DEF Rewritten

\* The file that is cut ends with the tail.
LEMMA SetLenEdit ==
  ASSUME EditInv, Legible, SetLen
  PROVE  EditInv'
<1> DEFINE tail == modify.tail
<1>1. ModifyInv /\ AllWritten
  BY DEF EditInv, SetLen
<1>2. ModifyInv'
  BY <1>1, SetLenKeeps
<1>3. Rewritten(file, tail, goal)
  BY <1>1, WrittenIs
<1>4. /\ file' \in Text /\ Len(file') = Here + Len(tail) /\ Len(file') =< Len(file)
      /\ \A i \in 1..Len(file') : file'[i] = file[i]
  BY <1>1, SetLenIs
<1>5. ~modify'.busy /\ goal' = goal
  BY DEF SetLen, Idle
<1>6. /\ Here \in Nat /\ Len(file') \in Nat /\ Len(file) \in Nat /\ Len(tail) \in Nat
  <2>1. Here \in Nat /\ Len(file) \in Nat /\ Len(tail) \in Nat
    BY <1>3, RewrittenIs
  <2> QED BY <1>4, <2>1, TextIs
<1> HIDE DEF tail
<1>7. \A i \in 1..Len(file') : i \in 1..Len(file)
  BY <1>4, <1>6
<1>8. Placed(file', 0)
  BY <1>3, <1>4, <1>7 DEF Rewritten, Placed
<1>9. Begins(file')
  <2>1. \A i \in 1..Here : i \in 1..Len(file')
    BY <1>4, <1>6
  <2>2. Len(file') >= Here
    BY <1>4, <1>6
  <2> QED BY <1>3, <1>4, <2>1, <2>2 DEF Rewritten, Begins
<1>10. Holds(file', tail)
  <2>1. \A i \in 1..Len(tail) : Here + i \in 1..Len(file')
    BY <1>4, <1>6
  <2>2. \A i \in 1..Len(tail) : file[Here + i] = tail[i]
    BY <1>3 DEF Rewritten, Holds
  <2>3. Len(file') >= Here + Len(tail)
    BY <1>4, <1>6
  <2> QED BY <1>4, <2>1, <2>2, <2>3 DEF Holds
<1>11. Rewritten(file', tail, goal)
  BY <1>3, <1>4, <1>8, <1>9, <1>10 DEF Rewritten
<1>12. ReadCentralDir(file').found /\ ReadCentralDir(file').entries = goal
  BY <1>4, <1>11, TailIsFound, NewOrNone
<1>13. SuccessIsEdited'
  BY <1>5, <1>12 DEF SuccessIsEdited
<1>14. UnderWay'
  BY <1>5 DEF UnderWay
<1>15. Placed(file, 0)'
  BY <1>8 DEF Placed, PlacedAt, Here
<1> QED BY <1>2, <1>13, <1>14, <1>15 DEF EditInv

LEMMA StopEdit ==
  ASSUME EditInv, Stop
  PROVE  EditInv'
<1>1. ModifyInv /\ Placed(file, 0)
  BY DEF EditInv
<1>2. file' = file /\ ~modify'.busy /\ returned' = "error"
  BY DEF Stop, Idle
<1>3. ModifyInv'
  BY <1>1, StopKeeps
<1> QED BY <1>1, <1>2, <1>3 DEF EditInv, UnderWay, SuccessIsEdited, Placed, PlacedAt, Here

LEMMA NextEdit ==
  ASSUME EditInv, Legible, Legible', [Next]_vars
  PROVE  EditInv'
<1>1. CASE \E renames \in Renames, deletes \in Deletes : ModifyArchiveFile(renames, deletes)
  BY <1>1, ModifyArchiveFileEdit
<1>2. CASE WriteAll
  BY <1>2, WriteAllEdit
<1>3. CASE SetLen
  BY <1>3, SetLenEdit
<1>4. CASE Stop
  BY <1>4, StopEdit
<1>5. CASE UNCHANGED vars
  <2>1. file' = file /\ modify' = modify /\ goal' = goal /\ returned' = returned
    BY <1>5 DEF vars
  <2>2. ModifyInv'
    BY <1>5, NextInv DEF EditInv
  <2> QED BY <2>1, <2>2 DEF EditInv, UnderWay, SuccessIsEdited
<1> QED BY <1>1, <1>2, <1>3, <1>4, <1>5 DEF Next

----------------------------------------------------------------------------
(* The theorems.                                                           *)

\* A call of modify_archive_file that succeeds leaves the entries asked for, if
\* what the calls serialize is legible: ZIP64 or not, upon whatever torn tails
\* stopped calls have left.
THEOREM SuccessLeavesTheGoal == Spec /\ []Legible => []SuccessIsEdited
<1>1. Init => EditInv
  BY InitEdit
<1>2. EditInv /\ Legible /\ Legible' /\ [Next]_vars => EditInv'
  BY NextEdit
<1>3. EditInv => SuccessIsEdited
  BY DEF EditInv
<1> QED BY <1>1, <1>2, <1>3, PTL DEF Spec

\* Before the file is cut, a reader of a legible tail that is written in full
\* finds the new entries or an error: no end record left over behind it, whatever
\* call left it, leads to others.
THEOREM WrittenTailIsNewOrError == Spec /\ []Legible => []WrittenIsNewOrError
<1>1. Init => EditInv
  BY InitEdit
<1>2. EditInv /\ Legible /\ Legible' /\ [Next]_vars => EditInv'
  BY NextEdit
<1>3. EditInv /\ Legible => WrittenIsNewOrError
  <2> SUFFICES ASSUME EditInv, Legible, AllWritten, ReadCentralDir(file).found
               PROVE  ReadCentralDir(file).entries = goal
    BY DEF WrittenIsNewOrError
  <2>1. Rewritten(file, modify.tail, goal)
    BY WrittenIs
  <2> QED BY <2>1, NewOrNone
<1> QED BY <1>1, <1>2, <1>3, PTL DEF Spec
=============================================================================
