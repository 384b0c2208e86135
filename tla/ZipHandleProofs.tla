---------------------------- MODULE ZipHandleProofs ----------------------------
(***************************************************************************)
(* The theorems about ZipHandle.  Inv is inductive: besides the types and   *)
(* the agreement of the comment overlays with the staged operations it says *)
(* that a read-only handle has nothing staged, which is why the guard of    *)
(* each setter is enough to keep zip_close from writing.                    *)
(*                                                                         *)
(* The second half is about careful clients.  StagingInv adds to Inv that   *)
(* what is staged belongs to an entry that exists, that only entries on     *)
(* disk are renamed or replaced, and that the file is still the one the     *)
(* session read; with it each step of CarefulSpec is a step of ArchiveEdit, *)
(* or changes nothing that ArchiveEdit speaks of.                           *)
(***************************************************************************)
EXTENDS ZipHandle, FiniteSetTheorems, SequenceTheorems, WellFoundedInduction,
        TLAPS

\* A non-empty set of naturals has a least element: the induction principle of
\* this module, since the loop of materialize is defined by recursion.
LEMMA LeastElement ==
  ASSUME NEW S \in SUBSET Nat, S # {}
  PROVE  \E m \in S : \A k \in S : m =< k
<1> DEFINE Sub == StrictSubsetOrdering(Nat)
           T == {0 .. n : n \in S}
<1>1. IsWellFoundedOn(Sub, FiniteSubsetsOf(Nat))
  BY FS_StrictSubsetOrderingWellFounded
<1>2. T \subseteq FiniteSubsetsOf(Nat)
  <2> SUFFICES ASSUME NEW n \in S PROVE 0 .. n \in FiniteSubsetsOf(Nat)
    OBVIOUS
  <2>1. 0 .. n \subseteq Nat
    OBVIOUS
  <2>2. IsFiniteSet(0 .. n)
    <3>1. 0 \in Int /\ n \in Int
      OBVIOUS
    <3> QED BY ONLY <3>1, FS_Interval, Zenon
  <2> QED BY <2>1, <2>2 DEF FiniteSubsetsOf
<1>3. T # {}
  OBVIOUS
<1>4. PICK x \in T : \A y \in T : ~ (<<y, x>> \in Sub)
  <2> HIDE DEF Sub, T
  <2> QED BY <1>1, <1>2, <1>3, WFMin
<1>5. PICK m \in S : x = 0 .. m
  OBVIOUS
<1>6. ASSUME NEW k \in S, k < m PROVE FALSE
  <2>1. 0 .. k \in T
    OBVIOUS
  <2>2. <<0 .. k, x>> \in Sub
    BY <1>5, <1>6 DEF StrictSubsetOrdering
  <2> QED BY <1>4, <2>1, <2>2
<1> QED BY <1>6

\* For each length the loop of materialize runs to, there is a function that
\* lists the files pushed after each pass; after k passes at most k are.
LEMMA CollectedExists ==
  ASSUME NEW S, NEW slots \in Seq([live : BOOLEAN, entry : S])
  PROVE  \A n \in 0 .. Len(slots) :
           \E g \in [0 .. n -> Seq(S)] :
             \A k \in 0 .. n :
               /\ Len(g[k]) =< k
               /\ g[k] = IF k = 0 THEN <<>> ELSE Pushed(g[k - 1], slots[k])
<1> DEFINE L == Len(slots)
           Good(n, g) ==
             \A k \in 0 .. n :
               /\ Len(g[k]) =< k
               /\ g[k] = IF k = 0 THEN <<>> ELSE Pushed(g[k - 1], slots[k])
           Bad == {n \in 0 .. L : ~ \E g \in [0 .. n -> Seq(S)] : Good(n, g)}
<1> SUFFICES ASSUME Bad # {} PROVE FALSE
  OBVIOUS
<1>0. L \in Nat /\ \A k \in 1 .. L : slots[k] \in [live : BOOLEAN, entry : S]
  BY ONLY slots \in Seq([live : BOOLEAN, entry : S]), ElementOfSeq, LenProperties
<1>1. PICK m \in Bad : \A k \in Bad : m =< k
  <2>1. Bad \in SUBSET Nat
    OBVIOUS
  <2> QED
    BY ONLY <2>1, Bad # {}, LeastElement
<1>2. m \in 1 .. L
  <2> SUFFICES ASSUME m = 0 PROVE FALSE
    BY <1>0
  <2> DEFINE g == [k \in 0 .. 0 |-> <<>>]
  <2>1. g \in [0 .. 0 -> Seq(S)] /\ Good(0, g)
    OBVIOUS
  <2> QED
    BY <2>1
<1>3. PICK g \in [0 .. m - 1 -> Seq(S)] : Good(m - 1, g)
  <2>1. m - 1 \in 0 .. L /\ ~ (m =< m - 1)
    BY <1>0, <1>2
  <2>2. m - 1 \notin Bad
    <3> HIDE DEF Bad
    <3> QED BY <1>1, <2>1
  <2> QED
    BY <2>1, <2>2
<1> DEFINE new == Pushed(g[m - 1], slots[m])
           h == [k \in 0 .. m |-> IF k < m THEN g[k] ELSE new]
<1>4. /\ slots[m].live \in BOOLEAN /\ slots[m].entry \in S
      /\ g[m - 1] \in Seq(S) /\ Len(g[m - 1]) =< m - 1
  <2>1. m - 1 \in 0 .. (m - 1)
    BY <1>0, <1>2
  <2>2. slots[m] \in [live : BOOLEAN, entry : S]
    BY <1>0, <1>2
  <2>3. g[m - 1] \in Seq(S) /\ Len(g[m - 1]) =< m - 1
    BY <1>3, <2>1
  <2> QED
    BY <2>2, <2>3
<1>5. new \in Seq(S) /\ Len(new) =< m
  <2>1. CASE slots[m].live
    BY <1>0, <1>2, <1>4, <2>1, AppendProperties DEF Pushed
  <2>2. CASE ~ slots[m].live
    BY <1>0, <1>2, <1>4, <2>2 DEF Pushed
  <2> QED
    BY <2>1, <2>2
<1>6. h \in [0 .. m -> Seq(S)]
  <2> HIDE DEF new, Good
  <2> QED BY <1>0, <1>2, <1>3, <1>5
<1>7. Good(m, h)
  <2> SUFFICES ASSUME NEW k \in 0 .. m
               PROVE  /\ Len(h[k]) =< k
                      /\ h[k] = IF k = 0 THEN <<>> ELSE Pushed(h[k - 1], slots[k])
    OBVIOUS
  <2>1. CASE k < m
    <3>1. k \in 0 .. (m - 1) /\ (k # 0 => k - 1 \in 0 .. m /\ k - 1 < m)
      BY <1>0, <1>2, <2>1
    <3>2. h[k] = g[k] /\ (k # 0 => h[k - 1] = g[k - 1])
      BY <2>1, <3>1
    <3>3. Len(g[k]) =< k /\ g[k] = IF k = 0 THEN <<>> ELSE Pushed(g[k - 1], slots[k])
      BY <1>3, <3>1
    <3> QED
      <4> HIDE DEF h, Good
      <4> QED BY <3>2, <3>3
  <2>2. CASE k = m
    <3>1. m # 0 /\ m - 1 \in 0 .. m /\ m - 1 < m /\ m \in 0 .. m /\ ~ (m < m)
      BY <1>0, <1>2
    <3>2. h[m] = new /\ h[m - 1] = g[m - 1]
      <4> HIDE DEF new
      <4> QED BY <3>1
    <3> QED
      <4> HIDE DEF h, Good
      <4> QED BY <1>5, <2>2, <3>1, <3>2
  <2> QED
    BY <1>0, <1>2, <2>1, <2>2
<1> QED
  <2> HIDE DEF h, Good
  <2>1. m \in Bad => ~ \E f \in [0 .. m -> Seq(S)] : Good(m, f)
    OBVIOUS
  <2> QED
    BY <1>1, <1>6, <1>7, <2>1

\* The vector of files that materialize hands to the writer is the last of
\* those it goes through.
LEMMA FilesFold ==
  ASSUME NEW S, NEW slots \in Seq([live : BOOLEAN, entry : S])
  PROVE  \E g \in [0 .. Len(slots) -> Seq(S)] :
           /\ Files(slots) = g[Len(slots)]
           /\ \A k \in 0 .. Len(slots) :
                /\ Len(g[k]) =< k
                /\ g[k] = IF k = 0 THEN <<>> ELSE Pushed(g[k - 1], slots[k])
<1> DEFINE L == Len(slots)
           Body(g, k) == IF k = 0 THEN <<>> ELSE Pushed(g[k - 1], slots[k])
           f == CHOOSE f : f = [k \in 0 .. L |-> Body(f, k)]
<1>0. L \in Nat /\ Files(slots) = f[L]
  <2>1. L \in Nat
    BY ONLY slots \in Seq([live : BOOLEAN, entry : S]), LenProperties
  <2>2. Files(slots) = f[L]
    BY DEF Files
  <2> QED
    BY <2>1, <2>2
<1>1. PICK g \in [0 .. L -> Seq(S)] :
        \A k \in 0 .. L : Len(g[k]) =< k /\ g[k] = Body(g, k)
  <2>1. \A n \in 0 .. L : \E g \in [0 .. n -> Seq(S)] :
          \A k \in 0 .. n : Len(g[k]) =< k /\ g[k] = Body(g, k)
    BY ONLY slots \in Seq([live : BOOLEAN, entry : S]), CollectedExists
  <2>2. L \in 0 .. L
    BY <1>0
  <2> QED
    BY ONLY <2>1, <2>2
<1>2. g = [k \in 0 .. L |-> Body(g, k)]
  <2> HIDE DEF Body
  <2> QED BY <1>1
<1>3. f = [k \in 0 .. L |-> Body(f, k)]
  BY <1>2
<1> HIDE DEF f
<1> DEFINE D == {k \in 0 .. L : f[k] # g[k]}
<1>4. D = {}
  <2> SUFFICES ASSUME D # {} PROVE FALSE
    OBVIOUS
  <2>1. PICK k \in D : \A j \in D : k =< j
    <3>1. D \in SUBSET Nat
      BY <1>0
    <3> QED
      BY ONLY <3>1, D # {}, LeastElement
  <2>2. k \in 0 .. L /\ f[k] = Body(f, k) /\ g[k] = Body(g, k)
    <3> HIDE DEF Body
    <3> QED BY <1>1, <1>3
  <2>3. k # 0
    BY <2>2
  <2>4. k - 1 \in 0 .. L /\ ~ (k =< k - 1)
    BY <1>0, <2>2, <2>3
  <2>5. f[k - 1] = g[k - 1]
    BY <2>1, <2>4
  <2> QED
    BY <2>2, <2>3, <2>5
<1>5. L \in 0 .. L /\ Files(slots) = g[L]
  BY <1>0, <1>4
<1> QED
  BY <1>1, <1>5

\* The vector of files that materialize hands to the writer holds files of the
\* slots' type, at most one for each logical index.
LEMMA FilesType ==
  ASSUME NEW S, NEW slots \in Seq([live : BOOLEAN, entry : S])
  PROVE  Files(slots) \in Seq(S) /\ Len(Files(slots)) =< Len(slots)
<1>1. Len(slots) \in 0 .. Len(slots)
  BY LenProperties
<1>2. PICK g \in [0 .. Len(slots) -> Seq(S)] :
        /\ Files(slots) = g[Len(slots)]
        /\ \A k \in 0 .. Len(slots) : Len(g[k]) =< k
  BY FilesFold
<1> QED
  BY <1>1, <1>2

\* PendingOps::default is well typed.
LEMMA NoPendingType == PendingType(NoPending)
  BY DEF PendingType, NoPending, MetaKind, MetaValue

\* Pushing an addition keeps PendingOps well typed and touches nothing else.
LEMMA AddKeepsType ==
  ASSUME PendingType(pending), NEW n \in Names, NEW d \in Contents
  PROVE  /\ PendingType(WithAdd(n, d))
         /\ Len(WithAdd(n, d).adds) = Len(pending.adds) + 1
         /\ WithAdd(n, d).meta = pending.meta
         /\ WithAdd(n, d).archiveComment = pending.archiveComment
<1> DEFINE e == [name |-> n, data |-> d]
<1>1. e \in PendingAdd
  BY DEF PendingAdd
<1>2. /\ Append(pending.adds, e) \in Seq(PendingAdd)
      /\ Len(Append(pending.adds, e)) = Len(pending.adds) + 1
  BY <1>1, AppendProperties DEF PendingType
<1> QED
  BY <1>2 DEF PendingType, WithAdd

\* Pushing a replacement keeps PendingOps well typed and touches nothing else.
LEMMA ReplaceKeepsType ==
  ASSUME PendingType(pending), NEW i \in Index, NEW d \in Contents
  PROVE  /\ PendingType(WithReplace(i, d))
         /\ WithReplace(i, d).adds = pending.adds
         /\ WithReplace(i, d).meta = pending.meta
         /\ WithReplace(i, d).archiveComment = pending.archiveComment
<1>1. Append(pending.replaces[i], d) \in Seq(Contents)
  BY AppendProperties DEF PendingType
<1> QED
  BY <1>1 DEF PendingType, WithReplace

\* Putting a value in one of the one-pair-per-index lists keeps PendingOps
\* well typed.
LEMMA MetaKeepsType ==
  ASSUME PendingType(pending), NEW kind \in MetaKind, NEW i \in Index,
         NEW v \in MetaValue(kind)
  PROVE  PendingType(WithMeta(kind, i, v))
  BY DEF PendingType, WithMeta

\* What is left of a sequence when one element is taken out.
LEMMA RemoveAtProperties ==
  ASSUME NEW S, NEW s \in Seq(S), NEW k \in 1 .. Len(s)
  PROVE  /\ RemoveAt(s, k) \in Seq(S) /\ Len(RemoveAt(s, k)) = Len(s) - 1
         /\ \A p \in 1 .. (Len(s) - 1) : RemoveAt(s, k)[p] = s[IF p < k THEN p ELSE p + 1]
<1>1. Len(s) \in Nat /\ k \in Nat
  OBVIOUS
<1> DEFINE after == RemoveAt(s, k)
           first == SubSeq(s, 1, k - 1)
           rest == SubSeq(s, k + 1, Len(s))
<1>2. /\ first \in Seq(S) /\ Len(first) = k - 1
      /\ \A p \in 1 .. (k - 1) : first[p] = s[p]
  <2>1. 1 \in 1 .. (Len(s) + 1) /\ k - 1 \in (1 - 1) .. Len(s)
    BY <1>1
  <2> QED BY <1>1, <2>1, SubSeqProperties
<1>3. /\ rest \in Seq(S) /\ Len(rest) = Len(s) - k
      /\ \A p \in 1 .. (Len(s) - k) : rest[p] = s[p + k]
  <2>1. k + 1 \in 1 .. (Len(s) + 1) /\ Len(s) \in ((k + 1) - 1) .. Len(s)
    BY <1>1
  <2> QED BY <1>1, <2>1, SubSeqProperties
<1>4. after = first \o rest
  BY DEF RemoveAt
<1> HIDE DEF after, first, rest
<1>5. after \in Seq(S) /\ Len(after) = Len(s) - 1
  <2>1. after \in Seq(S) /\ Len(after) = Len(first) + Len(rest)
    BY <1>2, <1>3, <1>4, ConcatProperties
  <2> QED BY <1>1, <1>2, <1>3, <2>1
<1>6. ASSUME NEW p \in 1 .. Len(after) PROVE after[p] = s[IF p < k THEN p ELSE p + 1]
  <2>1. after[p] = IF p <= k - 1 THEN first[p] ELSE rest[p - (k - 1)]
    BY <1>1, <1>2, <1>3, <1>4, <1>5, ConcatProperties
  <2>2. CASE p < k
    BY <1>1, <1>2, <2>1, <2>2
  <2>3. CASE ~(p < k)
    <3>1. p - (k - 1) \in 1 .. (Len(s) - k) /\ (p - (k - 1)) + k = p + 1 /\ ~(p <= k - 1)
      BY <1>1, <1>5, <2>3
    <3>2. rest[p - (k - 1)] = s[p + 1]
      BY <1>3, <3>1
    <3> QED BY <2>1, <2>3, <3>1, <3>2
  <2> QED BY <2>2, <2>3
<1> QED BY <1>5, <1>6 DEF after

\* unchange_entry keeps PendingOps well typed and never adds an addition.
LEMMA UnchangedType ==
  ASSUME TypeOK, NEW i \in 0 .. (Logical - 1)
  PROVE  /\ PendingType(Unchanged(i))
         /\ Len(Unchanged(i).adds) =< Len(pending.adds)
<1> DEFINE adds == IF i < N THEN pending.adds ELSE RemoveAt(pending.adds, i - N + 1)
<1>0. N \in Nat /\ Logical =< MaxEntries /\ i \in Index
  BY BoundsAreNatural DEF TypeOK, N, Archive, Index, Logical, PendingType
<1>1. adds \in Seq(PendingAdd) /\ Len(adds) =< Len(pending.adds)
  <2>1. pending.adds \in Seq(PendingAdd) /\ Len(pending.adds) \in Nat
    BY DEF TypeOK, PendingType
  <2>2. CASE i < N
    BY <2>1, <2>2
  <2>3. CASE ~(i < N)
    <3>1. i - N + 1 \in 1 .. Len(pending.adds)
      BY <1>0, <2>1, <2>3 DEF Logical
    <3> QED BY <2>1, <2>3, <3>1, RemoveAtProperties
  <2> QED BY <2>2, <2>3
<1> DEFINE meta == WithoutMeta(pending.meta, i)
<1>2. /\ pending.deletes \ {i} \in SUBSET (0 .. (N - 1))
      /\ [pending.renames EXCEPT ![i] = <<>>] \in [Index -> Seq(Names)]
      /\ [pending.replaces EXCEPT ![i] = <<>>] \in [Index -> Seq(Contents)]
      /\ pending.archiveComment \in Comments \cup {None, Unset}
  BY <1>0 DEF TypeOK, PendingType
<1>3. /\ meta = [kind \in MetaKind |-> meta[kind]]
      /\ \A kind \in MetaKind :
           meta[kind] \in [Index -> MetaValue(kind) \cup {Unset}]
  BY <1>0 DEF TypeOK, PendingType, WithoutMeta
<1> QED
  <2> HIDE DEF adds, meta
  <2>1. Unchanged(i) =
          [adds |-> adds, deletes |-> pending.deletes \ {i},
           renames  |-> [pending.renames EXCEPT ![i] = <<>>],
           replaces |-> [pending.replaces EXCEPT ![i] = <<>>],
           meta |-> meta, archiveComment |-> pending.archiveComment]
    BY DEF Unchanged, adds, meta
  <2> QED
    BY <1>1, <1>2, <1>3, <2>1 DEF PendingType

\* The type of what zip_close would write for a logical index.
SlotType == [live : BOOLEAN,
             entry : [name : Names, data : Contents \cup {Corrupt},
                      comment : Comments \cup {None}, time : Nat, attrs : Attrs,
                      comp : {"store", "deflate"}, enc : {"none", "encrypted"}]]

\* Every logical index stands for an entry: one read from the archive, or one
\* made from a staged addition.
LEMMA BaseType ==
  ASSUME TypeOK, NEW i \in 0 .. (Logical - 1)
  PROVE  Base(i) \in Entry
<1>1. N \in Nat /\ Len(pending.adds) \in Nat
  BY DEF TypeOK, PendingType, N, Archive
<1>2. CASE i < N
  BY <1>1, <1>2 DEF TypeOK, Base, N, Archive
<1>3. CASE ~ (i < N)
  <2>1. pending.adds[i - N + 1] \in PendingAdd
    <3>1. i - N + 1 \in 1 .. Len(pending.adds)
      BY <1>1, <1>3 DEF Logical
    <3>2. pending.adds \in Seq(PendingAdd)
      BY DEF TypeOK, PendingType
    <3> QED BY <3>1, <3>2, ElementOfSeq
  <2> QED
    BY <1>3, <2>1, SentinelsAreApart DEF Base, Entry, PendingAdd
<1> QED
  BY <1>1, <1>2, <1>3

\* What zip_close would write for a logical index is well typed, whichever
\* staged operations apply to it.
LEMMA EffectiveType ==
  ASSUME TypeOK, NEW i \in 0 .. (Logical - 1)
  PROVE  Slot(i) \in SlotType
<1>0. i \in Index /\ Base(i) \in Entry
  BY BaseType, BoundsAreNatural DEF TypeOK, Index, Logical, PendingType, N, Archive
<1>1. FirstOr(pending.renames[i], Base(i).name) \in Names
  <2>1. pending.renames[i] \in Seq(Names)
    BY <1>0 DEF TypeOK, PendingType
  <2>2. pending.renames[i] # <<>> => Head(pending.renames[i]) \in Names
    BY <2>1
  <2> QED BY <1>0, <2>2 DEF FirstOr, Entry
<1>2. FirstOr(pending.replaces[i], Base(i).data) \in Contents \cup {Corrupt}
  <2>1. pending.replaces[i] \in Seq(Contents)
    BY <1>0 DEF TypeOK, PendingType
  <2>2. pending.replaces[i] # <<>> => Head(pending.replaces[i]) \in Contents
    BY <2>1
  <2> QED BY <1>0, <2>2 DEF FirstOr, Entry
<1>3. \A kind \in MetaKind : Staged(kind, i) \in MetaValue(kind) \cup {Unset}
  BY <1>0 DEF TypeOK, PendingType, Staged
<1>4. StagedOr("comment", i, Base(i).comment) \in Comments \cup {None}
  BY <1>0, <1>3 DEF StagedOr, MetaKind, MetaValue, Entry
<1>5. EffectiveTime(i) \in Nat
  <2>1. Staged("mtime", i) # Unset => UnixToDos(Staged("mtime", i)) \in Nat
    <3>1. Staged("mtime", i) # Unset => Staged("mtime", i) \in Nat
      BY <1>3, TimesAreSeconds DEF MetaKind, MetaValue
    <3>2. \A t \in Nat : UnixToDos(t) \in Nat
      BY DEF UnixToDos
    <3> QED BY <3>1, <3>2
  <2>2. StagedOr("dostime", i, Base(i).time) \in Nat
    BY <1>0, <1>3, TimesAreSeconds DEF StagedOr, MetaKind, MetaValue, Entry
  <2> QED BY <2>1, <2>2 DEF EffectiveTime
<1>6. StagedOr("attrs", i, Base(i).attrs) \in Attrs
  BY <1>0, <1>3 DEF StagedOr, MetaKind, MetaValue, Entry
<1>7. StagedOr("encryption", i, "none") \in {"none", "encrypted"}
  BY <1>0, <1>3 DEF StagedOr, MetaKind, MetaValue
<1> QED
  BY <1>1, <1>2, <1>4, <1>5, <1>6, <1>7 DEF Slot, Effective, SlotType

\* What zip_close writes is an archive that a later session can open: typed,
\* and with no more entries than the session had logical indices.
LEMMA MaterializedType ==
  ASSUME TypeOK
  PROVE  /\ Materialized \in Archive
         /\ Len(Materialized.entries) =< MaxEntries
<1> DEFINE S == [name : Names, data : Contents \cup {Corrupt},
                 comment : Comments \cup {None}, time : Nat, attrs : Attrs,
                 comp : {"store", "deflate"}, enc : {"none", "encrypted"}]
           files == Files(View)
<1>0. Logical \in Nat /\ Logical =< MaxEntries /\ MaxEntries \in Nat
  BY BoundsAreNatural DEF TypeOK, Logical, PendingType, N, Archive
<1>1. View \in Seq(SlotType) /\ Len(View) = Logical
  <2>1. \A k \in 1 .. Logical : Slot(k - 1) \in SlotType
    BY <1>0, EffectiveType
  <2> QED BY <1>0, <2>1, IsASeq DEF View
<1>2. files \in Seq(S) /\ Len(files) =< Logical
  <2>1. View \in Seq([live : BOOLEAN, entry : S])
    BY <1>1 DEF SlotType
  <2> HIDE DEF S
  <2> QED BY <1>1, <2>1, FilesType
<1>3. \A k \in 1 .. Len(files) : Encoded(files[k], password) \in Entry
  <2> SUFFICES ASSUME NEW k \in 1 .. Len(files)
               PROVE  Encoded(files[k], password) \in Entry
    OBVIOUS
  <2>1. files[k] \in S
    <3> HIDE DEF S, files
    <3> QED BY <1>2
  <2> HIDE DEF files
  <2> QED BY <2>1 DEF Encoded, Entry, TypeOK
<1>4. EffectiveArchiveComment \in Comments \cup {None}
  BY DEF EffectiveArchiveComment, TypeOK, PendingType, Archive
<1> DEFINE written == [k \in 1 .. Len(files) |-> Encoded(files[k], password)]
<1>5. written \in Seq(Entry) /\ Len(written) = Len(files)
  <2>1. Len(files) \in Nat
    <3> HIDE DEF files
    <3> QED BY <1>2, LenProperties
  <2> HIDE DEF files
  <2> QED BY <1>3, <2>1, IsASeq
<1>6. Materialized = [entries |-> written, comment |-> EffectiveArchiveComment]
  BY DEF Materialized, Written
<1> QED
  <2> HIDE DEF written, files
  <2>1. Len(files) \in Nat
    BY <1>2, LenProperties
  <2> QED BY <1>0, <1>2, <1>4, <1>5, <1>6, <2>1 DEF Archive

\* The inductive invariant.
Inv == TypeOK /\ GettersShowStaged /\ ReadOnlyUntouched

\* make_zip fills the comment overlays with comments.
LEMMA OverlayType ==
  ASSUME NEW a \in Archive
  PROVE  OverlayOf(a) \in [comments : [Index -> Comments \cup {None}],
                           archiveComment : Comments \cup {None}]
<1>1. \A c \in Comments \cup {None} : CStr(c) \in Comments \cup {None}
  BY DEF CStr
<1>2. \A i \in Index : i < Len(a.entries) =>
        a.entries[i + 1].comment \in Comments \cup {None}
  <2> SUFFICES ASSUME NEW i \in Index, i < Len(a.entries)
               PROVE  a.entries[i + 1].comment \in Comments \cup {None}
    OBVIOUS
  <2>1. a.entries \in Seq(Entry)
    BY DEF Archive
  <2>2. i + 1 \in 1 .. Len(a.entries)
    BY <2>1, BoundsAreNatural DEF Index
  <2>3. a.entries[i + 1] \in Entry
    BY <2>1, <2>2, ElementOfSeq
  <2> QED
    BY <2>3 DEF Entry
<1> QED
  BY <1>1, <1>2 DEF OverlayOf, Archive

\* The archive a new or a truncated file starts from is an archive.
LEMMA EmptyArchiveType == EmptyArchive \in Archive /\ Len(EmptyArchive.entries) = 0
  BY DEF EmptyArchive, Archive

\* The invariant holds before the first handle is opened.
LEMMA InitInv == Init => Inv
<1> SUFFICES ASSUME Init PROVE Inv
  OBVIOUS
<1>1. zip \in [open : BOOLEAN, archive : Archive, flags : SUBSET OpenFlags,
               existed : BOOLEAN, path : BOOLEAN] /\ ~ zip.open /\ ~ ReadOnly /\ N = 0
  BY EmptyArchiveType DEF Init, NoSession, ReadOnly, N
<1>2. PendingType(pending) /\ Logical = 0
  BY <1>1, NoPendingType DEF Init, Logical, NoPending
<1>3. file \in Archive \cup {None, Damaged} /\ (file \in Archive => Len(file.entries) =< MaxEntries)
  BY FilesAreArchives, NoFileIsNotAnArchive DEF Init
<1>4. overlay \in [comments : [Index -> Comments \cup {None}],
                   archiveComment : Comments \cup {None}]
  BY EmptyArchiveType, OverlayType DEF Init
<1>5. TypeOK
  <2>1. /\ Logical =< MaxEntries /\ sessions \in 0 .. MaxSessions
        /\ chAfl \in SUBSET {"RDONLY", "WANT_TORRENTZIP"}
    BY <1>2, BoundsAreNatural DEF Init
  <2>2. /\ password \in Passwords \cup {None} /\ cancelCb \in BOOLEAN
        /\ err \in ErrorCodes /\ ret \in {"none", "ok", "failed"}
    BY DEF Init, ErrorCodes
  <2> QED
    BY <1>1, <1>2, <1>3, <1>4, <2>1, <2>2 DEF TypeOK
<1> QED
  BY <1>1, <1>5 DEF Inv, GettersShowStaged, ReadOnlyUntouched

\* Steps that leave everything the invariant relates alone.
\* A call that sets the handle's error and returns keeps the invariant.
LEMMA RejectKeepsInv ==
  ASSUME Inv, NEW code \in ErrorCodes, Reject(code)
  PROVE  Inv'
<1>1. TypeOK'
  BY DEF Inv, TypeOK, Reject, PendingType, N, Logical
<1>2. GettersShowStaged' /\ ReadOnlyUntouched'
  BY DEF Inv, Reject, GettersShowStaged, ReadOnlyUntouched, ReadOnly,
         EffectiveArchiveComment, Staged
<1> QED
  BY <1>1, <1>2 DEF Inv

\* A call on a writable handle that stages a well-typed operation, and touches
\* neither the comment stores nor their overlays, keeps the invariant.
LEMMA StageKeepsInv ==
  ASSUME Inv, ~ ReadOnly, NEW p, PendingType(p), Stage(p),
         N + Len(p.adds) =< MaxEntries,
         p.meta["comment"] = pending.meta["comment"],
         p.archiveComment = pending.archiveComment
  PROVE  Inv'
<1>1. TypeOK'
  BY DEF Inv, TypeOK, Stage, PendingType, N, Logical
<1>2. GettersShowStaged' /\ ReadOnlyUntouched'
  BY DEF Inv, Stage, GettersShowStaged, ReadOnlyUntouched, ReadOnly,
         EffectiveArchiveComment, Staged
<1> QED
  BY <1>1, <1>2 DEF Inv

\* make_zip establishes the invariant for an archive it has just read.
LEMMA StartSessionInv ==
  ASSUME Inv, NEW a \in Archive, Len(a.entries) =< MaxEntries,
         NEW flags \in SUBSET OpenFlags, NEW existed \in BOOLEAN,
         NEW path \in BOOLEAN, StartSession(a, flags, existed, path)
  PROVE  Inv'
<1>1. /\ zip' \in [open : BOOLEAN, archive : Archive, flags : SUBSET OpenFlags,
                    existed : BOOLEAN, path : BOOLEAN]
      /\ zip'.archive = a /\ zip'.flags = flags
  BY DEF StartSession
<1>2. PendingType(pending)' /\ Logical' =< MaxEntries
  BY <1>1, NoPendingType DEF StartSession, PendingType, NoPending, MetaKind, MetaValue, N, Logical, Archive
<1>3. overlay' = OverlayOf(a) /\ overlay' \in [comments : [Index -> Comments \cup {None}],
                    archiveComment : Comments \cup {None}]
  BY OverlayType DEF StartSession
<1>4. TypeOK'
  <2>1. sessions' \in 0 .. MaxSessions
    BY BoundsAreNatural DEF Inv, TypeOK, StartSession
  <2>2. chAfl' \in SUBSET {"RDONLY", "WANT_TORRENTZIP"}
    BY DEF StartSession, Afl
  <2>3. file' \in Archive \cup {None, Damaged} /\ (file' \in Archive => Len(file'.entries) =< MaxEntries)
    BY DEF StartSession, Inv, TypeOK
  <2>4. /\ password' \in Passwords \cup {None} /\ cancelCb' \in BOOLEAN
        /\ err' \in ErrorCodes /\ ret' \in {"none", "ok", "failed"}
    BY DEF StartSession, ErrorCodes
  <2> QED
    BY <1>1, <1>2, <1>3, <2>1, <2>2, <2>3, <2>4 DEF TypeOK
<1>5. GettersShowStaged'
  BY <1>1, <1>3 DEF StartSession, GettersShowStaged, EffectiveArchiveComment,
                    Staged, NoPending, OverlayOf, MetaKind
<1>6. ReadOnlyUntouched'
  BY <1>1 DEF StartSession, ReadOnlyUntouched, ReadOnly, Afl
<1> QED
  BY <1>4, <1>5, <1>6 DEF Inv

\* Freeing the handle keeps the invariant when the path is left holding
\* something well typed.
LEMMA FreeHandleInv ==
  ASSUME Inv, NEW report \in {"none", "ok", "failed"}, FreeHandle(report),
         file' \in Archive \cup {None, Damaged},
         file' \in Archive => Len(file'.entries) =< MaxEntries
  PROVE  Inv'
<1>1. /\ zip' \in [open : BOOLEAN, archive : Archive, flags : SUBSET OpenFlags,
                    existed : BOOLEAN, path : BOOLEAN]
      /\ zip'.archive = EmptyArchive /\ ~ zip'.open /\ zip'.flags = {}
  BY EmptyArchiveType DEF FreeHandle, NoSession
<1>2. PendingType(pending)' /\ Logical' =< MaxEntries
  BY <1>1, EmptyArchiveType, BoundsAreNatural
     DEF FreeHandle, PendingType, NoPending, MetaKind, MetaValue, N, Logical
<1>3. overlay' \in [comments : [Index -> Comments \cup {None}],
                    archiveComment : Comments \cup {None}]
  BY EmptyArchiveType, OverlayType DEF FreeHandle
<1>4. TypeOK'
  BY <1>1, <1>2, <1>3 DEF Inv, TypeOK, FreeHandle, ErrorCodes
<1> QED
  BY <1>1, <1>4 DEF Inv, GettersShowStaged, ReadOnlyUntouched, ReadOnly

\* zip_file_add with ZIP_FL_OVERWRITE replaces an entry that is on disk.
LEMMA NameLocateIsOnDisk ==
  ASSUME TypeOK, NEW n, Located(n) # {}
  PROVE  NameLocate(n) \in 0 .. (N - 1) /\ NameLocate(n) \in Index
<1>1. Located(n) \in SUBSET Nat
  BY DEF Located
<1>2. \E i \in Located(n) : \A j \in Located(n) : i =< j
  BY <1>1, LeastElement
<1>3. NameLocate(n) \in Located(n)
  BY <1>2 DEF NameLocate
<1>4. N \in Nat /\ N =< MaxEntries /\ MaxEntries \in Nat
  BY BoundsAreNatural DEF TypeOK, N, Archive, Logical, PendingType
<1> QED
  BY <1>3, <1>4 DEF Located, Index

\* A logical index is one that staged operations may be keyed by.
LEMMA OnDiskIsIndex ==
  ASSUME TypeOK, NEW i \in Arg, i < Logical
  PROVE  i \in Index /\ i \in 0 .. (Logical - 1)
  BY BoundsAreNatural DEF TypeOK, N, Archive, Logical, PendingType, Index, Arg

\* The counts of entries and of logical indices are natural numbers.
LEMMA CountsAreNatural ==
  ASSUME TypeOK
  PROVE  N \in Nat /\ Len(pending.adds) \in Nat /\ MaxEntries \in Nat
         /\ N + Len(pending.adds) = Logical /\ Logical =< MaxEntries /\ N =< Logical
  BY BoundsAreNatural DEF TypeOK, N, Archive, Logical, PendingType

\* Every API call keeps the invariant.
LEMMA NextInv == Inv /\ [Next]_vars => Inv'
<1> SUFFICES ASSUME Inv, [Next]_vars PROVE Inv'
  OBVIOUS
<1> USE CountsAreNatural DEF Inv
<1>1. ASSUME NEW flags \in Modes, ZipOpen(flags) PROVE Inv'
  <2>1. flags \in SUBSET OpenFlags
    BY ModesAreFlags DEF OpenFlags
  <2>2. CASE file # None /\ "TRUNCATE" \notin flags
    <3>1. file \in Archive /\ Len(file.entries) =< MaxEntries /\ StartSession(file, flags, TRUE, TRUE)
      BY <1>1, <2>2 DEF ZipOpen, TypeOK
    <3> QED
      BY <2>1, <3>1, StartSessionInv
  <2>3. CASE ~ (file # None /\ "TRUNCATE" \notin flags)
    <3>1. StartSession(EmptyArchive, flags, file # None, TRUE)
      BY <1>1, <2>3 DEF ZipOpen
    <3>2. EmptyArchive \in Archive /\ Len(EmptyArchive.entries) =< MaxEntries
      BY EmptyArchiveType
    <3>3. (file # None) \in BOOLEAN
      OBVIOUS
    <3> QED
      BY <2>1, <3>1, <3>2, <3>3, StartSessionInv, Zenon
  <2> QED
    BY <2>2, <2>3
<1>2. ASSUME NEW mode \in Modes, ZipOpenPathless(mode \ {"CREATE"}) PROVE Inv'
  <2> DEFINE flags == mode \ {"CREATE"}
  <2>1. flags \in SUBSET OpenFlags
    BY ModesAreFlags DEF OpenFlags
  <2> HIDE DEF flags
  <2>2. ZipOpenPathless(flags)
    BY <1>2 DEF flags
  <2>3. CASE "TRUNCATE" \in flags
    <3>1. StartSession(EmptyArchive, flags, TRUE, FALSE)
      BY <2>2, <2>3 DEF ZipOpenPathless
    <3>2. EmptyArchive \in Archive /\ Len(EmptyArchive.entries) =< MaxEntries
      BY EmptyArchiveType
    <3> QED
      BY <2>1, <3>1, <3>2, StartSessionInv, Zenon
  <2>4. CASE "TRUNCATE" \notin flags
    <3>1. file \in Archive /\ Len(file.entries) =< MaxEntries /\ StartSession(file, flags, TRUE, FALSE)
      BY <2>2, <2>4 DEF ZipOpenPathless, TypeOK
    <3> QED
      BY <2>1, <3>1, StartSessionInv
  <2> QED
    BY <2>3, <2>4
<1>3. ASSUME NEW n \in Names, NEW d \in Contents, NEW o \in BOOLEAN, ZipFileAdd(n, d, o) PROVE Inv'
  <2>1. CASE \E code \in ErrorCodes : Reject(code)
    BY <2>1, RejectKeepsInv
  <2>2. CASE Accepted(TRUE) /\ Located(n) # {} /\ Stage(WithReplace(NameLocate(n), d))
    <3> DEFINE p == WithReplace(NameLocate(n), d)
    <3>1. /\ PendingType(p) /\ p.adds = pending.adds /\ p.meta = pending.meta
          /\ p.archiveComment = pending.archiveComment
      BY <2>2, NameLocateIsOnDisk, ReplaceKeepsType DEF TypeOK
    <3> HIDE DEF p
    <3>2. ~ ReadOnly /\ Stage(p)
      BY <2>2 DEF Accepted, p
    <3> QED
      BY <3>1, <3>2, StageKeepsInv
  <2>3. CASE Accepted(TRUE) /\ Logical < MaxEntries /\ Stage(WithAdd(n, d))
    <3> DEFINE p == WithAdd(n, d)
    <3>1. /\ PendingType(p) /\ Len(p.adds) = Len(pending.adds) + 1
          /\ p.meta = pending.meta /\ p.archiveComment = pending.archiveComment
      BY AddKeepsType DEF TypeOK
    <3> HIDE DEF p
    <3>2. ~ ReadOnly /\ Stage(p) /\ Logical < MaxEntries
      BY <2>3 DEF Accepted, p
    <3>3. N + Len(p.adds) =< MaxEntries
      BY <3>1, <3>2
    <3> QED
      BY <3>1, <3>2, <3>3, StageKeepsInv
  <2> QED
    BY <1>3, <2>1, <2>2, <2>3 DEF ZipFileAdd, Refused, Accepted, ErrorCodes
<1>4. ASSUME NEW n \in DirNames, ZipDirAdd(n) PROVE Inv'
  <2>1. CASE \E code \in ErrorCodes : Reject(code)
    BY <2>1, RejectKeepsInv
  <2>2. CASE Accepted(TRUE) /\ Logical < MaxEntries /\ Stage(WithAdd(n, EmptyContent))
    <3>1. n \in Names /\ EmptyContent \in Contents
      BY SubsetsOfData, PayloadsAreDistinct
    <3> DEFINE p == WithAdd(n, EmptyContent)
    <3>2. /\ PendingType(p) /\ Len(p.adds) = Len(pending.adds) + 1
          /\ p.meta = pending.meta /\ p.archiveComment = pending.archiveComment
      BY <3>1, AddKeepsType DEF TypeOK
    <3> HIDE DEF p
    <3>3. ~ ReadOnly /\ Stage(p) /\ Logical < MaxEntries
      BY <2>2 DEF Accepted, p
    <3>4. N + Len(p.adds) =< MaxEntries
      BY <3>2, <3>3
    <3> QED
      BY <3>2, <3>3, <3>4, StageKeepsInv
  <2> QED
    BY <1>4, <2>1, <2>2 DEF ZipDirAdd, Refused, Accepted, ErrorCodes
<1>5. ASSUME NEW i \in Arg, ZipDelete(i) PROVE Inv'
  <2>1. CASE \E code \in ErrorCodes : Reject(code)
    BY <2>1, RejectKeepsInv
  <2>2. CASE Accepted(i < N) /\ Stage([pending EXCEPT !.deletes = @ \cup {i}])
    <3> DEFINE p == [pending EXCEPT !.deletes = @ \cup {i}]
    <3>1. i \in 0 .. (N - 1)
      BY <2>2 DEF Accepted, Arg
    <3>2. /\ PendingType(p) /\ p.adds = pending.adds /\ p.meta = pending.meta
          /\ p.archiveComment = pending.archiveComment
      BY <3>1 DEF TypeOK, PendingType
    <3> HIDE DEF p
    <3>3. ~ ReadOnly /\ Stage(p)
      BY <2>2 DEF Accepted, p
    <3> QED
      BY <3>2, <3>3, StageKeepsInv
  <2> QED
    BY <1>5, <2>1, <2>2 DEF ZipDelete, Refused, Accepted, ErrorCodes
<1>6. ASSUME NEW i \in Arg, NEW n \in Names, ZipRename(i, n) PROVE Inv'
  <2>1. CASE \E code \in ErrorCodes : Reject(code)
    BY <2>1, RejectKeepsInv
  <2>2. CASE Accepted(i < N) /\ Stage([pending EXCEPT !.renames[i] = Append(@, n)])
    <3> DEFINE p == [pending EXCEPT !.renames[i] = Append(@, n)]
    <3>1. i \in Index
      BY <2>2, OnDiskIsIndex DEF Accepted, Arg
    <3>2. Append(pending.renames[i], n) \in Seq(Names)
      BY <3>1, AppendProperties DEF TypeOK, PendingType
    <3>3. /\ PendingType(p) /\ p.adds = pending.adds /\ p.meta = pending.meta
          /\ p.archiveComment = pending.archiveComment
      BY <3>1, <3>2 DEF TypeOK, PendingType
    <3> HIDE DEF p
    <3>4. ~ ReadOnly /\ Stage(p)
      BY <2>2 DEF Accepted, p
    <3> QED
      BY <3>3, <3>4, StageKeepsInv
  <2> QED
    BY <1>6, <2>1, <2>2 DEF ZipRename, Refused, Accepted, ErrorCodes
<1>7. ASSUME NEW i \in Arg, NEW d \in Contents, ZipFileReplace(i, d) PROVE Inv'
  <2>1. CASE \E code \in ErrorCodes : Reject(code)
    BY <2>1, RejectKeepsInv
  <2>2. CASE Accepted(i < N) /\ Stage(WithReplace(i, d))
    <3> DEFINE p == WithReplace(i, d)
    <3>1. i \in Index
      BY <2>2, OnDiskIsIndex DEF Accepted, Arg
    <3>2. /\ PendingType(p) /\ p.adds = pending.adds /\ p.meta = pending.meta
          /\ p.archiveComment = pending.archiveComment
      BY <3>1, ReplaceKeepsType DEF TypeOK
    <3> HIDE DEF p
    <3>3. ~ ReadOnly /\ Stage(p)
      BY <2>2 DEF Accepted, p
    <3> QED
      BY <3>2, <3>3, StageKeepsInv
  <2> QED
    BY <1>7, <2>1, <2>2 DEF ZipFileReplace, Refused, Accepted, ErrorCodes
<1>8. ASSUME ZipSourceUnreadable PROVE Inv'
  BY <1>8, RejectKeepsInv DEF ZipSourceUnreadable, ErrorCodes
<1>9. ASSUME NEW kind \in MetaKind, NEW i \in Arg, NEW v \in MetaValue(kind),
             ZipSetMeta(kind, i, v)
      PROVE  Inv'
  <2>1. CASE \E code \in ErrorCodes : Reject(code)
    BY <2>1, RejectKeepsInv
  <2>2. CASE Accepted(i < Logical) /\ Stage(WithMeta(kind, i, v))
    <3>1. i \in Index
      BY <2>2, OnDiskIsIndex DEF Accepted
    <3>2. PendingType(WithMeta(kind, i, v))
      BY <3>1, MetaKeepsType DEF TypeOK
    <3> DEFINE p == WithMeta(kind, i, v)
    <3>3. /\ p.adds = pending.adds /\ p.archiveComment = pending.archiveComment
          /\ p.meta["comment"] = pending.meta["comment"]
      BY <1>9 DEF ZipSetMeta, WithMeta, TypeOK, PendingType, MetaKind
    <3> HIDE DEF p
    <3>4. ~ ReadOnly /\ Stage(p) /\ PendingType(p)
      BY <2>2, <3>2 DEF Accepted, p
    <3> QED
      BY <3>3, <3>4, StageKeepsInv
  <2> QED
    BY <1>9, <2>1, <2>2 DEF ZipSetMeta, Refused, Accepted, ErrorCodes
<1>10. ASSUME NEW kind \in MetaKind, NEW i \in Arg, ZipSetMethodUnsupported(kind, i) PROVE Inv'
  BY <1>10, RejectKeepsInv DEF ZipSetMethodUnsupported, ErrorCodes
<1>11. ASSUME NEW i \in Arg, NEW c \in Comments \cup {None}, ZipFileSetComment(i, c) PROVE Inv'
  <2>1. CASE \E code \in ErrorCodes : Reject(code)
    BY <2>1, RejectKeepsInv
  <2>2. CASE /\ Accepted(i < Logical)
             /\ pending' = WithMeta("comment", i, c)
             /\ overlay' = [overlay EXCEPT !.comments[i] = CStr(c)]
             /\ UNCHANGED <<file, zip, chAfl, password, cancelCb, err, ret, sessions>>
    <3>1. i \in Index /\ CStr(c) \in Comments \cup {None} /\ "comment" \in MetaKind
      BY <2>2, OnDiskIsIndex DEF Accepted, CStr, MetaKind
    <3>2. PendingType(WithMeta("comment", i, c))
      <4>1. c \in MetaValue("comment")
        BY DEF MetaValue
      <4> QED
        BY <3>1, <4>1, MetaKeepsType DEF TypeOK
    <3>3. /\ WithMeta("comment", i, c).adds = pending.adds
          /\ WithMeta("comment", i, c).archiveComment = pending.archiveComment
          /\ WithMeta("comment", i, c).meta["comment"] = [pending.meta["comment"] EXCEPT ![i] = c]
      BY <3>1 DEF WithMeta, TypeOK, PendingType
    <3>4. pending.meta["comment"] \in [Index -> MetaValue("comment") \cup {Unset}]
      BY <3>1 DEF TypeOK, PendingType
    <3>5. overlay' \in [comments : [Index -> Comments \cup {None}],
                        archiveComment : Comments \cup {None}]
      BY <2>2, <3>1 DEF TypeOK
    <3>6. TypeOK'
      <4>1. N' = N /\ PendingType(pending)' /\ Logical' = Logical
        BY <2>2, <3>2, <3>3 DEF N, PendingType, Logical
      <4> QED
        BY <2>2, <3>5, <4>1 DEF TypeOK
    <3>7. GettersShowStaged'
      BY <2>2, <3>1, <3>3, <3>4 DEF GettersShowStaged, EffectiveArchiveComment, Staged, TypeOK
    <3>8. ReadOnlyUntouched'
      BY <2>2 DEF ReadOnlyUntouched, ReadOnly, Accepted
    <3> QED
      BY <3>6, <3>7, <3>8
  <2> QED
    BY <1>11, <2>1, <2>2 DEF ZipFileSetComment, Refused, Accepted, ErrorCodes
<1>12. ASSUME NEW c \in Comments \cup {None}, ZipSetArchiveComment(c) PROVE Inv'
  <2>1. CASE \E code \in ErrorCodes : Reject(code)
    BY <2>1, RejectKeepsInv
  <2>2. CASE /\ Accepted(TRUE)
             /\ pending' = [pending EXCEPT !.archiveComment = c]
             /\ overlay' = [overlay EXCEPT !.archiveComment = c]
             /\ UNCHANGED <<file, zip, chAfl, password, cancelCb, err, ret, sessions>>
    <3>1. TypeOK'
      <4>1. PendingType(pending)' /\ Logical' = Logical
        BY <2>2 DEF TypeOK, PendingType, N, Logical
      <4> QED
        BY <2>2, <4>1 DEF TypeOK
    <3>2. c # Unset
      BY SentinelsAreApart
    <3>3. GettersShowStaged'
      BY <2>2, <3>2 DEF GettersShowStaged, EffectiveArchiveComment, Staged, TypeOK, PendingType
    <3>4. ReadOnlyUntouched'
      BY <2>2 DEF ReadOnlyUntouched, ReadOnly, Accepted
    <3> QED
      BY <3>1, <3>3, <3>4
  <2> QED
    BY <1>12, <2>1, <2>2 DEF ZipSetArchiveComment, Refused, Accepted, ErrorCodes
<1>13. ASSUME NEW flag \in {"RDONLY", "WANT_TORRENTZIP", "IS_TORRENTZIP"}, NEW on \in BOOLEAN,
              ZipSetArchiveFlag(flag, on)
       PROVE  Inv'
  <2>1. CASE \E code \in ErrorCodes : Reject(code)
    BY <2>1, RejectKeepsInv
  <2>2. CASE /\ flag # "IS_TORRENTZIP" /\ "RDONLY" \notin Afl(zip.flags)
             /\ chAfl' = IF on THEN chAfl \cup {flag} ELSE chAfl \ {flag}
             /\ UNCHANGED <<file, zip, pending, overlay, password, cancelCb, err, ret, sessions>>
    <3>1. TypeOK'
      BY <2>2 DEF TypeOK, PendingType, N, Logical
    <3>2. GettersShowStaged' /\ ReadOnlyUntouched'
      BY <2>2 DEF GettersShowStaged, EffectiveArchiveComment, Staged, ReadOnlyUntouched, ReadOnly, Afl
    <3> QED
      BY <3>1, <3>2
  <2> QED
    BY <1>13, <2>1, <2>2 DEF ZipSetArchiveFlag, ErrorCodes
<1>14. ASSUME NEW pw \in Passwords \cup {None}, ZipSetDefaultPassword(pw) PROVE Inv'
  <2>1. CASE Reject("INVAL")
    BY <2>1, RejectKeepsInv DEF ErrorCodes
  <2>2. CASE password' = pw /\ UNCHANGED <<file, zip, pending, overlay, chAfl, cancelCb, err, ret, sessions>>
    <3>1. TypeOK'
      BY <2>2 DEF TypeOK, PendingType, N, Logical
    <3>2. GettersShowStaged' /\ ReadOnlyUntouched'
      BY <2>2 DEF GettersShowStaged, EffectiveArchiveComment, Staged, ReadOnlyUntouched, ReadOnly
    <3> QED
      BY <3>1, <3>2
  <2> QED
    BY <1>14, <2>1, <2>2 DEF ZipSetDefaultPassword
<1>15. ASSUME NEW on \in BOOLEAN, ZipRegisterCancelCallback(on) PROVE Inv'
  <2>1. TypeOK'
    BY <1>15 DEF ZipRegisterCancelCallback, TypeOK, PendingType, N, Logical
  <2>2. GettersShowStaged' /\ ReadOnlyUntouched'
    BY <1>15 DEF ZipRegisterCancelCallback, GettersShowStaged, EffectiveArchiveComment, Staged,
                 ReadOnlyUntouched, ReadOnly
  <2> QED
    BY <2>1, <2>2
<1>16. ASSUME ZipUnchangeAll PROVE Inv'
  <2>1. zip' = zip /\ N' = N /\ pending' = NoPending /\ zip.archive \in Archive
    BY <1>16 DEF ZipUnchangeAll, N, TypeOK
  <2>2. PendingType(pending)' /\ Logical' = N
    BY <2>1, NoPendingType DEF PendingType, Logical, NoPending
  <2>3. overlay' \in [comments : [Index -> Comments \cup {None}],
                      archiveComment : Comments \cup {None}]
    BY <1>16, <2>1 DEF ZipUnchangeAll, TypeOK, Archive
  <2>4. TypeOK'
    BY <1>16, <2>2, <2>3 DEF ZipUnchangeAll, TypeOK, Afl
  <2>5. GettersShowStaged'
    BY <1>16, <2>1, <2>2 DEF ZipUnchangeAll, GettersShowStaged, EffectiveArchiveComment, Staged,
                             NoPending, MetaKind, TypeOK
  <2>6. ReadOnlyUntouched'
    BY <1>16 DEF ZipUnchangeAll, ReadOnlyUntouched, ReadOnly, Afl
  <2> QED
    BY <2>4, <2>5, <2>6
<1>17. ASSUME ZipUnchangeArchive PROVE Inv'
  <2>1. zip' = zip /\ N' = N /\ zip.archive.comment \in Comments \cup {None}
    BY <1>17 DEF ZipUnchangeArchive, N, TypeOK, Archive
  <2>2. PendingType(pending)' /\ Logical' = Logical
    BY <1>17, <2>1 DEF ZipUnchangeArchive, PendingType, Logical, TypeOK
  <2>3. TypeOK'
    BY <1>17, <2>1, <2>2 DEF ZipUnchangeArchive, TypeOK, Afl
  <2>4. GettersShowStaged'
    BY <1>17 DEF ZipUnchangeArchive, GettersShowStaged, EffectiveArchiveComment, Staged, TypeOK, PendingType
  <2>5. ReadOnlyUntouched'
    <3>1. ASSUME ReadOnly PROVE pending' = NoPending
      <4>1. pending = NoPending /\ pending.archiveComment = Unset
        BY <3>1 DEF ReadOnlyUntouched, NoPending
      <4>2. [pending EXCEPT !.archiveComment = Unset] = pending
        BY <4>1 DEF TypeOK, PendingType
      <4> QED
        BY <1>17, <4>1, <4>2 DEF ZipUnchangeArchive
    <3> QED
      BY <1>17, <3>1 DEF ZipUnchangeArchive, ReadOnlyUntouched, ReadOnly, Afl
  <2> QED
    BY <2>3, <2>4, <2>5
<1>18. ASSUME ZipCloseUnwritten \/ ZipCloseFailed \/ ZipDiscard PROVE Inv'
  <2>1. PICK report \in {"none", "ok", "failed"} : FreeHandle(report) /\ file' = file
    BY <1>18 DEF ZipCloseUnwritten, ZipCloseFailed, ZipDiscard
  <2> QED
    BY <2>1, FreeHandleInv DEF TypeOK
<1>19. ASSUME ZipCloseWritten PROVE Inv'
  <2>1. FreeHandle("ok") /\ file' = Materialized
    BY <1>19 DEF ZipCloseWritten
  <2> QED
    BY <2>1, FreeHandleInv, MaterializedType
<1>20. ASSUME ZipCloseWriteError PROVE Inv'
  <2>1. FreeHandle("failed") /\ file' \in {file, Damaged}
    BY <1>20 DEF ZipCloseWriteError
  <2> QED
    BY <2>1, FreeHandleInv, NoFileIsNotAnArchive DEF TypeOK
<1>21. ASSUME NEW i \in Arg, ZipUnchange(i) PROVE Inv'
  <2>1. CASE ~ (i < Logical)
    BY <1>21, <2>1, RejectKeepsInv DEF ZipUnchange, ErrorCodes
  <2>2. CASE i < Logical
    <3>1. /\ pending' = Unchanged(i)
          /\ UNCHANGED <<file, zip, overlay, chAfl, password, cancelCb, err, ret, sessions>>
      BY <1>21, <2>2 DEF ZipUnchange
    <3>2. i \in 0 .. (Logical - 1) /\ i \in Index
      BY <2>2, OnDiskIsIndex
    <3>3. TypeOK'
      <4>1. PendingType(Unchanged(i)) /\ Len(Unchanged(i).adds) =< Len(pending.adds)
            /\ Len(Unchanged(i).adds) \in Nat
        BY <3>2, UnchangedType DEF PendingType
      <4>2. N' = N /\ PendingType(pending)' /\ Logical' =< MaxEntries
        <5>1. N' = N /\ Logical' = N + Len(Unchanged(i).adds)
          BY <3>1 DEF N, Logical
        <5>2. PendingType(pending)'
          BY <3>1, <4>1, <5>1 DEF PendingType
        <5> QED
          BY <4>1, <5>1, <5>2
      <4> QED
        BY <3>1, <4>2 DEF TypeOK
    <3>4. GettersShowStaged'
      BY <3>1, <3>2 DEF GettersShowStaged, EffectiveArchiveComment, Staged, Unchanged, WithoutMeta,
                        TypeOK, PendingType, MetaKind
    <3>5. ReadOnlyUntouched'
      <4>1. ASSUME ReadOnly PROVE pending' = NoPending
        <5>1. pending = NoPending /\ i < N
          BY <2>2, <4>1 DEF ReadOnlyUntouched, NoPending, Logical
        <5>2. WithoutMeta(pending.meta, i) = NoPending.meta
          BY <5>1 DEF WithoutMeta, NoPending, MetaKind
        <5> QED
          BY <3>1, <3>2, <5>1, <5>2 DEF Unchanged, NoPending
      <4> QED
        BY <3>1, <4>1 DEF ReadOnlyUntouched, ReadOnly
    <3> QED
      BY <3>3, <3>4, <3>5
  <2> QED
    BY <2>1, <2>2
<1>22. ASSUME UNCHANGED vars PROVE Inv'
  <2>1. TypeOK'
    BY <1>22 DEF vars, TypeOK, PendingType, N, Logical
  <2>2. GettersShowStaged' /\ ReadOnlyUntouched'
    BY <1>22 DEF vars, GettersShowStaged, EffectiveArchiveComment, Staged, ReadOnlyUntouched, ReadOnly
  <2> QED
    BY <2>1, <2>2
<1> QED
  BY <1>1, <1>2, <1>3, <1>4, <1>5, <1>6, <1>7, <1>8, <1>9, <1>10, <1>11, <1>12, <1>13, <1>14,
     <1>15, <1>16, <1>17, <1>18, <1>19, <1>20, <1>21, <1>22 DEF Next, OtherCalls

\* The inductive invariant holds in every reachable state.
LEMMA SpecInv == Spec => []Inv
  BY InitInv, NextInv, PTL DEF Spec

\* Whatever is called on a handle, in whatever order, every field of Zip and
\* what the path holds keep their types: in particular a staged index is one
\* that exists or existed, and zip_close writes a well-formed archive.
THEOREM TypeCorrect == Spec => []TypeOK
  BY SpecInv, PTL DEF Inv

\* zip_get_archive_comment returns the comment zip_close would write, and a
\* comment staged for an entry is the one zip_file_get_comment returns.
THEOREM GettersFollowStaging == Spec => []GettersShowStaged
  BY SpecInv, PTL DEF Inv

\* No call on a handle opened with ZIP_RDONLY over an existing file changes
\* the file or clears the live read-only flag: check_writable keeps PendingOps
\* empty, so zip_close has nothing to write.
THEOREM ReadOnlyHolds == Spec => ReadOnlyNeverRewrites
<1>1. Inv /\ [Next]_vars =>
        [ReadOnly /\ zip.existed => file' = file /\ "RDONLY" \in chAfl]_vars
  <2> SUFFICES ASSUME Inv, Next, ReadOnly, zip.existed
               PROVE  file' = file /\ "RDONLY" \in chAfl
    OBVIOUS
  <2>1. "RDONLY" \in chAfl /\ ~ ShouldWrite
    BY DEF Inv, ReadOnlyUntouched, ShouldWrite
  <2>2. file' = file
    BY <2>1 DEF Next, OtherCalls, ZipOpen, ZipOpenPathless, StartSession, ZipFileAdd, ZipDirAdd,
       ZipDelete, ZipRename, ZipFileReplace, ZipSourceUnreadable, ZipSetMeta,
       ZipSetMethodUnsupported, ZipFileSetComment, ZipSetArchiveComment, ZipSetArchiveFlag,
       ZipSetDefaultPassword, ZipRegisterCancelCallback, ZipUnchangeAll, ZipUnchangeArchive,
       ZipCloseUnwritten, ZipCloseWritten, ZipCloseFailed, ZipCloseWriteError, ZipDiscard,
       ZipUnchange, Refused, Reject, Stage
  <2> QED
    BY <2>1, <2>2
<1> QED
  BY <1>1, SpecInv, PTL DEF Spec, ReadOnlyNeverRewrites

\* Clearing the method and the encryption of an entry field by field.
LEMMA FreshEntry ==
  ASSUME NEW e \in Entry
  PROVE  [e EXCEPT !.comp = "deflate", !.enc = "none"] =
           [name |-> e.name, data |-> e.data, comment |-> e.comment, time |-> e.time,
            attrs |-> e.attrs, comp |-> "deflate", enc |-> "none"]
<1> DEFINE g == [e EXCEPT !.comp = "deflate"]
<1>1. g = [name |-> e.name, data |-> e.data, comment |-> e.comment, time |-> e.time,
           attrs |-> e.attrs, comp |-> "deflate", enc |-> e.enc]
  BY DEF Entry
<1>2. [e EXCEPT !.comp = "deflate", !.enc = "none"] = [g EXCEPT !.enc = "none"]
  BY DEF Entry
<1> HIDE DEF g
<1>3. [g EXCEPT !.enc = "none"] =
        [name |-> e.name, data |-> e.data, comment |-> e.comment, time |-> e.time,
         attrs |-> e.attrs, comp |-> "deflate", enc |-> "none"]
  BY <1>1
<1> QED
  BY <1>2, <1>3

\* zip_unchange of an entry on disk makes zip_close write that entry as read,
\* and each other logical index as it would have been.
LEMMA UnchangedSlots ==
  ASSUME TypeOK, NEW i \in 0 .. (N - 1), ZipUnchange(i),
         NEW j \in 0 .. (Logical - 1)
  PROVE  /\ Logical' = Logical /\ Base(j)' = Base(j)
         /\ Slot(j)' = IF j = i
                       THEN [live |-> TRUE,
                             entry |-> [zip.archive.entries[i + 1] EXCEPT
                                          !.comp = "deflate", !.enc = "none"]]
                       ELSE Slot(j)
<1>0. i < Logical /\ i < N /\ i \in Index /\ j \in Index
  BY CountsAreNatural DEF Index
<1>1. pending' = Unchanged(i) /\ zip' = zip
  BY <1>0 DEF ZipUnchange
<1>2. /\ pending'.adds = pending.adds
      /\ pending'.deletes = pending.deletes \ {i}
      /\ pending'.renames = [pending.renames EXCEPT ![i] = <<>>]
      /\ pending'.replaces = [pending.replaces EXCEPT ![i] = <<>>]
      /\ pending'.meta = WithoutMeta(pending.meta, i)
  BY <1>0, <1>1 DEF Unchanged
<1>3. N' = N /\ Logical' = Logical /\ Base(j)' = Base(j)
  BY <1>1, <1>2 DEF N, Logical, Base
<1>4. CASE j # i
  <2>1. \A kind \in MetaKind : Staged(kind, j)' = Staged(kind, j)
    BY <1>0, <1>2, <1>4 DEF Staged, WithoutMeta, TypeOK, PendingType
  <2>2. pending'.renames[j] = pending.renames[j] /\ pending'.replaces[j] = pending.replaces[j]
    BY <1>0, <1>2, <1>4 DEF TypeOK, PendingType
  <2>3. (j \notin pending'.deletes) = (j \notin pending.deletes)
    BY <1>2, <1>4
  <2>4. EffectiveTime(j)' = EffectiveTime(j)
    BY <1>3, <2>1 DEF EffectiveTime, StagedOr, MetaKind
  <2>5. Effective(j)' = Effective(j)
    BY <1>3, <2>1, <2>2, <2>4 DEF Effective, StagedOr, MetaKind
  <2> QED
    BY <1>3, <1>4, <2>3, <2>5 DEF Slot
<1>5. CASE j = i
  <2>1. \A kind \in MetaKind : Staged(kind, i)' = Unset
    BY <1>0, <1>2 DEF Staged, WithoutMeta, TypeOK, PendingType
  <2>2. pending'.renames[i] = <<>> /\ pending'.replaces[i] = <<>> /\ i \notin pending'.deletes
    BY <1>0, <1>2 DEF TypeOK, PendingType
  <2>3. Base(i)' = zip.archive.entries[i + 1] /\ Base(i)' \in Entry
    BY <1>0, <1>3, <1>5, BaseType DEF Base
  <2>4. EffectiveTime(i)' = Base(i)'.time
    BY <2>1 DEF EffectiveTime, StagedOr, MetaKind
  <2> DEFINE e == Base(i)'
  <2>5. Effective(i)' = [name |-> e.name, data |-> e.data, comment |-> e.comment,
                         time |-> e.time, attrs |-> e.attrs, comp |-> "deflate",
                         enc |-> "none"]
    BY <2>1, <2>2, <2>4, SentinelsAreApart DEF Effective, StagedOr, FirstOr, MetaKind
  <2>6. Effective(i)' = [e EXCEPT !.comp = "deflate", !.enc = "none"]
    <3> HIDE DEF e
    <3>1. e \in Entry
      BY <2>3 DEF e
    <3> QED BY <2>5, <3>1, FreshEntry
  <2> QED
    BY <1>3, <1>5, <2>2, <2>3, <2>6 DEF Slot
<1> QED
  BY <1>3, <1>4, <1>5

\* zip_unchange of an entry on disk undoes all that was staged for it, and
\* nothing else, however the operations were interleaved.
THEOREM UnchangeRestores == Spec => UnchangeRestoresOriginal
<1> DEFINE Original(i) == [live |-> TRUE,
                           entry |-> [zip.archive.entries[i + 1] EXCEPT
                                        !.comp = "deflate", !.enc = "none"]]
           Restores == \A i \in 0 .. (N - 1) : ZipUnchange(i) => View' = [View EXCEPT ![i + 1] = Original(i)]
<1>1. Inv /\ [Next]_vars => [Restores]_vars
  <2> SUFFICES ASSUME Inv, NEW i \in 0 .. (N - 1), ZipUnchange(i)
               PROVE  View' = [View EXCEPT ![i + 1] = Original(i)]
    OBVIOUS
  <2>1. TypeOK /\ Logical \in Nat /\ N =< Logical
    BY CountsAreNatural DEF Inv
  <2>2. Logical' = Logical
    <3>1. i \in 0 .. (Logical - 1)
      BY <2>1, CountsAreNatural
    <3> QED
      BY <2>1, <3>1, UnchangedSlots
  <2>3. \A k \in 1 .. Logical : Slot(k - 1)' = IF k - 1 = i THEN Original(i) ELSE Slot(k - 1)
    <3> SUFFICES ASSUME NEW k \in 1 .. Logical
                 PROVE  Slot(k - 1)' = IF k - 1 = i THEN Original(i) ELSE Slot(k - 1)
      OBVIOUS
    <3>1. k - 1 \in 0 .. (Logical - 1)
      BY <2>1
    <3> QED
      BY <2>1, <3>1, UnchangedSlots
  <2> HIDE DEF Original
  <2>4. View' = [k \in 1 .. Logical |-> Slot(k - 1)']
    BY <2>2 DEF View
  <2> DEFINE new == [View EXCEPT ![i + 1] = Original(i)]
  <2>5. \A k \in 1 .. Logical : new[k] = IF k = i + 1 THEN Original(i) ELSE Slot(k - 1)
    BY DEF View
  <2>6. new = [k \in 1 .. Logical |-> new[k]]
    BY DEF View
  <2>7. \A k \in 1 .. Logical : Slot(k - 1)' = new[k]
    <3> HIDE DEF new
    <3> QED BY <2>1, <2>3, <2>5
  <2> HIDE DEF new
  <2>8. View' = new
    BY <2>4, <2>6, <2>7
  <2> QED
    BY <2>8 DEF new
<1> QED
  BY <1>1, SpecInv, PTL DEF Spec, UnchangeRestoresOriginal

----------------------------------------------------------------------------
(* Careful clients.                                                        *)

\* Only entries on disk are renamed or replaced.
OnlyOnDisk ==
  \A i \in Index : i >= N => pending.renames[i] = <<>> /\ pending.replaces[i] = <<>>

\* A session with a path starts from what the path holds, unless it truncates.
FileKept ==
  zip.open /\ zip.path =>
    /\ zip.existed \/ "CREATE" \in zip.flags
    /\ zip.existed /\ "TRUNCATE" \notin zip.flags => file = zip.archive

\* The inductive invariant of careful clients.
StagingInv == Inv /\ StagedKeysExist /\ OnlyOnDisk /\ OneChangeEach /\ FileKept

KeysInv == StagedKeysExist /\ OnlyOnDisk

LEMMA NoPendingKeys == ASSUME pending = NoPending PROVE KeysInv /\ OneChangeEach
<1>1. \A i \in Index : /\ pending.renames[i] = <<>> /\ pending.replaces[i] = <<>>
                       /\ \A kind \in MetaKind : Staged(kind, i) = Unset
  BY DEF NoPending, Staged
<1>2. "mtime" \in MetaKind /\ Len(<<>>) = 0
  BY DEF MetaKind
<1> QED BY <1>1, <1>2 DEF KeysInv, StagedKeysExist, OnlyOnDisk, OneChangeEach, StagesNothing

LEMMA CarefulIsNext == CarefulNext => Next
BY DEF CarefulNext, Next, CarefulUnchange

LEMMA CountsAfter ==
  ASSUME TypeOK, UNCHANGED zip, Len(pending'.adds) \in Nat
  PROVE  /\ N' = N /\ N \in Nat /\ Logical \in Nat /\ Logical' \in Nat /\ MaxEntries \in Nat
         /\ Len(pending.adds) \in Nat
         /\ Logical = N + Len(pending.adds) /\ Logical' = N + Len(pending'.adds)
         /\ Index' = Index
<1>1. N' = N
  BY DEF N
<1>2. Logical' = N + Len(pending'.adds)
  BY <1>1 DEF Logical
<1>3. Index' = Index
  BY DEF Index
<1> QED BY <1>1, <1>2, <1>3, CountsAreNatural

\* What staging an operation for an entry that exists does to the others.
LEMMA StagedKeepsKeys ==
  ASSUME TypeOK, KeysInv, UNCHANGED zip, NEW i \in Index, i < Logical,
         Len(pending'.adds) >= Len(pending.adds), Len(pending'.adds) \in Nat,
         \A j \in Index : j # i =>
           /\ pending'.renames[j] = pending.renames[j]
           /\ pending'.replaces[j] = pending.replaces[j]
           /\ \A kind \in MetaKind : Staged(kind, j)' = Staged(kind, j),
         i >= N => pending'.renames[i] = pending.renames[i]
                   /\ pending'.replaces[i] = pending.replaces[i]
  PROVE  KeysInv'
<1>1. /\ N' = N /\ Logical' >= Logical /\ Logical \in Nat /\ Logical' \in Nat /\ N \in Nat
      /\ Index' = Index
  BY CountsAfter
<1>2. ASSUME NEW j \in Index, j >= Logical' PROVE StagesNothing(j)'
  <2>1. j # i /\ j >= Logical
    BY <1>1, <1>2, BoundsAreNatural DEF Index
  <2> QED BY <2>1 DEF KeysInv, StagedKeysExist, StagesNothing
<1>3. ASSUME NEW j \in Index, j >= N' PROVE pending'.renames[j] = <<>> /\ pending'.replaces[j] = <<>>
  BY <1>1, <1>3 DEF KeysInv, OnlyOnDisk
<1> QED BY <1>1, <1>2, <1>3 DEF KeysInv, StagedKeysExist, OnlyOnDisk

\* What is staged for no entry in particular.
LEMMA UnkeyedKeepsKeys ==
  ASSUME TypeOK, KeysInv, UNCHANGED zip,
         Len(pending'.adds) >= Len(pending.adds), Len(pending'.adds) \in Nat,
         pending'.renames = pending.renames, pending'.replaces = pending.replaces,
         pending'.meta = pending.meta
  PROVE  KeysInv'
<1>1. /\ N' = N /\ Logical' >= Logical /\ Logical \in Nat /\ Logical' \in Nat
      /\ Index' = Index
  BY CountsAfter
<1>2. ASSUME NEW j \in Index, j >= Logical' PROVE StagesNothing(j)'
  <2>1. j >= Logical
    BY <1>1, <1>2, BoundsAreNatural DEF Index
  <2> QED BY <2>1 DEF KeysInv, StagedKeysExist, StagesNothing, Staged
<1> QED BY <1>1, <1>2 DEF KeysInv, StagedKeysExist, OnlyOnDisk

\* What unchange_entry leaves.
LEMMA UnchangedFields ==
  ASSUME TypeOK, NEW i \in Index, i < Logical, pending' = Unchanged(i)
  PROVE  /\ pending'.deletes = pending.deletes \ {i}
         /\ pending'.archiveComment = pending.archiveComment
         /\ i < N => pending'.adds = pending.adds
         /\ i >= N => pending'.adds = RemoveAt(pending.adds, i - N + 1)
         /\ pending'.renames[i] = <<>> /\ pending'.replaces[i] = <<>>
         /\ \A kind \in MetaKind : Staged(kind, i)' = Unset
         /\ \A j \in Index : j # i =>
              /\ pending'.renames[j] = pending.renames[j]
              /\ pending'.replaces[j] = pending.replaces[j]
              /\ \A kind \in MetaKind : Staged(kind, j)' = Staged(kind, j)
<1>1. N \in Nat
  BY CountsAreNatural
<1>2. /\ pending'.deletes = pending.deletes \ {i}
      /\ pending'.archiveComment = pending.archiveComment
      /\ pending'.renames = [pending.renames EXCEPT ![i] = <<>>]
      /\ pending'.replaces = [pending.replaces EXCEPT ![i] = <<>>]
      /\ pending'.meta = WithoutMeta(pending.meta, i)
      /\ i < N => pending'.adds = pending.adds
      /\ i >= N => pending'.adds = RemoveAt(pending.adds, i - N + 1)
  BY <1>1, BoundsAreNatural DEF Unchanged, Index
<1>3. pending'.renames[i] = <<>> /\ pending'.replaces[i] = <<>>
  BY <1>2 DEF TypeOK, PendingType
<1>4. \A j \in Index : j # i => /\ pending'.renames[j] = pending.renames[j]
                                /\ pending'.replaces[j] = pending.replaces[j]
  BY <1>2 DEF TypeOK, PendingType
<1>5. \A kind \in MetaKind :
        /\ Staged(kind, i)' = Unset
        /\ \A j \in Index : j # i => Staged(kind, j)' = Staged(kind, j)
  BY <1>2 DEF Staged, WithoutMeta, TypeOK, PendingType
<1> QED BY <1>2, <1>3, <1>4, <1>5

\* An addition that is taken back leaves one fewer.
LEMMA OneFewer ==
  ASSUME TypeOK, NEW i \in Index, i >= N, i < Logical
  PROVE  LET after == RemoveAt(pending.adds, i - N + 1) IN
         /\ after \in Seq(PendingAdd) /\ Len(after) = Len(pending.adds) - 1
         /\ \A p \in 1 .. Len(after) :
              after[p] = pending.adds[IF p < i - N + 1 THEN p ELSE p + 1]
<1>1. i - N + 1 \in 1 .. Len(pending.adds) /\ pending.adds \in Seq(PendingAdd)
  BY CountsAreNatural, BoundsAreNatural DEF TypeOK, PendingType, Index
<1> QED BY <1>1, RemoveAtProperties

LEMMA CarefulUnchangeKeepsKeys ==
  ASSUME TypeOK, KeysInv, NEW i \in Arg, i < Logical, CarefulUnchange(i)
  PROVE  KeysInv'
<1>1. i \in Index /\ pending' = Unchanged(i) /\ UNCHANGED zip
  BY OnDiskIsIndex DEF CarefulUnchange, ZipUnchange
<1>2. N' = N /\ N \in Nat /\ Logical \in Nat /\ Index' = Index
  <2>1. N' = N
    BY <1>1 DEF N
  <2> QED BY <2>1, CountsAreNatural DEF Index
<1>3. CASE i < N
  <2>1. Logical' = Logical
    BY <1>1, <1>2, <1>3, UnchangedFields DEF Logical
  <2>2. ASSUME NEW j \in Index, j >= Logical' PROVE StagesNothing(j)'
    BY <1>1, <2>1, <2>2, UnchangedFields DEF KeysInv, StagedKeysExist, StagesNothing
  <2>3. ASSUME NEW j \in Index, j >= N'
        PROVE  pending'.renames[j] = <<>> /\ pending'.replaces[j] = <<>>
    BY <1>1, <1>2, <2>3, UnchangedFields DEF KeysInv, OnlyOnDisk
  <2> QED BY <1>2, <2>2, <2>3 DEF KeysInv, StagedKeysExist, OnlyOnDisk
<1>4. CASE i >= N
  <2>1. Logical' = Logical - 1
    <3>1. Len(pending'.adds) = Len(pending.adds) - 1
      BY <1>1, <1>4, UnchangedFields, OneFewer
    <3>2. Logical' = N + Len(pending'.adds)
      BY <1>2 DEF Logical
    <3> QED BY <1>2, <3>1, <3>2, CountsAreNatural
  <2>2. ASSUME NEW j \in Index, j >= Logical' PROVE StagesNothing(j)'
    <3>1. CASE j = i
      BY <1>1, <3>1, UnchangedFields DEF StagesNothing
    <3>2. CASE j # i
      <4>1. j > i
        BY <1>1, <1>2, <2>1, <2>2, <3>2, BoundsAreNatural DEF Index
      <4>2. StagesNothing(j)
        BY <1>4, <4>1 DEF CarefulUnchange
      <4> QED BY <1>1, <3>2, <4>2, UnchangedFields DEF StagesNothing
    <3> QED BY <3>1, <3>2
  <2>3. ASSUME NEW j \in Index, j >= N'
        PROVE  pending'.renames[j] = <<>> /\ pending'.replaces[j] = <<>>
    BY <1>1, <1>2, <2>3, UnchangedFields DEF KeysInv, OnlyOnDisk
  <2> QED BY <1>2, <2>2, <2>3 DEF KeysInv, StagedKeysExist, OnlyOnDisk
<1> QED BY <1>1, <1>2, <1>3, <1>4, BoundsAreNatural DEF Index

LEMMA NothingStagedKeys == ASSUME pending' = NoPending PROVE KeysInv'
<1>1. \A i \in Index : /\ pending'.renames[i] = <<>> /\ pending'.replaces[i] = <<>>
                       /\ \A kind \in MetaKind : Staged(kind, i)' = Unset
  BY DEF NoPending, Staged
<1>2. Index' = Index /\ MetaKind' = MetaKind
  BY DEF Index, MetaKind
<1> QED BY <1>1, <1>2 DEF KeysInv, StagedKeysExist, OnlyOnDisk, StagesNothing

LEMMA KeysKept == ASSUME Inv, Inv', KeysInv, CarefulNext PROVE KeysInv'
<1>1. TypeOK /\ Len(pending.adds) \in Nat /\ Len(pending'.adds) \in Nat
  BY DEF Inv, TypeOK, PendingType
<1>2. ASSUME UNCHANGED zip,
             pending'.adds = pending.adds \/ Len(pending'.adds) = Len(pending.adds) + 1,
             pending'.renames = pending.renames, pending'.replaces = pending.replaces,
             pending'.meta = pending.meta
      PROVE  KeysInv'
  BY <1>1, <1>2, UnkeyedKeepsKeys
<1>3. ASSUME NEW code, Reject(code) PROVE KeysInv'
  BY <1>2, <1>3 DEF Reject
<1>4. ASSUME NEW i \in Arg, i < Logical, UNCHANGED zip, NEW kind \in MetaKind, NEW v,
             pending' = WithMeta(kind, i, v)
      PROVE  KeysInv'
  <2>1. i \in Index
    BY <1>1, <1>4, OnDiskIsIndex
  <2>2. /\ pending'.adds = pending.adds
        /\ pending'.renames = pending.renames /\ pending'.replaces = pending.replaces
        /\ pending'.meta = [pending.meta EXCEPT ![kind] = [pending.meta[kind] EXCEPT ![i] = v]]
    BY <1>1, <1>4 DEF WithMeta, TypeOK, PendingType
  <2>3. \A j \in Index : j # i => \A k \in MetaKind : Staged(k, j)' = Staged(k, j)
    BY <1>1, <2>2 DEF Staged, TypeOK, PendingType
  <2> QED BY <1>1, <1>4, <2>1, <2>2, <2>3, StagedKeepsKeys
<1>5. ASSUME NEW i \in Arg, i < N, UNCHANGED zip,
             pending'.adds = pending.adds, pending'.meta = pending.meta,
             \A j \in Index : j # i => /\ pending'.renames[j] = pending.renames[j]
                                       /\ pending'.replaces[j] = pending.replaces[j]
      PROVE  KeysInv'
  <2>1. i \in Index /\ i < Logical /\ ~(i >= N)
    BY <1>1, <1>5, OnDiskIsIndex, CountsAreNatural DEF Arg
  <2>2. \A j \in Index : \A k \in MetaKind : Staged(k, j)' = Staged(k, j)
    BY <1>5 DEF Staged
  <2> QED BY <1>1, <1>5, <2>1, <2>2, StagedKeepsKeys
<1>6. ASSUME NEW i \in Arg, i < N, UNCHANGED zip, NEW d, pending' = WithReplace(i, d)
      PROVE  KeysInv'
  BY <1>1, <1>5, <1>6 DEF WithReplace, TypeOK, PendingType
<1>7. ASSUME UNCHANGED zip, NEW n \in Names, NEW d \in Contents, pending' = WithAdd(n, d)
      PROVE  KeysInv'
  BY <1>1, <1>2, <1>7 DEF WithAdd, TypeOK, PendingType
\* The calls.
<1>8. ASSUME \E flags : ZipOpen(flags) \/ ZipOpenPathless(flags) PROVE KeysInv'
  <2>1. pending' = NoPending
    BY <1>8 DEF ZipOpen, ZipOpenPathless, StartSession
  <2> QED BY <2>1, NothingStagedKeys
<1>9. ASSUME NEW n \in Names, NEW d \in Contents, NEW o, ZipFileAdd(n, d, o) PROVE KeysInv'
  <2>1. CASE Refused(FALSE)
    BY <1>3, <2>1 DEF Refused
  <2>2. CASE Located(n) # {} /\ Stage(WithReplace(NameLocate(n), d))
    <3>1. NameLocate(n) \in Arg /\ NameLocate(n) < N
      BY <1>1, <2>2, NameLocateIsOnDisk, CountsAreNatural DEF Arg
    <3> QED BY <1>6, <2>2, <3>1 DEF Stage
  <2>3. CASE Stage(WithAdd(n, d))
    BY <1>7, <2>3 DEF Stage
  <2> QED BY <1>3, <1>9, <2>1, <2>2, <2>3 DEF ZipFileAdd
<1>10. ASSUME NEW n \in DirNames, ZipDirAdd(n) PROVE KeysInv'
  <2>1. CASE Stage(WithAdd(n, EmptyContent))
    <3>1. n \in Names /\ EmptyContent \in Contents
      BY SubsetsOfData, PayloadsAreDistinct
    <3> QED BY <1>7, <2>1, <3>1 DEF Stage
  <2> QED BY <1>3, <1>10, <2>1 DEF ZipDirAdd, Refused
<1>11. ASSUME NEW i \in Arg, ZipDelete(i) PROVE KeysInv'
  <2>1. CASE Stage([pending EXCEPT !.deletes = @ \cup {i}])
    BY <1>1, <1>2, <2>1 DEF Stage, TypeOK, PendingType
  <2> QED BY <1>3, <1>11, <2>1 DEF ZipDelete, Refused
<1>12. ASSUME NEW i \in Arg, NEW n \in Names, ZipRename(i, n) PROVE KeysInv'
  <2>1. CASE i < N /\ Stage([pending EXCEPT !.renames[i] = Append(@, n)])
    BY <1>1, <1>5, <2>1 DEF Stage, TypeOK, PendingType
  <2> QED BY <1>3, <1>12, <2>1 DEF ZipRename, Refused, Accepted
<1>13. ASSUME NEW i \in Arg, NEW d \in Contents, ZipFileReplace(i, d) PROVE KeysInv'
  <2>1. CASE i < N /\ Stage(WithReplace(i, d))
    BY <1>6, <2>1 DEF Stage
  <2> QED BY <1>3, <1>13, <2>1 DEF ZipFileReplace, Refused, Accepted
<1>14. ASSUME NEW kind \in MetaKind, NEW i \in Arg, NEW v, ZipSetMeta(kind, i, v) PROVE KeysInv'
  <2>1. CASE i < Logical /\ Stage(WithMeta(kind, i, v))
    BY <1>4, <2>1 DEF Stage
  <2> QED BY <1>3, <1>14, <2>1 DEF ZipSetMeta, Refused, Accepted
<1>15. ASSUME NEW i \in Arg, NEW c, ZipFileSetComment(i, c) PROVE KeysInv'
  <2>1. CASE i < Logical /\ pending' = WithMeta("comment", i, c) /\ UNCHANGED zip
    <3>1. "comment" \in MetaKind
      BY DEF MetaKind
    <3> QED BY <1>4, <2>1, <3>1
  <2> QED BY <1>3, <1>15, <2>1 DEF ZipFileSetComment, Refused, Accepted
<1>16. ASSUME (\E c : ZipSetArchiveComment(c)) \/ ZipUnchangeArchive PROVE KeysInv'
  <2>1. CASE \E c : pending' = [pending EXCEPT !.archiveComment = c] /\ UNCHANGED zip
    BY <1>1, <1>2, <2>1 DEF TypeOK, PendingType
  <2> QED BY <1>3, <1>16, <2>1 DEF ZipSetArchiveComment, ZipUnchangeArchive, Refused
<1>17. ASSUME UNCHANGED <<zip, pending>> PROVE KeysInv'
  BY <1>2, <1>17
<1>18. ASSUME \/ ZipSourceUnreadable
              \/ \E kind, i : ZipSetMethodUnsupported(kind, i)
              \/ \E flag, on : ZipSetArchiveFlag(flag, on)
              \/ \E pw : ZipSetDefaultPassword(pw)
              \/ \E on : ZipRegisterCancelCallback(on)
       PROVE  UNCHANGED <<file, zip, pending>>
  BY <1>18 DEF ZipSourceUnreadable, ZipSetMethodUnsupported, ZipSetArchiveFlag,
               ZipSetDefaultPassword, ZipRegisterCancelCallback, Reject
<1>19. ASSUME \/ ZipUnchangeAll \/ ZipCloseUnwritten \/ ZipCloseWritten \/ ZipCloseFailed
              \/ ZipCloseWriteError \/ ZipDiscard
       PROVE  KeysInv'
  <2>1. pending' = NoPending
    BY <1>19 DEF ZipUnchangeAll, ZipCloseUnwritten, ZipCloseWritten, ZipCloseFailed,
                 ZipCloseWriteError, ZipDiscard, FreeHandle
  <2> QED BY <2>1, NothingStagedKeys
<1>20. ASSUME NEW i \in Arg, CarefulUnchange(i) PROVE KeysInv'
  <2>1. CASE i < Logical
    BY <1>1, <1>20, <2>1, CarefulUnchangeKeepsKeys
  <2>2. CASE ~(i < Logical)
    BY <1>3, <1>20, <2>2 DEF CarefulUnchange, ZipUnchange
  <2> QED BY <2>1, <2>2
<1> QED BY <1>8, <1>9, <1>10, <1>11, <1>12, <1>13, <1>14, <1>15, <1>16, <1>17, <1>18, <1>19,
           <1>20 DEF CarefulNext, OtherCalls

LEMMA FileStaysKept == ASSUME Inv, FileKept, CarefulNext PROVE FileKept'
<1>1. ASSUME UNCHANGED <<file, zip>> PROVE FileKept'
  BY <1>1 DEF FileKept
<1>2. ASSUME NEW flags, ZipOpen(flags) PROVE FileKept'
  <2>1. CASE file # None /\ "TRUNCATE" \notin flags
    BY <1>2, <2>1 DEF ZipOpen, StartSession, FileKept
  <2>2. CASE ~(file # None /\ "TRUNCATE" \notin flags)
    <3>1. /\ zip'.flags = flags
          /\ file = None => "CREATE" \in flags
      BY <1>2, <2>2 DEF ZipOpen, StartSession
    <3>2. zip'.existed = (file # None)
      BY <1>2, <2>2 DEF ZipOpen, StartSession
    <3>3. zip'.existed <=> file # None
      BY <3>2, Zenon
    <3> QED BY <2>2, <3>1, <3>3 DEF FileKept
  <2> QED BY <2>1, <2>2
<1>3. ASSUME NEW flags, ZipOpenPathless(flags) PROVE FileKept'
  BY <1>3 DEF ZipOpenPathless, StartSession, FileKept
<1>4. ASSUME \/ ZipCloseUnwritten \/ ZipCloseWritten \/ ZipCloseFailed
             \/ ZipCloseWriteError \/ ZipDiscard
      PROVE  FileKept'
  <2>1. ~zip'.open
    BY <1>4 DEF ZipCloseUnwritten, ZipCloseWritten, ZipCloseFailed, ZipCloseWriteError,
                ZipDiscard, FreeHandle, NoSession
  <2> QED BY <2>1 DEF FileKept
<1>5. ASSUME \/ \E n \in Names, d \in Contents, o \in BOOLEAN : ZipFileAdd(n, d, o)
             \/ \E n \in DirNames : ZipDirAdd(n)
             \/ \E i \in Arg : ZipDelete(i)
             \/ \E i \in Arg, n \in Names : ZipRename(i, n)
             \/ \E i \in Arg, d \in Contents : ZipFileReplace(i, d)
             \/ ZipSourceUnreadable
             \/ \E kind \in MetaKind : \E i \in Arg, v \in MetaValue(kind) :
                  ZipSetMeta(kind, i, v)
             \/ \E kind \in MetaKind, i \in Arg : ZipSetMethodUnsupported(kind, i)
      PROVE  UNCHANGED <<file, zip>>
  BY <1>5 DEF ZipFileAdd, ZipDirAdd, ZipDelete, ZipRename, ZipFileReplace, ZipSourceUnreadable,
              ZipSetMeta, ZipSetMethodUnsupported, Refused, Reject, Stage
<1>6. ASSUME \/ \E i \in Arg, c \in Comments \cup {None} : ZipFileSetComment(i, c)
             \/ \E c \in Comments \cup {None} : ZipSetArchiveComment(c)
             \/ \E flag \in {"RDONLY", "WANT_TORRENTZIP", "IS_TORRENTZIP"} :
                  \E on \in BOOLEAN : ZipSetArchiveFlag(flag, on)
             \/ \E pw \in Passwords \cup {None} : ZipSetDefaultPassword(pw)
             \/ \E on \in BOOLEAN : ZipRegisterCancelCallback(on)
             \/ ZipUnchangeAll \/ ZipUnchangeArchive
             \/ \E i \in Arg : CarefulUnchange(i)
      PROVE  UNCHANGED <<file, zip>>
  BY <1>6 DEF ZipFileSetComment, ZipSetArchiveComment, ZipSetArchiveFlag, ZipSetDefaultPassword,
              ZipRegisterCancelCallback, ZipUnchangeAll, ZipUnchangeArchive, CarefulUnchange,
              ZipUnchange, Refused, Reject, Stage
<1> QED BY <1>1, <1>2, <1>3, <1>4, <1>5, <1>6 DEF CarefulNext, OtherCalls

LEMMA StagingInvKept == StagingInv /\ [CarefulNext]_vars => StagingInv'
<1>1. ASSUME StagingInv, CarefulNext PROVE StagingInv'
  <2>1. Inv'
    BY <1>1, CarefulIsNext, NextInv DEF StagingInv
  <2>2. KeysInv'
    BY <1>1, <2>1, KeysKept DEF StagingInv, KeysInv
  <2>3. FileKept'
    BY <1>1, FileStaysKept DEF StagingInv
  <2>4. OneChangeEach'
    BY <1>1 DEF CarefulNext
  <2> QED BY <2>1, <2>2, <2>3, <2>4 DEF StagingInv, KeysInv
<1>2. ASSUME StagingInv, UNCHANGED vars PROVE StagingInv'
  <2>1. Inv'
    BY <1>2, NextInv DEF StagingInv
  <2>2. KeysInv'
    BY <1>2 DEF StagingInv, KeysInv, StagedKeysExist, OnlyOnDisk, StagesNothing, Staged, Logical,
                N, vars
  <2>3. OneChangeEach' /\ FileKept'
    BY <1>2 DEF StagingInv, OneChangeEach, FileKept, Staged, vars
  <2> QED BY <2>1, <2>2, <2>3 DEF StagingInv, KeysInv
<1> QED BY <1>1, <1>2

LEMMA StagingInvHolds == CarefulSpec => []StagingInv
<1>1. Init => StagingInv
  <2> SUFFICES ASSUME Init PROVE StagingInv
    OBVIOUS
  <2>1. KeysInv /\ OneChangeEach
    BY NoPendingKeys DEF Init
  <2>2. FileKept
    BY DEF Init, NoSession, FileKept
  <2> QED BY <2>1, <2>2, InitInv DEF StagingInv, KeysInv
<1> QED BY <1>1, StagingInvKept, PTL DEF CarefulSpec

\* For careful clients nothing waits at an index for whatever is added next,
\* however calls that stage, add and revert are mixed.
THEOREM StagedKeysAlwaysExist == CarefulSpec => []StagedKeysExist
BY StagingInvHolds, PTL DEF StagingInv

----------------------------------------------------------------------------
(* Staging as editing: what each call does to what would be written.       *)

Session ==
  [open |-> zip.open, base |-> zip.archive, writable |-> ~ReadOnly,
   path |-> zip.path, password |-> password]
WouldBe == [slots |-> View, comment |-> EffectiveArchiveComment]

LEMMA EditStep ==
  ASSUME zip.open, ~ReadOnly, UNCHANGED <<file, zip, password, ret>>, NEW v, WouldBe' = v
  PROVE  Eager!Edit(v)
<1>1. Session' = Session
  BY DEF Session, ReadOnly
<1> QED BY <1>1 DEF Eager!Edit, Session, WouldBe

\* A view is a sequence of typed slots.
LEMMA ViewType ==
  ASSUME TypeOK
  PROVE  /\ View \in Seq(SlotType) /\ Len(View) = Logical
         /\ DOMAIN View = 1 .. Logical
         /\ \A i \in 0 .. (Logical - 1) : View[i + 1] = Slot(i) /\ Slot(i) \in SlotType
<1>0. Logical \in Nat
  BY CountsAreNatural
<1>1. \A k \in 1 .. Logical : Slot(k - 1) \in SlotType
  BY <1>0, EffectiveType
<1>2. View \in Seq(SlotType) /\ Len(View) = Logical
  BY <1>0, <1>1, IsASeq DEF View
<1>3. DOMAIN View = 1 .. Logical
  BY DEF View
<1>4. ASSUME NEW i \in 0 .. (Logical - 1) PROVE View[i + 1] = Slot(i)
  <2>1. i + 1 \in 1 .. Logical /\ (i + 1) - 1 = i
    BY <1>0
  <2> QED BY <2>1 DEF View
<1> QED BY <1>2, <1>3, <1>4, EffectiveType

\* What would be written for an index follows from its base and what is staged.
LEMMA SlotStays ==
  ASSUME NEW j, Base(j)' = Base(j),
         pending'.renames[j] = pending.renames[j], pending'.replaces[j] = pending.replaces[j],
         j \in pending'.deletes <=> j \in pending.deletes,
         \A kind \in MetaKind : Staged(kind, j)' = Staged(kind, j)
  PROVE  Slot(j)' = Slot(j)
<1>1. EffectiveTime(j)' = EffectiveTime(j)
  BY DEF EffectiveTime, StagedOr, MetaKind
<1>2. Effective(j)' = Effective(j)
  BY <1>1 DEF Effective, StagedOr, MetaKind
<1>3. (j \notin pending'.deletes) = (j \notin pending.deletes)
  OBVIOUS
<1> QED BY <1>2, <1>3 DEF Slot

LEMMA BaseStays ==
  ASSUME UNCHANGED zip, pending'.adds = pending.adds
  PROVE  N' = N /\ Logical' = Logical /\ \A j : Base(j)' = Base(j)
<1>1. N' = N
  BY DEF N
<1> QED BY <1>1 DEF Logical, Base

LEMMA ViewEdited ==
  ASSUME TypeOK, UNCHANGED zip, pending'.adds = pending.adds,
         NEW i \in 0 .. (Logical - 1), NEW new, Slot(i)' = new,
         \A j \in 0 .. (Logical - 1) : j # i => Slot(j)' = Slot(j)
  PROVE  View' = [View EXCEPT ![i + 1] = new]
<1>1. Logical' = Logical /\ Logical \in Nat
  BY BaseStays, CountsAreNatural
<1>2. View' = [k \in 1 .. Logical |-> Slot(k - 1)']
  BY <1>1 DEF View
<1>3. ASSUME NEW k \in 1 .. Logical PROVE Slot(k - 1)' = IF k = i + 1 THEN new ELSE View[k]
  <2>1. k - 1 \in 0 .. (Logical - 1) /\ (k - 1 = i <=> k = i + 1) /\ (k - 1) + 1 = k
    BY <1>1
  <2>2. View[k] = Slot(k - 1)
    BY DEF View
  <2> QED BY <2>1, <2>2
<1>4. DOMAIN View = 1 .. Logical
  BY DEF View
<1> HIDE DEF View
<1> QED BY <1>2, <1>3, <1>4

\* One field of one entry that is neither deleted nor added by the call.
LEMMA FieldEdited ==
  ASSUME TypeOK, zip.open, ~ReadOnly, UNCHANGED <<file, zip, password, ret>>,
         pending'.adds = pending.adds, pending'.archiveComment = pending.archiveComment,
         NEW i \in 0 .. (Logical - 1), NEW f \in Eager!EntryFields, NEW v \in Eager!FieldValue(f),
         f \in {"name", "data"} => i < N,
         Slot(i)' = [live |-> Slot(i).live, entry |-> [Slot(i).entry EXCEPT ![f] = v]],
         \A j \in 0 .. (Logical - 1) : j # i => Slot(j)' = Slot(j)
  PROVE  Eager!Next
<1>1. i + 1 \in 1 .. Logical /\ i + 1 \in DOMAIN View
  BY CountsAreNatural, ViewType
<1>2. View' = [View EXCEPT ![i + 1] = [live |-> Slot(i).live,
                                       entry |-> [Slot(i).entry EXCEPT ![f] = v]]]
  BY ViewEdited
<1>3. EffectiveArchiveComment' = EffectiveArchiveComment
  BY DEF EffectiveArchiveComment
<1>4. View[i + 1] = Slot(i) /\ Slot(i) \in SlotType
  BY ViewType
<1>5. WouldBe' = [WouldBe EXCEPT !.slots[i + 1].entry[f] = v]
  <2>1. [Slot(i) EXCEPT !.entry[f] = v]
          = [live |-> Slot(i).live, entry |-> [Slot(i).entry EXCEPT ![f] = v]]
    BY <1>4 DEF SlotType
  <2>2. [View EXCEPT ![i + 1].entry[f] = v]
          = [View EXCEPT ![i + 1] = [View[i + 1] EXCEPT !.entry[f] = v]]
    OBVIOUS
  <2>3. [WouldBe EXCEPT !.slots[i + 1].entry[f] = v]
          = [slots |-> [View EXCEPT ![i + 1].entry[f] = v], comment |-> EffectiveArchiveComment]
    BY DEF WouldBe
  <2> QED BY <1>2, <1>3, <1>4, <2>1, <2>2, <2>3 DEF WouldBe
<1>6. Eager!Edit([WouldBe EXCEPT !.slots[i + 1].entry[f] = v])
  BY <1>5, EditStep
<1>7. f \in {"name", "data"} => Eager!OnDisk(i + 1)
  <2>1. i < N => i + 1 \in 1 .. Len(zip.archive.entries)
    BY CountsAreNatural DEF N
  <2>2. zip.archive.entries \in Seq(Entry)
    BY DEF TypeOK, Archive
  <2> QED BY <2>1, <2>2 DEF Eager!OnDisk
<1>8. Eager!SetField(i + 1, f)
  BY <1>6, <1>7 DEF Eager!SetField, WouldBe
<1> QED BY <1>1, <1>8 DEF Eager!Next

LEMMA RenameEdits ==
  ASSUME StagingInv, OneChangeEach', zip.open, NEW i \in Arg, NEW n \in Names,
         i < N, Accepted(TRUE), Stage([pending EXCEPT !.renames[i] = Append(@, n)])
  PROVE  Eager!Next
<1>1. TypeOK /\ i \in Index /\ i \in 0 .. (Logical - 1)
  BY OnDiskIsIndex, CountsAreNatural DEF StagingInv, Inv, Arg
<1>2. /\ pending'.adds = pending.adds /\ pending'.archiveComment = pending.archiveComment
      /\ pending'.deletes = pending.deletes /\ pending'.replaces = pending.replaces
      /\ pending'.meta = pending.meta
      /\ pending'.renames = [pending.renames EXCEPT ![i] = Append(pending.renames[i], n)]
      /\ UNCHANGED <<file, zip, password, ret>>
  BY <1>1 DEF Stage, TypeOK, PendingType
<1>3. \A j : Base(j)' = Base(j) /\ \A kind \in MetaKind : Staged(kind, j)' = Staged(kind, j)
  BY <1>2, BaseStays DEF Staged
<1>4. \A j \in 0 .. (Logical - 1) : j # i => Slot(j)' = Slot(j)
  <2>1. \A j \in 0 .. (Logical - 1) : j # i => pending'.renames[j] = pending.renames[j]
    BY <1>2, <1>1, CountsAreNatural DEF TypeOK, PendingType, Index
  <2> QED BY <1>2, <1>3, <2>1, SlotStays
<1>5. pending.renames[i] \in Seq(Names)
  BY <1>1 DEF TypeOK, PendingType
<1>6. pending'.renames[i] = Append(pending.renames[i], n)
  BY <1>1, <1>2 DEF TypeOK, PendingType
<1>7. Len(pending'.renames[i]) =< 1
  BY <1>1 DEF OneChangeEach, Index
<1>8. FirstOr(pending'.renames[i], Base(i).name) = n
  <2> DEFINE old == pending.renames[i]
  <2>1. old \in Seq(Names) /\ Len(Append(old, n)) =< 1
    BY <1>5, <1>6, <1>7
  <2> HIDE DEF old
  <2>2. Append(old, n) # <<>> /\ Head(Append(old, n)) = n
    BY <2>1, AppendProperties
  <2> QED BY <1>6, <2>2 DEF FirstOr, old
<1>9. EffectiveTime(i)' = EffectiveTime(i)
  BY <1>3 DEF EffectiveTime, StagedOr, MetaKind
<1>10. Effective(i)' = [Effective(i) EXCEPT !["name"] = n]
  BY <1>2, <1>3, <1>8, <1>9 DEF Effective, StagedOr, MetaKind
<1>11. Slot(i)' = [live |-> Slot(i).live, entry |-> [Slot(i).entry EXCEPT !["name"] = n]]
  BY <1>2, <1>10 DEF Slot
<1>12. "name" \in Eager!EntryFields /\ n \in Eager!FieldValue("name")
  BY DEF Eager!EntryFields, Eager!FieldValue
<1> QED BY <1>1, <1>2, <1>4, <1>11, <1>12, FieldEdited DEF Accepted

LEMMA ReplaceEdits ==
  ASSUME StagingInv, OneChangeEach', zip.open, NEW i \in Arg, NEW d \in Contents,
         i < N, Accepted(TRUE), Stage(WithReplace(i, d))
  PROVE  Eager!Next
<1>1. TypeOK /\ i \in Index /\ i \in 0 .. (Logical - 1)
  BY OnDiskIsIndex, CountsAreNatural DEF StagingInv, Inv, Arg
<1>2. /\ pending'.adds = pending.adds /\ pending'.archiveComment = pending.archiveComment
      /\ pending'.deletes = pending.deletes /\ pending'.renames = pending.renames
      /\ pending'.meta = pending.meta
      /\ pending'.replaces = [pending.replaces EXCEPT ![i] = Append(pending.replaces[i], d)]
      /\ UNCHANGED <<file, zip, password, ret>>
  BY <1>1 DEF Stage, WithReplace, TypeOK, PendingType
<1>3. \A j : Base(j)' = Base(j) /\ \A kind \in MetaKind : Staged(kind, j)' = Staged(kind, j)
  BY <1>2, BaseStays DEF Staged
<1>4. \A j \in 0 .. (Logical - 1) : j # i => Slot(j)' = Slot(j)
  <2>1. \A j \in 0 .. (Logical - 1) : j # i => pending'.replaces[j] = pending.replaces[j]
    BY <1>2, <1>1, CountsAreNatural DEF TypeOK, PendingType, Index
  <2> QED BY <1>2, <1>3, <2>1, SlotStays
<1>5. pending.replaces[i] \in Seq(Contents)
  BY <1>1 DEF TypeOK, PendingType
<1>6. pending'.replaces[i] = Append(pending.replaces[i], d)
  BY <1>1, <1>2 DEF TypeOK, PendingType
<1>7. Len(pending'.replaces[i]) =< 1
  BY <1>1 DEF OneChangeEach, Index
<1>8. FirstOr(pending'.replaces[i], Base(i).data) = d
  <2> DEFINE old == pending.replaces[i]
  <2>1. old \in Seq(Contents) /\ Len(Append(old, d)) =< 1
    BY <1>5, <1>6, <1>7
  <2> HIDE DEF old
  <2>2. Append(old, d) # <<>> /\ Head(Append(old, d)) = d
    BY <2>1, AppendProperties
  <2> QED BY <1>6, <2>2 DEF FirstOr, old
<1>9. EffectiveTime(i)' = EffectiveTime(i)
  BY <1>3 DEF EffectiveTime, StagedOr, MetaKind
<1>10. Effective(i)' = [Effective(i) EXCEPT !["data"] = d]
  BY <1>2, <1>3, <1>8, <1>9 DEF Effective, StagedOr, MetaKind
<1>11. Slot(i)' = [live |-> Slot(i).live, entry |-> [Slot(i).entry EXCEPT !["data"] = d]]
  BY <1>2, <1>10 DEF Slot
<1>12. "data" \in Eager!EntryFields /\ d \in Eager!FieldValue("data")
  BY DEF Eager!EntryFields, Eager!FieldValue
<1> QED BY <1>1, <1>2, <1>4, <1>11, <1>12, FieldEdited DEF Accepted

\* What a field of an entry becomes by a value staged in one of the lists.
FieldOf(kind) ==
  CASE kind = "encryption"  -> "enc"
    [] kind = "comment"     -> "comment"
    [] kind = "mtime"       -> "time"
    [] kind = "dostime"     -> "time"
    [] kind = "attrs"       -> "attrs"
    [] kind = "compression" -> "comp"
ValueOf(kind, v) ==
  CASE kind = "mtime" -> UnixToDos(v)
    [] kind = "compression" -> (IF v = "default" THEN "deflate" ELSE v)
    [] OTHER -> v

LEMMA MetaEdits ==
  ASSUME StagingInv, OneChangeEach', zip.open, ~ReadOnly,
         NEW kind \in MetaKind, NEW i \in Arg, NEW v \in MetaValue(kind),
         i < Logical, pending' = WithMeta(kind, i, v), UNCHANGED <<file, zip, password, ret>>
  PROVE  Eager!Next
<1>1. TypeOK /\ i \in Index /\ i \in 0 .. (Logical - 1)
  BY OnDiskIsIndex, CountsAreNatural DEF StagingInv, Inv, Arg
<1>2. /\ pending'.adds = pending.adds /\ pending'.archiveComment = pending.archiveComment
      /\ pending'.deletes = pending.deletes /\ pending'.renames = pending.renames
      /\ pending'.replaces = pending.replaces
      /\ pending'.meta = [pending.meta EXCEPT ![kind] = [pending.meta[kind] EXCEPT ![i] = v]]
  BY <1>1 DEF WithMeta, TypeOK, PendingType
<1>3. \A j : Base(j)' = Base(j)
  BY <1>2, BaseStays
<1>4. /\ Staged(kind, i)' = v
      /\ \A k \in MetaKind : k # kind => Staged(k, i)' = Staged(k, i)
      /\ \A j \in Index : j # i => \A k \in MetaKind : Staged(k, j)' = Staged(k, j)
  BY <1>1, <1>2 DEF Staged, TypeOK, PendingType
<1>5. \A j \in 0 .. (Logical - 1) : j # i => Slot(j)' = Slot(j)
  <2>1. \A j \in 0 .. (Logical - 1) : j \in Index
    BY CountsAreNatural, <1>1 DEF Index
  <2> QED BY <1>2, <1>3, <1>4, <2>1, SlotStays
<1>6. v # Unset
  BY SentinelsAreApart DEF MetaKind, MetaValue
<1>7. Staged("mtime", i)' = Unset \/ Staged("dostime", i)' = Unset
  BY <1>1 DEF OneChangeEach, Index
<1> DEFINE f == FieldOf(kind)
           new == ValueOf(kind, v)
<1>8. f \in Eager!EntryFields /\ new \in Eager!FieldValue(f) /\ f \notin {"name", "data"}
  BY DEF MetaKind, MetaValue, FieldOf, ValueOf, Eager!EntryFields, Eager!FieldValue
<1>9. Effective(i)' = [Effective(i) EXCEPT ![f] = new]
  <2>1. CASE kind = "encryption"
    <3>1. EffectiveTime(i)' = EffectiveTime(i)
      BY <1>3, <1>4, <2>1 DEF EffectiveTime, StagedOr, MetaKind
    <3> QED BY <1>2, <1>3, <1>4, <1>6, <2>1, <3>1 DEF Effective, StagedOr, MetaKind, FieldOf, ValueOf
  <2>2. CASE kind = "comment"
    <3>1. EffectiveTime(i)' = EffectiveTime(i)
      BY <1>3, <1>4, <2>2 DEF EffectiveTime, StagedOr, MetaKind
    <3> QED BY <1>2, <1>3, <1>4, <1>6, <2>2, <3>1 DEF Effective, StagedOr, MetaKind, FieldOf, ValueOf
  <2>3. CASE kind = "mtime"
    <3>1. EffectiveTime(i)' = UnixToDos(v)
      BY <1>4, <1>6, <2>3 DEF EffectiveTime
    <3> QED BY <1>2, <1>3, <1>4, <2>3, <3>1 DEF Effective, StagedOr, MetaKind, FieldOf, ValueOf
  <2>4. CASE kind = "dostime"
    <3>1. EffectiveTime(i)' = v
      BY <1>4, <1>6, <1>7, <2>4 DEF EffectiveTime, StagedOr
    <3> QED BY <1>2, <1>3, <1>4, <2>4, <3>1 DEF Effective, StagedOr, MetaKind, FieldOf, ValueOf
  <2>5. CASE kind = "attrs"
    <3>1. EffectiveTime(i)' = EffectiveTime(i)
      BY <1>3, <1>4, <2>5 DEF EffectiveTime, StagedOr, MetaKind
    <3> QED BY <1>2, <1>3, <1>4, <1>6, <2>5, <3>1 DEF Effective, StagedOr, MetaKind, FieldOf, ValueOf
  <2>6. CASE kind = "compression"
    <3>1. EffectiveTime(i)' = EffectiveTime(i)
      BY <1>3, <1>4, <2>6 DEF EffectiveTime, StagedOr, MetaKind
    <3>2. v \in {"default", "store", "deflate"}
      BY <2>6 DEF MetaValue
    <3> QED BY <1>2, <1>3, <1>4, <2>6, <3>1, <3>2 DEF Effective, StagedOr, MetaKind, FieldOf, ValueOf
  <2> QED BY <2>1, <2>2, <2>3, <2>4, <2>5, <2>6 DEF MetaKind
<1>10. Slot(i)' = [live |-> Slot(i).live, entry |-> [Slot(i).entry EXCEPT ![f] = new]]
  BY <1>2, <1>9 DEF Slot
<1> HIDE DEF f, new
<1> QED BY <1>1, <1>2, <1>5, <1>8, <1>10, FieldEdited

LEMMA DeleteEdits ==
  ASSUME StagingInv, zip.open, NEW i \in Arg, i < N, Accepted(TRUE),
         Stage([pending EXCEPT !.deletes = @ \cup {i}])
  PROVE  Eager!Next
<1>1. TypeOK /\ i \in Index /\ i \in 0 .. (Logical - 1)
  BY OnDiskIsIndex, CountsAreNatural DEF StagingInv, Inv, Arg
<1>2. /\ pending'.adds = pending.adds /\ pending'.archiveComment = pending.archiveComment
      /\ pending'.replaces = pending.replaces /\ pending'.renames = pending.renames
      /\ pending'.meta = pending.meta /\ pending'.deletes = pending.deletes \cup {i}
      /\ UNCHANGED <<file, zip, password, ret>>
  BY <1>1 DEF Stage, TypeOK, PendingType
<1>3. \A j : Base(j)' = Base(j) /\ \A kind \in MetaKind : Staged(kind, j)' = Staged(kind, j)
  BY <1>2, BaseStays DEF Staged
<1>4. \A j \in 0 .. (Logical - 1) : j # i => Slot(j)' = Slot(j)
  BY <1>2, <1>3, SlotStays
<1>5. EffectiveTime(i)' = EffectiveTime(i)
  BY <1>3 DEF EffectiveTime, StagedOr, MetaKind
<1>6. Effective(i)' = Effective(i)
  BY <1>2, <1>3, <1>5 DEF Effective, StagedOr, MetaKind
<1>7. Slot(i)' = [live |-> FALSE, entry |-> Slot(i).entry]
  <2>1. (i \notin pending'.deletes) = FALSE
    BY <1>2
  <2> QED BY <1>6, <2>1 DEF Slot
<1>8. View' = [View EXCEPT ![i + 1] = [live |-> FALSE, entry |-> Slot(i).entry]]
  BY <1>1, <1>2, <1>4, <1>7, ViewEdited
<1>9. EffectiveArchiveComment' = EffectiveArchiveComment
  BY <1>2 DEF EffectiveArchiveComment
<1>10. View[i + 1] = Slot(i) /\ Slot(i) \in SlotType
  BY <1>1, ViewType
<1>11. WouldBe' = [WouldBe EXCEPT !.slots[i + 1].live = FALSE]
  <2>1. [Slot(i) EXCEPT !.live = FALSE] = [live |-> FALSE, entry |-> Slot(i).entry]
    <3> DEFINE entry == Effective(i)
               live == i \notin pending.deletes
    <3>1. Slot(i) = [live |-> live, entry |-> entry] /\ Slot(i).entry = entry
      BY DEF Slot
    <3> HIDE DEF entry, live
    <3>2. ASSUME NEW no
          PROVE  [[live |-> live, entry |-> entry] EXCEPT !.live = no] = [live |-> no, entry |-> entry]
      OBVIOUS
    <3>3. [[live |-> live, entry |-> entry] EXCEPT !.live = FALSE] = [live |-> FALSE, entry |-> entry]
      BY <3>2, Zenon
    <3> QED BY <3>1, <3>3, Zenon
  <2>2. [WouldBe EXCEPT !.slots[i + 1].live = FALSE]
          = [slots |-> [View EXCEPT ![i + 1] = [View[i + 1] EXCEPT !.live = FALSE]],
             comment |-> EffectiveArchiveComment]
    BY DEF WouldBe
  <2> QED BY <1>8, <1>9, <1>10, <2>1, <2>2 DEF WouldBe
<1>12. Eager!Edit([WouldBe EXCEPT !.slots[i + 1].live = FALSE])
  BY <1>2, <1>11, EditStep DEF Accepted
<1>13. Eager!OnDisk(i + 1) /\ i + 1 \in DOMAIN View
  <2>1. i + 1 \in 1 .. Len(zip.archive.entries)
    BY CountsAreNatural, <1>1 DEF N, Arg
  <2>2. zip.archive.entries \in Seq(Entry)
    BY <1>1 DEF TypeOK, Archive
  <2> QED BY <1>1, <2>1, <2>2, ViewType, CountsAreNatural DEF Eager!OnDisk
<1>14. Eager!Delete(i + 1)
  BY <1>12, <1>13 DEF Eager!Delete, WouldBe
<1> QED BY <1>13, <1>14 DEF Eager!Next

\* An addition is a fresh slot at the end: nothing is staged for its index.
LEMMA AddEdits ==
  ASSUME StagingInv, TypeOK', zip.open, NEW n \in Names, NEW d \in Contents,
         Accepted(TRUE), Located(n) = {}, Logical < MaxEntries, Stage(WithAdd(n, d))
  PROVE  Eager!Next
<1>1. TypeOK /\ Logical \in Nat /\ N \in Nat /\ Logical \in Index /\ Logical >= N
      /\ pending.adds \in Seq(PendingAdd) /\ Logical = N + Len(pending.adds)
      /\ Len(pending.adds) \in Nat
  BY CountsAreNatural, BoundsAreNatural DEF StagingInv, Inv, TypeOK, PendingType, Index
<1> DEFINE add == [name |-> n, data |-> d]
<1>2. /\ pending'.adds = Append(pending.adds, add)
      /\ pending'.archiveComment = pending.archiveComment
      /\ pending'.deletes = pending.deletes /\ pending'.renames = pending.renames
      /\ pending'.meta = pending.meta /\ pending'.replaces = pending.replaces
      /\ UNCHANGED <<file, zip, password, ret>>
  BY <1>1 DEF Stage, WithAdd, TypeOK, PendingType
<1>3. /\ Append(pending.adds, add) \in Seq(PendingAdd)
      /\ Len(Append(pending.adds, add)) = Len(pending.adds) + 1
      /\ \A p \in 1 .. Len(pending.adds) : Append(pending.adds, add)[p] = pending.adds[p]
      /\ Append(pending.adds, add)[Len(pending.adds) + 1] = add
  <2>1. add \in PendingAdd
    BY DEF PendingAdd
  <2> QED BY <1>1, <2>1, AppendProperties
<1>4. N' = N /\ Logical' = Logical + 1
  <2>1. N' = N
    BY <1>2 DEF N
  <2> QED BY <1>1, <1>2, <1>3, <2>1 DEF Logical
<1>5. ASSUME NEW j \in 0 .. (Logical - 1) PROVE Slot(j)' = Slot(j)
  <2>1. Base(j)' = Base(j)
    <3>1. CASE j < N
      BY <1>2, <1>4, <3>1 DEF Base
    <3>2. CASE ~(j < N)
      <4>1. j - N + 1 \in 1 .. Len(pending.adds)
        BY <1>1, <3>2
      <4>2. pending'.adds[j - N + 1] = pending.adds[j - N + 1]
        BY <1>2, <1>3, <4>1
      <4> QED BY <1>4, <3>2, <4>2 DEF Base
    <3> QED BY <3>1, <3>2
  <2>2. \A kind \in MetaKind : Staged(kind, j)' = Staged(kind, j)
    BY <1>2 DEF Staged
  <2> QED BY <1>2, <2>1, <2>2, SlotStays
<1> DEFINE entry == [name |-> n, data |-> d, comment |-> None, time |-> 0, attrs |-> DefaultAttrs,
                     comp |-> "deflate", enc |-> "none"]
<1>6. PICK new \in Index : new = Logical
  BY <1>1
<1>7. Slot(new)' = [live |-> TRUE, entry |-> entry]
  <2>1. /\ \A kind \in MetaKind : pending.meta[kind][new] = Unset
        /\ pending.renames[new] = <<>> /\ pending.replaces[new] = <<>>
    BY <1>1, <1>6 DEF StagingInv, StagedKeysExist, StagesNothing, OnlyOnDisk, Staged
  <2>2. \A kind \in MetaKind : Staged(kind, new)' = Unset
    BY <1>2, <2>1 DEF Staged
  <2>3. new \notin pending'.deletes
    BY <1>1, <1>2, <1>6 DEF TypeOK, PendingType
  <2>4. Base(new)' = [name |-> n, data |-> d, comment |-> None, time |-> 0, attrs |-> DefaultAttrs,
                      comp |-> "deflate", enc |-> None]
    <3>1. ~(new < N) /\ new - N + 1 = Len(pending.adds) + 1
      BY <1>1, <1>6
    <3>2. pending'.adds[new - N + 1] = add
      BY <1>2, <1>3, <3>1
    <3> QED BY <1>4, <3>1, <3>2 DEF Base
  <2>5. EffectiveTime(new)' = 0
    BY <2>2, <2>4 DEF EffectiveTime, StagedOr, MetaKind
  <2>6. /\ FirstOr(pending.renames[new], Base(new).name)' = n
        /\ FirstOr(pending.replaces[new], Base(new).data)' = d
    BY <1>2, <2>1, <2>4 DEF FirstOr
  <2>7. /\ StagedOr("comment", new, Base(new).comment)' = None
        /\ StagedOr("attrs", new, Base(new).attrs)' = DefaultAttrs
        /\ StagedOr("encryption", new, "none")' = "none"
    BY <2>2, <2>4 DEF StagedOr, MetaKind
  <2>8. Staged("compression", new)' \notin {"store", "deflate"}
    BY <2>2, SentinelsAreApart DEF MetaKind
  <2>9. Effective(new)' = entry
    BY <2>5, <2>6, <2>7, <2>8 DEF Effective
  <2>10. (new \notin pending'.deletes) = TRUE
    BY <2>3
  <2> HIDE DEF entry
  <2> QED BY <2>9, <2>10 DEF Slot
<1>8. View' = Append(View, [live |-> TRUE, entry |-> entry])
  <2> DEFINE slot == [live |-> TRUE, entry |-> entry]
             v == View
  <2>1. v \in Seq(SlotType) /\ Len(v) = Logical /\ DOMAIN v = 1 .. Logical
        /\ \A j \in 0 .. (Logical - 1) : v[j + 1] = Slot(j)
    BY <1>1, ViewType
  <2>2. View' = [k \in 1 .. (Logical + 1) |-> Slot(k - 1)']
    BY <1>4 DEF View
  <2> HIDE DEF v, slot
  <2>3. Append(v, slot) = [k \in 1 .. (Logical + 1) |-> IF k = Logical + 1 THEN slot ELSE v[k]]
    <3> DEFINE app == Append(v, slot)
    <3>1. slot \in SlotType
      <4>1. slot.live = TRUE /\ slot.entry = entry /\ entry \in [name : Names, data : Contents \cup {Corrupt},
              comment : Comments \cup {None}, time : Nat, attrs : Attrs,
              comp : {"store", "deflate"}, enc : {"none", "encrypted"}]
        BY SentinelsAreApart DEF slot
      <4> QED BY <4>1 DEF slot, SlotType
    <3>2. /\ app \in Seq(SlotType) /\ Len(app) = Logical + 1
          /\ \A k \in 1 .. Logical : app[k] = v[k]
          /\ app[Logical + 1] = slot
      BY <1>1, <2>1, <3>1, AppendProperties
    <3> HIDE DEF app
    <3>3. app = [k \in 1 .. (Logical + 1) |-> app[k]]
      BY <3>2
    <3>4. \A k \in 1 .. (Logical + 1) : app[k] = IF k = Logical + 1 THEN slot ELSE v[k]
      BY <1>1, <3>2
    <3> QED BY <3>3, <3>4 DEF app
  <2>4. ASSUME NEW k \in 1 .. (Logical + 1)
        PROVE  Slot(k - 1)' = IF k = Logical + 1 THEN slot ELSE v[k]
    <3>1. CASE k = Logical + 1
      <4>1. k - 1 = new
        BY <1>1, <1>6, <3>1
      <4> QED BY <1>7, <3>1, <4>1 DEF slot
    <3>2. CASE k # Logical + 1
      <4>1. k - 1 \in 0 .. (Logical - 1) /\ (k - 1) + 1 = k
        BY <1>1, <3>2
      <4>2. v[k] = Slot(k - 1)
        BY <2>1, <4>1
      <4>3. Slot(k - 1)' = Slot(k - 1)
        BY <1>5, <4>1
      <4> QED BY <3>2, <4>2, <4>3
    <3> QED BY <3>1, <3>2
  <2>5. View' = Append(v, slot)
    BY <2>2, <2>3, <2>4
  <2> QED BY <2>5 DEF v, slot
<1>9. EffectiveArchiveComment' = EffectiveArchiveComment
  BY <1>2 DEF EffectiveArchiveComment
<1> HIDE DEF entry
<1>10. WouldBe' = [WouldBe EXCEPT !.slots = Append(@, [live |-> TRUE, entry |-> entry])]
  <2> DEFINE slot == [live |-> TRUE, entry |-> entry]
  <2>1. View' = Append(View, slot)
    BY <1>8
  <2> HIDE DEF slot
  <2> DEFINE v == View
             c == EffectiveArchiveComment
  <2>2. WouldBe = [slots |-> v, comment |-> c]
    BY DEF WouldBe
  <2>3. WouldBe' = [slots |-> Append(v, slot), comment |-> c]
    BY <1>9, <2>1 DEF WouldBe
  <2> HIDE DEF v, c
  <2>4. WouldBe' = [WouldBe EXCEPT !.slots = Append(@, slot)]
    <3> DEFINE old == WouldBe
               longer == Append(v, slot)
    <3>1. old = [slots |-> v, comment |-> c] /\ old.slots = v
      BY <2>2
    <3>2. WouldBe' = [slots |-> longer, comment |-> c]
      BY <2>3
    <3>3. Append(old.slots, slot) = longer
      BY <3>1
    <3> HIDE DEF old, longer
    <3>4. [old EXCEPT !.slots = longer] = [slots |-> longer, comment |-> c]
      BY <3>1
    <3>5. WouldBe' = [old EXCEPT !.slots = Append(old.slots, slot)]
      BY <3>2, <3>3, <3>4, Zenon
    <3> QED BY <3>5, Zenon DEF old
  <2> QED BY <2>4 DEF slot
<1>11. Eager!Edit([WouldBe EXCEPT !.slots = Append(@, [live |-> TRUE, entry |-> entry])])
  BY <1>2, <1>10, EditStep DEF Accepted
<1>12. \A k \in DOMAIN zip.archive.entries : zip.archive.entries[k].name # n
  <2>1. zip.archive.entries \in Seq(Entry) /\ DOMAIN zip.archive.entries = 1 .. N
    BY <1>1 DEF TypeOK, Archive, N
  <2>2. ASSUME NEW k \in 1 .. N, zip.archive.entries[k].name = n PROVE FALSE
    <3>1. k - 1 \in 0 .. (N - 1) /\ (k - 1) + 1 = k
      BY <1>1
    <3>2. k - 1 \in Located(n)
      BY <2>2, <3>1 DEF Located
    <3> QED BY <3>2
  <2> QED BY <2>1, <2>2
<1>13. Eager!Add(n, d)
  BY <1>11, <1>12 DEF Eager!Add, WouldBe, entry
<1> QED BY <1>13 DEF Eager!Next

\* An entry for which nothing is staged would be written as a fresh one.
Untouched(j) ==
  /\ pending.renames[j] = <<>> /\ pending.replaces[j] = <<>> /\ j \notin pending.deletes
  /\ \A kind \in MetaKind : Staged(kind, j) = Unset
FreshSlot(b) ==
  [live |-> TRUE,
   entry |-> [name |-> b.name, data |-> b.data, comment |-> b.comment, time |-> b.time,
              attrs |-> b.attrs, comp |-> "deflate", enc |-> "none"]]

CleanSlots == \A j : Untouched(j) => Slot(j) = FreshSlot(Base(j))

LEMMA UntouchedSlot == CleanSlots
<1> SUFFICES ASSUME NEW j, Untouched(j) PROVE Slot(j) = FreshSlot(Base(j))
  BY DEF CleanSlots
<1>1. EffectiveTime(j) = Base(j).time
  BY DEF Untouched, EffectiveTime, StagedOr, MetaKind
<1>2. /\ FirstOr(pending.renames[j], Base(j).name) = Base(j).name
      /\ FirstOr(pending.replaces[j], Base(j).data) = Base(j).data
  BY DEF Untouched, FirstOr
<1>3. /\ StagedOr("comment", j, Base(j).comment) = Base(j).comment
      /\ StagedOr("attrs", j, Base(j).attrs) = Base(j).attrs
      /\ StagedOr("encryption", j, "none") = "none"
      /\ Staged("compression", j) \notin {"store", "deflate"}
  BY SentinelsAreApart DEF Untouched, StagedOr, MetaKind
<1>4. Effective(j) = FreshSlot(Base(j)).entry
  BY <1>1, <1>2, <1>3 DEF Effective, FreshSlot
<1>5. (j \notin pending.deletes) = TRUE
  BY DEF Untouched
<1> QED BY <1>4, <1>5 DEF Slot, FreshSlot

LEMMA FreshView == TypeOK /\ pending = NoPending => WouldBe = Eager!Fresh(zip.archive)
<1> SUFFICES ASSUME TypeOK, pending = NoPending PROVE WouldBe = Eager!Fresh(zip.archive)
  OBVIOUS
<1>1. Logical = N /\ N \in Nat /\ zip.archive.entries \in Seq(Entry)
      /\ DOMAIN zip.archive.entries = 1 .. N /\ MaxEntries \in Nat /\ N =< MaxEntries
  <2>1. Len(pending.adds) = 0
    BY DEF NoPending
  <2>2. zip.archive.entries \in Seq(Entry)
    BY DEF TypeOK, Archive
  <2>3. N \in Nat /\ N + Len(pending.adds) = Logical /\ MaxEntries \in Nat /\ Logical =< MaxEntries
    BY CountsAreNatural
  <2> QED BY <2>1, <2>2, <2>3 DEF N
<1>2. ASSUME NEW k \in 1 .. N
      PROVE  Slot(k - 1) = [live |-> TRUE,
                            entry |-> [zip.archive.entries[k] EXCEPT !.comp = "deflate",
                                                                     !.enc = "none"]]
  <2>1. k - 1 \in Index /\ k - 1 < N /\ (k - 1) + 1 = k
    BY <1>1 DEF Index
  <2>2. Base(k - 1) = zip.archive.entries[k]
    BY <2>1 DEF Base
  <2>3. Untouched(k - 1)
    BY <2>1 DEF Untouched, NoPending, Staged
  <2> DEFINE e == zip.archive.entries[k]
  <2>4. e \in Entry
    BY <1>1
  <2>5. Slot(k - 1) = FreshSlot(e)
    BY <2>2, <2>3, UntouchedSlot DEF CleanSlots
  <2> HIDE DEF e
  <2>6. Slot(k - 1) = [live |-> TRUE, entry |-> [e EXCEPT !.comp = "deflate", !.enc = "none"]]
    BY <2>4, <2>5, FreshEntry DEF FreshSlot
  <2> QED BY <2>6 DEF e
<1>3. View = [k \in 1 .. N |-> Slot(k - 1)]
  BY <1>1 DEF View
<1>4. EffectiveArchiveComment = zip.archive.comment
  BY DEF EffectiveArchiveComment, NoPending
<1> QED BY <1>1, <1>2, <1>3, <1>4 DEF WouldBe, Eager!Fresh

LEMMA ViewUnchanged ==
  ASSUME UNCHANGED zip,
         \/ UNCHANGED pending
         \/ pending'.adds = pending.adds /\ pending'.renames = pending.renames
            /\ pending'.replaces = pending.replaces /\ pending'.deletes = pending.deletes
            /\ pending'.meta = pending.meta
  PROVE  View' = View
<1>1. /\ pending'.adds = pending.adds /\ pending'.renames = pending.renames
      /\ pending'.replaces = pending.replaces /\ pending'.deletes = pending.deletes
      /\ pending'.meta = pending.meta
  OBVIOUS
<1>2. \A j : Base(j)' = Base(j) /\ \A kind \in MetaKind : Staged(kind, j)' = Staged(kind, j)
  BY <1>1, BaseStays DEF Staged
<1>3. \A j : Slot(j)' = Slot(j)
  BY <1>1, <1>2, SlotStays
<1>4. Logical' = Logical
  BY <1>1, BaseStays
<1> QED BY <1>3, <1>4 DEF View

LEMMA Stutter ==
  ASSUME UNCHANGED <<file, zip, pending, password, ret>>
  PROVE  UNCHANGED Eager!vars
<1>1. WouldBe' = WouldBe
  BY ViewUnchanged DEF WouldBe, EffectiveArchiveComment
<1>2. Session' = Session
  BY DEF Session, ReadOnly
<1> QED BY <1>1, <1>2 DEF Eager!vars, WouldBe, Session

LEMMA CommentEdits ==
  ASSUME TypeOK, zip.open, ~ReadOnly, NEW c \in Comments \cup {None},
         pending' = [pending EXCEPT !.archiveComment = c], UNCHANGED <<file, zip, password, ret>>
  PROVE  Eager!Next
<1>1. /\ pending'.adds = pending.adds /\ pending'.archiveComment = c
      /\ pending'.deletes = pending.deletes /\ pending'.renames = pending.renames
      /\ pending'.meta = pending.meta /\ pending'.replaces = pending.replaces
  BY DEF TypeOK, PendingType
<1>2. View' = View
  BY <1>1, ViewUnchanged
<1>3. EffectiveArchiveComment' = c
  BY <1>1, SentinelsAreApart DEF EffectiveArchiveComment
<1>4. WouldBe' = [WouldBe EXCEPT !.comment = c]
  BY <1>2, <1>3 DEF WouldBe
<1>5. Eager!SetComment(c)
  BY <1>4, EditStep DEF Eager!SetComment, WouldBe
<1> QED BY <1>5 DEF Eager!Next

\* The reverting calls.  On a read-only handle nothing is staged: they do nothing.
LEMMA UnchangeAllReverts ==
  ASSUME StagingInv, TypeOK', ZipUnchangeAll
  PROVE  [Eager!Next]_(Eager!vars)
<1>1. zip.open /\ pending' = NoPending /\ UNCHANGED <<file, zip, password, ret>>
  BY DEF ZipUnchangeAll, Calling
<1>2. CASE ReadOnly
  <2>1. UNCHANGED pending
    BY <1>1, <1>2 DEF StagingInv, Inv, ReadOnlyUntouched
  <2> QED BY <1>1, <2>1, Stutter
<1>3. CASE ~ReadOnly
  <2>1. (TypeOK /\ pending = NoPending => WouldBe = Eager!Fresh(zip.archive))'
    BY FreshView, PTL
  <2>2. WouldBe' = Eager!Fresh(zip.archive)
    <3>1. NoPending' = NoPending
      BY DEF NoPending, Index, MetaKind
    <3>2. Eager!Fresh(zip.archive)' = Eager!Fresh(zip.archive)
      BY <1>1 DEF Eager!Fresh
    <3> QED BY <1>1, <2>1, <3>1, <3>2
  <2>3. Eager!RevertAll
    BY <1>1, <1>3, <2>2, EditStep DEF Eager!RevertAll
  <2> QED BY <2>3 DEF Eager!Next
<1> QED BY <1>2, <1>3

LEMMA UnchangeArchiveReverts ==
  ASSUME StagingInv, ZipUnchangeArchive
  PROVE  [Eager!Next]_(Eager!vars)
<1>1. zip.open /\ pending' = [pending EXCEPT !.archiveComment = Unset]
      /\ UNCHANGED <<file, zip, password, ret>> /\ TypeOK
  BY DEF ZipUnchangeArchive, Calling, StagingInv, Inv
<1>2. CASE ReadOnly
  <2>1. pending = NoPending
    BY <1>1, <1>2 DEF StagingInv, Inv, ReadOnlyUntouched
  <2>2. UNCHANGED pending
    <3>1. PICK a, b, c : pending = [adds |-> <<>>, deletes |-> {}, renames |-> a, replaces |-> b,
                                    meta |-> c, archiveComment |-> Unset]
      BY <2>1 DEF NoPending
    <3> QED BY <1>1, <3>1
  <2> QED BY <1>1, <2>2, Stutter
<1>3. CASE ~ReadOnly
  <2>1. /\ pending'.adds = pending.adds /\ pending'.archiveComment = Unset
        /\ pending'.deletes = pending.deletes /\ pending'.renames = pending.renames
        /\ pending'.meta = pending.meta /\ pending'.replaces = pending.replaces
    BY <1>1 DEF TypeOK, PendingType
  <2>2. View' = View
    BY <1>1, <2>1, ViewUnchanged
  <2>3. EffectiveArchiveComment' = zip.archive.comment
    BY <1>1, <2>1 DEF EffectiveArchiveComment
  <2>4. WouldBe' = [WouldBe EXCEPT !.comment = zip.archive.comment]
    BY <2>2, <2>3 DEF WouldBe
  <2>5. Eager!RevertComment
    BY <1>1, <1>3, <2>4, EditStep DEF Eager!RevertComment, WouldBe
  <2> QED BY <2>5 DEF Eager!Next
<1> QED BY <1>2, <1>3

\* zip_unchange of an added entry takes its slot away, because nothing is
\* staged for the additions behind it: they slide into indices that are clean.
LEMMA AddedSlotGoes ==
  ASSUME StagingInv, NEW i \in Arg, i >= N, i < Logical, CarefulUnchange(i)
  PROVE  View' = RemoveAt(View, i + 1)
<1>1. TypeOK /\ i \in Index /\ i \in 0 .. (Logical - 1)
  BY OnDiskIsIndex DEF StagingInv, Inv
<1>2. /\ N \in Nat /\ Logical \in Nat /\ Logical =< MaxEntries /\ MaxEntries \in Nat
      /\ Logical = N + Len(pending.adds) /\ i \in Nat /\ Len(pending.adds) \in Nat
      /\ \A j \in 0 .. (Logical - 1) : j \in Index
  BY <1>1, CountsAreNatural DEF Index
<1>3. pending' = Unchanged(i) /\ UNCHANGED zip
  BY <1>1 DEF CarefulUnchange, ZipUnchange
<1> DEFINE after == RemoveAt(pending.adds, i - N + 1)
<1>4. /\ pending'.adds = after /\ pending'.deletes = pending.deletes \ {i}
      /\ pending'.renames[i] = <<>> /\ pending'.replaces[i] = <<>>
      /\ \A kind \in MetaKind : Staged(kind, i)' = Unset
      /\ \A j \in Index : j # i =>
           /\ pending'.renames[j] = pending.renames[j]
           /\ pending'.replaces[j] = pending.replaces[j]
           /\ \A kind \in MetaKind : Staged(kind, j)' = Staged(kind, j)
  BY <1>1, <1>3, UnchangedFields
<1>5. Len(after) = Len(pending.adds) - 1
  BY <1>1, OneFewer
<1>14. \A p \in 1 .. Len(after) : after[p] = pending.adds[IF p < i - N + 1 THEN p ELSE p + 1]
  BY <1>1, OneFewer
<1> HIDE DEF after
<1>6. N' = N /\ Logical' = Logical - 1
  <2>1. N' = N
    BY <1>3 DEF N
  <2> QED BY <1>2, <1>4, <1>5, <2>1 DEF Logical
<1>7. ASSUME NEW j \in 0 .. (Logical - 1), j < i PROVE Slot(j)' = Slot(j)
  <2>1. Base(j)' = Base(j)
    <3>1. CASE j < N
      BY <1>3, <1>6, <3>1 DEF Base
    <3>2. CASE ~(j < N)
      <4>1. j - N + 1 \in 1 .. Len(after) /\ j - N + 1 < i - N + 1
        <5>1. j \in Nat /\ j >= N /\ j < i /\ i < N + Len(pending.adds)
          BY <1>2, <1>7, <3>2
        <5> QED BY <1>2, <1>5, <5>1
      <4>2. pending'.adds[j - N + 1] = pending.adds[j - N + 1]
        BY <1>4, <1>14, <4>1
      <4> QED BY <1>6, <3>2, <4>2 DEF Base
    <3> QED BY <3>1, <3>2
  <2>2. j \in Index /\ j # i
    BY <1>2, <1>7
  <2> QED BY <1>4, <2>1, <2>2, SlotStays
<1>8. ASSUME NEW j \in 0 .. (Logical - 1), j >= i, j # Logical - 1 PROVE Slot(j)' = Slot(j + 1)
  <2>1. j \in Index /\ j + 1 \in 0 .. (Logical - 1) /\ j + 1 \in Index /\ j + 1 > i
        /\ j >= N /\ j + 1 >= N
    BY <1>2, <1>8
  <2>2. StagesNothing(j + 1) /\ (j # i => StagesNothing(j))
    BY <1>2, <1>8, <2>1 DEF CarefulUnchange
  <2>3. /\ pending.renames[j] = <<>> /\ pending.replaces[j] = <<>>
        /\ pending.renames[j + 1] = <<>> /\ pending.replaces[j + 1] = <<>>
    BY <2>1 DEF StagingInv, OnlyOnDisk
  <2>4. j \notin pending.deletes /\ j + 1 \notin pending.deletes
    BY <1>1, <1>2, <2>1 DEF TypeOK, PendingType
  <2>5. Untouched(j + 1)
    BY <2>2, <2>3, <2>4 DEF Untouched, StagesNothing
  <2>6. Untouched(j)'
    <3>1. pending'.renames[j] = <<>> /\ pending'.replaces[j] = <<>>
      BY <1>4, <2>1, <2>3
    <3>2. \A kind \in MetaKind : Staged(kind, j)' = Unset
      BY <1>4, <2>1, <2>2 DEF StagesNothing
    <3> QED BY <1>4, <2>4, <3>1, <3>2 DEF Untouched
  <2>7. Base(j)' = Base(j + 1)
    <3>1. j - N + 1 \in 1 .. Len(after) /\ ~(j - N + 1 < i - N + 1)
          /\ (j - N + 1) + 1 = (j + 1) - N + 1 /\ ~(j < N) /\ ~(j + 1 < N)
      BY <1>2, <1>5, <1>8, <2>1
    <3>2. pending'.adds[j - N + 1] = pending.adds[(j + 1) - N + 1]
      BY <1>4, <1>14, <3>1
    <3> DEFINE new == [name |-> pending.adds[(j + 1) - N + 1].name,
                       data |-> pending.adds[(j + 1) - N + 1].data,
                       comment |-> None, time |-> 0, attrs |-> DefaultAttrs,
                       comp |-> "deflate", enc |-> None]
    <3>3. Base(j)' = new
      BY <1>6, <3>1, <3>2 DEF Base
    <3>4. Base(j + 1) = new
      BY <3>1 DEF Base
    <3> HIDE DEF new
    <3> QED BY <3>3, <3>4, Zenon
  <2>8. CleanSlots'
    BY UntouchedSlot, PTL
  <2>9. Slot(j)' = FreshSlot(Base(j)')
    BY <2>6, <2>8 DEF CleanSlots, FreshSlot
  <2>10. Slot(j + 1) = FreshSlot(Base(j + 1))
    BY <2>5, UntouchedSlot DEF CleanSlots
  <2> QED BY <2>7, <2>9, <2>10
<1> DEFINE v == View
<1>9. /\ v \in Seq(SlotType) /\ Len(v) = Logical
      /\ \A j \in 0 .. (Logical - 1) : v[j + 1] = Slot(j)
  BY <1>1, ViewType
<1>10. View' = [k \in 1 .. (Logical - 1) |-> Slot(k - 1)']
  BY <1>6 DEF View
<1> HIDE DEF v
<1>11. ASSUME NEW k \in 1 .. (Logical - 1)
       PROVE  Slot(k - 1)' = v[IF k < i + 1 THEN k ELSE k + 1]
  <2>1. CASE k < i + 1
    <3>1. k - 1 \in 0 .. (Logical - 1) /\ k - 1 < i /\ (k - 1) + 1 = k
      BY <1>2, <2>1
    <3> QED BY <1>7, <1>9, <2>1, <3>1
  <2>2. CASE ~(k < i + 1)
    <3>1. /\ k - 1 \in 0 .. (Logical - 1) /\ k - 1 >= i /\ (k - 1) + 1 = k /\ k - 1 # Logical - 1
          /\ k \in 0 .. (Logical - 1)
      BY <1>2, <2>2
    <3>2. Slot(k - 1)' = Slot(k)
      BY <1>8, <3>1
    <3>3. v[k + 1] = Slot(k)
      BY <1>9, <3>1
    <3> QED BY <2>2, <3>2, <3>3
  <2> QED BY <2>1, <2>2
<1>12. RemoveAt(v, i + 1) = [k \in 1 .. (Logical - 1) |-> v[IF k < i + 1 THEN k ELSE k + 1]]
  <2> DEFINE gone == RemoveAt(v, i + 1)
  <2>1. i + 1 \in 1 .. Len(v)
    BY <1>1, <1>2, <1>9
  <2>2. /\ gone \in Seq(SlotType) /\ Len(gone) = Logical - 1
        /\ \A p \in 1 .. (Logical - 1) : gone[p] = v[IF p < i + 1 THEN p ELSE p + 1]
    BY <1>9, <2>1, RemoveAtProperties
  <2> HIDE DEF gone
  <2>3. gone = [k \in 1 .. (Logical - 1) |-> gone[k]]
    BY <2>2
  <2> QED BY <2>2, <2>3 DEF gone
<1>13. View' = RemoveAt(v, i + 1)
  BY <1>10, <1>11, <1>12
<1> QED BY <1>13 DEF v

LEMMA UnchangeRevertsOne ==
  ASSUME StagingInv, TypeOK', NEW i \in Arg, CarefulUnchange(i)
  PROVE  [Eager!Next]_(Eager!vars)
<1>1. zip.open /\ TypeOK /\ UNCHANGED <<file, zip, password, ret>>
  BY DEF CarefulUnchange, ZipUnchange, Calling, Reject, StagingInv, Inv
<1>2. CASE ~(i < Logical)
  <2>1. UNCHANGED pending
    BY <1>2 DEF CarefulUnchange, ZipUnchange, Reject
  <2> QED BY <1>1, <2>1, Stutter
<1>3. CASE i < Logical /\ ReadOnly
  <2>1. pending = NoPending
    BY <1>3 DEF StagingInv, Inv, ReadOnlyUntouched
  <2>2. i \in Index /\ pending' = Unchanged(i)
    BY <1>1, <1>3, OnDiskIsIndex DEF CarefulUnchange, ZipUnchange
  <2>3. i < N
    <3>1. Len(pending.adds) = 0
      BY <2>1 DEF NoPending
    <3> QED BY <1>1, <1>3, <3>1, CountsAreNatural
  <2>4. UNCHANGED pending
    <3>1. /\ pending.renames = [j \in Index |-> <<>>] /\ pending.replaces = [j \in Index |-> <<>>]
          /\ pending.meta = [kind \in MetaKind |-> [j \in Index |-> Unset]]
          /\ pending.adds = <<>> /\ pending.deletes = {} /\ pending.archiveComment = Unset
      BY <2>1 DEF NoPending
    <3>2. [pending.renames EXCEPT ![i] = <<>>] = pending.renames
      BY <2>2, <3>1
    <3>3. [pending.replaces EXCEPT ![i] = <<>>] = pending.replaces
      BY <2>2, <3>1
    <3>4. WithoutMeta(pending.meta, i) = pending.meta
      BY <2>2, <3>1 DEF WithoutMeta
    <3>5. pending.deletes \ {i} = pending.deletes
      BY <3>1
    <3>6. pending' = [adds |-> pending.adds, deletes |-> pending.deletes,
                      renames |-> pending.renames, replaces |-> pending.replaces,
                      meta |-> pending.meta, archiveComment |-> pending.archiveComment]
      BY <2>2, <2>3, <3>2, <3>3, <3>4, <3>5 DEF Unchanged
    <3> QED BY <1>1, <3>6 DEF TypeOK, PendingType
  <2> QED BY <1>1, <2>4, Stutter
<1>4. CASE i < Logical /\ ~ReadOnly
  <2>1. i \in Index /\ i \in 0 .. (Logical - 1) /\ pending' = Unchanged(i)
    BY <1>1, <1>4, OnDiskIsIndex DEF CarefulUnchange, ZipUnchange
  <2>2. EffectiveArchiveComment' = EffectiveArchiveComment
    BY <1>1, <1>4, <2>1, UnchangedFields DEF EffectiveArchiveComment
  <2>3. i + 1 \in DOMAIN View
    BY <1>1, <2>1, ViewType, CountsAreNatural
  <2>4. DOMAIN zip.archive.entries = 1 .. N
    BY <1>1 DEF TypeOK, Archive, N
  <2>5. CASE i < N
    <3>1. Eager!OnDisk(i + 1) /\ i \in 0 .. (N - 1) /\ i + 1 \in DOMAIN zip.archive.entries
      BY <1>1, <2>1, <2>4, <2>5, CountsAreNatural DEF Eager!OnDisk
    <3> DEFINE new == Eager!Fresh(zip.archive).slots[i + 1]
    <3>2. new = [live |-> TRUE, entry |-> [zip.archive.entries[i + 1] EXCEPT
                                             !.comp = "deflate", !.enc = "none"]]
      BY <3>1 DEF Eager!Fresh
    <3>3. ZipUnchange(i)
      BY DEF CarefulUnchange
    <3>4. Slot(i)' = new /\ \A j \in 0 .. (Logical - 1) : j # i => Slot(j)' = Slot(j)
      BY <1>1, <2>1, <3>1, <3>2, <3>3, UnchangedSlots
    <3>5. pending'.adds = pending.adds
      BY <1>1, <1>4, <2>1, <2>5, UnchangedFields
    <3> HIDE DEF new
    <3>6. View' = [View EXCEPT ![i + 1] = new]
      BY <1>1, <2>1, <3>4, <3>5, ViewEdited
    <3>7. WouldBe' = [WouldBe EXCEPT !.slots = [@ EXCEPT ![i + 1] = new]]
      BY <2>2, <3>6 DEF WouldBe
    <3>8. Eager!Edit([WouldBe EXCEPT !.slots = [@ EXCEPT ![i + 1] = new]])
      BY <1>1, <1>4, <3>7, EditStep
    <3>9. Eager!Revert(i + 1)
      BY <3>1, <3>8 DEF Eager!Revert, WouldBe, new
    <3> QED BY <2>3, <3>9 DEF Eager!Next
  <2>6. CASE i >= N
    <3>1. ~Eager!OnDisk(i + 1)
      BY <1>1, <2>1, <2>4, <2>6, CountsAreNatural DEF Eager!OnDisk
    <3>2. View' = RemoveAt(View, i + 1)
      BY <1>4, <2>6, AddedSlotGoes
    <3>3. WouldBe' = [WouldBe EXCEPT !.slots = Eager!RemoveAt(@, i + 1)]
      <4>1. Eager!RemoveAt(View, i + 1) = RemoveAt(View, i + 1)
        BY DEF RemoveAt, Eager!RemoveAt
      <4> QED BY <2>2, <3>2, <4>1 DEF WouldBe
    <3>4. Eager!Edit([WouldBe EXCEPT !.slots = Eager!RemoveAt(@, i + 1)])
      BY <1>1, <1>4, <3>3, EditStep
    <3>5. Eager!Edit([WouldBe EXCEPT !.slots =
                        IF Eager!OnDisk(i + 1)
                        THEN [@ EXCEPT ![i + 1] = Eager!Fresh(zip.archive).slots[i + 1]]
                        ELSE Eager!RemoveAt(@, i + 1)])
      BY <3>1, <3>4
    <3>6. Eager!Revert(i + 1)
      BY <3>5 DEF Eager!Revert, WouldBe
    <3> QED BY <2>3, <3>6 DEF Eager!Next
  <2> QED BY <1>1, <2>1, <2>5, <2>6, CountsAreNatural
<1> QED BY <1>2, <1>3, <1>4

\* The files written are the live slots' entries, in the order of the slots.
LEMMA FilesInOrder ==
  ASSUME NEW S, NEW slots \in Seq([live : BOOLEAN, entry : S])
  PROVE  \E order \in [1 .. Len(Files(slots)) -> {k \in 1 .. Len(slots) : slots[k].live}] :
           /\ \A j, k \in 1 .. Len(Files(slots)) : j < k => order[j] < order[k]
           /\ {k \in 1 .. Len(slots) : slots[k].live} = {order[k] : k \in 1 .. Len(Files(slots))}
           /\ \A k \in 1 .. Len(Files(slots)) : Files(slots)[k] = slots[order[k]].entry
<1> DEFINE L == Len(slots)
           LiveUpTo(m) == {k \in 1 .. m : slots[k].live}
           Lists(order, files, m) ==
             /\ order \in [1 .. Len(files) -> LiveUpTo(m)]
             /\ \A j, k \in 1 .. Len(files) : j < k => order[j] < order[k]
             /\ \A k \in LiveUpTo(m) : \E p \in 1 .. Len(files) : order[p] = k
             /\ \A k \in 1 .. Len(files) : files[k] = slots[order[k]].entry
<1>1. L \in Nat /\ L \in 0 .. L
  BY LenProperties
<1>2. PICK g \in [0 .. L -> Seq(S)] :
        /\ Files(slots) = g[L]
        /\ \A k \in 0 .. L : g[k] = IF k = 0 THEN <<>> ELSE Pushed(g[k - 1], slots[k])
  BY FilesFold
<1> DEFINE Bad == {m \in 0 .. L : ~ \E order : Lists(order, g[m], m)}
<1>3. Bad = {}
  <2> SUFFICES ASSUME Bad # {} PROVE FALSE
    OBVIOUS
  <2>1. PICK m \in Bad : \A k \in Bad : m =< k
    <3>1. Bad \in SUBSET Nat
      BY <1>1
    <3> HIDE DEF Bad
    <3> QED BY <3>1, LeastElement
  <2>2. m \in 0 .. L /\ ~ \E order : Lists(order, g[m], m)
    OBVIOUS
  <2>3. m # 0
    <3> SUFFICES ASSUME m = 0 PROVE FALSE
      OBVIOUS
    <3>1. g[m] = <<>> /\ Len(g[m]) = 0
      BY <1>2, <2>2
    <3>2. Lists([k \in 1 .. 0 |-> 0], g[m], m)
      BY <3>1
    <3> QED BY <2>2, <3>2
  <2>4. /\ m \in 1 .. L /\ m - 1 \in 0 .. L /\ ~ (m =< m - 1) /\ m \in Nat
        /\ g[m] = Pushed(g[m - 1], slots[m])
    BY <1>1, <1>2, <2>2, <2>3
  <2>5. PICK order : Lists(order, g[m - 1], m - 1)
    <3> HIDE DEF Lists
    <3>1. m - 1 \notin Bad
      BY <2>1, <2>4
    <3> QED BY <2>4, <3>1
  <2> DEFINE before == g[m - 1]
             slot == slots[m]
             n == Len(before)
  <2>6. before \in Seq(S) /\ slot \in [live : BOOLEAN, entry : S] /\ n \in Nat
    <3>1. before \in Seq(S)
      <4> HIDE DEF Lists
      <4> QED BY <2>4
    <3>2. slot \in [live : BOOLEAN, entry : S]
      <4>1. m \in 1 .. Len(slots)
        BY <2>4
      <4> QED BY ONLY <4>1, slots \in Seq([live : BOOLEAN, entry : S]), ElementOfSeq
    <3> QED BY <3>1, <3>2, LenProperties
  <2>7. Lists(order, before, m - 1)
    BY <2>5
  <2> HIDE DEF before
  <2>8. CASE slot.live
    <3> DEFINE files == Append(before, slot.entry)
               longer == [k \in 1 .. n + 1 |-> IF k = n + 1 THEN m ELSE order[k]]
    <3>1. /\ g[m] = files /\ Len(files) = n + 1
          /\ \A k \in 1 .. n : files[k] = before[k]
          /\ files[n + 1] = slot.entry
      <4>1. g[m] = files
        BY <2>4, <2>8 DEF Pushed, before
      <4> HIDE DEF slot
      <4>2. slot.entry \in S
        BY <2>6
      <4> QED BY <2>6, <4>1, <4>2, AppendProperties
    <3>2. m \in LiveUpTo(m) /\ LiveUpTo(m) = LiveUpTo(m - 1) \cup {m}
      BY <2>4, <2>8
    <3>3. \A k \in 1 .. n : longer[k] = order[k] /\ order[k] \in LiveUpTo(m - 1) /\ order[k] < m
      <4> SUFFICES ASSUME NEW k \in 1 .. n
                   PROVE longer[k] = order[k] /\ order[k] \in LiveUpTo(m - 1) /\ order[k] < m
        OBVIOUS
      <4>1. k # n + 1 /\ k \in 1 .. n + 1
        BY <2>6
      <4>2. order[k] \in LiveUpTo(m - 1)
        <5> HIDE DEF LiveUpTo
        <5> QED BY <2>7
      <4>3. order[k] < m
        BY <2>4, <4>2
      <4> QED BY <4>1, <4>2, <4>3
    <3>4. longer[n + 1] = m
      BY <2>6
    <3> HIDE DEF files
    <3>5. longer \in [1 .. n + 1 -> LiveUpTo(m)]
      <4> SUFFICES ASSUME NEW k \in 1 .. n + 1
                   PROVE  (IF k = n + 1 THEN m ELSE order[k]) \in LiveUpTo(m)
        BY Zenon
      <4> HIDE DEF LiveUpTo
      <4>1. k # n + 1 => k \in 1 .. n
        <5> HIDE DEF n
        <5> QED BY <2>6
      <4> QED BY <3>2, <3>3, <4>1
    <3> HIDE DEF longer, LiveUpTo
    <3>6. \A j, k \in 1 .. n + 1 : j < k => longer[j] < longer[k]
      <4> SUFFICES ASSUME NEW j \in 1 .. n + 1, NEW k \in 1 .. n + 1, j < k
                   PROVE  longer[j] < longer[k]
        OBVIOUS
      <4>1. j \in 1 .. n
        <5> HIDE DEF n
        <5> QED BY <2>6
      <4>2. CASE k = n + 1
        BY <3>3, <3>4, <4>1, <4>2
      <4>3. CASE k # n + 1
        <5>1. k \in 1 .. n
          <6> HIDE DEF n
          <6> QED BY <2>6, <4>3
        <5>2. order[j] < order[k]
          BY <2>7, <4>1, <5>1
        <5>3. longer[j] = order[j] /\ longer[k] = order[k]
          BY <3>3, <4>1, <5>1
        <5> QED BY <5>2, <5>3
      <4> QED BY <4>2, <4>3
    <3>7. \A k \in LiveUpTo(m) : \E p \in 1 .. n + 1 : longer[p] = k
      <4> SUFFICES ASSUME NEW k \in LiveUpTo(m) PROVE \E p \in 1 .. n + 1 : longer[p] = k
        OBVIOUS
      <4>1. CASE k = m
        BY <2>6, <3>4, <4>1
      <4>2. CASE k # m
        <5>1. PICK p \in 1 .. n : order[p] = k
          BY <2>7, <3>2, <4>2
        <5> QED BY <2>6, <3>3, <5>1
      <4> QED BY <4>1, <4>2
    <3>8. \A k \in 1 .. n + 1 : files[k] = slots[longer[k]].entry
      <4> SUFFICES ASSUME NEW k \in 1 .. n + 1 PROVE files[k] = slots[longer[k]].entry
        OBVIOUS
      <4>1. CASE k = n + 1
        BY <3>1, <3>4, <4>1
      <4>2. CASE k # n + 1
        <5>1. k \in 1 .. n
          <6> HIDE DEF n
          <6> QED BY <2>6, <4>2
        <5>2. before[k] = slots[order[k]].entry
          BY <2>7, <5>1
        <5> QED BY <3>1, <3>3, <5>1, <5>2
      <4> QED BY <4>1, <4>2
    <3>9. Lists(longer, files, m)
      BY <3>1, <3>5, <3>6, <3>7, <3>8
    <3> HIDE DEF Lists
    <3> QED BY <2>2, <3>1, <3>9
  <2>9. CASE ~ slot.live
    <3>1. g[m] = before
      BY <2>4, <2>9 DEF Pushed, before
    <3>2. LiveUpTo(m) = LiveUpTo(m - 1)
      BY <2>4, <2>9
    <3> HIDE DEF LiveUpTo
    <3>3. Lists(order, before, m)
      BY <2>7, <3>2
    <3> HIDE DEF Lists
    <3> QED BY <2>2, <3>1, <3>3
  <2> QED BY <2>8, <2>9
<1>4. PICK order : Lists(order, Files(slots), L)
  <2> HIDE DEF Lists
  <2> QED BY <1>1, <1>2, <1>3
<1>5. LiveUpTo(L) = {order[k] : k \in 1 .. Len(Files(slots))}
  <2> HIDE DEF LiveUpTo
  <2> QED BY <1>4
<1> QED BY <1>4, <1>5

----------------------------------------------------------------------------
(* Opening and closing.                                                    *)

LEMMA FreshPrimed ==
  ASSUME TypeOK', pending' = NoPending
  PROVE  WouldBe' = Eager!Fresh(zip'.archive)
<1>1. (TypeOK /\ pending = NoPending => WouldBe = Eager!Fresh(zip.archive))'
  BY FreshView, PTL
<1>2. NoPending' = NoPending
  BY DEF NoPending, Index, MetaKind
<1>3. Eager!Fresh(zip.archive)' = Eager!Fresh(zip'.archive)
  BY DEF Eager!Fresh
<1> QED BY <1>1, <1>2, <1>3

LEMMA EmptyIsAFile == EmptyArchive \notin {None, Damaged} /\ Eager!EmptyArchive = EmptyArchive
BY EmptyArchiveType, NoFileIsNotAnArchive DEF EmptyArchive, Eager!EmptyArchive

LEMMA OpenStarts ==
  ASSUME TypeOK', ~zip.open, NEW a \in {file, EmptyArchive} \ {None, Damaged},
         NEW flags, NEW existed, NEW path \in BOOLEAN, StartSession(a, flags, existed, path)
  PROVE  Eager!Next
<1>1. /\ zip' = [open |-> TRUE, archive |-> a, flags |-> flags, existed |-> existed, path |-> path]
      /\ pending' = NoPending /\ password' = None /\ ret' = "none" /\ UNCHANGED file
  BY DEF StartSession
<1>2. zip'.archive = a /\ zip'.flags = flags
  BY <1>1
<1>3. WouldBe' = Eager!Fresh(a)
  BY <1>1, <1>2, FreshPrimed
<1> DEFINE writable == ~("RDONLY" \in flags)
<1>4. writable \in BOOLEAN
  OBVIOUS
<1>5. Session' = [open |-> TRUE, base |-> a, writable |-> writable, path |-> path,
                  password |-> None]
  BY <1>1 DEF Session, ReadOnly
<1> HIDE DEF writable
<1>6. Eager!Open(a, writable, path)
  BY <1>1, <1>3, <1>5, EmptyIsAFile DEF Eager!Open, WouldBe, Session
<1> QED BY <1>4, <1>6, EmptyIsAFile DEF Eager!Next

LEMMA OpenMaps ==
  ASSUME TypeOK', \E flags : ZipOpen(flags) \/ ZipOpenPathless(flags)
  PROVE  Eager!Next
<1>1. PICK flags : ZipOpen(flags) \/ ZipOpenPathless(flags)
  OBVIOUS
<1>2. ~zip.open
  BY <1>1 DEF ZipOpen, ZipOpenPathless
<1>3. PICK a \in {file, EmptyArchive} \ {None, Damaged}, path \in BOOLEAN, existed \in BOOLEAN :
        StartSession(a, flags, existed, path)
  <2>1. CASE ZipOpen(flags)
    <3>1. CASE file # None /\ "TRUNCATE" \notin flags
      BY <2>1, <3>1 DEF ZipOpen
    <3>2. CASE ~(file # None /\ "TRUNCATE" \notin flags)
      BY <2>1, <3>2, EmptyIsAFile DEF ZipOpen
    <3> QED BY <3>1, <3>2
  <2>2. CASE ZipOpenPathless(flags)
    <3>1. CASE "TRUNCATE" \in flags
      BY <2>2, <3>1, EmptyIsAFile DEF ZipOpenPathless
    <3>2. CASE "TRUNCATE" \notin flags
      BY <2>2, <3>2 DEF ZipOpenPathless
    <3> QED BY <3>1, <3>2
  <2> QED BY <1>1, <2>1, <2>2
<1> QED BY <1>2, <1>3, OpenStarts

LEMMA FreeEnds ==
  ASSUME TypeOK', zip.open, NEW report, FreeHandle(report)
  PROVE  Eager!End(report)
<1>1. zip' = NoSession /\ pending' = NoPending /\ password' = None /\ ret' = report
  BY DEF FreeHandle
<1>2. zip'.archive = EmptyArchive
  BY <1>1 DEF NoSession
<1>3. WouldBe' = Eager!Fresh(Eager!EmptyArchive)
  BY <1>1, <1>2, FreshPrimed, EmptyIsAFile
<1>4. Session' = Eager!Closed
  <2>1. (~("RDONLY" \in {})) = TRUE
    OBVIOUS
  <2> QED BY <1>1, <2>1, EmptyIsAFile DEF Session, ReadOnly, NoSession, Eager!Closed
<1> QED BY <1>1, <1>3, <1>4 DEF Eager!End, WouldBe, Session

LEMMA UnwrittenKeeps ==
  ASSUME StagingInv, TypeOK', ZipCloseUnwritten, ~IdleTruncation
  PROVE  Eager!Next
<1>1. /\ zip.open /\ FreeHandle("ok") /\ UNCHANGED file /\ pending = NoPending /\ TypeOK
      /\ zip.existed \/ "CREATE" \notin zip.flags
  BY DEF ZipCloseUnwritten, ShouldWrite, StagingInv, Inv
<1>2. WouldBe = Eager!Fresh(zip.archive)
  BY <1>1, FreshView
<1>3. zip.path => file = zip.archive
  BY <1>1 DEF StagingInv, FileKept, IdleTruncation
<1>4. Eager!End("ok")
  BY <1>1, FreeEnds
<1>5. Eager!Keep
  BY <1>1, <1>2, <1>3, <1>4 DEF Eager!Keep, WouldBe
<1> QED BY <1>5 DEF Eager!Next

\* What the loop of materialize accepts, no entry of the view gainsays.
LEMMA MaterializesAll ==
  ASSUME StagingInv, Materializes, NEW k \in DOMAIN View, View[k].live
  PROVE  /\ View[k].entry.data # Corrupt
         /\ View[k].entry.enc = "encrypted" => password # None
<1>1. TypeOK /\ N \in Nat /\ Logical \in Nat /\ N + Len(pending.adds) = Logical
      /\ Len(pending.adds) \in Nat /\ k \in 1 .. Logical /\ MaxEntries \in Nat
      /\ Logical =< MaxEntries
  BY CountsAreNatural, ViewType DEF StagingInv, Inv
<1>2. PICK i \in 0 .. (Logical - 1) : i = k - 1
  BY <1>1
<1>3. View[k] = Slot(i) /\ i \in Index
  <2>1. View[k] = Slot(k - 1)
    BY <1>1 DEF View
  <2>2. i \in Index
    BY <1>1 DEF Index
  <2> QED BY <1>2, <2>1, <2>2
<1>4. i \notin pending.deletes
  <2>1. Slot(i).live = (i \notin pending.deletes)
    BY DEF Slot
  <2>2. Slot(i).live
    BY <1>3, Zenon
  <2> QED BY <2>1, <2>2, Zenon
<1>5. View[k].entry.data = FirstOr(pending.replaces[i], Base(i).data)
  BY <1>3 DEF Slot, Effective
<1>6. CASE pending.replaces[i] # <<>>
  <2>1. pending.replaces[i] \in Seq(Contents)
    BY <1>1, <1>3 DEF TypeOK, PendingType
  <2>2. Head(pending.replaces[i]) \in Contents
    BY <1>6, <2>1
  <2> QED BY <1>5, <1>6, <2>2, PayloadsAreDistinct DEF FirstOr, Materializes
<1>7. CASE pending.replaces[i] = <<>>
  <2>1. Base(i).data # Corrupt
    <3>1. CASE i < N
      <4>1. i \in 0 .. (N - 1)
        BY <1>1, <1>2, <3>1
      <4> QED BY <1>4, <1>7, <4>1 DEF Materializes, Readable
    <3>2. CASE ~(i < N)
      <4>1. i - N + 1 \in 1 .. Len(pending.adds)
        BY <1>1, <1>2, <3>2
      <4>2. pending.adds[i - N + 1] \in PendingAdd
        BY <1>1, <4>1 DEF TypeOK, PendingType
      <4>3. Base(i).data = pending.adds[i - N + 1].data
        BY <3>2 DEF Base
      <4> QED BY <4>2, <4>3, PayloadsAreDistinct DEF PendingAdd
    <3> QED BY <3>1, <3>2
  <2> QED BY <1>5, <1>7, <2>1 DEF FirstOr, Materializes
<1> QED BY <1>6, <1>7

LEMMA WrittenSaves ==
  ASSUME StagingInv, TypeOK', ZipCloseWritten
  PROVE  Eager!Next
<1>1. zip.open /\ FreeHandle("ok") /\ zip.path /\ Materializes /\ TypeOK /\ file' = Materialized
  BY DEF ZipCloseWritten, StagingInv, Inv
<1>2. View \in Seq(SlotType) /\ DOMAIN View = 1 .. Len(View) /\ Len(View) \in Nat
  BY <1>1, ViewType
<1> DEFINE v == View
           files == Files(v)
           n == Len(files)
           live == {k \in 1 .. Len(v) : v[k].live}
<1>3. PICK order \in [1 .. n -> live] :
        /\ \A j, k \in 1 .. n : j < k => order[j] < order[k]
        /\ live = {order[k] : k \in 1 .. n}
        /\ \A k \in 1 .. n : files[k] = v[order[k]].entry
  <2> HIDE DEF v
  <2> QED BY <1>2, FilesInOrder DEF SlotType, v
<1>4. n \in 0 .. Len(v)
  <2>1. files \in Seq([name : Names, data : Contents \cup {Corrupt},
                       comment : Comments \cup {None}, time : Nat, attrs : Attrs,
                       comp : {"store", "deflate"}, enc : {"none", "encrypted"}])
        /\ n =< Len(v)
    <3> HIDE DEF v
    <3> QED BY <1>2, FilesType DEF SlotType, v
  <2> QED BY <1>2, <2>1
<1>5. Eager!Live = live
  BY <1>2 DEF Eager!Live
<1>6. Eager!InOrder(order, n)
  <2> HIDE DEF live, n
  <2> QED BY <1>3, <1>5 DEF Eager!InOrder
<1>7. file' = [entries |-> [k \in 1 .. n |-> Eager!SavedEntry(v[order[k]].entry)],
               comment |-> EffectiveArchiveComment]
  <2>1. Materialized = [entries |-> [k \in 1 .. n |-> Encoded(files[k], password)],
                        comment |-> EffectiveArchiveComment]
    BY DEF Materialized, Written
  <2>2. \A k \in 1 .. n : Encoded(files[k], password) = Eager!SavedEntry(v[order[k]].entry)
    <3> HIDE DEF files, n, v
    <3> QED BY <1>3 DEF Encoded, Eager!SavedEntry
  <2> HIDE DEF files, n, v
  <2> QED BY <1>1, <2>1, <2>2
<1>8. \A k \in DOMAIN View : View[k].live =>
        /\ View[k].entry.data # Corrupt
        /\ View[k].entry.enc = "encrypted" => password # None
  BY <1>1, MaterializesAll
<1>9. Eager!End("ok")
  BY <1>1, FreeEnds
<1> HIDE DEF files, n, live
<1>10. \E m \in 0 .. Len(View) : \E o \in [1 .. m -> Eager!Live] :
         /\ Eager!InOrder(o, m)
         /\ file' = [entries |-> [k \in 1 .. m |-> Eager!SavedEntry(View[o[k]].entry)],
                     comment |-> EffectiveArchiveComment]
  BY <1>3, <1>4, <1>5, <1>6, <1>7
<1>11. Eager!Save
  BY <1>1, <1>8, <1>9, <1>10 DEF Eager!Save
<1> QED BY <1>11 DEF Eager!Next

LEMMA CloseMaps ==
  ASSUME StagingInv, TypeOK',
         \/ ZipCloseFailed \/ ZipCloseWriteError \/ ZipDiscard
  PROVE  Eager!Next
<1>1. CASE ZipCloseFailed \/ ZipCloseWriteError
  <2>1. zip.open /\ FreeHandle("failed") /\ file' \in {file, Damaged}
    BY <1>1 DEF ZipCloseFailed, ZipCloseWriteError
  <2>2. Eager!Fail
    BY <2>1, FreeEnds DEF Eager!Fail
  <2> QED BY <2>2 DEF Eager!Next
<1>2. CASE ZipDiscard
  <2>1. zip.open /\ FreeHandle("none") /\ UNCHANGED file
    BY <1>2 DEF ZipDiscard, Calling
  <2>2. Eager!Discard
    BY <2>1, FreeEnds DEF Eager!Discard
  <2> QED BY <2>2 DEF Eager!Next
<1> QED BY <1>1, <1>2

LEMMA PasswordMaps ==
  ASSUME NEW pw \in Passwords \cup {None}, ZipSetDefaultPassword(pw)
  PROVE  [Eager!Next]_(Eager!vars)
<1>1. CASE pw = None
  <2>1. Reject("INVAL")
    BY <1>1 DEF ZipSetDefaultPassword
  <2> QED BY <2>1, Stutter DEF Reject
<1>2. CASE pw # None
  <2>1. zip.open /\ password' = pw /\ UNCHANGED <<file, zip, pending, ret>>
    BY <1>2 DEF ZipSetDefaultPassword, Calling
  <2>2. View' = View /\ EffectiveArchiveComment' = EffectiveArchiveComment
    BY <2>1, ViewUnchanged DEF EffectiveArchiveComment
  <2>3. Session' = [Session EXCEPT !.password = pw]
    <3> DEFINE open == zip.open
               writable == ~ReadOnly
               path == zip.path
    <3>1. Session = [open |-> open, base |-> zip.archive, writable |-> writable,
                     path |-> path, password |-> password]
      BY DEF Session
    <3>2. Session' = [open |-> open, base |-> zip.archive, writable |-> writable,
                      path |-> path, password |-> pw]
      BY <2>1 DEF Session, ReadOnly
    <3> HIDE DEF open, writable, path
    <3> QED BY <3>1, <3>2
  <2>4. Eager!SetPassword(pw)
    BY <2>1, <2>2, <2>3 DEF Eager!SetPassword, Session
  <2> QED BY <1>2, <2>4 DEF Eager!Next
<1> QED BY <1>1, <1>2

\* The calls that stage, and those a handle turns down.
LEMMA EditsMap ==
  ASSUME StagingInv, TypeOK', OneChangeEach',
         \/ \E n \in Names, d \in Contents, o \in BOOLEAN : ZipFileAdd(n, d, o)
         \/ \E n \in DirNames : ZipDirAdd(n)
         \/ \E i \in Arg : ZipDelete(i)
         \/ \E i \in Arg, n \in Names : ZipRename(i, n)
         \/ \E i \in Arg, d \in Contents : ZipFileReplace(i, d)
         \/ \E kind \in MetaKind : \E i \in Arg, v \in MetaValue(kind) : ZipSetMeta(kind, i, v)
         \/ \E i \in Arg, c \in Comments \cup {None} : ZipFileSetComment(i, c)
         \/ \E c \in Comments \cup {None} : ZipSetArchiveComment(c)
  PROVE  [Eager!Next]_(Eager!vars)
<1>1. TypeOK /\ N \in Nat /\ Logical \in Nat
  BY CountsAreNatural DEF StagingInv, Inv
<1>2. ASSUME NEW valid, Refused(valid) PROVE UNCHANGED Eager!vars
  BY <1>2, Stutter DEF Refused, Reject
<1>3. ASSUME NEW code, Reject(code) PROVE UNCHANGED Eager!vars
  BY <1>3, Stutter DEF Reject
<1>4. ASSUME NEW n \in Names, NEW d \in Contents, NEW o, ZipFileAdd(n, d, o)
      PROVE  [Eager!Next]_(Eager!vars)
  <2>1. zip.open
    BY <1>4 DEF ZipFileAdd, Calling
  <2>2. CASE Accepted(TRUE) /\ Located(n) # {} /\ Stage(WithReplace(NameLocate(n), d))
    <3>1. NameLocate(n) \in Arg /\ NameLocate(n) < N
      BY <1>1, <2>2, NameLocateIsOnDisk, CountsAreNatural DEF Arg
    <3> QED BY <2>1, <2>2, <3>1, ReplaceEdits
  <2>3. CASE /\ Accepted(TRUE) /\ Located(n) = {} /\ Logical < MaxEntries
             /\ Stage(WithAdd(n, d))
    BY <2>1, <2>3, AddEdits
  <2> QED BY <1>2, <1>3, <1>4, <2>2, <2>3 DEF ZipFileAdd
<1>5. ASSUME NEW n \in DirNames, ZipDirAdd(n) PROVE [Eager!Next]_(Eager!vars)
  <2>1. zip.open /\ n \in Names /\ EmptyContent \in Contents
    BY <1>5, SubsetsOfData, PayloadsAreDistinct DEF ZipDirAdd, Calling
  <2>2. CASE /\ Accepted(TRUE) /\ Located(n) = {} /\ Logical < MaxEntries
             /\ Stage(WithAdd(n, EmptyContent))
    BY <2>1, <2>2, AddEdits
  <2> QED BY <1>2, <1>3, <1>5, <2>2 DEF ZipDirAdd
<1>6. ASSUME NEW i \in Arg, ZipDelete(i) PROVE [Eager!Next]_(Eager!vars)
  <2>1. CASE Accepted(i < N) /\ Stage([pending EXCEPT !.deletes = @ \cup {i}])
    <3>1. zip.open /\ i < N /\ Accepted(TRUE)
      BY <1>6, <2>1 DEF ZipDelete, Calling, Accepted
    <3> QED BY <2>1, <3>1, DeleteEdits
  <2> QED BY <1>2, <1>6, <2>1 DEF ZipDelete
<1>7. ASSUME NEW i \in Arg, NEW n \in Names, ZipRename(i, n) PROVE [Eager!Next]_(Eager!vars)
  <2>1. CASE Accepted(i < N) /\ Stage([pending EXCEPT !.renames[i] = Append(@, n)])
    <3>1. zip.open /\ i < N /\ Accepted(TRUE)
      BY <1>7, <2>1 DEF ZipRename, Calling, Accepted
    <3> QED BY <2>1, <3>1, RenameEdits
  <2> QED BY <1>2, <1>7, <2>1 DEF ZipRename
<1>8. ASSUME NEW i \in Arg, NEW d \in Contents, ZipFileReplace(i, d)
      PROVE  [Eager!Next]_(Eager!vars)
  <2>1. CASE Accepted(i < N) /\ Stage(WithReplace(i, d))
    <3>1. zip.open /\ i < N /\ Accepted(TRUE)
      BY <1>8, <2>1 DEF ZipFileReplace, Calling, Accepted
    <3> QED BY <2>1, <3>1, ReplaceEdits
  <2> QED BY <1>2, <1>8, <2>1 DEF ZipFileReplace
<1>9. ASSUME NEW kind \in MetaKind, NEW i \in Arg, NEW v \in MetaValue(kind),
             ZipSetMeta(kind, i, v)
      PROVE  [Eager!Next]_(Eager!vars)
  <2>1. CASE Accepted(i < Logical) /\ Stage(WithMeta(kind, i, v))
    <3>1. zip.open /\ i < Logical /\ ~ReadOnly /\ pending' = WithMeta(kind, i, v)
          /\ UNCHANGED <<file, zip, password, ret>>
      BY <1>9, <2>1 DEF ZipSetMeta, Calling, Accepted, Stage
    <3> QED BY <3>1, MetaEdits
  <2> QED BY <1>2, <1>9, <2>1 DEF ZipSetMeta
<1>10. ASSUME NEW i \in Arg, NEW c \in Comments \cup {None}, ZipFileSetComment(i, c)
       PROVE  [Eager!Next]_(Eager!vars)
  <2>1. CASE Refused(i < Logical)
    BY <1>2, <2>1
  <2>2. CASE ~Refused(i < Logical)
    <3>1. zip.open /\ i < Logical /\ ~ReadOnly /\ pending' = WithMeta("comment", i, c)
          /\ UNCHANGED <<file, zip, password, ret>>
      BY <1>10, <2>2 DEF ZipFileSetComment, Calling, Accepted
    <3>2. "comment" \in MetaKind /\ c \in MetaValue("comment")
      BY DEF MetaKind, MetaValue
    <3> QED BY <3>1, <3>2, MetaEdits
  <2> QED BY <2>1, <2>2
<1>11. ASSUME NEW c \in Comments \cup {None}, ZipSetArchiveComment(c)
       PROVE  [Eager!Next]_(Eager!vars)
  <2>1. CASE Refused(FALSE)
    BY <1>2, <2>1
  <2>2. CASE ~Refused(FALSE)
    <3>1. zip.open /\ ~ReadOnly /\ pending' = [pending EXCEPT !.archiveComment = c]
          /\ UNCHANGED <<file, zip, password, ret>>
      BY <1>11, <2>2 DEF ZipSetArchiveComment, Calling, Accepted
    <3> QED BY <1>1, <3>1, CommentEdits
  <2> QED BY <2>1, <2>2
<1> QED BY <1>4, <1>5, <1>6, <1>7, <1>8, <1>9, <1>10, <1>11

\* Each call of a careful client is one edit at once, or none.
LEMMA StepMaps ==
  StagingInv /\ TypeOK' /\ [CarefulNext]_vars => [Eager!Next]_(Eager!vars)
<1> SUFFICES ASSUME StagingInv, TypeOK', [CarefulNext]_vars PROVE [Eager!Next]_(Eager!vars)
  OBVIOUS
<1>1. CASE UNCHANGED vars
  BY <1>1, Stutter DEF vars
<1>2. CASE CarefulNext
  <2>1. OneChangeEach' /\ ~IdleTruncation
    BY <1>2 DEF CarefulNext
  <2>2. CASE \E flags : ZipOpen(flags) \/ ZipOpenPathless(flags)
    BY <2>2, OpenMaps
  <2>3. CASE \/ \E n \in Names, d \in Contents, o \in BOOLEAN : ZipFileAdd(n, d, o)
             \/ \E n \in DirNames : ZipDirAdd(n)
             \/ \E i \in Arg : ZipDelete(i)
             \/ \E i \in Arg, n \in Names : ZipRename(i, n)
             \/ \E i \in Arg, d \in Contents : ZipFileReplace(i, d)
             \/ \E kind \in MetaKind : \E i \in Arg, v \in MetaValue(kind) :
                  ZipSetMeta(kind, i, v)
             \/ \E i \in Arg, c \in Comments \cup {None} : ZipFileSetComment(i, c)
             \/ \E c \in Comments \cup {None} : ZipSetArchiveComment(c)
    BY <2>1, <2>3, EditsMap
  <2>4. CASE \/ ZipSourceUnreadable
             \/ \E kind, i : ZipSetMethodUnsupported(kind, i)
             \/ \E flag, on : ZipSetArchiveFlag(flag, on)
             \/ \E on : ZipRegisterCancelCallback(on)
    <3>1. UNCHANGED <<file, zip, pending, password, ret>>
      BY <2>4 DEF ZipSourceUnreadable, ZipSetMethodUnsupported, ZipSetArchiveFlag,
                  ZipRegisterCancelCallback, Reject
    <3> QED BY <3>1, Stutter
  <2>5. CASE \E pw \in Passwords \cup {None} : ZipSetDefaultPassword(pw)
    BY <2>5, PasswordMaps
  <2>6. CASE ZipUnchangeAll
    BY <2>6, UnchangeAllReverts
  <2>7. CASE ZipUnchangeArchive
    BY <2>7, UnchangeArchiveReverts
  <2>8. CASE ZipCloseUnwritten
    BY <2>1, <2>8, UnwrittenKeeps
  <2>9. CASE ZipCloseWritten
    BY <2>9, WrittenSaves
  <2>10. CASE ZipCloseFailed \/ ZipCloseWriteError \/ ZipDiscard
    BY <2>10, CloseMaps
  <2>11. CASE \E i \in Arg : CarefulUnchange(i)
    BY <2>11, UnchangeRevertsOne
  <2>12. CASE OtherCalls
    BY <2>2, <2>3, <2>4, <2>5, <2>6, <2>7, <2>8, <2>9, <2>10, <2>12 DEF OtherCalls
  <2> QED BY <1>2, <2>11, <2>12 DEF CarefulNext
<1> QED BY <1>1, <1>2

LEMMA InitMaps == Init => Eager!Init
<1> SUFFICES ASSUME Init PROVE Eager!Init
  OBVIOUS
<1>1. TypeOK /\ zip = NoSession /\ pending = NoPending /\ password = None /\ ret = "none"
  BY InitInv DEF Init, Inv
<1>2. zip.archive = EmptyArchive
  BY <1>1 DEF NoSession
<1>3. WouldBe = Eager!Fresh(Eager!EmptyArchive)
  BY <1>1, <1>2, FreshView, EmptyIsAFile
<1>4. Session = Eager!Closed
  <2>1. (~("RDONLY" \in {})) = TRUE
    OBVIOUS
  <2> QED BY <1>1, <2>1, EmptyIsAFile DEF Session, ReadOnly, NoSession, Eager!Closed
<1> QED BY <1>1, <1>3, <1>4 DEF Eager!Init, WouldBe, Session

\* Staging and replaying is editing at once: for careful clients every call of
\* the handle is the edit it names, a close that writes leaves the archive the
\* calls describe, in order, and a close that reports success without writing
\* had nothing to write.
THEOREM StagingImplementsEditing == CarefulSpec => ImplementsEdit
<1>1. StagingInv => TypeOK
  BY DEF StagingInv, Inv
<1> QED BY <1>1, InitMaps, StepMaps, StagingInvHolds, PTL
        DEF CarefulSpec, ImplementsEdit, Eager!EditSpec
=============================================================================
