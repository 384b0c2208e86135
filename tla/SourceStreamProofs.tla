------------------------- MODULE SourceStreamProofs -------------------------
(***************************************************************************)
(* Proofs about SourceStream for any contents, ranges, layerings and calls *)
(* of its client: what a CRC layer tells is of all the bytes below it, a   *)
(* reader gets all bytes in order, a commit publishes what was written, a  *)
(* range has its bytes, and a call that fails leaves everything as it was. *)
(***************************************************************************)
EXTENDS SourceStream, SequenceTheorems, FiniteSetTheorems,
        WellFoundedInduction, TLAPS

\* What a source is made of, as far as its bytes go.
SourceFields ==
  {"kind", "data", "pos", "size", "draft", "writeOpen", "eof", "supports",
   "hashed", "crcComplete", "from"}

IsSource(s) ==
  /\ SourceFields \subseteq DOMAIN s
  /\ s.data \in Seq(Bytes) /\ s.hashed \in Seq(Bytes)
  /\ s.pos \in Nat
  /\ s.kind \notin {"crc", "pass"} => s.pos =< Len(s.data)

IsChain(c) == Len(c) \in Nat /\ c = [j \in 1..Len(c) |-> c[j]]

\* The lowest source has a content of its own, the others are layers.
Layered(c) ==
  /\ c[1].kind \in {"memory", "function"}
  /\ \A j \in 2..Len(c) : c[j].kind \in Kinds

\* No layer up to level i changes the bytes.
Clean(c, i) == \A j \in 1..i : c[j].kind # "compress"

\* s has read the first bytes of data, and all of them once it says so.
Covers(s, data) ==
  /\ IsPrefix(s.hashed, data)
  /\ s.crcComplete => s.hashed = data /\ s.size = Len(data)

\* A CRC layer that no compress layer cuts off from the lowest source is never
\* ahead of it.  One that was opened while that was at its start is in step
\* with it, and so is every CRC layer in between.
CrcInStep(c, i) ==
  /\ Clean(c, i) => c[i].pos =< c[1].pos
  /\ c[i].from = "start" =>
       /\ Clean(c, i)
       /\ \A j \in 2..i : c[j].kind = "crc" => c[j].pos = c[1].pos
       /\ Covers(c[i], c[1].data)

Sound(c) ==
  /\ IsChain(c) /\ Len(c) > 0
  /\ Layered(c)
  /\ \A j \in 1..Len(c) : IsSource(c[j])
  /\ \A i \in 2..Len(c) : c[i].kind = "crc" => CrcInStep(c, i)

\* A chain with nothing but the bytes and the positions of its sources changed.
SameShape(c, d) ==
  /\ Len(d) = Len(c)
  /\ d[1].data = c[1].data
  /\ \A j \in 1..Len(c) : /\ d[j].kind = c[j].kind
                          /\ d[j].draft = c[j].draft /\ d[j].writeOpen = c[j].writeOpen

\* What was read (w) since the last open is the beginning of the content.
Delivering(c, w) ==
  /\ w \in [got : Seq(Bytes), whole : BOOLEAN]
  /\ w.whole =>
       LET s == c[HasBytes(c, Len(c))]
       IN  /\ c # <<>>
           /\ s.data = Content(c, Len(c))
           /\ w.got = SubSeq(s.data, 1, s.pos)

DeliverInv == Delivering(chain, seen)

\* Where what was written (w) ends.
Ends(w) == {Len(w.base)} \cup {o.at + Len(o.data) : o \in Range(w.ops)}

IsWritten(w) ==
  /\ w \in [base : Seq(Bytes), ops : Seq([at : Nat, data : Seq(Bytes)])]
  /\ \E e \in Ends(w) : \A o \in Ends(w) : o =< e

\* A write session is one of a memory source without layers.
SessionOk(c) ==
  \A j \in 1..Len(c) :
    /\ c[j].writeOpen \in BOOLEAN
    /\ c[j].writeOpen <=> c[j].draft # <<>>
    /\ c[j].writeOpen =>
         /\ Len(c) = 1 /\ c[j].kind = "memory"
         /\ c[j].draft \in Seq([out : Seq(Bytes), offset : Nat])
         /\ Len(c[j].draft) = 1

\* The draft has what was asked for.
WriteInv ==
  /\ IsWritten(wrote)
  /\ SessionOk(chain)
  /\ chain # <<>> /\ chain[1].writeOpen => chain[1].draft[1].out = Asked(wrote)

StreamInv == (chain # <<>> => Sound(chain)) /\ DeliverInv /\ WriteInv

----------------------------------------------------------------------------
(* Induction up to a number, as a fact about sets.                         *)

\* A set of naturals has a least element.
LEMMA LeastElement ==
  ASSUME NEW S \in SUBSET Nat, S # {}
  PROVE  \E m \in S : \A k \in S : m =< k
<1> DEFINE Sub == StrictSubsetOrdering(Nat)
           T == {0 .. n : n \in S}
<1>1. IsWellFoundedOn(Sub, FiniteSubsetsOf(Nat))
  BY FS_StrictSubsetOrderingWellFounded
<1>2. T \subseteq FiniteSubsetsOf(Nat)
  <2> SUFFICES ASSUME NEW n \in S PROVE 0 .. n \in FiniteSubsetsOf(Nat)
    OBVIOUS
  <2>1. 0 .. n \subseteq Nat
    OBVIOUS
  <2>2. IsFiniteSet(0 .. n)
    <3>1. 0 \in Int /\ n \in Int
      OBVIOUS
    <3> QED BY ONLY <3>1, FS_Interval, Zenon
  <2> QED BY <2>1, <2>2 DEF FiniteSubsetsOf
<1>3. T # {}
  OBVIOUS
<1>4. PICK x \in T : \A y \in T : ~ (<<y, x>> \in Sub)
  <2> HIDE DEF Sub, T
  <2> QED BY <1>1, <1>2, <1>3, WFMin
<1>5. PICK m \in S : x = 0 .. m
  OBVIOUS
<1>6. ASSUME NEW k \in S, k < m PROVE FALSE
  <2>1. 0 .. k \in T
    OBVIOUS
  <2>2. <<0 .. k, x>> \in Sub
    BY <1>5, <1>6 DEF StrictSubsetOrdering
  <2> QED BY <1>4, <2>1, <2>2
<1> QED BY <1>6

LEMMA Induct ==
  ASSUME NEW n \in Nat, NEW S, 0 \in S, \A k \in 1..n : k - 1 \in S => k \in S
  PROVE  \A k \in 0..n : k \in S
<1> DEFINE Bad == {k \in 0..n : k \notin S}
<1> SUFFICES ASSUME Bad # {} PROVE FALSE
  OBVIOUS
<1>1. PICK m \in Bad : \A k \in Bad : m =< k
  <2>1. Bad \in SUBSET Nat
    OBVIOUS
  <2> QED BY ONLY <2>1, Bad # {}, LeastElement
<1>2. m \in 1..n /\ m - 1 \in 0..n /\ m \notin S /\ ~(m =< m - 1)
  OBVIOUS
<1>3. m - 1 \notin Bad
  <2> HIDE DEF Bad
  <2> QED BY <1>1, <1>2
<1> QED BY <1>2, <1>3

----------------------------------------------------------------------------
(* Chains and the sources that answer a command.                           *)

LEMMA ChainOf ==
  ASSUME NEW n \in Nat, NEW f, f = [j \in 1..n |-> f[j]]
  PROVE  Len(f) = n /\ IsChain(f)
<1> DEFINE S == {f[j] : j \in 1..n}
<1>1. f \in [1..n -> S]
  OBVIOUS
<1>2. f \in Seq(S)
  <2> HIDE DEF S
  <2> QED BY <1>1, SeqDef
<1>3. Len(f) \in Nat /\ DOMAIN f = 1..Len(f) /\ DOMAIN f = 1..n
  <2> HIDE DEF S
  <2> QED BY <1>1, <1>2, LenProperties
<1>4. Len(f) = n
  <2> DEFINE m == Len(f)
  <2>1. m \in Nat /\ 1..m = 1..n
    BY <1>3
  <2> HIDE DEF m
  <2>2. m = n
    <3>1. CASE m < n
      <4>1. n \in 1..n /\ n \notin 1..m
        BY <2>1, <3>1
      <4> QED BY <2>1, <4>1
    <3>2. CASE n < m
      <4>1. m \in 1..m /\ m \notin 1..n
        BY <2>1, <3>2
      <4> QED BY <2>1, <4>1
    <3> QED BY <2>1, <3>1, <3>2
  <2> QED BY <2>2 DEF m
<1> QED BY <1>4 DEF IsChain

Replaced(c, i, s, d) == d = [c EXCEPT ![i] = s]

LEMMA ChainExcept ==
  ASSUME NEW c, IsChain(c), NEW i \in 1..Len(c), NEW s, NEW d, Replaced(c, i, s, d)
  PROVE  /\ IsChain(d) /\ Len(d) = Len(c)
         /\ d[i] = s /\ \A j \in 1..Len(c) : j # i => d[j] = c[j]
<1> DEFINE n == Len(c)
<1>1. n \in Nat /\ c = [j \in 1..n |-> c[j]] /\ i \in 1..n
  BY DEF IsChain
<1>0. d = [c EXCEPT ![i] = s]
  BY DEF Replaced
<1> HIDE DEF n
<1>2. d = [j \in 1..n |-> d[j]]
  BY <1>0, <1>1
<1>3. d[i] = s /\ \A j \in 1..n : j # i => d[j] = c[j]
  BY <1>0, <1>1
<1>4. Len(d) = n /\ IsChain(d)
  BY <1>1, <1>2, ChainOf
<1> QED BY <1>3, <1>4 DEF n

LEMMA AnswersExists ==
  ASSUME NEW c, NEW i \in Nat, i > 0, NEW relays, c[1].kind \notin relays
  PROVE  \E k \in 1..i : /\ c[k].kind \notin relays
                         /\ \A j \in (k + 1)..i : c[j].kind \in relays
<1> DEFINE Is(m) == \E k \in 1..m : /\ c[k].kind \notin relays
                                    /\ \A j \in (k + 1)..m : c[j].kind \in relays
           S == {m \in 0..i : m = 0 \/ Is(m)}
<1>1. 0 \in S
  OBVIOUS
<1>2. ASSUME NEW m \in 1..i, m - 1 \in S PROVE m \in S
  <2>1. CASE c[m].kind \notin relays
    <3>1. m \in 1..m /\ \A j \in (m + 1)..m : c[j].kind \in relays
      OBVIOUS
    <3> QED BY <2>1, <3>1
  <2>2. CASE c[m].kind \in relays
    <3>1. m # 1
      BY <2>2
    <3>2. PICK k \in 1..(m - 1) : /\ c[k].kind \notin relays
                                  /\ \A j \in (k + 1)..(m - 1) : c[j].kind \in relays
      BY <1>2, <3>1
    <3>3. k \in 1..m /\ \A j \in (k + 1)..m : c[j].kind \in relays
      <4>1. \A j \in (k + 1)..m : j = m \/ j \in (k + 1)..(m - 1)
        OBVIOUS
      <4> QED BY <2>2, <3>2, <4>1
    <3> QED BY <3>2, <3>3
  <2> QED BY <2>1, <2>2
<1>3. \A m \in 0..i : m \in S
  <2> HIDE DEF S
  <2> QED BY <1>1, <1>2, Induct
<1>4. i \in 0..i /\ i # 0
  OBVIOUS
<1> QED BY <1>3, <1>4

LEMMA AnswersIs ==
  ASSUME NEW c, NEW i \in Nat, i > 0, NEW relays, c[1].kind \notin relays
  PROVE  /\ Answers(c, i, relays) \in 1..i
         /\ c[Answers(c, i, relays)].kind \notin relays
         /\ \A j \in (Answers(c, i, relays) + 1)..i : c[j].kind \in relays
BY AnswersExists DEF Answers

LEMMA AnswersOnly ==
  ASSUME NEW c, NEW i \in Nat, NEW relays, NEW k \in 1..i,
         c[1].kind \notin relays, c[k].kind \notin relays,
         \A j \in (k + 1)..i : c[j].kind \in relays
  PROVE  Answers(c, i, relays) = k
<1> DEFINE a == Answers(c, i, relays)
<1>1. /\ a \in 1..i /\ c[a].kind \notin relays
      /\ \A j \in (a + 1)..i : c[j].kind \in relays
  <2>1. i > 0
    OBVIOUS
  <2> QED BY <2>1, AnswersIs
<1> HIDE DEF a
<1>2. ~(a < k)
  <2> SUFFICES ASSUME a < k PROVE FALSE
    OBVIOUS
  <2>1. k \in (a + 1)..i
    BY <1>1
  <2> QED BY <1>1, <2>1
<1>3. ~(k < a)
  <2> SUFFICES ASSUME k < a PROVE FALSE
    OBVIOUS
  <2>1. a \in (k + 1)..i
    BY <1>1
  <2> QED BY <1>1, <2>1
<1>4. a = k
  BY <1>1, <1>2, <1>3
<1> QED BY <1>4 DEF a

----------------------------------------------------------------------------
(* Bytes.                                                                  *)

LEMMA PrefixIs ==
  ASSUME NEW s \in Seq(Bytes), NEW t \in Seq(Bytes)
  PROVE  IsPrefix(s, t) <=> Len(s) =< Len(t) /\ s = SubSeq(t, 1, Len(s))
<1>1. SubSeq(s, 1, Len(s)) = s
  BY SubSeqFull
<1> QED BY <1>1 DEF IsPrefix

\* What a source hands out next.
IsNext(data, pos, len, got) ==
  /\ got \in Seq(Bytes)
  /\ Len(got) = Low(len, Len(data) - pos)
  /\ Len(got) \in Nat /\ pos + Len(got) =< Len(data)
  /\ got = <<>> <=> Len(got) = 0
  /\ SubSeq(data, 1, pos) \o got = SubSeq(data, 1, pos + Len(got))

LEMMA NextBytes ==
  ASSUME NEW data \in Seq(Bytes), NEW pos \in Nat, NEW len \in Nat, pos =< Len(data),
         NEW got, got = SubSeq(data, pos + 1, pos + Low(len, Len(data) - pos))
  PROVE  IsNext(data, pos, len, got)
<1> DEFINE n == Len(data)
           l == Low(len, n - pos)
<1>1. n \in Nat /\ \A p \in 1..n : data[p] \in Bytes
  BY LenProperties, ElementOfSeq
<1>2. l \in Nat /\ pos + l =< n /\ l = Low(len, n - pos)
  BY <1>1 DEF Low
<1>3. got = SubSeq(data, pos + 1, pos + l)
  OBVIOUS
<1> HIDE DEF n, l
<1>4. got \in Seq(Bytes) /\ Len(got) = l
  <2> DEFINE m == pos + 1
             k == pos + l
  <2>1. \A p \in m..k : data[p] \in Bytes
    BY <1>1, <1>2
  <2>2. m \in Int /\ k \in Int
    BY <1>2
  <2>5. got = SubSeq(data, m, k)
    BY <1>3, Zenon
  <2>3. l = IF m <= k THEN k - m + 1 ELSE 0
    BY <1>2
  <2> HIDE DEF m, k
  <2>4. got \in Seq(Bytes) /\ Len(got) = IF m <= k THEN k - m + 1 ELSE 0
    BY ONLY <2>1, <2>2, <2>5, SubSeqProperties
  <2> QED BY <2>3, <2>4
<1>5. got = <<>> <=> Len(got) = 0
  BY <1>4, EmptySeq
<1>6. SubSeq(data, 1, pos) \o got = SubSeq(data, 1, pos + l)
  <2>1. 1 \in 1..(n + 1) /\ pos \in 0..n /\ pos + l \in pos..n /\ 1 - 1 = 0
    BY <1>1, <1>2
  <2>2. SubSeq(data, 1, pos) \o SubSeq(data, pos + 1, pos + l) = SubSeq(data, 1, pos + l)
    BY <2>1, ConcatAdjacentSubSeq DEF n
  <2> QED BY <1>3, <2>2
<1> QED BY <1>2, <1>4, <1>5, <1>6 DEF n, l, IsNext

\* A read leaves a layer, or the source that has the bytes, as sound as it was.
LEMMA HashKeeps ==
  ASSUME NEW s, IsSource(s), s.kind = "crc", NEW got \in Seq(Bytes)
  PROVE  LET t == Hash(s, got)
         IN  /\ IsSource(t)
             /\ t.kind = s.kind /\ t.data = s.data /\ t.from = s.from
             /\ t.draft = s.draft /\ t.writeOpen = s.writeOpen
             /\ t.pos = s.pos + Len(got)
             /\ got = <<>> =>
                  /\ t.hashed = s.hashed /\ t.size = s.pos
                  /\ t.crcComplete <=> s.crcComplete \/ Len(s.hashed) = s.pos
             /\ got # <<>> =>
                  /\ t.size = s.size /\ (t.crcComplete <=> s.crcComplete)
                  /\ t.hashed = IF ~s.crcComplete /\ s.pos = Len(s.hashed)
                                THEN s.hashed \o got ELSE s.hashed
<1> DEFINE t == Hash(s, got)
           done == s.crcComplete \/ Len(s.hashed) = s.pos
           pos == s.pos + Len(got)
           hashed == IF ~s.crcComplete /\ s.pos = Len(s.hashed)
                     THEN s.hashed \o got ELSE s.hashed
<1>1. SourceFields \subseteq DOMAIN s /\ s.hashed \in Seq(Bytes)
  BY DEF IsSource
<1>2. pos \in Nat /\ hashed \in Seq(Bytes)
  <2>1. s.pos \in Nat /\ Len(got) \in Nat
    BY LenProperties DEF IsSource
  <2>2. s.hashed \o got \in Seq(Bytes)
    BY <1>1, ConcatProperties
  <2> QED BY <1>1, <2>1, <2>2
<1>3. CASE got = <<>>
  <2>1. t = [s EXCEPT !.size = s.pos, !.eof = TRUE, !.crcComplete = done]
    BY <1>3 DEF Hash
  <2>2. Len(got) = 0 /\ s.pos \in Nat
    BY <1>3 DEF IsSource
  <2> HIDE DEF t, done, pos, hashed
  <2>3. /\ SourceFields \subseteq DOMAIN t
        /\ t.kind = s.kind /\ t.data = s.data /\ t.from = s.from
        /\ t.draft = s.draft /\ t.writeOpen = s.writeOpen
        /\ t.pos = s.pos /\ t.hashed = s.hashed /\ t.size = s.pos
    BY <1>1, <2>1 DEF SourceFields
  <2>4. t.crcComplete = done
    BY <1>1, <2>1 DEF SourceFields
  <2>5. IsSource(t)
    BY <2>3 DEF IsSource
  <2>6. t.pos = s.pos + Len(got)
    BY <2>2, <2>3
  <2>7. t.crcComplete <=> s.crcComplete \/ Len(s.hashed) = s.pos
    BY <2>4 DEF done
  <2> QED BY <1>3, <2>3, <2>5, <2>6, <2>7 DEF t
<1>4. CASE got # <<>>
  <2>1. t = [s EXCEPT !.pos = pos, !.hashed = hashed]
    BY <1>4 DEF Hash
  <2> HIDE DEF t, done, hashed
  <2>2. /\ SourceFields \subseteq DOMAIN t
        /\ t.kind = s.kind /\ t.data = s.data /\ t.from = s.from
        /\ t.draft = s.draft /\ t.writeOpen = s.writeOpen
        /\ t.pos = pos /\ t.hashed = hashed /\ t.size = s.size
        /\ t.crcComplete = s.crcComplete
    BY <1>1, <2>1 DEF SourceFields
  <2>3. IsSource(t)
    BY <1>2, <2>2 DEF IsSource
  <2>4. t.crcComplete <=> s.crcComplete
    BY <2>2
  <2> QED BY <1>4, <2>2, <2>3, <2>4 DEF t, hashed
<1> QED BY <1>3, <1>4

LEMMA AfterReadKeeps ==
  ASSUME NEW s, IsSource(s), NEW got \in Seq(Bytes),
         s.kind \in Kinds \cup {"memory", "function"},
         s.kind \notin {"crc", "pass"} => s.pos + Len(got) =< Len(s.data)
  PROVE  LET t == AfterRead(s, got)
         IN  /\ IsSource(t)
             /\ t.kind = s.kind /\ t.data = s.data /\ t.from = s.from
             /\ t.draft = s.draft /\ t.writeOpen = s.writeOpen
             /\ s.kind # "pass" => t.pos = s.pos + Len(got)
<1> DEFINE t == AfterRead(s, got)
<1>1. SourceFields \subseteq DOMAIN s
  BY DEF IsSource
<1>2. CASE s.kind = "crc"
  BY <1>2, HashKeeps DEF AfterRead
<1>3. CASE s.kind = "pass"
  <2> DEFINE eof == s.eof \/ got = <<>>
  <2>1. t = [s EXCEPT !.eof = eof]
    BY <1>3 DEF AfterRead
  <2> HIDE DEF t, eof
  <2>2. /\ SourceFields \subseteq DOMAIN t
        /\ t.kind = s.kind /\ t.data = s.data /\ t.from = s.from
        /\ t.draft = s.draft /\ t.writeOpen = s.writeOpen
        /\ t.pos = s.pos /\ t.hashed = s.hashed
    BY <1>1, <2>1 DEF SourceFields
  <2> QED BY <1>3, <2>2 DEF IsSource, t
<1>4. CASE s.kind \notin {"crc", "pass"}
  <2> DEFINE eof == s.eof \/ (got = <<>> /\ (s.kind = "memory" => s.pos >= Len(s.data)))
             pos == s.pos + Len(got)
  <2>1. t = [s EXCEPT !.pos = pos, !.eof = eof]
    BY <1>4 DEF AfterRead, Taken
  <2>2. pos \in Nat /\ pos =< Len(s.data)
    BY <1>4, LenProperties DEF IsSource
  <2> HIDE DEF t, eof, pos
  <2>3. /\ SourceFields \subseteq DOMAIN t
        /\ t.kind = s.kind /\ t.data = s.data /\ t.from = s.from
        /\ t.draft = s.draft /\ t.writeOpen = s.writeOpen
        /\ t.pos = pos /\ t.hashed = s.hashed
    BY <1>1, <2>1 DEF SourceFields
  <2>4. IsSource(t)
    BY <2>2, <2>3 DEF IsSource
  <2> QED BY <2>3, <2>4 DEF t, pos
<1> QED BY <1>2, <1>3, <1>4

\* A CRC layer in step with the lowest source stays so.
LEMMA HashCovers ==
  ASSUME NEW s, IsSource(s), s.kind = "crc",
         NEW data \in Seq(Bytes), NEW len \in Nat, s.pos =< Len(data),
         NEW got, got = SubSeq(data, s.pos + 1, s.pos + Low(len, Len(data) - s.pos)),
         got = <<>> => s.pos = Len(data),
         Covers(s, data)
  PROVE  Covers(Hash(s, got), data)
<1> DEFINE t == Hash(s, got)
<1>1. s.pos \in Nat /\ s.hashed \in Seq(Bytes) /\ Len(data) \in Nat /\ Len(s.hashed) \in Nat
  BY LenProperties DEF IsSource
<1>2. /\ got \in Seq(Bytes) /\ Len(got) \in Nat /\ s.pos + Len(got) =< Len(data)
      /\ SubSeq(data, 1, s.pos) \o got = SubSeq(data, 1, s.pos + Len(got))
  <2> DEFINE pos == s.pos
  <2>1. /\ pos \in Nat /\ pos =< Len(data)
        /\ got = SubSeq(data, pos + 1, pos + Low(len, Len(data) - pos))
    BY <1>1
  <2> HIDE DEF pos
  <2>2. IsNext(data, pos, len, got)
    BY ONLY <2>1, data \in Seq(Bytes), len \in Nat, NextBytes
  <2> QED BY <2>2 DEF pos, IsNext
<1>3. /\ got = <<>> =>
           /\ t.hashed = s.hashed /\ t.size = s.pos
           /\ t.crcComplete <=> s.crcComplete \/ Len(s.hashed) = s.pos
      /\ got # <<>> =>
           /\ t.size = s.size /\ (t.crcComplete <=> s.crcComplete)
           /\ t.hashed = IF ~s.crcComplete /\ s.pos = Len(s.hashed)
                         THEN s.hashed \o got ELSE s.hashed
  BY <1>2, HashKeeps
<1> HIDE DEF t
<1>4. /\ Len(s.hashed) =< Len(data) /\ s.hashed = SubSeq(data, 1, Len(s.hashed))
      /\ s.crcComplete => s.hashed = data /\ s.size = Len(data)
  BY <1>1, PrefixIs DEF Covers
<1>5. CASE got = <<>>
  <2>1. s.pos = Len(data) /\ IsPrefix(t.hashed, data) /\ t.size = Len(data)
    BY <1>3, <1>5 DEF Covers
  <2>2. ASSUME Len(s.hashed) = s.pos PROVE s.hashed = data
    <3>1. s.hashed = SubSeq(data, 1, Len(data))
      BY <1>4, <2>1, <2>2
    <3> QED BY <3>1, SubSeqFull
  <2>3. t.crcComplete => t.hashed = data
    BY <1>3, <1>4, <1>5, <2>2
  <2> QED BY <2>1, <2>3 DEF Covers, t
<1>6. CASE got # <<>>
  <2>1. CASE ~s.crcComplete /\ s.pos = Len(s.hashed)
    <3>1. t.hashed = s.hashed \o got /\ ~t.crcComplete
      BY <1>3, <1>6, <2>1
    <3>2. /\ t.hashed \in Seq(Bytes) /\ Len(t.hashed) = s.pos + Len(got)
      BY <1>1, <1>2, <2>1, <3>1, ConcatProperties
    <3>3. t.hashed = SubSeq(data, 1, s.pos + Len(got))
      BY <1>2, <1>4, <2>1, <3>1
    <3>4. IsPrefix(t.hashed, data)
      BY <1>2, <3>2, <3>3, PrefixIs
    <3> QED BY <3>1, <3>4 DEF Covers, t
  <2>2. CASE ~(~s.crcComplete /\ s.pos = Len(s.hashed))
    <3>1. t.hashed = s.hashed /\ t.size = s.size /\ (t.crcComplete <=> s.crcComplete)
      BY <1>3, <1>6, <2>2
    <3> QED BY <3>1 DEF Covers, t
  <2> QED BY <2>1, <2>2
<1> QED BY <1>5, <1>6

----------------------------------------------------------------------------
(* Reading.                                                                *)

Relays == {"crc", "pass"}

LEMMA HasBytesIs ==
  ASSUME NEW c, IsChain(c), Layered(c), NEW i \in 1..Len(c)
  PROVE  LET k == HasBytes(c, i)
         IN  /\ k \in 1..i /\ c[k].kind \in {"memory", "function", "compress"}
             /\ \A j \in (k + 1)..i : c[j].kind \in Relays
             /\ k = 1 => Clean(c, i)
             /\ k # 1 => c[k].kind = "compress"
             /\ c[k].kind = "compress" => k # 1 /\ \A j \in k..Len(c) : ~Clean(c, j)
<1> DEFINE k == HasBytes(c, i)
<1>1. /\ k \in 1..i /\ c[k].kind \notin Relays
      /\ \A j \in (k + 1)..i : c[j].kind \in Relays
  BY AnswersIs DEF HasBytes, Layered, Relays
<1> HIDE DEF k
<1>2. Len(c) \in Nat /\ k \in Nat /\ i \in Nat
  BY <1>1 DEF IsChain
<1>3. k = 1 \/ k \in 2..Len(c)
  BY <1>1, <1>2
<1>4. c[k].kind \in {"memory", "function", "compress"}
  BY <1>1, <1>3 DEF Layered, Kinds, Relays
<1>5. ASSUME k = 1 PROVE Clean(c, i)
  <2>1. \A j \in 1..i : j = 1 \/ j \in (k + 1)..i
    BY <1>5
  <2> QED BY <1>1, <2>1 DEF Clean, Relays, Layered
<1>6. ASSUME k # 1 PROVE c[k].kind = "compress"
  BY <1>1, <1>3, <1>6 DEF Layered, Kinds, Relays
<1>7. ASSUME c[k].kind = "compress" PROVE k # 1 /\ \A j \in k..Len(c) : ~Clean(c, j)
  <2>1. \A j \in k..Len(c) : k \in 1..j
    BY <1>1
  <2> QED BY <1>7, <2>1 DEF Clean, Layered
<1> QED BY <1>1, <1>4, <1>5, <1>6, <1>7 DEF k

LEMMA HasBytesOnly ==
  ASSUME NEW c, IsChain(c), Layered(c), NEW d, NEW i \in 1..Len(c),
         \A j \in 1..Len(c) : d[j].kind = c[j].kind
  PROVE  HasBytes(d, i) = HasBytes(c, i)
<1> DEFINE k == HasBytes(c, i)
<1>1. /\ k \in 1..i /\ c[k].kind \notin {"crc", "pass"}
      /\ \A j \in (k + 1)..i : c[j].kind \in {"crc", "pass"}
  BY HasBytesIs DEF Relays
<1> HIDE DEF k
<1>2. Len(c) \in Nat /\ i \in Nat /\ 1 \in 1..Len(c) /\ k \in 1..Len(c)
  BY <1>1 DEF IsChain
<1>3. d[1].kind \notin {"crc", "pass"} /\ d[k].kind \notin {"crc", "pass"}
  BY <1>1, <1>2 DEF Layered
<1>4. \A j \in (k + 1)..i : d[j].kind \in {"crc", "pass"}
  <2>1. \A j \in (k + 1)..i : j \in 1..Len(c)
    BY <1>1, <1>2
  <2> QED BY <1>1, <2>1
<1>5. Answers(d, i, {"crc", "pass"}) = k
  BY <1>1, <1>2, <1>3, <1>4, AnswersOnly
<1> QED BY <1>5 DEF HasBytes, k

LEMMA CleanSame ==
  ASSUME NEW c, IsChain(c), NEW d, \A j \in 1..Len(c) : d[j].kind = c[j].kind,
         NEW i \in 1..Len(c)
  PROVE  Clean(d, i) <=> Clean(c, i)
<1>1. \A j \in 1..i : j \in 1..Len(c)
  BY DEF IsChain
<1> QED BY <1>1 DEF Clean

\* A layer behind a compress layer was not opened at the start of anything.
LEMMA UncleanInStep ==
  ASSUME NEW c, Sound(c), NEW d, SameShape(c, d), NEW i \in 2..Len(c),
         c[i].kind = "crc", ~Clean(c, i), d[i].from = c[i].from
  PROVE  CrcInStep(d, i)
<1>1. ~Clean(d, i)
  <2>1. i \in 1..Len(c)
    OBVIOUS
  <2> QED BY <2>1, CleanSame DEF Sound, SameShape
<1>2. d[i].from # "start"
  BY DEF Sound, CrcInStep
<1> QED BY <1>1, <1>2 DEF CrcInStep

LEMMA StaysSound ==
  ASSUME NEW c, Sound(c), NEW d, IsChain(d), SameShape(c, d),
         \A j \in 1..Len(c) : IsSource(d[j]),
         \A i \in 2..Len(c) : c[i].kind = "crc" => CrcInStep(d, i)
  PROVE  Sound(d)
<1>1. Len(d) = Len(c) /\ Len(c) \in Nat /\ Len(c) > 0 /\ 1 \in 1..Len(c)
  BY DEF Sound, SameShape, IsChain
<1>2. \A j \in 2..Len(c) : j \in 1..Len(c)
  BY <1>1
<1>3. \A j \in 1..Len(c) : d[j].kind = c[j].kind
  BY DEF SameShape
<1>4. Layered(d)
  BY <1>1, <1>2, <1>3 DEF Sound, Layered
<1> QED BY <1>1, <1>2, <1>3, <1>4 DEF Sound

\* got is what source s returns to a read that does not end early.
ReadFrom(s, got) ==
  /\ s.pos + Len(got) =< Len(s.data)
  /\ \E len \in Nat : got = SubSeq(s.data, s.pos + 1, s.pos + Low(len, Len(s.data) - s.pos))
  /\ got = <<>> => s.pos = Len(s.data)

MovedBy(c, i, got) ==
  [j \in 1..Len(c) |-> IF j \in HasBytes(c, i)..i THEN AfterRead(c[j], got) ELSE c[j]]

\* A read at the top, or below a compress layer, moves every source that is in
\* step by the bytes it returns.
LEMMA ReadingMoves ==
  ASSUME NEW c, Sound(c), NEW i \in 1..Len(c), NEW d, NEW got \in Seq(Bytes),
         i = Len(c) \/ c[i + 1].kind = "compress",
         d = MovedBy(c, i, got), ReadFrom(c[HasBytes(c, i)], got)
  PROVE  /\ Sound(d) /\ SameShape(c, d)
         /\ \A j \in 1..Len(c) : d[j].data = c[j].data
         /\ \A j \in (i + 1)..Len(c) : d[j] = c[j]
         /\ d[HasBytes(c, i)].pos = c[HasBytes(c, i)].pos + Len(got)
<1> DEFINE k == HasBytes(c, i)
           n == Len(c)
<1>1. /\ n \in Nat /\ n > 0 /\ IsChain(c) /\ Layered(c)
      /\ \A j \in 1..n : IsSource(c[j])
  BY DEF Sound, IsChain
<1>2. /\ k \in 1..i /\ c[k].kind \in {"memory", "function", "compress"}
      /\ \A j \in (k + 1)..i : c[j].kind \in Relays
      /\ k = 1 => Clean(c, i)
      /\ k # 1 => c[k].kind = "compress"
      /\ c[k].kind = "compress" => k # 1 /\ \A j \in k..n : ~Clean(c, j)
  BY <1>1, HasBytesIs
<1>3. d = [j \in 1..n |-> IF j \in k..i THEN AfterRead(c[j], got) ELSE c[j]]
  BY DEF MovedBy
<1>4. /\ c[k].pos + Len(got) =< Len(c[k].data)
      /\ \E len \in Nat : got = SubSeq(c[k].data, c[k].pos + 1,
                                       c[k].pos + Low(len, Len(c[k].data) - c[k].pos))
      /\ got = <<>> => c[k].pos = Len(c[k].data)
  BY DEF ReadFrom
<1> HIDE DEF k
<1>0. i \in 1..n /\ (i = n \/ c[i + 1].kind = "compress")
  OBVIOUS
<1> HIDE DEF n
<1>5. IsChain(d) /\ Len(d) = n
  <2>1. d = [j \in 1..n |-> d[j]]
    BY <1>3
  <2> QED BY <1>1, <2>1, ChainOf
<1>6. ASSUME NEW j \in 1..n
      PROVE  /\ IsSource(d[j])
             /\ d[j].kind = c[j].kind /\ d[j].data = c[j].data /\ d[j].from = c[j].from
             /\ d[j].draft = c[j].draft /\ d[j].writeOpen = c[j].writeOpen
             /\ j \in k..i /\ c[j].kind # "pass" => d[j].pos = c[j].pos + Len(got)
             /\ j \notin k..i => d[j] = c[j]
  <2>1. d[j] = IF j \in k..i THEN AfterRead(c[j], got) ELSE c[j]
    BY <1>3
  <2>2. IsSource(c[j]) /\ c[j].kind \in Kinds \cup {"memory", "function"}
    <3>1. j = 1 \/ j \in 2..n
      BY <1>1
    <3> QED BY <1>1, <3>1 DEF Layered, n
  <2>3. CASE j \in k..i
    <3>1. c[j].kind \notin {"crc", "pass"} => c[j].pos + Len(got) =< Len(c[j].data)
      <4>1. j = k \/ j \in (k + 1)..i
        BY <1>2, <2>3
      <4> QED BY <1>2, <1>4, <4>1 DEF Relays
    <3>2. d[j] = AfterRead(c[j], got)
      BY <2>1, <2>3
    <3> QED BY <2>2, <2>3, <3>1, <3>2, AfterReadKeeps
  <2>4. CASE j \notin k..i
    BY <2>1, <2>2, <2>4
  <2> QED BY <2>3, <2>4
<1>7. SameShape(c, d)
  <2>1. 1 \in 1..n /\ Len(c) = n
    BY <1>1 DEF n
  <2> QED BY <1>5, <1>6, <2>1 DEF SameShape
<1>8. ASSUME NEW j \in 2..n, c[j].kind = "crc" PROVE CrcInStep(d, j)
  <2>1. j \in 1..n /\ CrcInStep(c, j)
    BY <1>8 DEF Sound, n
  <2>2. CASE ~Clean(c, j)
    BY <1>6, <1>7, <1>8, <2>1, <2>2, UncleanInStep DEF n
  <2>3. CASE Clean(c, j) /\ k # 1
    <3>1. \A m \in 1..j : m < k
      BY <1>0, <1>1, <1>2, <2>1, <2>3
    <3>2. \A m \in 1..j : d[m] = c[m]
      <4>1. \A m \in 1..j : m \in 1..n /\ m \notin k..i
        BY <1>0, <1>1, <1>2, <2>1, <3>1
      <4> QED BY <1>6, <4>1
    <3>3. 1 \in 1..j /\ j \in 1..j /\ \A m \in 2..j : m \in 1..j
      BY <2>1
    <3>4. Clean(d, j)
      BY <2>3, <3>2 DEF Clean
    <3>5. d[1] = c[1] /\ d[j] = c[j] /\ \A m \in 2..j : d[m] = c[m]
      BY <3>2, <3>3
    <3> QED BY ONLY <2>1, <2>3, <3>4, <3>5 DEF CrcInStep
  <2>4. CASE Clean(c, j) /\ k = 1
    <3>1. j \in 1..i
      <4>1. ASSUME j > i PROVE FALSE
        <5>1. i # n /\ i + 1 \in 1..j
          BY <1>0, <1>1, <2>1, <4>1
        <5> QED BY <1>0, <2>4, <5>1 DEF Clean
      <4> QED BY <2>1, <4>1
    <3>2. \A m \in 1..j : /\ m \in 1..n /\ m \in k..i
                          /\ c[m].kind # "pass" => d[m].pos = c[m].pos + Len(got)
      <4>1. \A m \in 1..j : m \in 1..n /\ m \in k..i
        BY <1>0, <1>1, <2>4, <3>1
      <4> QED BY <1>6, <4>1
    <3>3. 1 \in 1..j /\ j \in 1..j /\ \A m \in 2..j : m \in 1..j
      BY <2>1
    <3>4. Clean(d, j)
      BY <1>1, <1>6, <2>1, <2>4, CleanSame DEF n
    <3>5. /\ d[1].pos = c[1].pos + Len(got) /\ d[j].pos = c[j].pos + Len(got)
          /\ c[1].pos \in Nat /\ c[j].pos \in Nat /\ Len(got) \in Nat
      <4>1. c[1].kind # "pass" /\ 1 \in 1..n
        BY <1>1 DEF Layered
      <4> QED BY <1>1, <1>8, <2>1, <3>2, <3>3, <4>1, LenProperties DEF IsSource
    <3>6. d[j].pos =< d[1].pos
      BY <2>1, <2>4, <3>5 DEF CrcInStep
    <3>7. ASSUME d[j].from = "start"
          PROVE  /\ \A m \in 2..j : d[m].kind = "crc" => d[m].pos = d[1].pos
                 /\ Covers(d[j], d[1].data)
      <4>1. /\ \A m \in 2..j : c[m].kind = "crc" => c[m].pos = c[1].pos
            /\ Covers(c[j], c[1].data)
        BY <1>6, <2>1, <3>7 DEF CrcInStep
      <4>2. \A m \in 2..j : d[m].kind = "crc" => d[m].pos = d[1].pos
        <5>1. ASSUME NEW m \in 2..j, d[m].kind = "crc" PROVE d[m].pos = d[1].pos
          <6>1. m \in 1..j /\ c[m].kind = "crc"
            BY <1>6, <3>2, <3>3, <5>1
          <6>2. c[m].pos = c[1].pos /\ d[m].pos = c[m].pos + Len(got)
            BY <3>2, <4>1, <6>1
          <6> QED BY <3>5, <6>2
        <5> QED BY <5>1
      <4>3. c[j].pos = c[1].pos
        BY <1>8, <2>1, <4>1
      <4>4. d[j] = Hash(c[j], got)
        BY <1>3, <1>8, <2>1, <3>2, <3>3 DEF AfterRead
      <4>5. PICK len \in Nat : got = SubSeq(c[1].data, c[j].pos + 1,
                                            c[j].pos + Low(len, Len(c[1].data) - c[j].pos))
        BY <1>4, <2>4, <4>3
      <4>6. /\ IsSource(c[j]) /\ c[1].data \in Seq(Bytes) /\ c[j].pos =< Len(c[1].data)
            /\ got = <<>> => c[j].pos = Len(c[1].data)
        <5>1. IsSource(c[1]) /\ c[1].kind \notin {"crc", "pass"} /\ IsSource(c[j])
          BY <1>1, <2>1, <3>2, <3>3 DEF Layered
        <5> QED BY <1>4, <2>4, <4>3, <5>1 DEF IsSource
      <4>7. Covers(d[j], c[1].data)
        <5> DEFINE s == c[j]
                   data == c[1].data
        <5>1. /\ IsSource(s) /\ s.kind = "crc" /\ data \in Seq(Bytes) /\ s.pos =< Len(data)
              /\ got = <<>> => s.pos = Len(data)
              /\ got = SubSeq(data, s.pos + 1, s.pos + Low(len, Len(data) - s.pos))
              /\ Covers(s, data) /\ d[j] = Hash(s, got)
          BY <1>8, <4>1, <4>4, <4>5, <4>6
        <5> HIDE DEF s, data
        <5>2. Covers(d[j], data)
          BY <5>1, HashCovers
        <5> QED BY <5>2 DEF data
      <4> QED BY <1>7, <4>2, <4>7 DEF SameShape
    <3> QED BY <3>4, <3>6, <3>7 DEF CrcInStep
  <2> QED BY <2>2, <2>3, <2>4
<1>9. Sound(d)
  BY <1>5, <1>6, <1>7, <1>8, StaysSound DEF n
<1>10. \A j \in (i + 1)..n : d[j] = c[j]
  <2>1. \A j \in (i + 1)..n : j \in 1..n /\ j \notin k..i
    BY <1>0, <1>1, <1>2
  <2> QED BY <1>6, <2>1
<1>11. d[k].pos = c[k].pos + Len(got)
  <2>1. k \in 1..n /\ k \in k..i /\ c[k].kind # "pass"
    BY <1>0, <1>1, <1>2
  <2> QED BY <1>6, <2>1
<1> QED BY <1>6, <1>7, <1>9, <1>10, <1>11 DEF k, n

LEMMA SameShapeChain ==
  ASSUME NEW c, NEW d, NEW e, SameShape(c, d), SameShape(d, e)
  PROVE  SameShape(c, e)
BY DEF SameShape

\* What a read (r) at level i leaves as it was, and what it returns; s has the bytes.
ReadKeeps(c, i, len, ok, s, r) ==
  /\ Sound(r.chain) /\ SameShape(c, r.chain)
  /\ \A j \in 1..Len(c) : r.chain[j].data = c[j].data
  /\ \A j \in (i + 1)..Len(c) : r.chain[j] = c[j]
  /\ r = [chain |-> r.chain, got |-> r.got, ok |-> r.ok]
  /\ r.got \in Seq(Bytes) /\ r.ok \in BOOLEAN
  /\ r.ok <=> s.kind # "function" \/ ok
  /\ ~r.ok => r.chain = c /\ r.got = <<>>
  /\ r.ok =>
       /\ r.chain[HasBytes(c, i)].pos = s.pos + Len(r.got)
       /\ Len(r.got) = Low(len, Len(s.data) - s.pos)
       /\ SubSeq(s.data, 1, s.pos) \o r.got = SubSeq(s.data, 1, s.pos + Len(r.got))

LEMMA ReadingKeeps ==
  ASSUME NEW c, Sound(c), NEW i \in 1..Len(c), NEW len \in Nat, NEW ok \in BOOLEAN,
         i = Len(c) \/ c[i + 1].kind = "compress",
         len = 0 => c[HasBytes(c, i)].pos = Len(c[HasBytes(c, i)].data)
  PROVE  LET s == c[HasBytes(c, i)]
             r == Reading(c, i, len, ok)
         IN  ReadKeeps(c, i, len, ok, s, r)
<1> DEFINE k == HasBytes(c, i)
           s == c[k]
           got == SubSeq(s.data, s.pos + 1, s.pos + Low(len, Len(s.data) - s.pos))
           r == Reading(c, i, len, ok)
           fails == s.kind = "function" /\ ~ok
<1>1. r = IF fails THEN [chain |-> c, got |-> <<>>, ok |-> FALSE]
          ELSE [chain |-> MovedBy(c, i, got), got |-> got, ok |-> TRUE]
  BY DEF Reading, MovedBy
<1>2. /\ k \in 1..i /\ k \in 1..Len(c) /\ s.kind \in {"memory", "function", "compress"}
      /\ IsSource(s)
  <2>1. k \in 1..i /\ s.kind \in {"memory", "function", "compress"}
    BY HasBytesIs DEF Sound
  <2>2. k \in 1..Len(c)
    BY <2>1 DEF Sound, IsChain
  <2> QED BY <2>1, <2>2 DEF Sound
<1>3. s.data \in Seq(Bytes) /\ s.pos \in Nat /\ s.pos =< Len(s.data) /\ Len(s.data) \in Nat
  <2>1. s.data \in Seq(Bytes) /\ s.pos \in Nat /\ s.pos =< Len(s.data)
    BY <1>2 DEF IsSource
  <2> QED BY <2>1, LenProperties
<1>4. len = 0 => s.pos = Len(s.data)
  OBVIOUS
<1>5. IsChain(c) /\ \A j \in 1..Len(c) : c[j].data = c[j].data
  BY DEF Sound
<1> HIDE DEF r, fails, got
<1>6. CASE fails
  <2>1. /\ r.chain = c /\ r.got = <<>> /\ r.ok = FALSE
        /\ r = [chain |-> r.chain, got |-> r.got, ok |-> r.ok]
    BY <1>1, <1>6
  <2>2. SameShape(c, c) /\ <<>> \in Seq(Bytes)
    BY DEF SameShape
  <2>3. r.ok <=> s.kind # "function" \/ ok
    BY <1>6, <2>1 DEF fails
  <2> HIDE DEF s
  <2> QED BY <2>1, <2>2, <2>3 DEF s, r, ReadKeeps
<1>7. CASE ~fails
  <2>1. /\ got \in Seq(Bytes) /\ Len(got) = Low(len, Len(s.data) - s.pos)
        /\ Len(got) \in Nat /\ s.pos + Len(got) =< Len(s.data)
        /\ got = <<>> <=> Len(got) = 0
        /\ SubSeq(s.data, 1, s.pos) \o got = SubSeq(s.data, 1, s.pos + Len(got))
    <3> DEFINE data == s.data
               pos == s.pos
    <3>1. /\ data \in Seq(Bytes) /\ pos \in Nat /\ pos =< Len(data)
          /\ got = SubSeq(data, pos + 1, pos + Low(len, Len(data) - pos))
      BY <1>3 DEF got
    <3> HIDE DEF data, pos
    <3>2. IsNext(data, pos, len, got)
      BY ONLY <3>1, len \in Nat, NextBytes
    <3> QED BY <3>2 DEF data, pos, IsNext
  <2>2. got = <<>> => s.pos = Len(s.data)
    <3> HIDE DEF s
    <3> QED BY <1>3, <1>4, <2>1 DEF Low
  <2>3. ReadFrom(s, got)
    BY <2>1, <2>2 DEF ReadFrom, got
  <2> DEFINE d == MovedBy(c, i, got)
  <2>4. /\ Sound(d) /\ SameShape(c, d)
        /\ \A j \in 1..Len(c) : d[j].data = c[j].data
        /\ \A j \in (i + 1)..Len(c) : d[j] = c[j]
        /\ d[k].pos = s.pos + Len(got)
    <3> HIDE DEF d
    <3>1. d = MovedBy(c, i, got)
      BY DEF d
    <3> QED BY <2>1, <2>3, <3>1, ReadingMoves
  <2>5. /\ r.chain = d /\ r.got = got /\ r.ok = TRUE
        /\ r = [chain |-> r.chain, got |-> r.got, ok |-> r.ok]
    BY <1>1, <1>7
  <2>6. r.ok <=> s.kind # "function" \/ ok
    BY <1>7, <2>5 DEF fails
  <2> HIDE DEF d, s, k
  <2> QED BY <2>1, <2>4, <2>5, <2>6 DEF s, r, k, ReadKeeps
<1> QED BY <1>6, <1>7

\* A drain returns all the bytes, if nothing was read of them before.
LEMMA DrainedKeeps ==
  ASSUME NEW c, Sound(c), NEW i \in 1..Len(c), NEW ok \in BOOLEAN,
         i = Len(c) \/ c[i + 1].kind = "compress"
  PROVE  LET s == c[HasBytes(c, i)]
             r == Drained(c, i, ok)
         IN  /\ Sound(r.chain) /\ SameShape(c, r.chain)
             /\ \A j \in (i + 1)..Len(c) : r.chain[j] = c[j]
             /\ r.got \in Seq(Bytes) /\ r.ok \in BOOLEAN
             /\ r.ok /\ s.pos = 0 => r.got = s.data
<1> DEFINE k == HasBytes(c, i)
           s == c[k]
           all == Len(s.data)
           body == Reading(c, i, all, ok)
           d == body.chain
           end == Reading(d, i, all, ok)
           r == Drained(c, i, ok)
<1>1. k \in 1..Len(c) /\ IsSource(s) /\ s.kind \in {"memory", "function", "compress"}
  <2>1. k \in 1..i /\ s.kind \in {"memory", "function", "compress"}
    BY HasBytesIs DEF Sound
  <2>2. k \in 1..Len(c)
    BY <2>1 DEF Sound, IsChain
  <2> QED BY <2>1, <2>2 DEF Sound
<1>2. s.data \in Seq(Bytes) /\ s.pos \in Nat /\ s.pos =< all /\ all \in Nat
  <2>1. s.data \in Seq(Bytes) /\ s.pos \in Nat /\ s.pos =< Len(s.data)
    BY <1>1 DEF IsSource
  <2> QED BY <2>1, LenProperties
<1>3. all = 0 => s.pos = Len(s.data)
  BY <1>2
<1>4. /\ Sound(d) /\ SameShape(c, d)
      /\ \A j \in 1..Len(c) : d[j].data = c[j].data
      /\ \A j \in (i + 1)..Len(c) : d[j] = c[j]
      /\ body = [chain |-> body.chain, got |-> body.got, ok |-> body.ok]
      /\ body.got \in Seq(Bytes) /\ body.ok \in BOOLEAN
      /\ body.ok <=> s.kind # "function" \/ ok
      /\ body.ok =>
           /\ d[k].pos = s.pos + Len(body.got)
           /\ Len(body.got) = Low(all, Len(s.data) - s.pos)
           /\ SubSeq(s.data, 1, s.pos) \o body.got = SubSeq(s.data, 1, s.pos + Len(body.got))
  <2>1. ReadKeeps(c, i, all, ok, c[HasBytes(c, i)], Reading(c, i, all, ok))
    <3> HIDE DEF all
    <3> QED BY <1>2, <1>3, ReadingKeeps
  <2> QED BY <2>1 DEF ReadKeeps
<1>5. HasBytes(d, i) = k /\ Len(d) = Len(c) /\ d[k].data = s.data
  <2>1. IsChain(c) /\ Layered(c) /\ \A j \in 1..Len(c) : d[j].kind = c[j].kind
    BY <1>4 DEF Sound, SameShape
  <2> HIDE DEF d
  <2>2. HasBytes(d, i) = HasBytes(c, i)
    BY <2>1, HasBytesOnly
  <2> QED BY <1>1, <1>4, <2>2 DEF SameShape
<1>6. i = Len(d) \/ d[i + 1].kind = "compress"
  <2>1. i # Len(c) => i + 1 \in (i + 1)..Len(c)
    BY DEF Sound, IsChain
  <2> HIDE DEF d
  <2> QED BY <1>4, <1>5, <2>1
<1>7. all = 0 => d[HasBytes(d, i)].pos = Len(d[HasBytes(d, i)].data)
  <2>1. k \in 1..Len(d)
    BY <1>1, <1>5
  <2>2. IsSource(d[k]) /\ d[k].kind \notin {"crc", "pass"}
    BY <1>1, <1>4, <1>5, <2>1 DEF Sound, SameShape
  <2>3. d[k].pos \in Nat /\ d[k].pos =< Len(d[k].data)
    BY <2>2 DEF IsSource
  <2>4. all = 0 => d[k].pos = Len(d[k].data)
    BY <1>5, <2>3
  <2> QED BY <1>5, <2>4
<1>8. /\ Sound(end.chain) /\ SameShape(d, end.chain)
      /\ \A j \in (i + 1)..Len(c) : end.chain[j] = d[j]
      /\ end = [chain |-> end.chain, got |-> end.got, ok |-> end.ok]
      /\ end.ok \in BOOLEAN
  <2>1. i \in 1..Len(d)
    BY <1>5
  <2>2. ReadKeeps(d, i, all, ok, d[HasBytes(d, i)], Reading(d, i, all, ok))
    <3> HIDE DEF all, d
    <3> QED BY <1>2, <1>4, <1>6, <1>7, <2>1, ReadingKeeps
  <2>3. Len(d) = Len(c)
    BY <1>5
  <2> HIDE DEF all, d
  <2> QED BY <2>2, <2>3 DEF ReadKeeps
<1>9. r = IF body.ok THEN [end EXCEPT !.got = body.got] ELSE body
  BY DEF Drained
<1> HIDE DEF body, end, all, k, s, r
<1>10. CASE body.ok
  <2>1. r.chain = end.chain /\ r.got = body.got /\ r.ok = end.ok
    BY <1>8, <1>9, <1>10
  <2>2. ASSUME s.pos = 0 PROVE body.got = s.data
    <3>1. Len(body.got) = all
      BY <1>2, <1>4, <1>10, <2>2 DEF all, Low
    <3>2. SubSeq(s.data, 1, 0) \o body.got = SubSeq(s.data, 1, all)
      <4>1. 0 + all = all /\ s.pos + Len(body.got) = all
        BY <1>2, <2>2, <3>1
      <4> QED BY <1>4, <1>10, <2>2, <4>1
    <3>3. SubSeq(s.data, 1, 0) = <<>> /\ SubSeq(s.data, 1, all) = s.data
      <4>1. 1 \in Int /\ 0 \in Int /\ 0 < 1
        OBVIOUS
      <4>2. SubSeq(s.data, 1, 0) = <<>>
        BY ONLY <4>1, SubSeqEmpty
      <4> QED BY <1>2, <4>2, SubSeqFull DEF all
    <3> QED BY <1>4, <3>2, <3>3, ConcatEmptySeq
  <2>3. SameShape(c, end.chain)
    BY <1>4, <1>8, SameShapeChain
  <2>4. \A j \in (i + 1)..Len(c) : end.chain[j] = c[j]
    BY <1>4, <1>8
  <2> QED BY <1>4, <1>8, <2>1, <2>2, <2>3, <2>4 DEF r, s, k
<1>11. CASE ~body.ok
  <2>1. r = body
    BY <1>9, <1>11
  <2> QED BY <1>4, <1>11, <2>1 DEF r
<1> QED BY <1>10, <1>11

----------------------------------------------------------------------------
(* The content, level by level.                                            *)

ContentStep(c, n, below) ==
  CASE c[n].kind \in {"crc", "pass"} -> below
    [] c[n].kind = "compress" -> Compressed(below)
    [] OTHER -> c[n].data

LEMMA ContentExists ==
  ASSUME NEW c, NEW len \in Nat
  PROVE  \E f : f = [n \in 0..len |-> IF n = 0 THEN <<>> ELSE ContentStep(c, n, f[n - 1])]
<1> DEFINE Is(m, f) == f = [n \in 0..m |-> IF n = 0 THEN <<>> ELSE ContentStep(c, n, f[n - 1])]
           S == {m \in 0..len : \E f : Is(m, f)}
<1>1. 0 \in S
  <2> DEFINE f == [n \in 0..0 |-> <<>>]
  <2>1. Is(0, f) /\ 0 \in 0..len
    OBVIOUS
  <2> HIDE DEF Is, f
  <2> QED BY <2>1
<1>2. ASSUME NEW m \in 1..len, m - 1 \in S PROVE m \in S
  <2>1. PICK g : Is(m - 1, g)
    BY <1>2
  <2> DEFINE h == [n \in 0..m |-> IF n < m THEN g[n] ELSE ContentStep(c, m, g[m - 1])]
  <2>2. h[m] = ContentStep(c, m, g[m - 1]) /\ \A n \in 0..(m - 1) : h[n] = g[n]
    OBVIOUS
  <2>3. ASSUME NEW n \in 0..m
        PROVE  h[n] = IF n = 0 THEN <<>> ELSE ContentStep(c, n, h[n - 1])
    <3> HIDE DEF h
    <3>1. CASE n = m
      <4>1. n # 0 /\ m - 1 \in 0..(m - 1)
        BY <3>1
      <4> QED BY <2>2, <3>1, <4>1
    <3>2. CASE n # m
      <4>1. n \in 0..(m - 1) /\ (n # 0 => n - 1 \in 0..(m - 1))
        BY <3>2
      <4>2. g[n] = IF n = 0 THEN <<>> ELSE ContentStep(c, n, g[n - 1])
        BY <2>1, <4>1
      <4> QED BY <2>2, <4>1, <4>2
    <3> QED BY <3>1, <3>2
  <2>4. h = [n \in 0..m |-> h[n]]
    OBVIOUS
  <2>5. Is(m, h)
    <3> HIDE DEF h
    <3> QED BY <2>3, <2>4
  <2>6. m \in 0..len
    OBVIOUS
  <2> HIDE DEF Is, h
  <2> QED BY <2>5, <2>6
<1>3. \A m \in 0..len : m \in S
  <2> HIDE DEF S
  <2> QED BY <1>1, <1>2, Induct
<1>4. len \in 0..len
  OBVIOUS
<1> QED BY <1>3, <1>4

LEMMA ContentLevels ==
  ASSUME NEW c, IsChain(c)
  PROVE  /\ Content(c, 0) = <<>>
         /\ \A n \in 1..Len(c) : Content(c, n) = ContentStep(c, n, Content(c, n - 1))
<1> DEFINE len == Len(c)
           f == CHOOSE g : g = [n \in 0..len |-> IF n = 0 THEN <<>> ELSE ContentStep(c, n, g[n - 1])]
<1>1. len \in Nat
  BY DEF IsChain
<1>2. \A i : Content(c, i) = f[i]
  BY DEF Content, ContentStep
<1> HIDE DEF len
<1>3. f = [n \in 0..len |-> IF n = 0 THEN <<>> ELSE ContentStep(c, n, f[n - 1])]
  BY <1>1, ContentExists
<1> HIDE DEF f
<1>4. f[0] = <<>> /\ \A n \in 1..len : f[n] = ContentStep(c, n, f[n - 1])
  <2>1. 0 \in 0..len /\ \A n \in 1..len : n \in 0..len /\ n # 0
    BY <1>1
  <2>2. \A n \in 0..len : f[n] = IF n = 0 THEN <<>> ELSE ContentStep(c, n, f[n - 1])
    BY <1>3
  <2> QED BY <2>1, <2>2
<1> QED BY <1>2, <1>4 DEF len

\* Layers that hand reads on do not change the content.
LEMMA ContentAbove ==
  ASSUME NEW c, IsChain(c), NEW k \in 1..Len(c), NEW i \in k..Len(c),
         \A j \in (k + 1)..i : c[j].kind \in Relays
  PROVE  Content(c, i) = Content(c, k)
<1> DEFINE S == {m \in 0..(i - k) : Content(c, k + m) = Content(c, k)}
<1>1. i - k \in Nat /\ k \in Nat /\ i \in Nat /\ k > 0 /\ k + 0 = k /\ k + (i - k) = i
  BY DEF IsChain
<1>2. 0 \in S
  BY <1>1
<1>3. ASSUME NEW m \in 1..(i - k), m - 1 \in S PROVE m \in S
  <2>1. k + m \in (k + 1)..i /\ k + m \in 1..Len(c) /\ k + m - 1 = k + (m - 1)
    BY <1>1
  <2>2. Content(c, k + m) = ContentStep(c, k + m, Content(c, k + m - 1))
    BY <2>1, ContentLevels
  <2>3. Content(c, k + m) = Content(c, k + (m - 1))
    BY <2>1, <2>2 DEF ContentStep, Relays
  <2> QED BY <1>3, <2>3
<1>4. \A m \in 0..(i - k) : m \in S
  <2> HIDE DEF S
  <2> QED BY <1>1, <1>2, <1>3, Induct
<1>5. i - k \in S
  <2> HIDE DEF S
  <2> QED BY <1>1, <1>4
<1> QED BY <1>1, <1>5

LEMMA ContentOfClean ==
  ASSUME NEW c, IsChain(c), Layered(c), NEW i \in 1..Len(c), Clean(c, i)
  PROVE  Content(c, i) = c[1].data
<1>1. 1 \in 1..Len(c) /\ i \in 1..Len(c) /\ Len(c) \in Nat
  BY DEF IsChain
<1>2. \A j \in (1 + 1)..i : c[j].kind \in Relays
  <2>1. \A j \in (1 + 1)..i : j \in 2..Len(c) /\ j \in 1..i
    BY <1>1
  <2> QED BY <2>1 DEF Layered, Clean, Kinds, Relays
<1>3. Content(c, i) = Content(c, 1)
  BY <1>1, <1>2, ContentAbove
<1>4. Content(c, 1) = c[1].data
  <2>1. Content(c, 1) = ContentStep(c, 1, Content(c, 1 - 1))
    BY <1>1, ContentLevels
  <2> QED BY <2>1 DEF ContentStep, Layered
<1> QED BY <1>3, <1>4

LEMMA ContentSame ==
  ASSUME NEW c, NEW d, IsChain(c), IsChain(d), Layered(c), SameShape(c, d)
  PROVE  \A i \in 0..Len(c) : Content(d, i) = Content(c, i)
<1> DEFINE n == Len(c)
           S == {m \in 0..n : Content(d, m) = Content(c, m)}
<1>1. n \in Nat /\ Len(d) = n
  BY DEF IsChain, SameShape
<1>2. 0 \in S
  <2>1. Content(c, 0) = <<>> /\ Content(d, 0) = <<>>
    BY ContentLevels
  <2> QED BY <1>1, <2>1
<1>3. ASSUME NEW m \in 1..n, m - 1 \in S PROVE m \in S
  <2>1. /\ Content(c, m) = ContentStep(c, m, Content(c, m - 1))
        /\ Content(d, m) = ContentStep(d, m, Content(d, m - 1))
    BY <1>1, ContentLevels
  <2>2. Content(d, m - 1) = Content(c, m - 1)
    BY <1>3
  <2>3. d[m].kind = c[m].kind /\ d[1].data = c[1].data
    BY DEF SameShape
  <2>4. m = 1 \/ c[m].kind \in Kinds
    <3>1. m = 1 \/ m \in 2..Len(c)
      BY <1>1
    <3> QED BY <3>1 DEF Layered
  <2>5. Content(d, m) = Content(c, m)
    BY <2>1, <2>2, <2>3, <2>4 DEF ContentStep, Kinds
  <2> QED BY <2>5
<1>4. \A m \in 0..n : m \in S
  <2> HIDE DEF S, n
  <2> QED BY <1>1, <1>2, <1>3, Induct
<1> QED BY <1>4

LEMMA ContentTypes ==
  ASSUME NEW c, Sound(c)
  PROVE  \A i \in 0..Len(c) : Content(c, i) \in Seq(Bytes)
<1> DEFINE n == Len(c)
           S == {m \in 0..n : Content(c, m) \in Seq(Bytes)}
<1>1. n \in Nat /\ IsChain(c)
  BY DEF Sound, IsChain
<1>2. 0 \in S
  <2>1. Content(c, 0) = <<>> /\ <<>> \in Seq(Bytes)
    BY <1>1, ContentLevels
  <2>2. 0 \in 0..n
    BY <1>1
  <2> HIDE DEF n
  <2> QED BY <2>1, <2>2
<1>3. ASSUME NEW m \in 1..n, m - 1 \in S PROVE m \in S
  <2>1. Content(c, m) = ContentStep(c, m, Content(c, m - 1)) /\ IsSource(c[m])
    BY <1>1, ContentLevels DEF Sound
  <2>2. Content(c, m - 1) \in Seq(Bytes) /\ c[m].data \in Seq(Bytes)
    BY <1>3, <2>1 DEF IsSource
  <2>3. Compressed(Content(c, m - 1)) \in Seq(Bytes)
    <3>1. <<Magic>> \in Seq(Bytes)
      BY ContentAssumption
    <3> QED BY <2>2, <3>1, ConcatProperties DEF Compressed
  <2>4. Content(c, m) \in Seq(Bytes)
    BY <2>1, <2>2, <2>3 DEF ContentStep
  <2> QED BY <2>4
<1>4. \A m \in 0..n : m \in S
  <2> HIDE DEF S, n
  <2> QED BY <1>1, <1>2, <1>3, Induct
<1> QED BY <1>4

----------------------------------------------------------------------------
(* Opening.                                                                *)

\* What an OPEN stops at: the top, or what a compress layer drains.
OpenedAlone(c, i) == i = Len(c) \/ c[i + 1].kind = "compress"

\* A source that is changed at such a level leaves the chain sound.
LEMMA SourceChanged ==
  ASSUME NEW c, Sound(c), NEW i \in 1..Len(c), OpenedAlone(c, i), NEW s, NEW d,
         IsSource(s), s.kind = c[i].kind,
         s.draft = c[i].draft, s.writeOpen = c[i].writeOpen,
         i = 1 => s.data = c[i].data,
         Replaced(c, i, s, d),
         c[i].kind = "crc" => CrcInStep(d, i)
  PROVE  /\ Sound(d) /\ SameShape(c, d)
         /\ d[i] = s /\ \A j \in 1..Len(c) : j # i => d[j] = c[j]
<1> DEFINE n == Len(c)
<1>1. /\ n \in Nat /\ n > 0 /\ IsChain(c) /\ Layered(c) /\ 1 \in 1..n
      /\ \A j \in 1..n : IsSource(c[j])
  BY DEF Sound, IsChain
<1>2. /\ IsChain(d) /\ Len(d) = n
      /\ d[i] = s /\ \A j \in 1..n : j # i => d[j] = c[j]
  <2>1. IsChain(c) /\ i \in 1..Len(c) /\ Replaced(c, i, s, d)
    BY <1>1
  <2>2. /\ IsChain(d) /\ Len(d) = Len(c)
        /\ d[i] = s /\ \A j \in 1..Len(c) : j # i => d[j] = c[j]
    BY ONLY <2>1, ChainExcept
  <2> QED BY ONLY <2>2 DEF n
<1>3. i \in 1..n /\ (i = n \/ c[i + 1].kind = "compress")
  BY DEF OpenedAlone
<1> HIDE DEF n
<1>4. SameShape(c, d)
  <2>1. d[1].data = c[1].data
    BY <1>1, <1>2
  <2>2. \A j \in 1..n : /\ d[j].kind = c[j].kind
                        /\ d[j].draft = c[j].draft /\ d[j].writeOpen = c[j].writeOpen
    BY <1>2
  <2> QED BY <1>2, <2>1, <2>2 DEF SameShape, n
<1>5. ASSUME NEW j \in 2..n, c[j].kind = "crc" PROVE CrcInStep(d, j)
  <2>1. CASE j = i
    BY <1>5, <2>1
  <2>2. CASE j < i
    <3>1. \A m \in 1..j : d[m] = c[m]
      BY <1>1, <1>2, <1>3, <2>2
    <3>2. 1 \in 1..j /\ j \in 1..j /\ \A m \in 2..j : m \in 1..j
      OBVIOUS
    <3>3. d[1] = c[1] /\ d[j] = c[j] /\ \A m \in 2..j : d[m] = c[m]
      BY <3>1, <3>2
    <3>4. Clean(d, j) <=> Clean(c, j)
      BY <3>1 DEF Clean
    <3>5. CrcInStep(c, j)
      BY <1>5 DEF Sound, n
    <3> QED BY ONLY <3>3, <3>4, <3>5 DEF CrcInStep
  <2>3. CASE j > i
    <3>1. i + 1 \in 1..j /\ i # n
      BY <1>1, <1>3, <2>3
    <3>2. ~Clean(c, j)
      BY <1>3, <3>1 DEF Clean
    <3>3. d[j].from = c[j].from
      BY <1>1, <1>2, <2>3
    <3> QED BY <1>4, <1>5, <3>2, <3>3, UncleanInStep DEF n
  <2> QED BY <1>3, <2>1, <2>2, <2>3
<1>6. \A j \in 1..n : IsSource(d[j])
  BY <1>1, <1>2
<1>7. Sound(d)
  BY <1>2, <1>4, <1>5, <1>6, StaysSound DEF n
<1> QED BY <1>2, <1>4, <1>7 DEF n

IsOpening(c, ok, m, f) ==
  f = [n \in 0..m |-> IF n = 0 THEN [chain |-> c, ok |-> TRUE]
                      ELSE OpenLevel(c, n, ok, f[n - 1])]

LEMMA OpenExists ==
  ASSUME NEW c, NEW ok, NEW len \in Nat
  PROVE  \E f : IsOpening(c, ok, len, f)
<1> DEFINE Is(m, f) == IsOpening(c, ok, m, f)
           S == {m \in 0..len : \E f : Is(m, f)}
<1>1. 0 \in S
  <2> DEFINE f == [n \in 0..0 |-> [chain |-> c, ok |-> TRUE]]
  <2>1. Is(0, f) /\ 0 \in 0..len
    BY DEF IsOpening
  <2> HIDE DEF Is, f
  <2> QED BY <2>1
<1>2. ASSUME NEW m \in 1..len, m - 1 \in S PROVE m \in S
  <2>1. PICK g : Is(m - 1, g)
    BY <1>2
  <2> DEFINE h == [n \in 0..m |-> IF n < m THEN g[n] ELSE OpenLevel(c, m, ok, g[m - 1])]
  <2>2. h[m] = OpenLevel(c, m, ok, g[m - 1]) /\ \A n \in 0..(m - 1) : h[n] = g[n]
    OBVIOUS
  <2>3. ASSUME NEW n \in 0..m
        PROVE  h[n] = IF n = 0 THEN [chain |-> c, ok |-> TRUE]
                      ELSE OpenLevel(c, n, ok, h[n - 1])
    <3> HIDE DEF h
    <3>1. CASE n = m
      <4>1. n # 0 /\ m - 1 \in 0..(m - 1)
        BY <3>1
      <4> QED BY <2>2, <3>1, <4>1
    <3>2. CASE n # m
      <4>1. n \in 0..(m - 1) /\ (n # 0 => n - 1 \in 0..(m - 1))
        BY <3>2
      <4>2. g[n] = IF n = 0 THEN [chain |-> c, ok |-> TRUE]
                   ELSE OpenLevel(c, n, ok, g[n - 1])
        BY <2>1, <4>1 DEF IsOpening
      <4> QED BY <2>2, <4>1, <4>2
    <3> QED BY <3>1, <3>2
  <2>4. h = [n \in 0..m |-> h[n]]
    OBVIOUS
  <2>5. Is(m, h)
    <3> HIDE DEF h
    <3> QED BY <2>3, <2>4 DEF IsOpening
  <2>6. m \in 0..len
    OBVIOUS
  <2> HIDE DEF Is, h
  <2> QED BY <2>5, <2>6
<1>3. \A m \in 0..len : m \in S
  <2> HIDE DEF S
  <2> QED BY <1>1, <1>2, Induct
<1>4. len \in 0..len
  OBVIOUS
<1> QED BY <1>3, <1>4

LEMMA OpenLevels ==
  ASSUME NEW c, IsChain(c), NEW ok
  PROVE  \E open : /\ Opening(c, ok) = open[Len(c)]
                   /\ \A n \in 1..Len(c) : open[n] = OpenLevel(c, n, ok, open[n - 1])
<1> DEFINE len == Len(c)
           f == CHOOSE g : IsOpening(c, ok, len, g)
<1>1. len \in Nat
  BY DEF IsChain
<1>2. Opening(c, ok) = f[len]
  BY DEF Opening, IsOpening
<1> HIDE DEF len
<1>3. IsOpening(c, ok, len, f)
  BY <1>1, OpenExists
<1> HIDE DEF f
<1>4. \A n \in 1..len : f[n] = OpenLevel(c, n, ok, f[n - 1])
  <2>1. \A n \in 1..len : n \in 0..len /\ n # 0
    BY <1>1
  <2>2. \A n \in 0..len : f[n] = IF n = 0 THEN [chain |-> c, ok |-> TRUE]
                                 ELSE OpenLevel(c, n, ok, f[n - 1])
    BY <1>3 DEF IsOpening
  <2> QED BY <2>1, <2>2
<1> QED BY <1>2, <1>4 DEF len

WholeAt(c, i) == LET k == Answers(c, i, {"compress"}) IN k = 1 \/ AtStart(c, k - 1)

\* What an OPEN (r) at level i leaves as it was, and what is read after it.
OpenKeeps(c, i, r) ==
  /\ Sound(r.chain) /\ SameShape(c, r.chain)
  /\ \A j \in (i + 1)..Len(c) : r.chain[j] = c[j]
  /\ r.ok \in BOOLEAN
  /\ r.ok /\ WholeAt(c, i) =>
       /\ r.chain[HasBytes(c, i)].pos = 0
       /\ r.chain[HasBytes(c, i)].data = Content(c, i)

LEMMA RewoundKeeps ==
  ASSUME NEW s, IsSource(s)
  PROVE  /\ IsSource(Rewound(s)) /\ Rewound(s).pos = 0
         /\ SourceFields \subseteq DOMAIN Rewound(s)
         /\ \A f \in SourceFields \ {"pos"} : Rewound(s)[f] = s[f]
<1> DEFINE t == Rewound(s)
<1>1. SourceFields \subseteq DOMAIN s /\ t = [s EXCEPT !.pos = 0]
  BY DEF IsSource, Rewound
<1> HIDE DEF t
<1>2. SourceFields \subseteq DOMAIN t /\ t.pos = 0
  BY <1>1 DEF SourceFields
<1>3. \A f \in SourceFields \ {"pos"} : t[f] = s[f]
  BY <1>1
<1>4. t.kind = s.kind /\ t.data = s.data /\ t.hashed = s.hashed
  BY <1>3 DEF SourceFields
<1>5. Len(s.data) \in Nat
  BY LenProperties DEF IsSource
<1>6. IsSource(t)
  BY <1>2, <1>4, <1>5 DEF IsSource
<1> QED BY <1>2, <1>3, <1>6 DEF t

\* The fields of a source that OPEN looks at.
LEMMA RewoundFields ==
  ASSUME NEW s, IsSource(s)
  PROVE  LET t == Rewound(s)
         IN  /\ t.kind = s.kind /\ t.data = s.data /\ t.from = s.from
             /\ t.draft = s.draft /\ t.writeOpen = s.writeOpen
BY RewoundKeeps DEF SourceFields

\* A source opened by itself: memory or a function.
LEMMA OpenLowest ==
  ASSUME NEW c, Sound(c), OpenedAlone(c, 1), NEW ok \in BOOLEAN, NEW lower
  PROVE  OpenKeeps(c, 1, OpenLevel(c, 1, ok, lower))
<1> DEFINE s == c[1]
           r == OpenLevel(c, 1, ok, lower)
           again == [Rewound(s) EXCEPT !.eof = FALSE]
<1>1. /\ 1 \in 1..Len(c) /\ IsSource(s) /\ s.kind \in {"memory", "function"}
      /\ IsChain(c) /\ Layered(c)
  BY DEF Sound, IsChain, Layered
<1>2. HasBytes(c, 1) = 1 /\ Content(c, 1) = s.data
  <2>1. HasBytes(c, 1) = 1
    BY <1>1, HasBytesIs
  <2>2. Clean(c, 1)
    BY <1>1 DEF Clean
  <2> QED BY <1>1, <2>1, <2>2, ContentOfClean
<1>3. /\ IsSource(again) /\ again.pos = 0 /\ again.kind = s.kind /\ again.data = s.data
      /\ again.draft = s.draft /\ again.writeOpen = s.writeOpen
  <2> DEFINE t == Rewound(s)
  <2>1. /\ IsSource(t) /\ t.pos = 0 /\ t.kind = s.kind /\ t.data = s.data
        /\ t.draft = s.draft /\ t.writeOpen = s.writeOpen
    BY <1>1, RewoundKeeps, RewoundFields
  <2>2. again = [t EXCEPT !.eof = FALSE]
    OBVIOUS
  <2> HIDE DEF t, again, s
  <2>3. /\ SourceFields \subseteq DOMAIN again /\ again.pos = t.pos
        /\ again.kind = t.kind /\ again.data = t.data /\ again.hashed = t.hashed
        /\ again.draft = t.draft /\ again.writeOpen = t.writeOpen
    BY <2>1, <2>2 DEF IsSource, SourceFields
  <2> QED BY <2>1, <2>3 DEF IsSource
<1> HIDE DEF r
<1>4. ASSUME NEW t, IsSource(t), t.pos = 0, t.kind = s.kind, t.data = s.data,
             t.draft = s.draft, t.writeOpen = s.writeOpen,
             NEW d, Replaced(c, 1, t, d), r = [chain |-> d, ok |-> TRUE]
      PROVE  OpenKeeps(c, 1, r)
  <2>1. r.chain = d /\ r.ok = TRUE
    BY <1>4
  <2>2. c[1].kind # "crc" /\ Replaced(c, 1, t, d)
    BY <1>1, <1>4
  <2>3. /\ Sound(d) /\ SameShape(c, d)
        /\ d[1] = t /\ \A j \in 1..Len(c) : j # 1 => d[j] = c[j]
    BY <1>1, <1>4, <2>2, SourceChanged
  <2>4. \A j \in (1 + 1)..Len(c) : d[j] = c[j]
    BY <1>1, <2>3
  <2>5. d[1].pos = 0 /\ d[1].data = Content(c, 1)
    BY <1>2, <1>4, <2>3
  <2> QED BY <1>2, <2>1, <2>3, <2>4, <2>5 DEF OpenKeeps
<1>5. CASE s.kind = "memory"
  <2>1. r = [chain |-> [c EXCEPT ![1] = again], ok |-> TRUE]
    BY <1>5 DEF OpenLevel, r
  <2>2. Replaced(c, 1, again, [c EXCEPT ![1] = again])
    BY DEF Replaced
  <2> HIDE DEF again
  <2> QED BY <1>3, <1>4, <2>1, <2>2 DEF r
<1>6. CASE s.kind = "function" /\ ok
  <2> DEFINE t == Rewound(s)
  <2>1. /\ IsSource(t) /\ t.pos = 0 /\ t.kind = s.kind /\ t.data = s.data
        /\ t.draft = s.draft /\ t.writeOpen = s.writeOpen
    BY <1>1, RewoundKeeps, RewoundFields
  <2>2. r = [chain |-> [c EXCEPT ![1] = t], ok |-> TRUE]
    BY <1>6 DEF OpenLevel, r
  <2>3. Replaced(c, 1, t, [c EXCEPT ![1] = t])
    BY DEF Replaced
  <2> HIDE DEF t
  <2> QED BY <1>4, <2>1, <2>2, <2>3 DEF r
<1>7. CASE s.kind = "function" /\ ~ok
  <2>1. r.chain = c /\ r.ok = FALSE
    BY <1>7 DEF OpenLevel, r
  <2>2. SameShape(c, c)
    BY DEF SameShape
  <2> QED BY <2>1, <2>2 DEF OpenKeeps, r
<1> QED BY <1>1, <1>5, <1>6, <1>7

LEMMA OpenCrc ==
  ASSUME NEW c, Sound(c), NEW i \in 2..Len(c), OpenedAlone(c, i), c[i].kind = "crc",
         NEW ok, NEW lower
  PROVE  OpenKeeps(c, i, OpenLevel(c, i, ok, lower))
<1> DEFINE s == c[i]
           r == OpenLevel(c, i, ok, lower)
           from == IF AtStart(c, i - 1) THEN "start" ELSE "middle"
           t == CrcOpened(s, AtStart(c, i - 1))
           d == [c EXCEPT ![i] = t]
<1>1. /\ i \in 1..Len(c) /\ i - 1 \in 1..Len(c) /\ IsSource(s) /\ IsChain(c) /\ Layered(c)
      /\ Len(c) \in Nat
  BY DEF Sound, IsChain
<1>2. /\ IsSource(t) /\ t.pos = 0 /\ t.kind = s.kind /\ t.data = s.data
      /\ t.draft = s.draft /\ t.writeOpen = s.writeOpen
      /\ t.hashed = <<>> /\ t.crcComplete = FALSE /\ t.from = from
  <2> DEFINE u == Rewound(s)
  <2>1. /\ IsSource(u) /\ u.pos = 0 /\ u.kind = s.kind /\ u.data = s.data
        /\ u.draft = s.draft /\ u.writeOpen = s.writeOpen
    BY <1>1, RewoundKeeps, RewoundFields
  <2>2. t = [u EXCEPT !.hashed = <<>>, !.crcComplete = FALSE, !.from = from]
    BY DEF CrcOpened
  <2> HIDE DEF t, u, s, from
  <2>3. /\ SourceFields \subseteq DOMAIN t
        /\ t.pos = u.pos /\ t.kind = u.kind /\ t.data = u.data
        /\ t.draft = u.draft /\ t.writeOpen = u.writeOpen
        /\ t.hashed = <<>> /\ t.crcComplete = FALSE /\ t.from = from
    BY <2>1, <2>2 DEF IsSource, SourceFields
  <2>4. <<>> \in Seq(Bytes)
    OBVIOUS
  <2> QED BY <2>1, <2>3, <2>4 DEF IsSource
<1>3. r.chain = d /\ r.ok = TRUE
  BY DEF OpenLevel
<1>4. ASSUME AtStart(c, i - 1)
      PROVE  HasBytes(c, i - 1) = 1 /\ c[1].pos = 0 /\ Clean(c, i)
  <2> DEFINE k == HasBytes(c, i - 1)
  <2>1. c[k].kind # "compress" /\ c[k].pos = 0
    BY <1>4 DEF AtStart
  <2>2. k = 1 /\ Clean(c, i - 1)
    BY <1>1, <2>1, HasBytesIs
  <2>3. \A j \in 1..i : j = i \/ j \in 1..(i - 1)
    BY <1>1
  <2> QED BY <2>1, <2>2, <2>3 DEF Clean
<1> HIDE DEF r, t
<1>5. /\ \A j \in 1..Len(c) : j # i => d[j] = c[j]
      /\ d[i] = t
  <2>1. IsChain(c) /\ i \in 1..Len(c) /\ Replaced(c, i, t, d)
    BY <1>1 DEF Replaced
  <2> HIDE DEF d, t
  <2> QED BY ONLY <2>1, ChainExcept
<1>6. CrcInStep(d, i)
  <2>1. \A j \in 1..(i - 1) : j \in 1..Len(c) /\ d[j] = c[j]
    BY <1>1, <1>5
  <2>2. 1 \in 1..(i - 1) /\ c[1].pos \in Nat
    <3>1. IsSource(c[1])
      BY <1>1 DEF Sound
    <3> QED BY <3>1 DEF IsSource
  <2>3. d[1] = c[1] /\ d[i].pos = 0 /\ d[i].from = from /\ d[i].hashed = <<>> /\ ~d[i].crcComplete
    BY <1>2, <1>5, <2>1, <2>2
  <2>4. \A j \in 1..i : d[j].kind = c[j].kind
    <3>1. \A j \in 1..i : j = i \/ j \in 1..(i - 1)
      BY <1>1
    <3> QED BY <1>2, <1>5, <2>1, <3>1
  <2>5. Clean(d, i) <=> Clean(c, i)
    BY <2>4 DEF Clean
  <2>6. ASSUME from = "start"
        PROVE  /\ Clean(d, i) /\ Covers(d[i], d[1].data)
               /\ \A j \in 2..i : d[j].kind = "crc" => d[j].pos = d[1].pos
    <3>1. c[1].pos = 0 /\ Clean(c, i)
      BY <1>4, <2>6
    <3>2. ASSUME NEW j \in 2..(i - 1), d[j].kind = "crc" PROVE d[j].pos = 0
      <4>1. j \in 2..Len(c) /\ j \in 1..(i - 1) /\ \A m \in 1..j : m \in 1..i
        BY <1>1
      <4>2. CrcInStep(c, j) /\ d[j] = c[j] /\ IsSource(c[j])
        BY <2>1, <3>2, <4>1 DEF Sound
      <4>3. Clean(c, j)
        BY <3>1, <4>1 DEF Clean
      <4> QED BY <3>1, <4>2, <4>3 DEF CrcInStep, IsSource
    <3>3. \A j \in 2..i : j = i \/ j \in 2..(i - 1)
      BY <1>1
    <3>4. Covers(d[i], d[1].data)
      <4>1. c[1].data \in Seq(Bytes) /\ <<>> \in Seq(Bytes) /\ Len(<<>>) = 0
        BY <1>1, <2>1, <2>2 DEF Sound, IsSource
      <4>2. IsPrefix(<<>>, c[1].data)
        <5>1. SubSeq(c[1].data, 1, 0) = <<>>
          <6>1. 1 \in Int /\ 0 \in Int /\ 0 < 1
            OBVIOUS
          <6> QED BY ONLY <6>1, SubSeqEmpty
        <5>2. Len(c[1].data) \in Nat
          BY <4>1, LenProperties
        <5> DEFINE none == <<>>
                   data == c[1].data
        <5>3. /\ none \in Seq(Bytes) /\ Len(none) = 0 /\ data \in Seq(Bytes)
              /\ SubSeq(data, 1, 0) = none /\ Len(data) \in Nat
          BY <4>1, <5>1, <5>2
        <5> HIDE DEF none, data
        <5>4. Len(none) =< Len(data) /\ none = SubSeq(data, 1, Len(none))
          BY <5>3
        <5>5. IsPrefix(none, data)
          BY ONLY <5>3, <5>4, PrefixIs
        <5> QED BY <5>5 DEF none, data
      <4> QED BY <2>3, <4>2 DEF Covers
    <3> QED BY <2>3, <2>5, <3>1, <3>2, <3>3, <3>4
  <2> QED BY <2>2, <2>3, <2>6 DEF CrcInStep
<1>7. /\ Sound(d) /\ SameShape(c, d)
  <2>1. i = 1 => t.data = s.data
    BY <1>2
  <2>2. Replaced(c, i, t, d)
    BY DEF Replaced
  <2> HIDE DEF d
  <2> QED BY <1>1, <1>2, <1>6, <2>1, <2>2, SourceChanged
<1>8. \A j \in (i + 1)..Len(c) : d[j] = c[j]
  BY <1>1, <1>5
<1>9. ASSUME WholeAt(c, i)
      PROVE  d[HasBytes(c, i)].pos = 0 /\ d[HasBytes(c, i)].data = Content(c, i)
  <2>1. Answers(c, i, {"compress"}) = i
    <3>1. i \in 1..i /\ i \in Nat /\ \A j \in (i + 1)..i : c[j].kind \in {"compress"}
      OBVIOUS
    <3>2. c[1].kind \notin {"compress"} /\ c[i].kind \notin {"compress"}
      BY <1>1 DEF Layered
    <3> QED BY ONLY <3>1, <3>2, AnswersOnly
  <2>2. c[1].pos = 0 /\ Clean(c, i)
    BY <1>4, <1>9, <2>1 DEF WholeAt
  <2>3. HasBytes(c, i) = 1
    <3> DEFINE k == HasBytes(c, i)
    <3>1. k \in 1..i /\ (k # 1 => c[k].kind = "compress")
      BY <1>1, HasBytesIs
    <3> QED BY <2>2, <3>1 DEF Clean
  <2>4. Content(c, i) = c[1].data
    BY <1>1, <2>2, ContentOfClean
  <2>5. d[1] = c[1]
    BY <1>1, <1>5
  <2> QED BY <2>2, <2>3, <2>4, <2>5
<1> HIDE DEF d
<1> QED BY <1>3, <1>7, <1>8, <1>9 DEF OpenKeeps, r

\* A pass-through layer that is opened reads on from where the source below is.
LEMMA OpenPass ==
  ASSUME NEW c, Sound(c), NEW i \in 2..Len(c), OpenedAlone(c, i), c[i].kind = "pass",
         NEW ok, NEW lower
  PROVE  OpenKeeps(c, i, OpenLevel(c, i, ok, lower))
<1> DEFINE r == OpenLevel(c, i, ok, lower)
<1>1. /\ i \in 1..Len(c) /\ i - 1 \in 1..Len(c) /\ IsChain(c) /\ Layered(c)
      /\ Len(c) \in Nat
  BY DEF Sound, IsChain
<1>2. r.chain = c /\ r.ok = TRUE /\ SameShape(c, c)
  BY DEF OpenLevel, SameShape
<1>3. ASSUME WholeAt(c, i)
      PROVE  c[HasBytes(c, i)].pos = 0 /\ c[HasBytes(c, i)].data = Content(c, i)
  <2>1. Answers(c, i, {"compress"}) = i
    <3>1. i \in 1..i /\ i \in Nat /\ \A j \in (i + 1)..i : c[j].kind \in {"compress"}
      OBVIOUS
    <3>2. c[1].kind \notin {"compress"} /\ c[i].kind \notin {"compress"}
      BY <1>1 DEF Layered
    <3> QED BY ONLY <3>1, <3>2, AnswersOnly
  <2> DEFINE k == HasBytes(c, i - 1)
  <2>2. c[k].kind # "compress" /\ c[k].pos = 0
    BY <1>3, <2>1 DEF AtStart, WholeAt
  <2>3. k = 1 /\ Clean(c, i - 1)
    BY <1>1, <2>2, HasBytesIs
  <2>4. Clean(c, i)
    <3>1. \A j \in 1..i : j = i \/ j \in 1..(i - 1)
      BY <1>1
    <3> QED BY <2>3, <3>1 DEF Clean
  <2>5. HasBytes(c, i) = 1
    <3> DEFINE m == HasBytes(c, i)
    <3>1. m \in 1..i /\ (m # 1 => c[m].kind = "compress")
      BY <1>1, HasBytesIs
    <3> QED BY <2>4, <3>1 DEF Clean
  <2>6. Content(c, i) = c[1].data
    BY <1>1, <2>4, ContentOfClean
  <2> QED BY <2>2, <2>3, <2>5, <2>6
<1> HIDE DEF r
<1> QED BY <1>2, <1>3 DEF OpenKeeps, r

LEMMA OpenCompress ==
  ASSUME NEW c, Sound(c), NEW i \in 2..Len(c), OpenedAlone(c, i), c[i].kind = "compress",
         NEW ok \in BOOLEAN, NEW lower, OpenKeeps(c, i - 1, lower)
  PROVE  OpenKeeps(c, i, OpenLevel(c, i, ok, lower))
<1> DEFINE r == OpenLevel(c, i, ok, lower)
           b == lower.chain
           all == Drained(b, i - 1, ok)
           data == Compressed(all.got)
           done == lower.ok /\ all.ok
           s == b[i]
           e == IF lower.ok THEN all.chain ELSE b
           t == IF done THEN [Rewound(s) EXCEPT !.data = data, !.size = Len(data)]
                ELSE Rewound(s)
           d == [e EXCEPT ![i] = t]
<1>1. /\ i \in 1..Len(c) /\ i - 1 \in 1..Len(c) /\ IsChain(c) /\ Layered(c)
      /\ Len(c) \in Nat /\ i - 1 + 1 = i
  BY DEF Sound, IsChain
<1>2. /\ Sound(b) /\ SameShape(c, b) /\ IsChain(b) /\ Layered(b) /\ Len(b) = Len(c)
      /\ \A j \in i..Len(c) : b[j] = c[j]
      /\ lower.ok \in BOOLEAN
  BY <1>1 DEF OpenKeeps, Sound, SameShape
<1>3. /\ Sound(all.chain) /\ SameShape(b, all.chain)
      /\ \A j \in i..Len(c) : all.chain[j] = b[j]
      /\ all.got \in Seq(Bytes) /\ all.ok \in BOOLEAN
      /\ all.ok /\ b[HasBytes(b, i - 1)].pos = 0 => all.got = b[HasBytes(b, i - 1)].data
  <2>1. i - 1 \in 1..Len(b) /\ b[i - 1 + 1].kind = "compress"
    BY <1>1, <1>2
  <2> DEFINE m == i - 1
  <2>2. m \in 1..Len(b) /\ b[m + 1].kind = "compress" /\ m + 1 = i
    BY <1>1, <1>2, <2>1
  <2> HIDE DEF b, m
  <2>3. LET w == b[HasBytes(b, m)]
            drain == Drained(b, m, ok)
        IN  /\ Sound(drain.chain) /\ SameShape(b, drain.chain)
            /\ \A j \in (m + 1)..Len(b) : drain.chain[j] = b[j]
            /\ drain.got \in Seq(Bytes) /\ drain.ok \in BOOLEAN
            /\ drain.ok /\ w.pos = 0 => drain.got = w.data
    BY <1>2, <2>2, DrainedKeeps
  <2> QED BY <1>2, <2>2, <2>3 DEF m
<1> HIDE DEF b, all
<1>4. /\ Sound(e) /\ SameShape(c, e) /\ IsChain(e) /\ Len(e) = Len(c)
      /\ \A j \in i..Len(c) : e[j] = c[j]
  <2>1. SameShape(c, all.chain)
    BY <1>2, <1>3, SameShapeChain
  <2>2. Sound(e) /\ SameShape(c, e) /\ \A j \in i..Len(c) : e[j] = c[j]
    BY <1>2, <1>3, <2>1
  <2> HIDE DEF e
  <2> QED BY <2>2 DEF Sound, SameShape
<1>5. s = c[i] /\ IsSource(s) /\ e[i] = s
  BY <1>1, <1>2, <1>4 DEF Sound
<1>6. data \in Seq(Bytes) /\ Len(data) \in Nat
  <2>1. <<Magic>> \in Seq(Bytes)
    BY ContentAssumption
  <2>2. data \in Seq(Bytes)
    BY <1>3, <2>1, ConcatProperties DEF Compressed
  <2> QED BY <2>2, LenProperties
<1>7. /\ r.ok = done
      /\ r.chain = d
  <2>1. CASE done
    <3>1. r = [chain |-> [all.chain EXCEPT ![i] =
                            [Rewound(@) EXCEPT !.data = data, !.size = Len(data)]],
               ok |-> TRUE]
      BY <2>1 DEF OpenLevel, b, all
    <3>2. all.chain = e /\ e[i] = s
      BY <1>5, <2>1
    <3> HIDE DEF e, s, data, r
    <3> QED BY <2>1, <3>1, <3>2
  <2>2. CASE ~done
    <3>1. r = [chain |-> [(IF lower.ok THEN all ELSE lower).chain EXCEPT ![i] = Rewound(@)],
               ok |-> FALSE]
      BY <2>2 DEF OpenLevel, b, all
    <3>2. (IF lower.ok THEN all ELSE lower).chain = e /\ e[i] = s
      BY <1>5 DEF b
    <3> HIDE DEF e, s, data, r
    <3> QED BY <2>2, <3>1, <3>2
  <2> QED BY <2>1, <2>2
<1> HIDE DEF r, e, data
<1>8. /\ IsSource(t) /\ t.pos = 0 /\ t.kind = s.kind
      /\ t.draft = s.draft /\ t.writeOpen = s.writeOpen
      /\ done => t.data = data
  <2> DEFINE u == Rewound(s)
             full == [u EXCEPT !.data = data, !.size = Len(data)]
  <2>1. /\ IsSource(u) /\ u.pos = 0 /\ u.kind = s.kind /\ u.data = s.data
        /\ u.draft = s.draft /\ u.writeOpen = s.writeOpen
    BY <1>5, RewoundKeeps, RewoundFields
  <2>2. t = IF done THEN full ELSE u
    OBVIOUS
  <2>3. /\ IsSource(full) /\ full.pos = 0 /\ full.kind = s.kind
        /\ full.draft = s.draft /\ full.writeOpen = s.writeOpen /\ full.data = data
    <3>1. full = [u EXCEPT !.data = data, !.size = Len(data)]
      OBVIOUS
    <3> HIDE DEF u, full, s
    <3>2. /\ SourceFields \subseteq DOMAIN full /\ full.pos = 0 /\ full.kind = s.kind
          /\ full.draft = s.draft /\ full.writeOpen = s.writeOpen
          /\ full.data = data /\ full.hashed = u.hashed
      BY <2>1, <3>1 DEF IsSource, SourceFields
    <3> QED BY <1>6, <2>1, <3>2 DEF IsSource
  <2> HIDE DEF t, u, full, done, s
  <2> QED BY <2>1, <2>2, <2>3
<1> HIDE DEF t
<1>9. /\ Sound(d) /\ SameShape(e, d)
      /\ d[i] = t /\ \A j \in 1..Len(e) : j # i => d[j] = e[j]
  <2>1. OpenedAlone(e, i)
    <3>1. i # Len(c) => i + 1 \in i..Len(c)
      BY <1>1
    <3> QED BY <1>4, <3>1 DEF OpenedAlone
  <2>2. e[i].kind # "crc" /\ i # 1 /\ i \in 1..Len(e)
    BY <1>1, <1>4, <1>5
  <2>3. Replaced(e, i, t, d)
    BY DEF Replaced
  <2> HIDE DEF d, s
  <2> QED BY <1>4, <1>5, <1>8, <2>1, <2>2, <2>3, SourceChanged
<1>10. SameShape(c, d)
  <2> HIDE DEF d
  <2> QED BY <1>4, <1>9, SameShapeChain
<1>11. \A j \in (i + 1)..Len(c) : d[j] = c[j]
  BY <1>1, <1>4, <1>9
<1>12. HasBytes(c, i) = i
  <2> DEFINE k == HasBytes(c, i)
  <2>1. k \in 1..i /\ \A j \in (k + 1)..i : c[j].kind \in Relays
    BY <1>1, HasBytesIs
  <2> HIDE DEF k
  <2>2. ~(k < i)
    <3>1. k < i => i \in (k + 1)..i
      BY <2>1
    <3> QED BY <2>1, <3>1 DEF Relays
  <2>3. k = i
    BY <2>1, <2>2
  <2> QED BY <2>3 DEF k
<1>13. ASSUME done, WholeAt(c, i) PROVE d[i].pos = 0 /\ d[i].data = Content(c, i)
  <2>1. Answers(c, i, {"compress"}) = Answers(c, i - 1, {"compress"})
    <3> DEFINE k == Answers(c, i - 1, {"compress"})
    <3>1. i - 1 \in Nat /\ i - 1 > 0 /\ c[1].kind \notin {"compress"}
      BY <1>1 DEF Layered
    <3>2. /\ k \in 1..(i - 1) /\ c[k].kind \notin {"compress"}
          /\ \A j \in (k + 1)..(i - 1) : c[j].kind \in {"compress"}
      BY ONLY <3>1, AnswersIs
    <3> HIDE DEF k
    <3>3. i \in Nat /\ k \in 1..i /\ \A j \in (k + 1)..i : c[j].kind \in {"compress"}
      <4>1. \A j \in (k + 1)..i : j = i \/ j \in (k + 1)..(i - 1)
        BY <3>2
      <4> QED BY <3>2, <4>1
    <3>4. Answers(c, i, {"compress"}) = k
      BY ONLY <3>1, <3>2, <3>3, AnswersOnly
    <3> QED BY <3>4 DEF k
  <2>2. WholeAt(c, i - 1)
    BY <1>13, <2>1 DEF WholeAt
  <2>3. HasBytes(b, i - 1) = HasBytes(c, i - 1)
    <3>1. \A j \in 1..Len(c) : b[j].kind = c[j].kind
      BY <1>2 DEF SameShape
    <3> QED BY <1>1, <3>1, HasBytesOnly
  <2>4. /\ b[HasBytes(b, i - 1)].pos = 0
        /\ b[HasBytes(b, i - 1)].data = Content(c, i - 1)
    BY <1>13, <2>2, <2>3 DEF OpenKeeps, b
  <2>5. all.got = Content(c, i - 1)
    BY <1>3, <1>13, <2>4
  <2>6. Content(c, i) = Compressed(Content(c, i - 1))
    <3>1. Content(c, i) = ContentStep(c, i, Content(c, i - 1))
      BY <1>1, ContentLevels
    <3> QED BY <3>1 DEF ContentStep
  <2> HIDE DEF d, done
  <2> QED BY <1>8, <1>9, <1>13, <2>5, <2>6 DEF data
<1>14. done \in BOOLEAN
  OBVIOUS
<1> HIDE DEF d, done
<1> QED BY <1>7, <1>9, <1>10, <1>11, <1>12, <1>13, <1>14 DEF OpenKeeps, r

LEMMA OpeningKeeps ==
  ASSUME NEW c, Sound(c), NEW ok \in BOOLEAN
  PROVE  OpenKeeps(c, Len(c), Opening(c, ok))
<1> DEFINE n == Len(c)
<1>1. n \in Nat /\ n > 0 /\ IsChain(c) /\ Layered(c)
  BY DEF Sound, IsChain
<1>2. PICK open : /\ Opening(c, ok) = open[n]
                  /\ \A i \in 1..n : open[i] = OpenLevel(c, i, ok, open[i - 1])
  BY <1>1, OpenLevels
<1> DEFINE S == {i \in 0..n : i # 0 /\ OpenedAlone(c, i) => OpenKeeps(c, i, open[i])}
<1>3. 0 \in S
  BY <1>1
<1>4. ASSUME NEW i \in 1..n, i - 1 \in S PROVE i \in S
  <2> SUFFICES ASSUME OpenedAlone(c, i) PROVE OpenKeeps(c, i, OpenLevel(c, i, ok, open[i - 1]))
    BY <1>2
  <2>1. CASE i = 1
    BY <2>1, OpenLowest
  <2>2. CASE i # 1
    <3>1. i \in 2..Len(c) /\ i - 1 # 0 /\ i - 1 + 1 = i
      BY <1>1, <2>2
    <3>2. c[i].kind \in Kinds
      BY <1>1, <3>1 DEF Layered
    <3>3. CASE c[i].kind = "crc"
      BY <3>1, <3>3, OpenCrc
    <3>4. CASE c[i].kind = "pass"
      BY <3>1, <3>4, OpenPass
    <3>5. CASE c[i].kind = "compress"
      <4>1. OpenKeeps(c, i - 1, open[i - 1])
        BY <1>4, <3>1, <3>5 DEF OpenedAlone
      <4> QED BY <3>1, <3>5, <4>1, OpenCompress
    <3> QED BY <3>2, <3>3, <3>4, <3>5 DEF Kinds
  <2> QED BY <2>1, <2>2
<1>5. \A i \in 0..n : i \in S
  <2> HIDE DEF S, n
  <2> QED BY <1>1, <1>3, <1>4, Induct
<1>6. n \in S /\ n # 0
  <2> HIDE DEF S, n
  <2> QED BY <1>1, <1>5
<1>7. OpenedAlone(c, n)
  BY DEF OpenedAlone
<1> QED BY <1>2, <1>6, <1>7
----------------------------------------------------------------------------
(* Seeking, and what creates a chain or puts a layer on it.                *)

\* What a seek (r) leaves as it was.
SeekKeeps(c, r) ==
  /\ Sound(r.chain) /\ SameShape(c, r.chain)
  /\ r.ok \in BOOLEAN
  /\ ~r.ok => r.chain = c

LEMMA SeekingKeeps ==
  ASSUME NEW c, Sound(c), NEW t \in Int \X {"set", "cur", "end", "bad"}
  PROVE  SeekKeeps(c, Seeking(c, t[1], t[2]))
<1> DEFINE to == t[1]
           whence == t[2]
           r == Seeking(c, to, whence)
           n == Len(c)
           len == Len(c[1].data)
           p == IF c[1].kind = "memory" THEN MemorySeek(c[1], to, whence)
                ELSE FunctionSeek(c[1], to, whence)
           Moved(s) ==
             CASE s.kind = "memory" -> [s EXCEPT !.pos = p, !.eof = p >= Len(s.data)]
               [] s.kind \in {"function", "crc"} -> [s EXCEPT !.pos = p]
               [] OTHER -> s
           d == [j \in 1..n |-> Moved(c[j])]
<1>1. /\ n \in Nat /\ n > 0 /\ 1 \in 1..n /\ IsChain(c) /\ Layered(c)
      /\ \A j \in 1..n : IsSource(c[j])
  BY DEF Sound, IsChain
<1>2. /\ c[1].kind \in {"memory", "function"} /\ c[1].pos \in Nat
      /\ len \in Nat /\ to \in Int
      /\ \A j \in 2..n : c[j].kind \in {"crc", "compress", "pass"}
  BY <1>1, LenProperties DEF Layered, Kinds, IsSource
<1>3. p = Failed \/ (p \in Nat /\ p =< len)
  <2>1. MemorySeek(c[1], to, whence) = Failed \/ MemorySeek(c[1], to, whence) \in 0..len
    BY <1>2 DEF MemorySeek, Low, Failed
  <2>2. FunctionSeek(c[1], to, whence) = Failed \/ FunctionSeek(c[1], to, whence) \in 0..len
    BY <1>2 DEF FunctionSeek, SeekComputeOffset, Failed
  <2> QED BY <1>2, <2>1, <2>2
<1>4. r = IF p = Failed THEN [chain |-> c, ok |-> FALSE] ELSE [chain |-> d, ok |-> TRUE]
  BY DEF Seeking
<1> HIDE DEF r, p
<1>5. CASE p = Failed
  <2>1. r.chain = c /\ r.ok = FALSE /\ SameShape(c, c)
    BY <1>4, <1>5 DEF SameShape
  <2> QED BY <2>1 DEF SeekKeeps, r
<1>6. CASE p # Failed
  <2>1. r.chain = d /\ r.ok = TRUE
    <3> HIDE DEF d
    <3> QED BY <1>4, <1>6
  <2>2. p \in Nat /\ p =< len
    BY <1>3, <1>6
  <2>3. IsChain(d) /\ Len(d) = n
    <3>1. d = [j \in 1..n |-> d[j]]
      OBVIOUS
    <3> HIDE DEF d, n
    <3> QED BY <1>1, <3>1, ChainOf
  <2>4. \A j \in 1..n : d[j] = Moved(c[j])
    OBVIOUS
  <2> HIDE DEF d
  <2>5. ASSUME NEW j \in 1..n
        PROVE  /\ IsSource(d[j]) /\ d[j].kind = c[j].kind /\ d[j].data = c[j].data
               /\ d[j].draft = c[j].draft /\ d[j].writeOpen = c[j].writeOpen
               /\ d[j].from = c[j].from /\ d[j].hashed = c[j].hashed
               /\ d[j].crcComplete = c[j].crcComplete /\ d[j].size = c[j].size
               /\ j = 1 \/ c[j].kind = "crc" => d[j].pos = p
    <3> DEFINE s == c[j]
               e == d[j]
               end == p >= Len(s.data)
    <3>1. IsSource(s) /\ e = Moved(s)
      BY <1>1, <2>4
    <3>2. j = 1 \/ j \in 2..n
      BY <1>1
    <3>3. /\ SourceFields \subseteq DOMAIN s
          /\ s.kind \in {"memory", "function"} <=> j = 1
          /\ j = 1 => len = Len(s.data)
      BY <1>2, <3>1, <3>2 DEF IsSource
    <3>4. \/ s.kind = "memory" /\ e = [s EXCEPT !.pos = p, !.eof = end]
          \/ s.kind \in {"function", "crc"} /\ e = [s EXCEPT !.pos = p]
          \/ s.kind \in {"compress", "pass"} /\ e = s
      <4>1. s.kind \in {"memory", "function", "crc", "compress", "pass"}
        BY <1>2, <3>2
      <4> HIDE DEF s, e
      <4>2. CASE s.kind = "memory"
        BY <3>1, <4>2
      <4>3. CASE s.kind \in {"function", "crc"}
        BY <3>1, <4>3
      <4>4. CASE s.kind \in {"compress", "pass"}
        BY <3>1, <4>4
      <4> QED BY <4>1, <4>2, <4>3, <4>4
    <3>5. j = 1 \/ s.kind = "crc" => s.kind \in {"memory", "function", "crc"}
      BY <3>3
    <3> HIDE DEF s, e, end
    <3>6. /\ SourceFields \subseteq DOMAIN e
          /\ e.kind = s.kind /\ e.data = s.data /\ e.draft = s.draft
          /\ e.writeOpen = s.writeOpen /\ e.from = s.from /\ e.hashed = s.hashed
          /\ e.crcComplete = s.crcComplete /\ e.size = s.size
          /\ s.kind \in {"memory", "function", "crc"} => e.pos = p
          /\ s.kind \in {"compress", "pass"} => e.pos = s.pos
      <4>1. CASE s.kind = "memory"
        BY <3>3, <3>4, <4>1 DEF SourceFields
      <4>2. CASE s.kind \in {"function", "crc"}
        BY <3>3, <3>4, <4>2 DEF SourceFields
      <4>3. CASE s.kind \in {"compress", "pass"}
        BY <3>3, <3>4, <4>3 DEF SourceFields
      <4> QED BY <3>4, <4>1, <4>2, <4>3
    <3>7. IsSource(e)
      <4>1. e.pos \in Nat /\ (e.kind \notin {"crc", "pass"} => e.pos =< Len(e.data))
        BY <2>2, <3>1, <3>3, <3>4, <3>6 DEF IsSource
      <4> QED BY <3>1, <3>6, <4>1 DEF IsSource
    <3> QED BY <3>5, <3>6, <3>7 DEF s, e
  <2>6. SameShape(c, d)
    BY <1>1, <2>3, <2>5 DEF SameShape
  <2>7. ASSUME NEW i \in 2..n, c[i].kind = "crc" PROVE CrcInStep(d, i)
    <3>1. i \in 1..n /\ CrcInStep(c, i) /\ \A j \in 2..i : j \in 1..n
      BY <1>1, <2>7 DEF Sound
    <3>2. Clean(d, i) <=> Clean(c, i)
      BY <1>1, <2>5, <3>1, CleanSame
    <3>3. d[i].pos = p /\ d[1].pos = p /\ \A j \in 2..i : d[j].kind = "crc" => d[j].pos = p
      BY <1>1, <2>5, <2>7, <3>1
    <3>4. /\ d[i].from = c[i].from /\ d[i].hashed = c[i].hashed
          /\ d[i].crcComplete = c[i].crcComplete /\ d[i].size = c[i].size
          /\ d[1].data = c[1].data
      BY <1>1, <2>5, <3>1
    <3>5. d[i].from = "start" => Clean(d, i) /\ Covers(d[i], d[1].data)
      BY <3>1, <3>2, <3>4 DEF CrcInStep, Covers
    <3> QED BY <2>2, <3>3, <3>5 DEF CrcInStep
  <2>8. Sound(d)
    BY <2>3, <2>5, <2>6, <2>7, StaysSound
  <2> QED BY <2>1, <2>6, <2>8 DEF SeekKeeps, r
<1> QED BY <1>5, <1>6

LEMMA OneSound ==
  ASSUME NEW c, IsChain(c), Len(c) = 1, IsSource(c[1]), c[1].kind \in {"memory", "function"}
  PROVE  Sound(c)
<1>1. \A j \in 1..1 : j = 1
  OBVIOUS
<1>2. 2..1 = {}
  OBVIOUS
<1> QED BY <1>1, <1>2 DEF Sound, Layered

IsFresh(s, kind, data) ==
  /\ IsSource(s)
  /\ s.kind = kind /\ s.data = data /\ s.pos = 0 /\ s.size = Len(data)
  /\ s.draft = <<>> /\ s.writeOpen = FALSE /\ s.from = "unopened"

LEMMA NewSourceIs ==
  ASSUME NEW kind, NEW data \in Seq(Bytes), NEW mask
  PROVE  IsFresh(NewSource(kind, data, mask), kind, data)
<1> DEFINE s == NewSource(kind, data, mask)
<1>1. /\ SourceFields \subseteq DOMAIN s
      /\ s.kind = kind /\ s.data = data /\ s.pos = 0 /\ s.size = Len(data)
      /\ s.draft = <<>> /\ s.writeOpen = FALSE /\ s.from = "unopened"
      /\ s.hashed = <<>>
  BY DEF NewSource, SourceFields
<1>2. Len(data) \in Nat /\ <<>> \in Seq(Bytes)
  BY LenProperties
<1> HIDE DEF s
<1> QED BY <1>1, <1>2 DEF IsSource, IsFresh, s

LEMMA OneSource ==
  ASSUME NEW s
  PROVE  IsChain(<<s>>) /\ Len(<<s>>) = 1 /\ <<s>>[1] = s /\ <<s>> # <<>>
<1>1. Len(<<s>>) = 1 /\ <<s>>[1] = s /\ <<s>> # <<>>
  OBVIOUS
<1>2. <<s>> = [j \in 1..1 |-> <<s>>[j]]
  OBVIOUS
<1> QED BY <1>1, <1>2 DEF IsChain

LEMMA ChainSeq ==
  ASSUME NEW c, IsChain(c)
  PROVE  c \in Seq({c[j] : j \in 1..Len(c)})
<1> DEFINE n == Len(c)
           S == {c[j] : j \in 1..n}
<1>1. n \in Nat /\ c = [j \in 1..n |-> c[j]]
  BY DEF IsChain
<1> HIDE DEF n
<1>2. c \in [1..n -> S]
  BY <1>1
<1> HIDE DEF S
<1>3. c \in Seq(S)
  BY <1>1, <1>2, SeqDef
<1> QED BY <1>3 DEF n, S

LEMMA ChainAppend ==
  ASSUME NEW c, IsChain(c), NEW s
  PROVE  LET d == Append(c, s)
         IN  /\ IsChain(d) /\ Len(d) = Len(c) + 1
             /\ d[Len(c) + 1] = s /\ \A j \in 1..Len(c) : d[j] = c[j]
<1> DEFINE n == Len(c)
           S == {c[j] : j \in 1..n} \cup {s}
           d == Append(c, s)
<1>1. c \in Seq({c[j] : j \in 1..n}) /\ n \in Nat
  BY ChainSeq DEF IsChain
<1>2. c \in Seq(S) /\ s \in S
  <2> DEFINE T == {c[j] : j \in 1..n}
  <2>1. T \subseteq S /\ c \in Seq(T) /\ s \in S
    BY <1>1
  <2> HIDE DEF S, T
  <2> QED BY <2>1
<1> HIDE DEF S
<1>3. /\ d \in Seq(S) /\ Len(d) = n + 1
      /\ \A j \in 1..n : d[j] = c[j]
      /\ d[n + 1] = s
  BY <1>2, AppendProperties
<1>4. d = [j \in 1..Len(d) |-> d[j]] /\ Len(d) \in Nat
  <2> HIDE DEF d, n
  <2>1. Len(d) \in Nat /\ d \in [1..Len(d) -> S]
    BY <1>3, LenProperties
  <2> QED BY <2>1
<1> QED BY <1>3, <1>4 DEF IsChain

LEMMA QueryKeeps ==
  ASSUME NEW c, Sound(c)
  PROVE  LET d == QuerySupports(c, Len(c))
         IN  /\ Sound(d) /\ SameShape(c, d)
             /\ \A j \in 1..Len(c) : d[j].data = c[j].data /\ d[j].pos = c[j].pos
<1> DEFINE n == Len(c)
           d == QuerySupports(c, n)
           mask == Supported(c[n])
           s == [c[n] EXCEPT !.supports = mask]
<1>1. /\ n \in Nat /\ n > 0 /\ n \in 1..n /\ IsChain(c) /\ Layered(c)
      /\ \A j \in 1..n : IsSource(c[j])
  BY DEF Sound, IsChain
<1>2. Replaced(c, n, s, d)
  <2>1. d = [c EXCEPT ![n].supports = mask]
    BY DEF QuerySupports
  <2>2. [c EXCEPT ![n].supports = mask] = [c EXCEPT ![n] = s]
    OBVIOUS
  <2> HIDE DEF s, mask, n, d
  <2> QED BY <2>1, <2>2 DEF Replaced
<1>3. /\ IsSource(s) /\ s.kind = c[n].kind /\ s.data = c[n].data /\ s.pos = c[n].pos
      /\ s.draft = c[n].draft /\ s.writeOpen = c[n].writeOpen
      /\ s.from = c[n].from /\ s.hashed = c[n].hashed
      /\ s.crcComplete = c[n].crcComplete /\ s.size = c[n].size
  <2> DEFINE o == c[n]
  <2>1. IsSource(o) /\ s = [o EXCEPT !.supports = mask]
    BY <1>1
  <2> HIDE DEF o, s, mask
  <2>2. /\ SourceFields \subseteq DOMAIN s
        /\ s.kind = o.kind /\ s.data = o.data /\ s.pos = o.pos
        /\ s.draft = o.draft /\ s.writeOpen = o.writeOpen
        /\ s.from = o.from /\ s.hashed = o.hashed
        /\ s.crcComplete = o.crcComplete /\ s.size = o.size
    BY <2>1 DEF IsSource, SourceFields
  <2> QED BY <2>1, <2>2 DEF IsSource, o
<1> HIDE DEF d, s
<1>4. /\ d[n] = s /\ \A j \in 1..n : j # n => d[j] = c[j]
  <2>1. n \in 1..Len(c)
    BY <1>1
  <2> HIDE DEF n
  <2>2. d[n] = s /\ \A j \in 1..Len(c) : j # n => d[j] = c[j]
    BY ONLY <1>1, <1>2, <2>1, ChainExcept
  <2> QED BY <2>2 DEF n
<1>5. ASSUME NEW j \in 1..n
      PROVE  /\ d[j].kind = c[j].kind /\ d[j].data = c[j].data /\ d[j].pos = c[j].pos
             /\ d[j].from = c[j].from /\ d[j].hashed = c[j].hashed
             /\ d[j].crcComplete = c[j].crcComplete /\ d[j].size = c[j].size
  BY <1>3, <1>4
<1>6. c[n].kind = "crc" => CrcInStep(d, n)
  <2> SUFFICES ASSUME c[n].kind = "crc" PROVE CrcInStep(d, n)
    OBVIOUS
  <2>1. n \in 2..n /\ CrcInStep(c, n) /\ \A j \in 2..n : j \in 1..n
    BY <1>1 DEF Sound, Layered
  <2>2. Clean(d, n) <=> Clean(c, n)
    BY <1>1, <1>5, CleanSame
  <2>3. 1 \in 1..n
    BY <1>1
  <2> QED BY <1>1, <1>5, <2>1, <2>2, <2>3 DEF CrcInStep, Covers
<1>7. Sound(d) /\ SameShape(c, d)
  <2>1. OpenedAlone(c, n) /\ n \in 1..Len(c)
    BY <1>1 DEF OpenedAlone
  <2> HIDE DEF n
  <2>2. n = 1 => s.data = c[n].data
    BY <1>3
  <2> QED BY <1>2, <1>3, <1>6, <2>1, <2>2, SourceChanged
<1> QED BY <1>5, <1>7 DEF d

\* A chain (d) with one layer more.
Covered(c, d) ==
  /\ Sound(d) /\ Len(d) = Len(c) + 1 /\ d # <<>>
  /\ \A j \in 1..Len(c) : d[j] = c[j]
  /\ d[Len(d)].writeOpen = FALSE /\ d[Len(d)].draft = <<>>

\* A layer that is put over a chain has read nothing.
LEMMA LayerSound ==
  ASSUME NEW c, Sound(c), NEW kind \in Kinds, NEW mask
  PROVE  Covered(c, Append(c, NewLayer(kind, mask)))
<1> DEFINE n == Len(c)
           s == NewLayer(kind, mask)
           d == Append(c, s)
<1>1. /\ n \in Nat /\ n > 0 /\ IsChain(c) /\ Layered(c)
      /\ \A j \in 1..n : IsSource(c[j])
  BY DEF Sound, IsChain
<1>2. IsChain(d) /\ Len(d) = n + 1 /\ d[n + 1] = s /\ \A j \in 1..n : d[j] = c[j]
  BY <1>1, ChainAppend
<1>3. /\ IsSource(s) /\ s.kind = kind /\ s.pos = 0 /\ s.from = "unopened"
      /\ s.draft = <<>> /\ s.writeOpen = FALSE
  <2> DEFINE none == <<>>
  <2>1. none \in Seq(Bytes) /\ s = NewSource(kind, none, mask)
    BY DEF NewLayer
  <2> HIDE DEF s, none
  <2>2. IsFresh(s, kind, none)
    BY <2>1, NewSourceIs
  <2> QED BY <2>2 DEF IsFresh
<1> HIDE DEF d, s
<1>4. \A j \in 1..(n + 1) : IsSource(d[j])
  <2>1. \A j \in 1..(n + 1) : j = n + 1 \/ j \in 1..n
    BY <1>1
  <2> QED BY <1>1, <1>2, <1>3, <2>1
<1>5. Layered(d)
  <2>1. 1 \in 1..n /\ \A j \in 2..(n + 1) : j = n + 1 \/ (j \in 2..n /\ j \in 1..n)
    BY <1>1
  <2> QED BY <1>1, <1>2, <1>3, <2>1 DEF Layered
<1>6. ASSUME NEW i \in 2..(n + 1), d[i].kind = "crc" PROVE CrcInStep(d, i)
  <2>1. CASE i = n + 1
    <3>1. d[1] = c[1] /\ c[1].pos \in Nat
      BY <1>1, <1>2 DEF IsSource
    <3> QED BY <1>2, <1>3, <2>1, <3>1 DEF CrcInStep
  <2>2. CASE i # n + 1
    <3>1. i \in 2..n /\ \A j \in 1..i : j \in 1..n
      BY <1>1, <2>2
    <3>2. \A j \in 1..i : d[j] = c[j]
      BY <1>2, <3>1
    <3>3. 1 \in 1..i /\ i \in 1..i /\ \A j \in 2..i : j \in 1..i
      OBVIOUS
    <3>4. d[1] = c[1] /\ d[i] = c[i] /\ \A j \in 2..i : d[j] = c[j]
      BY <3>2, <3>3
    <3>5. CrcInStep(c, i)
      BY <1>6, <3>1, <3>4 DEF Sound
    <3>6. Clean(d, i) <=> Clean(c, i)
      BY <3>2 DEF Clean
    <3> QED BY ONLY <3>4, <3>5, <3>6 DEF CrcInStep
  <2> QED BY <2>1, <2>2
<1>7. Sound(d) /\ d # <<>>
  <2>1. Len(d) > 0
    BY <1>1, <1>2
  <2>2. Len(<<>>) = 0
    OBVIOUS
  <2> QED BY <1>2, <1>4, <1>5, <1>6, <2>1, <2>2 DEF Sound
<1>8. Covered(c, d)
  BY <1>2, <1>3, <1>7 DEF Covered, n
<1> QED BY <1>8 DEF d, s
----------------------------------------------------------------------------
(* What is delivered.                                                      *)

LEMMA UnreadDelivers ==
  ASSUME NEW c
  PROVE  Delivering(c, Unread)
<1>1. Unread \in [got : Seq(Bytes), whole : BOOLEAN] /\ ~Unread.whole
  BY DEF Unread
<1> QED BY <1>1 DEF Delivering

LEMMA DeliveringSame ==
  ASSUME NEW c, NEW d, NEW w, Sound(c), Sound(d), SameShape(c, d), Delivering(c, w),
         d[HasBytes(c, Len(c))].data = c[HasBytes(c, Len(c))].data,
         d[HasBytes(c, Len(c))].pos = c[HasBytes(c, Len(c))].pos
  PROVE  Delivering(d, w)
<1>1. IsChain(c) /\ IsChain(d) /\ Layered(c) /\ Len(c) \in Nat /\ Len(c) > 0 /\ Len(d) = Len(c)
  BY DEF Sound, IsChain, SameShape
<1>2. Len(c) \in 0..Len(c) /\ Len(c) \in 1..Len(c)
  BY <1>1
<1>3. Content(d, Len(d)) = Content(c, Len(c))
  BY <1>1, <1>2, ContentSame
<1>4. HasBytes(d, Len(d)) = HasBytes(c, Len(c))
  <2>1. \A j \in 1..Len(c) : d[j].kind = c[j].kind
    BY DEF SameShape
  <2> QED BY <1>1, <1>2, <2>1, HasBytesOnly
<1>5. d # <<>>
  <2>1. Len(<<>>) = 0
    OBVIOUS
  <2> QED BY <1>1, <2>1
<1> QED BY <1>3, <1>4, <1>5 DEF Delivering

\* At the end of an OPEN nothing was read yet, and nothing will be left out if
\* the source is whole.
LEMMA OpenDelivers ==
  ASSUME NEW c, Sound(c), NEW r, OpenKeeps(c, Len(c), r)
  PROVE  Delivering(r.chain, [got |-> <<>>, whole |-> r.ok /\ Whole(c)])
<1> DEFINE whole == r.ok /\ Whole(c)
           w == [got |-> <<>>, whole |-> whole]
           d == r.chain
           n == Len(c)
           k == HasBytes(c, n)
           s == d[HasBytes(d, Len(d))]
<1>1. /\ IsChain(c) /\ IsChain(d) /\ Layered(c) /\ Len(c) \in Nat /\ Len(c) > 0
      /\ Len(d) = Len(c) /\ Sound(d) /\ SameShape(c, d)
  BY DEF Sound, IsChain, SameShape, OpenKeeps
<1>2. n \in 0..n /\ n \in 1..n
  BY <1>1
<1>3. Content(d, Len(d)) = Content(c, n)
  BY <1>1, <1>2, ContentSame
<1>4. HasBytes(d, Len(d)) = k
  <2>1. \A j \in 1..Len(c) : d[j].kind = c[j].kind
    BY <1>1 DEF SameShape
  <2> QED BY <1>1, <1>2, <2>1, HasBytesOnly
<1>5. whole = TRUE => s.pos = 0 /\ s.data = Content(d, Len(d))
  <2>1. Whole(c) <=> WholeAt(c, n)
    BY DEF Whole, WholeAt
  <2> QED BY <1>3, <1>4, <2>1 DEF OpenKeeps
<1>6. whole \in BOOLEAN
  <2>1. Whole(c) \in BOOLEAN
    BY DEF Whole
  <2> QED BY <2>1 DEF OpenKeeps
<1> HIDE DEF whole
<1>7. w \in [got : Seq(Bytes), whole : BOOLEAN] /\ w.got = <<>> /\ w.whole = whole
  BY <1>6
<1>8. SubSeq(s.data, 1, 0) = <<>>
  <2>1. 1 \in Int /\ 0 \in Int /\ 0 < 1
    OBVIOUS
  <2> QED BY ONLY <2>1, SubSeqEmpty
<1>9. d # <<>>
  <2>1. Len(<<>>) = 0
    OBVIOUS
  <2> QED BY <1>1, <2>1
<1> HIDE DEF w
<1>10. w.whole => w.got = SubSeq(s.data, 1, s.pos) /\ s.data = Content(d, Len(d))
  BY <1>5, <1>6, <1>7, <1>8
<1>11. Delivering(d, w)
  BY <1>7, <1>9, <1>10 DEF Delivering
<1> QED BY <1>11 DEF w, whole

LEMMA ReadDelivers ==
  ASSUME NEW c, Sound(c), NEW w, Delivering(c, w), NEW len, NEW ok, NEW r,
         ReadKeeps(c, Len(c), len, ok, c[HasBytes(c, Len(c))], r)
  PROVE  Delivering(r.chain, [w EXCEPT !.got = IF w.whole THEN @ \o r.got ELSE @])
<1> DEFINE d == r.chain
           n == Len(c)
           k == HasBytes(c, n)
           got == IF w.whole THEN w.got \o r.got ELSE w.got
           v == [w EXCEPT !.got = IF w.whole THEN @ \o r.got ELSE @]
<1>1. /\ IsChain(c) /\ IsChain(d) /\ Layered(c) /\ Len(c) \in Nat /\ Len(c) > 0
      /\ Len(d) = Len(c) /\ Sound(d) /\ SameShape(c, d) /\ r.got \in Seq(Bytes)
  BY DEF Sound, IsChain, SameShape, ReadKeeps
<1>2. n \in 0..n /\ n \in 1..n
  BY <1>1
<1>3. Content(d, Len(d)) = Content(c, n)
  BY <1>1, <1>2, ContentSame
<1>4. HasBytes(d, Len(d)) = k /\ k \in 1..n
  <2>1. \A j \in 1..Len(c) : d[j].kind = c[j].kind
    BY <1>1 DEF SameShape
  <2>2. HasBytes(d, Len(c)) = k
    BY <1>1, <1>2, <2>1, HasBytesOnly
  <2>3. k \in 1..n
    BY <1>1, <1>2, HasBytesIs
  <2> QED BY <1>1, <2>2, <2>3
<1>5. w \in [got : Seq(Bytes), whole : BOOLEAN]
  BY DEF Delivering
<1>6. w.got \o r.got \in Seq(Bytes)
  BY <1>1, <1>5, ConcatProperties
<1>7. v \in [got : Seq(Bytes), whole : BOOLEAN] /\ v.whole = w.whole /\ v.got = got
  BY <1>5, <1>6
<1>8. d # <<>>
  <2>1. Len(<<>>) = 0
    OBVIOUS
  <2> QED BY <1>1, <2>1
<1> HIDE DEF v
<1>9. ASSUME w.whole
      PROVE  d[k].data = Content(c, n) /\ got = SubSeq(d[k].data, 1, d[k].pos)
  <2>1. /\ c[k].data = Content(c, n)
        /\ w.got = SubSeq(c[k].data, 1, c[k].pos)
    BY <1>9 DEF Delivering
  <2>2. d[k].data = c[k].data
    BY <1>4 DEF ReadKeeps
  <2>3. CASE r.ok
    <3>1. /\ d[k].pos = c[k].pos + Len(r.got)
          /\ SubSeq(c[k].data, 1, c[k].pos) \o r.got = SubSeq(c[k].data, 1, c[k].pos + Len(r.got))
      BY <2>3 DEF ReadKeeps
    <3> HIDE DEF d, k
    <3> QED BY <1>9, <2>1, <2>2, <3>1
  <2>4. CASE ~r.ok
    <3>1. d = c /\ r.got = <<>>
      BY <2>4 DEF ReadKeeps
    <3>2. got = w.got
      BY <1>5, <1>9, <3>1, ConcatEmptySeq
    <3> HIDE DEF d, k, got
    <3> QED BY <2>1, <2>2, <3>1, <3>2
  <2> QED BY <2>3, <2>4 DEF ReadKeeps
<1>10. Delivering(d, v)
  <2> HIDE DEF d, got
  <2> QED BY <1>3, <1>4, <1>7, <1>8, <1>9 DEF Delivering
<1> QED BY <1>10 DEF v

----------------------------------------------------------------------------
(* What is written.                                                        *)

LEMMA UnwrittenIs == IsWritten(Unwritten)
<1>1. Unwritten \in [base : Seq(Bytes), ops : Seq([at : Nat, data : Seq(Bytes)])]
  BY DEF Unwritten
<1>2. Len(Unwritten.base) = 0 /\ Range(Unwritten.ops) = {}
  BY DEF Unwritten, Range
<1>3. Ends(Unwritten) = {0}
  BY <1>2 DEF Ends
<1> QED BY <1>1, <1>3 DEF IsWritten

LEMMA SessionSame ==
  ASSUME NEW c, NEW d, SameShape(c, d), SessionOk(c)
  PROVE  SessionOk(d)
BY DEF SameShape, SessionOk

\* A call that is not about the session leaves it and what it was asked for.
LEMMA WriteSame ==
  ASSUME WriteInv, Sound(chain), SameShape(chain, chain'), NothingWritten
  PROVE  WriteInv'
<1>1. Len(chain') = Len(chain) /\ Len(chain) > 0 /\ 1 \in 1..Len(chain)
  BY DEF Sound, SameShape, IsChain
<1>2. SessionOk(chain')
  BY SessionSame DEF WriteInv
<1>3. chain' # <<>>
  <2>1. Len(<<>>) = 0
    OBVIOUS
  <2> QED BY <1>1, <2>1
<1>4. CASE chain'[1].draft # <<>>
  <2>1. wrote' = wrote
    BY <1>3, <1>4 DEF NothingWritten
  <2>2. chain[1].writeOpen = chain'[1].writeOpen /\ chain[1].draft = chain'[1].draft
    BY <1>1 DEF SameShape
  <2>3. chain # <<>>
    <3>1. Len(<<>>) = 0
      OBVIOUS
    <3> QED BY <1>1, <3>1
  <2> QED BY <1>2, <2>1, <2>2, <2>3 DEF WriteInv
<1>5. CASE chain'[1].draft = <<>>
  <2>1. wrote' = Unwritten
    BY <1>5 DEF NothingWritten
  <2>2. ~chain'[1].writeOpen
    BY <1>1, <1>2, <1>5 DEF SessionOk
  <2> QED BY <1>2, <2>1, <2>2, UnwrittenIs DEF WriteInv
<1> QED BY <1>4, <1>5

\* Neither is there a session in a chain of which no source is written to.
LEMMA WriteNone ==
  ASSUME NothingWritten,
         \A j \in 1..Len(chain') : chain'[j].writeOpen = FALSE /\ chain'[j].draft = <<>>,
         chain' # <<>> => Len(chain') \in Nat /\ Len(chain') > 0
  PROVE  WriteInv'
<1>1. SessionOk(chain')
  BY DEF SessionOk
<1>2. chain' # <<>> => chain'[1].writeOpen = FALSE /\ chain'[1].draft = <<>>
  OBVIOUS
<1>3. wrote' = Unwritten
  BY <1>2 DEF NothingWritten
<1> QED BY <1>1, <1>2, <1>3, UnwrittenIs DEF WriteInv

\* The write that p has its byte from.
Hits(w, p) ==
  {k \in DOMAIN w.ops : p > w.ops[k].at /\ p =< w.ops[k].at + Len(w.ops[k].data)}

Latest(w, p) == CHOOSE k \in Hits(w, p) : \A j \in Hits(w, p) : j =< k

FinalEnd(w) == CHOOSE e \in Ends(w) : \A o \in Ends(w) : o =< e

AskedAt(w, p) ==
  IF Hits(w, p) # {} THEN w.ops[Latest(w, p)].data[p - w.ops[Latest(w, p)].at]
  ELSE IF p =< Len(w.base) THEN w.base[p] ELSE Zero

LEMMA AskedIs ==
  ASSUME NEW w
  PROVE  Asked(w) = [p \in 1..FinalEnd(w) |-> AskedAt(w, p)]
BY DEF Asked, AskedAt, FinalEnd, Latest, Hits, Ends

LEMMA OpsAre ==
  ASSUME NEW w, IsWritten(w)
  PROVE  /\ w.base \in Seq(Bytes) /\ Len(w.base) \in Nat
         /\ Len(w.ops) \in Nat /\ DOMAIN w.ops = 1..Len(w.ops)
         /\ w.ops \in Seq([at : Nat, data : Seq(Bytes)])
         /\ \A k \in 1..Len(w.ops) :
              /\ w.ops[k].at \in Nat /\ w.ops[k].data \in Seq(Bytes)
              /\ Len(w.ops[k].data) \in Nat
<1> DEFINE base == w.base
           ops == w.ops
           Op == [at : Nat, data : Seq(Bytes)]
<1>1. base \in Seq(Bytes) /\ ops \in Seq(Op)
  BY DEF IsWritten
<1> HIDE DEF base, ops
<1>2. Len(base) \in Nat /\ Len(ops) \in Nat /\ DOMAIN ops = 1..Len(ops)
  <2> HIDE DEF Op
  <2> QED BY <1>1, LenProperties
<1>3. \A k \in 1..Len(ops) : ops[k] \in Op
  <2> HIDE DEF Op
  <2> QED BY <1>1, ElementOfSeq
<1>4. \A k \in 1..Len(ops) : /\ ops[k].at \in Nat /\ ops[k].data \in Seq(Bytes)
                             /\ Len(ops[k].data) \in Nat
  <2>1. \A o \in Op : o.at \in Nat /\ o.data \in Seq(Bytes)
    OBVIOUS
  <2> HIDE DEF Op
  <2> QED BY <1>3, <2>1, LenProperties
<1> QED BY <1>1, <1>2, <1>4 DEF base, ops

LEMMA EndsAre ==
  ASSUME NEW w, IsWritten(w)
  PROVE  Ends(w) \subseteq Nat
<1>1. /\ Len(w.base) \in Nat /\ DOMAIN w.ops = 1..Len(w.ops)
      /\ \A k \in 1..Len(w.ops) : w.ops[k].at \in Nat /\ Len(w.ops[k].data) \in Nat
  BY OpsAre
<1>2. ASSUME NEW o \in Range(w.ops) PROVE o.at + Len(o.data) \in Nat
  <2>1. PICK k \in 1..Len(w.ops) : o = w.ops[k]
    BY <1>1 DEF Range
  <2>2. w.ops[k].at \in Nat /\ Len(w.ops[k].data) \in Nat
    BY <1>1, <2>1
  <2>3. o.at \in Nat /\ Len(o.data) \in Nat
    BY <2>1, <2>2
  <2> QED BY ONLY <2>3
<1> HIDE DEF Range
<1> QED BY <1>1, <1>2 DEF Ends

LEMMA LastIs ==
  ASSUME NEW w, IsWritten(w)
  PROVE  /\ FinalEnd(w) \in Nat
         /\ Len(w.base) =< FinalEnd(w)
         /\ \A k \in 1..Len(w.ops) : w.ops[k].at + Len(w.ops[k].data) =< FinalEnd(w)
<1>1. FinalEnd(w) \in Ends(w) /\ \A o \in Ends(w) : o =< FinalEnd(w)
  BY DEF IsWritten, FinalEnd
<1> HIDE DEF FinalEnd
<1>2. Ends(w) \subseteq Nat
  BY EndsAre
<1>3. /\ Len(w.base) \in Ends(w)
      /\ \A k \in 1..Len(w.ops) : w.ops[k].at + Len(w.ops[k].data) \in Ends(w)
  BY OpsAre DEF Ends, Range
<1> QED BY <1>1, <1>2, <1>3

LEMMA LastOnly ==
  ASSUME NEW w, Ends(w) \subseteq Nat, NEW e \in Ends(w), \A o \in Ends(w) : o =< e
  PROVE  FinalEnd(w) = e
<1>1. FinalEnd(w) \in Ends(w) /\ \A o \in Ends(w) : o =< FinalEnd(w)
  BY DEF FinalEnd
<1> HIDE DEF FinalEnd
<1> QED BY <1>1

\* The latest of some writes is one of them.
LEMMA LatestIs ==
  ASSUME NEW w, IsWritten(w), NEW p, Hits(w, p) # {}
  PROVE  Latest(w, p) \in Hits(w, p) /\ \A j \in Hits(w, p) : j =< Latest(w, p)
<1> DEFINE n == Len(w.ops)
           H == Hits(w, p)
           S == {n - k : k \in H}
<1>1. n \in Nat /\ H \subseteq 1..n /\ H # {}
  BY OpsAre DEF Hits
<1> HIDE DEF n, H
<1>2. S \in SUBSET Nat /\ S # {}
  <2>1. \A k \in H : n - k \in Nat
    <3>1. \A k \in 1..n : n - k \in Nat
      BY <1>1
    <3> QED BY <1>1, <3>1
  <2>2. PICK k \in H : TRUE
    BY <1>1
  <2>3. n - k \in S
    OBVIOUS
  <2> QED BY <2>1, <2>3
<1>3. PICK m \in S : \A k \in S : m =< k
  <2> HIDE DEF S
  <2> QED BY <1>2, LeastElement
<1>4. PICK k \in H : m = n - k
  BY <1>3
<1>5. \A j \in H : j =< k
  <2> SUFFICES ASSUME NEW j \in H PROVE j =< k
    OBVIOUS
  <2>1. n - j \in S
    OBVIOUS
  <2>2. n - k =< n - j
    BY <1>3, <1>4, <2>1
  <2>3. k \in 1..n /\ j \in 1..n
    BY <1>1
  <2> QED BY <1>1, <2>2, <2>3
<1> QED BY <1>5 DEF Latest, H

\* A session starts with the prefix that was cloned.
LEMMA SessionBase ==
  ASSUME NEW base \in Seq(Bytes), NEW w, w = [base |-> base, ops |-> <<>>]
  PROVE  IsWritten(w) /\ Asked(w) = base
<1>1. Len(base) \in Nat
  BY LenProperties
<1>2. w.base = base /\ w.ops = <<>> /\ DOMAIN w.ops = {}
  OBVIOUS
<1>3. Ends(w) = {Len(base)}
  BY <1>2 DEF Ends, Range
<1>4. IsWritten(w)
  <2>1. <<>> \in Seq([at : Nat, data : Seq(Bytes)])
    OBVIOUS
  <2>2. w \in [base : Seq(Bytes), ops : Seq([at : Nat, data : Seq(Bytes)])]
    BY <2>1
  <2> QED BY <1>1, <1>3, <2>2 DEF IsWritten
<1>5. FinalEnd(w) = Len(base)
  BY <1>1, <1>3, LastOnly
<1>6. \A p \in 1..Len(base) : AskedAt(w, p) = base[p]
  <2>1. \A p : Hits(w, p) = {}
    BY <1>2 DEF Hits
  <2> QED BY <1>1, <1>2, <2>1 DEF AskedAt
<1>7. base = [p \in 1..Len(base) |-> base[p]]
  BY LenProperties
<1>8. Asked(w) = [p \in 1..Len(base) |-> base[p]]
  BY <1>5, <1>6, AskedIs
<1> QED BY <1>4, <1>7, <1>8

\* A write at an offset, seen from what was asked for before.
LEMMA AskedNext ==
  ASSUME NEW w, IsWritten(w), NEW at \in Nat, NEW data \in Seq(Bytes), NEW v,
         v = [base |-> w.base, ops |-> Append(w.ops, [at |-> at, data |-> data])]
  PROVE  IsWritten(v) /\ Asked(v) = WrittenAt(Asked(w), at, data)
<1> DEFINE n == Len(w.ops)
           op == [at |-> at, data |-> data]
           end == at + Len(data)
           e == FinalEnd(w)
           size == IF end > e THEN end ELSE e
           Op == [at : Nat, data : Seq(Bytes)]
<1>1. /\ w.base \in Seq(Bytes) /\ Len(w.base) \in Nat
      /\ n \in Nat /\ DOMAIN w.ops = 1..n
      /\ w.ops \in Seq([at : Nat, data : Seq(Bytes)])
      /\ \A k \in 1..n :
           /\ w.ops[k].at \in Nat /\ w.ops[k].data \in Seq(Bytes)
           /\ Len(w.ops[k].data) \in Nat
  BY OpsAre
<1>2. Len(data) \in Nat /\ end \in Nat /\ op \in Op /\ op.at = at /\ op.data = data
  BY LenProperties
<1>3. /\ v.base = w.base /\ v.ops \in Seq(Op) /\ DOMAIN v.ops = 1..(n + 1)
      /\ v.ops[n + 1] = op /\ \A k \in 1..n : v.ops[k] = w.ops[k]
  <2> DEFINE ops == w.ops
             new == v.ops
  <2>1. ops \in Seq(Op) /\ new = Append(ops, op) /\ v.base = w.base /\ n = Len(ops)
    BY <1>1
  <2> HIDE DEF ops, new, Op, op, n
  <2>2. /\ new \in Seq(Op) /\ Len(new) = n + 1 /\ new[n + 1] = op
        /\ \A k \in 1..n : new[k] = ops[k]
    BY <1>2, <2>1, AppendProperties
  <2>3. DOMAIN new = 1..(n + 1)
    BY <2>2, LenProperties
  <2> QED BY <2>1, <2>2, <2>3 DEF ops, new
<1> HIDE DEF n, op
<1>4. /\ e \in Nat /\ Len(w.base) =< e
      /\ \A k \in 1..n : w.ops[k].at + Len(w.ops[k].data) =< e
      /\ e \in Ends(w)
  <2>1. e \in Ends(w)
    BY DEF IsWritten, FinalEnd
  <2> QED BY <2>1, LastIs DEF n
<1> HIDE DEF e
<1>5. Ends(v) = Ends(w) \cup {end}
  <2>1. Range(v.ops) = Range(w.ops) \cup {op}
    <3>1. 1..(n + 1) = 1..n \cup {n + 1}
      BY <1>1
    <3> QED BY <1>1, <1>3, <3>1 DEF Range
  <2> QED BY <1>2, <1>3, <2>1 DEF Ends
<1>6. Ends(w) \subseteq Nat /\ \A o \in Ends(w) : o =< e
  <2>1. Ends(w) \subseteq Nat
    BY EndsAre
  <2>2. \A o \in Ends(w) : o =< FinalEnd(w)
    BY DEF IsWritten, FinalEnd
  <2> QED BY <2>1, <2>2 DEF e
<1>7. size \in Ends(v) /\ \A o \in Ends(v) : o =< size
  <2> HIDE DEF end
  <2>1. CASE end > e
    <3>1. size = end
      BY <2>1
    <3>2. \A o \in Ends(w) : o =< end
      BY <1>2, <1>4, <1>6, <2>1
    <3>3. end =< end
      BY <1>2
    <3> HIDE DEF size
    <3> QED BY ONLY <1>5, <3>1, <3>2, <3>3
  <2>2. CASE ~(end > e)
    <3>1. size = e
      BY <2>2
    <3>2. end =< e
      BY <1>2, <1>4, <2>2
    <3> QED BY <1>4, <1>5, <1>6, <3>1, <3>2
  <2> QED BY <2>1, <2>2
<1>8. FinalEnd(v) = size
  <2>1. Ends(v) \subseteq Nat
    BY <1>2, <1>5, <1>6
  <2> HIDE DEF size, end
  <2> QED BY <1>7, <2>1, LastOnly
<1>9. IsWritten(v)
  <2>1. v \in [base : Seq(Bytes), ops : Seq([at : Nat, data : Seq(Bytes)])]
    BY <1>1, <1>3
  <2> QED BY <1>7, <2>1 DEF IsWritten
<1>10. ASSUME NEW p \in 1..size
       PROVE  AskedAt(v, p) = IF p > at /\ p =< end THEN data[p - at]
                              ELSE IF p =< e THEN AskedAt(w, p) ELSE Zero
  <2>0. p \in Nat /\ p > 0
    BY <1>2, <1>4
  <2> HIDE DEF size
  <2>1. CASE p > at /\ p =< end
    <3>1. n + 1 \in Hits(v, p) /\ \A j \in Hits(v, p) : j =< n + 1
      BY <1>1, <1>2, <1>3, <2>1 DEF Hits
    <3>2. Latest(v, p) = n + 1
      <4>1. Latest(v, p) \in Hits(v, p) /\ n + 1 =< Latest(v, p)
        BY <1>9, <3>1, LatestIs
      <4>2. Latest(v, p) \in 1..(n + 1)
        BY <1>3, <4>1 DEF Hits
      <4> HIDE DEF Latest
      <4> QED BY <1>1, <4>1, <4>2
    <3> HIDE DEF Latest, Hits
    <3> QED BY <1>2, <1>3, <2>1, <3>1, <3>2 DEF AskedAt
  <2>2. CASE ~(p > at /\ p =< end)
    <3>1. Hits(v, p) = Hits(w, p)
      <4>1. n + 1 \notin Hits(v, p)
        BY <1>2, <1>3, <2>2 DEF Hits
      <4>2. \A k \in 1..(n + 1) : k = n + 1 \/ k \in 1..n
        BY <1>1
      <4>3. \A k \in 1..n : k \in Hits(v, p) <=> k \in Hits(w, p)
        BY <1>1, <1>3 DEF Hits
      <4>4. Hits(v, p) \subseteq 1..(n + 1) /\ Hits(w, p) \subseteq 1..n
        BY <1>1, <1>3 DEF Hits
      <4> QED BY <4>1, <4>2, <4>3, <4>4
    <3>2. Latest(v, p) = Latest(w, p)
      BY <3>1 DEF Latest
    <3>3. AskedAt(v, p) = AskedAt(w, p)
      <4>1. CASE Hits(w, p) # {}
        <5>1. Latest(w, p) \in 1..n
          BY <1>1, <4>1, LatestIs DEF Hits
        <5> QED BY <1>3, <3>1, <3>2, <4>1, <5>1 DEF AskedAt
      <4>2. CASE Hits(w, p) = {}
        BY <1>3, <3>1, <4>2 DEF AskedAt
      <4> QED BY <4>1, <4>2
    <3>4. ASSUME ~(p =< e) PROVE AskedAt(w, p) = Zero
      <4>1. Hits(w, p) = {}
        <5> SUFFICES ASSUME NEW k \in Hits(w, p) PROVE FALSE
          OBVIOUS
        <5>1. k \in 1..n /\ p =< w.ops[k].at + Len(w.ops[k].data)
          BY <1>1 DEF Hits
        <5>2. w.ops[k].at \in Nat /\ Len(w.ops[k].data) \in Nat
          BY <1>1, <5>1
        <5>3. w.ops[k].at + Len(w.ops[k].data) =< e
          BY <1>4, <5>1
        <5> QED BY <1>4, <2>0, <3>4, <5>1, <5>2, <5>3
      <4>2. ~(p =< Len(w.base))
        BY <1>1, <1>4, <2>0, <3>4
      <4> QED BY <4>1, <4>2 DEF AskedAt
    <3> QED BY <2>2, <3>3, <3>4
  <2> QED BY <2>1, <2>2
<1>11. Asked(v) = WrittenAt(Asked(w), at, data)
  <2> DEFINE out == Asked(w)
  <2>1. out = [p \in 1..e |-> AskedAt(w, p)]
    BY AskedIs DEF e
  <2> HIDE DEF out
  <2>2. Len(out) = e /\ \A p \in 1..e : out[p] = AskedAt(w, p)
    <3>1. out = [p \in 1..e |-> out[p]]
      BY <2>1
    <3>2. Len(out) = e
      BY <1>4, <3>1, ChainOf
    <3> QED BY <2>1, <3>2
  <2>3. WrittenAt(out, at, data) =
          [p \in 1..size |-> IF p > at /\ p =< end THEN data[p - at]
                             ELSE IF p =< e THEN out[p] ELSE Zero]
    BY <2>2 DEF WrittenAt
  <2>4. \A p \in 1..size : p =< e => out[p] = AskedAt(w, p)
    BY <1>2, <1>4, <2>2
  <2>5. Asked(v) = [p \in 1..size |-> AskedAt(v, p)]
    BY <1>8, AskedIs
  <2>6. Asked(v) = WrittenAt(out, at, data)
    <3> HIDE DEF size, end
    <3> QED BY <1>10, <2>3, <2>4, <2>5
  <2> QED BY <2>6 DEF out
<1> QED BY <1>9, <1>11

\* What is written is bytes.
LEMMA WrittenBytes ==
  ASSUME NEW out \in Seq(Bytes), NEW at \in Nat, NEW data \in Seq(Bytes)
  PROVE  WrittenAt(out, at, data) \in Seq(Bytes)
<1> DEFINE end == at + Len(data)
           size == IF end > Len(out) THEN end ELSE Len(out)
           d == WrittenAt(out, at, data)
<1>1. Len(out) \in Nat /\ Len(data) \in Nat /\ size \in Nat /\ end \in Nat
  BY LenProperties
<1>2. /\ \A p \in 1..Len(out) : out[p] \in Bytes
      /\ \A p \in 1..Len(data) : data[p] \in Bytes
  BY ElementOfSeq
<1>3. d = [p \in 1..size |-> IF p > at /\ p =< end THEN data[p - at]
                             ELSE IF p =< Len(out) THEN out[p] ELSE Zero]
  BY DEF WrittenAt
<1> HIDE DEF d
<1>4. ASSUME NEW p \in 1..size PROVE d[p] \in Bytes
  <2>1. CASE p > at /\ p =< end
    <3>1. p - at \in 1..Len(data)
      BY <1>1, <2>1
    <3> QED BY <1>2, <1>3, <2>1, <3>1
  <2>2. CASE ~(p > at /\ p =< end) /\ p =< Len(out)
    <3>1. p \in 1..Len(out)
      BY <1>1, <2>2
    <3> QED BY <1>2, <1>3, <2>2, <3>1
  <2>3. CASE ~(p > at /\ p =< end) /\ ~(p =< Len(out))
    BY <1>3, <2>3, ContentAssumption
  <2> QED BY <2>1, <2>2, <2>3
<1>5. d \in [1..size -> Bytes]
  BY <1>3, <1>4
<1>6. d \in Seq(Bytes)
  <2> HIDE DEF size
  <2> QED BY <1>1, <1>5, SeqDef
<1> QED BY <1>6 DEF d
----------------------------------------------------------------------------
(* Ranges and fragments.                                                   *)

\* The bytes of a range: d is what a source over it has.
IsRangeOf(d, data, start, len) ==
  LET Within == {p \in DOMAIN data : p > start /\ (len >= 0 => p =< start + len)}
  IN  /\ DOMAIN d = {p - start : p \in Within}
      /\ \A p \in Within : d[p - start] = data[p]

LEMMA SubSeqIsRange ==
  ASSUME NEW data \in Seq(Bytes), NEW start \in Nat, NEW len \in Int, NEW hi,
         hi = IF len < 0 THEN Len(data) ELSE Low(start + len, Len(data)),
         start =< hi
  PROVE  /\ SubSeq(data, start + 1, hi) \in Seq(Bytes)
         /\ IsRangeOf(SubSeq(data, start + 1, hi), data, start, len)
<1> DEFINE n == Len(data)
           m == start + 1
           d == SubSeq(data, m, hi)
           Within == {p \in DOMAIN data : p > start /\ (len >= 0 => p =< start + len)}
<1>1. /\ n \in Nat /\ DOMAIN data = 1..n /\ \A p \in 1..n : data[p] \in Bytes
  BY LenProperties, ElementOfSeq
<1>2. /\ hi \in Nat /\ hi =< n
      /\ \A p \in Int : p =< hi <=> p =< n /\ (len >= 0 => p =< start + len)
  <2> HIDE DEF n
  <2>1. hi = IF len < 0 THEN n ELSE Low(start + len, n)
    BY DEF n
  <2> QED BY <1>1, <2>1 DEF Low
<1>3. m \in Int /\ m = start + 1 /\ m =< hi + 1
  BY <1>2
<1> HIDE DEF n, m
<1>4. /\ d \in Seq(Bytes) /\ Len(d) = IF m <= hi THEN hi - m + 1 ELSE 0
      /\ \A i \in 1..(hi - m + 1) : d[i] = data[m + i - 1]
  <2>1. \A p \in m..hi : data[p] \in Bytes
    BY <1>1, <1>2, <1>3
  <2>2. m \in Int /\ hi \in Int
    BY <1>2, <1>3
  <2> QED BY ONLY <2>1, <2>2, SubSeqProperties
<1>5. DOMAIN d = 1..Len(d) /\ Len(d) = hi - start
  <2>1. Len(d) = hi - start
    <3> HIDE DEF d
    <3> QED BY <1>2, <1>3, <1>4
  <2> HIDE DEF d
  <2> QED BY <1>4, <2>1, LenProperties
<1> HIDE DEF d
<1>6. Within = (start + 1)..hi
  BY <1>1, <1>2
<1>7. DOMAIN d = {p - start : p \in Within}
  <2> HIDE DEF Within
  <2>1. DOMAIN d = 1..(hi - start)
    BY <1>5
  <2>2. ASSUME NEW i \in 1..(hi - start) PROVE i \in {p - start : p \in Within}
    <3>1. start + i \in Within /\ i = (start + i) - start
      BY <1>2, <1>6
    <3> QED BY ONLY <3>1
  <2>3. ASSUME NEW p \in Within PROVE p - start \in 1..(hi - start)
    BY <1>2, <1>6
  <2> QED BY <2>1, <2>2, <2>3
<1>8. ASSUME NEW p \in Within PROVE d[p - start] = data[p]
  <2> HIDE DEF Within
  <2>1. p - start \in 1..(hi - m + 1) /\ m + (p - start) - 1 = p
    BY <1>2, <1>3, <1>6
  <2> QED BY <1>4, <2>1
<1>9. IsRangeOf(d, data, start, len)
  BY <1>7, <1>8 DEF IsRangeOf
<1> QED BY <1>4, <1>9 DEF d, m

\* c is no source, or one that nothing was read from yet.
IsNewChain(c) ==
  \/ c = <<>>
  \/ \E s : /\ c = <<s>> /\ s.kind \in {"memory", "function"}
            /\ s.data \in Seq(Bytes) /\ IsFresh(s, s.kind, s.data)

\* A new source over a range, if it does not start behind the end.
LEMMA MemorySourceIs ==
  ASSUME NEW data \in Seq(Bytes), NEW start \in Nat, NEW len \in Int, NEW c,
         c = MakeMemorySource(data, start, len)
  PROVE  /\ IsNewChain(c)
         /\ c = <<>> => start > Len(data)
         /\ c # <<>> => IsRangeOf(c[1].data, data, start, len) /\ c[1].kind = "memory"
<1> DEFINE hi == IF len < 0 THEN Len(data) ELSE Low(start + len, Len(data))
           d == SubSeq(data, start + 1, hi)
           s == NewSource("memory", d, Seekable \cup {"at_eof"})
<1>1. c = IF start > hi THEN <<>> ELSE <<s>>
  BY DEF MakeMemorySource
<1>2. Len(data) \in Nat /\ hi \in Int
  <2>1. Len(data) \in Nat
    BY LenProperties
  <2> QED BY <2>1 DEF Low
<1>3. CASE start > hi
  <2>1. c = <<>>
    BY <1>1, <1>3
  <2>2. start > Len(data)
    BY <1>2, <1>3 DEF Low
  <2> QED BY <2>1, <2>2 DEF IsNewChain
<1>4. CASE ~(start > hi)
  <2>1. d \in Seq(Bytes) /\ IsRangeOf(d, data, start, len)
    <3>1. hi = (IF len < 0 THEN Len(data) ELSE Low(start + len, Len(data))) /\ start =< hi
      BY <1>2, <1>4
    <3> HIDE DEF hi
    <3> QED BY <3>1, SubSeqIsRange
  <2> HIDE DEF d, hi
  <2>2. IsFresh(s, "memory", d)
    BY <2>1, NewSourceIs
  <2>3. c = <<s>>
    BY <1>1, <1>4
  <2> HIDE DEF s
  <2>4. s.kind = "memory" /\ s.data = d
    BY <2>2 DEF IsFresh
  <2>5. c # <<>> /\ c[1] = s
    BY <2>3, OneSource
  <2>6. IsNewChain(c)
    BY <2>1, <2>2, <2>3, <2>4 DEF IsNewChain
  <2> QED BY <2>1, <2>4, <2>5, <2>6
<1> QED BY <1>3, <1>4

IsFlat(seqs, m, f) ==
  f = [i \in 1..m |-> IF i = 1 THEN seqs[i] ELSE f[i - 1] \o seqs[i]]

LEMMA FlatExists ==
  ASSUME NEW seqs, NEW len \in Nat
  PROVE  \E f : IsFlat(seqs, len, f)
<1> DEFINE S == {m \in 0..len : \E f : IsFlat(seqs, m, f)}
<1>1. 0 \in S
  <2> DEFINE f == [i \in 1..0 |-> <<>>]
  <2>1. IsFlat(seqs, 0, f) /\ 0 \in 0..len
    BY DEF IsFlat
  <2> HIDE DEF f
  <2> QED BY <2>1
<1>2. ASSUME NEW m \in 1..len, m - 1 \in S PROVE m \in S
  <2>1. PICK g : IsFlat(seqs, m - 1, g)
    BY <1>2
  <2> DEFINE last == IF m = 1 THEN seqs[m] ELSE g[m - 1] \o seqs[m]
             h == [i \in 1..m |-> IF i < m THEN g[i] ELSE last]
  <2>2. h[m] = last /\ \A i \in 1..(m - 1) : h[i] = g[i]
    <3> HIDE DEF last
    <3> QED OBVIOUS
  <2>3. ASSUME NEW i \in 1..m
        PROVE  h[i] = IF i = 1 THEN seqs[i] ELSE h[i - 1] \o seqs[i]
    <3> HIDE DEF h
    <3>1. CASE i = m
      <4>1. i # 1 => m - 1 \in 1..(m - 1)
        BY <3>1
      <4> QED BY <2>2, <3>1, <4>1
    <3>2. CASE i # m
      <4>1. i \in 1..(m - 1) /\ (i # 1 => i - 1 \in 1..(m - 1))
        BY <3>2
      <4>2. g[i] = IF i = 1 THEN seqs[i] ELSE g[i - 1] \o seqs[i]
        BY <2>1, <4>1 DEF IsFlat
      <4> QED BY <2>2, <4>1, <4>2
    <3> QED BY <3>1, <3>2
  <2>4. h = [i \in 1..m |-> h[i]]
    OBVIOUS
  <2>5. IsFlat(seqs, m, h)
    <3> HIDE DEF h
    <3> QED BY <2>3, <2>4 DEF IsFlat
  <2>6. m \in 0..len
    OBVIOUS
  <2> HIDE DEF h
  <2> QED BY <2>5, <2>6
<1>3. \A m \in 0..len : m \in S
  <2> HIDE DEF S
  <2> QED BY <1>1, <1>2, Induct
<1>4. len \in 0..len
  OBVIOUS
<1> QED BY <1>3, <1>4

LEMMA FlatBytes ==
  ASSUME NEW seqs \in Seq(Seq(Bytes))
  PROVE  FlattenSeq(seqs) \in Seq(Bytes)
<1> DEFINE n == Len(seqs)
           f == CHOOSE g : IsFlat(seqs, n, g)
           S == {m \in 0..n : m = 0 \/ f[m] \in Seq(Bytes)}
<1>1. n \in Nat /\ \A i \in 1..n : seqs[i] \in Seq(Bytes)
  <2> DEFINE All == Seq(Bytes)
  <2>1. seqs \in Seq(All)
    OBVIOUS
  <2> HIDE DEF All
  <2>2. Len(seqs) \in Nat /\ \A i \in 1..Len(seqs) : seqs[i] \in All
    BY <2>1, LenProperties, ElementOfSeq
  <2> QED BY <2>2 DEF All
<1>2. FlattenSeq(seqs) = IF n = 0 THEN seqs ELSE f[n]
  BY DEF FlattenSeq, IsFlat
<1> HIDE DEF n
<1>3. IsFlat(seqs, n, f)
  BY <1>1, FlatExists
<1> HIDE DEF f
<1>4. CASE n = 0
  <2>1. seqs = <<>>
    BY <1>4, EmptySeq DEF n
  <2>2. <<>> \in Seq(Bytes)
    OBVIOUS
  <2> QED BY <1>2, <1>4, <2>1, <2>2
<1>5. CASE n # 0
  <2>1. 0 \in S
    BY <1>1
  <2>2. ASSUME NEW m \in 1..n, m - 1 \in S PROVE m \in S
    <3>1. f[m] = IF m = 1 THEN seqs[m] ELSE f[m - 1] \o seqs[m]
      BY <1>3 DEF IsFlat
    <3>2. m # 1 => f[m - 1] \in Seq(Bytes)
      BY <2>2
    <3>3. f[m] \in Seq(Bytes)
      BY <1>1, <3>1, <3>2, ConcatProperties
    <3> QED BY <3>3
  <2>3. \A m \in 0..n : m \in S
    <3> HIDE DEF S
    <3> QED BY <1>1, <2>1, <2>2, Induct
  <2>4. n \in 0..n
    BY <1>1
  <2> QED BY <1>2, <1>5, <2>3, <2>4
<1> QED BY <1>4, <1>5

LEMMA FragmentBytes ==
  ASSUME NEW frags \in Fragments
  PROVE  FlattenSeq([k \in DOMAIN frags |-> frags[k].data]) \in Seq(Bytes)
<1> DEFINE seqs == [k \in DOMAIN frags |-> frags[k].data]
           Frag == [data : Seq(Bytes), length : Nat]
           n == Len(frags)
           All == Seq(Bytes)
<1>1. frags \in Seq(Frag)
  BY ContentAssumption
<1>2. n \in Nat /\ DOMAIN frags = 1..n /\ \A k \in 1..n : frags[k] \in Frag
  <2> HIDE DEF Frag
  <2> QED BY <1>1, LenProperties, ElementOfSeq
<1> HIDE DEF n
<1>3. \A k \in 1..n : frags[k].data \in All
  BY <1>2
<1> HIDE DEF All, Frag
<1>4. seqs \in [1..n -> All]
  BY <1>2, <1>3
<1> HIDE DEF seqs
<1>5. seqs \in Seq(All)
  BY <1>2, <1>4, SeqDef
<1>6. FlattenSeq(seqs) \in Seq(Bytes)
  BY <1>5, FlatBytes DEF All
<1> QED BY <1>6 DEF seqs
----------------------------------------------------------------------------
(* The steps.                                                              *)

ReadWhole ==
  seen.whole /\ reply.call = "read" /\ reply.r = 0 => seen.got = Content(chain, Top)

Published ==
  chain # <<>> /\ reply.call = "commit_write" /\ reply.r = 0 =>
    chain[1].data = Asked(wrote) /\ Stat(chain[1]) = <<Len(Asked(wrote))>>

Quiet ==
  reply'.r = Failed /\ reply'.call \notin {"open", "unread"} /\ reply'.arg = <<>>
    => chain' = chain

AllInv == StreamInv /\ SourceIsRange /\ ReadWhole /\ Published

\* What each call brings about.
StepOk == AllInv' /\ Quiet

\* A call that is not for a new source, a read or a commit tells nothing that
\* could be wrong.
LEMMA OtherReply ==
  ASSUME NEW call, NEW r, NEW error, call \notin {"read", "commit_write"},
         reply' = [call |-> call, arg |-> <<>>, r |-> r, error |-> error]
  PROVE  SourceIsRange' /\ ReadWhole' /\ Published'
<1>1. reply'.arg = <<>> /\ reply'.call = call
  OBVIOUS
<1> QED BY <1>1 DEF SourceIsRange, ReadWhole, Published

LEMMA FreshKeeps ==
  ASSUME IsNewChain(chain'), seen' = Unread, NothingWritten
  PROVE  StreamInv'
<1>1. /\ chain' # <<>> => Sound(chain') /\ Len(chain') = 1
      /\ \A j \in 1..Len(chain') : chain'[j].writeOpen = FALSE /\ chain'[j].draft = <<>>
  <2>1. CASE chain' = <<>>
    <3>1. Len(chain') = 0 /\ 1..0 = {}
      BY <2>1
    <3> QED BY <2>1, <3>1
  <2>2. CASE chain' # <<>>
    <3>1. PICK s : /\ chain' = <<s>> /\ s.kind \in {"memory", "function"}
                   /\ s.data \in Seq(Bytes) /\ IsFresh(s, s.kind, s.data)
      BY <2>2 DEF IsNewChain
    <3>2. IsChain(chain') /\ Len(chain') = 1 /\ chain'[1] = s
      BY <3>1, OneSource
    <3>3. IsSource(s) /\ s.writeOpen = FALSE /\ s.draft = <<>>
      BY <3>1 DEF IsFresh
    <3>4. Sound(chain')
      BY <3>1, <3>2, <3>3, OneSound
    <3>5. \A j \in 1..Len(chain') : j = 1
      BY <3>2
    <3> QED BY <3>2, <3>3, <3>4, <3>5
  <2> QED BY <2>1, <2>2
<1>2. DeliverInv'
  BY UnreadDelivers DEF DeliverInv
<1>3. WriteInv'
  <2>1. chain' # <<>> => Len(chain') \in Nat /\ Len(chain') > 0
    BY <1>1
  <2> QED BY <1>1, <2>1, WriteNone
<1> QED BY <1>1, <1>2, <1>3 DEF StreamInv

LEMMA ShapedKeeps ==
  ASSUME StreamInv, chain # <<>>, Sound(chain'), SameShape(chain, chain'),
         Delivering(chain', seen'), NothingWritten
  PROVE  StreamInv'
<1>1. Sound(chain) /\ WriteInv
  BY DEF StreamInv
<1>2. WriteInv'
  BY <1>1, WriteSame
<1> QED BY <1>2 DEF StreamInv, DeliverInv

LEMMA MadeKeeps ==
  ASSUME NEW call, NEW data \in Seq(Bytes), NEW start \in Nat, NEW len \in Int,
         NEW c, NEW error, call \notin {"read", "commit_write"},
         Made(call, <<data, start, len>>, c, error), IsNewChain(c),
         c = <<>> /\ call = "window" /\ error = "inval" => start > Len(data),
         c # <<>> => /\ IsRangeOf(c[1].data, data, start, len)
                     /\ call = "function" \/ c[1].kind = "memory"
  PROVE  StepOk
<1> DEFINE arg == <<data, start, len>>
<1>1. /\ chain' = c /\ seen' = Unread /\ NothingWritten
      /\ reply' = IF c = <<>> THEN [call |-> call, arg |-> arg, r |-> Failed, error |-> error]
                  ELSE [call |-> call, arg |-> arg, r |-> 0, error |-> "ok"]
  BY DEF Made, NothingRead
<1>2. /\ arg # <<>> /\ arg[1] = data /\ arg[2] = start /\ arg[3] = len
  OBVIOUS
<1> HIDE DEF arg
<1>3. StreamInv'
  BY <1>1, FreshKeeps
<1>4. /\ reply'.arg = arg /\ reply'.call = call
      /\ c = <<>> => reply'.r = Failed /\ reply'.error = error
      /\ c # <<>> => reply'.r = 0
  BY <1>1
<1>5. ReadWhole' /\ Published' /\ Quiet
  BY <1>2, <1>4 DEF ReadWhole, Published, Quiet
<1>6. SourceIsRange'
  <2>1. CASE c = <<>>
    <3>1. reply'.r = Failed /\ (reply'.error = "inval" /\ reply'.call = "window"
                                  => reply'.arg[2] > Len(reply'.arg[1]))
      BY <1>2, <1>4, <2>1
    <3> QED BY <3>1 DEF SourceIsRange
  <2>2. CASE c # <<>>
    <3>1. reply'.r # Failed
      BY <1>4, <2>2 DEF Failed
    <3>2. IsRangeOf(chain'[1].data, reply'.arg[1], reply'.arg[2], reply'.arg[3])
      BY <1>1, <1>2, <1>4, <2>2
    <3>3. reply'.call # "function" => Stat(chain'[1]) = <<Len(chain'[1].data)>>
      <4>1. PICK s : c = <<s>> /\ IsFresh(s, s.kind, s.data)
        BY <2>2 DEF IsNewChain
      <4>2. chain'[1] = s /\ s.size = Len(s.data)
        BY <1>1, <4>1, OneSource DEF IsFresh
      <4>3. call # "function" => s.kind = "memory"
        BY <1>1, <2>2, <4>2
      <4> QED BY <1>4, <4>2, <4>3 DEF Stat
    <3> HIDE DEF Stat
    <3> QED BY <3>1, <3>2, <3>3 DEF SourceIsRange, IsRangeOf
  <2> QED BY <2>1, <2>2
<1> QED BY <1>3, <1>5, <1>6 DEF StepOk, AllInv

LEMMA WholeRange ==
  ASSUME NEW f \in Seq(Bytes)
  PROVE  IsRangeOf(f, f, 0, -1)
<1> DEFINE n == Len(f)
<1>1. n \in Nat /\ DOMAIN f = 1..n
  BY LenProperties
<1> HIDE DEF n
<1>2. {p \in DOMAIN f : p > 0 /\ (-1 >= 0 => p =< 0 + (-1))} = 1..n
  BY <1>1
<1>3. {p - 0 : p \in 1..n} = 1..n
  <2>1. \A p \in 1..n : p - 0 = p
    OBVIOUS
  <2> QED BY <2>1
<1>4. \A p \in 1..n : f[p - 0] = f[p]
  OBVIOUS
<1> QED BY <1>1, <1>2, <1>3, <1>4 DEF IsRangeOf

LEMMA NewSourceChain ==
  ASSUME NEW kind \in {"memory", "function"}, NEW f \in Seq(Bytes), NEW mask, NEW c,
         c = <<NewSource(kind, f, mask)>>
  PROVE  IsNewChain(c) /\ c # <<>> /\ c[1].kind = kind /\ c[1].data = f
<1> DEFINE s == NewSource(kind, f, mask)
<1>1. IsFresh(s, kind, f)
  BY NewSourceIs
<1>2. c = <<s>>
  OBVIOUS
<1> HIDE DEF s
<1>3. s.kind = kind /\ s.data = f
  BY <1>1 DEF IsFresh
<1>4. c # <<>> /\ c[1] = s
  BY <1>2, OneSource
<1> QED BY <1>1, <1>2, <1>3, <1>4 DEF IsNewChain

\* A source that is made over a range of data, or none because of something else.
RangeOrNone(c, data, start, len) ==
  /\ IsNewChain(c)
  /\ c # <<>> => IsRangeOf(c[1].data, data, start, len) /\ c[1].kind = "memory"

LEMMA RangedIs ==
  ASSUME NEW f \in Seq(Bytes), NEW start \in Nat, NEW len \in Int, NEW io
  PROVE  RangeOrNone(Ranged(f, start, len, io), f, start, len)
<1> DEFINE c == Ranged(f, start, len, io)
<1>1. c = <<>> \/ c = MakeMemorySource(f, start, len)
  BY DEF Ranged
<1> HIDE DEF c
<1>2. c = <<>> => RangeOrNone(c, f, start, len)
  BY DEF RangeOrNone, IsNewChain
<1>3. c = MakeMemorySource(f, start, len) => RangeOrNone(c, f, start, len)
  BY MemorySourceIs DEF RangeOrNone
<1>4. RangeOrNone(c, f, start, len)
  BY <1>1, <1>2, <1>3
<1> QED BY <1>4 DEF c

LEMMA RangeStep ==
  ASSUME NEW call, NEW data \in Seq(Bytes), NEW start \in Nat, NEW len \in Int,
         NEW c, NEW error, call \notin {"read", "commit_write", "window"},
         Made(call, <<data, start, len>>, c, error), RangeOrNone(c, data, start, len)
  PROVE  StepOk
BY MadeKeeps DEF RangeOrNone

LEMMA BufferStep ==
  ASSUME NEW f \in Files, CreateBuffer(f)
  PROVE  StepOk
<1> DEFINE c == <<NewSource("memory", f, Seekable \cup WriteMode \cup {"at_eof"})>>
<1>1. f \in Seq(Bytes)
  BY ContentAssumption
<1>2. Made("buffer", <<f, 0, -1>>, c, "inval")
  BY DEF CreateBuffer
<1>3. IsNewChain(c) /\ c # <<>> /\ c[1].kind = "memory" /\ c[1].data = f
  BY <1>1, NewSourceChain
<1> HIDE DEF c
<1>4. RangeOrNone(c, f, 0, -1)
  BY <1>1, <1>3, WholeRange DEF RangeOrNone
<1> QED BY <1>1, <1>2, <1>4, RangeStep

LEMMA FunctionStep ==
  ASSUME NEW f \in Files, CreateFunction(f)
  PROVE  StepOk
<1> DEFINE c == <<NewSource("function", f, Seekable)>>
<1>1. f \in Seq(Bytes)
  BY ContentAssumption
<1>2. Made("function", <<f, 0, -1>>, c, "inval")
  BY DEF CreateFunction
<1>3. IsNewChain(c) /\ c # <<>> /\ c[1].kind = "function" /\ c[1].data = f
  BY <1>1, NewSourceChain
<1> HIDE DEF c
<1>4. IsRangeOf(c[1].data, f, 0, -1) /\ 0 \in Nat /\ -1 \in Int
  BY <1>1, <1>3, WholeRange
<1> DEFINE call == "function"
           start == 0
           len == -1
           error == "inval"
<1>5. /\ call \notin {"read", "commit_write"} /\ call # "window" /\ call = "function"
      /\ start \in Nat /\ len \in Int /\ IsRangeOf(c[1].data, f, start, len)
      /\ Made(call, <<f, start, len>>, c, error)
  BY <1>2, <1>4
<1> HIDE DEF call, start, len, error
<1> QED BY ONLY <1>1, <1>3, <1>5, MadeKeeps

LEMMA FragmentsStep ==
  ASSUME NEW frags \in Fragments, CreateFragments(frags)
  PROVE  StepOk
<1> DEFINE data == FlattenSeq([k \in DOMAIN frags |-> frags[k].data])
           c == IF FragmentsUsable(frags) THEN MakeMemorySource(data, 0, -1) ELSE <<>>
<1>1. data \in Seq(Bytes)
  BY FragmentBytes
<1>2. Made("fragments", <<data, 0, -1>>, c, "inval")
  BY DEF CreateFragments
<1> HIDE DEF data
<1>3. c = <<>> \/ c = MakeMemorySource(data, 0, -1)
  OBVIOUS
<1> HIDE DEF c
<1>4. RangeOrNone(c, data, 0, -1)
  <2>1. CASE c = <<>>
    BY <2>1 DEF RangeOrNone, IsNewChain
  <2>2. CASE c = MakeMemorySource(data, 0, -1)
    BY <1>1, <2>2, MemorySourceIs DEF RangeOrNone
  <2> QED BY <1>3, <2>1, <2>2
<1> QED BY <1>1, <1>2, <1>4, RangeStep

LEMMA NoneIs ==
  ASSUME NEW data, NEW start, NEW len
  PROVE  RangeOrNone(<<>>, data, start, len)
BY DEF RangeOrNone, IsNewChain

LEMMA FileStep ==
  ASSUME NEW f \in Files, NEW range \in Ranges, NEW io,
         CreateFile(f, range[1], range[2], io)
  PROVE  StepOk
<1>1. f \in Seq(Bytes) /\ range[1] \in Nat /\ range[2] \in Int
  BY ContentAssumption, SizeAssumption
<1>2. RangeOrNone(Ranged(f, range[1], range[2], io), f, range[1], range[2])
  BY <1>1, RangedIs
<1> QED BY <1>1, <1>2, RangeStep DEF CreateFile

LEMMA Win32Step ==
  ASSUME NEW f \in Files, NEW range \in Ranges, NEW io,
         CreateWin32(f, range[1], range[2], io)
  PROVE  StepOk
<1> DEFINE start == range[1]
           len == range[2]
           c == IF len < -2 THEN <<>> ELSE Ranged(f, start, len, io)
           error == IF io # "ok" /\ len >= -2 THEN io ELSE "inval"
<1>1. f \in Seq(Bytes) /\ start \in Nat /\ len \in Int
  BY ContentAssumption, SizeAssumption
<1>2. Made("win32", <<f, start, len>>, c, error)
  BY DEF CreateWin32
<1> HIDE DEF start, len, error
<1>3. RangeOrNone(c, f, start, len)
  BY <1>1, RangedIs, NoneIs
<1> HIDE DEF c
<1> QED BY <1>1, <1>2, <1>3, RangeStep

LEMMA Win32HandleStep ==
  ASSUME NEW f \in Files, NEW at \in 0..Len(f), NEW range \in Ranges, NEW io,
         CreateWin32Handle(f, at, range[1], range[2], io)
  PROVE  StepOk
<1> DEFINE start == range[1]
           len == range[2]
           data == From(f, at)
           c == IF len < -2 THEN <<>> ELSE Ranged(data, start, len, io)
           error == IF io = "read" /\ len >= -2 THEN "read" ELSE "inval"
<1>1. f \in Seq(Bytes) /\ start \in Nat /\ len \in Int
  BY ContentAssumption, SizeAssumption
<1>2. Made("win32", <<data, start, len>>, c, error)
  BY DEF CreateWin32Handle
<1>3. data \in Seq(Bytes)
  <2> DEFINE m == at + 1
             n == Len(f)
  <2>1. n \in Nat /\ \A p \in 1..n : f[p] \in Bytes
    BY <1>1, LenProperties, ElementOfSeq
  <2>2. \A p \in m..n : p \in 1..n
    BY <2>1
  <2>3. m \in Int /\ n \in Int /\ \A p \in m..n : f[p] \in Bytes
    BY <2>1, <2>2
  <2> HIDE DEF m, n
  <2>4. SubSeq(f, m, n) \in Seq(Bytes)
    BY ONLY <2>3, SubSeqProperties
  <2> QED BY <2>4 DEF From, m, n
<1> HIDE DEF start, len, error, data
<1>4. RangeOrNone(c, data, start, len)
  BY <1>1, <1>3, RangedIs, NoneIs
<1> HIDE DEF c
<1> QED BY <1>1, <1>2, <1>3, <1>4, RangeStep

LEMMA ZipStep ==
  ASSUME NEW f \in Files, NEW flags, NEW range \in Ranges, NEW io,
         CreateZip(f, flags, range[1], range[2], io)
  PROVE  StepOk
<1> DEFINE start == range[1]
           len == range[2]
           data == IF flags = "compressed" THEN Compressed(f) ELSE f
           c == Ranged(data, start, len, io)
<1>1. f \in Seq(Bytes) /\ start \in Nat /\ len \in Int
  BY ContentAssumption, SizeAssumption
<1>2. Made("zip", <<data, start, len>>, c, "stale")
  BY DEF CreateZip
<1>3. data \in Seq(Bytes)
  <2>1. <<Magic>> \in Seq(Bytes)
    BY ContentAssumption
  <2>2. Compressed(f) \in Seq(Bytes)
    BY <1>1, <2>1, ConcatProperties DEF Compressed
  <2> QED BY <1>1, <2>2
<1> HIDE DEF start, len, data
<1>4. RangeOrNone(c, data, start, len)
  BY <1>1, <1>3, RangedIs
<1> HIDE DEF c
<1> QED BY <1>1, <1>2, <1>3, <1>4, RangeStep

\* The facts about a chain that is not empty.
LEMMA OpenChain ==
  ASSUME AllInv, ~Empty
  PROVE  /\ Sound(chain) /\ StreamInv /\ chain # <<>>
         /\ Top \in Nat /\ Top > 0 /\ Top \in 1..Len(chain)
         /\ 1 \in 1..Len(chain) /\ IsChain(chain)
         /\ \A j \in 1..Len(chain) : IsSource(chain[j])
         /\ WriteInv /\ DeliverInv
BY DEF AllInv, StreamInv, Sound, IsChain, Empty, Top

\* The bytes and positions stay, the readers too.
LEMMA StaysKeeps ==
  ASSUME AllInv, ~Empty, chain' = chain, NothingWritten, UNCHANGED seen
  PROVE  StreamInv'
<1>1. SameShape(chain, chain)
  BY DEF SameShape
<1>2. Delivering(chain, seen)
  BY OpenChain DEF DeliverInv
<1> QED BY <1>1, <1>2, OpenChain, ShapedKeeps

LEMMA RefuseStep ==
  ASSUME AllInv, ~Empty, NEW call, NEW error, call # "read", Refuse(call, error)
  PROVE  StepOk
<1>1. /\ chain' = chain /\ NothingWritten /\ UNCHANGED seen
      /\ reply' = [call |-> call, arg |-> <<>>, r |-> Failed, error |-> error]
  BY DEF Refuse
<1>2. StreamInv'
  BY <1>1, StaysKeeps
<1>3. reply'.arg = <<>> /\ reply'.call # "read" /\ reply'.r # 0
  BY <1>1 DEF Failed
<1>4. SourceIsRange' /\ ReadWhole' /\ Published' /\ Quiet
  BY <1>1, <1>3 DEF SourceIsRange, ReadWhole, Published, Quiet
<1> QED BY <1>2, <1>4 DEF StepOk, AllInv

LEMMA UnsupportedStep ==
  ASSUME AllInv, ~Empty, NEW call, call \notin {"read", "commit_write"}, Unsupported(call)
  PROVE  StepOk
<1>1. /\ chain' = chain /\ NothingWritten /\ UNCHANGED seen
      /\ reply' = [call |-> call, arg |-> <<>>, r |-> Failed, error |-> "ok"]
  BY DEF Unsupported, Answer
<1>2. StreamInv'
  BY <1>1, StaysKeeps
<1>3. SourceIsRange' /\ ReadWhole' /\ Published' /\ Quiet
  BY <1>1, OtherReply DEF Quiet
<1> QED BY <1>2, <1>3 DEF StepOk, AllInv

LEMMA FreeStep ==
  ASSUME Free
  PROVE  StepOk
<1>1. /\ chain' = <<>> /\ seen' = Unread /\ NothingWritten
      /\ reply' = [call |-> "free", arg |-> <<>>, r |-> 0, error |-> "ok"]
  BY DEF Free, Answer, NothingRead
<1>2. StreamInv'
  BY <1>1, FreshKeeps DEF IsNewChain
<1>3. SourceIsRange' /\ ReadWhole' /\ Published'
  BY <1>1, OtherReply
<1>4. Quiet
  BY <1>1 DEF Quiet, Failed
<1> QED BY <1>2, <1>3, <1>4 DEF StepOk, AllInv

LEMMA LayeredStep ==
  ASSUME AllInv, NEW kind \in Kinds, LayeredCreate(kind)
  PROVE  StepOk
<1> DEFINE below == QuerySupports(chain, Top)
           mask == LayerMask(kind, below[Top].supports) \ Writable
           c == Append(below, NewLayer(kind, mask))
<1>1. ~Empty /\ ~chain[Top].writeOpen /\ Made("layer", <<>>, c, "inval")
  BY DEF LayeredCreate
<1>2. /\ Sound(below) /\ SameShape(chain, below)
  BY <1>1, OpenChain, QueryKeeps DEF Top
<1> HIDE DEF below, mask
<1>3. /\ Sound(c) /\ Len(c) = Len(below) + 1 /\ c # <<>>
      /\ \A j \in 1..Len(below) : c[j] = below[j]
      /\ c[Len(c)].writeOpen = FALSE /\ c[Len(c)].draft = <<>>
  <2>1. Covered(below, c)
    BY <1>2, LayerSound
  <2> HIDE DEF c
  <2> QED BY <2>1 DEF Covered
<1> HIDE DEF c
<1>4. /\ chain' = c /\ seen' = Unread /\ NothingWritten
      /\ reply' = [call |-> "layer", arg |-> <<>>, r |-> 0, error |-> "ok"]
  BY <1>1, <1>3 DEF Made, NothingRead
<1>5. \A j \in 1..Len(chain) : chain[j].writeOpen = FALSE /\ chain[j].draft = <<>>
  <2>1. SessionOk(chain)
    BY <1>1, OpenChain DEF WriteInv
  <2>2. ASSUME NEW j \in 1..Len(chain), chain[j].writeOpen PROVE FALSE
    <3>1. Len(chain) = 1
      BY <2>1, <2>2 DEF SessionOk
    <3>2. j = Top
      BY <3>1 DEF Top
    <3> QED BY <1>1, <2>2, <3>2
  <2> QED BY <2>1, <2>2 DEF SessionOk
<1>6. \A j \in 1..Len(c) : c[j].writeOpen = FALSE /\ c[j].draft = <<>>
  <2>1. Len(below) = Len(chain) /\ Len(chain) \in Nat
    BY <1>1, <1>2, OpenChain DEF SameShape, Top
  <2>2. \A j \in 1..Len(c) : j = Len(c) \/ j \in 1..Len(chain)
    BY <1>3, <2>1
  <2> QED BY <1>2, <1>3, <1>5, <2>1, <2>2 DEF SameShape
<1>7. WriteInv'
  <2>1. Len(chain') \in Nat /\ Len(chain') > 0
    BY <1>3, <1>4 DEF Sound, IsChain
  <2> QED BY <1>4, <1>6, <2>1, WriteNone
<1>8. StreamInv'
  BY <1>3, <1>4, <1>7, UnreadDelivers DEF StreamInv, DeliverInv
<1>9. SourceIsRange' /\ ReadWhole' /\ Published'
  BY <1>4, OtherReply
<1>10. Quiet
  BY <1>4 DEF Quiet, Failed
<1> QED BY <1>8, <1>9, <1>10 DEF StepOk, AllInv

LEMMA OpenStep ==
  ASSUME AllInv, NEW ok \in BOOLEAN, Open(ok)
  PROVE  StepOk
<1> DEFINE o == Opening(chain, ok)
           r == IF o.ok THEN 0 ELSE Failed
<1>1. /\ ~Empty /\ chain' = o.chain /\ NothingWritten
      /\ reply' = [call |-> "open", arg |-> <<>>, r |-> r, error |-> "ok"]
      /\ seen' = [got |-> <<>>, whole |-> o.ok /\ Whole(chain)]
  BY DEF Open, Answer
<1>2. Sound(chain) /\ OpenKeeps(chain, Len(chain), o)
  BY <1>1, OpenChain, OpeningKeeps
<1> HIDE DEF o, r
<1>3. Delivering(chain', seen')
  BY <1>1, <1>2, OpenDelivers
<1>4. StreamInv'
  BY <1>1, <1>2, <1>3, OpenChain, ShapedKeeps DEF OpenKeeps
<1>5. SourceIsRange' /\ ReadWhole' /\ Published' /\ Quiet
  BY <1>1, OtherReply DEF Quiet
<1> QED BY <1>4, <1>5 DEF StepOk, AllInv

LEMMA WindowStep ==
  ASSUME AllInv, NEW ok \in BOOLEAN, CreateWindow(ok)
  PROVE  StepOk
<1> DEFINE open == Opening(chain, ok)
           all == Drained(open.chain, Top, ok)
           c == (IF open.ok THEN all ELSE open).chain
<1>1. ~Empty
  BY DEF CreateWindow
<1>2. OpenKeeps(chain, Len(chain), open) /\ Sound(open.chain) /\ Len(open.chain) = Top
  BY <1>1, OpenChain, OpeningKeeps DEF OpenKeeps, SameShape, Top
<1>3. /\ Sound(all.chain) /\ SameShape(open.chain, all.chain)
      /\ all.got \in Seq(Bytes)
  <2> DEFINE d == open.chain
  <2>1. Sound(d) /\ Top \in 1..Len(d) /\ (Top = Len(d) \/ d[Top + 1].kind = "compress")
    BY <1>1, <1>2, OpenChain
  <2> HIDE DEF d
  <2>2. LET drain == Drained(d, Top, ok)
        IN  Sound(drain.chain) /\ SameShape(d, drain.chain) /\ drain.got \in Seq(Bytes)
    BY <2>1, DrainedKeeps
  <2> QED BY <2>2 DEF d
<1>4. Sound(c) /\ SameShape(chain, c)
  <2>1. SameShape(chain, open.chain)
    BY <1>2 DEF OpenKeeps
  <2>2. SameShape(chain, all.chain)
    BY <1>3, <2>1, SameShapeChain
  <2> HIDE DEF all, open
  <2> QED BY <1>2, <1>3, <2>1, <2>2
<1>5. CASE ~open.ok \/ ~all.ok
  <2>1. /\ chain' = c /\ seen' = Unread /\ NothingWritten
        /\ reply' = [call |-> "unread", arg |-> <<>>, r |-> Failed, error |-> "ok"]
    BY <1>5 DEF CreateWindow, Answer, NothingRead
  <2> HIDE DEF c
  <2>2. StreamInv'
    BY <1>1, <1>4, <2>1, UnreadDelivers, OpenChain, ShapedKeeps
  <2>3. SourceIsRange' /\ ReadWhole' /\ Published' /\ Quiet
    BY <2>1, OtherReply DEF Quiet
  <2> QED BY <2>2, <2>3 DEF StepOk, AllInv
<1>6. CASE ~(~open.ok \/ ~all.ok)
  <2>1. PICK range \in Ranges : Made("window", <<all.got, range[1], range[2]>>,
                                     MakeMemorySource(all.got, range[1], range[2]), "inval")
    BY <1>6 DEF CreateWindow
  <2> DEFINE data == all.got
             start == range[1]
             len == range[2]
             d == MakeMemorySource(data, start, len)
  <2>2. /\ data \in Seq(Bytes) /\ start \in Nat /\ len \in Int
        /\ Made("window", <<data, start, len>>, d, "inval")
    BY <1>3, <2>1, SizeAssumption
  <2> HIDE DEF data, start, len
  <2>3. /\ IsNewChain(d)
        /\ d = <<>> => start > Len(data)
        /\ d # <<>> => IsRangeOf(d[1].data, data, start, len) /\ d[1].kind = "memory"
    BY <2>2, MemorySourceIs
  <2> DEFINE call == "window"
             error == "inval"
  <2>4. /\ call \notin {"read", "commit_write"}
        /\ Made(call, <<data, start, len>>, d, error)
        /\ d = <<>> /\ call = "window" /\ error = "inval" => start > Len(data)
        /\ d # <<>> => /\ IsRangeOf(d[1].data, data, start, len)
                       /\ call = "function" \/ d[1].kind = "memory"
    BY <2>2, <2>3
  <2> HIDE DEF d, call, error
  <2> QED BY ONLY <2>2, <2>3, <2>4, MadeKeeps
<1> QED BY <1>5, <1>6

LEMMA ReadStep ==
  ASSUME AllInv, NEW len \in ReadSizes, NEW ok \in BOOLEAN, Read(len, ok)
  PROVE  StepOk
<1> DEFINE r == Reading(chain, Top, len, ok)
           n == IF r.ok THEN Len(r.got) ELSE Failed
           k == HasBytes(chain, Top)
           s == chain[k]
<1>1. /\ ~Empty /\ chain' = r.chain /\ NothingWritten
      /\ reply' = [call |-> "read", arg |-> <<>>, r |-> n, error |-> "ok"]
      /\ seen' = [seen EXCEPT !.got = IF seen.whole THEN @ \o r.got ELSE @]
  BY DEF Read, Answer
<1>2. len \in Nat /\ len > 0
  BY SizeAssumption
<1>3. ReadKeeps(chain, Top, len, ok, s, r)
  <2>1. Sound(chain) /\ Top \in 1..Len(chain) /\ Top = Len(chain)
    BY <1>1, OpenChain DEF Top
  <2> HIDE DEF Top
  <2> QED BY <1>2, <2>1, ReadingKeeps
<1>4. Sound(chain) /\ Delivering(chain, seen)
  BY <1>1, OpenChain DEF DeliverInv
<1> HIDE DEF r
<1>5. Delivering(chain', seen')
  <2>1. ReadKeeps(chain, Len(chain), len, ok, chain[HasBytes(chain, Len(chain))], r)
    BY <1>3 DEF Top
  <2> QED BY <1>1, <1>4, <2>1, ReadDelivers
<1>6. StreamInv'
  BY <1>1, <1>3, <1>5, OpenChain, ShapedKeeps DEF ReadKeeps
<1>7. SourceIsRange' /\ Published'
  <2>1. reply'.arg = <<>> /\ reply'.call = "read"
    BY <1>1
  <2> QED BY <2>1 DEF SourceIsRange, Published
<1>8. Len(r.got) \in Nat
  BY <1>3, LenProperties DEF ReadKeeps
<1>9. Quiet
  <2>1. reply'.r = n
    BY <1>1
  <2>2. reply'.r = Failed => ~r.ok
    BY <1>8, <2>1 DEF Failed
  <2> QED BY <1>1, <1>3, <2>2 DEF Quiet, ReadKeeps
<1>10. ReadWhole'
  <2> SUFFICES ASSUME seen'.whole, reply'.r = 0 PROVE seen'.got = Content(chain', Len(chain'))
    BY DEF ReadWhole, Top
  <2>1. reply'.r = n
    BY <1>1
  <2>2. r.ok /\ Len(r.got) = 0
    BY <1>8, <2>1 DEF Failed
  <2>3. s.data \in Seq(Bytes) /\ s.pos \in Nat /\ s.pos =< Len(s.data) /\ Len(s.data) \in Nat
    <3>1. k \in 1..Top /\ s.kind \in {"memory", "function", "compress"} /\ k \in 1..Len(chain)
      BY <1>1, OpenChain, HasBytesIs DEF Sound, Top
    <3>2. IsSource(s)
      BY <1>1, <3>1, OpenChain
    <3> HIDE DEF s
    <3> QED BY <3>1, <3>2, LenProperties DEF IsSource
  <2>4. s.pos = Len(s.data) /\ chain'[k].pos = s.pos
    <3>1. Len(r.got) = Low(len, Len(s.data) - s.pos) /\ r.chain[k].pos = s.pos + Len(r.got)
      BY <1>3, <2>2 DEF ReadKeeps
    <3> HIDE DEF s, k
    <3> QED BY <1>1, <1>2, <2>2, <2>3, <3>1 DEF Low
  <2>5. chain'[k].data = s.data
    <3>1. k \in 1..Len(chain)
      BY <1>1, OpenChain, HasBytesIs DEF Sound, Top
    <3> QED BY <1>1, <1>3, <3>1 DEF ReadKeeps
  <2>6. HasBytes(chain', Len(chain')) = k
    <3>1. /\ IsChain(chain) /\ Layered(chain) /\ Top \in 1..Len(chain)
          /\ \A j \in 1..Len(chain) : chain'[j].kind = chain[j].kind
          /\ Len(chain') = Top
      BY <1>1, <1>3, OpenChain DEF Sound, SameShape, ReadKeeps, Top
    <3> HIDE DEF Top
    <3> QED BY <3>1, HasBytesOnly
  <2>7. /\ chain'[k].data = Content(chain', Len(chain'))
        /\ seen'.got = SubSeq(chain'[k].data, 1, chain'[k].pos)
    BY <1>5, <2>6 DEF Delivering
  <2>8. SubSeq(s.data, 1, Len(s.data)) = s.data
    BY <2>3, SubSeqFull
  <2> HIDE DEF s, k
  <2> QED BY <2>4, <2>5, <2>7, <2>8
<1> QED BY <1>6, <1>7, <1>9, <1>10 DEF StepOk, AllInv

LEMMA SeekStep ==
  ASSUME AllInv, NEW t \in Targets, Seek(t[1], t[2])
  PROVE  StepOk
<1> DEFINE s == Seeking(chain, t[1], t[2])
           r == IF s.ok THEN 0 ELSE Failed
<1>1. /\ ~Empty /\ chain' = s.chain /\ NothingWritten /\ seen' = Unread
      /\ reply' = [call |-> "seek", arg |-> <<>>, r |-> r, error |-> "ok"]
  BY DEF Seek, Answer, NothingRead
<1>2. SeekKeeps(chain, s)
  BY <1>1, OpenChain, SeekingKeeps, SizeAssumption
<1> HIDE DEF s
<1>3. StreamInv'
  BY <1>1, <1>2, OpenChain, UnreadDelivers, ShapedKeeps DEF SeekKeeps
<1>4. Quiet
  BY <1>1, <1>2 DEF Quiet, SeekKeeps, Failed
<1> HIDE DEF r
<1>5. SourceIsRange' /\ ReadWhole' /\ Published'
  BY <1>1, OtherReply
<1> QED BY <1>3, <1>4, <1>5 DEF StepOk, AllInv

LEMMA SupportsStep ==
  ASSUME AllInv, AskSupports
  PROVE  StepOk
<1> DEFINE d == QuerySupports(chain, Top)
<1>1. /\ ~Empty /\ chain' = d /\ NothingWritten /\ seen' = seen
      /\ reply' = [call |-> "supports", arg |-> <<>>, r |-> 0, error |-> "ok"]
  BY DEF AskSupports, Answer
<1>2. /\ Sound(d) /\ SameShape(chain, d)
      /\ \A j \in 1..Len(chain) : d[j].data = chain[j].data /\ d[j].pos = chain[j].pos
  BY <1>1, OpenChain, QueryKeeps DEF Top
<1> HIDE DEF d
<1>3. HasBytes(chain, Len(chain)) \in 1..Len(chain)
  BY <1>1, OpenChain, HasBytesIs DEF Sound, Top
<1>4. Delivering(chain', seen')
  BY <1>1, <1>2, <1>3, OpenChain, DeliveringSame DEF DeliverInv
<1>5. StreamInv'
  BY <1>1, <1>2, <1>4, OpenChain, ShapedKeeps
<1>6. SourceIsRange' /\ ReadWhole' /\ Published'
  BY <1>1, OtherReply
<1>7. Quiet
  BY <1>1 DEF Quiet, Failed
<1> QED BY <1>5, <1>6, <1>7 DEF StepOk, AllInv

\* What a write session is.
SessionFits(s, w) ==
  /\ s.writeOpen \in BOOLEAN
  /\ s.writeOpen <=> s.draft # <<>>
  /\ s.writeOpen =>
       /\ s.kind = "memory"
       /\ s.draft \in Seq([out : Seq(Bytes), offset : Nat]) /\ Len(s.draft) = 1
       /\ s.draft[1].out = Asked(w)

LEMMA OneDelivers ==
  ASSUME NEW c, NEW d, NEW w, Sound(c), Sound(d), Len(c) = 1, Len(d) = 1,
         d[1].data = c[1].data, d[1].pos = c[1].pos, Delivering(c, w)
  PROVE  Delivering(d, w)
<1>1. ASSUME NEW e, Sound(e), Len(e) = 1
      PROVE  HasBytes(e, Len(e)) = 1 /\ Content(e, Len(e)) = e[1].data /\ e # <<>>
  <2>1. IsChain(e) /\ Layered(e) /\ 1 \in 1..Len(e)
    BY <1>1 DEF Sound
  <2>2. HasBytes(e, 1) = 1
    BY <2>1, HasBytesIs
  <2>3. Clean(e, 1)
    BY <2>1 DEF Clean, Layered
  <2>4. Content(e, 1) = e[1].data
    BY <2>1, <2>3, ContentOfClean
  <2>5. e # <<>>
    <3>1. Len(<<>>) = 0
      OBVIOUS
    <3> QED BY <1>1, <3>1
  <2> QED BY <1>1, <2>2, <2>4, <2>5
<1> QED BY <1>1 DEF Delivering

\* The only source is changed.
LEMMA OneChanged ==
  ASSUME AllInv, ~Empty, Len(chain) = 1, NEW s, IsSource(s), s.kind = chain[1].kind,
         Replaced(chain, 1, s, chain')
  PROVE  Sound(chain') /\ Len(chain') = 1 /\ chain'[1] = s /\ chain' # <<>>
<1>1. /\ IsChain(chain) /\ 1 \in 1..Len(chain) /\ chain[1].kind \in {"memory", "function"}
  BY OpenChain DEF Sound, Layered
<1>2. IsChain(chain') /\ Len(chain') = 1 /\ chain'[1] = s
  <2>1. IsChain(chain') /\ Len(chain') = Len(chain) /\ chain'[1] = s
    BY ONLY <1>1, Replaced(chain, 1, s, chain'), ChainExcept
  <2> QED BY <2>1
<1>3. chain' # <<>>
  <2>1. Len(<<>>) = 0
    OBVIOUS
  <2> QED BY <1>2, <2>1
<1> QED BY <1>1, <1>2, <1>3, OneSound

LEMMA SessionKeeps ==
  ASSUME AllInv, ~Empty, Len(chain) = 1, NEW s, IsSource(s), s.kind = chain[1].kind,
         Replaced(chain, 1, s, chain'), IsWritten(wrote'), SessionFits(s, wrote'),
         seen' = Unread \/ (seen' = seen /\ s.data = chain[1].data /\ s.pos = chain[1].pos)
  PROVE  StreamInv'
<1>1. Sound(chain') /\ Len(chain') = 1 /\ chain'[1] = s /\ chain' # <<>>
  BY OneChanged
<1>2. DeliverInv'
  <2>1. CASE seen' = Unread
    BY <2>1, UnreadDelivers DEF DeliverInv
  <2>2. CASE seen' = seen /\ s.data = chain[1].data /\ s.pos = chain[1].pos
    <3>1. Sound(chain) /\ Delivering(chain, seen)
      BY OpenChain DEF DeliverInv
    <3>2. Delivering(chain', seen)
      BY <1>1, <2>2, <3>1, OneDelivers
    <3> QED BY <2>2, <3>2 DEF DeliverInv
  <2> QED BY <2>1, <2>2
<1>3. WriteInv'
  <2>1. \A j \in 1..Len(chain') : j = 1
    BY <1>1
  <2>2. SessionOk(chain')
    BY <1>1, <2>1 DEF SessionOk, SessionFits
  <2> QED BY <1>1, <2>2 DEF WriteInv, SessionFits
<1> QED BY <1>1, <1>2, <1>3 DEF StreamInv

\* The reply of a call of a session.
LEMMA SessionReply ==
  ASSUME NEW call, NEW r, call \notin {"read", "commit_write"}, r # Failed,
         reply' = [call |-> call, arg |-> <<>>, r |-> r, error |-> "ok"], StreamInv'
  PROVE  StepOk
<1>1. SourceIsRange' /\ ReadWhole' /\ Published'
  BY OtherReply
<1>2. Quiet
  BY DEF Quiet
<1> QED BY <1>1, <1>2 DEF StepOk, AllInv

LEMMA OpenSession ==
  ASSUME AllInv, ~Empty, IsOpen, ~IsLayered
  PROVE  /\ Len(chain) = 1 /\ IsSource(chain[1]) /\ IsWritten(wrote)
         /\ SessionFits(chain[1], wrote) /\ chain[1].writeOpen
         /\ chain[1].draft[1] \in [out : Seq(Bytes), offset : Nat]
<1>1. Len(chain) = 1 /\ 1 \in 1..Len(chain) /\ IsSource(chain[1]) /\ WriteInv /\ chain # <<>>
  <2>1. Top \in Nat /\ Top > 0 /\ WriteInv /\ chain # <<>>
        /\ \A j \in 1..Len(chain) : IsSource(chain[j])
    BY OpenChain
  <2>2. Top = 1
    BY <2>1 DEF IsLayered
  <2> QED BY <2>1, <2>2 DEF Top
<1>2. chain[1].writeOpen
  BY <1>1 DEF IsOpen, Top
<1>3. SessionFits(chain[1], wrote) /\ IsWritten(wrote)
  BY <1>1, <1>2 DEF WriteInv, SessionOk, SessionFits
<1>4. chain[1].draft[1] \in [out : Seq(Bytes), offset : Nat]
  <2> DEFINE draft == chain[1].draft
             Sess == [out : Seq(Bytes), offset : Nat]
  <2>1. draft \in Seq(Sess) /\ 1 \in 1..Len(draft)
    BY <1>2, <1>3 DEF SessionFits
  <2> HIDE DEF draft, Sess
  <2>2. draft[1] \in Sess
    BY <2>1, ElementOfSeq
  <2> QED BY <2>2 DEF draft, Sess
<1> QED BY <1>1, <1>2, <1>3, <1>4

\* A source with another draft.
DraftIs(s, draft, open, t) == t = [s EXCEPT !.draft = draft, !.writeOpen = open]

LEMMA DraftSet ==
  ASSUME NEW s, IsSource(s), NEW draft, NEW open, NEW t, DraftIs(s, draft, open, t)
  PROVE  /\ IsSource(t) /\ t.kind = s.kind /\ t.data = s.data /\ t.pos = s.pos
         /\ t.draft = draft /\ t.writeOpen = open
<1>1. /\ SourceFields \subseteq DOMAIN t
      /\ t.kind = s.kind /\ t.data = s.data /\ t.pos = s.pos /\ t.hashed = s.hashed
      /\ t.draft = draft /\ t.writeOpen = open
  BY DEF IsSource, SourceFields, DraftIs
<1> QED BY <1>1 DEF IsSource

\* Where the draft of the only source is set, the source is replaced.
LEMMA DraftReplaced ==
  ASSUME NEW c, IsChain(c), Len(c) = 1, NEW draft, NEW open
  PROVE  Replaced(c, 1, [c[1] EXCEPT !.draft = draft, !.writeOpen = open],
                  [c EXCEPT ![1].draft = draft, ![1].writeOpen = open])
<1> DEFINE s == [c[1] EXCEPT !.draft = draft]
           t == [s EXCEPT !.writeOpen = open]
           d == [c EXCEPT ![1] = s]
           e == [d EXCEPT ![1].writeOpen = open]
<1>1. c = [j \in 1..1 |-> c[j]]
  BY DEF IsChain
<1>2. d[1] = s
  BY <1>1
<1>3. e = [d EXCEPT ![1] = t]
  BY <1>2
<1>4. e = [c EXCEPT ![1] = t]
  <2> HIDE DEF s, t
  <2> QED BY <1>3
<1> QED BY <1>4 DEF Replaced

\* A session that starts from base.
LEMMA SessionStarts ==
  ASSUME AllInv, ~Empty, IsMemory, NEW base \in Seq(Bytes),
         chain' = [chain EXCEPT ![1].draft = Session(base), ![1].writeOpen = TRUE],
         reply' = [call |-> "begin_write", arg |-> <<>>, r |-> 0, error |-> "ok"],
         wrote' = [base |-> base, ops |-> <<>>], UNCHANGED seen
  PROVE  StepOk
<1> DEFINE draft == Session(base)
           s == [chain[1] EXCEPT !.draft = draft, !.writeOpen = TRUE]
<1>1. Len(chain) = 1 /\ IsSource(chain[1]) /\ chain[1].kind = "memory" /\ IsChain(chain)
  <2>1. 1 \in 1..Len(chain)
    BY OpenChain
  <2> QED BY <2>1, OpenChain DEF IsMemory, Top
<1>2. /\ draft \in Seq([out : Seq(Bytes), offset : Nat]) /\ Len(draft) = 1
      /\ draft[1].out = base /\ draft # <<>>
  <2>1. Len(base) \in Nat
    BY LenProperties
  <2> QED BY <2>1 DEF Session
<1> HIDE DEF draft
<1>3. Replaced(chain, 1, s, chain')
  <2>1. chain' = [chain EXCEPT ![1].draft = draft, ![1].writeOpen = TRUE]
    BY DEF draft
  <2>2. Replaced(chain, 1, s, [chain EXCEPT ![1].draft = draft, ![1].writeOpen = TRUE])
    BY <1>1, DraftReplaced
  <2> HIDE DEF s
  <2> QED BY <2>1, <2>2
<1>4. /\ IsSource(s) /\ s.kind = "memory" /\ s.data = chain[1].data /\ s.pos = chain[1].pos
      /\ s.draft = draft /\ s.writeOpen = TRUE
  <2> DEFINE open == TRUE
  <2>1. DraftIs(chain[1], draft, open, s)
    BY DEF DraftIs
  <2> HIDE DEF s, open
  <2>2. /\ IsSource(s) /\ s.kind = chain[1].kind /\ s.data = chain[1].data
        /\ s.pos = chain[1].pos /\ s.draft = draft /\ s.writeOpen = open
    BY <1>1, <2>1, DraftSet
  <2> QED BY <1>1, <2>2 DEF open
<1> HIDE DEF s
<1>5. IsWritten(wrote') /\ Asked(wrote') = base
  BY SessionBase
<1>6. SessionFits(s, wrote')
  BY <1>2, <1>4, <1>5 DEF SessionFits
<1>7. StreamInv'
  BY <1>1, <1>3, <1>4, <1>5, <1>6, SessionKeeps
<1> QED BY <1>7, SessionReply DEF Failed

LEMMA BeginStep ==
  ASSUME AllInv, BeginWrite
  PROVE  StepOk
<1>1. ~Empty
  BY DEF BeginWrite
<1>2. ASSUME NEW error, Refuse("begin_write", error)
      PROVE  StepOk
  BY <1>1, <1>2, RefuseStep
<1>3. ASSUME Unsupported("begin_write")
      PROVE  StepOk
  BY <1>1, <1>3, UnsupportedStep
<1>4. ASSUME IsMemory,
             Answer("begin_write", <<>>,
                    [chain EXCEPT ![1].draft = Session(<<>>), ![1].writeOpen = TRUE], 0),
             wrote' = Unwritten, UNCHANGED seen
      PROVE  StepOk
  <2> DEFINE base == <<>>
  <2>1. /\ base \in Seq(Bytes)
        /\ chain' = [chain EXCEPT ![1].draft = Session(base), ![1].writeOpen = TRUE]
        /\ reply' = [call |-> "begin_write", arg |-> <<>>, r |-> 0, error |-> "ok"]
        /\ wrote' = [base |-> base, ops |-> <<>>]
    BY <1>4 DEF Answer, Unwritten
  <2> HIDE DEF base
  <2> QED BY <1>1, <1>4, <2>1, SessionStarts
<1> QED BY <1>2, <1>3, <1>4 DEF BeginWrite

LEMMA BeginCloningStep ==
  ASSUME AllInv, NEW n \in 0..MaxBytes, BeginWriteCloning(n)
  PROVE  StepOk
<1> DEFINE base == SubSeq(chain[1].data, 1, n)
<1>1. ~Empty
  BY DEF BeginWriteCloning
<1>2. ASSUME NEW error, Refuse("begin_write", error)
      PROVE  StepOk
  BY <1>1, <1>2, RefuseStep
<1>3. ASSUME Unsupported("begin_write")
      PROVE  StepOk
  BY <1>1, <1>3, UnsupportedStep
<1>4. ASSUME IsMemory, n =< Len(chain[1].data),
             Answer("begin_write", <<>>,
                    [chain EXCEPT ![1].draft = Session(base), ![1].writeOpen = TRUE], 0),
             wrote' = [base |-> base, ops |-> <<>>], UNCHANGED seen
      PROVE  StepOk
  <2>1. base \in Seq(Bytes)
    <3> DEFINE data == chain[1].data
               m == 1
    <3>1. data \in Seq(Bytes) /\ n =< Len(data) /\ m = 1
      BY <1>1, <1>4, OpenChain DEF IsSource
    <3> HIDE DEF data
    <3>2. Len(data) \in Nat /\ \A p \in 1..Len(data) : data[p] \in Bytes
      BY <3>1, LenProperties, ElementOfSeq
    <3>3. m \in Int /\ n \in Int /\ \A p \in m..n : data[p] \in Bytes
      BY <3>1, <3>2
    <3> HIDE DEF m
    <3>4. SubSeq(data, m, n) \in Seq(Bytes)
      BY ONLY <3>3, SubSeqProperties
    <3> QED BY <3>4 DEF data, m
  <2>2. /\ chain' = [chain EXCEPT ![1].draft = Session(base), ![1].writeOpen = TRUE]
        /\ reply' = [call |-> "begin_write", arg |-> <<>>, r |-> 0, error |-> "ok"]
    BY <1>4 DEF Answer
  <2> HIDE DEF base
  <2> QED BY <1>1, <1>4, <2>1, <2>2, SessionStarts
<1> HIDE DEF base
<1> QED BY <1>2, <1>3, <1>4 DEF BeginWriteCloning, base

\* A source with another draft, in the same session.
Redrafted(s, draft, t) == t = [s EXCEPT !.draft = draft]

LEMMA RedraftedIs ==
  ASSUME NEW s, IsSource(s), NEW draft, NEW t, Redrafted(s, draft, t)
  PROVE  /\ IsSource(t) /\ t.kind = s.kind /\ t.data = s.data /\ t.pos = s.pos
         /\ t.draft = draft /\ t.writeOpen = s.writeOpen
<1>1. /\ SourceFields \subseteq DOMAIN t
      /\ t.kind = s.kind /\ t.data = s.data /\ t.pos = s.pos /\ t.hashed = s.hashed
      /\ t.draft = draft /\ t.writeOpen = s.writeOpen
  BY DEF IsSource, SourceFields, Redrafted
<1> QED BY <1>1 DEF IsSource

\* The draft of an open session is replaced by d.
LEMMA SessionGoesOn ==
  ASSUME AllInv, ~Empty, IsOpen, ~IsLayered,
         NEW d \in [out : Seq(Bytes), offset : Nat], NEW s,
         Redrafted(chain[1], <<d>>, s), Replaced(chain, 1, s, chain'),
         IsWritten(wrote'), d.out = Asked(wrote'), UNCHANGED seen
  PROVE  StreamInv'
<1> DEFINE draft == <<d>>
<1>1. /\ Len(chain) = 1 /\ IsSource(chain[1])
      /\ SessionFits(chain[1], wrote) /\ chain[1].writeOpen
  BY OpenSession
<1>2. /\ draft \in Seq([out : Seq(Bytes), offset : Nat]) /\ Len(draft) = 1
      /\ draft[1] = d /\ draft # <<>> /\ Redrafted(chain[1], draft, s)
  OBVIOUS
<1> HIDE DEF draft
<1>3. /\ IsSource(s) /\ s.kind = chain[1].kind /\ s.data = chain[1].data
      /\ s.pos = chain[1].pos /\ s.draft = draft /\ s.writeOpen = chain[1].writeOpen
  <2> DEFINE old == chain[1]
  <2>1. IsSource(old) /\ Redrafted(old, draft, s)
    BY <1>1, <1>2
  <2> HIDE DEF old
  <2>2. /\ IsSource(s) /\ s.kind = old.kind /\ s.data = old.data /\ s.pos = old.pos
        /\ s.draft = draft /\ s.writeOpen = old.writeOpen
    BY ONLY <2>1, RedraftedIs
  <2> QED BY <2>2 DEF old
<1>4. SessionFits(s, wrote')
  BY <1>1, <1>2, <1>3 DEF SessionFits
<1> QED BY <1>1, <1>3, <1>4, SessionKeeps

LEMMA WriteStep ==
  ASSUME AllInv, NEW data \in WriteData, Write(data)
  PROVE  StepOk
<1> DEFINE d == chain[1].draft[1]
           out == WrittenAt(d.out, d.offset, data)
           e == [out |-> out, offset |-> d.offset + Len(data)]
           s == [chain[1] EXCEPT !.draft = <<e>>]
           n == Len(data)
<1>1. ~Empty /\ data \in Seq(Bytes) /\ n \in Nat
  BY ContentAssumption, LenProperties DEF Write
<1>2. CASE ~IsOpen
  <2>1. Refuse("write", "inval")
    BY <1>2 DEF Write
  <2> QED BY <1>1, <2>1, RefuseStep
<1>3. CASE IsOpen
  <2>1. /\ ~IsLayered /\ UNCHANGED seen
        /\ chain' = [chain EXCEPT ![1].draft = <<e>>]
        /\ reply' = [call |-> "write", arg |-> <<>>, r |-> n, error |-> "ok"]
        /\ wrote' = [wrote EXCEPT !.ops = Append(@, [at |-> d.offset, data |-> data])]
    BY <1>3 DEF Write, Answer
  <2>2. /\ d \in [out : Seq(Bytes), offset : Nat] /\ IsWritten(wrote)
        /\ SessionFits(chain[1], wrote) /\ chain[1].writeOpen
    BY <1>1, <1>3, <2>1, OpenSession
  <2>3. d.out \in Seq(Bytes) /\ d.offset \in Nat /\ d.out = Asked(wrote)
    BY <2>2 DEF SessionFits
  <2>4. e \in [out : Seq(Bytes), offset : Nat] /\ e.out = out
    <3>1. out \in Seq(Bytes) /\ d.offset + n \in Nat
      BY <1>1, <2>3, WrittenBytes
    <3> HIDE DEF out, d
    <3> QED BY <3>1
  <2>5. IsWritten(wrote') /\ Asked(wrote') = out
    <3> DEFINE at == d.offset
               v == [base |-> wrote.base, ops |-> Append(wrote.ops, [at |-> at, data |-> data])]
    <3>1. wrote' = v
      BY <2>1, <2>2 DEF IsWritten
    <3>2. at \in Nat /\ out = WrittenAt(Asked(wrote), at, data)
      BY <2>3
    <3> HIDE DEF at, out
    <3>3. IsWritten(v) /\ Asked(v) = WrittenAt(Asked(wrote), at, data)
      <4> DEFINE u == v
      <4>1. u = [base |-> wrote.base, ops |-> Append(wrote.ops, [at |-> at, data |-> data])]
        OBVIOUS
      <4> HIDE DEF u, v
      <4>2. IsWritten(u) /\ Asked(u) = WrittenAt(Asked(wrote), at, data)
        BY <1>1, <2>2, <3>2, <4>1, AskedNext
      <4> QED BY <4>2 DEF u
    <3> HIDE DEF v
    <3> QED BY <3>1, <3>2, <3>3
  <2>6. Redrafted(chain[1], <<e>>, s) /\ Replaced(chain, 1, s, chain')
    <3> HIDE DEF e
    <3> QED BY <2>1 DEF Redrafted, Replaced
  <2> HIDE DEF d, out, e, s
  <2>7. StreamInv'
    BY <1>1, <1>3, <2>1, <2>4, <2>5, <2>6, SessionGoesOn
  <2>8. n # Failed
    BY <1>1 DEF Failed
  <2> HIDE DEF n
  <2> QED BY <2>1, <2>7, <2>8, SessionReply
<1> QED BY <1>2, <1>3

LEMMA SeekWriteStep ==
  ASSUME AllInv, NEW to, NEW whence, to \in Int, SeekWrite(to, whence)
  PROVE  StepOk
<1> DEFINE d == chain[1].draft[1]
           t == WriteTarget(d, to, whence)
<1>1. ~Empty
  BY DEF SeekWrite, InSession
<1>2. ASSUME NEW error, Refuse("seek_write", error)
      PROVE  StepOk
  BY <1>1, <1>2, RefuseStep
<1>3. ASSUME ~IsLayered, IsOpen, ~(t < 0),
             Answer("seek_write", <<>>, [chain EXCEPT ![1].draft[1].offset = t], 0),
             NothingWritten, UNCHANGED seen
      PROVE  StepOk
  <2> DEFINE draft == chain[1].draft
             e == [d EXCEPT !.offset = t]
             s == [chain[1] EXCEPT !.draft = <<e>>]
  <2>1. /\ d \in [out : Seq(Bytes), offset : Nat] /\ IsWritten(wrote)
        /\ SessionFits(chain[1], wrote) /\ chain[1].writeOpen
        /\ Len(chain) = 1 /\ IsSource(chain[1])
    BY <1>1, <1>3, OpenSession
  <2>2. d.out \in Seq(Bytes) /\ d.offset \in Nat /\ d.out = Asked(wrote) /\ Len(d.out) \in Nat
    BY <2>1, LenProperties DEF SessionFits
  <2>3. t \in Nat
    BY <1>3, <2>2 DEF WriteTarget, Failed
  <2> HIDE DEF t
  <2>4. e \in [out : Seq(Bytes), offset : Nat] /\ e.out = d.out
    <3> HIDE DEF d
    <3> QED BY <2>1, <2>3
  <2>5. Redrafted(chain[1], <<e>>, s) /\ Replaced(chain, 1, s, chain')
    <3>1. [draft EXCEPT ![1] = e] = <<e>>
      <4> DEFINE Sess == [out : Seq(Bytes), offset : Nat]
      <4>1. draft \in Seq(Sess) /\ Len(draft) = 1
        BY <2>1 DEF SessionFits
      <4> HIDE DEF draft, e, Sess
      <4>2. draft = [j \in 1..1 |-> draft[j]]
        BY <4>1, LenProperties
      <4>3. [draft EXCEPT ![1] = e] = [j \in 1..1 |-> e]
        BY <4>2
      <4> QED BY <4>3
    <3>2. chain' = [chain EXCEPT ![1].draft[1].offset = t]
      BY <1>3 DEF Answer
    <3>3. chain' = [chain EXCEPT ![1] = [chain[1] EXCEPT !.draft = [draft EXCEPT ![1] = e]]]
      BY <3>2
    <3> QED BY <3>1, <3>3 DEF Redrafted, Replaced
  <2>6. chain' # <<>> /\ chain'[1].draft # <<>>
    <3> DEFINE one == <<e>>
    <3>1. one # <<>> /\ Redrafted(chain[1], one, s)
      BY <2>5
    <3> HIDE DEF one, s, e
    <3>2. s.draft = one /\ IsSource(s) /\ s.kind = chain[1].kind
      BY <2>1, <3>1, RedraftedIs
    <3>3. chain' # <<>> /\ chain'[1] = s
      BY <1>1, <2>1, <2>5, <3>2, OneChanged
    <3> QED BY <3>1, <3>2, <3>3
  <2>7. wrote' = wrote
    BY <1>3, <2>6 DEF NothingWritten
  <2>8. IsWritten(wrote') /\ e.out = Asked(wrote')
    <3> HIDE DEF d, e
    <3> QED BY <2>1, <2>2, <2>4, <2>7
  <2> HIDE DEF e, s, d
  <2>9. StreamInv'
    BY <1>1, <1>3, <2>4, <2>5, <2>8, SessionGoesOn
  <2>10. reply' = [call |-> "seek_write", arg |-> <<>>, r |-> 0, error |-> "ok"]
    BY <1>3 DEF Answer
  <2> QED BY <2>9, <2>10, SessionReply DEF Failed
<1> QED BY <1>2, <1>3 DEF SeekWrite, InSession

LEMMA CommitStep ==
  ASSUME AllInv, CommitWrite
  PROVE  StepOk
<1> DEFINE out == chain[1].draft[1].out
           s == [Committed(chain[1]) EXCEPT !.writeOpen = FALSE]
<1>1. ~Empty
  BY DEF CommitWrite, InSession
<1>2. ASSUME NEW error, Refuse("commit_write", error)
      PROVE  StepOk
  BY <1>1, <1>2, RefuseStep
<1>3. ASSUME ~IsLayered, IsOpen,
             Answer("commit_write", <<>>,
                    [chain EXCEPT ![1] = [Committed(@) EXCEPT !.writeOpen = FALSE]], 0),
             NothingRead, UNCHANGED wrote
      PROVE  StepOk
  <2>1. /\ chain[1].draft[1] \in [out : Seq(Bytes), offset : Nat] /\ IsWritten(wrote)
        /\ SessionFits(chain[1], wrote) /\ chain[1].writeOpen
        /\ Len(chain) = 1 /\ IsSource(chain[1])
    BY <1>1, <1>3, OpenSession
  <2>2. out \in Seq(Bytes) /\ out = Asked(wrote) /\ Len(out) \in Nat /\ chain[1].kind = "memory"
    <3>1. out \in Seq(Bytes) /\ out = Asked(wrote) /\ chain[1].kind = "memory"
      BY <2>1 DEF SessionFits
    <3> HIDE DEF out
    <3> QED BY <3>1, LenProperties
  <2>3. /\ SourceFields \subseteq DOMAIN s
        /\ s.kind = chain[1].kind /\ s.data = out /\ s.pos = 0 /\ s.size = Len(out)
        /\ s.hashed = chain[1].hashed /\ s.draft = <<>> /\ s.writeOpen = FALSE
    BY <2>1 DEF IsSource, SourceFields, Committed
  <2>4. Replaced(chain, 1, s, chain')
    BY <1>3 DEF Replaced, Answer
  <2> HIDE DEF out, s
  <2>5. IsSource(s)
    BY <2>1, <2>2, <2>3 DEF IsSource
  <2>6. /\ seen' = Unread /\ wrote' = wrote
        /\ reply' = [call |-> "commit_write", arg |-> <<>>, r |-> 0, error |-> "ok"]
    BY <1>3 DEF Answer, NothingRead
  <2>7. SessionFits(s, wrote')
    BY <2>3 DEF SessionFits
  <2>8. StreamInv'
    BY <1>1, <2>1, <2>3, <2>4, <2>5, <2>6, <2>7, SessionKeeps
  <2>9. chain'[1] = s
    BY <1>1, <2>1, <2>3, <2>4, <2>5, OneChanged
  <2>10. Published'
    <3>1. chain'[1].data = Asked(wrote') /\ Stat(chain'[1]) = <<Len(Asked(wrote'))>>
      BY <2>2, <2>3, <2>6, <2>9 DEF Stat
    <3> QED BY <3>1 DEF Published
  <2>11. SourceIsRange' /\ ReadWhole' /\ Quiet
    BY <2>6 DEF SourceIsRange, ReadWhole, Quiet, Failed
  <2> QED BY <2>8, <2>10, <2>11 DEF StepOk, AllInv
<1> QED BY <1>2, <1>3 DEF CommitWrite, InSession

LEMMA RollbackStep ==
  ASSUME AllInv, RollbackWrite
  PROVE  StepOk
<1> DEFINE draft == <<>>
           open == FALSE
           s == [chain[1] EXCEPT !.draft = draft, !.writeOpen = open]
<1>1. /\ ~Empty /\ NothingWritten /\ seen' = seen
      /\ reply' = [call |-> "rollback_write", arg |-> <<>>, r |-> 0, error |-> "ok"]
      /\ IsLayered => chain' = chain
      /\ ~IsLayered => chain' = [chain EXCEPT ![1].draft = draft, ![1].writeOpen = open]
  BY DEF RollbackWrite, Answer
<1>2. draft = <<>> /\ open = FALSE
  OBVIOUS
<1> HIDE DEF draft, open
<1>3. ASSUME IsLayered PROVE StreamInv'
  BY <1>1, <1>3, StaysKeeps
<1>4. ASSUME ~IsLayered PROVE StreamInv'
  <2>1. Len(chain) = 1 /\ IsChain(chain) /\ IsSource(chain[1])
    <3>1. /\ Top \in Nat /\ Top > 0 /\ 1 \in 1..Len(chain) /\ IsChain(chain)
          /\ \A j \in 1..Len(chain) : IsSource(chain[j])
      BY <1>1, OpenChain
    <3>2. Top = 1
      BY <1>4, <3>1 DEF IsLayered
    <3> QED BY <3>1, <3>2 DEF Top
  <2>2. Replaced(chain, 1, s, chain')
    <3>1. Replaced(chain, 1, s, [chain EXCEPT ![1].draft = draft, ![1].writeOpen = open])
      BY <2>1, DraftReplaced
    <3> HIDE DEF s
    <3> QED BY <1>1, <1>4, <3>1
  <2>3. /\ IsSource(s) /\ s.kind = chain[1].kind /\ s.data = chain[1].data
        /\ s.pos = chain[1].pos /\ s.draft = <<>> /\ s.writeOpen = FALSE
    <3>1. DraftIs(chain[1], draft, open, s)
      BY DEF DraftIs
    <3> HIDE DEF s
    <3> QED BY <1>2, <2>1, <3>1, DraftSet
  <2> HIDE DEF s
  <2>4. chain'[1] = s
    BY <1>1, <2>1, <2>2, <2>3, OneChanged
  <2>5. wrote' = Unwritten
    BY <1>1, <2>3, <2>4 DEF NothingWritten
  <2>6. IsWritten(wrote') /\ SessionFits(s, wrote')
    BY <2>3, <2>5, UnwrittenIs DEF SessionFits
  <2> QED BY <1>1, <2>1, <2>2, <2>3, <2>6, SessionKeeps
<1> QED BY <1>1, <1>3, <1>4, SessionReply DEF Failed

----------------------------------------------------------------------------
(* The invariant and the action property.                                  *)

LEMMA InitOk == Init => AllInv
<1> SUFFICES ASSUME Init PROVE AllInv
  OBVIOUS
<1>1. /\ chain = <<>> /\ seen = Unread /\ wrote = Unwritten
      /\ reply = [call |-> "none", arg |-> <<>>, r |-> 0, error |-> "ok"]
  BY DEF Init
<1>2. SessionOk(chain)
  <2>1. Len(chain) = 0 /\ 1..0 = {}
    BY <1>1
  <2> QED BY <2>1 DEF SessionOk
<1>3. StreamInv
  BY <1>1, <1>2, UnreadDelivers, UnwrittenIs DEF StreamInv, DeliverInv, WriteInv
<1>4. SourceIsRange /\ ReadWhole /\ Published
  BY <1>1 DEF SourceIsRange, ReadWhole, Published
<1> QED BY <1>3, <1>4 DEF AllInv

LEMMA NextOk ==
  ASSUME AllInv, [Next]_vars
  PROVE  StepOk
<1>1. ASSUME NEW f \in Files, CreateBuffer(f) \/ CreateFunction(f)
      PROVE  StepOk
  BY <1>1, BufferStep, FunctionStep
<1>2. ASSUME NEW frags \in Fragments, CreateFragments(frags)
      PROVE  StepOk
  BY <1>2, FragmentsStep
<1>3. ASSUME NEW f \in Files, NEW range \in Ranges, NEW io \in {"ok", "open", "read"},
             \/ CreateFile(f, range[1], range[2], io)
             \/ CreateWin32(f, range[1], range[2], io)
             \/ \E at \in 0..Len(f) : CreateWin32Handle(f, at, range[1], range[2], io)
             \/ \E flags \in {"compressed", "none"} :
                  CreateZip(f, flags, range[1], range[2], io)
      PROVE  StepOk
  BY <1>3, FileStep, Win32Step, Win32HandleStep, ZipStep
<1>4. ASSUME NEW kind \in Kinds, LayeredCreate(kind)
      PROVE  StepOk
  BY <1>4, LayeredStep
<1>5. ASSUME NEW ok \in BOOLEAN,
             CreateWindow(ok) \/ Open(ok) \/ \E len \in ReadSizes : Read(len, ok)
      PROVE  StepOk
  BY <1>5, WindowStep, OpenStep, ReadStep
<1>6. ASSUME NEW t \in Targets, Seek(t[1], t[2]) \/ SeekWrite(t[1], t[2])
      PROVE  StepOk
  <2>1. t[1] \in Int
    BY SizeAssumption
  <2>2. CASE Seek(t[1], t[2])
    BY <2>2, SeekStep
  <2>3. CASE SeekWrite(t[1], t[2])
    BY <2>1, <2>3, SeekWriteStep
  <2> QED BY <1>6, <2>2, <2>3
<1>7. CASE AskSupports \/ Free \/ BeginWrite \/ CommitWrite \/ RollbackWrite
  BY <1>7, SupportsStep, FreeStep, BeginStep, CommitStep, RollbackStep
<1>8. ASSUME NEW n \in 0..MaxBytes, BeginWriteCloning(n)
      PROVE  StepOk
  BY <1>8, BeginCloningStep
<1>9. ASSUME NEW data \in WriteData, Write(data)
      PROVE  StepOk
  BY <1>9, WriteStep
<1>10. CASE UNCHANGED vars
  <2>1. chain' = chain /\ reply' = reply /\ seen' = seen /\ wrote' = wrote
    BY <1>10 DEF vars
  <2>2. StreamInv'
    BY <2>1 DEF AllInv, StreamInv, DeliverInv, WriteInv
  <2>3. SourceIsRange' /\ ReadWhole' /\ Published' /\ Quiet
    BY <2>1 DEF AllInv, SourceIsRange, ReadWhole, Published, Quiet, Top
  <2> QED BY <2>2, <2>3 DEF StepOk, AllInv
<1> QED BY <1>1, <1>2, <1>3, <1>4, <1>5, <1>6, <1>7, <1>8, <1>9, <1>10 DEF Next

\* A CRC layer has hashed a prefix of what is below, and all of it once it says so.
LEMMA CrcLayerIs ==
  ASSUME StreamInv, NEW i \in CrcLayers, chain[i].from = "start"
  PROVE  /\ IsPrefix(chain[i].hashed, Content(chain, i - 1))
         /\ chain[i].pos = Tell(chain, i - 1)
         /\ CrcIsComplete(i)
<1>1. Sound(chain) /\ i \in 1..Len(chain) /\ chain[i].kind = "crc"
  <2>1. i \in DOMAIN chain /\ chain[i].kind = "crc"
    BY DEF CrcLayers
  <2>2. chain # <<>>
    BY <2>1
  <2>3. Sound(chain)
    BY <2>2 DEF StreamInv
  <2>4. DOMAIN chain = 1..Len(chain)
    BY <2>3 DEF Sound, IsChain
  <2> QED BY <2>1, <2>3, <2>4
<1>2. /\ IsChain(chain) /\ Layered(chain) /\ Len(chain) \in Nat
      /\ i \in 2..Len(chain) /\ i - 1 \in 1..Len(chain) /\ 1 \in 1..Len(chain)
      /\ \A j \in 1..Len(chain) : IsSource(chain[j])
      /\ CrcInStep(chain, i)
  <2>1. /\ IsChain(chain) /\ Layered(chain) /\ Len(chain) \in Nat
        /\ \A j \in 1..Len(chain) : IsSource(chain[j])
        /\ \A j \in 2..Len(chain) : chain[j].kind = "crc" => CrcInStep(chain, j)
    BY <1>1 DEF Sound, IsChain
  <2>2. i # 1
    BY <1>1, <2>1 DEF Layered
  <2>3. i \in 2..Len(chain) /\ i - 1 \in 1..Len(chain) /\ 1 \in 1..Len(chain)
    BY <1>1, <2>1, <2>2
  <2> QED BY <1>1, <2>1, <2>3
<1>3. /\ Clean(chain, i) /\ Covers(chain[i], chain[1].data)
      /\ \A j \in 2..i : chain[j].kind = "crc" => chain[j].pos = chain[1].pos
  BY <1>2 DEF CrcInStep
<1>4. Content(chain, i - 1) = chain[1].data
  <2>1. Clean(chain, i - 1)
    BY <1>2, <1>3 DEF Clean
  <2> HIDE DEF Clean
  <2> DEFINE m == i - 1
  <2>2. m \in 1..Len(chain) /\ Clean(chain, m)
    BY <1>2, <2>1
  <2> HIDE DEF m
  <2>3. Content(chain, m) = chain[1].data
    BY <1>2, <2>2, ContentOfClean
  <2> QED BY <2>3 DEF m
<1>5. chain[i].pos = Tell(chain, i - 1)
  <2> DEFINE k == Answers(chain, i - 1, {"compress", "pass"})
  <2>1. k \in 1..(i - 1) /\ chain[k].kind \notin {"compress", "pass"}
    <3> DEFINE relays == {"compress", "pass"}
               m == i - 1
    <3>1. m \in Nat /\ m > 0 /\ chain[1].kind \notin relays
      BY <1>2 DEF Layered
    <3> HIDE DEF relays, m
    <3>2. /\ Answers(chain, m, relays) \in 1..m
          /\ chain[Answers(chain, m, relays)].kind \notin relays
      BY ONLY <3>1, AnswersIs
    <3> QED BY <3>2 DEF relays, m
  <2> HIDE DEF k
  <2>2. chain[k].pos = chain[1].pos
    <3>1. CASE k = 1
      BY <3>1
    <3>2. CASE k # 1
      <4>1. k \in 2..i /\ k \in 2..Len(chain)
        BY <1>2, <2>1, <3>2
      <4>2. chain[k].kind = "crc"
        BY <1>2, <2>1, <4>1 DEF Layered, Kinds
      <4> QED BY <1>3, <4>1, <4>2
    <3> QED BY <3>1, <3>2
  <2>3. chain[i].pos = chain[1].pos
    BY <1>1, <1>2, <1>3
  <2> QED BY <2>2, <2>3 DEF Tell, k
<1>6. CrcIsComplete(i)
  BY <1>1, <1>3, <1>4 DEF CrcIsComplete, Covers, Stat, CrcStat
<1> QED BY <1>3, <1>4, <1>5, <1>6 DEF Covers

LEMMA CrcOk == AllInv => CrcCoversContent
BY CrcLayerIs DEF AllInv, CrcCoversContent

\* The lowest source of a chain that changes no bytes is at its end if nothing
\* more can be read.
LEMMA EndIsTold ==
  ASSUME AllInv, Bare
  PROVE  SourceAtEof = 1 <=> Reading(chain, Top, 1, TRUE).got = <<>>
<1> DEFINE s == chain[1]
           n == Len(s.data)
           left == n - s.pos
           got == SubSeq(s.data, s.pos + 1, s.pos + Low(1, left))
<1>1. /\ ~Empty /\ s.kind = "memory" /\ Top \in 1..Len(chain) /\ Top = Len(chain)
      /\ Clean(chain, Top) /\ IsChain(chain) /\ Layered(chain) /\ IsSource(s)
  BY OpenChain DEF Bare, Clean, Sound, Top
<1>2. HasBytes(chain, Top) = 1
  <2> HIDE DEF Top
  <2>1. HasBytes(chain, Top) \in 1..Top /\ Top \in 1..Len(chain) /\ Len(chain) \in Nat
        /\ chain[HasBytes(chain, Top)].kind \in {"memory", "function", "compress"}
    BY <1>1, HasBytesIs DEF IsChain
  <2>2. HasBytes(chain, Top) # 1 => chain[HasBytes(chain, Top)].kind \in Kinds
    BY <1>1, <2>1 DEF Layered
  <2>3. chain[HasBytes(chain, Top)].kind # "compress"
    BY <1>1, <2>1 DEF Clean
  <2> QED BY <2>1, <2>2, <2>3 DEF Kinds
<1>3. s.data \in Seq(Bytes) /\ s.pos \in Nat /\ s.pos =< n /\ n \in Nat
  <2>1. s.data \in Seq(Bytes) /\ s.pos \in Nat /\ s.pos =< n
    BY <1>1 DEF IsSource
  <2> HIDE DEF s
  <2> QED BY <2>1, LenProperties
<1>4. SourceAtEof = 1 <=> s.pos >= n
  BY <1>1 DEF SourceAtEof, AtEof, Failed
<1>5. Reading(chain, Top, 1, TRUE).got = got
  BY <1>1, <1>2 DEF Reading
<1>6. got = <<>> <=> s.pos >= n
  <2> DEFINE data == s.data
             len == 1
  <2>1. IsNext(data, s.pos, len, got)
    <3>1. /\ data \in Seq(Bytes) /\ s.pos \in Nat /\ len \in Nat /\ s.pos =< Len(data)
          /\ got = SubSeq(data, s.pos + 1, s.pos + Low(len, Len(data) - s.pos))
      BY <1>3
    <3> HIDE DEF data, len, got
    <3> DEFINE pos == s.pos
    <3> HIDE DEF pos
    <3> QED BY <3>1, NextBytes DEF pos
  <2>2. Len(got) = Low(1, left) /\ got \in Seq(Bytes)
    <3> HIDE DEF got
    <3> QED BY <2>1 DEF IsNext
  <2> HIDE DEF got, n, s
  <2>3. got = <<>> <=> Low(1, left) = 0
    BY <2>2, EmptySeq
  <2> QED BY <1>3, <2>3 DEF Low
<1> QED BY <1>4, <1>5, <1>6

LEMMA DeliveredOk ==
  ASSUME AllInv
  PROVE  DeliveredInOrder
<1>1. ASSUME seen.whole
      PROVE  IsPrefix(seen.got, Content(chain, Top))
  <2> DEFINE s == chain[HasBytes(chain, Len(chain))]
  <2>1. /\ chain # <<>> /\ s.data = Content(chain, Len(chain))
        /\ seen.got = SubSeq(s.data, 1, s.pos) /\ seen.got \in Seq(Bytes)
    BY <1>1 DEF AllInv, StreamInv, DeliverInv, Delivering
  <2>2. IsSource(s) /\ s.kind \notin {"crc", "pass"}
    <3>1. ~Empty
      BY <2>1 DEF Empty
    <3>2. HasBytes(chain, Len(chain)) \in 1..Len(chain) /\ s.kind \in {"memory", "function", "compress"}
      BY <3>1, OpenChain, HasBytesIs DEF Sound, Top
    <3> QED BY <3>1, <3>2, OpenChain
  <2>3. s.data \in Seq(Bytes) /\ s.pos \in Nat /\ s.pos =< Len(s.data)
    BY <2>2 DEF IsSource
  <2> HIDE DEF s
  <2>4. IsPrefix(seen.got, s.data)
    <3> DEFINE data == s.data
               pos == s.pos
               got == seen.got
    <3>1. data \in Seq(Bytes) /\ pos \in Nat /\ pos =< Len(data) /\ got = SubSeq(data, 1, pos)
          /\ got \in Seq(Bytes)
      BY <2>1, <2>3
    <3> HIDE DEF data, pos, got
    <3>2. Len(got) = pos
      BY <3>1, SubSeqProperties, LenProperties
    <3>3. IsPrefix(got, data)
      BY <3>1, <3>2, PrefixIs
    <3> QED BY <3>3 DEF data, got
  <2> QED BY <2>1, <2>4 DEF Top
<1>2. seen.whole /\ reply.call = "read" /\ reply.r = 0 => seen.got = Content(chain, Top)
  BY DEF AllInv, ReadWhole
<1>3. Bare => (SourceAtEof = 1 <=> Reading(chain, Top, 1, TRUE).got = <<>>)
  BY EndIsTold
<1> QED BY <1>1, <1>2, <1>3 DEF DeliveredInOrder

LEMMA DraftOk ==
  ASSUME AllInv
  PROVE  DraftIsWritten
<1> SUFFICES ASSUME ~Empty PROVE /\ IsOpen => chain[1].draft[1].out = Asked(wrote)
                                 /\ reply.call = "commit_write" /\ reply.r = 0 =>
                                      /\ chain[1].data = Asked(wrote)
                                      /\ Stat(chain[1]) = <<Len(Asked(wrote))>>
  BY DEF DraftIsWritten
<1>1. IsOpen => chain[1].draft[1].out = Asked(wrote)
  <2> SUFFICES ASSUME IsOpen PROVE chain[1].draft[1].out = Asked(wrote)
    OBVIOUS
  <2>1. Top \in 1..Len(chain) /\ chain # <<>> /\ WriteInv
    BY OpenChain
  <2>2. chain[Top].writeOpen
    BY DEF IsOpen
  <2>3. Len(chain) = 1
    BY <2>1, <2>2 DEF WriteInv, SessionOk
  <2> QED BY <2>1, <2>2, <2>3 DEF WriteInv, Top
<1>2. reply.call = "commit_write" /\ reply.r = 0 =>
        chain[1].data = Asked(wrote) /\ Stat(chain[1]) = <<Len(Asked(wrote))>>
  BY DEF AllInv, Published, Empty
<1> QED BY <1>1, <1>2

\* The inductive invariant.
THEOREM StreamAlways == Spec => []AllInv
<1>1. Init => AllInv
  BY InitOk
<1>2. AllInv /\ [Next]_vars => AllInv'
  BY NextOk DEF StepOk
<1> QED BY <1>1, <1>2, PTL DEF Spec

\* zip_source_crc over any source, however the client reads and seeks it: a
\* layer that was opened at the start has hashed a prefix of what is below, and
\* tells a CRC and a size only of all of it.
THEOREM CrcAlwaysCoversContent == Spec => []CrcCoversContent
<1>1. AllInv => CrcCoversContent
  BY CrcOk
<1> QED BY <1>1, StreamAlways, PTL

\* zip_source_open and zip_source_read: what is read after an open is the
\* content in order, all of it once a read returns nothing, through any layers;
\* and zip_source_is_eof tells the end of a memory source.
THEOREM AlwaysDeliveredInOrder == Spec => []DeliveredInOrder
<1>1. AllInv => DeliveredInOrder
  BY DeliveredOk
<1> QED BY <1>1, StreamAlways, PTL

\* zip_source_write and zip_source_seek_write: a session holds at each place the
\* byte of the last write there, else of the cloned prefix, else zero; and
\* zip_source_commit_write publishes that.
THEOREM DraftIsAlwaysWritten == Spec => []DraftIsWritten
<1>1. AllInv => DraftIsWritten
  BY DraftOk
<1> QED BY <1>1, StreamAlways, PTL

\* zip_source_file_create, zip_source_window and the others that take a range:
\* the source has the bytes of the range that there are.
THEOREM SourceIsAlwaysRange == Spec => []SourceIsRange
<1>1. AllInv => SourceIsRange
  BY DEF AllInv
<1> QED BY <1>1, StreamAlways, PTL

\* A zip_source_* call that fails leaves the chain as it was.
THEOREM FailuresAreAlwaysQuiet == Spec => FailuresAreQuiet
<1>1. AllInv /\ [Next]_vars =>
        [reply'.r = Failed /\ reply'.call \notin {"open", "unread"} /\ reply'.arg = <<>>
           => chain' = chain]_vars
  BY NextOk DEF StepOk, Quiet
<1> QED BY <1>1, StreamAlways, PTL DEF Spec, FailuresAreQuiet
=============================================================================
