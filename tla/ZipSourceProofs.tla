--------------------------- MODULE ZipSourceProofs ---------------------------
(***************************************************************************)
(* References are counted right whatever the heap of sources, the number   *)
(* of threads and the calls they make.  A reference changes hands in three *)
(* ways: a call takes it from the program, a layer takes it from the       *)
(* program, and a dropped layer leaves it to the call that dropped it.     *)
(*                                                                         *)
(* In a careful program, what a drain hands on is whole and sessions stay  *)
(* in step: no two calls use one chain of layers, and chains neither form  *)
(* a circle nor change where they end.                                     *)
(***************************************************************************)
EXTENDS ZipSource, FiniteSetTheorems, TLAPS

\* A call is about a source except between calls and behind a window's drop.
CallsNameSources ==
  \A t \in Threads : call[t].h = NoHandle <=> call[t].op \in {"none", "windowMake"}

\* The program keeps a reference for the calls that took none.
BorrowedIsOwned == \A h \in Handles : Borrowed(h) => own[h] > 0

RefInv ==
  /\ TypeOK
  /\ CallsNameSources
  /\ RefsAreCounted
  /\ BorrowedIsOwned

\* A call's and a source's part in the counts.
Holds(c, h) == IF c.op \in HoldingOps /\ c.h = h THEN 1 ELSE 0
LiesOn(s, h) == IF s.kind = "layered" /\ s.lower = h THEN 1 ELSE 0

----------------------------------------------------------------------------
(* Counting.                                                               *)

\* Sets that differ in one element at most.
LEMMA OneElement ==
  ASSUME NEW S, NEW T, NEW x, IsFiniteSet(S), S \ {x} = T \ {x}
  PROVE  /\ Cardinality(S) \in Nat
         /\ Cardinality(T) = Cardinality(S) - (IF x \in S THEN 1 ELSE 0)
                                            + (IF x \in T THEN 1 ELSE 0)
<1> DEFINE R == S \ {x}
<1>1. /\ IsFiniteSet(R)
      /\ Cardinality(R) = IF x \in S THEN Cardinality(S) - 1 ELSE Cardinality(S)
  BY FS_RemoveElement
<1>2. Cardinality(S) \in Nat /\ Cardinality(R) \in Nat
  BY <1>1, FS_CardinalityType
<1>3. CASE x \in T
  <2>1. T = R \cup {x} /\ x \notin R
    BY <1>3
  <2>2. Cardinality(T) = Cardinality(R) + 1
    BY <1>1, <2>1, FS_AddElement
  <2> QED
    BY <1>1, <1>2, <1>3, <2>2
<1>4. CASE x \notin T
  <2>1. T = R
    BY <1>4
  <2> QED
    BY <1>1, <1>2, <1>4, <2>1
<1> QED
  BY <1>3, <1>4

\* What is added on one side is added on the other.
LEMMA Sums ==
  ASSUME NEW r \in Nat, NEW p \in Nat, NEW m \in Nat, NEW n \in Nat,
         NEW q \in Nat, NEW g \in Nat, NEW i \in Nat, NEW j \in Nat,
         NEW v \in Nat, NEW w \in Nat, NEW x, NEW y,
         r = p + m + n, x = n - i + j, y = m - v + w,
         q - r = (g - p) + (j - i) + (w - v)
  PROVE  q = g + y + x
OBVIOUS

\* There are finitely many layers over a source and calls that hold it.
LEMMA Counts ==
  ASSUME NEW h \in Handles
  PROVE  /\ IsFiniteSet(Layers(h)) /\ Cardinality(Layers(h)) \in Nat
         /\ IsFiniteSet(Holders(h)) /\ Cardinality(Holders(h)) \in Nat
         /\ Layers(h) # {} => Cardinality(Layers(h)) > 0
         /\ Holders(h) # {} => Cardinality(Holders(h)) > 0
<1>1. Layers(h) \in SUBSET Handles /\ Holders(h) \in SUBSET Threads
  BY DEF Layers, Holders
<1>2. IsFiniteSet(Layers(h)) /\ IsFiniteSet(Holders(h))
  BY <1>1, HeapAssumption, FS_Subset
<1>3. Cardinality(Layers(h)) \in Nat /\ Cardinality(Holders(h)) \in Nat
  BY <1>2, FS_CardinalityType
<1> QED
  BY <1>2, <1>3, FS_EmptySet

\* A step of one thread changes that thread's part in the count of holders.
LEMMA HoldersStep ==
  ASSUME NEW t \in Threads, NEW h \in Handles,
         \A u \in Threads \ {t} : call'[u] = call[u]
  PROVE  Cardinality(Holders(h)') =
           Cardinality(Holders(h)) - Holds(call[t], h) + Holds(call'[t], h)
<1>1. Holders(h) \ {t} = Holders(h)' \ {t}
  BY DEF Holders
<1>2. /\ Holds(call[t], h) = IF t \in Holders(h) THEN 1 ELSE 0
      /\ Holds(call'[t], h) = IF t \in Holders(h)' THEN 1 ELSE 0
  BY DEF Holds, Holders
<1> QED
  BY <1>1, <1>2, Counts, OneElement

\* A step on one source changes that source's part in the count of layers.
LEMMA LayersStep ==
  ASSUME NEW l \in Handles, NEW h \in Handles,
         \A k \in Handles \ {l} : src'[k] = src[k]
  PROVE  Cardinality(Layers(h)') =
           Cardinality(Layers(h)) - LiesOn(src[l], h) + LiesOn(src'[l], h)
<1>1. Layers(h) \ {l} = Layers(h)' \ {l}
  BY DEF Layers
<1>2. /\ LiesOn(src[l], h) = IF l \in Layers(h) THEN 1 ELSE 0
      /\ LiesOn(src'[l], h) = IF l \in Layers(h)' THEN 1 ELSE 0
  BY DEF LiesOn, Layers
<1> QED
  BY <1>1, <1>2, Counts, OneElement

\* What is referenced is there, and what a call is about has an end of chain.
LEMMA Alive ==
  ASSUME RefInv
  PROVE  /\ NothingDangles
         /\ \A t \in Threads : call[t].op \notin {"none", "windowMake"} =>
              /\ call[t].h \in Handles /\ src[call[t].h].kind # "free"
              /\ src[call[t].h].base \in Handles
         /\ \A h \in Handles : own[h] > 0 =>
              src[h].kind # "free" /\ src[h].base \in Handles
<1>1. ASSUME NEW h \in Handles,
             own[h] > 0 \/ Layers(h) # {} \/ (\E t \in Threads : call[t].h = h)
      PROVE  src[h].kind # "free" /\ src[h].base \in Handles
  <2>1. own[h] \in Nat /\ src[h].refs \in Nat /\ (src[h].kind = "free" <=> src[h].refs = 0)
        /\ (src[h].kind = "free" <=> src[h].base = NoHandle)
        /\ src[h].base \in Handles \cup {NoHandle}
    BY DEF RefInv, TypeOK, WellFormed, SourceType
  <2>2. own[h] > 0 \/ Layers(h) # {} \/ Holders(h) # {}
    BY <1>1 DEF RefInv, BorrowedIsOwned, Borrowed, Holders
  <2>3. src[h].refs > 0
    BY <2>1, <2>2, Counts DEF RefInv, RefsAreCounted
  <2> QED
    BY <2>1, <2>3
<1>2. NothingDangles
  BY <1>1 DEF NothingDangles
<1>3. ASSUME NEW t \in Threads, call[t].op \notin {"none", "windowMake"}
      PROVE  call[t].h \in Handles
  BY <1>3 DEF RefInv, CallsNameSources, TypeOK, CallType
<1> QED
  BY <1>1, <1>2, <1>3

----------------------------------------------------------------------------
(* Every step replaces one call and one source, and the references it      *)
(* gives to that source are those it takes from somebody else.             *)

\* A step in which the call of t becomes c, the source at h becomes s, and the
\* program's counts become o.
Moves(t, c, h, s, o) ==
  /\ call' = [call EXCEPT ![t] = c]
  /\ src' = [src EXCEPT ![h] = s]
  /\ own' = o

\* The same without a source.
CallMoves(t, c, o) ==
  /\ call' = [call EXCEPT ![t] = c]
  /\ src' = src
  /\ own' = o

\* The program's counts when it gets or gives a reference to h.
Gets(h) == [own EXCEPT ![h] = @ + 1]
Gives(h) == [own EXCEPT ![h] = @ - 1]

\* c is a call, and the program owns what c borrows and what calls borrow that
\* it has taken a reference from.
Serves(c, o) ==
  /\ c \in CallType
  /\ c.h = NoHandle <=> c.op \in {"none", "windowMake"}
  /\ o \in [Handles -> Nat]
  /\ \A k \in Handles :
       /\ c.op \notin HoldingOps /\ c.h = k => o[k] > 0
       /\ o[k] >= own[k] \/ (Borrowed(k) => o[k] > 0)

\* The books balance at every source.
Balances(t, c, h, s, o) ==
  \A k \in Handles :
    (IF k = h THEN s.refs ELSE src[k].refs) - src[k].refs =
      (o[k] - own[k]) + (Holds(c, k) - Holds(call[t], k))
        + (LiesOn(s, k) - LiesOn(src[h], k))

LEMMA BalancedMove ==
  ASSUME RefInv, NEW t \in Threads, NEW c, NEW h \in Handles, NEW s, NEW o,
         Moves(t, c, h, s, o), WellFormed(s), Serves(c, o), Balances(t, c, h, s, o)
  PROVE  RefInv'
<1>1. /\ src \in [Handles -> SourceType] /\ \A k \in Handles : WellFormed(src[k])
      /\ own \in [Handles -> Nat] /\ call \in [Threads -> CallType]
  BY DEF RefInv, TypeOK
<1>2. /\ call'[t] = c /\ \A u \in Threads \ {t} : call'[u] = call[u]
      /\ src'[h] = s /\ \A k \in Handles \ {h} : src'[k] = src[k]
  BY <1>1 DEF Moves
<1>3. TypeOK'
  <2>1. s \in SourceType
    BY DEF WellFormed
  <2>2. src' \in [Handles -> SourceType]
    BY <1>1, <2>1 DEF Moves
  <2>3. \A k \in Handles : WellFormed(src'[k])
    BY <1>1, <1>2
  <2>4. own' \in [Handles -> Nat] /\ call' \in [Threads -> CallType]
    BY <1>1 DEF Moves, Serves
  <2> QED
    BY <2>2, <2>3, <2>4 DEF TypeOK, SourceType, CallType, WellFormed
<1>4. CallsNameSources'
  BY <1>2 DEF CallsNameSources, RefInv, Serves
<1>5. RefsAreCounted'
  <2> SUFFICES ASSUME NEW k \in Handles
               PROVE  src'[k].refs = own'[k] + Cardinality(Layers(k)') + Cardinality(Holders(k)')
    BY DEF RefsAreCounted
  <2>1. src[k].refs = own[k] + Cardinality(Layers(k)) + Cardinality(Holders(k))
    BY DEF RefInv, RefsAreCounted
  <2>2. Cardinality(Holders(k)') = Cardinality(Holders(k)) - Holds(call[t], k) + Holds(c, k)
    BY <1>2, HoldersStep
  <2>3. Cardinality(Layers(k)') = Cardinality(Layers(k)) - LiesOn(src[h], k) + LiesOn(s, k)
    BY <1>2, LayersStep
  <2>4. /\ Holds(call[t], k) \in Nat /\ Holds(c, k) \in Nat
        /\ LiesOn(src[h], k) \in Nat /\ LiesOn(s, k) \in Nat
    BY DEF Holds, LiesOn
  <2>5. src[k].refs \in Nat /\ s.refs \in Nat /\ own[k] \in Nat /\ o[k] \in Nat
    BY <1>1 DEF WellFormed, SourceType, Serves
  <2>6. src'[k].refs = IF k = h THEN s.refs ELSE src[k].refs
    BY <1>2
  <2>7. own'[k] = o[k]
    BY DEF Moves
  <2>8. src'[k].refs - src[k].refs =
          (o[k] - own[k]) + (Holds(c, k) - Holds(call[t], k))
            + (LiesOn(s, k) - LiesOn(src[h], k))
    BY <2>6 DEF Balances
  <2>9. Cardinality(Layers(k)) \in Nat /\ Cardinality(Holders(k)) \in Nat
        /\ src'[k].refs \in Nat
    BY <2>5, <2>6, Counts
  <2>10. src'[k].refs = o[k] + Cardinality(Layers(k)') + Cardinality(Holders(k)')
    BY <2>1, <2>2, <2>3, <2>4, <2>5, <2>8, <2>9, Sums
  <2> QED
    BY <2>7, <2>10
<1>6. BorrowedIsOwned'
  <2> SUFFICES ASSUME NEW k \in Handles, NEW u \in Threads,
                      call'[u].h = k, call'[u].op \notin HoldingOps
               PROVE  own'[k] > 0
    BY DEF BorrowedIsOwned, Borrowed
  <2>1. own[k] \in Nat /\ o[k] \in Nat /\ own'[k] = o[k]
    BY <1>1 DEF Serves, Moves
  <2>2. CASE u = t
    BY <1>2, <2>1, <2>2 DEF Serves
  <2>3. CASE u # t
    <3>1. Borrowed(k) /\ own[k] > 0
      BY <1>2, <2>3 DEF Borrowed, RefInv, BorrowedIsOwned
    <3> QED
      BY <2>1, <3>1 DEF Serves
  <2> QED
    BY <2>2, <2>3
<1> QED
  BY <1>3, <1>4, <1>5, <1>6 DEF RefInv

\* The same of a step that leaves all sources as they are.
LEMMA BalancedCall ==
  ASSUME RefInv, NEW t \in Threads, NEW c, NEW o,
         CallMoves(t, c, o), Serves(c, o),
         \A k \in Handles : o[k] - own[k] = Holds(call[t], k) - Holds(c, k)
  PROVE  RefInv'
<1>1. CASE Handles = {}
  <2>1. TypeOK' /\ CallsNameSources'
    BY DEF CallMoves, RefInv, TypeOK, CallsNameSources, Serves, WellFormed, SourceType, CallType
  <2> QED
    BY <1>1, <2>1 DEF RefInv, RefsAreCounted, BorrowedIsOwned
<1>2. ASSUME NEW h \in Handles
      PROVE  RefInv'
  <2>1. Moves(t, c, h, src[h], o)
    BY DEF CallMoves, Moves, RefInv, TypeOK
  <2>2. WellFormed(src[h])
    BY DEF RefInv, TypeOK
  <2>3. Balances(t, c, h, src[h], o)
    <3> SUFFICES ASSUME NEW k \in Handles
                 PROVE  (IF k = h THEN src[h].refs ELSE src[k].refs) - src[k].refs =
                          (o[k] - own[k]) + (Holds(c, k) - Holds(call[t], k))
                            + (LiesOn(src[h], k) - LiesOn(src[h], k))
      BY DEF Balances
    <3>1. src[k].refs \in Nat /\ own[k] \in Nat /\ o[k] \in Nat
      BY DEF RefInv, TypeOK, SourceType, Serves
    <3>2. Holds(call[t], k) \in Nat /\ Holds(c, k) \in Nat /\ LiesOn(src[h], k) \in Nat
      BY DEF Holds, LiesOn
    <3> QED
      BY <3>1, <3>2
  <2> QED
    BY <2>1, <2>2, <2>3, BalancedMove
<1> QED
  BY <1>1, <1>2

----------------------------------------------------------------------------
(* The steps, one by one.                                                  *)

\* The constructors make well formed sources that lie on nothing or on the
\* layer below.
LEMMA NewSources ==
  ASSUME NEW h \in Handles
  PROVE  /\ WellFormed(NoSource) /\ NoSource.refs = 0
         /\ \A k \in Handles : LiesOn(NoSource, k) = 0
         /\ \A p \in Payloads : \A s \in {MemorySource(h, p), FunctionSource(h, p)} :
              WellFormed(s) /\ s.refs = 1 /\ \A k \in Handles : LiesOn(s, k) = 0
         /\ \A l \in Handles : src[l].base \in Handles =>
              /\ WellFormed(LayeredSource(h, l)) /\ LayeredSource(h, l).refs = 1
              /\ \A k \in Handles : LiesOn(LayeredSource(h, l), k) = IF k = l THEN 1 ELSE 0
<1>1. Empty \in Payloads /\ NoHandle \notin Handles
  BY HeapAssumption, PayloadAssumption
<1>2. NoSource \in SourceType
  BY <1>1 DEF NoSource, SourceType
<1>3. WellFormed(NoSource) /\ NoSource.refs = 0 /\ \A k \in Handles : LiesOn(NoSource, k) = 0
  BY <1>2 DEF NoSource, WellFormed, LiesOn
<1>4. \A kind \in {"memory", "function", "layered"} :
        /\ New(h, kind) \in SourceType
        /\ New(h, kind).kind = kind /\ New(h, kind).refs = 1
        /\ New(h, kind).base = h /\ New(h, kind).lower = NoHandle
  BY <1>2 DEF New, NoSource, SourceType
<1>5. ASSUME NEW p \in Payloads, NEW s \in {MemorySource(h, p), FunctionSource(h, p)}
      PROVE  WellFormed(s) /\ s.refs = 1 /\ \A k \in Handles : LiesOn(s, k) = 0
  <2>1. s \in SourceType
    BY <1>5, <1>4 DEF MemorySource, FunctionSource, SourceType
  <2>2. s.kind \in {"memory", "function"} /\ s.refs = 1 /\ s.base = h /\ s.lower = NoHandle
    BY <1>5, <1>4 DEF MemorySource, FunctionSource, SourceType
  <2> QED
    BY <1>1, <2>1, <2>2 DEF WellFormed, LiesOn
<1>6. ASSUME NEW l \in Handles, src[l].base \in Handles
      PROVE  /\ WellFormed(LayeredSource(h, l)) /\ LayeredSource(h, l).refs = 1
             /\ \A k \in Handles : LiesOn(LayeredSource(h, l), k) = IF k = l THEN 1 ELSE 0
  <2> DEFINE s == LayeredSource(h, l)
  <2>1. s \in SourceType
    BY <1>6, <1>4 DEF LayeredSource, SourceType
  <2>2. s.kind = "layered" /\ s.refs = 1 /\ s.base = src[l].base /\ s.lower = l
    BY <1>4 DEF LayeredSource, SourceType
  <2> QED
    BY <1>1, <1>6, <2>1, <2>2 DEF WellFormed, LiesOn
<1> QED
  BY <1>3, <1>5, <1>6

\* What a call may become.
LEMMA NewCalls ==
  /\ NoCall \in CallType /\ NoCall.h = NoHandle /\ NoCall.op = "none"
  /\ \A k \in Handles : Holds(NoCall, k) = 0
  /\ \A c \in CallType, op \in Ops \ {"none", "windowMake"}, p \in Payloads :
       /\ [c EXCEPT !.op = op] \in CallType
       /\ [c EXCEPT !.op = op, !.payload = p] \in CallType
  /\ \A op \in Ops, h \in Handles, p \in Payloads, q \in Payloads :
       /\ Call(op, h, p, q) \in CallType
       /\ Call(op, h, p, q).op = op /\ Call(op, h, p, q).h = h
<1>1. Empty \in Payloads /\ NoHandle \notin Handles
  BY HeapAssumption, PayloadAssumption
<1> QED
  BY <1>1 DEF NoCall, Call, CallType, Ops, HoldingOps, Holds

LEMMA OpNames ==
  /\ DOMAIN Opened = {"windowOpen", "addOpen", "archiveOpen"}
  /\ DOMAIN Drained = {"windowRead", "addRead", "archiveRead"}
  /\ \A op \in DOMAIN Opened : Opened[op] \in DOMAIN Drained
  /\ \A op \in DOMAIN Drained : Drained[op] \in Ops \ {"none", "windowMake"}
  /\ \A op \in DOMAIN Opened : Opened[op] \in HoldingOps <=> op \in HoldingOps
  /\ \A op \in DOMAIN Drained : Drained[op] \in HoldingOps <=> op \in HoldingOps
BY DEF Ops, Opened, Drained, HoldingOps

\* The program owns what c borrows and gives nothing away.
LEMMA ServesSame ==
  ASSUME RefInv, NEW c \in CallType, NEW o \in [Handles -> Nat],
         c = NoCall \/ (c.op \notin {"none", "windowMake"} /\ c.h \in Handles),
         \A k \in Handles : o[k] >= own[k],
         c.op \notin HoldingOps /\ c.h # NoHandle => o[c.h] > 0
  PROVE  Serves(c, o)
<1>1. c.h = NoHandle <=> c.op \in {"none", "windowMake"}
  BY HeapAssumption DEF NoCall, Call
<1>2. \A k \in Handles : c.op \notin HoldingOps /\ c.h = k => o[k] > 0
  BY HeapAssumption
<1> QED
  BY <1>1, <1>2 DEF Serves

\* A new source has the reference it is made with.
LEMMA CreateKeeps ==
  ASSUME RefInv, NEW t \in Threads, NEW h \in Handles, NEW s,
         call[t].op \in {"none", "windowMake"}, src[h].kind = "free",
         WellFormed(s), s.refs = 1, \A k \in Handles : LiesOn(s, k) = 0,
         Moves(t, NoCall, h, s, Gets(h))
  PROVE  RefInv'
<1>1. own \in [Handles -> Nat] /\ \A k \in Handles : src[k].refs \in Nat
  BY DEF RefInv, TypeOK, SourceType
<1>2. src[h].refs = 0 /\ \A k \in Handles : LiesOn(src[h], k) = 0
  BY DEF RefInv, TypeOK, WellFormed, LiesOn
<1>3. \A k \in Handles : Holds(call[t], k) = 0
  BY DEF Holds, HoldingOps
<1>4. /\ Gets(h) \in [Handles -> Nat]
      /\ \A k \in Handles : Gets(h)[k] = IF k = h THEN own[k] + 1 ELSE own[k]
  BY <1>1 DEF Gets
<1>5. Serves(NoCall, Gets(h))
  <2>1. \A k \in Handles : Gets(h)[k] >= own[k]
    BY <1>1, <1>4
  <2>2. NoCall \in CallType /\ NoCall.h = NoHandle
    BY NewCalls
  <2> QED
    BY <1>4, <2>1, <2>2, ServesSame
<1>6. Balances(t, NoCall, h, s, Gets(h))
  <2> SUFFICES ASSUME NEW k \in Handles
               PROVE  (IF k = h THEN s.refs ELSE src[k].refs) - src[k].refs =
                        (Gets(h)[k] - own[k]) + (Holds(NoCall, k) - Holds(call[t], k))
                          + (LiesOn(s, k) - LiesOn(src[h], k))
    BY DEF Balances
  <2>1. Holds(NoCall, k) = 0
    BY NewCalls
  <2>2. CASE k = h
    BY <1>1, <1>2, <1>3, <1>4, <2>1, <2>2
  <2>3. CASE k # h
    <3>1. src[k].refs \in Nat /\ own[k] \in Nat /\ Gets(h)[k] = own[k]
      BY <1>1, <1>4, <2>3
    <3>2. Holds(call[t], k) = 0 /\ LiesOn(s, k) = 0 /\ LiesOn(src[h], k) = 0
      BY <1>2, <1>3
    <3> QED
      BY <2>1, <2>3, <3>1, <3>2
  <2> QED
    BY <2>2, <2>3
<1> QED
  BY <1>5, <1>6, BalancedMove

\* A call takes a reference over from the program.
LEMMA TakeOverKeeps ==
  ASSUME RefInv, NEW t \in Threads, NEW h \in Handles, NEW c \in CallType,
         IsIdle(t), Spare(h), c.h = h, c.op \in HoldingOps,
         CallMoves(t, c, Gives(h))
  PROVE  RefInv'
<1>1. own \in [Handles -> Nat]
  BY DEF RefInv, TypeOK
<1>2. own[h] > 0 /\ (Borrowed(h) => own[h] > 1)
  BY <1>1 DEF Spare
<1>3. /\ Gives(h) \in [Handles -> Nat]
      /\ \A k \in Handles : Gives(h)[k] = IF k = h THEN own[k] - 1 ELSE own[k]
  BY <1>1, <1>2 DEF Gives
<1>4. \A k \in Handles : Holds(call[t], k) = 0 /\ Holds(c, k) = IF k = h THEN 1 ELSE 0
  BY DEF Holds, HoldingOps, IsIdle
<1>5. Serves(c, Gives(h))
  <2>1. c.h # NoHandle /\ c.op \notin {"none", "windowMake"}
    BY HeapAssumption DEF HoldingOps
  <2>2. \A k \in Handles : Gives(h)[k] >= own[k] \/ (Borrowed(k) => Gives(h)[k] > 0)
    BY <1>1, <1>2, <1>3
  <2> QED
    BY <1>3, <2>1, <2>2 DEF Serves
<1>6. \A k \in Handles : Gives(h)[k] - own[k] = Holds(call[t], k) - Holds(c, k)
  BY <1>1, <1>3, <1>4
<1> QED
  BY <1>5, <1>6, BalancedCall

\* s is r with other contents.
Touched(s, r) ==
  WellFormed(s) /\ s.refs = r.refs /\ s.kind = r.kind /\ s.lower = r.lower

LEMMA Touches ==
  ASSUME NEW s, WellFormed(s)
  PROVE  /\ Touched(s, s)
         /\ \A b \in BOOLEAN : /\ Touched([s EXCEPT !.atEnd = b], s)
                             /\ Touched([s EXCEPT !.writeOpen = b], s)
         /\ \A p \in Payloads : Touched([s EXCEPT !.data = p], s)
         /\ \A p \in Payloads \cup {NoDraft} : Touched([s EXCEPT !.draft = p], s)
         /\ \A p \in Payloads :
              Touched([s EXCEPT !.data = p, !.draft = NoDraft, !.atEnd = FALSE], s)
BY DEF Touched, WellFormed, SourceType

\* A call without a reference goes on, ends or begins on what the program owns.
LEMMA QuietCallKeeps ==
  ASSUME RefInv, NEW t \in Threads, NEW h \in Handles, NEW s, NEW c \in CallType,
         c = NoCall \/ (c.op \notin {"none", "windowMake"} /\ c.h \in Handles),
         \A k \in Handles : Holds(c, k) = Holds(call[t], k),
         c.op \notin HoldingOps /\ c.h # NoHandle => own[c.h] > 0,
         Touched(s, src[h]), Moves(t, c, h, s, own)
  PROVE  RefInv'
<1>1. own \in [Handles -> Nat] /\ \A k \in Handles : src[k].refs \in Nat
  BY DEF RefInv, TypeOK, SourceType
<1>2. Serves(c, own)
  <2>1. \A k \in Handles : own[k] >= own[k]
    BY <1>1
  <2> QED
    BY <1>1, <2>1, ServesSame
<1>3. Balances(t, c, h, s, own)
  <2>1. \A k \in Handles : LiesOn(s, k) = LiesOn(src[h], k) /\ LiesOn(s, k) \in Nat
                           /\ Holds(c, k) \in Nat
    BY DEF LiesOn, Holds, Touched
  <2> QED
    BY <1>1, <2>1 DEF Balances, Touched
<1> QED
  BY <1>2, <1>3, BalancedMove DEF Touched

\* The same where the source stays as it is.
LEMMA SilentCallKeeps ==
  ASSUME RefInv, NEW t \in Threads, NEW c \in CallType,
         c = NoCall \/ (c.op \notin {"none", "windowMake"} /\ c.h \in Handles),
         \A k \in Handles : Holds(c, k) = Holds(call[t], k),
         c.op \notin HoldingOps /\ c.h # NoHandle => own[c.h] > 0,
         CallMoves(t, c, own)
  PROVE  RefInv'
<1>1. own \in [Handles -> Nat]
  BY DEF RefInv, TypeOK
<1>2. Serves(c, own)
  <2>1. \A k \in Handles : own[k] >= own[k]
    BY <1>1
  <2> QED
    BY <1>1, <2>1, ServesSame
<1>3. \A k \in Handles : own[k] - own[k] = Holds(call[t], k) - Holds(c, k)
  BY <1>1 DEF Holds
<1> QED
  BY <1>2, <1>3, BalancedCall

\* zip_source_keep.
LEMMA KeepKeeps ==
  ASSUME RefInv, NEW t \in Threads, NEW h \in Handles, Keep(t, h)
  PROVE  RefInv'
<1> DEFINE s == [src[h] EXCEPT !.refs = @ + 1]
<1>1. /\ own \in [Handles -> Nat] /\ call \in [Threads -> CallType]
      /\ \A k \in Handles : src[k].refs \in Nat
      /\ src[h] \in SourceType /\ WellFormed(src[h])
  BY DEF RefInv, TypeOK, SourceType
<1>2. src[h].kind # "free"
  BY Alive DEF Keep
<1>3. WellFormed(s) /\ s.refs = src[h].refs + 1 /\ s.kind = src[h].kind /\ s.lower = src[h].lower
  BY <1>1, <1>2 DEF WellFormed, SourceType
<1>4. /\ Gets(h) \in [Handles -> Nat]
      /\ \A k \in Handles : Gets(h)[k] = IF k = h THEN own[k] + 1 ELSE own[k]
  BY <1>1 DEF Gets
<1>5. Moves(t, call[t], h, s, Gets(h))
  BY <1>1 DEF Moves, Keep, Gets, RefInv, TypeOK
<1>6. Serves(call[t], Gets(h))
  <2>1. call[t] \in CallType
    BY <1>1
  <2>2. call[t].h = NoHandle /\ call[t].op = "none"
    BY DEF Keep, IsIdle, RefInv, CallsNameSources
  <2>3. \A k \in Handles : Gets(h)[k] >= own[k]
    BY <1>1, <1>4
  <2> QED
    BY <1>4, <2>1, <2>2, <2>3, HeapAssumption DEF Serves
<1>7. Balances(t, call[t], h, s, Gets(h))
  <2> HIDE DEF s
  <2> SUFFICES ASSUME NEW k \in Handles
               PROVE  (IF k = h THEN s.refs ELSE src[k].refs) - src[k].refs =
                        (Gets(h)[k] - own[k]) + (Holds(call[t], k) - Holds(call[t], k))
                          + (LiesOn(s, k) - LiesOn(src[h], k))
    BY DEF Balances
  <2>1. Holds(call[t], k) \in Nat /\ LiesOn(s, k) \in Nat /\ LiesOn(s, k) = LiesOn(src[h], k)
    BY <1>3 DEF Holds, LiesOn
  <2> QED
    BY <1>1, <1>3, <1>4, <2>1
<1> QED
  BY <1>3, <1>5, <1>6, <1>7, BalancedMove

\* zip_source_layered_create: the program's reference becomes the layer's.
LEMMA LayerKeeps ==
  ASSUME RefInv, NEW t \in Threads, NEW h \in Handles, NEW l \in Handles,
         LayeredCreate(t, h, l)
  PROVE  RefInv'
<1> DEFINE s == LayeredSource(h, l)
           o == [own EXCEPT ![l] = @ - 1, ![h] = @ + 1]
<1>1. /\ own \in [Handles -> Nat] /\ \A k \in Handles : src[k].refs \in Nat
      /\ call \in [Threads -> CallType]
  BY DEF RefInv, TypeOK, SourceType
<1>2. own[l] > 0 /\ (Borrowed(l) => own[l] > 1)
  BY <1>1 DEF LayeredCreate, Spare
<1>3. src[l].base \in Handles /\ l # h
  BY <1>2, Alive DEF LayeredCreate
<1>4. /\ o \in [Handles -> Nat]
      /\ \A k \in Handles : o[k] = IF k = l THEN own[k] - 1
                                    ELSE IF k = h THEN own[k] + 1 ELSE own[k]
  BY <1>1, <1>2, <1>3
<1>5. src[h].refs = 0 /\ \A k \in Handles : LiesOn(src[h], k) = 0
  BY DEF LayeredCreate, RefInv, TypeOK, WellFormed, LiesOn
<1>6. /\ WellFormed(s) /\ s.refs = 1
      /\ \A k \in Handles : LiesOn(s, k) = IF k = l THEN 1 ELSE 0
  BY <1>3, NewSources
<1>7. Moves(t, NoCall, h, s, o)
  BY DEF Moves, LayeredCreate, Return
<1> HIDE DEF s, o
<1>8. Serves(NoCall, o)
  <2>1. NoCall \in CallType /\ NoCall.h = NoHandle /\ NoCall.op = "none"
    BY NewCalls
  <2>2. \A k \in Handles : o[k] >= own[k] \/ (Borrowed(k) => o[k] > 0)
    BY <1>1, <1>2, <1>4
  <2> QED
    BY <1>4, <2>1, <2>2, HeapAssumption DEF Serves
<1>9. Balances(t, NoCall, h, s, o)
  <2> SUFFICES ASSUME NEW k \in Handles
               PROVE  (IF k = h THEN s.refs ELSE src[k].refs) - src[k].refs =
                        (o[k] - own[k]) + (Holds(NoCall, k) - Holds(call[t], k))
                          + (LiesOn(s, k) - LiesOn(src[h], k))
    BY DEF Balances
  <2>1. Holds(NoCall, k) = 0 /\ Holds(call[t], k) = 0
    BY NewCalls DEF LayeredCreate, IsIdle, Holds, HoldingOps
  <2>2. CASE k = h
    BY <1>1, <1>3, <1>4, <1>5, <1>6, <2>1, <2>2
  <2>3. CASE k = l
    BY <1>1, <1>3, <1>4, <1>5, <1>6, <2>1, <2>3
  <2>4. CASE k # h /\ k # l
    <3>1. src[k].refs \in Nat /\ own[k] \in Nat /\ o[k] = own[k]
      BY <1>1, <1>4, <2>4
    <3>2. LiesOn(s, k) = 0 /\ LiesOn(src[h], k) = 0
      BY <1>5, <1>6, <2>4
    <3> QED
      BY <2>1, <2>4, <3>1, <3>2
  <2> QED
    BY <2>2, <2>3, <2>4
<1> QED
  BY <1>6, <1>7, <1>8, <1>9, BalancedMove

\* What a release finds: its reference is among those counted.
LEMMA ReleaseFinds ==
  ASSUME RefInv, NEW t \in Threads, Releasing(t)
  PROVE  LET h == call[t].h
         IN  /\ h \in Handles /\ src[h].refs > 0
             /\ \A k \in Handles : Holds(call[t], k) = IF k = h THEN 1 ELSE 0
             /\ src[h].refs =< 1 =>
                  /\ src[h].refs = 1 /\ own[h] = 0
                  /\ ~Borrowed(h) /\ Layers(h) = {}
<1> DEFINE h == call[t].h
<1>1. call[t].op \in HoldingOps /\ call[t].op \notin {"none", "windowMake"}
  BY DEF Releasing, HoldingOps
<1>2. h \in Handles /\ t \in Holders(h)
  BY <1>1, Alive DEF Holders
<1>3. /\ src[h].refs = own[h] + Cardinality(Layers(h)) + Cardinality(Holders(h))
      /\ own[h] \in Nat /\ src[h].refs \in Nat
  BY <1>2 DEF RefInv, RefsAreCounted, TypeOK, SourceType
<1>4. /\ Cardinality(Layers(h)) \in Nat /\ Cardinality(Holders(h)) \in Nat
      /\ Cardinality(Holders(h)) > 0 /\ (Layers(h) # {} => Cardinality(Layers(h)) > 0)
  BY <1>2, Counts
<1>5. Borrowed(h) => own[h] > 0
  BY <1>2 DEF RefInv, BorrowedIsOwned
<1>6. \A k \in Handles : Holds(call[t], k) = IF k = h THEN 1 ELSE 0
  BY <1>1 DEF Holds
<1> QED
  BY <1>2, <1>3, <1>4, <1>5, <1>6

\* zip_source_free: a reference less, or the source goes and leaves the call
\* the reference to the layer below.
LEMMA ReleaseKeeps ==
  ASSUME RefInv, NEW t \in Threads, Release(t)
  PROVE  RefInv'
<1> DEFINE h == call[t].h
           l == src[h].lower
<1>1. /\ h \in Handles /\ src[h].refs > 0
      /\ \A k \in Handles : Holds(call[t], k) = IF k = h THEN 1 ELSE 0
      /\ src[h].refs =< 1 =>
           /\ src[h].refs = 1 /\ own[h] = 0 /\ ~Borrowed(h) /\ Layers(h) = {}
  BY ReleaseFinds DEF Release
<1>2. /\ own \in [Handles -> Nat] /\ \A k \in Handles : src[k].refs \in Nat
      /\ call \in [Threads -> CallType] /\ call[t] \in CallType
      /\ src[h] \in SourceType /\ WellFormed(src[h])
      /\ src \in [Handles -> SourceType]
  BY <1>1 DEF RefInv, TypeOK, SourceType
<1>3. call[t].op \in {"release", "windowRelease"}
  BY DEF Release, Releasing
\* The call when its release is over.
<1> DEFINE done == IF call[t].op = "release" THEN NoCall
                   ELSE [call[t] EXCEPT !.op = "windowMake", !.h = NoHandle]
<1>4. /\ done \in CallType /\ done.h = NoHandle /\ done.op \in {"none", "windowMake"}
      /\ \A k \in Handles : Holds(done, k) = 0
  <2>1. CASE call[t].op = "release"
    BY <2>1, NewCalls
  <2>2. CASE call[t].op # "release"
    <3>1. "windowMake" \in Ops
      BY DEF Ops
    <3> QED
      BY <1>2, <2>2, <3>1 DEF CallType, Holds, HoldingOps
  <2> QED
    BY <2>1, <2>2
<1>5. ASSUME NEW c, c \in CallType, c.h = NoHandle <=> c.op \in {"none", "windowMake"},
             c.op \notin HoldingOps => c.h = NoHandle
      PROVE  Serves(c, own)
  <2>1. \A k \in Handles : own[k] >= own[k]
    BY <1>2
  <2> QED
    BY <1>2, <1>5, <2>1, HeapAssumption DEF Serves
<1>6. Serves(done, own)
  <2> HIDE DEF done
  <2> QED
    BY <1>4, <1>5
<1>7. ASSUME src[h].refs > 1 \/ l = NoHandle
      PROVE  call' = [call EXCEPT ![t] = done]
  <2>1. CASE call[t].op = "release"
    BY <1>1, <1>2, <1>7, <2>1 DEF Release, Dropped, Return
  <2>2. CASE call[t].op # "release"
    <3>1. call' = [call EXCEPT ![t].op = "windowMake", ![t].h = NoHandle]
      BY <1>1, <1>2, <1>7, <2>2 DEF Release, Dropped
    <3>2. @ = [call EXCEPT ![t] = [call[t] EXCEPT !.op = "windowMake", !.h = NoHandle]]
      BY <1>2 DEF CallType
    <3> QED
      BY <2>2, <3>1, <3>2
  <2> QED
    BY <2>1, <2>2
<1>8. CASE src[h].refs > 1
  <2> DEFINE s == [src[h] EXCEPT !.refs = @ - 1]
  <2>1. /\ WellFormed(s) /\ s.refs = src[h].refs - 1
        /\ s.kind = src[h].kind /\ s.lower = src[h].lower
    BY <1>2, <1>8 DEF WellFormed, SourceType
  <2>2. Moves(t, done, h, s, own)
    <3>1. src' = [src EXCEPT ![h] = s] /\ own' = own
      BY <1>1, <1>2, <1>8 DEF Release, Dropped
    <3> QED
      BY <1>7, <1>8, <3>1 DEF Moves
  <2> HIDE DEF s, done
  <2>3. Balances(t, done, h, s, own)
    <3> SUFFICES ASSUME NEW k \in Handles
                 PROVE  (IF k = h THEN s.refs ELSE src[k].refs) - src[k].refs =
                          (own[k] - own[k]) + (Holds(done, k) - Holds(call[t], k))
                            + (LiesOn(s, k) - LiesOn(src[h], k))
      BY DEF Balances
    <3>1. LiesOn(s, k) \in Nat /\ LiesOn(s, k) = LiesOn(src[h], k)
      BY <2>1 DEF LiesOn
    <3>2. Holds(done, k) = 0 /\ Holds(call[t], k) = (IF k = h THEN 1 ELSE 0)
          /\ own[k] \in Nat /\ src[k].refs \in Nat
      BY <1>1, <1>2, <1>4
    <3>3. CASE k = h
      BY <2>1, <3>1, <3>2, <3>3
    <3>4. CASE k # h
      BY <3>1, <3>2, <3>4
    <3> QED
      BY <3>3, <3>4
  <2> QED
    BY <1>1, <1>6, <2>1, <2>2, <2>3, BalancedMove
<1>9. CASE src[h].refs =< 1 /\ l = NoHandle
  <2>1. Moves(t, done, h, NoSource, own)
    <3>1. src' = [src EXCEPT ![h] = NoSource] /\ own' = own
      BY <1>1, <1>2, <1>9 DEF Release, Dropped
    <3> QED
      BY <1>7, <1>9, <3>1 DEF Moves
  <2> HIDE DEF done
  <2>2. Balances(t, done, h, NoSource, own)
    <3> SUFFICES ASSUME NEW k \in Handles
                 PROVE  (IF k = h THEN NoSource.refs ELSE src[k].refs) - src[k].refs =
                          (own[k] - own[k]) + (Holds(done, k) - Holds(call[t], k))
                            + (LiesOn(NoSource, k) - LiesOn(src[h], k))
      BY DEF Balances
    <3>1. LiesOn(src[h], k) = 0 /\ LiesOn(NoSource, k) = 0 /\ NoSource.refs = 0
      BY <1>9, <1>2, HeapAssumption, NewSources DEF LiesOn, WellFormed
    <3>2. Holds(done, k) = 0 /\ Holds(call[t], k) = (IF k = h THEN 1 ELSE 0)
          /\ own[k] \in Nat /\ src[k].refs \in Nat /\ src[h].refs = 1
      BY <1>1, <1>2, <1>4, <1>9
    <3>3. CASE k = h
      BY <3>1, <3>2, <3>3
    <3>4. CASE k # h
      BY <3>1, <3>2, <3>4
    <3> QED
      BY <3>3, <3>4
  <2>3. WellFormed(NoSource)
    BY <1>1, NewSources
  <2> QED
    BY <1>1, <1>6, <2>1, <2>2, <2>3, BalancedMove
<1>10. CASE src[h].refs =< 1 /\ l # NoHandle
  <2> DEFINE c == [call[t] EXCEPT !.h = l]
  <2>1. l \in Handles /\ src[h].kind = "layered" /\ l # h
    BY <1>1, <1>2, <1>10 DEF SourceType, WellFormed, Layers
  <2>2. Moves(t, c, h, NoSource, own)
    BY <1>1, <1>2, <1>10 DEF Release, Dropped, Moves
  <2>3. c \in CallType /\ c.h = l /\ c.op = call[t].op
    BY <1>2, <2>1 DEF CallType
  <2> HIDE DEF c
  <2>4. Serves(c, own)
    BY <1>3, <1>5, <2>1, <2>3, HeapAssumption DEF HoldingOps
  <2>5. Balances(t, c, h, NoSource, own)
    <3> SUFFICES ASSUME NEW k \in Handles
                 PROVE  (IF k = h THEN NoSource.refs ELSE src[k].refs) - src[k].refs =
                          (own[k] - own[k]) + (Holds(c, k) - Holds(call[t], k))
                            + (LiesOn(NoSource, k) - LiesOn(src[h], k))
      BY DEF Balances
    <3>1. /\ LiesOn(src[h], k) = IF k = l THEN 1 ELSE 0
          /\ Holds(c, k) = IF k = l THEN 1 ELSE 0
      BY <1>3, <2>1, <2>3 DEF LiesOn, Holds, HoldingOps
    <3>2. LiesOn(NoSource, k) = 0 /\ NoSource.refs = 0
      BY NewSources
    <3>3. Holds(call[t], k) = (IF k = h THEN 1 ELSE 0)
          /\ own[k] \in Nat /\ src[k].refs \in Nat /\ src[h].refs = 1
      BY <1>1, <1>2, <1>10
    <3>4. CASE k = h
      BY <2>1, <3>1, <3>2, <3>3, <3>4
    <3>5. CASE k # h
      BY <3>1, <3>2, <3>3, <3>5
    <3> QED
      BY <3>4, <3>5
  <2>6. WellFormed(NoSource)
    BY <1>1, NewSources
  <2> QED
    BY <1>1, <2>2, <2>4, <2>5, <2>6, BalancedMove
<1> QED
  BY <1>1, <1>2, <1>8, <1>9, <1>10

\* What a call under way finds, whether it holds a reference or borrows one.
LEMMA CallFinds ==
  ASSUME RefInv, NEW t \in Threads, call[t].op \notin {"none", "windowMake"}
  PROVE  /\ call[t] \in CallType /\ call[t].h \in Handles
         /\ src[call[t].h].base \in Handles
         /\ call[t].op \notin HoldingOps => own[call[t].h] > 0
         /\ \A h \in Handles : src[h] \in SourceType /\ WellFormed(src[h])
<1>1. call[t].h \in Handles /\ src[call[t].h].base \in Handles
  BY Alive
<1>2. call[t].op \notin HoldingOps => own[call[t].h] > 0
  BY <1>1 DEF RefInv, BorrowedIsOwned, Borrowed
<1> QED
  BY <1>1, <1>2 DEF RefInv, TypeOK

\* A failing drain gives the program back what the call took.
LEMMA DrainFailsKeeps ==
  ASSUME RefInv, NEW t \in Threads, DrainFails(t)
  PROVE  RefInv'
<1> DEFINE h == call[t].h
<1>1. call[t].op \notin {"none", "windowMake"}
  BY OpNames DEF DrainFails
<1>2. h \in Handles /\ own \in [Handles -> Nat]
  BY <1>1, CallFinds DEF RefInv, TypeOK
<1>3. NoCall \in CallType /\ \A k \in Handles : Holds(NoCall, k) = 0
  BY NewCalls
<1>4. CASE call[t].op \in HoldingOps
  <2>1. /\ Gets(h) \in [Handles -> Nat]
        /\ \A k \in Handles : Gets(h)[k] = IF k = h THEN own[k] + 1 ELSE own[k]
    BY <1>2 DEF Gets
  <2>2. CallMoves(t, NoCall, Gets(h))
    BY <1>4 DEF DrainFails, CallMoves, Return, Gets
  <2>3. \A k \in Handles : Gets(h)[k] >= own[k]
    BY <1>2, <2>1
  <2>4. Serves(NoCall, Gets(h))
    BY <1>3, <2>1, <2>3, ServesSame DEF NoCall, Call
  <2>5. \A k \in Handles : Gets(h)[k] - own[k] = Holds(call[t], k) - Holds(NoCall, k)
    BY <1>2, <1>3, <1>4, <2>1 DEF Holds
  <2> QED
    BY <2>2, <2>4, <2>5, BalancedCall
<1>5. CASE call[t].op \notin HoldingOps
  <2>1. CallMoves(t, NoCall, own)
    BY <1>5 DEF DrainFails, CallMoves, Return
  <2>2. \A k \in Handles : Holds(NoCall, k) = Holds(call[t], k)
    BY <1>3, <1>5 DEF Holds
  <2>3. NoCall.h = NoHandle
    BY DEF NoCall, Call
  <2> QED
    BY <1>3, <2>1, <2>2, <2>3, SilentCallKeeps
<1> QED
  BY <1>4, <1>5

\* Opening and reading a source leave its references alone, and the call as
\* much a holder as it was.
LEMMA DrainKeeps ==
  ASSUME RefInv, NEW t \in Threads, DrainOpen(t) \/ DrainRead(t)
  PROVE  RefInv'
<1>1. call[t].op \in DOMAIN Opened \cup DOMAIN Drained /\ call[t].op \notin {"none", "windowMake"}
  BY OpNames DEF DrainOpen, DrainRead
<1>2. /\ call[t] \in CallType /\ call[t].h \in Handles /\ src[call[t].h].base \in Handles
      /\ call[t].op \notin HoldingOps => own[call[t].h] > 0
      /\ \A h \in Handles : src[h] \in SourceType /\ WellFormed(src[h])
  BY <1>1, CallFinds
<1>3. call \in [Threads -> CallType] /\ src \in [Handles -> SourceType]
  BY DEF RefInv, TypeOK
<1>4. CASE DrainOpen(t)
  <2> DEFINE h == call[t].h
             op == Opened[call[t].op]
             c == [call[t] EXCEPT !.op = op]
             s == IF src[h].kind = "layered" THEN src[h] ELSE [src[h] EXCEPT !.atEnd = FALSE]
  <2>1. op \in Ops \ {"none", "windowMake"} /\ (op \in HoldingOps <=> call[t].op \in HoldingOps)
    BY <1>4, OpNames DEF DrainOpen, Ops
  <2>2. c \in CallType /\ c.op = op /\ c.h = h
    BY <1>2, <2>1 DEF CallType
  <2>3. Touched(s, src[h])
    BY <1>2, Touches DEF Touched
  <2>4. Moves(t, c, h, s, own)
    BY <1>2, <1>3, <1>4 DEF DrainOpen, Rewound, Enter, Moves
  <2>5. \A k \in Handles : Holds(c, k) = Holds(call[t], k)
    BY <2>1, <2>2 DEF Holds
  <2> HIDE DEF c, s, op
  <2> QED
    BY <1>2, <2>1, <2>2, <2>3, <2>4, <2>5, QuietCallKeeps
<1>5. CASE DrainRead(t)
  <2> DEFINE b == src[call[t].h].base
             op == Drained[call[t].op]
             p == IF src[b].atEnd THEN Empty ELSE src[b].data
             c == [call[t] EXCEPT !.op = op, !.payload = p]
             s == [src[b] EXCEPT !.atEnd = TRUE]
  <2>1. op \in Ops \ {"none", "windowMake"} /\ (op \in HoldingOps <=> call[t].op \in HoldingOps)
    BY <1>5, OpNames DEF DrainRead
  <2>2. p \in Payloads
    BY <1>2, PayloadAssumption DEF SourceType
  <2>3. c \in CallType /\ c.op = op /\ c.h = call[t].h
    BY <1>2, <2>1, <2>2 DEF CallType
  <2>4. Touched(s, src[b])
    BY <1>2, Touches
  <2>5. Moves(t, c, b, s, own)
    <3>1. call' = [call EXCEPT ![t].op = op, ![t].payload = p]
      BY <1>5 DEF DrainRead
    <3>2. @ = [call EXCEPT ![t] = c]
      BY <1>2, <1>3 DEF CallType
    <3>3. src' = [src EXCEPT ![b] = s] /\ own' = own
      BY <1>2, <1>3, <1>5 DEF DrainRead
    <3> QED
      BY <3>1, <3>2, <3>3 DEF Moves
  <2>6. \A k \in Handles : Holds(c, k) = Holds(call[t], k)
    BY <2>1, <2>3 DEF Holds
  <2> HIDE DEF c, s, op, p
  <2> QED
    BY <1>2, <2>1, <2>3, <2>4, <2>5, <2>6, QuietCallKeeps
<1> QED
  BY <1>4, <1>5

\* Calls that begin on what the program owns, and calls that end.
LEMMA SilentStepKeeps ==
  ASSUME RefInv, NEW t \in Threads,
         \/ \E h \in Handles : \/ OpenFromSource(t, h) \/ FileAdd(t, h)
                            \/ \E op \in SessionOps : SessionCall(t, h, op)
         \/ ArchiveMake(t) \/ FileAddEnds(t) \/ WindowOutOfRange(t) \/ DispatchFails(t)
  PROVE  RefInv'
<1>1. /\ call \in [Threads -> CallType]
      /\ \A h \in Handles : src[h] \in SourceType /\ WellFormed(src[h])
      /\ NoCall \in CallType /\ NoCall.h = NoHandle
      /\ \A k \in Handles : Holds(NoCall, k) = 0
  BY NewCalls DEF RefInv, TypeOK
<1>2. ASSUME NEW h \in Handles, own[h] > 0, IsIdle(t),
             NEW op \in SessionOps \cup {"archiveOpen", "addOpen"}, NEW q \in Payloads,
             CallMoves(t, Call(op, h, Empty, q), own)
      PROVE  RefInv'
  <2> DEFINE c == Call(op, h, Empty, q)
  <2>1. op \in Ops /\ op \notin HoldingOps /\ op \notin {"none", "windowMake"}
    BY DEF Ops, HoldingOps, SessionOps, BeginOps, Opened
  <2>2. c \in CallType
    BY <2>1, PayloadAssumption DEF Call, CallType
  <2>3. c.h = h /\ c.op = op
    BY DEF Call
  <2>4. \A k \in Handles : Holds(c, k) = Holds(call[t], k)
    BY <1>2, <2>1, <2>3 DEF Holds, HoldingOps, IsIdle
  <2> HIDE DEF c
  <2>5. CallMoves(t, c, own)
    BY <1>2 DEF c
  <2> QED
    BY <1>2, <2>1, <2>2, <2>3, <2>4, <2>5, SilentCallKeeps
<1>3. ASSUME CallMoves(t, NoCall, own), call[t].op \notin HoldingOps
      PROVE  RefInv'
  <2>1. \A k \in Handles : Holds(NoCall, k) = Holds(call[t], k)
    BY <1>1, <1>3 DEF Holds
  <2> QED
    BY <1>1, <1>3, <2>1, SilentCallKeeps
<1>4. ASSUME NEW h \in Handles, OpenFromSource(t, h) \/ FileAdd(t, h)
      PROVE  RefInv'
  <2>1. src[src[h].base].data \in Payloads
    BY <1>1, <1>4, Alive DEF OpenFromSource, FileAdd, SourceType
  <2>2. CASE OpenFromSource(t, h)
    <3>1. CallMoves(t, Call("archiveOpen", h, Empty, src[src[h].base].data), own)
      BY <2>2 DEF OpenFromSource, BeginDrain, CallMoves
    <3> QED
      BY <1>2, <2>1, <2>2, <3>1 DEF OpenFromSource
  <2>3. CASE FileAdd(t, h)
    <3>1. CallMoves(t, Call("addOpen", h, Empty, src[src[h].base].data), own)
      BY <2>3 DEF FileAdd, BeginDrain, CallMoves
    <3> QED
      BY <1>2, <2>1, <2>3, <3>1 DEF FileAdd
  <2> QED
    BY <1>4, <2>2, <2>3
<1>5. ASSUME NEW h \in Handles, NEW op \in SessionOps, SessionCall(t, h, op)
      PROVE  RefInv'
  <2>1. CallMoves(t, Call(op, h, Empty, Empty), own)
    BY <1>5 DEF SessionCall, Begin, CallMoves
  <2> QED
    BY <1>2, <1>5, <2>1, PayloadAssumption DEF SessionCall
<1>6. CASE ArchiveMake(t) \/ FileAddEnds(t) \/ WindowOutOfRange(t)
  BY <1>3, <1>6 DEF ArchiveMake, FileAddEnds, WindowOutOfRange, Return, CallMoves, HoldingOps
<1>7. CASE DispatchFails(t)
  <2>1. call[t].op \in {"clone", "begin", "write", "commit"}
    BY <1>7 DEF DispatchFails
  <2>2. CASE call[t].op # "commit"
    BY <1>3, <1>7, <2>1, <2>2 DEF DispatchFails, Return, CallMoves, HoldingOps
  <2>3. CASE call[t].op = "commit"
    <3> DEFINE c == [call[t] EXCEPT !.op = "commitStore"]
    <3>1. "commitStore" \in Ops
      BY DEF Ops, StoreOps
    <3>2. call[t] \in CallType /\ call[t].h \in Handles /\ own[call[t].h] > 0
      BY <2>3, CallFinds DEF HoldingOps
    <3>3. c \in CallType /\ c.op = "commitStore" /\ c.h = call[t].h
      BY <3>1, <3>2 DEF CallType
    <3>4. CallMoves(t, c, own)
      BY <1>1, <1>7, <2>3 DEF DispatchFails, Enter, CallMoves
    <3>5. \A k \in Handles : Holds(c, k) = Holds(call[t], k)
      BY <2>3, <3>3 DEF Holds, HoldingOps
    <3> HIDE DEF c
    <3> QED
      BY <3>2, <3>3, <3>4, <3>5, SilentCallKeeps
  <2> QED
    BY <2>2, <2>3
<1> QED
  BY <1>4, <1>5, <1>6, <1>7

\* zip_file_add takes the buffer of a memory source, not the source.
LEMMA TakeKeeps ==
  ASSUME RefInv, NEW t \in Threads, NEW h \in Handles, FileAddTake(t, h)
  PROVE  RefInv'
<1> DEFINE c == Call("addPush", h, src[h].data, src[h].data)
           s == [src[h] EXCEPT !.data = Empty]
<1>1. src[h] \in SourceType /\ WellFormed(src[h]) /\ src \in [Handles -> SourceType]
  BY DEF RefInv, TypeOK
<1>2. "addPush" \in Ops /\ "addPush" \notin HoldingOps
  BY DEF Ops, HoldingOps
<1>3. c \in CallType /\ c.op = "addPush" /\ c.h = h
  BY <1>1, <1>2 DEF SourceType, Call, CallType
<1>4. Touched(s, src[h])
  BY <1>1, Touches, PayloadAssumption
<1>5. Moves(t, c, h, s, own)
  BY <1>1 DEF FileAddTake, Moves
<1> HIDE DEF c, s
<1>6. \A k \in Handles : Holds(c, k) = Holds(call[t], k)
  BY <1>2, <1>3 DEF Holds, FileAddTake, IsIdle, HoldingOps
<1> QED
  BY <1>3, <1>4, <1>5, <1>6, QuietCallKeeps DEF FileAddTake

\* Write sessions change contents only.
LEMMA SessionStepKeeps ==
  ASSUME RefInv, NEW t \in Threads,
         \/ BeginDispatch(t) \/ WriteDispatch(t) \/ CommitDispatch(t)
         \/ RollbackDispatch(t) \/ Store(t)
  PROVE  RefInv'
<1> DEFINE h == call[t].h
<1>1. call[t].op \in SessionOps \cup StoreOps
  BY DEF BeginDispatch, WriteDispatch, CommitDispatch, RollbackDispatch, Store, SessionOps
<1>2. call[t].op \notin {"none", "windowMake"} /\ call[t].op \notin HoldingOps
  BY <1>1 DEF SessionOps, BeginOps, StoreOps, HoldingOps
<1>3. /\ call[t] \in CallType /\ h \in Handles /\ own[h] > 0
      /\ src[h] \in SourceType /\ WellFormed(src[h])
  BY <1>2, CallFinds
<1>4. call \in [Threads -> CallType] /\ src \in [Handles -> SourceType]
  BY DEF RefInv, TypeOK
<1>5. ASSUME NEW s, Touched(s, src[h]), src' = [src EXCEPT ![h] = s], own' = own,
             \/ \E op \in StoreOps : Enter(t, op)
             \/ Return(t)
      PROVE  RefInv'
  <2>1. CASE Return(t)
    <3>1. Moves(t, NoCall, h, s, own)
      BY <1>5, <2>1 DEF Moves, Return
    <3>2. /\ NoCall \in CallType /\ NoCall.h = NoHandle
          /\ \A k \in Handles : Holds(NoCall, k) = Holds(call[t], k)
      BY <1>2, NewCalls DEF Holds
    <3> QED
      BY <1>3, <1>5, <3>1, <3>2, QuietCallKeeps
  <2>2. ASSUME NEW op \in StoreOps, Enter(t, op)
        PROVE  RefInv'
    <3> DEFINE c == [call[t] EXCEPT !.op = op]
    <3>1. op \in Ops /\ op \notin HoldingOps /\ op \notin {"none", "windowMake"}
      BY DEF Ops, StoreOps, HoldingOps
    <3>2. c \in CallType /\ c.op = op /\ c.h = h
      BY <1>3, <3>1 DEF CallType
    <3>3. Moves(t, c, h, s, own)
      BY <1>4, <1>5, <2>2 DEF Moves, Enter
    <3>4. \A k \in Handles : Holds(c, k) = Holds(call[t], k)
      BY <1>2, <3>1, <3>2 DEF Holds
    <3> HIDE DEF c
    <3> QED
      BY <1>3, <1>5, <3>1, <3>2, <3>3, <3>4, QuietCallKeeps
  <2> QED
    BY <1>5, <2>1, <2>2
<1>6. ASSUME NEW s, Backend(t, s), Touched(s, src[h]) \/ src[h].kind # "memory",
             \/ \E op \in StoreOps : Enter(t, op)
             \/ Return(t)
      PROVE  RefInv'
  <2>1. CASE src[h].kind = "memory"
    <3>1. src' = [src EXCEPT ![h] = s] /\ own' = own
      BY <2>1, <1>3, <1>4, <1>6 DEF Backend
    <3> QED
      BY <1>5, <1>6, <2>1, <3>1
  <2>2. CASE src[h].kind # "memory"
    <3>1. src' = [src EXCEPT ![h] = src[h]] /\ own' = own
      BY <2>2, <1>3, <1>4, <1>6 DEF Backend
    <3>2. Touched(src[h], src[h])
      BY <1>3, Touches
    <3> QED
      BY <1>5, <1>6, <3>1, <3>2
  <2> QED
    BY <2>1, <2>2
<1>7. "beginStore" \in StoreOps /\ "commitStore" \in StoreOps /\ "rollbackStore" \in StoreOps
  BY DEF StoreOps
<1>8. CASE BeginDispatch(t)
  <2>1. PICK p \in Payloads : Backend(t, [src[h] EXCEPT !.draft = p])
    BY <1>3, <1>8, PayloadAssumption DEF BeginDispatch, SourceType
  <2> QED
    BY <1>3, <1>6, <1>7, <1>8, <2>1, Touches DEF BeginDispatch
<1>9. CASE WriteDispatch(t)
  <2>1. PICK p \in Payloads : Backend(t, [src[h] EXCEPT !.draft = p])
    BY <1>9 DEF WriteDispatch
  <2> QED
    BY <1>3, <1>6, <1>9, <2>1, Touches DEF WriteDispatch
<1>10. CASE CommitDispatch(t)
  <2> DEFINE s == [src[h] EXCEPT !.data = src[h].draft, !.draft = NoDraft, !.atEnd = FALSE]
  <2>1. src[h].kind = "memory" => src[h].draft \in Payloads
    BY <1>3, <1>10 DEF CommitDispatch, SourceType
  <2>2. Touched(s, src[h]) \/ src[h].kind # "memory"
    BY <1>3, <2>1, Touches
  <2>3. Backend(t, s)
    BY <1>10 DEF CommitDispatch
  <2> HIDE DEF s
  <2> QED
    BY <1>6, <1>7, <1>10, <2>2, <2>3 DEF CommitDispatch
<1>11. CASE RollbackDispatch(t)
  BY <1>3, <1>6, <1>7, <1>11, Touches DEF RollbackDispatch
<1>12. CASE Store(t)
  <2> DEFINE s == [src[h] EXCEPT !.writeOpen = (call[t].op = "beginStore")]
  <2>1. Touched(s, src[h])
    BY <1>3, Touches
  <2>2. src' = [src EXCEPT ![h] = s] /\ own' = own /\ Return(t)
    BY <1>3, <1>4, <1>12 DEF Store
  <2> HIDE DEF s
  <2> QED
    BY <1>5, <2>1, <2>2
<1> QED
  BY <1>8, <1>9, <1>10, <1>11, <1>12

\* zip_source_free and zip_source_window_create take their reference over.
LEMMA TakingOverKeeps ==
  ASSUME RefInv, NEW t \in Threads, NEW h \in Handles, Free(t, h) \/ WindowCreate(t, h)
  PROVE  RefInv'
<1>1. own \in [Handles -> Nat] /\ \A k \in Handles : src[k] \in SourceType
  BY DEF RefInv, TypeOK
<1>2. CASE Free(t, h)
  <2>1. /\ Call("release", h, Empty, Empty) \in CallType
        /\ Call("release", h, Empty, Empty).op \in HoldingOps
        /\ Call("release", h, Empty, Empty).h = h
    BY PayloadAssumption DEF Call, CallType, Ops, HoldingOps
  <2>2. CallMoves(t, Call("release", h, Empty, Empty), Gives(h))
    BY <1>2 DEF Free, Begin, CallMoves, Gives
  <2> QED
    BY <1>2, <2>1, <2>2, TakeOverKeeps DEF Free
<1>3. CASE WindowCreate(t, h)
  <2> DEFINE q == src[src[h].base].data
  <2>1. own[h] > 0
    BY <1>1, <1>3 DEF WindowCreate, Spare
  <2>2. q \in Payloads
    BY <1>1, <2>1, Alive DEF SourceType
  <2>3. CallMoves(t, Call("windowOpen", h, Empty, q), Gives(h))
    BY <1>3 DEF WindowCreate, BeginDrain, CallMoves, Gives
  <2> HIDE DEF q
  <2>4. /\ Call("windowOpen", h, Empty, q) \in CallType
        /\ Call("windowOpen", h, Empty, q).op \in HoldingOps
        /\ Call("windowOpen", h, Empty, q).h = h
    BY <2>2, PayloadAssumption DEF Call, CallType, Ops, HoldingOps
  <2> QED
    BY <1>3, <2>3, <2>4, TakeOverKeeps DEF WindowCreate
<1> QED
  BY <1>2, <1>3

\* The constructors, a window's included.
LEMMA CreatingKeeps ==
  ASSUME RefInv, NEW t \in Threads, NEW h \in Handles,
         CreateMemory(t, h) \/ CreateFunction(t, h) \/ WindowMake(t, h)
  PROVE  RefInv'
<1>1. ASSUME NEW p \in Payloads, NEW s \in {MemorySource(h, p), FunctionSource(h, p)},
             Create(t, h, s)
      PROVE  RefInv'
  <2>1. Moves(t, NoCall, h, s, Gets(h))
    BY <1>1 DEF Create, Return, Moves, Gets
  <2>2. call[t].op = "none" /\ src[h].kind = "free"
    BY <1>1 DEF Create, IsIdle
  <2>3. WellFormed(s) /\ s.refs = 1 /\ \A k \in Handles : LiesOn(s, k) = 0
    BY <1>1, NewSources
  <2> QED
    BY <2>1, <2>2, <2>3, CreateKeeps
<1>2. CASE CreateMemory(t, h) \/ CreateFunction(t, h)
  BY <1>1, <1>2 DEF CreateMemory, CreateFunction
<1>3. CASE WindowMake(t, h)
  <2> DEFINE p == call[t].payload
             s == MemorySource(h, p)
  <2>1. p \in Payloads
    BY DEF RefInv, TypeOK, CallType
  <2>2. Moves(t, NoCall, h, s, Gets(h))
    BY <1>3 DEF WindowMake, Return, Moves, Gets
  <2>3. WellFormed(s) /\ s.refs = 1 /\ \A k \in Handles : LiesOn(s, k) = 0
    BY <2>1, NewSources
  <2> HIDE DEF s
  <2> QED
    BY <1>3, <2>2, <2>3, CreateKeeps DEF WindowMake
<1> QED
  BY <1>2, <1>3

----------------------------------------------------------------------------

LEMMA RefInvInit == Init => RefInv
<1> SUFFICES ASSUME Init PROVE RefInv
  OBVIOUS
<1>1. NoCall \in CallType /\ NoCall.h = NoHandle /\ NoCall.op = "none"
  BY NewCalls
<1>2. \A h \in Handles : WellFormed(src[h]) /\ src[h].kind = "free" /\ src[h].refs = 0
  BY NewSources DEF Init, NoSource
<1>3. TypeOK
  BY <1>1, <1>2 DEF Init, TypeOK, WellFormed
<1>4. CallsNameSources
  BY <1>1 DEF Init, CallsNameSources
<1>5. \A h \in Handles : Layers(h) = {} /\ Holders(h) = {} /\ ~Borrowed(h)
  BY <1>1, <1>2, HeapAssumption DEF Init, Layers, Holders, Borrowed, HoldingOps
<1>6. RefsAreCounted
  BY <1>2, <1>5, FS_EmptySet DEF Init, RefsAreCounted
<1> QED
  BY <1>3, <1>4, <1>5, <1>6 DEF RefInv, BorrowedIsOwned

LEMMA RefInvNext == RefInv /\ [Next]_vars => RefInv'
<1> SUFFICES ASSUME RefInv, [Next]_vars PROVE RefInv'
  OBVIOUS
<1>1. ASSUME NEW t \in Threads, NEW h \in Handles, References(t, h)
      PROVE  RefInv'
  BY <1>1, CreatingKeeps, KeepKeeps, TakingOverKeeps, LayerKeeps DEF References
<1>2. ASSUME NEW t \in Threads, NEW h \in Handles, Contents(t, h)
      PROVE  RefInv'
  <2>1. CASE WindowCreate(t, h)
    BY <2>1, TakingOverKeeps
  <2>2. CASE FileAddTake(t, h)
    BY <2>2, TakeKeeps
  <2>3. CASE OpenFromSource(t, h) \/ FileAdd(t, h) \/ \E op \in SessionOps : SessionCall(t, h, op)
    BY <2>3, SilentStepKeeps
  <2> QED
    BY <1>2, <2>1, <2>2, <2>3 DEF Contents, SessionOps
<1>3. ASSUME NEW t \in Threads, Step(t)
      PROVE  RefInv'
  <2>1. CASE Release(t)
    BY <2>1, ReleaseKeeps
  <2>2. CASE DrainOpen(t) \/ DrainRead(t)
    BY <2>2, DrainKeeps
  <2>3. CASE DrainFails(t)
    BY <2>3, DrainFailsKeeps
  <2>4. CASE \E h \in Handles : WindowMake(t, h)
    BY <2>4, CreatingKeeps
  <2>5. CASE ArchiveMake(t) \/ FileAddEnds(t) \/ WindowOutOfRange(t) \/ DispatchFails(t)
    BY <2>5, SilentStepKeeps
  <2>6. CASE \/ BeginDispatch(t) \/ WriteDispatch(t) \/ CommitDispatch(t)
             \/ RollbackDispatch(t) \/ Store(t)
    BY <2>6, SessionStepKeeps
  <2> QED
    BY <1>3, <2>1, <2>2, <2>3, <2>4, <2>5, <2>6 DEF Step
<1>4. CASE UNCHANGED vars
  BY <1>4 DEF vars, RefInv, TypeOK, WellFormed, SourceType, CallType, CallsNameSources,
     RefsAreCounted, BorrowedIsOwned, Borrowed, Layers, Holders
<1> QED
  BY <1>1, <1>2, <1>3, <1>4 DEF Next

LEMMA RefInvAlways == Spec => []RefInv
<1> QED
  BY RefInvInit, RefInvNext, PTL DEF Spec

\* Sources and calls keep their types, whatever threads do.
THEOREM SourceTypes == Spec => []TypeOK
<1>1. RefInv => TypeOK
  BY DEF RefInv
<1> QED
  BY <1>1, RefInvAlways, PTL

\* No reference leaks and none is dropped under its user: every one counted is
\* the program's, a layer's or a call's, for any heap, any number of threads
\* and any order of their calls and of the steps in them.
THEOREM ReferencesAreCounted == Spec => []RefsAreCounted
<1>1. RefInv => RefsAreCounted
  BY DEF RefInv
<1> QED
  BY <1>1, RefInvAlways, PTL

\* What the program, a layer or a call refers to has not been freed.
THEOREM NoDanglingSource == Spec => []NothingDangles
<1>1. RefInv => NothingDangles
  BY Alive
<1> QED
  BY <1>1, RefInvAlways, PTL

\* A careful program is a program: what is proved of any holds of it.
THEOREM CarefulIsAny == CarefulSpec => Spec
<1>1. [CarefulNext]_vars => [Next]_vars
  BY DEF CarefulNext, Next
<1> QED
  BY <1>1, PTL DEF CarefulSpec, Spec

----------------------------------------------------------------------------
(* What a careful program may rely on.                                     *)

\* A layer ends where the source below it does; the others end in themselves.
BasesAgree ==
  \A h \in Handles : src[h].kind # "free" =>
    src[h].base = IF src[h].kind = "layered" THEN src[src[h].lower].base ELSE h

\* No chain of layers comes back to itself: among any layers one lies on
\* something else.
Grounded ==
  \A K \in SUBSET Handles :
    K # {} /\ (\A k \in K : src[k].kind = "layered") =>
      \E k \in K : src[k].lower \notin K

Chains == BasesAgree /\ Grounded

\* A call that reads a source or writes to it.
Using(t) == call[t].h # NoHandle /\ ~Releasing(t)

\* What a careful program sees to.
OneUser ==
  \A s, t \in Threads :
    s # t /\ Using(s) /\ Using(t) => src[call[s].h].base # src[call[t].h].base

\* Where a drain is: what it is to deliver is what the end of the chain holds,
\* until it has been read.
DrainOK(c, f) ==
  LET h == c.h
      b == f[h].base
  IN  /\ c.op \in DOMAIN Opened =>
           c.seen = f[b].data /\ (f[h].kind = "layered" => ~f[b].atEnd)
      /\ c.op \in DOMAIN Drained => c.seen = f[b].data /\ ~f[b].atEnd
      /\ c.op \in {"windowRelease", "windowMake", "archiveMake", "addPush"} =>
           c.payload = c.seen

\* Where a session is: the backend acts before write_open is stored.
SessionOK(c, f) ==
  LET s == f[c.h]
  IN  c.op \in SessionOps \cup StoreOps =>
        /\ s.kind # "layered"
        /\ s.kind = "memory" =>
             /\ c.op \in BeginOps => ~s.writeOpen /\ s.draft = NoDraft
             /\ c.op \in {"write", "commit", "rollback"} =>
                  s.writeOpen /\ s.draft # NoDraft
             /\ c.op = "beginStore" => s.draft # NoDraft
             /\ c.op \in {"commitStore", "rollbackStore"} => s.draft = NoDraft

CarefulInv ==
  /\ OneUser
  /\ \A t \in Threads : DrainOK(call[t], src) /\ SessionOK(call[t], src)
  /\ SessionsInStep

\* A source's place in its chain, and what it holds.
SamePlace(s, r) == s.kind = r.kind /\ s.lower = r.lower /\ s.base = r.base
SameContent(s, r) ==
  /\ s.data = r.data /\ s.atEnd = r.atEnd
  /\ s.draft = r.draft /\ s.writeOpen = r.writeOpen

\* Every chain ends in a source that is there and has a content of its own.
LEMMA ChainsEnd ==
  ASSUME RefInv, Chains, NEW h \in Handles, src[h].kind # "free"
  PROVE  LET b == src[h].base
         IN  /\ b \in Handles /\ src[b].kind \in {"memory", "function"}
             /\ src[b].base = b
             /\ src[h].kind # "layered" => b = h
<1> DEFINE b == src[h].base
           K == {k \in Handles : /\ src[k].kind # "free" /\ src[k].base = b
                                 /\ ~(src[b].kind \in {"memory", "function"} /\ src[b].base = b)}
<1>1. \A k \in Handles : src[k] \in SourceType /\ WellFormed(src[k])
  BY DEF RefInv, TypeOK
<1>2. \A k \in K : src[k].kind = "layered"
  BY <1>1 DEF Chains, BasesAgree, SourceType
<1>3. ASSUME NEW k \in K PROVE src[k].lower \in K
  <2>1. src[k].lower \in Handles
    BY <1>1, <1>2 DEF WellFormed, SourceType
  <2>2. k \in Layers(src[k].lower)
    BY <1>2 DEF Layers
  <2>3. src[src[k].lower].kind # "free"
    BY <2>1, <2>2, Alive DEF NothingDangles
  <2>4. src[src[k].lower].base = b
    BY <1>2 DEF Chains, BasesAgree
  <2> QED BY <2>1, <2>3, <2>4
<1>4. K = {}
  BY <1>2, <1>3 DEF Chains, Grounded
<1>5. src[b].kind \in {"memory", "function"} /\ src[b].base = b
  BY <1>4
<1>6. b \in Handles
  BY <1>1 DEF WellFormed, SourceType
<1> QED BY <1>5, <1>6 DEF Chains, BasesAgree

\* What a new source is.
LEMMA NewPlaces ==
  ASSUME NEW h \in Handles
  PROVE  /\ NoSource.kind = "free"
         /\ \A p \in Payloads : \A s \in {MemorySource(h, p), FunctionSource(h, p)} :
              /\ s.kind \in {"memory", "function"} /\ s.base = h
              /\ s.draft = NoDraft /\ ~s.writeOpen
         /\ \A l \in Handles : LET s == LayeredSource(h, l) IN
              /\ s.kind = "layered" /\ s.lower = l /\ s.base = src[l].base
              /\ s.draft = NoDraft /\ ~s.writeOpen
<1>1. Empty \in Payloads /\ NoSource \in SourceType
  BY HeapAssumption, PayloadAssumption DEF NoSource, SourceType
<1>2. \A kind \in {"memory", "function", "layered"} :
        /\ New(h, kind) \in SourceType
        /\ New(h, kind).kind = kind /\ New(h, kind).base = h
        /\ New(h, kind).draft = NoDraft /\ ~New(h, kind).writeOpen
  BY <1>1 DEF New, NoSource, SourceType
<1>3. ASSUME NEW p \in Payloads, NEW s \in {MemorySource(h, p), FunctionSource(h, p)}
      PROVE  /\ s.kind \in {"memory", "function"} /\ s.base = h
             /\ s.draft = NoDraft /\ ~s.writeOpen
  BY <1>2, <1>3 DEF MemorySource, FunctionSource, SourceType
<1>4. ASSUME NEW l \in Handles
      PROVE  LET s == LayeredSource(h, l)
             IN  /\ s.kind = "layered" /\ s.lower = l /\ s.base = src[l].base
                 /\ s.draft = NoDraft /\ ~s.writeOpen
  BY <1>2, <1>4 DEF LayeredSource, SourceType
<1> QED BY <1>3, <1>4 DEF NoSource

\* Where nothing is, nothing lies on it.
LEMMA FreeIsBare ==
  ASSUME RefInv, NEW h \in Handles, src[h].kind = "free"
  PROVE  \A k \in Handles : src[k].kind = "layered" => src[k].lower # h
BY Alive DEF NothingDangles, Layers

\* Steps that leave every source in its place.
LEMMA ChainsKeepPlaces ==
  ASSUME Chains, \A h \in Handles : SamePlace(src'[h], src[h]),
         \A h \in Handles : src[h].kind = "layered" => src[h].lower \in Handles
  PROVE  Chains'
<1>1. BasesAgree'
  BY DEF Chains, BasesAgree, SamePlace
<1>2. Grounded'
  BY DEF Chains, Grounded, SamePlace
<1> QED BY <1>1, <1>2 DEF Chains

\* A new source on nothing.
LEMMA ChainsCreate ==
  ASSUME RefInv, Chains, NEW h \in Handles, src[h].kind = "free", NEW s,
         s.kind # "layered", s.base = h, src' = [src EXCEPT ![h] = s]
  PROVE  Chains'
<1>1. /\ src'[h] = s /\ \A k \in Handles \ {h} : src'[k] = src[k]
      /\ \A k \in Handles : src[k].kind = "layered" => src[k].lower \in Handles \ {h}
  BY FreeIsBare DEF RefInv, TypeOK, WellFormed, SourceType
<1>2. BasesAgree'
  BY <1>1 DEF Chains, BasesAgree
<1>3. Grounded'
  <2> SUFFICES ASSUME NEW K \in SUBSET Handles, K # {},
                      \A k \in K : src'[k].kind = "layered"
               PROVE  \E k \in K : src'[k].lower \notin K
    BY DEF Grounded
  <2>1. h \notin K /\ \A k \in K : src'[k] = src[k]
    BY <1>1
  <2> QED BY <2>1 DEF Chains, Grounded
<1> QED BY <1>2, <1>3 DEF Chains

\* A new layer.
LEMMA ChainsLayer ==
  ASSUME RefInv, Chains, NEW h \in Handles, src[h].kind = "free",
         NEW l \in Handles, own[l] > 0,
         src' = [src EXCEPT ![h] = LayeredSource(h, l)]
  PROVE  Chains'
<1>1. /\ src'[h] = LayeredSource(h, l) /\ \A k \in Handles \ {h} : src'[k] = src[k]
      /\ \A k \in Handles : src[k].kind = "layered" => src[k].lower \in Handles \ {h}
  BY FreeIsBare DEF RefInv, TypeOK, WellFormed, SourceType
<1>2. /\ src'[h].kind = "layered" /\ src'[h].lower = l /\ src'[h].base = src[l].base
  BY <1>1, NewPlaces
<1>3. l # h
  BY Alive DEF NothingDangles
<1>4. BasesAgree'
  <2> SUFFICES ASSUME NEW k \in Handles, src'[k].kind # "free"
               PROVE  src'[k].base = IF src'[k].kind = "layered"
                                     THEN src'[src'[k].lower].base ELSE k
    BY DEF BasesAgree
  <2>1. CASE k = h
    BY <1>1, <1>2, <1>3, <2>1
  <2>2. CASE k # h
    BY <1>1, <2>2 DEF Chains, BasesAgree
  <2> QED BY <2>1, <2>2
<1>5. Grounded'
  <2> SUFFICES ASSUME NEW K \in SUBSET Handles, K # {},
                      \A k \in K : src'[k].kind = "layered"
               PROVE  \E k \in K : src'[k].lower \notin K
    BY DEF Grounded
  <2>1. CASE K = {h}
    BY <1>2, <1>3, <2>1
  <2>2. CASE K # {h}
    <3> DEFINE J == K \ {h}
    <3>1. J \in SUBSET Handles /\ J # {} /\ \A k \in J : src'[k] = src[k]
      BY <1>1, <2>2
    <3>2. \A k \in J : src[k].kind = "layered" /\ src[k].lower # h
      BY <1>1, <3>1
    <3> HIDE DEF J
    <3>3. PICK k \in J : src[k].lower \notin J
      BY <3>1, <3>2 DEF Chains, Grounded
    <3>4. k \in K /\ src'[k].lower \notin K
      BY <3>1, <3>2, <3>3 DEF J
    <3> QED BY <3>4
  <2> QED BY <2>1, <2>2
<1> QED BY <1>4, <1>5 DEF Chains

\* A source that goes has no layer on it.
LEMMA ChainsDrop ==
  ASSUME RefInv, Chains, NEW h \in Handles, Layers(h) = {},
         src' = [src EXCEPT ![h] = NoSource]
  PROVE  Chains'
<1>1. /\ src'[h] = NoSource /\ \A k \in Handles \ {h} : src'[k] = src[k]
      /\ \A k \in Handles : src[k].kind = "layered" => src[k].lower \in Handles \ {h}
  BY DEF RefInv, TypeOK, WellFormed, SourceType, Layers
<1>2. NoSource.kind = "free"
  BY DEF NoSource
<1>3. BasesAgree'
  BY <1>1, <1>2 DEF Chains, BasesAgree
<1>4. Grounded'
  <2> SUFFICES ASSUME NEW K \in SUBSET Handles, K # {},
                      \A k \in K : src'[k].kind = "layered"
               PROVE  \E k \in K : src'[k].lower \notin K
    BY DEF Grounded
  <2>1. h \notin K /\ \A k \in K : src'[k] = src[k]
    BY <1>1, <1>2
  <2> QED BY <2>1 DEF Chains, Grounded
<1> QED BY <1>3, <1>4 DEF Chains

\* A call that reads or writes is about a source that is there, and so is the
\* end of its chain.
UsersFind ==
  \A t \in Threads : Using(t) =>
    LET h == call[t].h
        b == src[h].base
    IN  /\ h \in Handles /\ src[h].kind # "free" /\ src[h] \in SourceType
        /\ b \in Handles /\ src[b].kind \in {"memory", "function"} /\ src[b] \in SourceType
        /\ src[b].base = b /\ (src[h].kind # "layered" => b = h)

LEMMA UsingFinds == RefInv /\ Chains => UsersFind
<1> SUFFICES ASSUME RefInv, Chains, NEW t \in Threads, Using(t)
    PROVE LET h == call[t].h
              b == src[h].base
    IN  /\ h \in Handles /\ src[h].kind # "free" /\ src[h] \in SourceType
        /\ b \in Handles /\ src[b].kind \in {"memory", "function"} /\ src[b] \in SourceType
        /\ src[b].base = b /\ (src[h].kind # "layered" => b = h)
  BY DEF UsersFind
<1>1. call[t].op \notin {"none", "windowMake"}
  BY DEF Using, RefInv, CallsNameSources
<1>2. call[t].h \in Handles /\ src[call[t].h].kind # "free"
  BY <1>1, Alive
<1>3. \A h \in Handles : src[h] \in SourceType
  BY DEF RefInv, TypeOK
<1> QED BY <1>2, <1>3, ChainsEnd

\* Where a memory source is to agree with itself, no call other than t's at it.
AgreesWithout(c, f, h) ==
  f[h].kind = "memory" /\ c.op \notin SessionOps \cup StoreOps =>
    (f[h].writeOpen <=> f[h].draft # NoDraft)

\* A step of t that changes content nowhere but at B, where no other call is.
LEMMA CarefulFrame ==
  ASSUME RefInv, RefInv', Chains, Chains', CarefulInv, NEW t \in Threads, NEW B,
         \A u \in Threads \ {t} : call'[u] = call[u],
         \A k \in Handles : src[k].kind # "free" /\ src'[k].kind # "free" =>
           SamePlace(src'[k], src[k]) /\ (k # B => SameContent(src'[k], src[k])),
         \A k \in Handles : src[k].kind = "free" /\ src'[k].kind # "free" =>
           src'[k].draft = NoDraft /\ ~src'[k].writeOpen,
         \A u \in Threads \ {t} : Using(u) => src[call[u].h].base # B,
         call[t].op \in SessionOps \cup StoreOps => call[t].h = B,
         Using(t)' => src'[call'[t].h].base = B,
         DrainOK(call'[t], src'), SessionOK(call'[t], src'),
         B \in Handles => AgreesWithout(call'[t], src', B)
  PROVE  CarefulInv'
<1>0. UsersFind /\ UsersFind'
  <2>1. RefInv' /\ Chains' => UsersFind'
    BY UsingFinds, PTL
  <2> QED BY <2>1, UsingFinds
<1>1. ASSUME NEW u \in Threads \ {t}, Using(u)
      PROVE  LET h == call[u].h
                 b == src[h].base
             IN  /\ Using(u)' /\ call'[u].h = h /\ h \in Handles
                 /\ SamePlace(src'[h], src[h]) /\ src'[h].base = b
                 /\ b \in Handles /\ b # B /\ SamePlace(src'[b], src[b])
                 /\ SameContent(src'[b], src[b])
                 /\ (src[h].kind # "layered" => b = h)
  <2>1. Using(u)' /\ call'[u].h = call[u].h
    BY <1>1 DEF Using, Releasing
  <2>2. LET h == call[u].h
            b == src[h].base
        IN  /\ h \in Handles /\ src[h].kind # "free"
            /\ b \in Handles /\ src[b].kind \in {"memory", "function"}
            /\ src[b].base = b /\ (src[h].kind # "layered" => b = h)
    BY <1>0, <1>1 DEF UsersFind
  <2>3. LET h == call'[u].h
            b == src'[h].base
        IN src'[h].kind # "free" /\ src'[b].kind # "free"
    BY <1>0, <2>1 DEF UsersFind
  <2> QED BY <1>1, <2>1, <2>2, <2>3 DEF SamePlace
<1>2. OneUser'
  <2>1. \A u, v \in Threads \ {t} : u # v /\ Using(u)' /\ Using(v)' =>
          src'[call'[u].h].base # src'[call'[v].h].base
    BY <1>1 DEF OneUser, CarefulInv, Using, Releasing
  <2>2. \A u \in Threads \ {t} : Using(u)' => src'[call'[u].h].base # B
    BY <1>1 DEF Using, Releasing
  <2> QED BY <2>1, <2>2 DEF OneUser
<1>3. ASSUME NEW u \in Threads PROVE DrainOK(call'[u], src') /\ SessionOK(call'[u], src')
  <2>1. CASE u = t
    BY <2>1
  <2>2. CASE u # t /\ Using(u)
    BY <1>1, <2>2 DEF CarefulInv, DrainOK, SessionOK, SamePlace, SameContent
  <2>3. CASE u # t /\ ~Using(u)
    <3>1. call'[u] = call[u] /\ call[u].op \in {"none", "windowMake", "release", "windowRelease"}
      BY <2>3 DEF Using, Releasing, RefInv, CallsNameSources
    <3>2. call[u].op \notin SessionOps \cup StoreOps \cup DOMAIN Opened \cup DOMAIN Drained
      BY <3>1, OpNames DEF SessionOps, BeginOps, StoreOps
    <3> QED BY <3>1, <3>2 DEF CarefulInv, DrainOK, SessionOK
  <2> QED BY <2>1, <2>2, <2>3
<1>4. SessionsInStep'
  <2> SUFFICES ASSUME NEW k \in Handles, src'[k].kind = "memory",
                      ~\E u \in Threads : call'[u].h = k /\ call'[u].op \in SessionOps \cup StoreOps
               PROVE  src'[k].writeOpen <=> src'[k].draft # NoDraft
    BY DEF SessionsInStep
  <2>1. CASE k = B
    <3>1. call'[t].op \in SessionOps \cup StoreOps => call'[t].h = B
      <4> SUFFICES ASSUME call'[t].op \in SessionOps \cup StoreOps PROVE call'[t].h = B
        OBVIOUS
      <4>1. Using(t)'
        <5>1. call'[t].h # NoHandle
          BY DEF RefInv, CallsNameSources, SessionOps, BeginOps, StoreOps
        <5> QED BY <5>1 DEF Using, Releasing, SessionOps, BeginOps, StoreOps
      <4>2. src'[call'[t].h].kind # "layered"
        BY DEF SessionOK
      <4> QED BY <1>0, <4>1, <4>2 DEF UsersFind
    <3> QED BY <2>1, <3>1 DEF AgreesWithout
  <2>2. CASE k # B /\ src[k].kind = "free"
    BY <2>2
  <2>3. CASE k # B /\ src[k].kind # "free"
    <3>1. SamePlace(src'[k], src[k]) /\ SameContent(src'[k], src[k])
      BY <2>3
    <3>2. ~\E u \in Threads : call[u].h = k /\ call[u].op \in SessionOps \cup StoreOps
      BY <2>3
    <3> QED BY <3>1, <3>2 DEF CarefulInv, SessionsInStep, SamePlace, SameContent
  <2> QED BY <2>1, <2>2, <2>3
<1> QED BY <1>2, <1>3, <1>4 DEF CarefulInv

\* A step that leaves every source in its place.
LEMMA CarefulQuiet ==
  ASSUME RefInv, RefInv', Chains, CarefulInv, NEW t \in Threads, NEW B,
         \A u \in Threads \ {t} : call'[u] = call[u],
         \A k \in Handles : SamePlace(src'[k], src[k]) /\ (k # B => SameContent(src'[k], src[k])),
         \A u \in Threads \ {t} : Using(u) => src[call[u].h].base # B,
         call[t].op \in SessionOps \cup StoreOps => call[t].h = B,
         Using(t)' => src[call'[t].h].base = B,
         DrainOK(call'[t], src'), SessionOK(call'[t], src'),
         B \in Handles => AgreesWithout(call'[t], src', B)
  PROVE  Chains' /\ CarefulInv'
<1>1. \A h \in Handles : src[h].kind = "layered" => src[h].lower \in Handles
  BY DEF RefInv, TypeOK, WellFormed, SourceType
<1>2. Chains'
  BY <1>1, ChainsKeepPlaces
<1>3. \A k \in Handles : ~(src[k].kind = "free" /\ src'[k].kind # "free")
  BY DEF SamePlace
<1>4. Using(t)' => call'[t].h \in Handles
  BY DEF Using, RefInv, TypeOK, CallType
<1>5. Using(t)' => src'[call'[t].h].base = B
  BY <1>4 DEF SamePlace
<1> QED BY <1>2, <1>3, <1>5, CarefulFrame

\* What a call of t has for itself.
LEMMA OwnBase ==
  ASSUME RefInv, Chains, CarefulInv, NEW t \in Threads, Using(t)
  PROVE  LET h == call[t].h
             B == src[h].base
         IN  /\ \A u \in Threads \ {t} : Using(u) => src[call[u].h].base # B
             /\ call[t].op \in SessionOps \cup StoreOps => h = B
             /\ call[t] \in CallType
<1>1. call[t] \in CallType
  BY DEF RefInv, TypeOK
<1> QED BY <1>1, UsingFinds DEF CarefulInv, OneUser, SessionOK, UsersFind

\* A source no session call is at agrees with itself.
LEMMA AloneAgrees ==
  ASSUME RefInv, Chains, CarefulInv, NEW t \in Threads, NEW B \in Handles, src[B].base = B,
         \A u \in Threads \ {t} : Using(u) => src[call[u].h].base # B,
         call[t].op \notin SessionOps \cup StoreOps, src[B].kind = "memory"
  PROVE  src[B].writeOpen <=> src[B].draft # NoDraft
<1>1. ASSUME NEW u \in Threads, call[u].h = B, call[u].op \in SessionOps \cup StoreOps
      PROVE  FALSE
  <2>1. u # t /\ Using(u)
    BY <1>1, HeapAssumption DEF Using, Releasing, SessionOps, BeginOps, StoreOps
  <2> QED BY <1>1, <2>1
<1> QED BY <1>1 DEF CarefulInv, SessionsInStep

\* Calls that end without another look at the source.
LEMMA EndsCareful ==
  ASSUME RefInv, RefInv', Chains, CarefulInv, NEW t \in Threads, Using(t),
         call[t].op \notin SessionOps \cup StoreOps, Return(t), src' = src
  PROVE  Chains' /\ CarefulInv'
<1> DEFINE B == src[call[t].h].base
<1>1. B \in Handles /\ src[B].base = B
  BY UsingFinds DEF UsersFind
<1>2. /\ \A u \in Threads \ {t} : Using(u) => src[call[u].h].base # B
      /\ call \in [Threads -> CallType]
  BY OwnBase DEF RefInv, TypeOK
<1>3. call'[t] = NoCall /\ \A u \in Threads \ {t} : call'[u] = call[u]
  BY <1>2 DEF Return
<1>4. ~Using(t)' /\ DrainOK(NoCall, src') /\ SessionOK(NoCall, src')
  BY <1>3, NewCalls, OpNames DEF Using, DrainOK, SessionOK, SessionOps, BeginOps, StoreOps
<1>5. \A k \in Handles : SamePlace(src'[k], src[k]) /\ SameContent(src'[k], src[k])
  BY DEF SamePlace, SameContent
<1>6. AgreesWithout(NoCall, src', B)
  BY <1>1, <1>2, AloneAgrees DEF AgreesWithout
<1> HIDE DEF B
<1> QED BY <1>1, <1>2, <1>3, <1>4, <1>5, <1>6, CarefulQuiet

\* A step that may change what the source at B holds, and nothing else.
HardlyTouched(B) ==
  \A k \in Handles :
    /\ SamePlace(src'[k], src[k])
    /\ k # B => SameContent(src'[k], src[k])
    /\ src'[k].draft = src[k].draft /\ src'[k].writeOpen = src[k].writeOpen

\* Calls that begin on a source no other call uses, and change no content but
\* what it holds.
LEMMA BeginsCareful ==
  ASSUME RefInv, RefInv', Chains, CarefulInv, NEW t \in Threads, NEW h \in Handles,
         IsIdle(t), src[h].kind # "free", Careful(h),
         call'[t].h = h, \A u \in Threads \ {t} : call'[u] = call[u],
         HardlyTouched(src[h].base), DrainOK(call'[t], src'), SessionOK(call'[t], src')
  PROVE  Chains' /\ CarefulInv'
<1> DEFINE B == src[h].base
<1>1. B \in Handles /\ src[B].base = B
  BY ChainsEnd
<1>2. call \in [Threads -> CallType] /\ call[t].op = "none"
  BY DEF RefInv, TypeOK, IsIdle
<1>3. \A u \in Threads : Using(u) => src[call[u].h].base # B
  BY DEF Careful, InUse, Using
<1>5. Using(t)' => src[call'[t].h].base = B
  BY DEF Using
<1>6. call[t].op \notin SessionOps \cup StoreOps
  BY <1>2 DEF SessionOps, BeginOps, StoreOps
<1>7. AgreesWithout(call'[t], src', B)
  BY <1>1, <1>3, <1>6, AloneAgrees DEF AgreesWithout, SamePlace, HardlyTouched
<1> HIDE DEF B
<1>8. \A k \in Handles : SamePlace(src'[k], src[k]) /\ (k # B => SameContent(src'[k], src[k]))
  BY DEF B, HardlyTouched
<1> QED BY <1>3, <1>5, <1>6, <1>7, <1>8, CarefulQuiet

LEMMA ContentsCareful ==
  ASSUME RefInv, RefInv', Chains, CarefulInv, NEW t \in Threads, NEW h \in Handles,
         own[h] > 0, Careful(h), Contents(t, h)
  PROVE  Chains' /\ CarefulInv'
<1>1. src[h].kind # "free" /\ src[h] \in SourceType /\ src \in [Handles -> SourceType]
      /\ call \in [Threads -> CallType]
  BY Alive DEF RefInv, TypeOK
<1>2. src' = src => \A b : HardlyTouched(b)
  BY DEF SamePlace, SameContent, HardlyTouched
<1>3. LET b == src[h].base
      IN  b \in Handles /\ src[b].base = b /\ src[b].kind \in {"memory", "function"}
          /\ (src[h].kind # "layered" => b = h)
  BY <1>1, ChainsEnd
<1>4. ASSUME NEW op \in DOMAIN Opened, IsIdle(t), BeginDrain(t, op, h), src' = src
      PROVE  Chains' /\ CarefulInv'
  <2> DEFINE c == Call(op, h, Empty, src[src[h].base].data)
  <2>1. c.h = h /\ c.op = op /\ c.seen = src[src[h].base].data
    BY DEF Call
  <2>2. DrainOK(c, src') /\ SessionOK(c, src')
    BY <1>4, <2>1, OpNames DEF DrainOK, SessionOK, Careful, SessionOps, BeginOps, StoreOps, Drained
  <2>3. call'[t] = c /\ \A u \in Threads \ {t} : call'[u] = call[u]
    BY <1>1, <1>4 DEF BeginDrain
  <2> HIDE DEF c
  <2> QED BY <1>1, <1>2, <1>4, <2>1, <2>2, <2>3, BeginsCareful
<1>5. CASE WindowCreate(t, h)
  BY <1>4, <1>5, OpNames DEF WindowCreate
<1>6. CASE OpenFromSource(t, h)
  BY <1>4, <1>6, OpNames DEF OpenFromSource
<1>7. CASE FileAdd(t, h)
  BY <1>4, <1>7, OpNames DEF FileAdd
<1>8. CASE FileAddTake(t, h)
  <2> DEFINE c == Call("addPush", h, src[h].data, src[h].data)
             s == [src[h] EXCEPT !.data = Empty]
  <2>1. c.h = h /\ c.op = "addPush" /\ c.seen = c.payload
    BY DEF Call
  <2>2. SamePlace(s, src[h]) /\ s.draft = src[h].draft /\ s.writeOpen = src[h].writeOpen
    BY <1>1, PayloadAssumption DEF SamePlace, SourceType
  <2>3. src'[h] = s /\ \A k \in Handles \ {h} : src'[k] = src[k]
    BY <1>1, <1>8 DEF FileAddTake
  <2>4. DrainOK(c, src') /\ SessionOK(c, src')
    BY <2>1, OpNames DEF DrainOK, SessionOK, SessionOps, BeginOps, StoreOps
  <2>5. /\ call'[t] = c /\ \A u \in Threads \ {t} : call'[u] = call[u]
        /\ IsIdle(t) /\ src[h].kind = "memory"
    BY <1>1, <1>8 DEF FileAddTake
  <2> HIDE DEF c, s
  <2>6. HardlyTouched(src[h].base)
    BY <1>3, <2>2, <2>3, <2>5 DEF HardlyTouched, SamePlace, SameContent
  <2> QED BY <1>1, <2>1, <2>4, <2>5, <2>6, BeginsCareful
<1>9. ASSUME NEW op \in SessionOps, SessionCall(t, h, op)
      PROVE  Chains' /\ CarefulInv'
  <2> DEFINE c == Call(op, h, Empty, Empty)
  <2>1. c.h = h /\ c.op = op /\ c.seen = Empty
    BY DEF Call
  <2>2. /\ call'[t] = c /\ \A u \in Threads \ {t} : call'[u] = call[u]
        /\ IsIdle(t) /\ src' = src
        /\ src[h].kind # "layered" /\ (src[h].writeOpen <=> op \notin BeginOps)
    BY <1>1, <1>9 DEF SessionCall, Begin
  <2>3. src[h].kind = "memory" => (src[h].writeOpen <=> src[h].draft # NoDraft)
    <3>1. \A u \in Threads \ {t} : Using(u) => src[call[u].h].base # h
      BY <1>3, <2>2 DEF Careful, InUse, Using
    <3>2. call[t].op \notin SessionOps \cup StoreOps
      BY <2>2 DEF IsIdle, SessionOps, BeginOps, StoreOps
    <3> QED BY <1>3, <2>2, <3>1, <3>2, AloneAgrees
  <2>4. DrainOK(c, src')
    BY <1>9, <2>1, OpNames DEF DrainOK, SessionOps, BeginOps
  <2>5. SessionOK(c, src')
    BY <1>9, <2>1, <2>2, <2>3 DEF SessionOK, SessionOps, BeginOps, StoreOps
  <2> HIDE DEF c
  <2> QED BY <1>1, <1>2, <2>1, <2>2, <2>4, <2>5, BeginsCareful
<1> QED BY <1>5, <1>6, <1>7, <1>8, <1>9 DEF Contents

----------------------------------------------------------------------------
(* The steps of a careful program.                                         *)

\* A step of a call that writes s where it works.
LEMMA WorksCareful ==
  ASSUME RefInv, RefInv', Chains, CarefulInv, NEW t \in Threads, Using(t),
         LET h == call[t].h
             B == src[h].base
         IN  /\ \A k \in Handles \ {B} : src'[k] = src[k]
             /\ SamePlace(src'[B], src[B])
             /\ call'[t].h \in {h, NoHandle}
             /\ \A u \in Threads \ {t} : call'[u] = call[u]
             /\ DrainOK(call'[t], src') /\ SessionOK(call'[t], src')
             /\ AgreesWithout(call'[t], src', B)
  PROVE  Chains' /\ CarefulInv'
<1> DEFINE B == src[call[t].h].base
<1>1. /\ \A u \in Threads \ {t} : Using(u) => src[call[u].h].base # B
      /\ call[t].op \in SessionOps \cup StoreOps => call[t].h = B
  BY OwnBase
<1>2. \A k \in Handles : SamePlace(src'[k], src[k]) /\ (k # B => SameContent(src'[k], src[k]))
  BY DEF SamePlace, SameContent
<1>3. Using(t)' => src[call'[t].h].base = B
  BY DEF Using
<1> HIDE DEF B
<1>4. AgreesWithout(call'[t], src', B)
  BY DEF B
<1> QED BY <1>1, <1>2, <1>3, <1>4, CarefulQuiet

LEMMA DrainCareful ==
  ASSUME RefInv, RefInv', Chains, CarefulInv, NEW t \in Threads, DrainOpen(t) \/ DrainRead(t)
  PROVE  Chains' /\ CarefulInv'
<1> DEFINE h == call[t].h
           B == src[h].base
<1>1. call[t].op \in DOMAIN Opened \cup DOMAIN Drained /\ Using(t)
  <2>1. call[t].op \in DOMAIN Opened \cup DOMAIN Drained
    BY DEF DrainOpen, DrainRead
  <2> QED BY <2>1, OpNames DEF RefInv, CallsNameSources, Using, Releasing
<1>2. /\ h \in Handles /\ src[h] \in SourceType
      /\ B \in Handles /\ src[B].kind \in {"memory", "function"} /\ src[B] \in SourceType
      /\ src[B].base = B /\ (src[h].kind # "layered" => B = h)
  BY <1>1, UsingFinds DEF UsersFind
<1>3. /\ src \in [Handles -> SourceType] /\ call \in [Threads -> CallType]
      /\ call[t] \in CallType
  BY DEF RefInv, TypeOK
<1>4. \A u \in Threads \ {t} : Using(u) => src[call[u].h].base # B
  BY <1>1, OwnBase
<1>5. call[t].op \notin SessionOps \cup StoreOps
  BY <1>1, OpNames DEF SessionOps, BeginOps, StoreOps
<1>6. src[B].kind = "memory" => (src[B].writeOpen <=> src[B].draft # NoDraft)
  BY <1>2, <1>4, <1>5, AloneAgrees
<1>7. DrainOK(call[t], src)
  BY DEF CarefulInv
<1>8. CASE DrainOpen(t)
  <2>1. /\ call[t].op \in DOMAIN Opened
        /\ src' = IF src[h].kind = "layered" THEN src ELSE [src EXCEPT ![B].atEnd = FALSE]
        /\ call'[t] = [call[t] EXCEPT !.op = Opened[call[t].op]]
        /\ \A u \in Threads \ {t} : call'[u] = call[u]
    BY <1>2, <1>3, <1>8 DEF DrainOpen, Rewound, Enter
  <2>2. /\ \A k \in Handles \ {B} : src'[k] = src[k]
        /\ SamePlace(src'[B], src[B]) /\ src'[B].data = src[B].data
        /\ src'[B].draft = src[B].draft /\ src'[B].writeOpen = src[B].writeOpen
        /\ ~src'[B].atEnd
    <3>1. CASE src[h].kind = "layered"
      BY <1>7, <2>1, <3>1 DEF DrainOK, SamePlace
    <3>2. CASE src[h].kind # "layered"
      BY <1>2, <1>3, <2>1, <3>2 DEF SamePlace, SourceType
    <3> QED BY <3>1, <3>2
  <2>3. /\ call'[t].op \in DOMAIN Drained /\ call'[t].h = h
        /\ call'[t].seen = call[t].seen
    BY <1>3, <2>1, OpNames DEF CallType
  <2>4. src'[h].base = B
    BY <1>2, <2>2 DEF SamePlace
  <2>5. DrainOK(call'[t], src') /\ SessionOK(call'[t], src')
    BY <1>7, <2>1, <2>2, <2>3, <2>4, OpNames DEF DrainOK, SessionOK, SessionOps, BeginOps, StoreOps
  <2>6. AgreesWithout(call'[t], src', B)
    BY <1>6, <2>2 DEF AgreesWithout, SamePlace
  <2> QED BY <1>1, <2>1, <2>2, <2>3, <2>5, <2>6, WorksCareful
<1>9. CASE DrainRead(t)
  <2>1. /\ call[t].op \in DOMAIN Drained /\ call[t].seen = src[B].data /\ ~src[B].atEnd
        /\ src' = [src EXCEPT ![B].atEnd = TRUE]
        /\ call'[t] = [call[t] EXCEPT !.op = Drained[@], !.payload = src[B].data]
        /\ \A u \in Threads \ {t} : call'[u] = call[u]
    BY <1>2, <1>3, <1>7, <1>9 DEF DrainRead, DrainOK
  <2>2. /\ \A k \in Handles \ {B} : src'[k] = src[k]
        /\ SamePlace(src'[B], src[B])
        /\ src'[B].draft = src[B].draft /\ src'[B].writeOpen = src[B].writeOpen
    BY <1>2, <1>3, <2>1 DEF SamePlace, SourceType
  <2>3. /\ call'[t].op = Drained[call[t].op] /\ call'[t].h = h
        /\ call'[t].seen = call'[t].payload
    BY <1>3, <2>1 DEF CallType
  <2>4. call'[t].op \in {"windowRelease", "addPush", "archiveMake"}
    BY <2>1, <2>3 DEF Drained
  <2>5. DrainOK(call'[t], src') /\ SessionOK(call'[t], src')
    BY <2>3, <2>4, OpNames DEF DrainOK, SessionOK, SessionOps, BeginOps, StoreOps
  <2>6. AgreesWithout(call'[t], src', B)
    BY <1>6, <2>2 DEF AgreesWithout, SamePlace
  <2> QED BY <1>1, <2>1, <2>2, <2>3, <2>5, <2>6, WorksCareful
<1> QED BY <1>8, <1>9

LEMMA EndingCareful ==
  ASSUME RefInv, RefInv', Chains, CarefulInv, NEW t \in Threads,
         DrainFails(t) \/ ArchiveMake(t) \/ FileAddEnds(t)
  PROVE  Chains' /\ CarefulInv'
<1>1. /\ Return(t) /\ src' = src
      /\ call[t].op \in DOMAIN Opened \cup DOMAIN Drained \cup {"archiveMake", "addPush"}
  BY DEF DrainFails, ArchiveMake, FileAddEnds
<1>2. call[t].op \notin SessionOps \cup StoreOps /\ call[t].op \notin {"none", "windowMake"} /\ ~Releasing(t)
  BY <1>1, OpNames DEF SessionOps, BeginOps, StoreOps, Releasing
<1>3. Using(t)
  BY <1>2 DEF Using, RefInv, CallsNameSources
<1> QED BY <1>1, <1>2, <1>3, EndsCareful

\* A session call is about the end of its chain, and found it in step.
LEMMA SessionFinds ==
  ASSUME RefInv, Chains, CarefulInv, NEW t \in Threads, call[t].op \in SessionOps \cup StoreOps
  PROVE  LET h == call[t].h
         IN  /\ Using(t) /\ h \in Handles /\ src[h] \in SourceType /\ src[h].base = h
             /\ src[h].kind \in {"memory", "function"} /\ call[t] \in CallType
             /\ SessionOK(call[t], src)
             /\ src \in [Handles -> SourceType] /\ call \in [Threads -> CallType]
<1>1. call[t].op \notin {"none", "windowMake"} /\ ~Releasing(t)
  BY DEF SessionOps, BeginOps, StoreOps, Releasing
<1>2. Using(t)
  BY <1>1 DEF Using, RefInv, CallsNameSources
<1>3. SessionOK(call[t], src)
  BY DEF CarefulInv
<1>4. call[t] \in CallType /\ src \in [Handles -> SourceType] /\ call \in [Threads -> CallType]
  BY DEF RefInv, TypeOK
<1> QED BY <1>2, <1>3, <1>4, UsingFinds DEF UsersFind, SessionOK

\* A step of a session call.
LEMMA SessionWorks ==
  ASSUME RefInv, RefInv', Chains, CarefulInv, NEW t \in Threads,
         call[t].op \in SessionOps \cup StoreOps,
         LET h == call[t].h
         IN  /\ \A k \in Handles \ {h} : src'[k] = src[k]
             /\ SamePlace(src'[h], src[h])
             /\ \A u \in Threads \ {t} : call'[u] = call[u]
             /\ \/ call'[t] = NoCall
                \/ call'[t].op \in StoreOps /\ call'[t].h = h
             /\ SessionOK(call'[t], src')
             /\ AgreesWithout(call'[t], src', h)
  PROVE  Chains' /\ CarefulInv'
<1>1. DrainOK(call'[t], src') /\ call'[t].h \in {call[t].h, NoHandle}
  BY NewCalls, OpNames DEF DrainOK, StoreOps
<1> QED BY <1>1, SessionFinds, WorksCareful

LEMMA SessionStepCareful ==
  ASSUME RefInv, RefInv', Chains, CarefulInv, NEW t \in Threads,
         \/ BeginDispatch(t) \/ WriteDispatch(t) \/ CommitDispatch(t)
         \/ RollbackDispatch(t) \/ DispatchFails(t) \/ Store(t)
  PROVE  Chains' /\ CarefulInv'
<1> DEFINE h == call[t].h
           c == call[t]
           s == src[h]
<1>1. c.op \in SessionOps \cup StoreOps
  BY DEF BeginDispatch, WriteDispatch, CommitDispatch, RollbackDispatch, DispatchFails, Store, SessionOps, BeginOps
<1>2. /\ Using(t) /\ h \in Handles /\ s \in SourceType /\ s.base = h
      /\ s.kind \in {"memory", "function"} /\ c \in CallType /\ SessionOK(c, src)
      /\ src \in [Handles -> SourceType] /\ call \in [Threads -> CallType]
  BY <1>1, SessionFinds
<1>3. \A op \in StoreOps : Enter(t, op) =>
        /\ call'[t].op = op /\ call'[t].h = h
        /\ \A u \in Threads \ {t} : call'[u] = call[u]
  BY <1>2 DEF Enter, CallType
<1>4. Return(t) => call'[t] = NoCall /\ \A u \in Threads \ {t} : call'[u] = call[u]
  BY <1>2 DEF Return
<1>5. ASSUME NEW r, SamePlace(r, s), Backend(t, r)
      PROVE  /\ \A k \in Handles \ {h} : src'[k] = src[k]
             /\ SamePlace(src'[h], s) /\ (s.kind = "memory" => src'[h] = r)
  BY <1>2, <1>5 DEF Backend, SamePlace
<1>6. SessionOK(NoCall, src') /\ NoCall.op \notin SessionOps \cup StoreOps
  BY NewCalls DEF SessionOK, SessionOps, BeginOps, StoreOps
<1>7. CASE BeginDispatch(t)
  <2>1. PICK p \in Payloads : Backend(t, [s EXCEPT !.draft = p])
    BY <1>2, <1>7, PayloadAssumption DEF BeginDispatch, SourceType
  <2> DEFINE r == [s EXCEPT !.draft = p]
  <2>2. SamePlace(r, s) /\ r.draft = p
    BY <1>2 DEF SamePlace, SourceType
  <2> HIDE DEF r
  <2>3. /\ \A k \in Handles \ {h} : src'[k] = src[k]
        /\ SamePlace(src'[h], s) /\ (s.kind = "memory" => src'[h] = r)
    BY <1>5, <2>1, <2>2 DEF r
  <2>4. /\ call'[t].op = "beginStore" /\ call'[t].h = h
        /\ \A u \in Threads \ {t} : call'[u] = call[u]
    BY <1>3, <1>7 DEF BeginDispatch, StoreOps
  <2>5. SessionOK(call'[t], src')
    BY <1>2, <2>2, <2>3, <2>4, PayloadAssumption DEF SessionOK, SamePlace, BeginOps
  <2>6. AgreesWithout(call'[t], src', h)
    BY <2>4 DEF AgreesWithout, StoreOps
  <2> QED BY <1>1, <2>3, <2>4, <2>5, <2>6, SessionWorks DEF StoreOps
<1>8. CASE WriteDispatch(t)
  <2>1. PICK p \in Payloads : Backend(t, [s EXCEPT !.draft = p])
    BY <1>8 DEF WriteDispatch
  <2> DEFINE r == [s EXCEPT !.draft = p]
  <2>2. SamePlace(r, s) /\ r.draft = p /\ r.writeOpen = s.writeOpen
    BY <1>2 DEF SamePlace, SourceType
  <2> HIDE DEF r
  <2>3. /\ \A k \in Handles \ {h} : src'[k] = src[k]
        /\ SamePlace(src'[h], s) /\ (s.kind = "memory" => src'[h] = r)
    BY <1>5, <2>1, <2>2 DEF r
  <2>4. call'[t] = NoCall /\ \A u \in Threads \ {t} : call'[u] = call[u]
    BY <1>4, <1>8 DEF WriteDispatch
  <2>5. AgreesWithout(NoCall, src', h)
    BY <1>1, <1>2, <1>8, <2>2, <2>3, PayloadAssumption
       DEF AgreesWithout, SamePlace, SessionOK, WriteDispatch, BeginOps
  <2> QED BY <1>1, <1>6, <2>3, <2>4, <2>5, SessionWorks
<1>9. CASE CommitDispatch(t)
  <2> DEFINE r == [s EXCEPT !.data = s.draft, !.draft = NoDraft, !.atEnd = FALSE]
  <2>1. Backend(t, r) /\ (s.kind = "memory" => s.draft # NoDraft)
    BY <1>9 DEF CommitDispatch
  <2>2. s.kind = "memory" => SamePlace(r, s) /\ r.draft = NoDraft
    BY <1>2, <2>1 DEF SamePlace, SourceType
  <2>3. /\ \A k \in Handles \ {h} : src'[k] = src[k]
        /\ SamePlace(src'[h], s) /\ (s.kind = "memory" => src'[h].draft = NoDraft)
    BY <1>2, <2>1, <2>2 DEF Backend, SamePlace
  <2>4. /\ call'[t].op = "commitStore" /\ call'[t].h = h
        /\ \A u \in Threads \ {t} : call'[u] = call[u]
    BY <1>3, <1>9 DEF CommitDispatch, StoreOps
  <2>5. SessionOK(call'[t], src')
    BY <1>2, <2>3, <2>4 DEF SessionOK, SamePlace, BeginOps
  <2>6. AgreesWithout(call'[t], src', h)
    BY <2>4 DEF AgreesWithout, StoreOps
  <2> QED BY <1>1, <2>3, <2>4, <2>5, <2>6, SessionWorks DEF StoreOps
<1>10. CASE RollbackDispatch(t)
  <2> DEFINE r == [s EXCEPT !.draft = NoDraft]
  <2>1. Backend(t, r)
    BY <1>10 DEF RollbackDispatch
  <2>2. SamePlace(r, s) /\ r.draft = NoDraft
    BY <1>2 DEF SamePlace, SourceType
  <2>3. /\ \A k \in Handles \ {h} : src'[k] = src[k]
        /\ SamePlace(src'[h], s) /\ (s.kind = "memory" => src'[h].draft = NoDraft)
    BY <1>5, <2>1, <2>2
  <2>4. /\ call'[t].op = "rollbackStore" /\ call'[t].h = h
        /\ \A u \in Threads \ {t} : call'[u] = call[u]
    BY <1>3, <1>10 DEF RollbackDispatch, StoreOps
  <2>5. SessionOK(call'[t], src')
    BY <1>2, <2>3, <2>4 DEF SessionOK, SamePlace, BeginOps
  <2>6. AgreesWithout(call'[t], src', h)
    BY <2>4 DEF AgreesWithout, StoreOps
  <2> QED BY <1>1, <2>3, <2>4, <2>5, <2>6, SessionWorks DEF StoreOps
<1>11. CASE DispatchFails(t)
  <2>1. src' = src /\ SamePlace(s, s)
    BY <1>11 DEF DispatchFails, SamePlace
  <2>2. CASE c.op = "commit"
    <3>1. /\ call'[t].op = "commitStore" /\ call'[t].h = h
          /\ \A u \in Threads \ {t} : call'[u] = call[u]
      BY <1>3, <1>11, <2>2 DEF DispatchFails, StoreOps
    <3>2. s.kind = "function"
      BY <1>2, <1>11, <2>2 DEF DispatchFails, SessionOK, SessionOps
    <3>3. SessionOK(call'[t], src')
      BY <2>1, <3>1, <3>2 DEF SessionOK
    <3>4. AgreesWithout(call'[t], src', h)
      BY <3>1 DEF AgreesWithout, StoreOps
    <3> QED BY <1>1, <2>1, <3>1, <3>3, <3>4, SessionWorks DEF StoreOps
  <2>3. CASE c.op # "commit"
    <3>1. call'[t] = NoCall /\ \A u \in Threads \ {t} : call'[u] = call[u]
      BY <1>4, <1>11, <2>3 DEF DispatchFails
    <3>2. s.kind = "memory" => (s.writeOpen <=> s.draft # NoDraft)
      BY <1>2, <1>11, <2>3 DEF DispatchFails, SessionOK, SessionOps, BeginOps
    <3>3. AgreesWithout(NoCall, src', h)
      BY <2>1, <3>2 DEF AgreesWithout
    <3> QED BY <1>1, <1>6, <2>1, <3>1, <3>3, SessionWorks
  <2> QED BY <2>2, <2>3
<1>12. CASE Store(t)
  <2> DEFINE b == c.op = "beginStore"
             r == [s EXCEPT !.writeOpen = b]
  <2>1. c.op \in StoreOps /\ src' = [src EXCEPT ![h] = r]
    BY <1>12 DEF Store
  <2>2. SamePlace(r, s) /\ r.draft = s.draft /\ r.writeOpen = b
    BY <1>2 DEF SamePlace, SourceType
  <2>3. src'[h] = r /\ \A k \in Handles \ {h} : src'[k] = src[k]
    BY <1>2, <2>1
  <2>4. call'[t] = NoCall /\ \A u \in Threads \ {t} : call'[u] = call[u]
    BY <1>4, <1>12 DEF Store
  <2>5. AgreesWithout(NoCall, src', h)
    BY <1>2, <2>1, <2>2, <2>3 DEF AgreesWithout, SamePlace, SessionOK, StoreOps
  <2> QED BY <1>1, <1>6, <2>2, <2>3, <2>4, <2>5, SessionWorks
<1> QED BY <1>7, <1>8, <1>9, <1>10, <1>11, <1>12

\* Calls that look at no content.
Silent(c) == c.op \in {"none", "release", "windowRelease", "windowMake"}

\* A step about references changes no content of a source that is there before
\* and after it.
LEMMA ReferenceFrame ==
  ASSUME RefInv, RefInv', Chains, Chains', CarefulInv, NEW t \in Threads,
         \A u \in Threads \ {t} : call'[u] = call[u],
         Silent(call[t]), Silent(call'[t]), DrainOK(call'[t], src'),
         \A k \in Handles : src[k].kind # "free" /\ src'[k].kind # "free" =>
           SamePlace(src'[k], src[k]) /\ SameContent(src'[k], src[k]),
         \A k \in Handles : src[k].kind = "free" /\ src'[k].kind # "free" =>
           src'[k].draft = NoDraft /\ ~src'[k].writeOpen
  PROVE  CarefulInv'
<1>1. \A u \in Threads \ {t} : Using(u) => src[call[u].h].base # NoHandle
  BY UsingFinds, HeapAssumption DEF UsersFind
<1>2. /\ call[t].op \notin SessionOps \cup StoreOps
      /\ call'[t].op \notin SessionOps \cup StoreOps
  BY DEF Silent, SessionOps, BeginOps, StoreOps
<1>3. ~Using(t)'
  BY DEF Silent, Using, Releasing, RefInv, CallsNameSources
<1> QED BY <1>1, <1>2, <1>3, CarefulFrame, HeapAssumption DEF SessionOK

LEMMA CreateCareful ==
  ASSUME RefInv, RefInv', Chains, CarefulInv, NEW t \in Threads, NEW h \in Handles,
         NEW p \in Payloads, NEW s \in {MemorySource(h, p), FunctionSource(h, p)},
         call[t].op \in {"none", "windowMake"}, src[h].kind = "free",
         src' = [src EXCEPT ![h] = s], Return(t)
  PROVE  Chains' /\ CarefulInv'
<1>1. /\ s.kind # "layered" /\ s.kind # "free" /\ s.base = h
      /\ s.draft = NoDraft /\ ~s.writeOpen
  BY NewPlaces
<1>2. src \in [Handles -> SourceType] /\ call \in [Threads -> CallType]
  BY DEF RefInv, TypeOK
<1>3. Chains'
  BY <1>1, ChainsCreate
<1>4. call'[t] = NoCall /\ \A u \in Threads \ {t} : call'[u] = call[u]
  BY <1>2 DEF Return
<1>5. Silent(call[t]) /\ Silent(NoCall) /\ DrainOK(NoCall, src')
  BY NewCalls, OpNames DEF Silent, DrainOK
<1>6. src'[h] = s /\ \A k \in Handles \ {h} : src'[k] = src[k]
  BY <1>2
<1>7. \A k \in Handles : src[k].kind # "free" /\ src'[k].kind # "free" =>
        SamePlace(src'[k], src[k]) /\ SameContent(src'[k], src[k])
  BY <1>6 DEF SamePlace, SameContent
<1>8. \A k \in Handles : src[k].kind = "free" /\ src'[k].kind # "free" =>
        src'[k].draft = NoDraft /\ ~src'[k].writeOpen
  BY <1>1, <1>6
<1> QED BY <1>3, <1>4, <1>5, <1>7, <1>8, ReferenceFrame

LEMMA LayerCareful ==
  ASSUME RefInv, RefInv', Chains, CarefulInv, NEW t \in Threads, NEW h \in Handles,
         NEW l \in Handles, LayeredCreate(t, h, l)
  PROVE  Chains' /\ CarefulInv'
<1> DEFINE s == LayeredSource(h, l)
<1>1. src \in [Handles -> SourceType] /\ call \in [Threads -> CallType] /\ own \in [Handles -> Nat]
  BY DEF RefInv, TypeOK
<1>2. s.draft = NoDraft /\ ~s.writeOpen
  BY NewPlaces
<1>3. src[h].kind = "free" /\ own[l] > 0 /\ call[t].op = "none" /\ src' = [src EXCEPT ![h] = s]
  BY <1>1 DEF LayeredCreate, Spare, IsIdle
<1>4. Chains'
  BY <1>3, ChainsLayer
<1>5. call'[t] = NoCall /\ \A u \in Threads \ {t} : call'[u] = call[u]
  BY <1>1 DEF LayeredCreate, Return
<1>6. Silent(call[t]) /\ Silent(NoCall) /\ DrainOK(NoCall, src')
  BY <1>3, NewCalls, OpNames DEF Silent, DrainOK
<1> HIDE DEF s
<1>7. src'[h] = s /\ \A k \in Handles \ {h} : src'[k] = src[k]
  BY <1>1, <1>3
<1>8. \A k \in Handles : src[k].kind # "free" /\ src'[k].kind # "free" =>
        SamePlace(src'[k], src[k]) /\ SameContent(src'[k], src[k])
  BY <1>3, <1>7 DEF SamePlace, SameContent
<1>9. \A k \in Handles : src[k].kind = "free" /\ src'[k].kind # "free" =>
        src'[k].draft = NoDraft /\ ~src'[k].writeOpen
  BY <1>2, <1>7
<1> QED BY <1>4, <1>5, <1>6, <1>8, <1>9, ReferenceFrame

LEMMA KeepCareful ==
  ASSUME RefInv, RefInv', Chains, CarefulInv, NEW t \in Threads, NEW h \in Handles,
         Keep(t, h) \/ Free(t, h)
  PROVE  Chains' /\ CarefulInv'
<1>1. /\ src \in [Handles -> SourceType] /\ call \in [Threads -> CallType]
      /\ \A k \in Handles : src[k].kind = "layered" => src[k].lower \in Handles
  BY DEF RefInv, TypeOK, WellFormed, SourceType
<1>2. \A k \in Handles : SamePlace(src'[k], src[k]) /\ SameContent(src'[k], src[k])
  <2>1. CASE Free(t, h)
    BY <2>1 DEF Free, SamePlace, SameContent
  <2>2. CASE Keep(t, h)
    <3>1. src' = [src EXCEPT ![h].refs = @ + 1]
      BY <2>2 DEF Keep
    <3> QED BY <1>1, <3>1 DEF SourceType, SamePlace, SameContent
  <2> QED BY <2>1, <2>2
<1>3. Chains'
  BY <1>1, <1>2, ChainsKeepPlaces
<1>4. \A k \in Handles : ~(src[k].kind = "free" /\ src'[k].kind # "free")
  BY <1>2 DEF SamePlace
<1>5. /\ call[t].op = "none" /\ \A u \in Threads \ {t} : call'[u] = call[u]
      /\ call'[t] = call[t] \/ call'[t] = Call("release", h, Empty, Empty)
  BY <1>1 DEF Keep, Free, IsIdle, Begin
<1>6. call'[t].op \in {"none", "release"}
  BY <1>5 DEF Call
<1>7. Silent(call[t]) /\ Silent(call'[t]) /\ DrainOK(call'[t], src')
  BY <1>5, <1>6, OpNames DEF Silent, DrainOK
<1> QED BY <1>2, <1>3, <1>4, <1>5, <1>7, ReferenceFrame

LEMMA ReleaseCareful ==
  ASSUME RefInv, RefInv', Chains, CarefulInv, NEW t \in Threads, Release(t)
  PROVE  Chains' /\ CarefulInv'
<1> DEFINE h == call[t].h
<1>1. /\ src \in [Handles -> SourceType] /\ call \in [Threads -> CallType] /\ call[t] \in CallType
      /\ \A k \in Handles : src[k].kind = "layered" => src[k].lower \in Handles
  BY DEF RefInv, TypeOK, WellFormed, SourceType
<1>2. Releasing(t) /\ Dropped(t, src[h].refs =< 1, src[h].lower)
  BY DEF Release
<1>3. h \in Handles /\ (src[h].refs =< 1 => Layers(h) = {})
  BY <1>2, ReleaseFinds
<1>4. call[t].op \in {"release", "windowRelease"}
      /\ (call[t].op = "windowRelease" => call[t].payload = call[t].seen)
  BY <1>2, OpNames DEF Releasing, CarefulInv, DrainOK
<1>5. \A u \in Threads \ {t} : call'[u] = call[u]
  BY <1>1, <1>2 DEF Dropped, Return
<1>6. /\ Silent(call'[t])
      /\ call'[t].op \in {"windowRelease", "windowMake"} => call'[t].payload = call'[t].seen
  <2>1. CASE call'[t] = NoCall
    BY <2>1, NewCalls DEF Silent
  <2>2. ASSUME NEW n, call' = [call EXCEPT ![t].h = n]
        PROVE  Silent(call'[t]) /\ (call'[t].op = "windowRelease" => call'[t].payload = call'[t].seen)
               /\ call'[t].op # "windowMake"
    BY <1>1, <1>4, <2>2 DEF Silent, CallType
  <2>3. CASE call[t].op # "release" /\ call' = [call EXCEPT ![t].op = "windowMake", ![t].h = NoHandle]
    BY <1>1, <1>4, <2>3 DEF Silent, CallType
  <2> QED BY <1>1, <1>2, <2>1, <2>2, <2>3, NewCalls DEF Dropped, Return
<1>7. Silent(call[t]) /\ DrainOK(call'[t], src')
  BY <1>4, <1>6, OpNames DEF Silent, DrainOK
<1>8. CASE src[h].refs =< 1
  <2>1. src' = [src EXCEPT ![h] = NoSource]
    BY <1>2, <1>8 DEF Dropped
  <2>2. Chains'
    BY <1>3, <1>8, <2>1, ChainsDrop
  <2>3. /\ src'[h].kind = "free" /\ \A k \in Handles \ {h} : src'[k] = src[k]
    BY <1>1, <1>3, <2>1 DEF NoSource
  <2>4. \A k \in Handles : src[k].kind # "free" /\ src'[k].kind # "free" =>
          SamePlace(src'[k], src[k]) /\ SameContent(src'[k], src[k])
    BY <2>3 DEF SamePlace, SameContent
  <2>5. \A k \in Handles : ~(src[k].kind = "free" /\ src'[k].kind # "free")
    BY <2>3
  <2> QED BY <1>5, <1>6, <1>7, <2>2, <2>4, <2>5, ReferenceFrame
<1>9. CASE ~(src[h].refs =< 1)
  <2>1. src' = [src EXCEPT ![h].refs = @ - 1]
    BY <1>2, <1>9 DEF Dropped
  <2>2. \A k \in Handles : SamePlace(src'[k], src[k]) /\ SameContent(src'[k], src[k])
    BY <1>1, <1>3, <2>1 DEF SourceType, SamePlace, SameContent
  <2>3. Chains'
    BY <1>1, <2>2, ChainsKeepPlaces
  <2>4. \A k \in Handles : ~(src[k].kind = "free" /\ src'[k].kind # "free")
    BY <2>2 DEF SamePlace
  <2> QED BY <1>5, <1>6, <1>7, <2>2, <2>3, <2>4, ReferenceFrame
<1> QED BY <1>8, <1>9

LEMMA OutOfRangeCareful ==
  ASSUME RefInv, RefInv', Chains, CarefulInv, NEW t \in Threads, WindowOutOfRange(t)
  PROVE  Chains' /\ CarefulInv'
<1>1. /\ src' = src /\ call \in [Threads -> CallType]
      /\ \A k \in Handles : src[k].kind = "layered" => src[k].lower \in Handles
  BY DEF WindowOutOfRange, RefInv, TypeOK, WellFormed, SourceType
<1>2. \A k \in Handles : SamePlace(src'[k], src[k]) /\ SameContent(src'[k], src[k])
  BY <1>1 DEF SamePlace, SameContent
<1>3. Chains'
  BY <1>1, <1>2, ChainsKeepPlaces
<1>4. call'[t] = NoCall /\ \A u \in Threads \ {t} : call'[u] = call[u]
  BY <1>1 DEF WindowOutOfRange, Return
<1>5. Silent(call[t]) /\ Silent(NoCall) /\ DrainOK(NoCall, src')
  BY NewCalls, OpNames DEF WindowOutOfRange, Silent, DrainOK
<1> QED BY <1>1, <1>2, <1>3, <1>4, <1>5, ReferenceFrame

----------------------------------------------------------------------------

LEMMA CarefulInvInit == Init => Chains /\ CarefulInv
<1> SUFFICES ASSUME Init PROVE Chains /\ CarefulInv
  OBVIOUS
<1>1. NoCall.h = NoHandle /\ NoCall.op = "none"
  BY NewCalls
<1>2. /\ \A h \in Handles : src[h].kind = "free"
      /\ \A t \in Threads : call[t] = NoCall /\ ~Using(t)
  BY <1>1 DEF Init, NoSource, Using
<1>3. Chains
  BY <1>2 DEF Chains, BasesAgree, Grounded
<1>4. \A t \in Threads : DrainOK(call[t], src) /\ SessionOK(call[t], src)
  BY <1>1, <1>2, OpNames DEF DrainOK, SessionOK, SessionOps, BeginOps, StoreOps
<1> QED BY <1>2, <1>3, <1>4 DEF CarefulInv, OneUser, SessionsInStep

LEMMA CarefulInvNext ==
  RefInv /\ RefInv' /\ Chains /\ CarefulInv /\ [CarefulNext]_vars => Chains' /\ CarefulInv'
<1> SUFFICES ASSUME RefInv, RefInv', Chains, CarefulInv, [CarefulNext]_vars
             PROVE  Chains' /\ CarefulInv'
  OBVIOUS
<1>1. ASSUME NEW t \in Threads, NEW h \in Handles, References(t, h)
      PROVE  Chains' /\ CarefulInv'
  <2>1. CASE CreateMemory(t, h)
    BY <2>1, CreateCareful DEF CreateMemory, Create, IsIdle
  <2>2. CASE CreateFunction(t, h)
    BY <2>2, CreateCareful DEF CreateFunction, Create, IsIdle
  <2>3. CASE Keep(t, h) \/ Free(t, h)
    BY <2>3, KeepCareful
  <2>4. CASE \E l \in Handles : LayeredCreate(t, h, l)
    BY <2>4, LayerCareful
  <2> QED BY <1>1, <2>1, <2>2, <2>3, <2>4 DEF References
<1>2. ASSUME NEW t \in Threads, NEW h \in Handles, own[h] > 0, Careful(h), Contents(t, h)
      PROVE  Chains' /\ CarefulInv'
  BY <1>2, ContentsCareful
<1>3. ASSUME NEW t \in Threads, Step(t)
      PROVE  Chains' /\ CarefulInv'
  <2>1. CASE Release(t)
    BY <2>1, ReleaseCareful
  <2>2. CASE DrainOpen(t) \/ DrainRead(t)
    BY <2>2, DrainCareful
  <2>3. CASE DrainFails(t) \/ ArchiveMake(t) \/ FileAddEnds(t)
    BY <2>3, EndingCareful
  <2>4. CASE \E h \in Handles : WindowMake(t, h)
    <3>1. call[t].payload \in Payloads
      BY DEF RefInv, TypeOK, CallType
    <3> QED BY <2>4, <3>1, CreateCareful DEF WindowMake
  <2>5. CASE WindowOutOfRange(t)
    BY <2>5, OutOfRangeCareful
  <2>6. CASE \/ BeginDispatch(t) \/ WriteDispatch(t) \/ CommitDispatch(t)
             \/ RollbackDispatch(t) \/ DispatchFails(t) \/ Store(t)
    BY <2>6, SessionStepCareful
  <2> QED BY <1>3, <2>1, <2>2, <2>3, <2>4, <2>5, <2>6 DEF Step
<1>4. CASE UNCHANGED vars
  BY <1>4 DEF vars, Chains, BasesAgree, Grounded, CarefulInv, OneUser, Using, Releasing,
     DrainOK, SessionOK, SessionsInStep
<1> QED BY <1>1, <1>2, <1>3, <1>4 DEF CarefulNext

LEMMA CarefulInvAlways == CarefulSpec => [](RefInv /\ Chains /\ CarefulInv)
<1>1. CarefulSpec => Init /\ [][CarefulNext]_vars /\ []RefInv
  BY CarefulIsAny, RefInvAlways, PTL DEF CarefulSpec
<1> QED BY <1>1, CarefulInvInit, CarefulInvNext, PTL

\* In a careful program, write_open and the draft of a memory source agree
\* whenever no session call is in it: commits and rollbacks whose backend fails
\* included, and whatever happens to the references and layers meanwhile.
THEOREM SessionsStayInStep == CarefulSpec => []SessionsInStep
<1>1. CarefulInv => SessionsInStep
  BY DEF CarefulInv
<1> QED BY <1>1, CarefulInvAlways, PTL

\* In a careful program, what zip_source_window_create, zip_file_add, zip_file_replace
\* and zip_open_from_source hand on is what the end of the chain of layers held
\* when they began, for chains of any length.
THEOREM DrainsStayWhole == CarefulSpec => []DrainsAreWhole
<1>1. CarefulInv => DrainsAreWhole
  BY DEF CarefulInv, DrainOK, DrainsAreWhole
<1> QED BY <1>1, CarefulInvAlways, PTL
=============================================================================
