---------------------------- MODULE ArchiveProofs ----------------------------
(***************************************************************************)
(* Proofs about ArchiveReader and the ArchiveWriter it extends, for all    *)
(* jobs, numbers of workers, threads, sources and widths: the workers      *)
(* leave no trace in an archive, what the readers share is sound, the      *)
(* directory that is read tells what was given to the writer, and each     *)
(* reader gets the bytes of its own entry.                                 *)
(***************************************************************************)
EXTENDS ArchiveReader, SequenceTheorems, FiniteSetTheorems, WellFoundedInduction, TLAPS

----------------------------------------------------------------------------
(* The writer.                                                             *)

\* Until the archive is written, each slot holds the result of its own file
\* or none.
SlotsAreOwn ==
  archive = None =>
    /\ slots = [i \in DOMAIN job.files |-> slots[i]]
    /\ \A i \in DOMAIN job.files :
         slots[i] \in {Todo, Busy, compress_file(job.files[i])}

WriterInv == SlotsAreOwn /\ WorkersLeaveNoTrace

\* What a file compresses to is a result: "done" or "error".
LEMMA ResultIsFinal ==
  ASSUME NEW f
  PROVE  compress_file(f).state \in {"done", "error"}
BY DEF compress_file

\* With every file done, the slots are what one thread returns.
LEMMA SlotsAreSerial ==
  ASSUME SlotsAreOwn, archive = None,
         With("todo") \cup With("busy") \cup Failed = {}
  PROVE  /\ slots = SerialResult
         /\ \A i \in DOMAIN job.files : SerialResult[i].state # "error"
<1>1. ASSUME NEW i \in DOMAIN job.files
      PROVE  slots[i] = compress_file(job.files[i])
  <2>1. slots[i] \in {Todo, Busy, compress_file(job.files[i])} /\ i \in DOMAIN slots
    BY DEF SlotsAreOwn
  <2>2. slots[i] # Todo /\ slots[i] # Busy
    BY <2>1 DEF With, Todo, Busy
  <2> QED BY <2>1, <2>2
<1>2. slots = SerialResult
  BY <1>1 DEF SlotsAreOwn, SerialResult
<1>3. ASSUME NEW i \in DOMAIN job.files PROVE slots[i].state # "error"
  BY <1>1 DEF With, Failed, SlotsAreOwn
<1> QED BY <1>2, <1>3

\* Where one file failed, one thread would have failed too.
LEMMA FailureIsSerial ==
  ASSUME SlotsAreOwn, archive = None, Failed # {}
  PROVE  \E i \in DOMAIN job.files : SerialResult[i].state = "error"
<1>1. PICK i \in DOMAIN slots : slots[i].state = "error"
  BY DEF Failed, With
<1>2. i \in DOMAIN job.files
  BY <1>1 DEF SlotsAreOwn
<1>3. slots[i] = compress_file(job.files[i])
  BY <1>1, <1>2 DEF SlotsAreOwn, Todo, Busy
<1> QED BY <1>1, <1>2, <1>3 DEF SerialResult

LEMMA WriterStarts == Init => WriterInv
BY DEF Init, WriterInit, WriterInv, SlotsAreOwn, WorkersLeaveNoTrace

\* A file compresses to the same under the same call.
LEMMA SameCall ==
  ASSUME job' = job
  PROVE  /\ \A i : compress_file(job.files[i])' = compress_file(job.files[i])
         /\ SerialResult' = SerialResult
<1>1. \A i : compress_file(job.files[i])' = compress_file(job.files[i])
  BY DEF compress_file, compress_bytes
<1> QED BY <1>1 DEF SerialResult

LEMMA SameWriting ==
  ASSUME job' = job, NEW r, NEW salt
  PROVE  Written(r, salt)' = Written(r, salt)
<1>1. Methods' = Methods
  BY DEF Methods
<1>2. ASSUME NEW i \in DOMAIN r
      PROVE  Encrypted(r[i].cf, Methods[i], salt[i])'
               = Encrypted(r[i].cf, Methods[i], salt[i])
  BY <1>1 DEF Encrypted
<1>3. [i \in DOMAIN r |-> Encrypted(r[i].cf, Methods[i], salt[i])]'
        = [i \in DOMAIN r |-> Encrypted(r[i].cf, Methods[i], salt[i])]
  BY <1>2
<1>4. Comment' = Comment
  BY DEF Comment
<1> QED BY <1>3, <1>4 DEF Written

LEMMA SameReturns ==
  ASSUME job' = job, NEW a
  PROVE  Serially(a)' <=> Serially(a)
<1>1. EncryptionError' = EncryptionError
  <2>1. Methods' = Methods
    BY DEF Methods
  <2> QED BY <2>1 DEF EncryptionError
<1>2. ASSUME NEW salt
      PROVE  Written(SerialResult, salt)' = Written(SerialResult, salt)
  BY SameCall, SameWriting
<1> QED BY <1>1, <1>2, SameCall DEF Serially

\* A slot that becomes busy, or what its file compresses to.
LEMMA SlotChanges ==
  ASSUME SlotsAreOwn, archive = None, job' = job, archive' = archive,
         NEW i \in DOMAIN slots, NEW new \in {Busy, compress_file(job.files[i])},
         slots' = [slots EXCEPT ![i] = new]
  PROVE  SlotsAreOwn'
<1>1. DOMAIN slots = DOMAIN job.files
  BY DEF SlotsAreOwn
<1>2. slots' = [j \in DOMAIN job.files |-> slots'[j]]
  BY <1>1
<1>3. ASSUME NEW j \in DOMAIN job.files
      PROVE  slots'[j] \in {Todo, Busy, compress_file(job.files[j])}
  BY <1>1 DEF SlotsAreOwn
<1>4. Todo' = Todo /\ Busy' = Busy /\ DOMAIN job'.files = DOMAIN job.files
  BY DEF Todo, Busy
<1> QED BY <1>2, <1>3, <1>4, SameCall DEF SlotsAreOwn

LEMMA TakeFileKeeps ==
  ASSUME WriterInv, NEW i \in DOMAIN slots, TakeFile(i)
  PROVE  WriterInv'
<1>1. WorkersLeaveNoTrace'
  BY DEF TakeFile, WorkersLeaveNoTrace
<1>2. SlotsAreOwn'
  BY SlotChanges DEF WriterInv, TakeFile
<1> QED BY <1>1, <1>2 DEF WriterInv

\* While the call is not done, FinishFile is one slot's; after it, none is busy.
LEMMA FinishFileKeeps ==
  ASSUME WriterInv, NEW i \in DOMAIN slots, FinishFile(i)
  PROVE  WriterInv'
<1>1. SlotsAreOwn'
  <2>1. CASE archive = None
    BY <2>1, SlotChanges DEF WriterInv, FinishFile
  <2>2. CASE archive # None
    BY <2>2 DEF SlotsAreOwn, FinishFile
  <2> QED BY <2>1, <2>2
<1>2. WorkersLeaveNoTrace'
  <2>1. CASE archive = None
    BY <2>1 DEF FinishFile, WorkersLeaveNoTrace
  <2>2. CASE archive # None
    BY <2>2, SameReturns DEF FinishFile, WriterInv, WorkersLeaveNoTrace
  <2> QED BY <2>1, <2>2
<1> QED BY <1>1, <1>2 DEF WriterInv

LEMMA WriteArchiveKeeps ==
  ASSUME WriterInv, WriteArchive
  PROVE  WriterInv'
<1>1. SlotsAreOwn'
  BY SameCall DEF WriteArchive, WriterInv, SlotsAreOwn, Todo, Busy
<1>2. /\ slots = SerialResult
      /\ \A i \in DOMAIN job.files : SerialResult[i].state # "error"
  BY SlotsAreSerial DEF WriteArchive, WriterInv
<1>3. Serially(archive')
  <2>1. CASE EncryptionError # "none"
    BY <1>2, <2>1 DEF WriteArchive, Serially
  <2>2. CASE EncryptionError = "none"
    <3>1. PICK s \in [AesEntries -> Salts] :
            archive' = Written(slots, [i \in DOMAIN slots |->
                                         IF i \in AesEntries THEN s[i] ELSE None])
      BY <2>2 DEF WriteArchive
    <3> DEFINE salt == [i \in DOMAIN slots |-> IF i \in AesEntries THEN s[i] ELSE None]
    <3>2. DOMAIN slots = DOMAIN job.files
      BY <1>2 DEF SerialResult
    <3>3. salt \in [DOMAIN job.files -> Salts \cup {None}]
      BY <3>2
    <3>4. archive' = Written(SerialResult, salt)
      BY <1>2, <3>1
    <3> HIDE DEF salt
    <3> QED BY <1>2, <2>2, <3>3, <3>4 DEF Serially
  <2> QED BY <2>1, <2>2
<1>4. WorkersLeaveNoTrace'
  BY <1>3, SameReturns DEF WorkersLeaveNoTrace, WriteArchive
<1> QED BY <1>1, <1>4 DEF WriterInv

LEMMA GiveUpKeeps ==
  ASSUME WriterInv, GiveUp
  PROVE  WriterInv'
<1>1. SlotsAreOwn'
  BY SameCall DEF GiveUp, WriterInv, SlotsAreOwn, Todo, Busy
<1>2. Serially(archive')
  BY FailureIsSerial DEF GiveUp, WriterInv, Serially
<1>3. WorkersLeaveNoTrace'
  BY <1>2, SameReturns DEF WorkersLeaveNoTrace, GiveUp
<1> QED BY <1>1, <1>3 DEF WriterInv

\* Once the call has returned, nothing of the writer changes but the slots.
LEMMA ReadersKeepWriter ==
  ASSUME WriterInv, job' = job, archive' = archive,
         slots' = slots \/ archive # None
  PROVE  WriterInv'
<1>1. SlotsAreOwn'
  BY SameCall DEF WriterInv, SlotsAreOwn, Todo, Busy
<1>2. WorkersLeaveNoTrace'
  BY SameReturns DEF WriterInv, WorkersLeaveNoTrace
<1> QED BY <1>1, <1>2 DEF WriterInv

----------------------------------------------------------------------------
(* The readers.                                                            *)

PoolIsSequence == \E S : pool \in Seq(S)

SharedInv == SharedIsSound /\ PoolIsSequence

LEMMA SharedStarts == Init => SharedInv
<1> SUFFICES ASSUME Init PROVE SharedInv
  OBVIOUS
<1>1. pool \in Seq({})
  BY DEF Init, ReadInit
<1> QED BY <1>1, PoolAssumption
        DEF Init, ReadInit, SharedInv, SharedIsSound, PoolIsSequence

\* A remembered position stays true when neither changes.
LEMMA SharedUnchanged ==
  ASSUME SharedInv, UNCHANGED <<handle, pool>>
  PROVE  SharedInv'
BY DEF SharedInv, SharedIsSound, PoolIsSequence

\* A read at pos, of whatever length.
LEMMA ReadIsSound ==
  ASSUME SharedInv, NEW pos, NEW n, handle' = HandleAfter(pos, n), pool' = pool
  PROVE  SharedInv'
<1>1. ReadFrom(pos) = pos
  BY DEF SharedInv, SharedIsSound, ReadFrom
<1> QED BY <1>1 DEF HandleAfter, SharedInv, SharedIsSound, PoolIsSequence

LEMMA ReadsIsSound ==
  ASSUME SharedInv, NEW t, NEW pos, NEW n, NEW r, Reads(t, pos, n, r)
  PROVE  SharedInv'
BY ReadIsSound, SharedUnchanged DEF Reads

\* A buffer returned to a pool with room.
LEMMA ReleaseIsSound ==
  ASSUME SharedInv, NEW r, pool' = Released(r), handle' = handle
  PROVE  SharedInv'
<1>1. PICK S : pool \in Seq(S)
  BY DEF SharedInv, PoolIsSequence
<1>2. CASE pool' = pool
  BY <1>2, SharedUnchanged
<1>3. CASE Len(pool) < PoolCapacity /\ pool' = Append(pool, r.src.data)
  <2> DEFINE T == S \cup {r.src.data}
  <2>1. pool \in Seq(T)
    BY <1>1
  <2>2. pool' \in Seq(T) /\ Len(pool') = Len(pool) + 1
    BY <1>3, <2>1
  <2> QED BY <1>3, <2>1, <2>2, PoolAssumption DEF SharedInv, SharedIsSound, PoolIsSequence
<1> QED BY <1>2, <1>3 DEF Released

\* All but the last of a sequence.
LEMMA FrontProperties ==
  ASSUME NEW S, NEW s \in Seq(S), s # <<>>
  PROVE  Front(s) \in Seq(S) /\ Len(Front(s)) = Len(s) - 1
<1>1. Len(s) \in Nat /\ Len(s) > 0
  OBVIOUS
<1> DEFINE n == Len(s) - 1
<1>2. n \in Nat /\ n \in Int /\ 1 \in Int
  BY <1>1
<1>3. \A i \in 1..n : s[i] \in S
  BY <1>1
<1> HIDE DEF n
<1>4. /\ SubSeq(s, 1, n) \in Seq(S)
      /\ Len(SubSeq(s, 1, n)) = IF 1 =< n THEN n - 1 + 1 ELSE 0
  BY <1>2, <1>3, SubSeqProperties
<1>5. Len(SubSeq(s, 1, n)) = n
  BY <1>2, <1>4
<1> QED BY <1>4, <1>5 DEF n, Front

LEMMA AcquireIsSound ==
  ASSUME SharedInv, NEW t, Acquire(t)
  PROVE  SharedInv'
<1>1. PICK S : pool \in Seq(S)
  BY DEF SharedInv, PoolIsSequence
<1>2. CASE pool = <<>>
  BY <1>2, SharedUnchanged DEF Acquire
<1>3. CASE pool # <<>>
  <2>1. pool' = Front(pool) /\ handle' = handle
    BY <1>3 DEF Acquire
  <2>2. Len(pool) \in Nat /\ pool' \in Seq(S) /\ Len(pool') = Len(pool) - 1
    BY <1>1, <1>3, <2>1, FrontProperties
  <2>3. Len(pool') =< PoolCapacity
    BY <2>2, PoolAssumption DEF SharedInv, SharedIsSound
  <2> QED BY <2>1, <2>2, <2>3 DEF SharedInv, SharedIsSound, PoolIsSequence
<1> QED BY <1>2, <1>3

LEMMA DropIsSound ==
  ASSUME SharedInv, NEW t, Drop(t)
  PROVE  SharedInv'
BY ReleaseIsSound DEF Drop

\* A seek that fails moves nothing, and is not remembered.
LEMMA FailureIsSound ==
  ASSUME SharedInv, NEW t, FileFails(t)
  PROVE  SharedInv'
<1>1. pool' = pool
  BY DEF FileFails
<1>2. CASE handle' = HandleAfterSeekFails(Reader(t).pos)
  BY <1>1, <1>2, SharedUnchanged DEF HandleAfterSeekFails
<1>3. CASE handle' = HandleAfterReadFails(Reader(t).pos)
  BY <1>1, <1>3, ReadIsSound DEF HandleAfterReadFails
<1> QED BY <1>2, <1>3 DEF FileFails

\* A step of a reader: the readers' own, reads, and what the pool sees.
LEMMA StepIsSound ==
  ASSUME SharedInv, NEW t, Step(t)
  PROVE  SharedInv'
<1>1. CASE CacheStart(t) \/ OpenShared(t) \/ DecodeSlice(t) \/ OpenEncrypted(t)
             \/ UseRegion(t) \/ OpenStream(t) \/ EndStream(t)
             \/ ReadMemory(t) \/ ReadBuffered(t)
  <2>1. UNCHANGED <<handle, pool>>
    BY <1>1 DEF CacheStart, OpenShared, DecodeSlice, OpenEncrypted, UseRegion,
                OpenStream, EndStream, ReadMemory, ReadBuffered, Becomes, sharedVars
  <2> QED BY <2>1, SharedUnchanged
<1>2. CASE ReadHeader(t)
  BY <1>2, ReadsIsSound DEF ReadHeader
<1>3. CASE CheckHeader(t)
  BY <1>3, ReadsIsSound DEF CheckHeader
<1>4. CASE ReadRegion(t)
  BY <1>4, ReadsIsSound DEF ReadRegion
<1>5. CASE ReadStream(t)
  BY <1>5, ReadsIsSound DEF ReadStream
<1>6. CASE Acquire(t) \/ Drop(t) \/ FileFails(t)
  BY <1>6, AcquireIsSound, DropIsSound, FailureIsSound
<1> QED BY <1>1, <1>2, <1>3, <1>4, <1>5, <1>6 DEF Step

\* No step of a reader is one of the writer, nor opens another archive.
LEMMA BecomesKeepsOthers ==
  ASSUME NEW t, NEW r, Becomes(t, r)
  PROVE  UNCHANGED writerVars /\ opened' = opened
BY DEF Becomes

LEMMA ReadsKeepsOthers ==
  ASSUME NEW t, NEW pos, NEW n, NEW r, Reads(t, pos, n, r)
  PROVE  UNCHANGED writerVars /\ opened' = opened
BY DEF Reads

LEMMA StepKeepsOthers ==
  ASSUME NEW t, Step(t)
  PROVE  UNCHANGED writerVars /\ opened' = opened
<1>1. CASE OpenShared(t) \/ DecodeSlice(t) \/ OpenEncrypted(t) \/ UseRegion(t)
             \/ OpenStream(t) \/ EndStream(t) \/ ReadMemory(t) \/ ReadBuffered(t)
  BY <1>1, BecomesKeepsOthers
     DEF OpenShared, DecodeSlice, OpenEncrypted, UseRegion, OpenStream,
         EndStream, ReadMemory, ReadBuffered
<1>2. CASE ReadHeader(t)
  BY <1>2, ReadsKeepsOthers DEF ReadHeader
<1>3. CASE CheckHeader(t)
  BY <1>3, ReadsKeepsOthers DEF CheckHeader
<1>4. CASE ReadRegion(t)
  BY <1>4, ReadsKeepsOthers DEF ReadRegion
<1>5. CASE ReadStream(t)
  BY <1>5, ReadsKeepsOthers DEF ReadStream
<1>6. CASE CacheStart(t) \/ Acquire(t) \/ Drop(t) \/ FileFails(t)
  BY <1>6 DEF CacheStart, Acquire, Drop, FileFails
<1> QED BY <1>1, <1>2, <1>3, <1>4, <1>5, <1>6 DEF Step

----------------------------------------------------------------------------
(* The specification.                                                      *)

ArchiveInv == WriterInv /\ SharedInv

LEMMA OpenArchiveKeeps ==
  ASSUME ArchiveInv, OpenArchive
  PROVE  ArchiveInv'
<1>1. WriterInv'
  BY ReadersKeepWriter DEF ArchiveInv, OpenArchive
<1>2. SharedInv'
  BY DEF ArchiveInv, OpenArchive, SharedInv, SharedIsSound, PoolIsSequence
<1> QED BY <1>1, <1>2 DEF ArchiveInv

LEMMA WriterNextKeeps ==
  ASSUME ArchiveInv, WriterNext, UNCHANGED readVars
  PROVE  ArchiveInv'
<1>1. WriterInv'
  BY TakeFileKeeps, FinishFileKeeps, WriteArchiveKeeps, GiveUpKeeps
     DEF ArchiveInv, WriterNext
<1>2. SharedInv'
  BY SharedUnchanged DEF ArchiveInv, readVars
<1> QED BY <1>1, <1>2 DEF ArchiveInv

LEMMA ReadNextKeeps ==
  ASSUME ArchiveInv, ReadNext
  PROVE  ArchiveInv'
<1>1. CASE OpenArchive
  BY <1>1, OpenArchiveKeeps
<1>2. ASSUME NEW pw \in Passwords, SetDefaultPassword(pw)
      PROVE  ArchiveInv'
  BY <1>2, ReadersKeepWriter, SharedUnchanged
     DEF SetDefaultPassword, ArchiveInv, writerVars
<1>3. ASSUME NEW t \in Threads, NEW i \in DOMAIN Entries,
             NEW pw \in Passwords \cup {None}, NEW raw \in BOOLEAN,
             OpenEntry(t, i, pw, raw)
      PROVE  ArchiveInv'
  BY <1>3, ReadersKeepWriter, SharedUnchanged
     DEF OpenEntry, ArchiveInv, writerVars, sharedVars
<1>4. ASSUME NEW t \in Threads, Step(t)
      PROVE  ArchiveInv'
  BY <1>4, StepIsSound, StepKeepsOthers, ReadersKeepWriter DEF ArchiveInv, writerVars
<1> QED BY <1>1, <1>2, <1>3, <1>4 DEF ReadNext

LEMMA StutterKeeps ==
  ASSUME ArchiveInv, UNCHANGED vars
  PROVE  ArchiveInv'
BY ReadersKeepWriter, SharedUnchanged DEF ArchiveInv, vars, readVars

\* Every archive that a pool of workers writes is one that a single thread may
\* write, and every failure its failure: compress_files and write_archive,
\* for any files, options and number of workers.
THEOREM WritesLikeOneThread == Spec => []WorkersLeaveNoTrace
<1>1. Init => ArchiveInv
  BY WriterStarts, SharedStarts DEF ArchiveInv
<1>2. ArchiveInv /\ [Next]_vars => ArchiveInv'
  BY WriterNextKeeps, ReadNextKeeps, StutterKeeps DEF Next
<1>3. ArchiveInv => WorkersLeaveNoTrace
  BY DEF ArchiveInv, WriterInv
<1> QED BY <1>1, <1>2, <1>3, PTL DEF Spec

\* The position SharedFile remembers is where the file stands, and BufferPool
\* keeps to its capacity, whatever the threads read and whatever fails.
THEOREM SharedStaysSound == Spec => []SharedIsSound
<1>1. Init => ArchiveInv
  BY WriterStarts, SharedStarts DEF ArchiveInv
<1>2. ArchiveInv /\ [Next]_vars => ArchiveInv'
  BY WriterNextKeeps, ReadNextKeeps, StutterKeeps DEF Next
<1>3. ArchiveInv => SharedIsSound
  BY DEF ArchiveInv, SharedInv
<1> QED BY <1>1, <1>2, <1>3, PTL DEF Spec


----------------------------------------------------------------------------
(* Induction up to a number, as a fact about sets.                         *)

\* A set of naturals has a least element.
LEMMA LeastElement ==
  ASSUME NEW S \in SUBSET Nat, S # {}
  PROVE  \E m \in S : \A k \in S : m =< k
<1> DEFINE Sub == StrictSubsetOrdering(Nat)
           T == {0 .. n : n \in S}
<1>1. IsWellFoundedOn(Sub, FiniteSubsetsOf(Nat))
  BY FS_StrictSubsetOrderingWellFounded
<1>2. T \subseteq FiniteSubsetsOf(Nat)
  <2> SUFFICES ASSUME NEW n \in S PROVE 0 .. n \in FiniteSubsetsOf(Nat)
    OBVIOUS
  <2>1. 0 .. n \subseteq Nat
    OBVIOUS
  <2>2. IsFiniteSet(0 .. n)
    <3>1. 0 \in Int /\ n \in Int
      OBVIOUS
    <3> QED BY ONLY <3>1, FS_Interval, Zenon
  <2> QED BY <2>1, <2>2 DEF FiniteSubsetsOf
<1>3. T # {}
  OBVIOUS
<1>4. PICK x \in T : \A y \in T : ~ (<<y, x>> \in Sub)
  <2> HIDE DEF Sub, T
  <2> QED BY <1>1, <1>2, <1>3, WFMin
<1>5. PICK m \in S : x = 0 .. m
  OBVIOUS
<1>6. ASSUME NEW k \in S, k < m PROVE FALSE
  <2>1. 0 .. k \in T
    OBVIOUS
  <2>2. <<0 .. k, x>> \in Sub
    BY <1>5, <1>6 DEF StrictSubsetOrdering
  <2> QED BY <1>4, <2>1, <2>2
<1> QED BY <1>6

LEMMA Induct ==
  ASSUME NEW n \in Nat, NEW S, 0 \in S, \A k \in 1..n : k - 1 \in S => k \in S
  PROVE  \A k \in 0..n : k \in S
<1> DEFINE Bad == {k \in 0..n : k \notin S}
<1> SUFFICES ASSUME Bad # {} PROVE FALSE
  OBVIOUS
<1>1. PICK m \in Bad : \A k \in Bad : m =< k
  <2>1. Bad \in SUBSET Nat
    OBVIOUS
  <2> QED BY ONLY <2>1, Bad # {}, LeastElement
<1>2. m \in 1..n /\ m - 1 \in 0..n /\ m \notin S /\ ~(m =< m - 1)
  OBVIOUS
<1>3. m - 1 \notin Bad
  <2> HIDE DEF Bad
  <2> QED BY <1>1, <1>2
<1> QED BY <1>2, <1>3

----------------------------------------------------------------------------
(* Sequences, of whatever elements.                                        *)

IsSeq(s) == \E X : s \in Seq(X)

LEMMA SequenceIs ==
  ASSUME NEW s, IsSeq(s)
  PROVE  /\ Len(s) \in Nat /\ DOMAIN s = 1..Len(s)
         /\ s = [i \in 1..Len(s) |-> s[i]]
<1>1. PICK X : s \in Seq(X)
  BY DEF IsSeq
<1>2. Len(s) \in Nat /\ s \in [1..Len(s) -> X]
  BY <1>1, LenProperties
<1> QED BY <1>2

LEMMA SequenceOf ==
  ASSUME NEW n \in Nat, NEW f, f = [i \in 1..n |-> f[i]]
  PROVE  IsSeq(f) /\ Len(f) = n
<1>1. f \in [1..n -> {f[i] : i \in 1..n}]
  OBVIOUS
<1>2. f \in Seq({f[i] : i \in 1..n}) /\ Len(f) = n
  BY <1>1, SeqDef, LenProperties
<1> QED BY <1>2 DEF IsSeq

LEMMA SameSequence ==
  ASSUME NEW s, NEW t, IsSeq(s), IsSeq(t), Len(s) = Len(t),
         \A i \in 1..Len(s) : s[i] = t[i]
  PROVE  s = t
<1>1. /\ Len(s) \in Nat /\ s = [i \in 1..Len(s) |-> s[i]] /\ t = [i \in 1..Len(t) |-> t[i]]
      /\ DOMAIN s = 1..Len(s) /\ DOMAIN t = 1..Len(t)
  BY SequenceIs
<1>2. t = [i \in 1..Len(s) |-> s[i]]
  BY <1>1
<1> QED BY <1>1, <1>2

LEMMA SequenceConcat ==
  ASSUME NEW s, NEW t, IsSeq(s), IsSeq(t)
  PROVE  /\ IsSeq(s \o t) /\ Len(s \o t) = Len(s) + Len(t)
         /\ \A i \in 1..Len(s) : (s \o t)[i] = s[i]
         /\ \A j \in 1..Len(t) : (s \o t)[Len(s) + j] = t[j]
<1>1. PICK X : s \in Seq(X)
  BY DEF IsSeq
<1>2. PICK Y : t \in Seq(Y)
  BY DEF IsSeq
<1> DEFINE Z == X \cup Y
<1>3. s \in Seq(Z) /\ t \in Seq(Z)
  BY <1>1, <1>2, SeqMonotonic
<1> HIDE DEF Z
<1> DEFINE m == Len(s)
           n == Len(t)
           both == s \o t
<1>4. m \in Nat /\ n \in Nat
  BY <1>3, LenProperties
<1>5. /\ both \in Seq(Z) /\ Len(both) = m + n
      /\ \A i \in 1..(m + n) : both[i] = IF i =< m THEN s[i] ELSE t[i - m]
  BY <1>3, ConcatProperties
<1> HIDE DEF m, n, both
<1>6. \A i \in 1..m : both[i] = s[i]
  <2>1. \A i \in 1..m : i \in 1..(m + n) /\ i =< m
    BY <1>4
  <2> QED BY <1>5, <2>1
<1>7. \A j \in 1..n : both[m + j] = t[j]
  <2> TAKE j \in 1..n
  <2> DEFINE k == m + j
  <2>1. k \in 1..(m + n) /\ ~(k =< m) /\ k - m = j
    BY <1>4
  <2> HIDE DEF k
  <2>2. both[k] = t[k - m]
    BY <1>5, <2>1
  <2>3. both[k] = t[j]
    BY <2>1, <2>2
  <2> QED BY <2>3 DEF k
<1>8. IsSeq(both)
  BY <1>5 DEF IsSeq
<1> QED BY <1>5, <1>6, <1>7, <1>8 DEF m, n, both

LEMMA EmptySequence == IsSeq(<<>>) /\ Len(<<>>) = 0
<1>1. <<>> \in Seq({})
  OBVIOUS
<1> QED BY <1>1 DEF IsSeq

LEMMA SingleSequence ==
  ASSUME NEW x
  PROVE  IsSeq(<<x>>) /\ Len(<<x>>) = 1 /\ <<x>>[1] = x
<1>1. <<x>> \in Seq({x})
  OBVIOUS
<1> QED BY <1>1 DEF IsSeq

LEMMA EmptyConcat ==
  ASSUME NEW s, IsSeq(s)
  PROVE  <<>> \o s = s /\ s \o <<>> = s
<1>1. PICK X : s \in Seq(X)
  BY DEF IsSeq
<1> QED BY <1>1, ConcatEmptySeq

LEMMA SeqAssociative ==
  ASSUME NEW s, NEW t, NEW u, IsSeq(s), IsSeq(t), IsSeq(u)
  PROVE  (s \o t) \o u = s \o (t \o u)
<1>1. PICK X : s \in Seq(X)
  BY DEF IsSeq
<1>2. PICK Y : t \in Seq(Y)
  BY DEF IsSeq
<1>3. PICK Z : u \in Seq(Z)
  BY DEF IsSeq
<1> DEFINE W == X \cup Y \cup Z
<1>4. s \in Seq(W) /\ t \in Seq(W) /\ u \in Seq(W)
  BY <1>1, <1>2, <1>3, SeqMonotonic
<1> HIDE DEF W
<1> QED BY <1>4, ConcatAssociative

\* A part of a sequence.
LEMMA PieceIs ==
  ASSUME NEW s, IsSeq(s), NEW from \in Nat, NEW n \in Nat, from + n =< Len(s)
  PROVE  /\ IsSeq(Piece(s, from, n)) /\ Len(Piece(s, from, n)) = n
         /\ \A k \in 1..n : Piece(s, from, n)[k] = s[from + k]
<1> DEFINE first == from + 1
           last == from + n
           piece == SubSeq(s, first, last)
<1>1. PICK X : s \in Seq(X)
  BY DEF IsSeq
<1>2. Len(s) \in Nat /\ first \in Int /\ last \in Int /\ \A i \in first..last : i \in 1..Len(s)
  BY <1>1, LenProperties
<1>3. \A i \in first..last : s[i] \in X
  BY <1>1, <1>2, ElementOfSeq
<1>4. (IF first =< last THEN last - first + 1 ELSE 0) = n
  OBVIOUS
<1>5. \A k \in 1..n : first + k - 1 = from + k /\ k \in 1..n
  OBVIOUS
<1> HIDE DEF first, last
<1>6. /\ piece \in Seq(X)
      /\ Len(piece) = IF first =< last THEN last - first + 1 ELSE 0
      /\ \A i \in 1..(last - first + 1) : piece[i] = s[first + i - 1]
  BY <1>2, <1>3, SubSeqProperties
<1>7. \A k \in 1..n : k \in 1..(last - first + 1)
  <2>1. last - first + 1 = n
    BY DEF first, last
  <2> QED BY <2>1
<1>8. Piece(s, from, n) = piece
  BY DEF Piece, first, last
<1> HIDE DEF piece
<1> QED BY <1>4, <1>5, <1>6, <1>7, <1>8 DEF IsSeq

\* The recursion of FlattenSeq, and that it has a function.
IsFlat(seqs, m, f) ==
  f = [i \in 1..m |-> IF i = 1 THEN seqs[i] ELSE f[i - 1] \o seqs[i]]

LEMMA FlatExists ==
  ASSUME NEW seqs, NEW len \in Nat
  PROVE  \E f : IsFlat(seqs, len, f)
<1> DEFINE S == {m \in 0..len : \E f : IsFlat(seqs, m, f)}
<1>1. 0 \in S
  <2> DEFINE f == [i \in 1..0 |-> <<>>]
  <2>1. IsFlat(seqs, 0, f) /\ 0 \in 0..len
    BY DEF IsFlat
  <2> HIDE DEF f
  <2> QED BY <2>1
<1>2. ASSUME NEW m \in 1..len, m - 1 \in S PROVE m \in S
  <2>1. PICK g : IsFlat(seqs, m - 1, g)
    BY <1>2
  <2> DEFINE last == IF m = 1 THEN seqs[m] ELSE g[m - 1] \o seqs[m]
             h == [i \in 1..m |-> IF i < m THEN g[i] ELSE last]
  <2>2. h[m] = last /\ \A i \in 1..(m - 1) : h[i] = g[i]
    <3> HIDE DEF last
    <3> QED OBVIOUS
  <2>3. ASSUME NEW i \in 1..m
        PROVE  h[i] = IF i = 1 THEN seqs[i] ELSE h[i - 1] \o seqs[i]
    <3> HIDE DEF h
    <3>1. CASE i = m
      <4>1. i # 1 => m - 1 \in 1..(m - 1)
        BY <3>1
      <4> QED BY <2>2, <3>1, <4>1
    <3>2. CASE i # m
      <4>1. i \in 1..(m - 1) /\ (i # 1 => i - 1 \in 1..(m - 1))
        BY <3>2
      <4>2. g[i] = IF i = 1 THEN seqs[i] ELSE g[i - 1] \o seqs[i]
        BY <2>1, <4>1 DEF IsFlat
      <4> QED BY <2>2, <4>1, <4>2
    <3> QED BY <3>1, <3>2
  <2>4. h = [i \in 1..m |-> h[i]]
    OBVIOUS
  <2>5. IsFlat(seqs, m, h)
    <3> HIDE DEF h
    <3> QED BY <2>3, <2>4 DEF IsFlat
  <2>6. m \in 0..len
    OBVIOUS
  <2> HIDE DEF h
  <2> QED BY <2>5, <2>6
<1>3. \A m \in 0..len : m \in S
  <2> HIDE DEF S
  <2> QED BY <1>1, <1>2, Induct
<1>4. len \in 0..len
  OBVIOUS
<1> QED BY <1>3, <1>4

\* Two flattenings agree as far as both go.
LEMMA FlatAgree ==
  ASSUME NEW s, NEW m \in Nat, NEW l \in 0..m, NEW f, NEW g,
         IsFlat(s, m, f), IsFlat(s, l, g)
  PROVE  \A i \in 1..l : f[i] = g[i]
<1> DEFINE S == {i \in 0..l : i = 0 \/ f[i] = g[i]}
<1>1. 0 \in S
  OBVIOUS
<1>2. ASSUME NEW i \in 1..l, i - 1 \in S PROVE i \in S
  <2>1. i \in 1..m /\ i \in 1..l /\ i \in 0..l
    OBVIOUS
  <2>2. f[i] = IF i = 1 THEN s[i] ELSE f[i - 1] \o s[i]
    BY <2>1 DEF IsFlat
  <2>3. g[i] = IF i = 1 THEN s[i] ELSE g[i - 1] \o s[i]
    BY <2>1 DEF IsFlat
  <2>4. i # 1 => f[i - 1] = g[i - 1]
    BY <1>2
  <2> QED BY <2>1, <2>2, <2>3, <2>4
<1>3. \A i \in 0..l : i \in S
  <2> HIDE DEF S
  <2> QED BY <1>1, <1>2, Induct
<1> QED BY <1>3

\* The first n of some sequences, one behind the other.
Flats(f, n) == FlattenSeq([i \in 1..n |-> f[i]])

LEMMA FlatEmpty == \A f : Flats(f, 0) = <<>>
<1> SUFFICES ASSUME NEW f PROVE Flats(f, 0) = <<>>
  OBVIOUS
<1> DEFINE none == [i \in 1..0 |-> f[i]]
<1>1. none = <<>>
  OBVIOUS
<1>2. Len(none) = 0
  BY <1>1
<1>3. Flats(f, 0) = FlattenSeq(none)
  BY DEF Flats
<1> HIDE DEF none
<1> QED BY <1>1, <1>2, <1>3 DEF FlattenSeq

LEMMA FlatIs ==
  ASSUME NEW f, NEW n \in Nat \ {0}
  PROVE  \E g : IsFlat(f, n, g) /\ Flats(f, n) = g[n]
<1> DEFINE seqs == [i \in 1..n |-> f[i]]
           g == CHOOSE h : IsFlat(seqs, n, h)
<1>1. Len(seqs) = n
  BY SequenceOf
<1>2. Flats(f, n) = FlattenSeq(seqs)
  BY DEF Flats
<1>3. \A i \in 1..n : seqs[i] = f[i]
  OBVIOUS
<1> HIDE DEF seqs
<1>4. FlattenSeq(seqs) = g[n]
  BY <1>1 DEF FlattenSeq, IsFlat
<1>5. IsFlat(seqs, n, g)
  BY FlatExists
<1> HIDE DEF g
<1>6. IsFlat(f, n, g)
  <2>1. \A i \in 1..n : (IF i = 1 THEN seqs[i] ELSE g[i - 1] \o seqs[i])
                          = IF i = 1 THEN f[i] ELSE g[i - 1] \o f[i]
    BY <1>3
  <2> QED BY <1>5, <2>1 DEF IsFlat
<1> QED BY <1>2, <1>4, <1>6

LEMMA FlatNext ==
  ASSUME NEW f, NEW n \in Nat, IsSeq(f[n + 1])
  PROVE  Flats(f, n + 1) = Flats(f, n) \o f[n + 1]
<1> DEFINE m == n + 1
<1>1. m \in Nat \ {0} /\ m - 1 = n /\ m \in 1..m /\ (m = 1 <=> n = 0)
  OBVIOUS
<1>2. PICK g : IsFlat(f, m, g) /\ Flats(f, m) = g[m]
  BY <1>1, FlatIs
<1> HIDE DEF m
<1>3. g[m] = IF m = 1 THEN f[m] ELSE g[m - 1] \o f[m]
  BY <1>1, <1>2 DEF IsFlat
<1>4. CASE n = 0
  <2>1. Flats(f, n) = <<>>
    BY <1>4, FlatEmpty
  <2>2. IsSeq(f[m])
    BY DEF m
  <2> QED BY <1>1, <1>2, <1>3, <1>4, <2>1, <2>2, EmptyConcat DEF m
<1>5. CASE n # 0
  <2>1. PICK h : IsFlat(f, n, h) /\ Flats(f, n) = h[n]
    BY <1>5, FlatIs
  <2>2. \A i \in 1..n : g[i] = h[i]
    <3>1. n \in 0..m /\ m \in Nat
      BY <1>1
    <3> QED BY <1>2, <2>1, <3>1, FlatAgree
  <2>3. g[n] = h[n]
    BY <1>5, <2>2
  <2> QED BY <1>1, <1>2, <1>3, <1>5, <2>1, <2>3 DEF m
<1> QED BY <1>4, <1>5

LEMMA FlatSequence ==
  ASSUME NEW f, NEW n \in Nat, \A i \in 1..n : IsSeq(f[i])
  PROVE  \A k \in 0..n : IsSeq(Flats(f, k))
<1> DEFINE S == {k \in 0..n : IsSeq(Flats(f, k))}
<1>1. 0 \in S
  BY FlatEmpty, EmptySequence
<1>2. ASSUME NEW k \in 1..n, k - 1 \in S PROVE k \in S
  <2>1. k - 1 \in Nat /\ (k - 1) + 1 = k
    OBVIOUS
  <2>2. Flats(f, k) = Flats(f, k - 1) \o f[k]
    BY <2>1, FlatNext
  <2>3. IsSeq(Flats(f, k - 1)) /\ IsSeq(f[k])
    BY <1>2
  <2>4. IsSeq(Flats(f, k))
    BY <2>2, <2>3, SequenceConcat
  <2> QED BY <2>4
<1>3. \A k \in 0..n : k \in S
  <2> HIDE DEF S
  <2> QED BY <1>1, <1>2, Induct
<1> QED BY <1>3

----------------------------------------------------------------------------
(* Where the parts of a sequence lie.                                      *)

Lies(c, at, p) ==
  /\ at + Len(p) =< Len(c)
  /\ \A k \in 1..Len(p) : c[at + k] = p[k]

LEMMA LiesWhole ==
  ASSUME NEW c, IsSeq(c)
  PROVE  Lies(c, 0, c)
<1>1. Len(c) \in Nat
  BY SequenceIs
<1> QED BY <1>1 DEF Lies

LEMMA LiesParts ==
  ASSUME NEW c, NEW at \in Nat, NEW p, NEW q, IsSeq(p), IsSeq(q), Len(c) \in Nat,
         Lies(c, at, p \o q)
  PROVE  Lies(c, at, p) /\ Lies(c, at + Len(p), q)
<1> DEFINE m == Len(p)
           n == Len(q)
           both == p \o q
<1>1. m \in Nat /\ n \in Nat
  BY SequenceIs
<1>2. /\ Len(both) = m + n /\ \A i \in 1..m : both[i] = p[i]
      /\ \A j \in 1..n : both[m + j] = q[j]
  BY SequenceConcat
<1>3. at + Len(both) =< Len(c) /\ \A k \in 1..Len(both) : c[at + k] = both[k]
  BY DEF Lies
<1> HIDE DEF m, n, both
<1>4. \A i \in 1..m : c[at + i] = p[i]
  <2>1. \A i \in 1..m : i \in 1..Len(both)
    BY <1>1, <1>2
  <2> QED BY <1>2, <1>3, <2>1
<1>5. \A j \in 1..n : c[at + m + j] = q[j]
  <2> TAKE j \in 1..n
  <2>1. m + j \in 1..Len(both) /\ at + (m + j) = at + m + j
    BY <1>1, <1>2
  <2> QED BY <1>2, <1>3, <2>1
<1>6. at + m =< Len(c) /\ at + m + n =< Len(c)
  BY <1>1, <1>2, <1>3
<1> QED BY <1>4, <1>5, <1>6 DEF Lies, m, n

LEMMA LiesPiece ==
  ASSUME NEW c, IsSeq(c), NEW at \in Nat, NEW p, IsSeq(p), Lies(c, at, p)
  PROVE  Piece(c, at, Len(p)) = p
<1> DEFINE n == Len(p)
<1>1. n \in Nat /\ Len(c) \in Nat
  BY SequenceIs
<1>2. at + n =< Len(c) /\ \A k \in 1..n : c[at + k] = p[k]
  BY DEF Lies
<1>3. /\ IsSeq(Piece(c, at, n)) /\ Len(Piece(c, at, n)) = n
      /\ \A k \in 1..n : Piece(c, at, n)[k] = c[at + k]
  BY <1>1, <1>2, PieceIs
<1> QED BY <1>2, <1>3, SameSequence

LEMMA LiesWithin ==
  ASSUME NEW c, NEW p, NEW q, NEW a \in Nat, NEW b \in Nat,
         Len(c) \in Nat, Len(p) \in Nat, Len(q) \in Nat, Lies(c, a, p), Lies(p, b, q)
  PROVE  Lies(c, a + b, q)
<1>1. a + Len(p) =< Len(c) /\ b + Len(q) =< Len(p)
  BY DEF Lies
<1>2. a + b + Len(q) =< Len(c)
  BY <1>1
<1>3. \A k \in 1..Len(q) : c[a + b + k] = q[k]
  <2> TAKE k \in 1..Len(q)
  <2>1. b + k \in 1..Len(p) /\ a + (b + k) = a + b + k
    BY <1>1
  <2>2. c[a + (b + k)] = p[b + k] /\ p[b + k] = q[k]
    BY <2>1 DEF Lies
  <2> QED BY <2>1, <2>2
<1> QED BY <1>2, <1>3 DEF Lies

\* Where the i-th of some sequences begins.
Before(f, i) == Len(Flats(f, i - 1))

LEMMA FlatParts ==
  ASSUME NEW f, NEW n \in Nat, \A i \in 1..n : IsSeq(f[i])
  PROVE  /\ IsSeq(Flats(f, n)) /\ Len(Flats(f, n)) \in Nat
         /\ Before(f, 1) = 0 /\ Len(Flats(f, n)) = Before(f, n + 1)
         /\ \A i \in 1..n : /\ Before(f, i) \in Nat /\ Len(f[i]) \in Nat
                            /\ Before(f, i + 1) = Before(f, i) + Len(f[i])
                            /\ Lies(Flats(f, n), Before(f, i), f[i])
<1>1. \A k \in 0..n : IsSeq(Flats(f, k)) /\ Len(Flats(f, k)) \in Nat
  BY FlatSequence, SequenceIs
<1>2. ASSUME NEW i \in 1..n
      PROVE  /\ Before(f, i) \in Nat /\ Len(f[i]) \in Nat
             /\ Before(f, i + 1) = Before(f, i) + Len(f[i])
             /\ Flats(f, i) = Flats(f, i - 1) \o f[i]
  <2>1. i - 1 \in 0..n /\ i - 1 \in Nat /\ (i - 1) + 1 = i /\ (i + 1) - 1 = i
    OBVIOUS
  <2>2. Flats(f, i) = Flats(f, i - 1) \o f[i]
    BY <2>1, FlatNext
  <2>3. IsSeq(Flats(f, i - 1)) /\ Len(Flats(f, i - 1)) \in Nat
    BY <1>1, <2>1
  <2>4. Len(Flats(f, i)) = Len(Flats(f, i - 1)) + Len(f[i])
    BY <2>2, <2>3, SequenceConcat
  <2> QED BY <2>1, <2>2, <2>3, <2>4, SequenceIs DEF Before
<1> DEFINE S == {k \in 0..n : \A i \in 1..k : Lies(Flats(f, k), Before(f, i), f[i])}
<1>3. 0 \in S
  OBVIOUS
<1>4. ASSUME NEW k \in 1..n, k - 1 \in S PROVE k \in S
  <2> DEFINE old == Flats(f, k - 1)
             new == Flats(f, k)
  <2>1. k \in 0..n /\ k - 1 \in 0..n
    OBVIOUS
  <2>2. new = old \o f[k] /\ IsSeq(old) /\ IsSeq(new) /\ Len(old) \in Nat /\ Len(new) \in Nat
    BY <1>1, <1>2, <2>1
  <2>3. \A i \in 1..(k - 1) : Lies(old, Before(f, i), f[i])
    BY <1>4
  <2>4. Lies(new, 0, new) /\ Before(f, k) = Len(old)
    BY <2>2, LiesWhole DEF Before
  <2> HIDE DEF old, new
  <2>5. Lies(new, 0, old) /\ Lies(new, 0 + Len(old), f[k])
    BY <2>2, <2>4, LiesParts
  <2>6. 0 + Len(old) = Before(f, k)
    BY <2>2, <2>4
  <2>7. \A i \in 1..(k - 1) : Lies(new, Before(f, i), f[i])
    <3> TAKE i \in 1..(k - 1)
    <3>1. i \in 1..n
      OBVIOUS
    <3>2. Before(f, i) \in Nat /\ Len(f[i]) \in Nat
      BY <1>2, <3>1
    <3>3. 0 + Before(f, i) = Before(f, i) /\ 0 \in Nat
      BY <3>2
    <3>4. Lies(new, 0 + Before(f, i), f[i])
      BY <2>2, <2>3, <2>5, <3>2, <3>3, LiesWithin
    <3> QED BY <3>3, <3>4
  <2>8. \A i \in 1..k : i \in 1..(k - 1) \/ i = k
    OBVIOUS
  <2>9. \A i \in 1..k : Lies(Flats(f, k), Before(f, i), f[i])
    BY <2>5, <2>6, <2>7, <2>8 DEF new
  <2> QED BY <2>1, <2>9
<1>5. \A k \in 0..n : k \in S
  <2> HIDE DEF S
  <2> QED BY <1>3, <1>4, Induct
<1>6. \A i \in 1..n : Lies(Flats(f, n), Before(f, i), f[i])
  <2>1. n \in 0..n
    OBVIOUS
  <2> QED BY <1>5, <2>1
<1>7. Before(f, 1) = 0
  <2>1. 1 - 1 = 0
    OBVIOUS
  <2> QED BY <2>1, FlatEmpty, EmptySequence DEF Before
<1>8. n \in 0..n /\ (n + 1) - 1 = n
  OBVIOUS
<1>9. Len(Flats(f, n)) = Before(f, n + 1)
  BY <1>8 DEF Before
<1> QED BY <1>1, <1>2, <1>6, <1>7, <1>8, <1>9

\* Every place is in one of the sequences.
LEMMA FlatCovers ==
  ASSUME NEW f, NEW n \in Nat, \A i \in 1..n : IsSeq(f[i]), NEW k \in 1..Len(Flats(f, n))
  PROVE  \E i \in 1..n : \E j \in 1..Len(f[i]) :
           k = Before(f, i) + j /\ Flats(f, n)[k] = f[i][j]
<1>1. /\ Len(Flats(f, n)) \in Nat /\ Before(f, 1) = 0 /\ Len(Flats(f, n)) = Before(f, n + 1)
      /\ \A i \in 1..n : /\ Before(f, i) \in Nat /\ Len(f[i]) \in Nat
                         /\ Before(f, i + 1) = Before(f, i) + Len(f[i])
                         /\ Lies(Flats(f, n), Before(f, i), f[i])
  BY FlatParts
<1> DEFINE S == {i \in 0..n : k > Before(f, i + 1)}
<1>2. PICK i \in 1..n : ~(k > Before(f, i + 1)) /\ k > Before(f, i)
  <2> SUFFICES ASSUME \A i \in 1..n : k > Before(f, i) => k > Before(f, i + 1) PROVE FALSE
    OBVIOUS
  <2>1. 0 \in S
    <3>1. 0 + 1 = 1 /\ k > 0
      OBVIOUS
    <3> QED BY <1>1, <3>1
  <2>2. ASSUME NEW i \in 1..n, i - 1 \in S PROVE i \in S
    <3>1. (i - 1) + 1 = i /\ i \in 0..n
      OBVIOUS
    <3> QED BY <2>2, <3>1
  <2>3. \A i \in 0..n : i \in S
    <3> HIDE DEF S
    <3> QED BY <2>1, <2>2, Induct
  <2>4. k > Before(f, n + 1)
    BY <2>3
  <2> QED BY <1>1, <2>4
<1> DEFINE b == Before(f, i)
           l == Len(f[i])
           j == k - b
<1>3. b \in Nat /\ l \in Nat /\ Before(f, i + 1) = b + l /\ Lies(Flats(f, n), b, f[i])
  BY <1>1
<1>4. k \in Nat /\ k > b /\ ~(k > b + l)
  BY <1>1, <1>2, <1>3
<1> HIDE DEF b, l
<1>5. j \in 1..l /\ k = b + j
  BY <1>3, <1>4
<1>6. Flats(f, n)[b + j] = f[i][j]
  BY <1>3, <1>5 DEF Lies, l
<1> HIDE DEF j
<1> QED BY <1>5, <1>6 DEF b, l

\* They follow each other.
LEMMA FlatOrder ==
  ASSUME NEW f, NEW n \in Nat, \A i \in 1..n : IsSeq(f[i]), NEW i \in 1..n, NEW j \in 1..n, i < j
  PROVE  Before(f, i) + Len(f[i]) =< Before(f, j)
<1>1. \A k \in 1..n : /\ Before(f, k) \in Nat /\ Len(f[k]) \in Nat
                      /\ Before(f, k + 1) = Before(f, k) + Len(f[k])
  BY FlatParts
<1> DEFINE S == {k \in 0..n : k > i => Before(f, i) + Len(f[i]) =< Before(f, k)}
<1>2. 0 \in S
  OBVIOUS
<1>3. ASSUME NEW k \in 1..n, k - 1 \in S PROVE k \in S
  <2>1. CASE k > i
    <3>1. (k - 1) + 1 = k
      OBVIOUS
    <3>2. CASE k - 1 = i
      BY <1>1, <3>1, <3>2
    <3>3. CASE k - 1 # i
      <4>1. k - 1 > i /\ k - 1 \in 1..n
        BY <2>1, <3>3
      <4>2. Before(f, i) + Len(f[i]) =< Before(f, k - 1)
        BY <1>3, <4>1
      <4>3. /\ Before(f, k - 1) \in Nat /\ Len(f[k - 1]) \in Nat
            /\ Before(f, (k - 1) + 1) = Before(f, k - 1) + Len(f[k - 1])
        BY <1>1, <4>1
      <4>4. Before(f, i) + Len(f[i]) \in Nat
        BY <1>1
      <4> QED BY <3>1, <4>2, <4>3, <4>4
    <3> QED BY <3>2, <3>3
  <2> QED BY <2>1
<1>4. \A k \in 0..n : k \in S
  <2> HIDE DEF S
  <2> QED BY <1>2, <1>3, Induct
<1> QED BY <1>4

LEMMA FlatSame ==
  ASSUME NEW f, NEW g, NEW n \in Nat, \A i \in 1..n : f[i] = g[i]
  PROVE  Flats(f, n) = Flats(g, n)
<1>1. [i \in 1..n |-> f[i]] = [i \in 1..n |-> g[i]]
  OBVIOUS
<1> QED BY <1>1 DEF Flats

LEMMA FlatConcat ==
  ASSUME NEW f, NEW g, NEW m \in Nat, NEW n \in Nat,
         \A i \in 1..m : IsSeq(f[i]), \A j \in 1..n : IsSeq(g[j]),
         \A j \in 1..n : f[m + j] = g[j]
  PROVE  Flats(f, m + n) = Flats(f, m) \o Flats(g, n)
<1> DEFINE S == {k \in 0..n : Flats(f, m + k) = Flats(f, m) \o Flats(g, k)}
<1>1. IsSeq(Flats(f, m))
  <2>1. m \in 0..m
    OBVIOUS
  <2> QED BY <2>1, FlatSequence
<1>2. \A k \in 0..n : IsSeq(Flats(g, k))
  BY FlatSequence
<1>3. 0 \in S
  <2>1. m + 0 = m
    OBVIOUS
  <2>2. Flats(f, m) \o <<>> = Flats(f, m)
    BY <1>1, EmptyConcat
  <2>3. Flats(g, 0) = <<>>
    BY FlatEmpty
  <2>4. Flats(f, m + 0) = Flats(f, m) \o Flats(g, 0)
    BY <2>1, <2>2, <2>3
  <2>5. 0 \in 0..n
    OBVIOUS
  <2> QED BY <2>4, <2>5
<1>4. ASSUME NEW k \in 1..n, k - 1 \in S PROVE k \in S
  <2> DEFINE j == k - 1
             i == m + j
  <2>1. j \in Nat /\ j + 1 = k /\ i \in Nat /\ i + 1 = m + k /\ j \in 0..n /\ k \in 0..n
    OBVIOUS
  <2>2. Flats(f, i) = Flats(f, m) \o Flats(g, j)
    BY <1>4
  <2> HIDE DEF i, j
  <2>3. IsSeq(g[j + 1]) /\ f[i + 1] = g[j + 1]
    BY <2>1
  <2>4. Flats(f, i + 1) = Flats(f, i) \o f[i + 1] /\ Flats(g, j + 1) = Flats(g, j) \o g[j + 1]
    BY <2>1, <2>3, FlatNext
  <2>5. IsSeq(Flats(g, j))
    BY <1>2, <2>1
  <2>6. (Flats(f, m) \o Flats(g, j)) \o g[j + 1] = Flats(f, m) \o (Flats(g, j) \o g[j + 1])
    <3> DEFINE a == Flats(f, m)
               b == Flats(g, j)
               c == g[j + 1]
    <3>1. IsSeq(a)
      BY <1>1
    <3>2. IsSeq(b)
      BY <2>5
    <3>3. IsSeq(c)
      BY <2>3
    <3> HIDE DEF a, b, c
    <3>4. (a \o b) \o c = a \o (b \o c)
      BY <3>1, <3>2, <3>3, SeqAssociative
    <3> QED BY <3>4 DEF a, b, c
  <2>7. Flats(f, m + k) = Flats(f, m) \o Flats(g, k)
    BY <2>1, <2>2, <2>3, <2>4, <2>6
  <2> QED BY <2>1, <2>7
<1>5. \A k \in 0..n : k \in S
  <2> HIDE DEF S
  <2> QED BY <1>3, <1>4, Induct
<1>6. n \in 0..n
  OBVIOUS
<1> QED BY <1>5, <1>6

LEMMA FlatSingles ==
  ASSUME NEW s, IsSeq(s), NEW f, \A i \in 1..Len(s) : f[i] = <<s[i]>>
  PROVE  Flats(f, Len(s)) = s
<1> DEFINE n == Len(s)
           S == {k \in 0..n : /\ IsSeq(Flats(f, k)) /\ Len(Flats(f, k)) = k
                              /\ \A i \in 1..k : Flats(f, k)[i] = s[i]}
<1>1. n \in Nat
  BY SequenceIs
<1>2. \A i \in 1..n : f[i] = <<s[i]>>
  OBVIOUS
<1> HIDE DEF n
<1>3. 0 \in S
  BY <1>1, FlatEmpty, EmptySequence
<1>4. ASSUME NEW k \in 1..n, k - 1 \in S PROVE k \in S
  <2> DEFINE j == k - 1
             old == Flats(f, j)
             one == <<s[k]>>
             new == Flats(f, k)
  <2>1. j \in Nat /\ j + 1 = k /\ k \in 0..n
    BY <1>1
  <2>2. IsSeq(old) /\ Len(old) = j /\ \A i \in 1..j : old[i] = s[i]
    BY <1>4
  <2>3. IsSeq(one) /\ Len(one) = 1 /\ one[1] = s[k] /\ 1 \in 1..1
    BY SingleSequence
  <2>4. f[k] = one
    BY <1>2
  <2> HIDE DEF j
  <2>9. IsSeq(f[j + 1]) /\ f[j + 1] = one
    BY <2>1, <2>3, <2>4
  <2>5. new = old \o one
    <3>1. Flats(f, j + 1) = Flats(f, j) \o f[j + 1]
      BY <2>1, <2>9, FlatNext
    <3> QED BY <2>1, <2>9, <3>1
  <2> HIDE DEF old, one, new
  <2>6. /\ IsSeq(new) /\ Len(new) = j + 1
        /\ \A i \in 1..j : new[i] = old[i]
        /\ new[j + 1] = one[1]
    <3>1. IsSeq(old) /\ IsSeq(one)
      BY <2>2, <2>3
    <3>2. /\ IsSeq(old \o one) /\ Len(old \o one) = Len(old) + Len(one)
          /\ \A i \in 1..Len(old) : (old \o one)[i] = old[i]
          /\ \A i \in 1..Len(one) : (old \o one)[Len(old) + i] = one[i]
      BY <3>1, SequenceConcat
    <3> QED BY <2>2, <2>3, <2>5, <3>2
  <2>7. \A i \in 1..k : i \in 1..j \/ i = j + 1
    BY <2>1
  <2>8. \A i \in 1..k : new[i] = s[i]
    BY <2>1, <2>2, <2>3, <2>6, <2>7
  <2> QED BY <2>1, <2>6, <2>8 DEF new
<1>5. \A k \in 0..n : k \in S
  <2> HIDE DEF S
  <2> QED BY <1>1, <1>3, <1>4, Induct
<1>6. n \in 0..n
  BY <1>1
<1>7. IsSeq(Flats(f, n)) /\ Len(Flats(f, n)) = n /\ \A i \in 1..n : Flats(f, n)[i] = s[i]
  BY <1>5, <1>6
<1> QED BY <1>7, SameSequence DEF n

LEMMA FlatNothing ==
  ASSUME NEW f, NEW n \in Nat, \A i \in 1..n : f[i] = <<>>
  PROVE  Flats(f, n) = <<>>
<1> DEFINE S == {k \in 0..n : Flats(f, k) = <<>>}
<1>1. 0 \in S
  BY FlatEmpty
<1>2. ASSUME NEW k \in 1..n, k - 1 \in S PROVE k \in S
  <2>1. k - 1 \in Nat /\ (k - 1) + 1 = k
    OBVIOUS
  <2>2. IsSeq(f[k])
    BY EmptySequence
  <2>3. Flats(f, k) = <<>> \o <<>>
    BY <1>2, <2>1, <2>2, FlatNext
  <2>4. <<>> \o <<>> = <<>>
    BY EmptySequence, EmptyConcat
  <2> QED BY <2>3, <2>4
<1>3. \A k \in 0..n : k \in S
  <2> HIDE DEF S
  <2> QED BY <1>1, <1>2, Induct
<1>4. n \in 0..n
  OBVIOUS
<1> QED BY <1>3, <1>4

----------------------------------------------------------------------------
(* Extra fields.                                                           *)

Kept(fields, ids) == [k \in DOMAIN fields |-> Given(fields[k].id \notin ids, fields[k])]

LEMMA GivenIs ==
  ASSUME NEW c, NEW x
  PROVE  /\ IsSeq(Given(c, x)) /\ Len(Given(c, x)) = IF c THEN 1 ELSE 0
         /\ c => Given(c, x) = <<x>> /\ Given(c, x)[1] = x
         /\ ~c => Given(c, x) = <<>>
BY SingleSequence, EmptySequence DEF Given

LEMMA WithoutFlat ==
  ASSUME NEW fields, IsSeq(fields), NEW ids
  PROVE  /\ Without(fields, ids) = Flats(Kept(fields, ids), Len(fields))
         /\ \A i \in 1..Len(fields) :
              /\ Kept(fields, ids)[i] = Given(fields[i].id \notin ids, fields[i])
              /\ IsSeq(Kept(fields, ids)[i])
<1> DEFINE n == Len(fields)
           kept == Kept(fields, ids)
<1>1. n \in Nat /\ DOMAIN fields = 1..n
  BY SequenceIs
<1>2. kept = [k \in 1..n |-> Given(fields[k].id \notin ids, fields[k])]
  BY <1>1 DEF Kept
<1> HIDE DEF n
<1>3. Without(fields, ids) = FlattenSeq(kept)
  BY DEF Without, Kept
<1>4. kept = [i \in 1..n |-> kept[i]]
  BY <1>2
<1>5. \A i \in 1..n : kept[i] = Given(fields[i].id \notin ids, fields[i])
  BY <1>2
<1> HIDE DEF kept
<1>6. \A i \in 1..n : IsSeq(kept[i])
  BY <1>5, GivenIs
<1> QED BY <1>3, <1>4, <1>5, <1>6 DEF n, kept, Flats

LEMMA WithoutIs ==
  ASSUME NEW fields, IsSeq(fields), NEW ids
  PROVE  /\ IsSeq(Without(fields, ids))
         /\ \A k \in 1..Len(Without(fields, ids)) :
              \E i \in 1..Len(fields) :
                Without(fields, ids)[k] = fields[i] /\ fields[i].id \notin ids
<1> DEFINE n == Len(fields)
           kept == Kept(fields, ids)
<1>1. n \in Nat
  BY SequenceIs
<1>2. /\ Without(fields, ids) = Flats(kept, n)
      /\ \A i \in 1..n : kept[i] = Given(fields[i].id \notin ids, fields[i]) /\ IsSeq(kept[i])
  BY WithoutFlat
<1> HIDE DEF n, kept
<1>3. IsSeq(Flats(kept, n))
  <2>1. n \in 0..n
    BY <1>1
  <2> QED BY <1>1, <1>2, <2>1, FlatSequence
<1>4. ASSUME NEW k \in 1..Len(Flats(kept, n))
      PROVE  \E i \in 1..n : Flats(kept, n)[k] = fields[i] /\ fields[i].id \notin ids
  <2>1. PICK i \in 1..n : \E j \in 1..Len(kept[i]) : Flats(kept, n)[k] = kept[i][j]
    BY <1>1, <1>2, FlatCovers
  <2>2. PICK j \in 1..Len(kept[i]) : Flats(kept, n)[k] = kept[i][j]
    BY <2>1
  <2>3. kept[i] = Given(fields[i].id \notin ids, fields[i])
    BY <1>2
  <2>4. CASE fields[i].id \in ids
    <3>1. kept[i] = <<>>
      BY <2>3, <2>4 DEF Given
    <3>2. Len(kept[i]) = 0
      BY <3>1, EmptySequence
    <3> QED BY <3>2
  <2>5. CASE fields[i].id \notin ids
    <3>1. kept[i] = <<fields[i]>>
      BY <2>3, <2>5 DEF Given
    <3>2. Len(kept[i]) = 1 /\ kept[i][1] = fields[i]
      BY <3>1, SingleSequence
    <3>3. j = 1
      BY <3>2
    <3> QED BY <2>2, <2>5, <3>2, <3>3
  <2> QED BY <2>4, <2>5
<1> QED BY <1>2, <1>3, <1>4 DEF n

LEMMA WithoutAll ==
  ASSUME NEW fields, IsSeq(fields), NEW ids, \A k \in 1..Len(fields) : fields[k].id \notin ids
  PROVE  Without(fields, ids) = fields
<1>1. /\ Without(fields, ids) = Flats(Kept(fields, ids), Len(fields))
      /\ \A i \in 1..Len(fields) :
           Kept(fields, ids)[i] = Given(fields[i].id \notin ids, fields[i])
  BY WithoutFlat
<1>2. \A i \in 1..Len(fields) : Kept(fields, ids)[i] = <<fields[i]>>
  BY <1>1 DEF Given
<1> QED BY <1>1, <1>2, FlatSingles

LEMMA WithoutAny ==
  ASSUME NEW fields, IsSeq(fields), NEW ids, \A k \in 1..Len(fields) : fields[k].id \in ids
  PROVE  Without(fields, ids) = <<>>
<1>1. /\ Without(fields, ids) = Flats(Kept(fields, ids), Len(fields))
      /\ \A i \in 1..Len(fields) :
           Kept(fields, ids)[i] = Given(fields[i].id \notin ids, fields[i])
  BY WithoutFlat
<1>2. \A i \in 1..Len(fields) : Kept(fields, ids)[i] = <<>>
  BY <1>1 DEF Given
<1>3. Len(fields) \in Nat
  BY SequenceIs
<1> QED BY <1>1, <1>2, <1>3, FlatNothing

LEMMA WithoutConcat ==
  ASSUME NEW s, NEW t, IsSeq(s), IsSeq(t), NEW ids
  PROVE  Without(s \o t, ids) = Without(s, ids) \o Without(t, ids)
<1> DEFINE m == Len(s)
           n == Len(t)
           both == s \o t
           f == Kept(s, ids)
           g == Kept(t, ids)
           h == Kept(both, ids)
<1>1. m \in Nat /\ n \in Nat
  BY SequenceIs
<1>2. /\ IsSeq(both) /\ Len(both) = m + n /\ \A i \in 1..m : both[i] = s[i]
      /\ \A j \in 1..n : both[m + j] = t[j]
  BY SequenceConcat
<1>3. /\ Without(s, ids) = Flats(f, m)
      /\ \A i \in 1..m : f[i] = Given(s[i].id \notin ids, s[i]) /\ IsSeq(f[i])
  BY WithoutFlat
<1>4. /\ Without(t, ids) = Flats(g, n)
      /\ \A i \in 1..n : g[i] = Given(t[i].id \notin ids, t[i]) /\ IsSeq(g[i])
  BY WithoutFlat
<1>5. /\ Without(both, ids) = Flats(h, Len(both))
      /\ \A i \in 1..Len(both) : h[i] = Given(both[i].id \notin ids, both[i]) /\ IsSeq(h[i])
  BY <1>2, WithoutFlat
<1> HIDE DEF m, n, both, f, g, h
<1>6. \A i \in 1..m : i \in 1..Len(both) /\ h[i] = f[i] /\ IsSeq(h[i])
  <2> TAKE i \in 1..m
  <2>1. i \in 1..Len(both)
    BY <1>1, <1>2
  <2> QED BY <1>2, <1>3, <1>5, <2>1
<1>7. \A j \in 1..n : IsSeq(g[j]) /\ h[m + j] = g[j]
  <2> TAKE j \in 1..n
  <2>1. m + j \in 1..Len(both)
    BY <1>1, <1>2
  <2> QED BY <1>2, <1>4, <1>5, <2>1
<1>8. Flats(h, m + n) = Flats(h, m) \o Flats(g, n)
  <2>1. \A i \in 1..m : IsSeq(h[i])
    BY <1>6
  <2>2. \A j \in 1..n : IsSeq(g[j])
    BY <1>7
  <2>5. \A j \in 1..n : h[m + j] = g[j]
    BY <1>7
  <2>3. m \in Nat
    BY <1>1
  <2>4. n \in Nat
    BY <1>1
  <2> QED BY ONLY <2>1, <2>2, <2>3, <2>4, <2>5, FlatConcat, ZenonT(30)
<1>9. Flats(h, m) = Flats(f, m)
  BY <1>1, <1>6, FlatSame
<1> QED BY <1>2, <1>3, <1>4, <1>5, <1>8, <1>9 DEF both

\* Fields with an id and data.
IsFields(fields) ==
  /\ IsSeq(fields)
  /\ \A k \in 1..Len(fields) : fields[k] = [id |-> fields[k].id, data |-> fields[k].data]

LEMMA FieldsConcat ==
  ASSUME NEW s, NEW t, IsFields(s), IsFields(t)
  PROVE  IsFields(s \o t)
<1> DEFINE m == Len(s)
           n == Len(t)
           both == s \o t
<1>1. IsSeq(s) /\ IsSeq(t) /\ m \in Nat /\ n \in Nat
  BY SequenceIs DEF IsFields
<1>2. /\ IsSeq(both) /\ Len(both) = m + n /\ \A i \in 1..m : both[i] = s[i]
      /\ \A j \in 1..n : both[m + j] = t[j]
  BY <1>1, SequenceConcat
<1>3. /\ \A k \in 1..m : s[k] = [id |-> s[k].id, data |-> s[k].data]
      /\ \A k \in 1..n : t[k] = [id |-> t[k].id, data |-> t[k].data]
  BY DEF IsFields
<1> HIDE DEF m, n, both
<1>4. ASSUME NEW k \in 1..(m + n)
      PROVE  both[k] = [id |-> both[k].id, data |-> both[k].data]
  <2>1. CASE k \in 1..m
    BY <1>2, <1>3, <2>1
  <2>2. CASE k \notin 1..m
    <3> DEFINE j == k - m
    <3>1. j \in 1..n /\ m + j = k
      BY <1>1, <2>2
    <3> HIDE DEF j
    <3>2. both[k] = t[j]
      BY <1>2, <3>1
    <3> QED BY <1>3, <3>1, <3>2
  <2> QED BY <2>1, <2>2
<1> QED BY <1>2, <1>4 DEF IsFields, both

LEMMA FieldsParse ==
  ASSUME NEW fields, IsFields(fields)
  PROVE  /\ IsSeq(FieldCells(fields)) /\ Len(FieldCells(fields)) = Len(fields)
         /\ \A k \in 1..Len(fields) : FieldCells(fields)[k] = <<"extra", fields[k].id, fields[k].data>>
         /\ parse_extra_fields(FieldCells(fields)) = <<fields>>
<1> DEFINE n == Len(fields)
           cells == FieldCells(fields)
<1>1. IsSeq(fields) /\ n \in Nat /\ DOMAIN fields = 1..n /\ fields = [k \in 1..n |-> fields[k]]
  BY SequenceIs DEF IsFields
<1>2. \A k \in 1..n : fields[k] = [id |-> fields[k].id, data |-> fields[k].data]
  BY DEF IsFields
<1> HIDE DEF n
<1>3. cells = [k \in 1..n |-> <<"extra", fields[k].id, fields[k].data>>]
  BY <1>1 DEF FieldCells
<1> HIDE DEF cells
<1>4. IsSeq(cells) /\ Len(cells) = n
  <2>1. cells = [k \in 1..n |-> cells[k]]
    BY <1>3
  <2> QED BY <1>1, <2>1, SequenceOf
<1>5. \A k \in 1..n : cells[k] = <<"extra", fields[k].id, fields[k].data>>
  BY <1>3
<1>6. DOMAIN cells = 1..n /\ \A k \in 1..n : cells[k][1] = "extra"
  BY <1>3, <1>5
<1>7. [k \in DOMAIN cells |-> [id |-> cells[k][2], data |-> cells[k][3]]] = fields
  <2>1. \A k \in 1..n : [id |-> cells[k][2], data |-> cells[k][3]] = fields[k]
    BY <1>2, <1>5
  <2>2. [k \in 1..n |-> [id |-> cells[k][2], data |-> cells[k][3]]] = [k \in 1..n |-> fields[k]]
    BY <2>1
  <2> QED BY <1>1, <1>6, <2>2
<1>8. parse_extra_fields(cells) = <<fields>>
  BY <1>6, <1>7 DEF parse_extra_fields
<1> QED BY <1>4, <1>5, <1>8 DEF n, cells


----------------------------------------------------------------------------
(* Texts, and what a record is read as.                                    *)

LEMMA ConcatLength ==
  ASSUME NEW s, NEW t, IsSeq(s), IsSeq(t)
  PROVE  IsSeq(s \o t) /\ Len(s \o t) = Len(s) + Len(t)
BY SequenceConcat

LEMMA TextsAre ==
  ASSUME NEW tag, NEW text, IsSeq(text)
  PROVE  /\ IsSeq(Texts(tag, text)) /\ Len(Texts(tag, text)) = Len(text)
         /\ \A k \in 1..Len(text) : Texts(tag, text)[k] = <<tag, text[k]>>
         /\ Plain(Texts(tag, text)) = text
<1> DEFINE n == Len(text)
           cells == Texts(tag, text)
<1>1. n \in Nat /\ DOMAIN text = 1..n /\ text = [k \in 1..n |-> text[k]]
  BY SequenceIs
<1> HIDE DEF n
<1>2. cells = [k \in 1..n |-> <<tag, text[k]>>]
  BY <1>1 DEF Texts
<1> HIDE DEF cells
<1>3. IsSeq(cells) /\ Len(cells) = n
  <2>1. cells = [k \in 1..n |-> cells[k]]
    BY <1>2
  <2> QED BY <1>1, <2>1, SequenceOf
<1>4. DOMAIN cells = 1..n /\ \A k \in 1..n : cells[k] = <<tag, text[k]>>
  BY <1>2
<1>5. Plain(cells) = text
  <2>1. \A k \in 1..n : cells[k][2] = text[k]
    BY <1>4
  <2>2. [k \in 1..n |-> cells[k][2]] = [k \in 1..n |-> text[k]]
    BY <2>1
  <2> QED BY <1>1, <1>4, <2>2 DEF Plain
<1> QED BY <1>3, <1>4, <1>5 DEF n, cells

LEMMA LiesTag ==
  ASSUME NEW c, NEW at \in Nat, NEW x, Len(c) \in Nat, Lies(c, at, <<x>>)
  PROVE  at \in 0..Len(c) - 1 /\ c[at + 1] = x /\ Tag(c, at) = x[1]
<1>1. at + 1 =< Len(c) /\ c[at + 1] = x
  <2>1. Len(<<x>>) = 1 /\ <<x>>[1] = x /\ 1 \in 1..1
    BY SingleSequence
  <2> QED BY <2>1 DEF Lies
<1>2. at \in 0..Len(c) - 1
  BY <1>1
<1> QED BY <1>1, <1>2 DEF Tag

\* A record: its fixed part, its name, its extra fields and, in the directory, its
\* comment.
HeadCells(x, name, extra) == <<x>> \o Texts("name", name) \o FieldCells(extra)

LEMMA HeadIs ==
  ASSUME NEW x, NEW name, IsSeq(name), NEW extra, IsFields(extra)
  PROVE  /\ IsSeq(HeadCells(x, name, extra))
         /\ Len(HeadCells(x, name, extra)) = 1 + Len(name) + Len(extra)
         /\ Len(name) \in Nat /\ Len(extra) \in Nat
<1> DEFINE a == <<x>>
           b == Texts("name", name)
           c == FieldCells(extra)
<1>1. IsSeq(a) /\ Len(a) = 1
  BY SingleSequence
<1>2. IsSeq(b) /\ Len(b) = Len(name)
  BY TextsAre
<1>3. IsSeq(c) /\ Len(c) = Len(extra)
  BY FieldsParse
<1>4. Len(name) \in Nat /\ Len(extra) \in Nat
  BY SequenceIs DEF IsFields
<1> HIDE DEF a, b, c
<1>5. IsSeq(a \o b) /\ Len(a \o b) = Len(a) + Len(b)
  BY ONLY <1>1, <1>2, ConcatLength
<1>6. IsSeq((a \o b) \o c) /\ Len((a \o b) \o c) = Len(a \o b) + Len(c)
  BY ONLY <1>3, <1>5, ConcatLength
<1> QED BY <1>1, <1>2, <1>3, <1>4, <1>5, <1>6 DEF HeadCells, a, b, c

HeadReads(s, at, x, name, extra) ==
  /\ s[at + 1] = x /\ Tag(s, at) = x[1]
  /\ Plain(Piece(s, at + 1, Len(name))) = name
  /\ parse_extra_fields(Piece(s, at + 1 + Len(name), Len(extra))) = <<extra>>
  /\ at + 1 + Len(name) + Len(extra) =< Len(s)

LEMMA HeadRead ==
  ASSUME NEW s, IsSeq(s), NEW at \in Nat, NEW x, NEW name, IsSeq(name),
         NEW extra, IsFields(extra), Lies(s, at, HeadCells(x, name, extra))
  PROVE  HeadReads(s, at, x, name, extra)
<1> DEFINE a == <<x>>
           b == Texts("name", name)
           c == FieldCells(extra)
           m == Len(name)
           n == Len(extra)
<1>1. IsSeq(a) /\ Len(a) = 1
  BY SingleSequence
<1>2. IsSeq(b) /\ Len(b) = m /\ Plain(b) = name
  BY TextsAre
<1>3. IsSeq(c) /\ Len(c) = n /\ parse_extra_fields(c) = <<extra>>
  BY FieldsParse
<1>4. m \in Nat /\ n \in Nat /\ Len(s) \in Nat
  BY SequenceIs DEF IsFields
<1>5. Lies(s, at, (a \o b) \o c)
  BY DEF HeadCells
<1>5a. s[at + 1] = s[at + 1]
  OBVIOUS
<1> HIDE DEF b, c, m, n
<1>6. IsSeq(a \o b) /\ Len(a \o b) = 1 + m
  BY <1>1, <1>2, SequenceConcat
<1>7. Lies(s, at, a \o b) /\ Lies(s, at + Len(a \o b), c)
  BY <1>3, <1>4, <1>5, <1>6, LiesParts
<1>8. Lies(s, at, a) /\ Lies(s, at + Len(a), b)
  BY <1>1, <1>2, <1>4, <1>7, LiesParts
<1>9. s[at + 1] = x /\ Tag(s, at) = x[1]
  BY <1>4, <1>8, LiesTag
<1>10. Piece(s, at + 1, m) = b
  <2>1. at + 1 \in Nat /\ Lies(s, at + 1, b)
    BY <1>1, <1>8
  <2> QED BY <1>2, <2>1, LiesPiece
<1>11. Lies(s, at + 1 + m, c) /\ at + 1 + m \in Nat
  BY <1>4, <1>6, <1>7
<1>12. Piece(s, at + 1 + m, n) = c
  BY <1>3, <1>11, LiesPiece
<1>13. at + 1 + m + n =< Len(s)
  BY <1>3, <1>11 DEF Lies
<1> QED BY <1>2, <1>3, <1>9, <1>10, <1>12, <1>13 DEF m, n, HeadReads

----------------------------------------------------------------------------
(* The fields a record carries.                                            *)

LEMMA DataOfIs ==
  ASSUME NEW fields, IsSeq(fields), NEW id, NEW k \in 1..Len(fields), fields[k].id = id,
         \A j \in 1..Len(fields) : fields[j].id = id => j = k
  PROVE  Has(fields, id) /\ DataOf(fields, id) = fields[k].data
<1> DEFINE n == Len(fields)
           P(j) == j \in 1..n /\ fields[j].id = id /\ \A i \in 1..j - 1 : fields[i].id # id
<1>1. n \in Nat /\ DOMAIN fields = 1..n
  BY SequenceIs
<1>2. \A i \in 1..k - 1 : fields[i].id # id
  <2> TAKE i \in 1..k - 1
  <2>1. i \in 1..n /\ i # k
    BY <1>1
  <2> QED BY <2>1
<1>3. P(k)
  BY <1>2
<1> DEFINE first == CHOOSE j \in DOMAIN fields :
             fields[j].id = id /\ \A i \in 1..j - 1 : fields[i].id # id
<1>4. first \in 1..n /\ fields[first].id = id
  BY <1>1, <1>3
<1> HIDE DEF first
<1>5. first = k
  BY <1>4
<1>6. DataOf(fields, id) = fields[first].data
  BY DEF DataOf, first
<1>7. Has(fields, id)
  BY <1>1 DEF Has
<1> QED BY <1>5, <1>6, <1>7

LEMMA HasNot ==
  ASSUME NEW fields, IsSeq(fields), NEW id, \A j \in 1..Len(fields) : fields[j].id # id
  PROVE  ~Has(fields, id)
<1>1. DOMAIN fields = 1..Len(fields)
  BY SequenceIs
<1> QED BY <1>1 DEF Has

\* The user's fields, then one that the writer makes, then another.
Three(u, a, z) == u \o a \o z

LEMMA ThreeIs ==
  ASSUME NEW u, NEW a, NEW z, IsFields(u), IsFields(a), IsFields(z)
  PROVE  /\ IsFields(Three(u, a, z))
         /\ Len(Three(u, a, z)) = Len(u) + Len(a) + Len(z)
         /\ Len(u) \in Nat /\ Len(a) \in Nat /\ Len(z) \in Nat
         /\ \A k \in 1..Len(u) : Three(u, a, z)[k] = u[k]
         /\ \A k \in 1..Len(a) : Three(u, a, z)[Len(u) + k] = a[k]
         /\ \A k \in 1..Len(z) : Three(u, a, z)[Len(u) + Len(a) + k] = z[k]
<1>1. IsSeq(u) /\ IsSeq(a) /\ IsSeq(z) /\ Len(u) \in Nat /\ Len(a) \in Nat /\ Len(z) \in Nat
  BY SequenceIs DEF IsFields
<1> DEFINE ua == u \o a
           l == Len(u)
           m == Len(a)
           n == Len(z)
<1>2. IsFields(ua) /\ IsFields(ua \o z)
  BY FieldsConcat
<1>3. /\ IsSeq(ua) /\ Len(ua) = l + m /\ \A k \in 1..l : ua[k] = u[k]
      /\ \A k \in 1..m : ua[l + k] = a[k]
  BY <1>1, SequenceConcat
<1> HIDE DEF ua
<1>4. /\ Len(ua \o z) = Len(ua) + n /\ \A k \in 1..Len(ua) : (ua \o z)[k] = ua[k]
      /\ \A k \in 1..n : (ua \o z)[Len(ua) + k] = z[k]
  <2>1. IsSeq(ua)
    BY <1>3
  <2>2. IsSeq(z)
    BY <1>1
  <2> QED BY ONLY <2>1, <2>2, SequenceConcat
<1> DEFINE all == ua \o z
<1> HIDE DEF all, l, m, n
<1>5. l \in Nat /\ m \in Nat /\ n \in Nat
  BY <1>1 DEF l, m, n
<1>6. /\ Len(all) = l + m + n
      /\ \A k \in 1..l : all[k] = u[k]
      /\ \A k \in 1..m : all[l + k] = a[k]
      /\ \A k \in 1..n : all[l + m + k] = z[k]
  <2>1. Len(all) = Len(ua) + n /\ (\A k \in 1..Len(ua) : all[k] = ua[k])
        /\ \A k \in 1..n : all[Len(ua) + k] = z[k]
    BY <1>4 DEF all
  <2>2. \A k \in 1..l : all[k] = u[k]
    <3> TAKE k \in 1..l
    <3>1. k \in 1..Len(ua)
      BY <1>3, <1>5
    <3> QED BY <1>3, <2>1, <3>1
  <2>3. \A k \in 1..m : all[l + k] = a[k]
    <3> TAKE k \in 1..m
    <3>1. l + k \in 1..Len(ua)
      BY <1>3, <1>5
    <3> QED BY <1>3, <2>1, <3>1
  <2> QED BY <1>3, <1>5, <2>1, <2>2, <2>3
<1>7. Three(u, a, z) = all
  BY DEF Three, all, ua
<1> QED BY <1>1, <1>2, <1>5, <1>6, <1>7 DEF all, l, m, n

----------------------------------------------------------------------------
(* The values behind a record's sentinels.                                 *)

Sent(raw, k) == Cardinality({j \in 1..k : raw[j] = Max32})

LEMMA SentNone ==
  ASSUME NEW raw
  PROVE  Sent(raw, 0) = 0
<1>1. {j \in 1..0 : raw[j] = Max32} = {}
  OBVIOUS
<1> QED BY <1>1, FS_EmptySet DEF Sent

LEMMA SentNext ==
  ASSUME NEW raw, NEW k \in Nat
  PROVE  /\ Sent(raw, k) \in Nat
         /\ raw[k + 1] = Max32 => Sent(raw, k + 1) = Sent(raw, k) + 1
         /\ raw[k + 1] # Max32 => Sent(raw, k + 1) = Sent(raw, k)
<1> DEFINE old == {j \in 1..k : raw[j] = Max32}
           new == {j \in 1..(k + 1) : raw[j] = Max32}
<1>1. IsFiniteSet(old)
  <2>1. IsFiniteSet(1..k)
    BY FS_Interval
  <2> QED BY <2>1, FS_Subset
<1>2. Cardinality(old) \in Nat
  BY <1>1, FS_CardinalityType
<1>3. ASSUME raw[k + 1] = Max32 PROVE Cardinality(new) = Cardinality(old) + 1
  <2>1. new = old \cup {k + 1} /\ k + 1 \notin old
    BY <1>3
  <2> HIDE DEF old, new
  <2> QED BY <1>1, <2>1, FS_AddElement
<1>4. ASSUME raw[k + 1] # Max32 PROVE new = old
  BY <1>4
<1> QED BY <1>2, <1>3, <1>4 DEF Sent

LEMMA InSequences ==
  ASSUME NEW X, NEW s \in Seq(X)
  PROVE  IsSeq(s)
BY DEF IsSeq

\* What a concatenation holds.
Joined(s, t, both) ==
  /\ IsSeq(both) /\ Len(both) = Len(s) + Len(t)
  /\ \A i \in 1..Len(s) : both[i] = s[i]
  /\ \A j \in 1..Len(t) : both[Len(s) + j] = t[j]

LEMMA ConcatJoins ==
  ASSUME NEW s, NEW t, IsSeq(s), IsSeq(t)
  PROVE  Joined(s, t, s \o t)
BY SequenceConcat DEF Joined

LEMMA TupleIs ==
  ASSUME NEW x, NEW y, NEW z
  PROVE  /\ IsSeq(<<x, y>>) /\ Len(<<x, y>>) = 2 /\ <<x, y>>[1] = x /\ <<x, y>>[2] = y
         /\ IsSeq(<<x, y, z>>) /\ Len(<<x, y, z>>) = 3
         /\ <<x, y, z>>[1] = x /\ <<x, y, z>>[2] = y /\ <<x, y, z>>[3] = z
<1>1. <<x, y>> \in Seq({x, y}) /\ <<x, y, z>> \in Seq({x, y, z})
  OBVIOUS
<1>2. IsSeq(<<x, y>>)
  BY <1>1, InSequences
<1>3. IsSeq(<<x, y, z>>)
  BY <1>1, InSequences
<1> QED BY <1>2, <1>3

LEMMA PairIs ==
  ASSUME NEW x, NEW y
  PROVE  /\ <<x>> \o <<y>> = <<x, y>> /\ <<x>> \o <<>> = <<x>> /\ <<>> \o <<x>> = <<x>>
         /\ <<x, y>> \o <<>> = <<x, y>> /\ <<>> \o <<>> = <<>>
<1> DEFINE a == <<x>>
           b == <<y>>
           t == <<x, y>>
<1>1. IsSeq(a) /\ Len(a) = 1 /\ a[1] = x
  BY SingleSequence
<1>2. IsSeq(b) /\ Len(b) = 1 /\ b[1] = y
  BY SingleSequence
<1>3. IsSeq(t) /\ Len(t) = 2 /\ t[1] = x /\ t[2] = y
  BY TupleIs
<1> HIDE DEF a, b, t
<1>4. /\ IsSeq(a \o b) /\ Len(a \o b) = Len(a) + Len(b)
      /\ \A i \in 1..Len(a) : (a \o b)[i] = a[i]
      /\ \A i \in 1..Len(b) : (a \o b)[Len(a) + i] = b[i]
  <2>1. IsSeq(a)
    BY <1>1
  <2>2. IsSeq(b)
    BY <1>2
  <2> QED BY ONLY <2>1, <2>2, SequenceConcat
<1> DEFINE ab == a \o b
<1>5. IsSeq(ab) /\ Len(ab) = 2 /\ ab[1] = x /\ ab[2] = y
  <2>1. 1 \in 1..Len(a) /\ 1 \in 1..Len(b) /\ Len(a) + 1 = 2
    BY <1>1, <1>2
  <2> QED BY <1>1, <1>2, <1>4, <2>1
<1> HIDE DEF ab
<1>6. ab = t
  <2>1. \A i \in 1..2 : i = 1 \/ i = 2
    OBVIOUS
  <2> QED BY <1>3, <1>5, <2>1, SameSequence
<1>7. a \o <<>> = a /\ <<>> \o a = a /\ t \o <<>> = t /\ <<>> \o <<>> = <<>>
  BY <1>1, <1>3, EmptySequence, EmptyConcat
<1> QED BY <1>6, <1>7 DEF ab, a, b, t

LEMMA TripleIs ==
  ASSUME NEW x, NEW y, NEW z
  PROVE  <<x, y>> \o <<z>> = <<x, y, z>>
<1> DEFINE a == <<x, y>>
           b == <<z>>
           t == <<x, y, z>>
<1>1. IsSeq(a) /\ Len(a) = 2 /\ a[1] = x /\ a[2] = y
  BY TupleIs
<1>2. IsSeq(b) /\ Len(b) = 1 /\ b[1] = z
  BY SingleSequence
<1>3. IsSeq(t) /\ Len(t) = 3 /\ t[1] = x /\ t[2] = y /\ t[3] = z
  BY TupleIs
<1> HIDE DEF a, b, t
<1>4. /\ IsSeq(a \o b) /\ Len(a \o b) = Len(a) + Len(b)
      /\ \A i \in 1..Len(a) : (a \o b)[i] = a[i]
      /\ \A i \in 1..Len(b) : (a \o b)[Len(a) + i] = b[i]
  <2>1. IsSeq(a)
    BY <1>1
  <2>2. IsSeq(b)
    BY <1>2
  <2> QED BY ONLY <2>1, <2>2, SequenceConcat
<1> DEFINE ab == a \o b
<1>5. IsSeq(ab) /\ Len(ab) = 3 /\ ab[1] = x /\ ab[2] = y /\ ab[3] = z
  <2>1. 1 \in 1..Len(a) /\ 2 \in 1..Len(a) /\ 1 \in 1..Len(b) /\ Len(a) + 1 = 3
    BY <1>1, <1>2
  <2> QED BY <1>1, <1>2, <1>4, <2>1
<1> HIDE DEF ab
<1>6. ab = t
  <2>1. \A i \in 1..3 : i = 1 \/ i = 2 \/ i = 3
    OBVIOUS
  <2> QED BY <1>3, <1>5, <2>1, SameSequence
<1> QED BY <1>6 DEF ab, a, b, t

LEMMA WidenedIs ==
  ASSUME NEW raw, NEW fields
  PROVE  /\ ~Has(fields, "zip64") => Widened(raw, fields) = <<raw>>
         /\ Has(fields, "zip64") /\ ~(Sent(raw, Len(raw)) > Len(DataOf(fields, "zip64")))
              => Widened(raw, fields) =
                   <<[k \in DOMAIN raw |-> IF raw[k] = Max32
                                           THEN DataOf(fields, "zip64")[Sent(raw, k)]
                                           ELSE raw[k]]>>
BY DEF Widened, Sent

\* Two or three values as their fields hold them, and the field that takes
\* those that are too large.
HoldsThree(u, c, o, fields) ==
  /\ (u > Max32 \/ c > Max32 \/ o > Max32) => /\ u # Max32 /\ c # Max32 /\ o # Max32
                                               /\ Has(fields, "zip64")
  /\ ~(u > Max32 \/ c > Max32 \/ o > Max32) => ~Has(fields, "zip64")
  /\ Has(fields, "zip64") =>
       DataOf(fields, "zip64") = Given(u > Max32, u) \o Given(c > Max32, c) \o Given(o > Max32, o)

ReadsThree(u, c, o, wide) ==
  wide # <<>> /\ wide[1][1] = u /\ wide[1][2] = c /\ wide[1][3] = o

LEMMA WidenedThree ==
  ASSUME NEW u \in Nat, NEW c \in Nat, NEW o \in Nat, NEW fields, HoldsThree(u, c, o, fields)
  PROVE  ReadsThree(u, c, o, Widened(<<Saturated(u), Saturated(c), Saturated(o)>>, fields))
<1> DEFINE raw == <<Saturated(u), Saturated(c), Saturated(o)>>
           wide == Widened(raw, fields)
           values == DataOf(fields, "zip64")
<1>0. Max32 \in Nat
  BY WidthsAssumption
<1>1. raw[1] = Saturated(u) /\ raw[2] = Saturated(c) /\ raw[3] = Saturated(o) /\ Len(raw) = 3
      /\ DOMAIN raw = {1, 2, 3}
  OBVIOUS
<1>a. /\ (u > Max32 \/ c > Max32 \/ o > Max32) => /\ u # Max32 /\ c # Max32 /\ o # Max32
                                                   /\ Has(fields, "zip64")
      /\ ~(u > Max32 \/ c > Max32 \/ o > Max32) => ~Has(fields, "zip64")
      /\ Has(fields, "zip64") => values =
           Given(u > Max32, u) \o Given(c > Max32, c) \o Given(o > Max32, o)
  BY DEF HoldsThree
<1> HIDE DEF raw
<1>2. CASE ~(u > Max32 \/ c > Max32 \/ o > Max32)
  <2>1. wide = <<raw>>
    BY <1>a, <1>2, WidenedIs
  <2>2. wide # <<>> /\ wide[1] = raw
    BY <2>1
  <2> QED BY <1>0, <1>1, <1>2, <2>2 DEF Saturated, raw, ReadsThree
<1>3. CASE u > Max32 \/ c > Max32 \/ o > Max32
  <2>1. u # Max32 /\ c # Max32 /\ o # Max32 /\ Has(fields, "zip64")
    BY <1>a, <1>3
  <2>2. values = Given(u > Max32, u) \o Given(c > Max32, c) \o Given(o > Max32, o)
    BY <1>a, <2>1
  <2> HIDE DEF values
  <2>3. /\ (u > Max32 => raw[1] = Max32) /\ (~(u > Max32) => raw[1] = u /\ raw[1] # Max32)
        /\ (c > Max32 => raw[2] = Max32) /\ (~(c > Max32) => raw[2] = c /\ raw[2] # Max32)
        /\ (o > Max32 => raw[3] = Max32) /\ (~(o > Max32) => raw[3] = o /\ raw[3] # Max32)
    BY <1>0, <1>1, <2>1 DEF Saturated
  <2> DEFINE s1 == Sent(raw, 1)
             s2 == Sent(raw, 2)
             s3 == Sent(raw, 3)
  <2>4. Sent(raw, 0) = 0 /\ 0 + 1 = 1 /\ 1 + 1 = 2 /\ 2 + 1 = 3
    BY SentNone
  <2>5. (u > Max32 => s1 = 1) /\ (~(u > Max32) => s1 = 0)
    BY <2>3, <2>4, SentNext
  <2>6. s1 \in Nat /\ (c > Max32 => s2 = s1 + 1) /\ (~(c > Max32) => s2 = s1)
    <3>1. /\ Sent(raw, 1) \in Nat
          /\ raw[1 + 1] = Max32 => Sent(raw, 1 + 1) = Sent(raw, 1) + 1
          /\ raw[1 + 1] # Max32 => Sent(raw, 1 + 1) = Sent(raw, 1)
      BY SentNext
    <3> QED BY <2>3, <2>4, <3>1
  <2>7. (o > Max32 => s3 = s2 + 1) /\ (~(o > Max32) => s3 = s2)
    <3>1. /\ raw[2 + 1] = Max32 => Sent(raw, 2 + 1) = Sent(raw, 2) + 1
          /\ raw[2 + 1] # Max32 => Sent(raw, 2 + 1) = Sent(raw, 2)
      BY SentNext
    <3> QED BY <2>3, <2>4, <3>1
  <2> HIDE DEF s1, s2, s3
  <2>8. /\ Len(values) = s3
        /\ u > Max32 => values[s1] = u
        /\ c > Max32 => values[s2] = c
        /\ o > Max32 => values[s3] = o
    <3>1. CASE u > Max32
      <4>1. CASE c > Max32
        <5>1. CASE o > Max32
          <6>1. values = <<u>> \o <<c>> \o <<o>>
            BY <2>2, <3>1, <4>1, <5>1 DEF Given
          <6>3. <<u>> \o <<c>> = <<u, c>>
            BY PairIs
          <6>4. <<u, c>> \o <<o>> = <<u, c, o>>
            BY TripleIs
          <6>2. values = <<u, c, o>>
            BY <6>1, <6>3, <6>4
          <6> QED BY <2>5, <2>6, <2>7, <3>1, <4>1, <5>1, <6>2
        <5>2. CASE ~(o > Max32)
          <6>1. values = <<u>> \o <<c>> \o <<>>
            BY <2>2, <3>1, <4>1, <5>2 DEF Given
          <6>2. values = <<u, c>>
            BY <6>1, PairIs, TripleIs
          <6> QED BY <2>5, <2>6, <2>7, <3>1, <4>1, <5>2, <6>2
        <5> QED BY <5>1, <5>2
      <4>2. CASE ~(c > Max32)
        <5>1. CASE o > Max32
          <6>1. values = <<u>> \o <<>> \o <<o>>
            BY <2>2, <3>1, <4>2, <5>1 DEF Given
          <6>2. values = <<u, o>>
            BY <6>1, PairIs, TripleIs
          <6> QED BY <2>5, <2>6, <2>7, <3>1, <4>2, <5>1, <6>2
        <5>2. CASE ~(o > Max32)
          <6>1. values = <<u>> \o <<>> \o <<>>
            BY <2>2, <3>1, <4>2, <5>2 DEF Given
          <6>2. values = <<u>>
            BY <6>1, PairIs, TripleIs
          <6> QED BY <2>5, <2>6, <2>7, <3>1, <4>2, <5>2, <6>2
        <5> QED BY <5>1, <5>2
      <4> QED BY <4>1, <4>2
    <3>2. CASE ~(u > Max32)
      <4>1. CASE c > Max32
        <5>1. CASE o > Max32
          <6>1. values = <<>> \o <<c>> \o <<o>>
            BY <2>2, <3>2, <4>1, <5>1 DEF Given
          <6>2. values = <<c, o>>
            BY <6>1, PairIs, TripleIs
          <6> QED BY <2>5, <2>6, <2>7, <3>2, <4>1, <5>1, <6>2
        <5>2. CASE ~(o > Max32)
          <6>1. values = <<>> \o <<c>> \o <<>>
            BY <2>2, <3>2, <4>1, <5>2 DEF Given
          <6>2. values = <<c>>
            BY <6>1, PairIs, TripleIs
          <6> QED BY <2>5, <2>6, <2>7, <3>2, <4>1, <5>2, <6>2
        <5> QED BY <5>1, <5>2
      <4>2. CASE ~(c > Max32)
        <5>1. o > Max32
          BY <1>3, <3>2, <4>2
        <5>2. values = <<>> \o <<>> \o <<o>>
          BY <2>2, <3>2, <4>2, <5>1 DEF Given
        <5>3. values = <<o>>
          BY <5>2, PairIs
        <5> QED BY <2>5, <2>6, <2>7, <3>2, <4>2, <5>1, <5>3
      <4> QED BY <4>1, <4>2
    <3> QED BY <3>1, <3>2
  <2> DEFINE w == [k \in DOMAIN raw |-> IF raw[k] = Max32 THEN values[Sent(raw, k)] ELSE raw[k]]
  <2>9. wide = <<w>>
    <3>1. ~(Sent(raw, Len(raw)) > Len(values))
      <4>1. s3 \in Nat
        BY <2>6, <2>7
      <4>2. Sent(raw, Len(raw)) = s3
        BY <1>1 DEF s3
      <4> QED BY <2>8, <4>1, <4>2
    <3> QED BY <2>1, <3>1, WidenedIs DEF values
  <2>10. w[1] = u /\ w[2] = c /\ w[3] = o
    BY <1>1, <2>3, <2>8 DEF s1, s2, s3
  <2> HIDE DEF w
  <2>11. wide # <<>> /\ wide[1] = w
    BY <2>9
  <2> QED BY <2>10, <2>11 DEF raw, ReadsThree
<1> QED BY <1>2, <1>3

HoldsTwo(u, c, fields) ==
  /\ u > Max32 <=> c > Max32
  /\ u > Max32 => Has(fields, "zip64") /\ DataOf(fields, "zip64") = <<u, c>>
  /\ ~(u > Max32) => ~Has(fields, "zip64")

ReadsTwo(u, c, wide) == wide # <<>> /\ wide[1][1] = u /\ wide[1][2] = c

LEMMA WidenedTwo ==
  ASSUME NEW u \in Nat, NEW c \in Nat, NEW fields, HoldsTwo(u, c, fields),
         NEW a, NEW b, u > Max32 => a = Max32 /\ b = Max32,
         ~(u > Max32) => a = u /\ b = c
  PROVE  ReadsTwo(u, c, Widened(<<a, b>>, fields))
<1> DEFINE raw == <<a, b>>
           wide == Widened(raw, fields)
           values == DataOf(fields, "zip64")
<1>0. Max32 \in Nat
  BY WidthsAssumption
<1>1. raw[1] = a /\ raw[2] = b /\ Len(raw) = 2 /\ DOMAIN raw = {1, 2}
  OBVIOUS
<1>a. /\ u > Max32 <=> c > Max32
      /\ u > Max32 => Has(fields, "zip64") /\ values = <<u, c>>
      /\ ~(u > Max32) => ~Has(fields, "zip64")
  BY DEF HoldsTwo
<1> HIDE DEF raw
<1>2. CASE ~(u > Max32)
  <2>1. wide = <<raw>>
    BY <1>a, <1>2, WidenedIs
  <2>2. wide # <<>> /\ wide[1] = raw
    BY <2>1
  <2> QED BY <1>0, <1>1, <1>2, <2>2 DEF raw, ReadsTwo
<1>3. CASE u > Max32
  <2>1. Has(fields, "zip64") /\ values = <<u, c>>
    BY <1>a, <1>3
  <2> HIDE DEF values
  <2>2. raw[1] = Max32 /\ raw[2] = Max32
    BY <1>1, <1>3
  <2>3. Sent(raw, 0) = 0 /\ 0 + 1 = 1 /\ 1 + 1 = 2
    BY SentNone
  <2>4. Sent(raw, 1) = 1
    BY <2>2, <2>3, SentNext
  <2>5. Sent(raw, 2) = 2
    <3>1. raw[1 + 1] = Max32 => Sent(raw, 1 + 1) = Sent(raw, 1) + 1
      BY SentNext
    <3> QED BY <2>2, <2>3, <2>4, <3>1
  <2> DEFINE w == [k \in DOMAIN raw |-> IF raw[k] = Max32 THEN values[Sent(raw, k)] ELSE raw[k]]
  <2>6. wide = <<w>>
    <3>1. ~(Sent(raw, Len(raw)) > Len(values))
      BY <1>1, <2>1, <2>5
    <3> QED BY <2>1, <3>1, WidenedIs DEF values
  <2>7. w[1] = u /\ w[2] = c
    BY <1>1, <2>1, <2>2, <2>4, <2>5
  <2> HIDE DEF w
  <2>8. wide # <<>> /\ wide[1] = w
    BY <2>6
  <2> QED BY <2>7, <2>8 DEF raw, ReadsTwo
<1> QED BY <1>2, <1>3

----------------------------------------------------------------------------
(* What a file was compressed and encrypted to.                            *)

RecordTags == {"local", "central", "eocd", "eocd64", "locator"}

Written1(cf) ==
  /\ IsSeq(cf.name) /\ IsSeq(cf.comment) /\ IsSeq(cf.data) /\ IsFields(cf.extra)
  /\ cf.comp = Len(cf.data) /\ cf.uncomp \in Nat
  /\ cf.method \in {"store", "deflate"} /\ cf.em \in Supported
  /\ \A k \in 1..Len(cf.data) : cf.data[k][1] \notin RecordTags

LEMMA FieldIs ==
  ASSUME NEW id, NEW data, NEW fields, fields = <<[id |-> id, data |-> data]>>
  PROVE  IsFields(fields) /\ Len(fields) = 1 /\ fields[1].id = id /\ fields[1].data = data
<1> DEFINE f == [id |-> id, data |-> data]
<1>1. f.id = id /\ f.data = data
  OBVIOUS
<1>2. f = [id |-> f.id, data |-> f.data]
  OBVIOUS
<1> HIDE DEF f
<1>3. fields = <<f>>
  BY DEF f
<1>4. IsSeq(fields) /\ Len(fields) = 1 /\ fields[1] = f
  BY <1>3, SingleSequence
<1>5. \A k \in 1..1 : k = 1
  OBVIOUS
<1> QED BY <1>1, <1>2, <1>4, <1>5 DEF IsFields

LEMMA NoFields == IsFields(<<>>) /\ Len(<<>>) = 0
BY EmptySequence DEF IsFields

\* The fields of three kinds: which are found, and which are left without some.
LEMMA ThreeKinds ==
  ASSUME NEW u, NEW a, NEW z, IsFields(u), IsFields(a), IsFields(z),
         \A k \in 1..Len(u) : u[k].id \notin {"aes", "zip64"},
         Len(a) =< 1, \A k \in 1..Len(a) : a[k].id = "aes",
         Len(z) =< 1, \A k \in 1..Len(z) : z[k].id = "zip64"
  PROVE  /\ IsFields(Three(u, a, z))
         /\ Len(a) = 0 => ~Has(Three(u, a, z), "aes")
         /\ Len(a) = 1 => /\ Has(Three(u, a, z), "aes")
                          /\ DataOf(Three(u, a, z), "aes") = a[1].data
         /\ Len(z) = 0 => ~Has(Three(u, a, z), "zip64")
         /\ Len(z) = 1 => /\ Has(Three(u, a, z), "zip64")
                          /\ DataOf(Three(u, a, z), "zip64") = z[1].data
         /\ Without(Three(u, a, z), {"aes", "zip64"}) = u
         /\ Without(Three(u, a, z), {"zip64"}) = u \o a
<1> DEFINE all == Three(u, a, z)
           l == Len(u)
           m == Len(a)
           n == Len(z)
<1>1. /\ IsFields(all) /\ Len(all) = l + m + n /\ l \in Nat /\ m \in Nat /\ n \in Nat
      /\ \A k \in 1..l : all[k] = u[k]
      /\ \A k \in 1..m : all[l + k] = a[k]
      /\ \A k \in 1..n : all[l + m + k] = z[k]
  BY ThreeIs
<1>2. IsSeq(all) /\ IsSeq(u) /\ IsSeq(a) /\ IsSeq(z)
  BY <1>1 DEF IsFields
<1>3. m =< 1 /\ n =< 1
  OBVIOUS
<1>4. /\ Without(all, {"aes", "zip64"}) = u
      /\ Without(all, {"zip64"}) = u \o a
  <2> DEFINE ids == {"aes", "zip64"}
             one == {"zip64"}
             ua == u \o a
  <2>1. IsSeq(ua)
    BY ONLY <1>2, ConcatLength
  <2>2. all = ua \o z
    BY DEF Three
  <2>3. \A k \in 1..Len(u) : u[k].id \notin ids /\ u[k].id \notin one
    OBVIOUS
  <2>4. \A k \in 1..Len(a) : a[k].id \in ids /\ a[k].id \notin one
    OBVIOUS
  <2>5. \A k \in 1..Len(z) : z[k].id \in ids /\ z[k].id \in one
    OBVIOUS
  <2> HIDE DEF ids, one
  <2>6. Without(u, ids) = u /\ Without(u, one) = u
    BY <1>2, <2>3, WithoutAll
  <2>7. Without(a, ids) = <<>> /\ Without(a, one) = a
    <3>1. Without(a, ids) = <<>>
      BY <1>2, <2>4, WithoutAny
    <3>2. Without(a, one) = a
      BY <1>2, <2>4, WithoutAll
    <3> QED BY <3>1, <3>2
  <2>8. Without(z, ids) = <<>> /\ Without(z, one) = <<>>
    BY <1>2, <2>5, WithoutAny
  <2>9. Without(ua, ids) = Without(u, ids) \o Without(a, ids)
    BY <1>2, WithoutConcat
  <2>10. Without(ua, one) = Without(u, one) \o Without(a, one)
    BY <1>2, WithoutConcat
  <2>11. Without(ua, ids) = u
    BY <1>2, <2>6, <2>7, <2>9, EmptyConcat
  <2>12. Without(ua, one) = ua
    BY <2>6, <2>7, <2>10
  <2> HIDE DEF ua
  <2>13. Without(all, ids) = Without(ua, ids) \o Without(z, ids)
    BY <1>2, <2>1, <2>2, WithoutConcat
  <2>14. Without(all, one) = Without(ua, one) \o Without(z, one)
    BY <1>2, <2>1, <2>2, WithoutConcat
  <2>15. Without(all, ids) = u
    BY <1>2, <2>8, <2>11, <2>13, EmptyConcat
  <2>16. Without(all, one) = ua
    BY <2>1, <2>8, <2>12, <2>14, EmptyConcat
  <2> QED BY <2>15, <2>16 DEF ids, one, ua
<1>5. /\ \A k \in 1..l : u[k].id # "aes" /\ u[k].id # "zip64"
      /\ \A k \in 1..m : a[k].id = "aes"
      /\ \A k \in 1..n : z[k].id = "zip64"
  OBVIOUS
<1> HIDE DEF all, l, m, n
<1>6. ASSUME NEW k \in 1..Len(all)
      PROVE  /\ all[k].id = "aes" => m = 1 /\ k = l + 1
             /\ all[k].id = "zip64" => n = 1 /\ k = l + m + 1
  <2>1. CASE k \in 1..l
    BY <1>1, <1>5, <2>1
  <2>2. CASE k > l /\ k =< l + m
    <3>1. m = 1 /\ k = l + 1
      BY <1>1, <1>3, <2>2
    <3>2. all[k].id = "aes"
      <4>1. 1 \in 1..m
        BY <3>1
      <4> QED BY <1>1, <1>5, <3>1, <4>1
    <3> QED BY <3>1, <3>2
  <2>3. CASE k > l + m
    <3>1. n = 1 /\ k = l + m + 1
      BY <1>1, <1>3, <2>3
    <3>2. all[k].id = "zip64"
      <4>1. 1 \in 1..n
        BY <3>1
      <4> QED BY <1>1, <1>5, <3>1, <4>1
    <3> QED BY <3>1, <3>2
  <2> QED BY <1>1, <2>1, <2>2, <2>3
<1>7. ASSUME m = 0 PROVE ~Has(all, "aes")
  BY <1>2, <1>6, <1>7, HasNot
<1>8. ASSUME n = 0 PROVE ~Has(all, "zip64")
  BY <1>2, <1>6, <1>8, HasNot
<1>9. ASSUME m = 1 PROVE Has(all, "aes") /\ DataOf(all, "aes") = a[1].data
  <2> DEFINE k == l + 1
  <2>1. k \in 1..Len(all) /\ 1 \in 1..m
    BY <1>1, <1>9
  <2>2. all[k] = a[1] /\ all[k].id = "aes"
    BY <1>1, <1>5, <2>1
  <2>3. \A j \in 1..Len(all) : all[j].id = "aes" => j = k
    BY <1>6
  <2> HIDE DEF k
  <2>4. Has(all, "aes") /\ DataOf(all, "aes") = all[k].data
    BY <1>2, <2>1, <2>2, <2>3, DataOfIs
  <2> QED BY <2>2, <2>4
<1>10. ASSUME n = 1 PROVE Has(all, "zip64") /\ DataOf(all, "zip64") = z[1].data
  <2> DEFINE k == l + m + 1
  <2>1. k \in 1..Len(all) /\ 1 \in 1..n
    BY <1>1, <1>10
  <2>2. all[k] = z[1] /\ all[k].id = "zip64"
    BY <1>1, <1>5, <2>1
  <2>3. \A j \in 1..Len(all) : all[j].id = "zip64" => j = k
    BY <1>6
  <2> HIDE DEF k
  <2>4. Has(all, "zip64") /\ DataOf(all, "zip64") = all[k].data
    BY <1>2, <2>1, <2>2, <2>3, DataOfIs
  <2> QED BY <2>2, <2>4
<1> QED BY <1>1, <1>4, <1>7, <1>8, <1>9, <1>10 DEF all, m, n

\* The fields of an entry, in either of its records.
ZipField(zip64, values) == Given(zip64 /\ values # <<>>, [id |-> "zip64", data |-> values])

ExtraShape(cf, values, z, e) ==
  /\ IsFields(e)
  /\ ~IsAes(cf) => ~Has(e, "aes")
  /\ IsAes(cf) => /\ Has(e, "aes")
                  /\ DataOf(e, "aes") = <<2, aes_strength[cf.em], cf.method>>
  /\ z # <<>> => Has(e, "zip64") /\ DataOf(e, "zip64") = values
  /\ z = <<>> => ~Has(e, "zip64")
  /\ Without(e, {"aes", "zip64"}) = UserFields(cf)
  /\ e = Without(e, {"zip64"}) \o z

LEMMA ExtraIs ==
  ASSUME NEW cf, Written1(cf), NEW values,
         NEW z \in {<<>>, <<[id |-> "zip64", data |-> values]>>}, NEW e,
         e = Three(UserFields(cf), aes_extra_field(cf), z)
  PROVE  ExtraShape(cf, values, z, e)
<1> DEFINE u == UserFields(cf)
           a == aes_extra_field(cf)
<1>1. e = Three(u, a, z)
  OBVIOUS
<1>2. IsFields(u) /\ \A k \in 1..Len(u) : u[k].id \notin {"aes", "zip64"}
  <2> DEFINE ids == {"aes", "zip64"}
             x == cf.extra
  <2>1. IsFields(x)
    BY DEF Written1
  <2>2. IsSeq(x) /\ u = Without(x, ids)
    BY <2>1 DEF IsFields, UserFields
  <2> HIDE DEF ids, x, u
  <2>3. IsSeq(u) /\ \A k \in 1..Len(u) : \E i \in 1..Len(x) : u[k] = x[i] /\ x[i].id \notin ids
    BY <2>2, WithoutIs
  <2>4. ASSUME NEW k \in 1..Len(u)
        PROVE  u[k] = [id |-> u[k].id, data |-> u[k].data] /\ u[k].id \notin ids
    <3>1. PICK i \in 1..Len(x) : u[k] = x[i] /\ x[i].id \notin ids
      BY <2>3
    <3>2. x[i] = [id |-> x[i].id, data |-> x[i].data]
      BY <2>1 DEF IsFields
    <3> QED BY <3>1, <3>2
  <2> QED BY <2>3, <2>4 DEF IsFields, ids
<1> HIDE DEF u
<1>3. /\ IsFields(a) /\ Len(a) =< 1 /\ \A k \in 1..Len(a) : a[k].id = "aes"
      /\ ~IsAes(cf) => Len(a) = 0
      /\ IsAes(cf) => Len(a) = 1 /\ a[1].data = <<2, aes_strength[cf.em], cf.method>>
  <2>1. CASE ~IsAes(cf)
    <3>1. a = <<>>
      BY <2>1 DEF aes_extra_field, Given
    <3> QED BY <2>1, <3>1, NoFields
  <2>2. CASE IsAes(cf)
    <3> DEFINE data == <<2, aes_strength[cf.em], cf.method>>
    <3>1. a = <<[id |-> "aes", data |-> data]>>
      BY <2>2 DEF aes_extra_field, Given
    <3> HIDE DEF data, a
    <3>2. IsFields(a) /\ Len(a) = 1 /\ a[1].id = "aes" /\ a[1].data = data
      BY <3>1, FieldIs
    <3>3. \A k \in 1..1 : k = 1
      OBVIOUS
    <3> QED BY <2>2, <3>2, <3>3 DEF data
  <2> QED BY <2>1, <2>2
<1> HIDE DEF a
<1>4. /\ IsFields(z) /\ Len(z) =< 1 /\ \A k \in 1..Len(z) : z[k].id = "zip64"
      /\ z = <<>> => Len(z) = 0
      /\ z # <<>> => Len(z) = 1 /\ z[1].data = values
  <2>1. CASE z = <<>>
    BY <2>1, NoFields
  <2>2. CASE z = <<[id |-> "zip64", data |-> values]>>
    <3>2. IsFields(z) /\ Len(z) = 1 /\ z[1].id = "zip64" /\ z[1].data = values
      BY <2>2, FieldIs
    <3>3. \A k \in 1..1 : k = 1
      OBVIOUS
    <3>4. z # <<>>
      BY <3>2, EmptySequence
    <3> QED BY <3>2, <3>3, <3>4
  <2> QED BY <2>1, <2>2
<1>5. /\ IsFields(e)
      /\ Len(a) = 0 => ~Has(e, "aes")
      /\ Len(a) = 1 => Has(e, "aes") /\ DataOf(e, "aes") = a[1].data
      /\ Len(z) = 0 => ~Has(e, "zip64")
      /\ Len(z) = 1 => Has(e, "zip64") /\ DataOf(e, "zip64") = z[1].data
      /\ Without(e, {"aes", "zip64"}) = u
      /\ Without(e, {"zip64"}) = u \o a
  <2>1. \A k \in 1..Len(u) : u[k].id \notin {"aes", "zip64"}
    BY <1>2
  <2>2. IsFields(u) /\ IsFields(a) /\ IsFields(z) /\ Len(a) =< 1 /\ Len(z) =< 1
    BY <1>2, <1>3, <1>4
  <2>3. \A k \in 1..Len(a) : a[k].id = "aes"
    BY <1>3
  <2>4. \A k \in 1..Len(z) : z[k].id = "zip64"
    BY <1>4
  <2> DEFINE t == Three(u, a, z)
  <2>5. /\ IsFields(t)
        /\ Len(a) = 0 => ~Has(t, "aes")
        /\ Len(a) = 1 => Has(t, "aes") /\ DataOf(t, "aes") = a[1].data
        /\ Len(z) = 0 => ~Has(t, "zip64")
        /\ Len(z) = 1 => Has(t, "zip64") /\ DataOf(t, "zip64") = z[1].data
        /\ Without(t, {"aes", "zip64"}) = u
        /\ Without(t, {"zip64"}) = u \o a
    BY ONLY <2>1, <2>2, <2>3, <2>4, ThreeKinds
  <2> QED BY <1>1, <2>5
<1>6. e = Without(e, {"zip64"}) \o z
  BY <1>1, <1>5 DEF Three
<1>7. Without(e, {"aes", "zip64"}) = UserFields(cf)
  BY <1>5 DEF u
<1> QED BY <1>3, <1>4, <1>5, <1>6, <1>7 DEF ExtraShape

----------------------------------------------------------------------------
(* Records are read as they were written.                                  *)

CentralExtra(cf, offset) ==
  build_extra(cf, needs_zip64_sizes(cf) \/ offset > Max32, TRUE, offset)

CentralFixed(cf, offset) ==
  [version |-> VersionNeeded(cf, needs_zip64_sizes(cf) \/ offset > Max32),
   flags |-> Flags(cf), method |-> on_disk_method(cf), stamp |-> cf.stamp,
   crc |-> StoredCrc(cf), attrs |-> cf.attrs,
   comp |-> Saturated(cf.comp), uncomp |-> Saturated(cf.uncomp),
   offset |-> Saturated(offset),
   nameLen |-> Wrap16(Len(cf.name)), extraLen |-> Len(CentralExtra(cf, offset)),
   commentLen |-> Len(cf.comment)]

CentralHead(cf, offset) ==
  HeadCells(<<"central", CentralFixed(cf, offset)>>, cf.name, CentralExtra(cf, offset))

LEMMA CentralIs ==
  ASSUME NEW cf, NEW offset
  PROVE  write_central_entry(cf, offset) = CentralHead(cf, offset) \o Texts("comment", cf.comment)
BY DEF write_central_entry, CentralHead, CentralFixed, CentralExtra, HeadCells

LocalExtra(cf) == build_extra(cf, needs_zip64_sizes(cf), FALSE, 0)

LocalFixed(cf) ==
  [version |-> VersionNeeded(cf, needs_zip64_sizes(cf)), flags |-> Flags(cf),
   method |-> on_disk_method(cf), stamp |-> cf.stamp,
   crc |-> StoredCrc(cf),
   comp |-> IF needs_zip64_sizes(cf) THEN Max32 ELSE cf.comp,
   uncomp |-> IF needs_zip64_sizes(cf) THEN Max32 ELSE cf.uncomp,
   nameLen |-> Wrap16(Len(cf.name)), extraLen |-> Len(LocalExtra(cf))]

LEMMA LocalIs ==
  ASSUME NEW cf
  PROVE  write_local_header(cf) = HeadCells(<<"local", LocalFixed(cf)>>, cf.name, LocalExtra(cf))
BY DEF write_local_header, LocalFixed, LocalExtra, HeadCells

\* What the reader makes of an entry.
DirentOf(cf, offset) ==
  [name |-> cf.name, comment |-> cf.comment,
   extra |-> CentralExtra(cf, offset),
   version |-> VersionNeeded(cf, needs_zip64_sizes(cf) \/ offset > Max32),
   flags |-> Flags(cf), stamp |-> cf.stamp, attrs |-> cf.attrs, crc |-> StoredCrc(cf),
   uncomp |-> cf.uncomp, comp |-> cf.comp, offset |-> offset,
   method |-> cf.method, em |-> cf.em, crcValid |-> ~IsAes(cf)]

LEMMA StrengthIs ==
  ASSUME NEW em \in AesMethods
  PROVE  aes_method_from_strength(aes_strength[em]) = em
<1>1. CASE em = "aes128"
  <2>1. aes_strength[em] = 1
    BY <1>1 DEF aes_strength, AesMethods
  <2> QED BY <1>1, <2>1 DEF aes_method_from_strength
<1>2. CASE em = "aes192"
  <2>1. aes_strength[em] = 2
    BY <1>2 DEF aes_strength, AesMethods
  <2> QED BY <1>2, <2>1 DEF aes_method_from_strength
<1>3. CASE em = "aes256"
  <2>1. aes_strength[em] = 3
    BY <1>3 DEF aes_strength, AesMethods
  <2> QED BY <1>3, <2>1 DEF aes_method_from_strength
<1> QED BY <1>1, <1>2, <1>3 DEF AesMethods

LEMMA CipherIs ==
  ASSUME NEW cf, Written1(cf), NEW fixed, fixed.method = on_disk_method(cf),
         fixed.flags = Flags(cf), NEW e,
         IsAes(cf) => Has(e, "aes") /\ DataOf(e, "aes") = <<2, aes_strength[cf.em], cf.method>>
  PROVE  Ciphered(fixed, e) = [method |-> cf.method, em |-> cf.em, crcValid |-> ~IsAes(cf)]
<1>1. CASE IsAes(cf)
  <2> DEFINE aes == DataOf(e, "aes")
  <2>1. fixed.method = "winzip_aes"
    BY <1>1 DEF on_disk_method
  <2>2. aes[1] = 2 /\ aes[2] = aes_strength[cf.em] /\ aes[3] = cf.method
    BY <1>1
  <2>3. cf.em \in AesMethods /\ cf.em # "unknown"
    BY <1>1 DEF IsAes, AesMethods
  <2> HIDE DEF aes
  <2>4. aes_method_from_strength(aes[2]) = cf.em
    BY <2>2, <2>3, StrengthIs
  <2>5. parse_aes_extra(e) = [method |-> aes[3], em |-> cf.em, crcValid |-> aes[1] = 1]
    BY <1>1, <2>3, <2>4 DEF parse_aes_extra, aes
  <2>6. (aes[1] = 1) = FALSE /\ (~IsAes(cf)) = FALSE
    BY <1>1, <2>2
  <2>7. parse_aes_extra(e) = [method |-> cf.method, em |-> cf.em, crcValid |-> FALSE]
    BY <2>2, <2>5, <2>6
  <2> QED BY <2>1, <2>6, <2>7 DEF Ciphered
<1>2. CASE ~IsAes(cf)
  <2>1. fixed.method = cf.method /\ cf.method # "winzip_aes"
    BY <1>2 DEF on_disk_method, Written1
  <2>2. cf.em \in {"none", "trad"}
    BY <1>2 DEF Written1, Supported, IsAes
  <2>3. (IF "encrypted" \in fixed.flags THEN "trad" ELSE "none") = cf.em
    <3>1. CASE cf.em = "none"
      <4>1. fixed.flags = {}
        BY <1>2, <3>1 DEF Flags
      <4> QED BY <3>1, <4>1
    <3>2. CASE cf.em = "trad"
      <4>1. "encrypted" \in fixed.flags
        BY <1>2, <3>2 DEF Flags
      <4> QED BY <3>2, <4>1
    <3> QED BY <2>2, <3>1, <3>2
  <2>4. (~IsAes(cf)) = TRUE
    BY <1>2
  <2>5. Ciphered(fixed, e)
          = [method |-> fixed.method, crcValid |-> TRUE,
             em |-> IF "encrypted" \in fixed.flags THEN "trad" ELSE "none"]
    BY <2>1, Zenon DEF Ciphered
  <2>6. [method |-> fixed.method, crcValid |-> TRUE,
         em |-> IF "encrypted" \in fixed.flags THEN "trad" ELSE "none"]
          = [method |-> cf.method, em |-> cf.em, crcValid |-> TRUE]
    BY ONLY <2>1, <2>3
  <2> QED BY ONLY <2>4, <2>5, <2>6
<1> QED BY <1>1, <1>2

LEMMA ParseCentralIs ==
  ASSUME NEW cells, NEW at, NEW fixed, NEW name, NEW extra, NEW comment,
         Tag(cells, at) = "central", fixed = cells[at + 1][2],
         name = Plain(Piece(cells, at + 1, fixed.nameLen)),
         parse_extra_fields(Piece(cells, at + 1 + fixed.nameLen, fixed.extraLen)) = <<extra>>,
         comment = Plain(Piece(cells, at + 1 + fixed.nameLen + fixed.extraLen, fixed.commentLen)),
         ~(at + 1 + fixed.nameLen + fixed.extraLen + fixed.commentLen > Len(cells)),
         Widened(<<fixed.uncomp, fixed.comp, fixed.offset>>, extra) # <<>>,
         ~Traverses(name)
  PROVE  LET wide == Widened(<<fixed.uncomp, fixed.comp, fixed.offset>>, extra)
             cipher == Ciphered(fixed, extra)
         IN  parse_central(cells, at) =
               [error |-> "none",
                next |-> at + 1 + fixed.nameLen + fixed.extraLen + fixed.commentLen,
                dirent |->
                  [name |-> name, comment |-> comment, extra |-> extra,
                   version |-> fixed.version, flags |-> fixed.flags, stamp |-> fixed.stamp,
                   attrs |-> fixed.attrs, crc |-> fixed.crc,
                   uncomp |-> wide[1][1], comp |-> wide[1][2], offset |-> wide[1][3],
                   method |-> cipher.method, em |-> cipher.em, crcValid |-> cipher.crcValid]]
<1> DEFINE f == cells[at + 1][2]
           extraAt == at + 1 + f.nameLen
           commentAt == extraAt + f.extraLen
           next == commentAt + f.commentLen
           n == Plain(Piece(cells, at + 1, f.nameLen))
           fields == parse_extra_fields(Piece(cells, extraAt, f.extraLen))
           wide == Widened(<<f.uncomp, f.comp, f.offset>>, fields[1])
           cipher == Ciphered(f, fields[1])
           parsed == [error |-> "none", next |-> next,
              dirent |->
                [name |-> n, comment |-> Plain(Piece(cells, commentAt, f.commentLen)),
                 extra |-> fields[1], version |-> f.version,
                 flags |-> f.flags, stamp |-> f.stamp,
                 attrs |-> f.attrs, crc |-> f.crc,
                 uncomp |-> wide[1][1], comp |-> wide[1][2],
                 offset |-> wide[1][3], method |-> cipher.method,
                 em |-> cipher.em, crcValid |-> cipher.crcValid]]
<1>1. parse_central(cells, at) =
        IF Tag(cells, at) # "central" THEN Error("nozip")
        ELSE IF next > Len(cells) THEN Error("eof")
        ELSE IF fields = <<>> \/ wide = <<>> \/ Traverses(n) THEN Error("incons")
        ELSE parsed
  BY DEF parse_central
<1>2. f = fixed /\ fields = <<extra>> /\ fields # <<>> /\ fields[1] = extra /\ n = name
  OBVIOUS
<1> DEFINE p == fields[1]
<1>3. p = extra
  BY <1>2
<1>4. wide = Widened(<<fixed.uncomp, fixed.comp, fixed.offset>>, extra)
  BY <1>2, <1>3
<1>5. cipher = Ciphered(fixed, extra)
  BY <1>2, <1>3
<1>6. next = at + 1 + fixed.nameLen + fixed.extraLen + fixed.commentLen
  BY <1>2
<1>7. comment = Plain(Piece(cells, commentAt, f.commentLen))
  BY <1>2
<1>8. ~(next > Len(cells)) /\ ~(fields = <<>> \/ wide = <<>> \/ Traverses(n))
  BY <1>2, <1>4, <1>6
<1>9. parse_central(cells, at) = parsed
  <2> HIDE DEF f, extraAt, commentAt, next, n, fields, wide, cipher, parsed, p
  <2> QED BY <1>1, <1>8
<1> DEFINE co == Plain(Piece(cells, commentAt, f.commentLen))
<1> HIDE DEF extraAt, commentAt, next, n, fields, wide, cipher, co
<1>10. parsed = [error |-> "none", next |-> next,
              dirent |->
                [name |-> n, comment |-> co, extra |-> p, version |-> f.version,
                 flags |-> f.flags, stamp |-> f.stamp,
                 attrs |-> f.attrs, crc |-> f.crc,
                 uncomp |-> wide[1][1], comp |-> wide[1][2],
                 offset |-> wide[1][3], method |-> cipher.method,
                 em |-> cipher.em, crcValid |-> cipher.crcValid]]
  BY DEF co
<1> HIDE DEF f, p, parsed
<1>11. co = comment
  BY <1>7 DEF co
<1> QED BY <1>2, <1>3, <1>4, <1>5, <1>6, <1>9, <1>10, <1>11, SMTT(30)

LEMMA ParseLocalIs ==
  ASSUME NEW cells, NEW at, NEW fixed, NEW name, NEW extra,
         Tag(cells, at) = "local", fixed = cells[at + 1][2],
         name = Plain(Piece(cells, at + 1, fixed.nameLen)),
         parse_extra_fields(Piece(cells, at + 1 + fixed.nameLen, fixed.extraLen)) = <<extra>>,
         Widened(<<fixed.uncomp, fixed.comp>>, extra) # <<>>
  PROVE  LET wide == Widened(<<fixed.uncomp, fixed.comp>>, extra)
             cipher == Ciphered(fixed, extra)
         IN  parse_local(cells, at) =
               [error |-> "none", data |-> at + 1 + fixed.nameLen + fixed.extraLen,
                name |-> name, uncomp |-> wide[1][1], comp |-> wide[1][2],
                method |-> cipher.method, em |-> cipher.em]
<1> DEFINE fields == parse_extra_fields(Piece(cells, at + 1 + fixed.nameLen, fixed.extraLen))
<1>1. fields # <<>> /\ fields[1] = extra
  OBVIOUS
<1> QED BY <1>1 DEF parse_local

\* No field of the entry is exactly the sentinel while another exceeds it.
NotAtTheSentinel(cf, offset) ==
  (cf.uncomp > Max32 \/ cf.comp > Max32 \/ offset > Max32)
    => cf.uncomp # Max32 /\ cf.comp # Max32 /\ offset # Max32

LEMMA Wrapped ==
  ASSUME NEW n \in Nat, n =< Max16
  PROVE  Wrap16(n) = n
<1>1. Max16 \in Nat
  BY WidthsAssumption
<1> QED BY <1>1 DEF Wrap16

CentralZip64(cf, offset) == needs_zip64_sizes(cf) \/ offset > Max32

CentralValues(cf, offset) == Zip64Values(cf, TRUE, offset)
CentralField(cf, offset) == ZipField(CentralZip64(cf, offset), CentralValues(cf, offset))

LEMMA CentralExtraIs ==
  ASSUME NEW cf, Written1(cf), NEW offset
  PROVE  ExtraShape(cf, CentralValues(cf, offset), CentralField(cf, offset),
                    CentralExtra(cf, offset))
<1> DEFINE e == CentralExtra(cf, offset)
           values == CentralValues(cf, offset)
           z == CentralField(cf, offset)
<1>1. e = Three(UserFields(cf), aes_extra_field(cf), z)
  BY DEF CentralExtra, CentralZip64, CentralField, CentralValues, build_extra, ZipField, Three
<1>2. z \in {<<>>, <<[id |-> "zip64", data |-> values]>>}
  BY DEF CentralField, ZipField, Given
<1> HIDE DEF e, z, values
<1>3. ExtraShape(cf, values, z, e)
  BY <1>1, <1>2, ExtraIs
<1> QED BY <1>3 DEF e, z, values

LEMMA LocalExtraIs ==
  ASSUME NEW cf, Written1(cf)
  PROVE  ExtraShape(cf, Zip64Values(cf, FALSE, 0),
                    ZipField(needs_zip64_sizes(cf), Zip64Values(cf, FALSE, 0)),
                    LocalExtra(cf))
<1> DEFINE e == LocalExtra(cf)
           values == Zip64Values(cf, FALSE, 0)
           z == ZipField(needs_zip64_sizes(cf), values)
<1>1. e = Three(UserFields(cf), aes_extra_field(cf), z)
  BY DEF LocalExtra, build_extra, ZipField, Three
<1>2. z \in {<<>>, <<[id |-> "zip64", data |-> values]>>}
  BY DEF ZipField, Given
<1> HIDE DEF e, z, values
<1>3. ExtraShape(cf, values, z, e)
  BY <1>1, <1>2, ExtraIs
<1> QED BY <1>3 DEF e, z, values

LEMMA CentralLength ==
  ASSUME NEW cf, Written1(cf), NEW offset
  PROVE  /\ IsFields(CentralExtra(cf, offset)) /\ IsSeq(write_central_entry(cf, offset))
         /\ Len(write_central_entry(cf, offset))
              = 1 + Len(cf.name) + Len(CentralExtra(cf, offset)) + Len(cf.comment)
         /\ Len(cf.name) \in Nat /\ Len(CentralExtra(cf, offset)) \in Nat
         /\ Len(cf.comment) \in Nat
<1> DEFINE e == CentralExtra(cf, offset)
           h == CentralHead(cf, offset)
           c == Texts("comment", cf.comment)
<1>1. IsFields(e)
  BY CentralExtraIs DEF ExtraShape
<1>2. IsSeq(cf.name) /\ IsSeq(cf.comment)
  BY DEF Written1
<1>3. IsSeq(h) /\ Len(h) = 1 + Len(cf.name) + Len(e) /\ Len(cf.name) \in Nat /\ Len(e) \in Nat
  BY <1>1, <1>2, HeadIs DEF CentralHead
<1>4. IsSeq(c) /\ Len(c) = Len(cf.comment) /\ Len(cf.comment) \in Nat
  BY <1>2, TextsAre, SequenceIs
<1> HIDE DEF h, c, e
<1>5. IsSeq(h \o c) /\ Len(h \o c) = Len(h) + Len(c)
  BY ONLY <1>3, <1>4, ConcatLength
<1>6. write_central_entry(cf, offset) = h \o c
  BY CentralIs DEF h, c
<1> QED BY <1>1, <1>3, <1>4, <1>5, <1>6 DEF e

LEMMA LocalLength ==
  ASSUME NEW cf, Written1(cf)
  PROVE  /\ IsFields(LocalExtra(cf)) /\ IsSeq(write_local_header(cf))
         /\ Len(write_local_header(cf)) = 1 + Len(cf.name) + Len(LocalExtra(cf))
         /\ Len(cf.name) \in Nat /\ Len(LocalExtra(cf)) \in Nat
<1> DEFINE e == LocalExtra(cf)
<1>1. IsFields(e)
  BY LocalExtraIs DEF ExtraShape
<1>2. IsSeq(cf.name)
  BY DEF Written1
<1> HIDE DEF e
<1>3. /\ IsSeq(HeadCells(<<"local", LocalFixed(cf)>>, cf.name, e))
      /\ Len(HeadCells(<<"local", LocalFixed(cf)>>, cf.name, e)) = 1 + Len(cf.name) + Len(e)
      /\ Len(cf.name) \in Nat /\ Len(e) \in Nat
  BY <1>1, <1>2, HeadIs
<1> QED BY <1>1, <1>3, LocalIs DEF e

\* Which values the ZIP64 field has, if there is one.
LEMMA ZipValues ==
  ASSUME NEW u \in Nat, NEW c \in Nat, NEW o \in Nat,
         NEW values, values = Given(u > Max32, u) \o Given(c > Max32, c) \o Given(o > Max32, o)
  PROVE  /\ (u > Max32 \/ c > Max32 \/ o > Max32) => values # <<>>
         /\ ~(u > Max32 \/ c > Max32 \/ o > Max32) => values = <<>>
<1> DEFINE a == Given(u > Max32, u)
           b == Given(c > Max32, c)
           d == Given(o > Max32, o)
<1>1. /\ IsSeq(a) /\ (u > Max32 => Len(a) = 1) /\ (~(u > Max32) => Len(a) = 0 /\ a = <<>>)
  BY SingleSequence, EmptySequence DEF Given
<1>2. /\ IsSeq(b) /\ (c > Max32 => Len(b) = 1) /\ (~(c > Max32) => Len(b) = 0 /\ b = <<>>)
  BY SingleSequence, EmptySequence DEF Given
<1>3. /\ IsSeq(d) /\ (o > Max32 => Len(d) = 1) /\ (~(o > Max32) => Len(d) = 0 /\ d = <<>>)
  BY SingleSequence, EmptySequence DEF Given
<1> HIDE DEF a, b, d
<1>4. IsSeq(a \o b) /\ Len(a \o b) = Len(a) + Len(b)
  BY ONLY <1>1, <1>2, ConcatLength
<1>5. Len((a \o b) \o d) = Len(a \o b) + Len(d)
  BY ONLY <1>3, <1>4, ConcatLength
<1>6. values = (a \o b) \o d
  BY DEF a, b, d
<1>7. Len(<<>>) = 0
  BY EmptySequence
<1>8. ASSUME u > Max32 \/ c > Max32 \/ o > Max32 PROVE values # <<>>
  BY <1>1, <1>2, <1>3, <1>4, <1>5, <1>6, <1>7, <1>8
<1>9. ASSUME ~(u > Max32 \/ c > Max32 \/ o > Max32) PROVE values = <<>>
  <2>1. a = <<>> /\ b = <<>> /\ d = <<>>
    BY <1>1, <1>2, <1>3, <1>9
  <2>2. <<>> \o <<>> = <<>>
    BY EmptySequence, EmptyConcat
  <2> QED BY <1>6, <2>1, <2>2
<1> QED BY <1>8, <1>9

LEMMA CentralReads ==
  ASSUME NEW cells, IsSeq(cells), NEW at \in Nat, NEW cf, Written1(cf), NEW offset \in Nat,
         Lies(cells, at, write_central_entry(cf, offset)),
         Len(cf.name) =< Max16, ~Traverses(cf.name), NotAtTheSentinel(cf, offset)
  PROVE  parse_central(cells, at) =
           [error |-> "none", next |-> at + Len(write_central_entry(cf, offset)),
            dirent |-> DirentOf(cf, offset)]
<1> DEFINE name == cf.name
           comment == cf.comment
           zip64 == CentralZip64(cf, offset)
           e == CentralExtra(cf, offset)
           fixed == CentralFixed(cf, offset)
           x == <<"central", fixed>>
           h == CentralHead(cf, offset)
           t == Texts("comment", comment)
           values == CentralValues(cf, offset)
<1>1. Max32 \in Nat /\ Max16 \in Nat
  BY WidthsAssumption
<1>2. IsSeq(name) /\ IsSeq(comment) /\ cf.comp \in Nat /\ cf.uncomp \in Nat
  BY SequenceIs DEF Written1
<1>3. /\ IsFields(e) /\ Len(name) \in Nat /\ Len(e) \in Nat /\ Len(comment) \in Nat
      /\ Len(write_central_entry(cf, offset)) = 1 + Len(name) + Len(e) + Len(comment)
  BY CentralLength
<1>4. Wrap16(Len(name)) = Len(name)
  BY <1>3, Wrapped
<1>5. /\ fixed.version = VersionNeeded(cf, zip64) /\ fixed.flags = Flags(cf)
      /\ fixed.method = on_disk_method(cf) /\ fixed.stamp = cf.stamp
      /\ fixed.crc = StoredCrc(cf) /\ fixed.attrs = cf.attrs
      /\ fixed.comp = Saturated(cf.comp) /\ fixed.uncomp = Saturated(cf.uncomp)
      /\ fixed.offset = Saturated(offset) /\ fixed.nameLen = Wrap16(Len(name))
      /\ fixed.extraLen = Len(e) /\ fixed.commentLen = Len(comment)
  BY DEF CentralFixed, CentralZip64
<1>6. /\ ~IsAes(cf) => ~Has(e, "aes")
      /\ IsAes(cf) => /\ Has(e, "aes")
                      /\ DataOf(e, "aes") = <<2, aes_strength[cf.em], cf.method>>
      /\ zip64 /\ values # <<>> => Has(e, "zip64") /\ DataOf(e, "zip64") = values
      /\ ~(zip64 /\ values # <<>>) => ~Has(e, "zip64")
  <2> DEFINE z == CentralField(cf, offset)
  <2>1. ExtraShape(cf, values, z, e)
    BY CentralExtraIs
  <2>2. (zip64 /\ values # <<>> => z # <<>>) /\ (~(zip64 /\ values # <<>>) => z = <<>>)
    BY DEF CentralField, ZipField, Given
  <2> HIDE DEF e, zip64, values, z
  <2> QED BY <2>1, <2>2 DEF ExtraShape
<1>7. values = Given(cf.uncomp > Max32, cf.uncomp) \o Given(cf.comp > Max32, cf.comp)
                 \o Given(offset > Max32, offset)
  BY DEF CentralValues, Zip64Values
<1>8. zip64 <=> (cf.uncomp > Max32 \/ cf.comp > Max32 \/ offset > Max32)
  BY DEF needs_zip64_sizes, CentralZip64
<1>9. /\ IsSeq(h) /\ Len(h) = 1 + Len(name) + Len(e)
  BY <1>2, <1>3, HeadIs DEF CentralHead
<1>10. IsSeq(t) /\ Len(t) = Len(comment) /\ Plain(t) = comment
  BY <1>2, TextsAre
<1>11. Lies(cells, at, h \o t)
  BY CentralIs
<1>0. Len(name) =< Max16 /\ ~Traverses(name)
  OBVIOUS
<1> HIDE DEF e, fixed, zip64, values
<1>12. x[1] = "central" /\ x[2] = fixed
  OBVIOUS
<1>13. h = HeadCells(x, name, e)
  BY DEF CentralHead, e, fixed
<1> HIDE DEF x, h, t, name, comment
<1>14. Len(cells) \in Nat
  BY SequenceIs
<1>15. Lies(cells, at, h) /\ Lies(cells, at + Len(h), t)
  BY <1>9, <1>10, <1>11, <1>14, LiesParts
<1>16. /\ cells[at + 1] = x /\ Tag(cells, at) = x[1]
       /\ Plain(Piece(cells, at + 1, Len(name))) = name
       /\ parse_extra_fields(Piece(cells, at + 1 + Len(name), Len(e))) = <<e>>
  <2>1. Lies(cells, at, HeadCells(x, name, e))
    BY <1>13, <1>15
  <2>2. IsSeq(name)
    BY <1>2
  <2>3. IsFields(e)
    BY <1>3
  <2>4. HeadReads(cells, at, x, name, e)
    BY <2>1, <2>2, <2>3, HeadRead
  <2> QED BY <2>4 DEF HeadReads
<1>17. Plain(Piece(cells, at + 1 + Len(name) + Len(e), Len(comment))) = comment
  <2>1. at + Len(h) = at + 1 + Len(name) + Len(e) /\ at + Len(h) \in Nat
    <3>1. Len(name) \in Nat /\ Len(e) \in Nat
      BY <1>3
    <3>2. Len(h) = 1 + Len(name) + Len(e)
      BY <1>9
    <3> QED BY ONLY <3>1, <3>2, at \in Nat
  <2>2. Piece(cells, at + Len(h), Len(t)) = t
    BY <1>10, <1>15, <2>1, LiesPiece
  <2> QED BY <1>10, <2>1, <2>2
<1>18. ~(at + 1 + Len(name) + Len(e) + Len(comment) > Len(cells))
  BY <1>3, <1>9, <1>10, <1>14, <1>15 DEF Lies
<1> DEFINE raw == <<fixed.uncomp, fixed.comp, fixed.offset>>
           wide == Widened(raw, e)
<1>19. wide # <<>> /\ wide[1][1] = cf.uncomp /\ wide[1][2] = cf.comp /\ wide[1][3] = offset
  <2> DEFINE u == cf.uncomp
             c == cf.comp
  <2>1. u \in Nat /\ c \in Nat /\ raw = <<Saturated(u), Saturated(c), Saturated(offset)>>
    BY <1>2, <1>5
  <2>2. values = Given(u > Max32, u) \o Given(c > Max32, c) \o Given(offset > Max32, offset)
    BY <1>7
  <2>3. zip64 <=> (u > Max32 \/ c > Max32 \/ offset > Max32)
    BY <1>8
  <2>4. (u > Max32 \/ c > Max32 \/ offset > Max32) => u # Max32 /\ c # Max32 /\ offset # Max32
    BY DEF NotAtTheSentinel
  <2> HIDE DEF u, c, raw
  <2>5. /\ (u > Max32 \/ c > Max32 \/ offset > Max32) => values # <<>>
        /\ ~(u > Max32 \/ c > Max32 \/ offset > Max32) => values = <<>>
    BY <2>1, <2>2, ZipValues, ZenonT(30)
  <2>6. (u > Max32 \/ c > Max32 \/ offset > Max32) => /\ u # Max32 /\ c # Max32 /\ offset # Max32
                                                     /\ Has(e, "zip64")
    BY <1>6, <2>3, <2>4, <2>5
  <2>7. ~(u > Max32 \/ c > Max32 \/ offset > Max32) => ~Has(e, "zip64")
    BY <1>6, <2>3, <2>5
  <2>8. Has(e, "zip64") => DataOf(e, "zip64") =
          Given(u > Max32, u) \o Given(c > Max32, c) \o Given(offset > Max32, offset)
    BY <1>6, <2>2
  <2> DEFINE w == Widened(<<Saturated(u), Saturated(c), Saturated(offset)>>, e)
  <2>11. HoldsThree(u, c, offset, e)
    BY <2>6, <2>7, <2>8 DEF HoldsThree
  <2>12. u \in Nat /\ c \in Nat
    BY <2>1
  <2>9. ReadsThree(u, c, offset, w)
    BY <2>11, <2>12, WidenedThree
  <2>10. wide = w
    BY <2>1
  <2>13. ReadsThree(u, c, offset, wide)
    BY <2>9, <2>10
  <2> HIDE DEF wide
  <2> QED BY <2>13 DEF u, c, ReadsThree
<1> DEFINE cipher == Ciphered(fixed, e)
<1>20. cipher = [method |-> cf.method, em |-> cf.em, crcValid |-> ~IsAes(cf)]
  BY <1>5, <1>6, CipherIs
<1>21. cipher.method = cf.method /\ cipher.em = cf.em /\ cipher.crcValid = ~IsAes(cf)
  <2> HIDE DEF cipher
  <2> QED BY <1>20
<1>22. parse_central(cells, at) =
         [error |-> "none",
          next |-> at + 1 + fixed.nameLen + fixed.extraLen + fixed.commentLen,
          dirent |->
            [name |-> name, comment |-> comment, extra |-> e,
             version |-> fixed.version, flags |-> fixed.flags, stamp |-> fixed.stamp,
             attrs |-> fixed.attrs, crc |-> fixed.crc,
             uncomp |-> wide[1][1], comp |-> wide[1][2], offset |-> wide[1][3],
             method |-> cipher.method, em |-> cipher.em, crcValid |-> cipher.crcValid]]
  <2>1. Tag(cells, at) = "central" /\ fixed = cells[at + 1][2]
    BY <1>12, <1>16
  <2>2. name = Plain(Piece(cells, at + 1, fixed.nameLen))
    BY <1>4, <1>5, <1>16
  <2>3. parse_extra_fields(Piece(cells, at + 1 + fixed.nameLen, fixed.extraLen)) = <<e>>
    BY <1>4, <1>5, <1>16
  <2>4. comment = Plain(Piece(cells, at + 1 + fixed.nameLen + fixed.extraLen, fixed.commentLen))
    BY <1>4, <1>5, <1>17
  <2>5. ~(at + 1 + fixed.nameLen + fixed.extraLen + fixed.commentLen > Len(cells))
    BY <1>4, <1>5, <1>18
  <2>6. wide # <<>> /\ ~Traverses(name)
    BY <1>0, <1>19
  <2> QED BY <2>1, <2>2, <2>3, <2>4, <2>5, <2>6, ParseCentralIs, SMTT(30)
<1>25. Len(write_central_entry(cf, offset)) = 1 + Len(name) + Len(e) + Len(comment)
  BY <1>3
<1>23. at + 1 + fixed.nameLen + fixed.extraLen + fixed.commentLen
         = at + Len(write_central_entry(cf, offset))
  BY <1>3, <1>4, <1>5, <1>25
<1> HIDE DEF wide, cipher
<1>24. DirentOf(cf, offset) =
            [name |-> name, comment |-> comment, extra |-> e,
             version |-> fixed.version, flags |-> fixed.flags, stamp |-> fixed.stamp,
             attrs |-> fixed.attrs, crc |-> fixed.crc,
             uncomp |-> wide[1][1], comp |-> wide[1][2], offset |-> wide[1][3],
             method |-> cipher.method, em |-> cipher.em, crcValid |-> cipher.crcValid]
  BY <1>5, <1>19, <1>21 DEF DirentOf, e, zip64, CentralZip64, name, comment
<1> QED BY <1>22, <1>23, <1>24

LEMMA LocalReads ==
  ASSUME NEW cells, IsSeq(cells), NEW at \in Nat, NEW cf, Written1(cf),
         Lies(cells, at, write_local_header(cf)),
         Len(cf.name) =< Max16, cf.comp > Max32 <=> cf.uncomp > Max32
  PROVE  parse_local(cells, at) =
           [error |-> "none", data |-> at + Len(write_local_header(cf)), name |-> cf.name,
            uncomp |-> cf.uncomp, comp |-> cf.comp, method |-> cf.method, em |-> cf.em]
<1> DEFINE name == cf.name
           zip64 == needs_zip64_sizes(cf)
           e == LocalExtra(cf)
           fixed == LocalFixed(cf)
           x == <<"local", fixed>>
           values == Zip64Values(cf, FALSE, 0)
           z == ZipField(zip64, values)
           u == cf.uncomp
           c == cf.comp
<1>1. Max32 \in Nat /\ Max16 \in Nat
  BY WidthsAssumption
<1>2. IsSeq(name) /\ c \in Nat /\ u \in Nat /\ (c > Max32 <=> u > Max32)
  BY SequenceIs DEF Written1
<1>3. /\ IsFields(e) /\ Len(name) \in Nat /\ Len(e) \in Nat
      /\ Len(write_local_header(cf)) = 1 + Len(name) + Len(e)
  BY LocalLength
<1>4. Wrap16(Len(name)) = Len(name)
  BY <1>3, Wrapped
<1>5. /\ fixed.flags = Flags(cf) /\ fixed.method = on_disk_method(cf)
      /\ fixed.comp = (IF zip64 THEN Max32 ELSE c)
      /\ fixed.uncomp = (IF zip64 THEN Max32 ELSE u)
      /\ fixed.nameLen = Wrap16(Len(name)) /\ fixed.extraLen = Len(e)
  BY DEF LocalFixed
<1>6. ExtraShape(cf, values, z, e)
  BY LocalExtraIs
<1>7. values = Given(u > Max32, u) \o Given(c > Max32, c) \o <<>>
  BY DEF Zip64Values, Given
<1>8. zip64 <=> u > Max32
  BY <1>2 DEF needs_zip64_sizes
<1>9. Lies(cells, at, HeadCells(x, name, e))
  BY LocalIs
<1>10. x[1] = "local" /\ x[2] = fixed
  OBVIOUS
<1>11. (zip64 /\ values # <<>> => z # <<>>) /\ (~zip64 => z = <<>>)
  BY DEF ZipField, Given
<1> HIDE DEF name, zip64, e, fixed, x, values, z, u, c
<1>12. HeadReads(cells, at, x, name, e)
  BY <1>2, <1>3, <1>9, HeadRead
<1>13. u > Max32 => values = <<u, c>>
  <2> SUFFICES ASSUME u > Max32 PROVE values = <<u, c>>
    OBVIOUS
  <2>1. values = <<u>> \o <<c>> \o <<>>
    BY <1>2, <1>7 DEF Given
  <2>2. <<u>> \o <<c>> = <<u, c>> /\ <<u, c>> \o <<>> = <<u, c>>
    BY PairIs
  <2> QED BY <2>1, <2>2
<1>14. u > Max32 => values # <<>>
  BY <1>13
<1> DEFINE wide == Widened(<<fixed.uncomp, fixed.comp>>, e)
<1>15. ReadsTwo(u, c, wide)
  <2> DEFINE a == fixed.uncomp
             b == fixed.comp
  <2>1. u > Max32 => a = Max32 /\ b = Max32
    BY <1>5, <1>8
  <2>2. ~(u > Max32) => a = u /\ b = c
    BY <1>5, <1>8
  <2>3. HoldsTwo(u, c, e)
    BY <1>2, <1>6, <1>8, <1>11, <1>13, <1>14 DEF HoldsTwo, ExtraShape
  <2> HIDE DEF a, b
  <2>4. ReadsTwo(u, c, Widened(<<a, b>>, e))
    BY <1>2, <2>1, <2>2, <2>3, WidenedTwo
  <2> QED BY <2>4 DEF a, b
<1> DEFINE cipher == Ciphered(fixed, e)
<1>16. cipher = [method |-> cf.method, em |-> cf.em, crcValid |-> ~IsAes(cf)]
  <2>1. IsAes(cf) => Has(e, "aes") /\ DataOf(e, "aes") = <<2, aes_strength[cf.em], cf.method>>
    BY <1>6 DEF ExtraShape
  <2> QED BY <1>5, <2>1, CipherIs
<1>17. cipher.method = cf.method /\ cipher.em = cf.em
  <2> HIDE DEF cipher
  <2> QED BY <1>16
<1>18. parse_local(cells, at) =
         [error |-> "none", data |-> at + 1 + fixed.nameLen + fixed.extraLen,
          name |-> name, uncomp |-> wide[1][1], comp |-> wide[1][2],
          method |-> cipher.method, em |-> cipher.em]
  <2>1. Tag(cells, at) = "local" /\ fixed = cells[at + 1][2]
    BY <1>10, <1>12 DEF HeadReads
  <2>2. name = Plain(Piece(cells, at + 1, fixed.nameLen))
    BY <1>4, <1>5, <1>12 DEF HeadReads
  <2>3. parse_extra_fields(Piece(cells, at + 1 + fixed.nameLen, fixed.extraLen)) = <<e>>
    BY <1>4, <1>5, <1>12 DEF HeadReads
  <2>4. wide # <<>>
    BY <1>15 DEF ReadsTwo
  <2> QED BY <2>1, <2>2, <2>3, <2>4, ParseLocalIs
<1>19. at + 1 + fixed.nameLen + fixed.extraLen = at + Len(write_local_header(cf))
  BY <1>3, <1>4, <1>5
<1> HIDE DEF wide, cipher
<1>20. wide[1][1] = u /\ wide[1][2] = c
  BY <1>15 DEF ReadsTwo
<1> QED BY <1>17, <1>18, <1>19, <1>20 DEF name, u, c

\* An entry that was read is written as it was.
Kept1(cf, offset) ==
  /\ Len(cf.name) =< Max16 /\ Len(cf.comment) =< Max16
  /\ Len(CentralExtra(cf, offset)) =< Max16

LEMMA KeptIs ==
  ASSUME NEW cf, Written1(cf), NEW offset \in Nat, Kept1(cf, offset)
  PROVE  to_central_record(DirentOf(cf, offset)).cells = write_central_entry(cf, offset)
<1> DEFINE d == DirentOf(cf, offset)
           e == CentralExtra(cf, offset)
           u == cf.uncomp
           c == cf.comp
           values == CentralValues(cf, offset)
           z == CentralField(cf, offset)
<1>1. /\ d.name = cf.name /\ d.comment = cf.comment /\ d.extra = e
      /\ d.version = VersionNeeded(cf, needs_zip64_sizes(cf) \/ offset > Max32)
      /\ d.flags = Flags(cf) /\ d.stamp = cf.stamp /\ d.attrs = cf.attrs
      /\ d.crc = StoredCrc(cf) /\ d.uncomp = u /\ d.comp = c /\ d.offset = offset
      /\ d.method = cf.method /\ d.em = cf.em
  BY DEF DirentOf
<1>2. c \in Nat /\ u \in Nat /\ Len(cf.name) \in Nat
  BY SequenceIs DEF Written1
<1>3. values = Given(u > Max32, u) \o Given(c > Max32, c) \o Given(offset > Max32, offset)
  BY DEF CentralValues, Zip64Values
<1>4. needs_zip64(d) <=> (u > Max32 \/ c > Max32 \/ offset > Max32)
  BY <1>1 DEF needs_zip64
<1>5. CentralZip64(cf, offset) <=> (u > Max32 \/ c > Max32 \/ offset > Max32)
  BY DEF CentralZip64, needs_zip64_sizes
<1>6. build_zip64_extra(d) = Given(values # <<>>, [id |-> "zip64", data |-> values])
  BY <1>1, <1>3 DEF build_zip64_extra
<1>7. /\ (u > Max32 \/ c > Max32 \/ offset > Max32) => values # <<>>
      /\ ~(u > Max32 \/ c > Max32 \/ offset > Max32) => values = <<>>
  <2> HIDE DEF values, u, c
  <2> QED BY <1>2, <1>3, ZipValues
<1>8. e = Without(e, {"zip64"}) \o z
  BY CentralExtraIs DEF ExtraShape
<1>9. needs_zip64(d) => build_zip64_extra(d) = z
  <2>1. z = Given(CentralZip64(cf, offset) /\ values # <<>>, [id |-> "zip64", data |-> values])
    BY DEF CentralField, ZipField
  <2> HIDE DEF z, values, d
  <2> QED BY <1>4, <1>5, <1>6, <1>7, <2>1 DEF Given
<1> HIDE DEF d, e, z
<1>10. KeptFields(d) = e
  BY <1>1, <1>8, <1>9 DEF KeptFields
<1>11. ~(Len(e) > Max16 \/ Len(d.name) > Max16 \/ Len(d.comment) > Max16)
  <2>1. Len(cf.comment) \in Nat /\ Len(e) \in Nat
    BY CentralLength DEF e
  <2>2. Len(cf.name) =< Max16 /\ Len(cf.comment) =< Max16 /\ Len(e) =< Max16
    BY DEF Kept1, e
  <2>3. Max16 \in Nat
    BY WidthsAssumption
  <2> QED BY <1>1, <1>2, <2>1, <2>2, <2>3
<1>12. Wrap16(Len(cf.name)) = Len(cf.name)
  <2>1. Len(cf.name) =< Max16
    BY DEF Kept1
  <2> QED BY <1>2, <2>1, Wrapped
<1> DEFINE kept == [version |-> d.version, flags |-> d.flags,
                   method |-> IF d.em \in AesMethods THEN "winzip_aes" ELSE d.method,
                   stamp |-> d.stamp, crc |-> d.crc, attrs |-> d.attrs,
                   comp |-> Saturated(d.comp), uncomp |-> Saturated(d.uncomp),
                   offset |-> Saturated(d.offset), nameLen |-> Len(d.name),
                   extraLen |-> Len(e), commentLen |-> Len(d.comment)]
<1>13. kept = CentralFixed(cf, offset)
  <2>1. (IF d.em \in AesMethods THEN "winzip_aes" ELSE d.method) = on_disk_method(cf)
    BY <1>1 DEF on_disk_method, IsAes
  <2> QED BY <1>1, <1>12, <2>1 DEF CentralFixed, e
<1>14. to_central_record(d) =
         [error |-> "none",
          cells |-> <<<<"central", kept>>>> \o Texts("name", d.name) \o FieldCells(e)
                      \o Texts("comment", d.comment)]
  <2>1. to_central_record(d) =
          IF Len(e) > Max16 \/ Len(d.name) > Max16 \/ Len(d.comment) > Max16
          THEN Failure("ef_too_large")
          ELSE [error |-> "none",
                cells |-> <<<<"central", kept>>>> \o Texts("name", d.name) \o FieldCells(e)
                      \o Texts("comment", d.comment)]
    BY <1>10 DEF to_central_record
  <2> HIDE DEF kept
  <2> QED BY <1>11, <2>1
<1> HIDE DEF kept
<1>15. to_central_record(d).cells = <<<<"central", kept>>>> \o Texts("name", d.name)
         \o FieldCells(e) \o Texts("comment", d.comment)
  BY <1>14
<1>16. write_central_entry(cf, offset) =
         <<<<"central", CentralFixed(cf, offset)>>>> \o Texts("name", cf.name)
           \o FieldCells(e) \o Texts("comment", cf.comment)
  BY CentralIs DEF CentralHead, HeadCells, e
<1> QED BY <1>1, <1>13, <1>15, <1>16 DEF d

----------------------------------------------------------------------------
(* A directory is read record by record.                                   *)

Reads1(region, f, n, d) ==
  /\ \A i \in 1..n : parse_central(region, Before(f, i)) =
                       [error |-> "none", next |-> Before(f, i + 1), dirent |-> d[i]]
  /\ \A at \in 0..Len(region) :
       (\A i \in 1..n : at # Before(f, i)) => parse_central(region, at).error # "none"

FromStep(region, at, from) ==
  IF parse_central(region, at).error # "none" THEN <<>>
  ELSE <<parse_central(region, at).dirent>> \o from[parse_central(region, at).next]

LEMMA ParsedBy ==
  ASSUME NEW region, NEW g, g = [at \in 0..Len(region) |-> FromStep(region, at, g)]
  PROVE  \E h : /\ h = [at \in 0..Len(region) |-> FromStep(region, at, h)]
                /\ Parsed(region) = h[0]
<1> DEFINE h == CHOOSE from : from = [at \in 0..Len(region) |-> FromStep(region, at, from)]
<1>1. h = [at \in 0..Len(region) |-> FromStep(region, at, h)]
  BY Zenon
<1>2. Parsed(region) = h[0]
  BY DEF Parsed, FromStep
<1> HIDE DEF h
<1> QED BY <1>1, <1>2

SuffixOf(d, n, i) == [k \in 1..(n + 1 - i) |-> d[i + k - 1]]

LEMMA SuffixIs ==
  ASSUME NEW d, NEW n \in Nat, NEW i \in 1..n
  PROVE  SuffixOf(d, n, i) = <<d[i]>> \o SuffixOf(d, n, i + 1)
<1> DEFINE a == <<d[i]>>
           b == SuffixOf(d, n, i + 1)
           s == SuffixOf(d, n, i)
           m == n - i
<1>1. m \in Nat /\ n + 1 - i = m + 1 /\ n + 1 - (i + 1) = m
  OBVIOUS
<1>2. s = [k \in 1..(m + 1) |-> d[i + k - 1]]
  BY <1>1 DEF SuffixOf
<1>3. b = [k \in 1..m |-> d[(i + 1) + k - 1]]
  BY <1>1 DEF SuffixOf
<1> HIDE DEF b, s, m
<1>4. IsSeq(s) /\ Len(s) = m + 1
  <2>1. s = [k \in 1..(m + 1) |-> s[k]] /\ m + 1 \in Nat
    BY <1>1, <1>2
  <2> QED BY <2>1, SequenceOf
<1>5. IsSeq(b) /\ Len(b) = m
  <2>1. b = [k \in 1..m |-> b[k]]
    BY <1>3
  <2> QED BY <1>1, <2>1, SequenceOf
<1>6. IsSeq(a) /\ Len(a) = 1 /\ a[1] = d[i]
  BY SingleSequence
<1> DEFINE ab == a \o b
<1> HIDE DEF a
<1>7. /\ IsSeq(ab) /\ Len(ab) = 1 + m
      /\ \A k \in 1..1 : ab[k] = a[k]
      /\ \A k \in 1..m : ab[1 + k] = b[k]
  <2>1. IsSeq(a) /\ Len(a) = 1
    BY <1>6
  <2>2. IsSeq(b) /\ Len(b) = m
    BY <1>5
  <2>3. Joined(a, b, ab)
    BY <2>1, <2>2, ConcatJoins
  <2> HIDE DEF ab
  <2> QED BY <2>1, <2>2, <2>3 DEF Joined
<1> HIDE DEF ab
<1>8. \A k \in 1..(m + 1) : s[k] = ab[k]
  <2> TAKE k \in 1..(m + 1)
  <2>1. s[k] = d[i + k - 1]
    BY <1>2
  <2>2. CASE k = 1
    <3>1. i + k - 1 = i /\ 1 \in 1..1
      BY <2>2
    <3> QED BY <1>6, <1>7, <2>1, <2>2, <3>1
  <2>3. CASE k # 1
    <3> DEFINE j == k - 1
    <3>1. j \in 1..m /\ 1 + j = k /\ (i + 1) + j - 1 = i + k - 1
      BY <1>1, <2>3
    <3> HIDE DEF j
    <3>2. ab[k] = b[j]
      BY <1>7, <3>1
    <3>3. b[j] = d[(i + 1) + j - 1]
      BY <1>3, <3>1
    <3> QED BY <2>1, <3>1, <3>2, <3>3
  <2> QED BY <2>2, <2>3
<1>9. 1 + m = m + 1
  BY <1>1
<1>10. s = ab
  BY <1>4, <1>7, <1>8, <1>9, SameSequence
<1> QED BY <1>10 DEF s, ab, a, b

LEMMA SuffixEnds ==
  ASSUME NEW d, NEW n \in Nat
  PROVE  SuffixOf(d, n, n + 1) = <<>>
<1>1. n + 1 - (n + 1) = 0
  OBVIOUS
<1>2. SuffixOf(d, n, n + 1) = [k \in 1..0 |-> d[(n + 1) + k - 1]]
  BY <1>1 DEF SuffixOf
<1> DEFINE s == [k \in 1..0 |-> d[(n + 1) + k - 1]]
<1>3. s = [k \in 1..0 |-> s[k]]
  OBVIOUS
<1> HIDE DEF s
<1>4. IsSeq(s) /\ Len(s) = 0
  BY <1>3, SequenceOf
<1>5. s = <<>>
  BY <1>4, EmptySequence, SameSequence
<1> QED BY <1>2, <1>5 DEF s

\* Records of some length begin at places of their own.
LEMMA OwnPlaces ==
  ASSUME NEW f, NEW n \in Nat, \A i \in 1..n : IsSeq(f[i]) /\ Len(f[i]) > 0
  PROVE  /\ \A i \in 1..n : Before(f, i) \in 0..(Len(Flats(f, n)) - 1)
         /\ \A i \in 1..n, j \in 1..n : i < j => Before(f, i) < Before(f, j)
         /\ \A i \in 1..(n + 1) : Before(f, i) \in 0..Len(Flats(f, n))
<1>1. \A i \in 1..n : IsSeq(f[i])
  OBVIOUS
<1>2. /\ Len(Flats(f, n)) \in Nat /\ Before(f, 1) = 0 /\ Len(Flats(f, n)) = Before(f, n + 1)
      /\ \A i \in 1..n : /\ Before(f, i) \in Nat /\ Len(f[i]) \in Nat
                         /\ Lies(Flats(f, n), Before(f, i), f[i])
  BY <1>1, FlatParts
<1>3. ASSUME NEW i \in 1..n PROVE Before(f, i) \in 0..(Len(Flats(f, n)) - 1)
  <2>1. Before(f, i) + Len(f[i]) =< Len(Flats(f, n))
    BY <1>2 DEF Lies
  <2>2. Before(f, i) \in Nat /\ Len(f[i]) \in Nat /\ Len(f[i]) > 0 /\ Len(Flats(f, n)) \in Nat
    BY <1>2
  <2> QED BY <2>1, <2>2
<1>4. ASSUME NEW i \in 1..n, NEW j \in 1..n, i < j PROVE Before(f, i) < Before(f, j)
  <2>1. Before(f, i) + Len(f[i]) =< Before(f, j)
    BY <1>1, <1>4, FlatOrder
  <2>2. Before(f, i) \in Nat /\ Len(f[i]) \in Nat /\ Len(f[i]) > 0 /\ Before(f, j) \in Nat
    BY <1>2
  <2> QED BY <2>1, <2>2
<1>5. ASSUME NEW i \in 1..(n + 1) PROVE Before(f, i) \in 0..Len(Flats(f, n))
  <2>1. CASE i = n + 1
    BY <1>2, <2>1
  <2>2. CASE i # n + 1
    <3>1. i \in 1..n
      BY <2>2
    <3> QED BY <1>2, <1>3, <3>1
  <2> QED BY <2>1, <2>2
<1> QED BY <1>3, <1>4, <1>5

LEMMA ParsedIs ==
  ASSUME NEW region, NEW f, NEW n \in Nat, \A i \in 1..n : IsSeq(f[i]) /\ Len(f[i]) > 0,
         Len(region) = Len(Flats(f, n)), NEW d, Reads1(region, f, n, d)
  PROVE  Parsed(region) = SuffixOf(d, n, 1)
<1> DEFINE D == 0..Len(region)
           At(at) == CHOOSE i \in 1..n : at = Before(f, i)
           Begins(at) == \E i \in 1..n : at = Before(f, i)
<1>1. /\ Len(region) \in Nat /\ Before(f, 1) = 0 /\ Len(region) = Before(f, n + 1)
  <2>1. \A i \in 1..n : IsSeq(f[i])
    OBVIOUS
  <2> QED BY <2>1, FlatParts
<1>2. /\ \A i \in 1..n : Before(f, i) \in 0..(Len(region) - 1)
      /\ \A i \in 1..n, j \in 1..n : i < j => Before(f, i) < Before(f, j)
      /\ \A i \in 1..(n + 1) : Before(f, i) \in D
  BY OwnPlaces
<1>3. ASSUME NEW i \in 1..n PROVE Begins(Before(f, i)) /\ At(Before(f, i)) = i
  <2>1. Begins(Before(f, i))
    OBVIOUS
  <2> DEFINE j == At(Before(f, i))
  <2>2. j \in 1..n /\ Before(f, i) = Before(f, j)
    OBVIOUS
  <2> HIDE DEF j
  <2>3. ~(i < j) /\ ~(j < i)
    <3>1. Before(f, i) \in Int
      BY <1>2
    <3>2. i < j => Before(f, i) < Before(f, j)
      BY <1>2, <2>2
    <3>3. j < i => Before(f, j) < Before(f, i)
      BY <1>2, <2>2
    <3> QED BY <2>2, <3>1, <3>2, <3>3
  <2>4. i = j
    BY <2>2, <2>3
  <2> QED BY <2>1, <2>4 DEF j
<1>4. ~Begins(Before(f, n + 1))
  <2>1. \A i \in 1..n : Before(f, i) # Len(region)
    BY <1>1, <1>2
  <2> QED BY <1>1, <2>1
<1>5. /\ \A i \in 1..n : /\ parse_central(region, Before(f, i)).error = "none"
                         /\ parse_central(region, Before(f, i)).next = Before(f, i + 1)
                         /\ parse_central(region, Before(f, i)).dirent = d[i]
      /\ \A at \in D : ~Begins(at) => parse_central(region, at).error # "none"
  BY DEF Reads1
<1> DEFINE g == [at \in D |-> IF Begins(at) THEN SuffixOf(d, n, At(at)) ELSE <<>>]
<1>6. \A i \in 1..n : g[Before(f, i)] = SuffixOf(d, n, i)
  <2> TAKE i \in 1..n
  <2>1. Before(f, i) \in D
    BY <1>2
  <2>2. g[Before(f, i)] = SuffixOf(d, n, At(Before(f, i)))
    BY <1>3, <2>1
  <2> QED BY <1>3, <2>2
<1>7. g[Before(f, n + 1)] = SuffixOf(d, n, n + 1)
  <2>1. Before(f, n + 1) \in D
    BY <1>1
  <2>2. g[Before(f, n + 1)] = <<>>
    BY <1>4, <2>1
  <2> QED BY <2>2, SuffixEnds
<1>8. \A i \in 1..n : g[Before(f, i + 1)] = SuffixOf(d, n, i + 1)
  <2> TAKE i \in 1..n
  <2>1. CASE i + 1 = n + 1
    BY <1>7, <2>1
  <2>2. CASE i + 1 # n + 1
    <3>1. i + 1 \in 1..n
      BY <2>2
    <3> HIDE DEF g
    <3> QED BY <1>6, <3>1
  <2> QED BY <2>1, <2>2
<1>9. ASSUME NEW at \in D PROVE g[at] = FromStep(region, at, g)
  <2>1. CASE ~Begins(at)
    <3>1. g[at] = <<>>
      BY <2>1
    <3>2. parse_central(region, at).error # "none"
      BY <1>5, <2>1
    <3> QED BY <3>1, <3>2 DEF FromStep
  <2>2. CASE Begins(at)
    <3>1. PICK i \in 1..n : at = Before(f, i)
      BY <2>2
    <3>2. g[at] = SuffixOf(d, n, i)
      BY <1>6, <3>1
    <3>3. g[Before(f, i + 1)] = SuffixOf(d, n, i + 1)
      BY <1>8
    <3> HIDE DEF g
    <3>4. FromStep(region, at, g) = <<d[i]>> \o g[Before(f, i + 1)]
      BY <1>5, <3>1 DEF FromStep
    <3> QED BY <3>2, <3>3, <3>4, SuffixIs
  <2> QED BY <2>1, <2>2
<1>10. g = [at \in D |-> FromStep(region, at, g)]
  <2>1. g = [at \in D |-> g[at]]
    OBVIOUS
  <2> HIDE DEF g
  <2>2. [at \in D |-> g[at]] = [at \in D |-> FromStep(region, at, g)]
    BY <1>9
  <2> QED BY <2>1, <2>2
<1> HIDE DEF g
<1>11. PICK h : h = [at \in D |-> FromStep(region, at, h)] /\ Parsed(region) = h[0]
  BY <1>10, ParsedBy
<1>12. \A at \in D : h[at] = FromStep(region, at, h)
  BY <1>11
<1> DEFINE S == {j \in 0..n : h[Before(f, n + 1 - j)] = SuffixOf(d, n, n + 1 - j)}
<1>13. 0 \in S
  <2>1. n + 1 - 0 = n + 1 /\ Before(f, n + 1) \in D
    BY <1>1
  <2>2. parse_central(region, Before(f, n + 1)).error # "none"
    BY <1>4, <1>5, <2>1
  <2>3. h[Before(f, n + 1)] = <<>>
    BY <1>12, <2>1, <2>2 DEF FromStep
  <2>4. h[Before(f, n + 1 - 0)] = SuffixOf(d, n, n + 1 - 0)
    BY <2>1, <2>3, SuffixEnds
  <2>5. 0 \in 0..n
    OBVIOUS
  <2> QED BY <2>4, <2>5
<1>14. ASSUME NEW j \in 1..n, j - 1 \in S PROVE j \in S
  <2> DEFINE i == n + 1 - j
  <2>1. i \in 1..n /\ n + 1 - (j - 1) = i + 1
    OBVIOUS
  <2>2. h[Before(f, i + 1)] = SuffixOf(d, n, i + 1)
    BY <1>14, <2>1
  <2> HIDE DEF i
  <2>3. Before(f, i) \in D
    BY <1>2, <2>1
  <2>4. h[Before(f, i)] = FromStep(region, Before(f, i), h)
    BY <1>12, <2>3
  <2>5. FromStep(region, Before(f, i), h) = <<d[i]>> \o h[Before(f, i + 1)]
    BY <1>5, <2>1 DEF FromStep
  <2>6. h[Before(f, i)] = SuffixOf(d, n, i)
    BY <2>1, <2>2, <2>4, <2>5, SuffixIs
  <2>7. j \in 0..n
    OBVIOUS
  <2> QED BY <2>6, <2>7 DEF i
<1>15. \A j \in 0..n : j \in S
  <2> HIDE DEF S
  <2> QED BY <1>13, <1>14, Induct
<1>16. h[Before(f, 1)] = SuffixOf(d, n, 1)
  <2>1. n \in 0..n /\ n + 1 - n = 1
    OBVIOUS
  <2> QED BY <1>15, <2>1
<1> QED BY <1>1, <1>11, <1>16

----------------------------------------------------------------------------
(* Only the first cell of a record has its tag.                            *)

Untagged(s) == IsSeq(s) /\ \A k \in 1..Len(s) : s[k][1] \notin RecordTags

Tagged(tag, s) ==
  /\ IsSeq(s) /\ Len(s) > 0 /\ s[1][1] = tag
  /\ \A k \in 2..Len(s) : s[k][1] \notin RecordTags

LEMMA TaggedOne ==
  ASSUME NEW x
  PROVE  Tagged(x[1], <<x>>)
<1> DEFINE s == <<x>>
<1>1. IsSeq(s) /\ Len(s) = 1 /\ s[1] = x
  BY SingleSequence
<1>2. \A k \in 2..1 : s[k][1] \notin RecordTags
  OBVIOUS
<1> HIDE DEF s
<1>3. Tagged(x[1], s)
  BY <1>1, <1>2 DEF Tagged
<1> QED BY <1>3 DEF s

LEMMA TaggedJoin ==
  ASSUME NEW tag, NEW s, NEW t, Tagged(tag, s), Untagged(t)
  PROVE  Tagged(tag, s \o t)
<1> DEFINE both == s \o t
           m == Len(s)
           n == Len(t)
<1>1. IsSeq(s) /\ m > 0 /\ s[1][1] = tag /\ \A k \in 2..m : s[k][1] \notin RecordTags
  BY DEF Tagged
<1>2. IsSeq(t) /\ \A k \in 1..n : t[k][1] \notin RecordTags
  BY DEF Untagged
<1>3. m \in Nat /\ n \in Nat
  BY <1>1, <1>2, SequenceIs
<1>4. Joined(s, t, both)
  BY <1>1, <1>2, ConcatJoins
<1> HIDE DEF both
<1>5. /\ IsSeq(both) /\ Len(both) = m + n
      /\ \A i \in 1..m : both[i] = s[i]
      /\ \A j \in 1..n : both[m + j] = t[j]
  BY <1>4 DEF Joined
<1> HIDE DEF m, n
<1>6. ASSUME NEW k \in 2..(m + n) PROVE both[k][1] \notin RecordTags
  <2>1. CASE k =< m
    <3>1. k \in 1..m /\ k \in 2..m
      BY <1>3, <2>1
    <3> QED BY <1>1, <1>5, <3>1
  <2>2. CASE ~(k =< m)
    <3> DEFINE j == k - m
    <3>1. j \in 1..n /\ m + j = k
      BY <1>3, <2>2
    <3> HIDE DEF j
    <3> QED BY <1>2, <1>5, <3>1
  <2> QED BY <2>1, <2>2
<1>7. both[1][1] = tag /\ Len(both) > 0
  <2>1. 1 \in 1..m
    BY <1>1, <1>3
  <2> QED BY <1>1, <1>3, <1>5, <2>1
<1>8. Tagged(tag, both)
  BY <1>5, <1>6, <1>7 DEF Tagged
<1> QED BY <1>8 DEF both

LEMMA TextsUntagged ==
  ASSUME NEW tag \in {"name", "comment"}, NEW text, IsSeq(text)
  PROVE  Untagged(Texts(tag, text))
<1> DEFINE t == Texts(tag, text)
<1>1. IsSeq(t) /\ Len(t) = Len(text) /\ \A k \in 1..Len(text) : t[k] = <<tag, text[k]>>
  BY TextsAre
<1> HIDE DEF t
<1>2. \A k \in 1..Len(text) : t[k][1] = tag
  BY <1>1
<1>3. tag \notin RecordTags
  BY DEF RecordTags
<1>4. Untagged(t)
  BY <1>1, <1>2, <1>3 DEF Untagged
<1> QED BY <1>4 DEF t

LEMMA FieldsUntagged ==
  ASSUME NEW fields, IsFields(fields)
  PROVE  Untagged(FieldCells(fields))
<1> DEFINE t == FieldCells(fields)
<1>1. /\ IsSeq(t) /\ Len(t) = Len(fields)
      /\ \A k \in 1..Len(fields) : t[k] = <<"extra", fields[k].id, fields[k].data>>
  BY FieldsParse
<1> HIDE DEF t
<1>2. \A k \in 1..Len(fields) : t[k][1] = "extra"
  BY <1>1
<1>3. "extra" \notin RecordTags
  BY DEF RecordTags
<1>4. Untagged(t)
  BY <1>1, <1>2, <1>3 DEF Untagged
<1> QED BY <1>4 DEF t

LEMMA HeadTagged ==
  ASSUME NEW x, NEW name, IsSeq(name), NEW extra, IsFields(extra)
  PROVE  Tagged(x[1], HeadCells(x, name, extra))
<1> DEFINE a == <<x>>
           b == Texts("name", name)
           c == FieldCells(extra)
<1>1. Tagged(x[1], a)
  BY TaggedOne
<1>2. Untagged(b)
  BY TextsUntagged
<1>3. Untagged(c)
  BY FieldsUntagged
<1> HIDE DEF a, b, c
<1>4. Tagged(x[1], (a \o b) \o c)
  BY <1>1, <1>2, <1>3, TaggedJoin
<1> QED BY <1>4 DEF HeadCells, a, b, c

LEMMA CentralTagged ==
  ASSUME NEW cf, Written1(cf), NEW offset
  PROVE  Tagged("central", write_central_entry(cf, offset))
<1> DEFINE x == <<"central", CentralFixed(cf, offset)>>
           h == CentralHead(cf, offset)
           t == Texts("comment", cf.comment)
           e == CentralExtra(cf, offset)
           name == cf.name
<1>1. x[1] = "central"
  OBVIOUS
<1>2. h = HeadCells(x, name, e)
  BY DEF CentralHead
<1>3. IsFields(e) /\ IsSeq(name)
  BY CentralLength DEF Written1
<1>4. Untagged(t)
  BY TextsUntagged DEF Written1
<1>5. write_central_entry(cf, offset) = h \o t
  BY CentralIs
<1> HIDE DEF x, h, t, e, name
<1>6. Tagged("central", h)
  <2>1. Tagged(x[1], HeadCells(x, name, e))
    BY <1>3, HeadTagged
  <2> QED BY <1>1, <1>2, <2>1
<1> QED BY <1>4, <1>5, <1>6, TaggedJoin

LEMMA MemberIs ==
  ASSUME NEW cf, Written1(cf)
  PROVE  /\ Tagged("local", Member(cf))
         /\ Lies(Member(cf), 0, write_local_header(cf))
         /\ Lies(Member(cf), Len(write_local_header(cf)), cf.data)
<1> DEFINE x == <<"local", LocalFixed(cf)>>
           h == write_local_header(cf)
           e == LocalExtra(cf)
           name == cf.name
           data == cf.data
           t == write_data_descriptor(cf)
<1>1. x[1] = "local"
  OBVIOUS
<1>2. h = HeadCells(x, name, e)
  BY LocalIs
<1>3. IsFields(e) /\ IsSeq(name) /\ IsSeq(h)
  BY LocalLength DEF Written1
<1>4. Untagged(data)
  BY DEF Written1, Untagged
<1>5. Untagged(t)
  <2>1. CASE IsAes(cf)
    <3> DEFINE cell == <<"descriptor", cf.comp, cf.uncomp>>
    <3>1. t = <<cell>> /\ cell[1] = "descriptor"
      BY <2>1 DEF write_data_descriptor
    <3> HIDE DEF cell, t
    <3>2. IsSeq(t) /\ Len(t) = 1 /\ t[1] = cell
      BY <3>1, SingleSequence
    <3>3. \A k \in 1..1 : k = 1
      OBVIOUS
    <3>4. "descriptor" \notin RecordTags
      BY DEF RecordTags
    <3> QED BY <3>1, <3>2, <3>3, <3>4 DEF Untagged
  <2>2. CASE ~IsAes(cf)
    <3>1. t = <<>>
      BY <2>2 DEF write_data_descriptor
    <3>2. \A k \in 1..0 : t[k][1] \notin RecordTags
      OBVIOUS
    <3> HIDE DEF t
    <3> QED BY <3>1, <3>2, EmptySequence DEF Untagged
  <2> QED BY <2>1, <2>2
<1>6. Member(cf) = (h \o data) \o t
  BY DEF Member
<1> HIDE DEF x, h, t, e, name, data
<1>7. Tagged("local", h)
  <2>1. Tagged(x[1], HeadCells(x, name, e))
    BY <1>3, HeadTagged
  <2> QED BY <1>1, <1>2, <2>1
<1>8. Tagged("local", h \o data)
  BY <1>4, <1>7, TaggedJoin
<1>9. Tagged("local", Member(cf))
  BY <1>5, <1>6, <1>8, TaggedJoin
<1> DEFINE m == Member(cf)
           hd == h \o data
<1>10. IsSeq(m) /\ Len(m) \in Nat /\ m = hd \o t /\ hd = h \o data
  BY <1>6, <1>9, SequenceIs DEF Tagged
<1>11. IsSeq(hd) /\ IsSeq(data) /\ IsSeq(t)
  BY <1>4, <1>5, <1>8 DEF Tagged, Untagged
<1> HIDE DEF m, hd
<1>12. Lies(m, 0, m) /\ 0 \in Nat
  BY <1>10, LiesWhole
<1>13. Lies(m, 0, hd)
  BY <1>10, <1>11, <1>12, LiesParts
<1>14. Lies(m, 0, h) /\ Lies(m, 0 + Len(h), data)
  BY <1>3, <1>10, <1>11, <1>13, LiesParts
<1>15. 0 + Len(h) = Len(h)
  BY <1>3, SequenceIs
<1> QED BY <1>9, <1>14, <1>15 DEF m, h, data

\* In records that follow each other.
FlatTagged(tag, f, n, region) ==
  \A at \in 0..(Len(region) - 1) :
    /\ (\E i \in 1..n : at = Before(f, i)) => Tag(region, at) = tag
    /\ ~(\E i \in 1..n : at = Before(f, i)) => Tag(region, at) \notin RecordTags

LEMMA FlatTags ==
  ASSUME NEW tag, NEW f, NEW n \in Nat, \A i \in 1..n : Tagged(tag, f[i])
  PROVE  FlatTagged(tag, f, n, Flats(f, n))
<1> DEFINE region == Flats(f, n)
<1>1. \A i \in 1..n : IsSeq(f[i]) /\ Len(f[i]) > 0 /\ f[i][1][1] = tag
  BY DEF Tagged
<1>2. /\ Len(region) \in Nat
      /\ \A i \in 1..n : /\ Before(f, i) \in Nat /\ Len(f[i]) \in Nat
                         /\ Lies(region, Before(f, i), f[i])
  <2>1. \A i \in 1..n : IsSeq(f[i])
    BY <1>1
  <2> QED BY <2>1, FlatParts
<1>3. \A k \in 1..Len(region) : \E i \in 1..n : \E j \in 1..Len(f[i]) :
           k = Before(f, i) + j /\ region[k] = f[i][j]
  <2>1. \A i \in 1..n : IsSeq(f[i])
    BY <1>1
  <2> TAKE k \in 1..Len(region)
  <2>2. k \in 1..Len(Flats(f, n))
    OBVIOUS
  <2>3. \E i \in 1..n : \E j \in 1..Len(f[i]) : k = Before(f, i) + j /\ Flats(f, n)[k] = f[i][j]
    BY ONLY n \in Nat, <2>1, <2>2, FlatCovers
  <2> QED BY <2>3
<1> HIDE DEF region
<1>4. ASSUME NEW at \in 0..(Len(region) - 1)
      PROVE  /\ (\E i \in 1..n : at = Before(f, i)) => Tag(region, at) = tag
             /\ ~(\E i \in 1..n : at = Before(f, i)) => Tag(region, at) \notin RecordTags
  <2>1. Tag(region, at) = region[at + 1][1]
    BY DEF Tag
  <2>2. ASSUME NEW i \in 1..n, at = Before(f, i) PROVE Tag(region, at) = tag
    <3>1. 1 \in 1..Len(f[i])
      BY <1>1, <1>2
    <3>2. region[at + 1] = f[i][1]
      BY <1>2, <2>2, <3>1 DEF Lies
    <3> QED BY <1>1, <2>1, <3>2
  <2>3. ASSUME ~(\E i \in 1..n : at = Before(f, i)) PROVE Tag(region, at) \notin RecordTags
    <3> DEFINE k == at + 1
    <3>1. k \in 1..Len(region) /\ k - 1 = at
      BY <1>2
    <3> HIDE DEF k
    <3>2. PICK i \in 1..n : \E j \in 1..Len(f[i]) : k = Before(f, i) + j /\ region[k] = f[i][j]
      BY <1>3, <3>1
    <3>3. PICK j \in 1..Len(f[i]) : k = Before(f, i) + j /\ region[k] = f[i][j]
      BY <3>2
    <3>4. j # 1
      <4>1. Before(f, i) \in Nat
        BY <1>2
      <4>2. j = 1 => at = Before(f, i)
        BY <3>1, <3>3, <4>1
      <4> QED BY <2>3, <4>2
    <3>5. j \in 2..Len(f[i])
      BY <1>2, <3>4
    <3>6. f[i][j][1] \notin RecordTags
      BY <3>5 DEF Tagged
    <3> QED BY <2>1, <3>3, <3>6 DEF k
  <2> QED BY <2>2, <2>3
<1>5. FlatTagged(tag, f, n, region)
  BY <1>4 DEF FlatTagged
<1> QED BY <1>5 DEF region

----------------------------------------------------------------------------
(* Where everything lies in an archive.                                    *)

MembersOf(cfs) == [i \in DOMAIN cfs |-> Member(cfs[i])]
CentralsOf(cfs) == [i \in DOMAIN cfs |-> write_central_entry(cfs[i], Offset(cfs, i))]
DirentsOf(cfs) == [i \in DOMAIN cfs |-> DirentOf(cfs[i], Offset(cfs, i))]

LEMMA BodiesAre ==
  ASSUME NEW cfs, IsSeq(cfs)
  PROVE  /\ Bodies(cfs).out = Flats(MembersOf(cfs), Len(cfs))
         /\ Bodies(cfs).cdir = Flats(CentralsOf(cfs), Len(cfs))
         /\ \A i \in 1..Len(cfs) : /\ Offset(cfs, i) = Before(MembersOf(cfs), i)
                                   /\ MembersOf(cfs)[i] = Member(cfs[i])
                                   /\ CentralsOf(cfs)[i] = write_central_entry(cfs[i], Offset(cfs, i))
                                   /\ DirentsOf(cfs)[i] = DirentOf(cfs[i], Offset(cfs, i))
<1> DEFINE n == Len(cfs)
           ms == MembersOf(cfs)
           ws == CentralsOf(cfs)
<1>1. n \in Nat /\ DOMAIN cfs = 1..n
  BY SequenceIs
<1>2. \A i \in 1..n : ms[i] = Member(cfs[i])
  BY <1>1 DEF MembersOf
<1>3. ws = [i \in 1..n |-> write_central_entry(cfs[i], Offset(cfs, i))]
  BY <1>1 DEF CentralsOf
<1>4. \A i \in 1..n : DirentsOf(cfs)[i] = DirentOf(cfs[i], Offset(cfs, i))
  BY <1>1 DEF DirentsOf
<1> HIDE DEF ms, ws, n
<1>5. ASSUME NEW k \in 0..n PROVE Members(cfs, k) = Flats(ms, k)
  <2>1. \A i \in 1..k : Member(cfs[i]) = ms[i]
    BY <1>1, <1>2
  <2>2. [i \in 1..k |-> Member(cfs[i])] = [i \in 1..k |-> ms[i]]
    BY <2>1
  <2> QED BY <2>2 DEF Members, Flats
<1>6. Bodies(cfs).out = Flats(ms, n)
  <2>1. n \in 0..n
    BY <1>1
  <2> QED BY <1>5, <2>1 DEF Bodies, n
<1>7. Bodies(cfs).cdir = Flats(ws, n)
  <2>1. Bodies(cfs).cdir = FlattenSeq([i \in DOMAIN cfs |-> write_central_entry(cfs[i], Offset(cfs, i))])
    BY DEF Bodies
  <2>2. Bodies(cfs).cdir = FlattenSeq(ws)
    BY <2>1 DEF ws, CentralsOf
  <2>3. ws = [i \in 1..n |-> ws[i]]
    BY <1>3
  <2> QED BY <2>2, <2>3 DEF Flats
<1>8. ASSUME NEW i \in 1..n PROVE Offset(cfs, i) = Before(ms, i)
  <2>1. i - 1 \in 0..n
    BY <1>1
  <2>2. Members(cfs, i - 1) = Flats(ms, i - 1)
    BY <1>5, <2>1
  <2> QED BY <2>2 DEF Offset, Before
<1>9. \A i \in 1..n : ws[i] = write_central_entry(cfs[i], Offset(cfs, i))
  BY <1>3
<1> QED BY <1>2, <1>4, <1>6, <1>7, <1>8, <1>9 DEF n, ms, ws

LEMMA LiesShort ==
  ASSUME NEW c, Len(c) \in Nat, NEW at \in Nat, NEW p, Len(p) \in Nat, Lies(c, at, p)
  PROVE  \A k \in 0..(Len(p) - 1) : at + k \in 0..(Len(c) - 1) /\ Tag(c, at + k) = Tag(p, k)
<1>1. at + Len(p) =< Len(c) /\ \A k \in 1..Len(p) : c[at + k] = p[k]
  BY DEF Lies
<1> TAKE k \in 0..(Len(p) - 1)
<1>2. at + k \in 0..(Len(c) - 1) /\ k + 1 \in 1..Len(p) /\ at + (k + 1) = (at + k) + 1
  BY <1>1
<1>3. c[(at + k) + 1] = p[k + 1]
  BY <1>1, <1>2
<1>4. Tag(p, k) = p[k + 1][1]
  BY <1>2 DEF Tag
<1>5. Tag(c, at + k) = c[(at + k) + 1][1]
  BY <1>2 DEF Tag
<1> QED BY <1>2, <1>3, <1>4, <1>5

EocdOf(near, count, size, offset, comment) ==
  [count |-> IF near THEN Wrap16(count) ELSE Wrap16(Max16), size |-> IF near THEN size ELSE Max32,
   offset |-> IF near THEN offset ELSE Max32, commentLen |-> Wrap16(Len(comment))]

Eocd64Of(count, size, offset) == [count |-> count, size |-> size, offset |-> offset]

\* The last record stands at p.
EndsAt(c, p, r, comment) ==
  /\ p \in 0..(Len(c) - 1) /\ c[p + 1] = <<"eocd", r>>
  /\ Plain(Piece(c, p + 1, Len(comment))) = comment
  /\ \A at \in (p + 1)..(Len(c) - 1) : Tag(c, at) = "comment"

LEMMA EndIs ==
  ASSUME NEW c, IsSeq(c), NEW p \in Nat, NEW r, NEW comment, IsSeq(comment),
         Lies(c, p, <<<<"eocd", r>>>> \o Texts("comment", comment)),
         Len(c) = p + Len(<<<<"eocd", r>>>> \o Texts("comment", comment))
  PROVE  EndsAt(c, p, r, comment)
<1> DEFINE x == <<"eocd", r>>
           a == <<x>>
           t == Texts("comment", comment)
           at1 == a \o t
           n == Len(comment)
<1>1. IsSeq(a) /\ Len(a) = 1 /\ a[1] = x
  BY SingleSequence
<1>2. /\ IsSeq(t) /\ Len(t) = n /\ Plain(t) = comment
      /\ \A k \in 1..n : t[k] = <<"comment", comment[k]>>
  BY TextsAre
<1>3. n \in Nat /\ Len(c) \in Nat
  BY SequenceIs
<1>4. IsSeq(at1) /\ Len(at1) = Len(a) + Len(t)
  BY <1>1, <1>2, ConcatLength
<1>5. Lies(c, p, at1) /\ Len(c) = p + Len(at1)
  OBVIOUS
<1>6. \A k \in 1..n : t[k][1] = "comment"
  BY <1>2
<1> HIDE DEF t, n, x
<1>7. Lies(c, p, a \o t)
  BY <1>5
<1> HIDE DEF at1, a
<1>8. Lies(c, p, a) /\ Lies(c, p + Len(a), t)
  BY <1>1, <1>2, <1>3, <1>7, LiesParts
<1>9. Lies(c, p, <<x>>)
  BY <1>8 DEF a
<1>10. p \in 0..(Len(c) - 1) /\ c[p + 1] = x
  BY <1>3, <1>9, LiesTag
<1>11. Lies(c, p + 1, t) /\ p + 1 \in Nat
  BY <1>1, <1>8
<1>12. Plain(Piece(c, p + 1, n)) = comment
  BY <1>2, <1>11, LiesPiece
<1>13. ASSUME NEW at \in (p + 1)..(Len(c) - 1) PROVE Tag(c, at) = "comment"
  <2> DEFINE k == at - p
  <2>1. Len(c) = p + 1 + n
    <3>1. Len(at1) = 1 + n
      BY ONLY <1>1, <1>2, <1>4
    <3> QED BY ONLY <1>3, <1>5, <3>1, p \in Nat
  <2>2. k \in 1..n /\ (p + 1) + k = at + 1 /\ at \in 0..(Len(c) - 1)
    BY <1>3, <2>1
  <2> HIDE DEF k
  <2>3. c[at + 1] = t[k]
    BY <1>2, <1>11, <2>2 DEF Lies
  <2> QED BY <1>6, <2>2, <2>3 DEF Tag
<1> QED BY <1>10, <1>12, <1>13 DEF EndsAt, x, n

\* The records that end an archive, behind the directory.
FarEnd(c, at, z) ==
  /\ Tag(c, at) = "eocd64" /\ c[at + 1] = <<"eocd64", z>>
  /\ Tag(c, at + 1) = "locator" /\ c[at + 2] = <<"locator", at>>

LaidOut(c, out, cdir, near, count, comment) ==
  LET a == Len(out)
      e == Len(out) + Len(cdir)
      r == EocdOf(near, count, Len(cdir), a, comment)
  IN  /\ IsSeq(c) /\ Lies(c, 0, out) /\ Lies(c, a, cdir)
      /\ near => EndsAt(c, e, r, comment)
      /\ ~near => FarEnd(c, e, Eocd64Of(count, Len(cdir), a)) /\ EndsAt(c, e + 2, r, comment)

LEMMA LaidOutIs ==
  ASSUME NEW out, NEW cdir, IsSeq(out), IsSeq(cdir), NEW far, NEW count, NEW comment,
         IsSeq(comment)
  PROVE  \E near \in BOOLEAN :
           /\ near = ~(count > Max16 \/ Len(cdir) > Max32 \/ Len(out) > Max32 \/ far)
           /\ LaidOut(out \o cdir \o EndRecords(count, Len(cdir), Len(out), far, comment),
                      out, cdir, near, count, comment)
<1> DEFINE a == Len(out)
           b == Len(cdir)
           e == a + b
           near == ~(count > Max16 \/ Len(cdir) > Max32 \/ Len(out) > Max32 \/ far)
           r == EocdOf(near, count, b, a, comment)
           last == <<<<"eocd", r>>>> \o Texts("comment", comment)
           ends == EndRecords(count, b, a, far, comment)
           oc == out \o cdir
           c == oc \o ends
<1>1. a \in Nat /\ b \in Nat
  BY SequenceIs
<1>2. IsSeq(oc) /\ Len(oc) = e
  BY ConcatLength
<1>3. IsSeq(last) /\ Len(last) \in Nat
  <2>1. IsSeq(<<<<"eocd", r>>>>)
    BY SingleSequence
  <2>2. IsSeq(Texts("comment", comment))
    BY TextsAre
  <2>3. IsSeq(last)
    BY <2>1, <2>2, ConcatLength
  <2> HIDE DEF last
  <2> QED BY <2>3, SequenceIs
<1>4. near => ends = last
  BY DEF EndRecords, write_eocd, EocdOf
<1>5. ~near => ends = <<<<"eocd64", Eocd64Of(count, b, a)>>>> \o <<<<"locator", a + b>>>> \o last
  BY DEF EndRecords, write_eocd, EocdOf, write_eocd64, write_eocd64_locator, Eocd64Of
<1>6. Lies(oc, 0, out) /\ Lies(oc, 0 + a, cdir)
  <2>1. Lies(oc, 0, oc) /\ Len(oc) \in Nat /\ 0 \in Nat
    BY <1>2, LiesWhole, SequenceIs
  <2> QED BY <2>1, LiesParts
<1>7. near \in BOOLEAN
  OBVIOUS
<1>8. LaidOut(c, out, cdir, near, count, comment)
  <2>1. ASSUME NEW w, IsSeq(w), ends = w
        PROVE  /\ IsSeq(c) /\ Len(c) = e + Len(w) /\ Len(c) \in Nat /\ Len(w) \in Nat /\ e \in Nat
               /\ Lies(c, 0, out) /\ Lies(c, a, cdir) /\ Lies(c, e, w)
    <3> HIDE DEF ends
    <3>1. IsSeq(c) /\ Len(c) = Len(oc) + Len(ends)
      BY <1>2, <2>1, ConcatLength
    <3> HIDE DEF oc
    <3>2. Len(c) \in Nat /\ Len(w) \in Nat /\ Lies(c, 0, c) /\ 0 \in Nat
      BY <2>1, <3>1, LiesWhole, SequenceIs
    <3>3. Lies(c, 0, oc) /\ Lies(c, 0 + Len(oc), ends)
      BY <1>2, <2>1, <3>2, LiesParts
    <3> HIDE DEF c
    <3>4. Lies(c, 0, out) /\ Lies(c, 0 + Len(out), cdir)
      <4>1. Lies(c, 0, out \o cdir)
        BY <3>3 DEF oc
      <4> QED BY <3>2, <4>1, LiesParts
    <3>5. e \in Nat /\ 0 + Len(out) = a /\ 0 + Len(oc) = e /\ Len(oc) = e
      BY <1>1, <1>2
    <3> QED BY <2>1, <3>1, <3>2, <3>3, <3>4, <3>5
  <2>2. CASE near
    <3>1. ends = last
      BY <1>4, <2>2
    <3> HIDE DEF last, c, e, near, r
    <3>2. /\ IsSeq(c) /\ Len(c) = e + Len(last) /\ e \in Nat
          /\ Lies(c, 0, out) /\ Lies(c, a, cdir) /\ Lies(c, e, last)
      BY <1>3, <2>1, <3>1
    <3>3. EndsAt(c, e, r, comment)
      BY <3>2, EndIs DEF last
    <3> QED BY <2>2, <3>2, <3>3 DEF LaidOut, e, r
  <2>3. CASE ~near
    <3> DEFINE z == Eocd64Of(count, b, a)
               x == <<"eocd64", z>>
               y == <<"locator", e>>
               x1 == <<x>>
               y1 == <<y>>
               xy == x1 \o y1
               w == xy \o last
    <3>1. ends = w
      BY <1>5, <2>3
    <3>2. IsSeq(x1) /\ IsSeq(y1) /\ Len(x1) = 1 /\ Len(y1) = 1
      BY SingleSequence
    <3>3. x[1] = "eocd64" /\ y[1] = "locator"
      OBVIOUS
    <3> HIDE DEF last, c, e, near, r, z, x, y
    <3>4. IsSeq(xy) /\ Len(xy) = 2
      <4> HIDE DEF x1, y1
      <4>1. IsSeq(xy) /\ Len(xy) = Len(x1) + Len(y1)
        BY <3>2, ConcatLength
      <4> QED BY <3>2, <4>1
    <3>5. IsSeq(w) /\ Len(w) = 2 + Len(last)
      <4> HIDE DEF xy
      <4>1. IsSeq(w) /\ Len(w) = Len(xy) + Len(last)
        BY <1>3, <3>4, ConcatLength
      <4> QED BY <3>4, <4>1
    <3>6. /\ IsSeq(c) /\ Len(c) = e + Len(w) /\ e \in Nat /\ Len(c) \in Nat
          /\ Lies(c, 0, out) /\ Lies(c, a, cdir) /\ Lies(c, e, w)
      BY <2>1, <3>1, <3>5
    <3>7. Lies(c, e, xy) /\ Lies(c, e + Len(xy), last)
      <4> HIDE DEF xy
      <4> QED BY <1>3, <3>4, <3>6, LiesParts
    <3>8. Lies(c, e, x1) /\ Lies(c, e + Len(x1), y1)
      <4> HIDE DEF x1, y1
      <4> QED BY <3>2, <3>6, <3>7, LiesParts
    <3>9. c[e + 1] = x /\ Tag(c, e) = x[1]
      BY <3>6, <3>8, LiesTag
    <3>10. c[(e + 1) + 1] = y /\ Tag(c, e + 1) = y[1]
      <4>1. e + 1 \in Nat /\ Lies(c, e + 1, y1)
        BY <3>2, <3>6, <3>8
      <4> QED BY <3>6, <4>1, LiesTag
    <3>11. (e + 1) + 1 = e + 2 /\ e + 2 \in Nat /\ e + Len(xy) = e + 2
      BY <3>4, <3>6
    <3>12. FarEnd(c, e, z)
      BY <3>3, <3>9, <3>10, <3>11 DEF FarEnd, x, y
    <3>13. EndsAt(c, e + 2, r, comment)
      <4>1. Lies(c, e + 2, last) /\ Len(c) = (e + 2) + Len(last)
        BY <1>3, <3>5, <3>6, <3>7, <3>11
      <4> QED BY <3>6, <3>11, <4>1, EndIs DEF last
    <3> QED BY <2>3, <3>6, <3>12, <3>13 DEF LaidOut, e, r, z
  <2> QED BY <2>2, <2>3
<1> QED BY <1>7, <1>8

----------------------------------------------------------------------------
(* An archive opens again.                                                 *)

Fine1(cf, offset) ==
  /\ Written1(cf) /\ Len(cf.name) =< Max16 /\ ~Traverses(cf.name)
  /\ NotAtTheSentinel(cf, offset)

Fine(cfs) == IsSeq(cfs) /\ \A i \in 1..Len(cfs) : Fine1(cfs[i], Offset(cfs, i))

AllWritten(cfs) == IsSeq(cfs) /\ \A i \in 1..Len(cfs) : Written1(cfs[i])

LEMMA FineWritten ==
  ASSUME NEW cfs, Fine(cfs)
  PROVE  AllWritten(cfs)
BY DEF Fine, Fine1, AllWritten

LEMMA FineParts ==
  ASSUME NEW cfs, AllWritten(cfs)
  PROVE  /\ IsSeq(cfs) /\ Len(cfs) \in Nat
         /\ \A i \in 1..Len(cfs) :
              /\ Tagged("local", MembersOf(cfs)[i]) /\ Tagged("central", CentralsOf(cfs)[i])
              /\ IsSeq(MembersOf(cfs)[i]) /\ IsSeq(CentralsOf(cfs)[i])
              /\ Len(MembersOf(cfs)[i]) > 0 /\ Len(CentralsOf(cfs)[i]) > 0
              /\ Offset(cfs, i) \in Nat /\ Offset(cfs, i) = Before(MembersOf(cfs), i)
<1> DEFINE n == Len(cfs)
           ms == MembersOf(cfs)
           ws == CentralsOf(cfs)
<1>1. IsSeq(cfs) /\ n \in Nat
  BY SequenceIs DEF AllWritten
<1>2. \A i \in 1..n : Written1(cfs[i])
  BY DEF AllWritten
<1>3. \A i \in 1..n : /\ Offset(cfs, i) = Before(ms, i)
                      /\ ms[i] = Member(cfs[i])
                      /\ ws[i] = write_central_entry(cfs[i], Offset(cfs, i))
  BY <1>1, BodiesAre
<1> HIDE DEF ms, ws
<1>4. ASSUME NEW i \in 1..n PROVE Tagged("local", ms[i]) /\ Tagged("central", ws[i])
  <2>1. Tagged("local", Member(cfs[i]))
    BY <1>2, MemberIs
  <2>2. Tagged("central", write_central_entry(cfs[i], Offset(cfs, i)))
    BY <1>2, CentralTagged
  <2> QED BY <1>3, <2>1, <2>2
<1>5. \A i \in 1..n : IsSeq(ms[i]) /\ Len(ms[i]) > 0 /\ IsSeq(ws[i]) /\ Len(ws[i]) > 0
  BY <1>4 DEF Tagged
<1>6. \A i \in 1..n : Before(ms, i) \in Nat
  <2>1. \A i \in 1..n : IsSeq(ms[i])
    BY <1>5
  <2> QED BY <1>1, <2>1, FlatParts
<1> QED BY <1>1, <1>3, <1>4, <1>5, <1>6 DEF ms, ws

LEMMA DirectoryRead ==
  ASSUME NEW cfs, Fine(cfs)
  PROVE  Reads1(Flats(CentralsOf(cfs), Len(cfs)), CentralsOf(cfs), Len(cfs), DirentsOf(cfs))
<1> DEFINE n == Len(cfs)
           ws == CentralsOf(cfs)
           d == DirentsOf(cfs)
           region == Flats(ws, n)
<1>1. IsSeq(cfs) /\ n \in Nat
  BY FineParts, FineWritten
<1>2. \A i \in 1..n : IsSeq(ws[i]) /\ Len(ws[i]) > 0 /\ Tagged("central", ws[i])
                       /\ Offset(cfs, i) \in Nat
  BY FineParts, FineWritten
<1>3. \A i \in 1..n : /\ ws[i] = write_central_entry(cfs[i], Offset(cfs, i))
                      /\ d[i] = DirentOf(cfs[i], Offset(cfs, i))
  BY <1>1, BodiesAre
<1>4. \A i \in 1..n : Fine1(cfs[i], Offset(cfs, i))
  BY DEF Fine
<1> HIDE DEF ws, d, n
<1>5. /\ IsSeq(region) /\ Len(region) \in Nat
      /\ \A i \in 1..n : /\ Before(ws, i) \in Nat
                         /\ Before(ws, i + 1) = Before(ws, i) + Len(ws[i])
                         /\ Lies(region, Before(ws, i), ws[i])
  <2>1. \A i \in 1..n : IsSeq(ws[i])
    BY <1>2
  <2> QED BY <1>1, <2>1, FlatParts
<1>6. FlatTagged("central", ws, n, region)
  <2>1. \A i \in 1..n : Tagged("central", ws[i])
    BY <1>2
  <2> QED BY <1>1, <2>1, FlatTags
<1> HIDE DEF region
<1>7. ASSUME NEW i \in 1..n
      PROVE  parse_central(region, Before(ws, i)) =
               [error |-> "none", next |-> Before(ws, i + 1), dirent |-> d[i]]
  <2> DEFINE cf == cfs[i]
             o == Offset(cfs, i)
             at == Before(ws, i)
  <2>1. Fine1(cf, o) /\ o \in Nat /\ at \in Nat
    BY <1>2, <1>4, <1>5
  <2>2. Lies(region, at, write_central_entry(cf, o))
    BY <1>3, <1>5
  <2> HIDE DEF cf, o, at
  <2>3. /\ Written1(cf) /\ Len(cf.name) =< Max16 /\ ~Traverses(cf.name)
        /\ NotAtTheSentinel(cf, o)
    BY <2>1 DEF Fine1
  <2>4. parse_central(region, at) =
          [error |-> "none", next |-> at + Len(write_central_entry(cf, o)),
           dirent |-> DirentOf(cf, o)]
    BY <1>5, <2>1, <2>2, <2>3, CentralReads
  <2>5. at + Len(write_central_entry(cf, o)) = Before(ws, i + 1) /\ DirentOf(cf, o) = d[i]
    BY <1>3, <1>5 DEF at, cf, o
  <2> QED BY <2>4, <2>5 DEF at
<1>8. ASSUME NEW at \in 0..Len(region), \A i \in 1..n : at # Before(ws, i)
      PROVE  parse_central(region, at).error # "none"
  <2>1. Tag(region, at) # "central"
    <3>1. CASE at \in 0..(Len(region) - 1)
      <4>1. Tag(region, at) \notin RecordTags
        BY <1>6, <1>8, <3>1 DEF FlatTagged
      <4> QED BY <4>1 DEF RecordTags
    <3>2. CASE at \notin 0..(Len(region) - 1)
      BY <3>2 DEF Tag
    <3> QED BY <3>1, <3>2
  <2>2. parse_central(region, at) = Error("nozip")
    BY <2>1 DEF parse_central
  <2> QED BY <2>2 DEF Error
<1> QED BY <1>7, <1>8 DEF Reads1, region, n, ws, d

LEMMA EntriesRead ==
  ASSUME NEW cfs, Fine(cfs), NEW c, IsSeq(c), NEW a \in Nat,
         Lies(c, a, Flats(CentralsOf(cfs), Len(cfs))),
         Len(Flats(CentralsOf(cfs), Len(cfs))) =< MaxCdSize,
         NEW count, count = Len(cfs) \/ count = Wrap16(Len(cfs))
  PROVE  read_entries(c, a, Len(Flats(CentralsOf(cfs), Len(cfs))), count) =
           [error |-> "none", entries |-> SuffixOf(DirentsOf(cfs), Len(cfs), 1)]
<1> DEFINE n == Len(cfs)
           ws == CentralsOf(cfs)
           d == DirentsOf(cfs)
           region == Flats(ws, n)
           b == Len(region)
           entries == SuffixOf(d, n, 1)
<1>1. n \in Nat /\ \A i \in 1..n : IsSeq(ws[i]) /\ Len(ws[i]) > 0
  BY FineParts, FineWritten
<1>2. Reads1(region, ws, n, d)
  BY DirectoryRead
<1>3. IsSeq(region) /\ b \in Nat
  <2>1. \A i \in 1..n : IsSeq(ws[i])
    BY <1>1
  <2> QED BY <1>1, <2>1, FlatParts
<1>4. Lies(c, a, region) /\ b =< MaxCdSize /\ (count = n \/ count = Wrap16(n))
  OBVIOUS
<1> HIDE DEF n, ws, d
<1>5. Parsed(region) = entries
  <2>1. Len(region) = Len(Flats(ws, n))
    OBVIOUS
  <2> HIDE DEF region
  <2> QED BY <1>1, <1>2, <2>1, ParsedIs
<1> HIDE DEF region
<1>6. Piece(c, a, b) = region
  BY <1>3, <1>4, LiesPiece
<1>7. Len(c) \in Nat /\ a + b =< Len(c)
  BY <1>4, SequenceIs DEF Lies
<1>8. Len(entries) = n
  <2>1. entries = [k \in 1..n |-> d[1 + k - 1]]
    BY <1>1 DEF SuffixOf
  <2> HIDE DEF entries
  <2>2. entries = [k \in 1..n |-> entries[k]]
    BY <2>1
  <2> QED BY <1>1, <2>2, SequenceOf
<1> HIDE DEF entries
<1>9. ~(b > MaxCdSize) /\ ~(a + b > Len(c))
  BY <1>3, <1>4, <1>7, WidthsAssumption
<1>10. Parsed(Piece(c, a, b)) = entries
  BY <1>5, <1>6
<1> HIDE DEF b
<1>11. read_entries(c, a, b, count) = [error |-> "none", entries |-> entries]
  BY <1>4, <1>8, <1>9, <1>10, SMTT(30) DEF read_entries
<1> QED BY <1>11 DEF b, entries, region, n, ws, d

\* From the place of the last record on.
Directory(c, p, r, comment) ==
  LET located == Tag(c, p - 1) = "locator"
      there == located /\ Tag(c, c[p][2]) = "eocd64"
      z == c[c[p][2] + 1][2]
      e == IF there
           THEN read_entries(c, z.offset, z.size, IF r.count = Max16 THEN z.count ELSE r.count)
           ELSE read_entries(c, r.offset, r.size, r.count)
  IN  IF e.error # "none" THEN e
      ELSE [error |-> "none", entries |-> e.entries, comment |-> comment, zip64 |-> located]

LEMMA EndFound ==
  ASSUME NEW c, Len(c) \in Nat, NEW p, NEW r, NEW comment, EndsAt(c, p, r, comment),
         r.commentLen = Len(comment)
  PROVE  read_central_dir(c) = Directory(c, p, r, comment)
<1> DEFINE Ends == {at \in 0..(Len(c) - 1) : Tag(c, at) = "eocd"}
           abs == CHOOSE at \in Ends : \A b \in Ends : b =< at
<1>1. /\ p \in 0..(Len(c) - 1) /\ c[p + 1] = <<"eocd", r>>
      /\ Plain(Piece(c, p + 1, Len(comment))) = comment
      /\ \A at \in (p + 1)..(Len(c) - 1) : Tag(c, at) = "comment"
  BY DEF EndsAt
<1>2. Tag(c, p) = "eocd"
  BY <1>1 DEF Tag
<1>3. p \in Ends
  BY <1>1, <1>2
<1>4. \A b \in Ends : b =< p
  <2> TAKE b \in Ends
  <2>1. CASE b \in (p + 1)..(Len(c) - 1)
    BY <1>1, <2>1
  <2>2. CASE b \notin (p + 1)..(Len(c) - 1)
    BY <1>1, <2>2
  <2> QED BY <2>1, <2>2
<1>5. abs \in Ends /\ \A b \in Ends : b =< abs
  BY <1>3, <1>4
<1>6. abs = p
  <2>1. abs =< p /\ p =< abs
    BY <1>3, <1>4, <1>5
  <2>2. abs \in Int /\ p \in Int
    BY <1>1, <1>5
  <2> QED BY <2>1, <2>2
<1>7. Ends # {}
  BY <1>3
<1>8. c[p + 1][2] = r
  BY <1>1
<1>9. Plain(Piece(c, p + 1, r.commentLen)) = comment
  BY <1>1
<1>10. read_central_dir(c) =
         LET e == c[abs + 1][2]
             co == Plain(Piece(c, abs + 1, e.commentLen))
             located == Tag(c, abs - 1) = "locator"
             there == located /\ Tag(c, c[abs][2]) = "eocd64"
             z == c[c[abs][2] + 1][2]
             x == IF there
                  THEN read_entries(c, z.offset, z.size,
                                    IF e.count = Max16 THEN z.count ELSE e.count)
                  ELSE read_entries(c, e.offset, e.size, e.count)
         IN  IF Ends = {} THEN Error("nozip")
             ELSE IF x.error # "none" THEN x
             ELSE [error |-> "none", entries |-> x.entries, comment |-> co, zip64 |-> located]
  BY DEF read_central_dir
<1> HIDE DEF Ends, abs
<1> QED BY <1>6, <1>7, <1>8, <1>9, <1>10 DEF Directory

\* What the reader finds.
OpensAs(cd, cfs, comment) ==
  /\ cd.error = "none" /\ cd.comment = comment
  /\ cd.entries = SuffixOf(DirentsOf(cfs), Len(cfs), 1)

LEMMA ArchiveOpens ==
  ASSUME NEW cfs, Fine(cfs), NEW comment, IsSeq(comment), Len(comment) =< Max16,
         NEW out, out = Flats(MembersOf(cfs), Len(cfs)),
         NEW cdir, cdir = Flats(CentralsOf(cfs), Len(cfs)), Len(cdir) =< MaxCdSize,
         NEW near \in BOOLEAN, NEW c, LaidOut(c, out, cdir, near, Len(cfs), comment)
  PROVE  OpensAs(read_central_dir(c), cfs, comment)
<1> DEFINE n == Len(cfs)
           ws == CentralsOf(cfs)
           a == Len(out)
           b == Len(cdir)
           e == a + b
           r == EocdOf(near, n, b, a, comment)
           entries == SuffixOf(DirentsOf(cfs), n, 1)
<1>1. n \in Nat /\ \A i \in 1..n : IsSeq(ws[i]) /\ Len(ws[i]) > 0 /\ Tagged("central", ws[i])
  BY FineParts, FineWritten
<1>2. \A i \in 1..n : IsSeq(MembersOf(cfs)[i])
  BY FineParts, FineWritten
<1>3. IsSeq(out) /\ a \in Nat
  BY <1>1, <1>2, FlatParts
<1>4. /\ IsSeq(cdir) /\ b \in Nat
      /\ \A i \in 1..n : Before(ws, i) \in Nat /\ Lies(cdir, Before(ws, i), ws[i])
  <2>1. \A i \in 1..n : IsSeq(ws[i])
    BY <1>1
  <2> QED BY <1>1, <2>1, FlatParts
<1>5. /\ IsSeq(c) /\ Lies(c, a, cdir)
      /\ near => EndsAt(c, e, r, comment)
      /\ ~near => FarEnd(c, e, Eocd64Of(n, b, a)) /\ EndsAt(c, e + 2, r, comment)
  BY DEF LaidOut
<1>6. Len(c) \in Nat
  BY <1>5, SequenceIs
<1>7. r.commentLen = Len(comment)
  <2>1. Len(comment) \in Nat
    BY SequenceIs
  <2>2. Wrap16(Len(comment)) = Len(comment)
    BY <2>1, Wrapped
  <2> QED BY <2>2 DEF EocdOf
<1>8. ASSUME NEW count, count = n \/ count = Wrap16(n)
      PROVE  read_entries(c, a, b, count) = [error |-> "none", entries |-> entries]
  <2>1. Lies(c, a, Flats(CentralsOf(cfs), Len(cfs)))
        /\ Len(Flats(CentralsOf(cfs), Len(cfs))) =< MaxCdSize
    BY <1>5
  <2>2. count = Len(cfs) \/ count = Wrap16(Len(cfs))
    BY <1>8
  <2>3. read_entries(c, a, Len(Flats(CentralsOf(cfs), Len(cfs))), count) =
           [error |-> "none", entries |-> SuffixOf(DirentsOf(cfs), Len(cfs), 1)]
    BY <1>3, <1>5, <2>1, <2>2, EntriesRead
  <2> QED BY <2>3
<1> HIDE DEF entries
<1>9. CASE near
  <2>1. Tag(c, e - 1) # "locator"
    <3>1. CASE b = 0
      <4>1. n = 0
        <5>1. ASSUME NEW i \in 1..n PROVE FALSE
          <6>1. Len(ws[i]) > 0 /\ Before(ws, i) \in Nat /\ Lies(cdir, Before(ws, i), ws[i])
            BY <1>1, <1>4
          <6>2. Len(ws[i]) \in Nat
            BY <1>1, SequenceIs
          <6> QED BY <3>1, <6>1, <6>2 DEF Lies
        <5>2. 1 \notin 1..n
          BY <5>1
        <5> QED BY <1>1, <5>2
      <4>2. a = 0
        BY <4>1, FlatEmpty, EmptySequence
      <4>3. e - 1 = -1
        BY <3>1, <4>2
      <4>4. -1 \notin 0..(Len(c) - 1)
        OBVIOUS
      <4> QED BY <4>3, <4>4 DEF Tag
    <3>2. CASE b # 0
      <4> DEFINE k == b - 1
      <4>1. k \in 0..(b - 1) /\ a + k = e - 1
        BY <1>3, <1>4, <3>2
      <4> HIDE DEF k, a, e
      <4>2. Tag(c, a + k) = Tag(cdir, k)
        BY <1>3, <1>4, <1>5, <1>6, <4>1, LiesShort
      <4>3. FlatTagged("central", ws, n, cdir)
        <5>1. \A i \in 1..n : Tagged("central", ws[i])
          BY <1>1
        <5> QED BY <1>1, <5>1, FlatTags
      <4>4. Tag(cdir, k) = "central" \/ Tag(cdir, k) \notin RecordTags
        BY <4>1, <4>3 DEF FlatTagged
      <4> QED BY <4>1, <4>2, <4>4 DEF RecordTags
    <3> QED BY <3>1, <3>2
  <2>2. r.count = Wrap16(n) /\ r.offset = a /\ r.size = b
    BY <1>9 DEF EocdOf
  <2>3. EndsAt(c, e, r, comment)
    BY <1>5, <1>9
  <2> HIDE DEF r, e, a, b, n
  <2>4. read_central_dir(c) = Directory(c, e, r, comment)
    BY <1>6, <1>7, <2>3, EndFound
  <2>5. read_entries(c, r.offset, r.size, r.count) = [error |-> "none", entries |-> entries]
    BY <1>8, <2>2
  <2>6. Directory(c, e, r, comment) =
          [error |-> "none", entries |-> entries, comment |-> comment, zip64 |-> Tag(c, e - 1) = "locator"]
    BY <2>1, <2>5 DEF Directory
  <2> QED BY <2>4, <2>6 DEF OpensAs, entries, n
<1>10. CASE ~near
  <2> DEFINE p == e + 2
             z == Eocd64Of(n, b, a)
  <2>1. FarEnd(c, e, z) /\ EndsAt(c, p, r, comment)
    BY <1>5, <1>10
  <2>2. e \in Nat /\ p - 1 = e + 1 /\ p = e + 2
    BY <1>3, <1>4
  <2>3. r.count = Max16
    <3>1. Max16 \in Nat /\ Max16 =< Max16
      BY WidthsAssumption
    <3>2. Wrap16(Max16) = Max16
      BY <3>1, Wrapped
    <3> QED BY <1>10, <3>2 DEF EocdOf
  <2>4. z.offset = a /\ z.size = b /\ z.count = n
    BY DEF Eocd64Of
  <2> HIDE DEF r, z, e, a, b, n, p
  <2>5. read_central_dir(c) = Directory(c, p, r, comment)
    BY <1>6, <1>7, <2>1, EndFound
  <2>6. /\ Tag(c, e) = "eocd64" /\ c[e + 1] = <<"eocd64", z>>
        /\ Tag(c, e + 1) = "locator" /\ c[e + 2] = <<"locator", e>>
    BY <2>1 DEF FarEnd
  <2>7. Tag(c, p - 1) = "locator" /\ c[p][2] = e /\ Tag(c, c[p][2]) = "eocd64"
        /\ c[c[p][2] + 1][2] = z
    BY <2>2, <2>6
  <2>8. read_entries(c, z.offset, z.size, z.count) = [error |-> "none", entries |-> entries]
    BY <1>8, <2>4
  <2>9. Directory(c, p, r, comment) =
          [error |-> "none", entries |-> entries, comment |-> comment, zip64 |-> Tag(c, p - 1) = "locator"]
    BY <2>3, <2>7, <2>8 DEF Directory
  <2> QED BY <2>5, <2>9 DEF OpensAs, entries, n
<1> QED BY <1>9, <1>10

----------------------------------------------------------------------------
(* The places of headers and of the directory.                             *)

\* In an archive whose headers are those of f.
TaggedAs(c, f, n, a, e) ==
  /\ a =< e /\ e \in 0..(Len(c) - 1)
  /\ \A at \in 0..(Len(c) - 1) : Tag(c, at) = "local" <=> \E i \in 1..n : at = Before(f, i)
  /\ \A at \in 0..(a - 1) : Tag(c, at) \notin {"central", "eocd", "eocd64"}
  /\ \A at \in a..(e - 1) : Tag(c, at) \notin {"eocd", "eocd64"}
  /\ a < e => Tag(c, a) = "central"
  /\ Tag(c, e) \in {"eocd", "eocd64"}

LEMMA EndTags ==
  ASSUME NEW c, Len(c) \in Nat, NEW out, NEW cdir, Len(out) \in Nat, Len(cdir) \in Nat,
         NEW near \in BOOLEAN, NEW count, NEW comment, LaidOut(c, out, cdir, near, count, comment)
  PROVE  /\ Len(out) + Len(cdir) \in 0..(Len(c) - 1)
         /\ Tag(c, Len(out) + Len(cdir)) \in {"eocd", "eocd64"}
         /\ \A at \in (Len(out) + Len(cdir))..(Len(c) - 1) : Tag(c, at) # "local"
<1> DEFINE a == Len(out)
           e == a + Len(cdir)
           r == EocdOf(near, count, Len(cdir), a, comment)
           z == Eocd64Of(count, Len(cdir), a)
<1>1. e \in Nat
  OBVIOUS
<1>2. /\ near => EndsAt(c, e, r, comment)
      /\ ~near => FarEnd(c, e, z) /\ EndsAt(c, e + 2, r, comment)
  BY DEF LaidOut
<1> HIDE DEF e, r, z
<1>3. ASSUME NEW p \in Nat, EndsAt(c, p, r, comment)
      PROVE  /\ p \in 0..(Len(c) - 1) /\ Tag(c, p) = "eocd"
             /\ \A at \in p..(Len(c) - 1) : Tag(c, at) # "local"
  <2>1. /\ p \in 0..(Len(c) - 1) /\ c[p + 1] = <<"eocd", r>>
        /\ \A at \in (p + 1)..(Len(c) - 1) : Tag(c, at) = "comment"
    BY <1>3 DEF EndsAt
  <2>2. Tag(c, p) = "eocd"
    BY <2>1 DEF Tag
  <2>3. ASSUME NEW at \in p..(Len(c) - 1) PROVE Tag(c, at) # "local"
    <3>1. at = p \/ at \in (p + 1)..(Len(c) - 1)
      OBVIOUS
    <3> QED BY <2>1, <2>2, <3>1
  <2> QED BY <2>1, <2>2, <2>3
<1>4. CASE near
  <2>1. /\ e \in 0..(Len(c) - 1) /\ Tag(c, e) = "eocd"
        /\ \A at \in e..(Len(c) - 1) : Tag(c, at) # "local"
    BY <1>1, <1>2, <1>3, <1>4
  <2> QED BY <2>1 DEF e, a
<1>5. CASE ~near
  <2>1. e + 2 \in Nat
    BY <1>1
  <2>2. /\ e + 2 \in 0..(Len(c) - 1)
        /\ \A at \in (e + 2)..(Len(c) - 1) : Tag(c, at) # "local"
    BY <1>2, <1>3, <1>5, <2>1
  <2>3. Tag(c, e) = "eocd64" /\ Tag(c, e + 1) = "locator"
    BY <1>2, <1>5 DEF FarEnd
  <2>4. e \in 0..(Len(c) - 1)
    BY <1>1, <2>2
  <2>5. ASSUME NEW at \in e..(Len(c) - 1) PROVE Tag(c, at) # "local"
    <3>1. at = e \/ at = e + 1 \/ at \in (e + 2)..(Len(c) - 1)
      BY <1>1
    <3> QED BY <2>2, <2>3, <3>1
  <2> QED BY <2>3, <2>4, <2>5 DEF e, a
<1> QED BY <1>4, <1>5

LEMMA TagsAre ==
  ASSUME NEW cfs, AllWritten(cfs), NEW comment,
         NEW out, out = Flats(MembersOf(cfs), Len(cfs)),
         NEW cdir, cdir = Flats(CentralsOf(cfs), Len(cfs)),
         NEW near \in BOOLEAN, NEW c, LaidOut(c, out, cdir, near, Len(cfs), comment)
  PROVE  TaggedAs(c, MembersOf(cfs), Len(cfs), Len(out), Len(out) + Len(cdir))
<1> DEFINE n == Len(cfs)
           ms == MembersOf(cfs)
           ws == CentralsOf(cfs)
           a == Len(out)
           b == Len(cdir)
           e == a + b
<1>1. n \in Nat /\ \A i \in 1..n : /\ IsSeq(ms[i]) /\ Tagged("local", ms[i]) /\ Len(ms[i]) > 0
                                   /\ IsSeq(ws[i]) /\ Tagged("central", ws[i]) /\ Len(ws[i]) > 0
  BY FineParts
<1>2. out = Flats(ms, n) /\ cdir = Flats(ws, n)
  OBVIOUS
<1>3. IsSeq(c) /\ Len(c) \in Nat /\ Lies(c, 0, out) /\ Lies(c, a, cdir)
  BY SequenceIs DEF LaidOut
<1>4. LaidOut(c, out, cdir, near, n, comment)
  OBVIOUS
<1> HIDE DEF n, ms, ws
<1>5. a \in Nat /\ \A i \in 1..n : Before(ms, i) \in 0..(a - 1)
  <2>1. \A i \in 1..n : IsSeq(ms[i])
    BY <1>1
  <2>2. \A i \in 1..n : IsSeq(ms[i]) /\ Len(ms[i]) > 0
    BY <1>1
  <2> QED BY <1>1, <1>2, <2>1, <2>2, FlatParts, OwnPlaces
<1>6. b \in Nat /\ (b > 0 => \E i \in 1..n : 0 = Before(ws, i))
  <2>1. \A i \in 1..n : IsSeq(ws[i])
    BY <1>1
  <2>2. b \in Nat /\ Before(ws, 1) = 0
    BY <1>1, <1>2, <2>1, FlatParts
  <2>3. n = 0 => b = 0
    BY <1>2, FlatEmpty, EmptySequence
  <2>4. b > 0 => 1 \in 1..n
    BY <1>1, <2>2, <2>3
  <2> QED BY <2>2, <2>4
<1>7. FlatTagged("local", ms, n, out)
  <2>1. \A i \in 1..n : Tagged("local", ms[i])
    BY <1>1
  <2> QED BY <1>1, <1>2, <2>1, FlatTags
<1>8. FlatTagged("central", ws, n, cdir)
  <2>1. \A i \in 1..n : Tagged("central", ws[i])
    BY <1>1
  <2> QED BY <1>1, <1>2, <2>1, FlatTags
<1>9. /\ e \in 0..(Len(c) - 1) /\ Tag(c, e) \in {"eocd", "eocd64"}
      /\ \A at \in e..(Len(c) - 1) : Tag(c, at) # "local"
  BY <1>3, <1>4, <1>5, <1>6, EndTags
<1> HIDE DEF a, b
<1>10. ASSUME NEW at \in 0..(a - 1) PROVE Tag(c, at) = Tag(out, at)
  <2>1. \A k \in 0..(Len(out) - 1) : 0 + k \in 0..(Len(c) - 1) /\ Tag(c, 0 + k) = Tag(out, k)
    <3>1. 0 \in Nat /\ Len(out) \in Nat
      BY <1>5 DEF a
    <3> QED BY ONLY <1>3, <3>1, LiesShort
  <2>2. at \in 0..(Len(out) - 1) /\ 0 + at = at
    BY DEF a
  <2> QED BY <2>1, <2>2
<1>11. ASSUME NEW k \in 0..(b - 1) PROVE Tag(c, a + k) = Tag(cdir, k)
  <2>1. \A j \in 0..(Len(cdir) - 1) : a + j \in 0..(Len(c) - 1) /\ Tag(c, a + j) = Tag(cdir, j)
    <3>1. a \in Nat /\ Len(cdir) \in Nat
      BY <1>5, <1>6 DEF b
    <3> QED BY ONLY <1>3, <3>1, LiesShort
  <2> QED BY <2>1 DEF b
<1>12. ASSUME NEW at \in 0..(a - 1)
       PROVE  /\ Tag(c, at) \notin {"central", "eocd", "eocd64"}
              /\ Tag(c, at) = "local" <=> \E i \in 1..n : at = Before(ms, i)
  <2>1. at \in 0..(Len(out) - 1)
    BY DEF a
  <2>2. /\ (\E i \in 1..n : at = Before(ms, i)) => Tag(out, at) = "local"
        /\ ~(\E i \in 1..n : at = Before(ms, i)) => Tag(out, at) \notin RecordTags
    BY <1>7, <2>1 DEF FlatTagged
  <2>3. Tag(c, at) = Tag(out, at)
    BY <1>10
  <2>4. "local" \in RecordTags /\ \A x \in {"central", "eocd", "eocd64"} : x \in RecordTags /\ x # "local"
    BY DEF RecordTags
  <2> QED BY <2>2, <2>3, <2>4
<1>13. ASSUME NEW at \in a..(e - 1)
       PROVE  Tag(c, at) \notin {"local", "eocd", "eocd64"}
  <2> DEFINE k == at - a
  <2>1. k \in 0..(b - 1) /\ a + k = at
    BY <1>5, <1>6
  <2> HIDE DEF k
  <2>2. Tag(c, at) = Tag(cdir, k)
    BY <1>11, <2>1
  <2>3. k \in 0..(Len(cdir) - 1)
    BY <2>1 DEF b
  <2>4. Tag(cdir, k) = "central" \/ Tag(cdir, k) \notin RecordTags
    BY <1>8, <2>3 DEF FlatTagged
  <2> QED BY <2>2, <2>4 DEF RecordTags
<1>14. ASSUME a < e PROVE Tag(c, a) = "central"
  <2>1. b > 0 /\ 0 \in 0..(b - 1) /\ a + 0 = a
    BY <1>5, <1>6, <1>14
  <2>2. Tag(c, a) = Tag(cdir, 0)
    BY <1>11, <2>1
  <2>3. 0 \in 0..(Len(cdir) - 1)
    BY <2>1 DEF b
  <2>4. Tag(cdir, 0) = "central"
    BY <1>6, <1>8, <2>1, <2>3 DEF FlatTagged
  <2> QED BY <2>2, <2>4
<1>15. ASSUME NEW at \in 0..(Len(c) - 1)
       PROVE  Tag(c, at) = "local" <=> \E i \in 1..n : at = Before(ms, i)
  <2>1. at \in 0..(a - 1) \/ at \in a..(e - 1) \/ at \in e..(Len(c) - 1)
    BY <1>3, <1>5, <1>6
  <2>2. at \notin 0..(a - 1) => ~ \E i \in 1..n : at = Before(ms, i)
    BY <1>5
  <2> QED BY <1>9, <1>12, <1>13, <2>1, <2>2
<1>16. a =< e
  BY <1>5, <1>6
<1>17. \A at \in 0..(a - 1) : Tag(c, at) \notin {"central", "eocd", "eocd64"}
  BY <1>12
<1>18. \A at \in a..(e - 1) : Tag(c, at) \notin {"eocd", "eocd64"}
  BY <1>13
<1> HIDE DEF e
<1>19. TaggedAs(c, ms, n, a, e)
  BY <1>9, <1>14, <1>15, <1>16, <1>17, <1>18 DEF TaggedAs
<1> QED BY <1>19 DEF ms, n, a, b, e

LEMMA LeastIs ==
  ASSUME NEW S, NEW m \in S, m \in Int, \A x \in S : x \in Int /\ m =< x
  PROVE  Min(S) = m
<1> DEFINE P(x) == x \in S /\ \A y \in S : x =< y
<1>1. P(m)
  OBVIOUS
<1>2. Min(S) = CHOOSE x : P(x)
  BY DEF Min
<1>3. P(CHOOSE x : P(x))
  BY <1>1
<1> DEFINE x == Min(S)
<1>4. x \in S /\ x =< m
  BY <1>2, <1>3
<1> HIDE DEF x
<1>5. x \in Int /\ m =< x
  BY <1>4
<1>6. x = m
  BY <1>4, <1>5
<1> QED BY <1>6 DEF x

LEMMA DirectoryPlace ==
  ASSUME NEW f, NEW n, NEW a \in Nat, NEW e \in Nat, Len(archive.cells) \in Nat,
         TaggedAs(archive.cells, f, n, a, e)
  PROVE  DirectoryAt = a..(e - 1) /\ DirectorySize = e - a
<1> DEFINE c == archive.cells
           At(tags) == {at \in 0..(Len(c) - 1) : Tag(c, at) \in tags}
           A == At({"central", "eocd", "eocd64"})
           E == At({"eocd", "eocd64"})
<1>1. /\ a =< e /\ e \in 0..(Len(c) - 1)
      /\ \A at \in 0..(a - 1) : Tag(c, at) \notin {"central", "eocd", "eocd64"}
      /\ \A at \in a..(e - 1) : Tag(c, at) \notin {"eocd", "eocd64"}
      /\ a < e => Tag(c, a) = "central"
      /\ Tag(c, e) \in {"eocd", "eocd64"}
  BY DEF TaggedAs
<1>2. Min(A) = a
  <2>1. a \in 0..(Len(c) - 1)
    BY <1>1
  <2>2. a \in A
    <3>1. a = e \/ a < e
      BY <1>1
    <3> QED BY <1>1, <2>1, <3>1
  <2>3. \A x \in A : x \in Int /\ a =< x
    <3> TAKE x \in A
    <3>1. x \in 0..(Len(c) - 1) /\ x \notin 0..(a - 1)
      BY <1>1
    <3> QED BY <3>1
  <2> HIDE DEF A
  <2> QED BY <2>2, <2>3, LeastIs
<1>3. Min(E) = e
  <2>1. e \in E
    BY <1>1
  <2>2. \A x \in E : x \in Int /\ e =< x
    <3> TAKE x \in E
    <3>1. x \in 0..(Len(c) - 1) /\ x \notin 0..(a - 1) /\ x \notin a..(e - 1)
      BY <1>1
    <3> QED BY <1>1, <3>1
  <2> HIDE DEF E
  <2> QED BY <2>1, <2>2, LeastIs
<1>4. DirectoryAt = Min(A)..Min(E) - 1
  BY DEF DirectoryAt
<1> HIDE DEF A, E
<1>5. DirectoryAt = a..(e - 1)
  BY <1>2, <1>3, <1>4
<1>6. Cardinality(a..(e - 1)) = e - a
  <2>1. a \in Int /\ e - 1 \in Int
    OBVIOUS
  <2>2. Cardinality(a..(e - 1)) = IF a > e - 1 THEN 0 ELSE (e - 1) - a + 1
    BY ONLY <2>1, FS_Interval, Zenon
  <2> QED BY <1>1, <2>2
<1> QED BY <1>5, <1>6 DEF DirectorySize

\* The sequences that begin before the i-th.
LEMMA CountBefore ==
  ASSUME NEW f, NEW n \in Nat, \A i \in 1..n : IsSeq(f[i]) /\ Len(f[i]) > 0, NEW i \in 1..n
  PROVE  Cardinality({h \in {Before(f, j) : j \in 1..n} : h < Before(f, i)}) = i - 1
<1> DEFINE S(k) == {Before(f, j) : j \in 1..k}
           Good == {k \in 0..n : IsFiniteSet(S(k)) /\ Cardinality(S(k)) = k}
<1>1. \A j \in 1..n : Before(f, j) \in Nat /\ Len(f[j]) \in Nat
  <2>1. \A j \in 1..n : IsSeq(f[j])
    OBVIOUS
  <2> QED BY <2>1, FlatParts
<1>2. ASSUME NEW j \in 1..n, NEW k \in 1..n, j < k PROVE Before(f, j) < Before(f, k)
  <2>1. Before(f, j) + Len(f[j]) =< Before(f, k)
    <3>1. \A l \in 1..n : IsSeq(f[l])
      OBVIOUS
    <3> QED BY <1>2, <3>1, FlatOrder
  <2> QED BY <1>1, <2>1
<1>3. 0 \in Good
  <2>1. S(0) = {}
    OBVIOUS
  <2> QED BY <2>1, FS_EmptySet
<1>4. ASSUME NEW k \in 1..n, k - 1 \in Good PROVE k \in Good
  <2> DEFINE x == Before(f, k)
             old == S(k - 1)
  <2>1. S(k) = old \cup {x}
    <3>1. \A j : j \in 1..k <=> j \in 1..(k - 1) \/ j = k
      OBVIOUS
    <3> QED BY <3>1
  <2>2. x \notin old
    <3> SUFFICES ASSUME NEW j \in 1..(k - 1), x = Before(f, j) PROVE FALSE
      OBVIOUS
    <3>1. j \in 1..n /\ j < k
      OBVIOUS
    <3>2. Before(f, j) < Before(f, k)
      BY <1>2, <3>1
    <3> QED BY <1>1, <3>1, <3>2
  <2>3. IsFiniteSet(old) /\ Cardinality(old) = k - 1
    BY <1>4
  <2> HIDE DEF x, old
  <2>4. IsFiniteSet(old \cup {x}) /\ Cardinality(old \cup {x}) = Cardinality(old) + 1
    BY <2>2, <2>3, FS_AddElement
  <2>5. k \in 0..n /\ (k - 1) + 1 = k
    OBVIOUS
  <2>6. IsFiniteSet(S(k)) /\ Cardinality(S(k)) = k
    <3> HIDE DEF S
    <3> QED BY <2>1, <2>3, <2>4, <2>5
  <2> HIDE DEF S
  <2> QED BY <2>5, <2>6
<1>5. \A k \in 0..n : k \in Good
  <2> HIDE DEF Good
  <2> QED BY <1>3, <1>4, Induct
<1>6. {h \in {Before(f, j) : j \in 1..n} : h < Before(f, i)} = S(i - 1)
  <2>1. ASSUME NEW j \in 1..n PROVE Before(f, j) < Before(f, i) <=> j \in 1..(i - 1)
    <3>1. CASE j < i
      BY <1>2, <3>1
    <3>2. CASE j = i
      BY <1>1, <3>2
    <3>3. CASE i < j
      <4>1. Before(f, i) < Before(f, j)
        BY <1>2, <3>3
      <4> QED BY <1>1, <3>3, <4>1
    <3> QED BY <3>1, <3>2, <3>3
  <2>2. \A j \in 1..(i - 1) : j \in 1..n
    OBVIOUS
  <2> QED BY <2>1, <2>2
<1>7. i - 1 \in Good
  <2>1. i - 1 \in 0..n
    OBVIOUS
  <2> HIDE DEF Good
  <2> QED BY <1>5, <2>1
<1> QED BY <1>6, <1>7

LEMMA StartIs ==
  ASSUME NEW f, NEW n \in Nat, \A i \in 1..n : IsSeq(f[i]) /\ Len(f[i]) > 0,
         NEW a, NEW e, TaggedAs(archive.cells, f, n, a, e),
         \A i \in 1..n : Before(f, i) \in 0..(Len(archive.cells) - 1), NEW i \in 1..n
  PROVE  Start(i) = Before(f, i)
<1> DEFINE c == archive.cells
           H == {Before(f, j) : j \in 1..n}
           P(at) == at \in Headers /\ Cardinality({h \in Headers : h < at}) = i - 1
<1>1. Headers = H
  <2>1. \A at \in 0..(Len(c) - 1) : Tag(c, at) = "local" <=> \E j \in 1..n : at = Before(f, j)
    BY DEF TaggedAs
  <2>2. Headers = {at \in 0..(Len(c) - 1) : Tag(c, at) = "local"}
    BY DEF Headers
  <2> QED BY <2>1, <2>2
<1>2. \A j \in 1..n : Cardinality({h \in H : h < Before(f, j)}) = j - 1
  BY CountBefore
<1>3. P(Before(f, i))
  BY <1>1, <1>2
<1>4. Start(i) = CHOOSE at : P(at)
  BY DEF Start
<1>5. P(Start(i))
  BY <1>3, <1>4
<1>6. PICK j \in 1..n : Start(i) = Before(f, j)
  BY <1>1, <1>5
<1>7. j - 1 = i - 1
  BY <1>1, <1>2, <1>5, <1>6
<1>8. j = i
  BY <1>7
<1> QED BY <1>6, <1>8

----------------------------------------------------------------------------
(* Dates.                                                                  *)

MonthAfter(y, m) == IF m = 12 THEN <<y + 1, 1>> ELSE <<y, m + 1>>
MonthBefore(y, m) == IF m = 1 THEN <<y - 1, 12>> ELSE <<y, m - 1>>

LEMMA YearsPass ==
  ASSUME NEW y \in Int
  PROVE  (365 * y + (y \div 4) - (y \div 100) + (y \div 400))
           - (365 * (y - 1) + ((y - 1) \div 4) - ((y - 1) \div 100) + ((y - 1) \div 400))
         = 365 + (IF Leap(y) THEN 1 ELSE 0)
<1>1. (y \div 4) - ((y - 1) \div 4) = IF y % 4 = 0 THEN 1 ELSE 0
  OBVIOUS
<1>2. (y \div 100) - ((y - 1) \div 100) = IF y % 100 = 0 THEN 1 ELSE 0
  OBVIOUS
<1>3. (y \div 400) - ((y - 1) \div 400) = IF y % 400 = 0 THEN 1 ELSE 0
  OBVIOUS
<1>4. (y % 400 = 0 => y % 100 = 0) /\ (y % 100 = 0 => y % 4 = 0)
  OBVIOUS
<1> DEFINE a == y \div 4
           b == y \div 100
           c == y \div 400
           a1 == (y - 1) \div 4
           b1 == (y - 1) \div 100
           c1 == (y - 1) \div 400
<1>5. a \in Int /\ b \in Int /\ c \in Int /\ a1 \in Int /\ b1 \in Int /\ c1 \in Int
  OBVIOUS
<1>6. Leap(y) <=> (y % 4 = 0 /\ y % 100 # 0) \/ y % 400 = 0
  BY DEF Leap
<1> HIDE DEF a, b, c, a1, b1, c1
<1>7. (365 * y + a - b + c) - (365 * (y - 1) + a1 - b1 + c1)
        = 365 + (a - a1) - (b - b1) + (c - c1)
  BY <1>5
<1>8. (a - a1) - (b - b1) + (c - c1) = IF Leap(y) THEN 1 ELSE 0
  BY <1>1, <1>2, <1>3, <1>4, <1>5, <1>6 DEF a, b, c, a1, b1, c1
<1>9. (365 * y + a - b + c) - (365 * (y - 1) + a1 - b1 + c1)
        = 365 + (IF Leap(y) THEN 1 ELSE 0)
  BY <1>5, <1>7, <1>8
<1> QED BY <1>9 DEF a, b, c, a1, b1, c1

LEMMA MonthsPass ==
  ASSUME NEW y \in Int, NEW m \in 1..12
  PROVE  /\ days_in_month(y, m) \in 28..31
         /\ MonthAfter(y, m)[1] \in Int /\ MonthAfter(y, m)[2] \in 1..12
         /\ DaysSinceEpoch(MonthAfter(y, m)[1], MonthAfter(y, m)[2], 1)
              = DaysSinceEpoch(y, m, 1) + days_in_month(y, m)
<1>1. CASE m = 2
  <2>1. days_in_month(y, m) = IF Leap(y) THEN 29 ELSE 28
    BY <1>1 DEF days_in_month
  <2>2. MonthAfter(y, m) = <<y, 3>>
    BY <1>1 DEF MonthAfter
  <2>3. DaysSinceEpoch(y, 3, 1)
          = 365 * y + (y \div 4) - (y \div 100) + (y \div 400) + 0 + 1 - 1 - 719468
    BY DEF DaysSinceEpoch
  <2>4. DaysSinceEpoch(y, 2, 1)
          = 365 * (y - 1) + ((y - 1) \div 4) - ((y - 1) \div 100) + ((y - 1) \div 400)
              + 337 + 1 - 1 - 719468
    BY DEF DaysSinceEpoch
  <2> DEFINE p == 365 * y + (y \div 4) - (y \div 100) + (y \div 400)
             q == 365 * (y - 1) + ((y - 1) \div 4) - ((y - 1) \div 100) + ((y - 1) \div 400)
  <2>5. p \in Int /\ q \in Int /\ p - q = 365 + (IF Leap(y) THEN 1 ELSE 0)
    BY YearsPass
  <2> HIDE DEF p, q
  <2>6. DaysSinceEpoch(y, 3, 1) = p - 719468 /\ DaysSinceEpoch(y, 2, 1) = q + 337 - 719468
    BY <2>3, <2>4, <2>5 DEF p, q
  <2>7. DaysSinceEpoch(y, 3, 1) = DaysSinceEpoch(y, 2, 1) + days_in_month(y, m)
    BY <2>1, <2>5, <2>6
  <2> QED BY <1>1, <2>1, <2>2, <2>7
<1>2. CASE m # 2
  <2> DEFINE years == y - (IF m =< 2 THEN 1 ELSE 0)
             s == 365 * years + (years \div 4) - (years \div 100) + (years \div 400)
             after == MonthAfter(y, m)
  <2>1. s \in Int
    OBVIOUS
  <2>2. DaysSinceEpoch(y, m, 1) = s + ((153 * ((m + 9) % 12) + 2) \div 5) + 1 - 1 - 719468
    BY DEF DaysSinceEpoch
  <2>3. after[1] - (IF after[2] =< 2 THEN 1 ELSE 0) = years /\ after[1] \in Int
        /\ after[2] = (IF m = 12 THEN 1 ELSE m + 1)
    BY <1>2 DEF MonthAfter
  <2> HIDE DEF after
  <2>4. DaysSinceEpoch(after[1], after[2], 1)
          = s + ((153 * ((after[2] + 9) % 12) + 2) \div 5) + 1 - 1 - 719468
    BY <2>3 DEF DaysSinceEpoch
  <2> HIDE DEF s, years
  <2> DEFINE k == (153 * ((m + 9) % 12) + 2) \div 5
             l == (153 * ((after[2] + 9) % 12) + 2) \div 5
  <2>5. k \in Int /\ l \in Int /\ l = k + days_in_month(y, m) /\ days_in_month(y, m) \in {30, 31}
    <3>1. m \in {1, 3, 5, 7, 8, 10, 12} => days_in_month(y, m) = 31
      BY DEF days_in_month
    <3>2. m \in {4, 6, 9, 11} => days_in_month(y, m) = 30
      BY DEF days_in_month
    <3>3. m = 1 \/ m = 3 \/ m = 4 \/ m = 5 \/ m = 6 \/ m = 7 \/ m = 8 \/ m = 9 \/ m = 10
            \/ m = 11 \/ m = 12
      BY <1>2
    <3> QED BY <2>3, <3>1, <3>2, <3>3
  <2> HIDE DEF k, l
  <2>6. DaysSinceEpoch(after[1], after[2], 1) = DaysSinceEpoch(y, m, 1) + days_in_month(y, m)
    BY <2>1, <2>2, <2>4, <2>5 DEF k, l
  <2>7. after[2] \in 1..12
    BY <2>3
  <2> QED BY <2>3, <2>5, <2>6, <2>7 DEF after
<1> QED BY <1>1, <1>2

Dates == Int \X (1..12) \X (0..31)

\* A step of Fitted, and where it arrives.
FitStep(date, f) ==
  LET y == date[1]
      m == date[2]
      d == date[3]
      before == MonthBefore(y, m)
      after == MonthAfter(y, m)
  IN  IF d < 1 THEN f[<<before[1], before[2], d + days_in_month(before[1], before[2])>>]
      ELSE IF d > days_in_month(y, m) THEN f[<<after[1], after[2], d - days_in_month(y, m)>>]
      ELSE date

Fit(date) ==
  LET y == date[1]
      m == date[2]
      d == date[3]
      before == MonthBefore(y, m)
      after == MonthAfter(y, m)
  IN  IF d < 1 THEN <<before[1], before[2], d + days_in_month(before[1], before[2])>>
      ELSE IF d > days_in_month(y, m) THEN <<after[1], after[2], d - days_in_month(y, m)>>
      ELSE date

LEMMA MonthsReturn ==
  ASSUME NEW y \in Int, NEW m \in 1..12
  PROVE  LET b == MonthBefore(y, m) IN
         b[1] \in Int /\ b[2] \in 1..12 /\ MonthAfter(b[1], b[2]) = <<y, m>>
<1>1. CASE m = 1
  BY <1>1 DEF MonthBefore, MonthAfter
<1>2. CASE m # 1
  <2>1. MonthBefore(y, m) = <<y, m - 1>> /\ m - 1 \in 1..12 /\ m - 1 # 12 /\ (m - 1) + 1 = m
    BY <1>2 DEF MonthBefore
  <2>2. MonthAfter(y, m - 1) = <<y, m>>
    BY <2>1 DEF MonthAfter
  <2> QED BY <2>1, <2>2
<1> QED BY <1>1, <1>2

LEMMA DayIs ==
  ASSUME NEW y \in Int, NEW m \in 1..12, NEW d \in Int
  PROVE  /\ DaysSinceEpoch(y, m, 1) \in Int
         /\ DaysSinceEpoch(y, m, d) = DaysSinceEpoch(y, m, 1) + d - 1
<1> DEFINE years == y - (IF m =< 2 THEN 1 ELSE 0)
           s == 365 * years + (years \div 4) - (years \div 100) + (years \div 400)
           w == (153 * ((m + 9) % 12) + 2) \div 5
<1>1. s \in Int /\ w \in Int
  OBVIOUS
<1>2. DaysSinceEpoch(y, m, d) = s + w + d - 1 - 719468
  BY DEF DaysSinceEpoch
<1>3. DaysSinceEpoch(y, m, 1) = s + w + 1 - 1 - 719468
  BY DEF DaysSinceEpoch
<1> HIDE DEF s, w
<1> QED BY <1>1, <1>2, <1>3

\* The date t is in the calendar, and so many days after the first of the month.
Fits(y, m, d, t) ==
  /\ t \in Dates /\ t[3] >= 1 /\ t[3] =< days_in_month(t[1], t[2])
  /\ DaysSinceEpoch(t[1], t[2], t[3]) = DaysSinceEpoch(y, m, 1) + d - 1

Fitting(y, m, d) == Fits(y, m, d, Fit(<<y, m, d>>))

\* A date in the calendar stays, any other one comes into it at once.
LEMMA FitIs ==
  ASSUME NEW y \in Int, NEW m \in 1..12, NEW d \in 0..31
  PROVE  Fitting(y, m, d)
<1> DEFINE t == Fit(<<y, m, d>>)
           dim == days_in_month(y, m)
           first == DaysSinceEpoch(y, m, 1)
<1>1. first \in Int /\ d \in Int /\ DaysSinceEpoch(y, m, d) = first + d - 1
  <2>1. d \in Int
    OBVIOUS
  <2> QED BY <2>1, DayIs
<1>2. dim \in 28..31
  BY MonthsPass
<1>3. CASE d < 1
  <2> DEFINE b == MonthBefore(y, m)
             p == b[1]
             q == b[2]
             last == days_in_month(p, q)
  <2>1. p \in Int /\ q \in 1..12 /\ MonthAfter(p, q) = <<y, m>>
    BY MonthsReturn
  <2>2. t = <<p, q, d + last>>
    BY <1>3 DEF Fit
  <2> HIDE DEF p, q
  <2>3. last \in 28..31 /\ first = DaysSinceEpoch(p, q, 1) + last
    <3>1. MonthAfter(p, q)[1] = y /\ MonthAfter(p, q)[2] = m
      BY <2>1
    <3>2. /\ last \in 28..31
          /\ DaysSinceEpoch(MonthAfter(p, q)[1], MonthAfter(p, q)[2], 1) = DaysSinceEpoch(p, q, 1) + last
      BY <2>1, MonthsPass
    <3> QED BY <3>1, <3>2
  <2>4. last =< days_in_month(p, q)
    BY <2>3
  <2> HIDE DEF last, t, first
  <2>5. t = <<p, q, last>> /\ d = 0 /\ last \in Int
    <3>1. d = 0 /\ d + last = last
      BY <1>3, <2>3
    <3> QED BY <2>2, <2>3, <3>1
  <2>6. DaysSinceEpoch(p, q, last) = DaysSinceEpoch(p, q, 1) + last - 1
        /\ DaysSinceEpoch(p, q, 1) \in Int
    BY <2>1, <2>5, DayIs
  <2>7. DaysSinceEpoch(p, q, last) = first + d - 1
    BY ONLY <1>1, <2>3, <2>5, <2>6
  <2>8. last \in 1..31
    BY <2>3
  <2>9. Fits(y, m, d, <<p, q, last>>)
    <3>1. p \in Int /\ q \in 1..12
      BY <2>1
    <3>2. DaysSinceEpoch(p, q, last) = DaysSinceEpoch(y, m, 1) + d - 1
      BY <2>7 DEF first
    <3> QED BY ONLY <2>4, <2>8, <3>1, <3>2 DEF Fits, Dates
  <2> QED BY <2>5, <2>9 DEF Fitting, t
<1>4. CASE ~(d < 1) /\ d > dim
  <2> DEFINE b == MonthAfter(y, m)
             p == b[1]
             q == b[2]
             day == d - dim
  <2>1. p \in Int /\ q \in 1..12 /\ DaysSinceEpoch(p, q, 1) = first + dim
    BY MonthsPass
  <2>2. t = <<p, q, day>>
    BY <1>4 DEF Fit
  <2>3. day \in 1..3
    BY <1>2, <1>4
  <2> HIDE DEF p, q, t, dim
  <2>4. days_in_month(p, q) \in 28..31
    BY <2>1, MonthsPass
  <2>5. day \in 1..31 /\ day =< days_in_month(p, q) /\ day \in Int /\ day = d - dim /\ dim \in Int
    <3> HIDE DEF day
    <3>1. day \in 1..31 /\ day =< days_in_month(p, q) /\ day \in Int
      BY <2>3, <2>4
    <3> QED BY <1>2, <3>1 DEF day
  <2> HIDE DEF day, first
  <2>6. DaysSinceEpoch(p, q, day) = DaysSinceEpoch(p, q, 1) + day - 1
        /\ DaysSinceEpoch(p, q, 1) \in Int
    BY <2>1, <2>5, DayIs
  <2>7. DaysSinceEpoch(p, q, day) = first + d - 1
    BY ONLY <1>1, <2>1, <2>5, <2>6
  <2>8. Fits(y, m, d, <<p, q, day>>)
    <3>1. p \in Int /\ q \in 1..12
      BY <2>1
    <3>2. DaysSinceEpoch(p, q, day) = DaysSinceEpoch(y, m, 1) + d - 1
      BY <2>7 DEF first
    <3>3. day \in 1..31 /\ day =< days_in_month(p, q)
      BY <2>5
    <3> QED BY ONLY <3>1, <3>2, <3>3 DEF Fits, Dates
  <2> QED BY <2>2, <2>8 DEF Fitting, t
<1>5. CASE ~(d < 1) /\ ~(d > dim)
  <2>1. t = <<y, m, d>>
    BY <1>5 DEF Fit
  <2>2. d \in 1..31 /\ d =< days_in_month(y, m)
    BY <1>2, <1>5
  <2> HIDE DEF t
  <2>3. Fits(y, m, d, <<y, m, d>>)
    <3>1. DaysSinceEpoch(y, m, d) = DaysSinceEpoch(y, m, 1) + d - 1
      BY <1>1
    <3>2. y \in Int /\ m \in 1..12
      OBVIOUS
    <3> QED BY ONLY <2>2, <3>1, <3>2 DEF Fits, Dates
  <2> QED BY <2>1, <2>3 DEF Fitting, t
<1> QED BY <1>3, <1>4, <1>5

LEMMA FittedStep == Fitted = [date \in Dates |-> FitStep(date, Fitted)]
<1> DEFINE g == [date \in Dates |-> Fit(date)]
<1>1. ASSUME NEW date \in Dates PROVE g[date] = FitStep(date, g)
  <2> DEFINE t == Fit(date)
  <2>1. PICK y \in Int, m \in 1..12, d \in 0..31 : date = <<y, m, d>>
    BY DEF Dates
  <2>2. t \in Dates /\ t[3] >= 1 /\ t[3] =< days_in_month(t[1], t[2])
    <3>1. Fitting(y, m, d)
      BY FitIs
    <3>2. Fits(y, m, d, t)
      BY <2>1, <3>1 DEF Fitting
    <3> HIDE DEF t
    <3> QED BY <3>2 DEF Fits
  <2>3. g[date] = t
    OBVIOUS
  <2>4. Fit(t) = t
    <3> HIDE DEF t
    <3>1. days_in_month(t[1], t[2]) \in Int /\ t[3] \in Int
      <4>1. PICK p \in Int, q \in 1..12, x \in 0..31 : t = <<p, q, x>>
        BY <2>2 DEF Dates
      <4>2. days_in_month(p, q) \in 28..31
        BY MonthsPass
      <4> QED BY <4>1, <4>2
    <3>2. ~(t[3] < 1) /\ ~(t[3] > days_in_month(t[1], t[2]))
      BY <2>2, <3>1
    <3> QED BY <3>2 DEF Fit
  <2>5. g[t] = t
    BY <2>2, <2>4
  <2> DEFINE b == MonthBefore(date[1], date[2])
             a == MonthAfter(date[1], date[2])
             back == <<b[1], b[2], date[3] + days_in_month(b[1], b[2])>>
             forth == <<a[1], a[2], date[3] - days_in_month(date[1], date[2])>>
             early == date[3] < 1
             late == date[3] > days_in_month(date[1], date[2])
  <2>6. t = IF early THEN back ELSE IF late THEN forth ELSE date
    BY DEF Fit
  <2>7. FitStep(date, g) = IF early THEN g[back] ELSE IF late THEN g[forth] ELSE date
    BY DEF FitStep
  <2> HIDE DEF t, back, forth, early, late, g
  <2> QED BY <2>3, <2>5, <2>6, <2>7
<1>2. g = [date \in Dates |-> FitStep(date, g)]
  <2>1. g = [date \in Dates |-> g[date]]
    OBVIOUS
  <2> HIDE DEF g
  <2> QED BY <1>1, <2>1
<1> HIDE DEF g
<1> DEFINE h == CHOOSE f : f = [date \in Dates |-> FitStep(date, f)]
<1>3. h = [date \in Dates |-> FitStep(date, h)]
  BY <1>2, Zenon
<1>4. Fitted = h
  BY DEF Fitted, Dates, FitStep, MonthBefore, MonthAfter
<1> HIDE DEF h
<1> QED BY <1>3, <1>4

LEMMA FittedIs ==
  ASSUME NEW y \in Int, NEW m \in 1..12, NEW d \in 0..31
  PROVE  Fitted[<<y, m, d>>] = Fit(<<y, m, d>>)
<1> DEFINE date == <<y, m, d>>
           t == Fit(date)
<1>1. \A x \in Dates : Fitted[x] = FitStep(x, Fitted)
  BY FittedStep
<1>2. date \in Dates
  BY DEF Dates
<1>3. t \in Dates /\ t[3] >= 1 /\ t[3] =< days_in_month(t[1], t[2])
  <2>1. Fits(y, m, d, t)
    <3>1. Fitting(y, m, d)
      BY FitIs
    <3> QED BY <3>1 DEF Fitting
  <2> HIDE DEF t
  <2> QED BY <2>1 DEF Fits
<1> HIDE DEF t, date
<1>4. days_in_month(t[1], t[2]) \in Int /\ t[3] \in Int
  <2>1. PICK p \in Int, q \in 1..12, x \in 0..31 : t = <<p, q, x>>
    BY <1>3 DEF Dates
  <2>2. days_in_month(p, q) \in 28..31
    BY MonthsPass
  <2> QED BY <2>1, <2>2
<1>5. Fitted[t] = t
  <2>1. ~(t[3] < 1) /\ ~(t[3] > days_in_month(t[1], t[2]))
    BY <1>3, <1>4
  <2>2. FitStep(t, Fitted) = t
    BY <2>1 DEF FitStep
  <2> QED BY <1>1, <1>3, <2>2
<1>6. Fitted[date] = Fitted[t] \/ (Fitted[date] = date /\ t = date)
  <2> DEFINE b == MonthBefore(date[1], date[2])
             a == MonthAfter(date[1], date[2])
             back == <<b[1], b[2], date[3] + days_in_month(b[1], b[2])>>
             forth == <<a[1], a[2], date[3] - days_in_month(date[1], date[2])>>
             early == date[3] < 1
             late == date[3] > days_in_month(date[1], date[2])
  <2>1. t = IF early THEN back ELSE IF late THEN forth ELSE date
    BY DEF Fit, t
  <2>2. FitStep(date, Fitted) = IF early THEN Fitted[back] ELSE IF late THEN Fitted[forth] ELSE date
    BY DEF FitStep
  <2> HIDE DEF back, forth, early, late
  <2> QED BY <1>1, <1>2, <2>1, <2>2
<1> QED BY <1>5, <1>6 DEF t, date

\* dos_to_unix keeps the promise of mktime.
LEMMA UnixIs ==
  ASSUME NEW stamp, stamp.time \in Nat, stamp.date \in Nat
  PROVE  dos_to_unix(stamp) = IF InClock(stamp) THEN Mktime(stamp) ELSE 0
<1> DEFINE y == Year(stamp) + ((Month(stamp) - 1) \div 12)
           m == ((Month(stamp) - 1) % 12) + 1
           d == Day(stamp)
           date == normalize_ymd(Year(stamp), Month(stamp), Day(stamp))
<1>1. y \in Int /\ m \in 1..12 /\ d \in 0..31
  <2> DEFINE k == stamp.date
  <2>1. k \in Nat /\ Year(stamp) = (k \div 512) + 1980 /\ Month(stamp) = (k \div 32) % 16
        /\ Day(stamp) = k % 32
    BY DEF Year, Month, Day
  <2> HIDE DEF k
  <2>2. Year(stamp) \in Int /\ Month(stamp) \in 0..15 /\ Day(stamp) \in 0..31
    BY <2>1
  <2> QED BY <2>2
<1>2. date = Fitted[<<y, m, d>>]
  BY DEF normalize_ymd
<1>3. dos_to_unix(stamp) =
        IF InClock(stamp) THEN DaysSinceEpoch(date[1], date[2], date[3]) * 86400 + OfDay(stamp)
        ELSE 0
  BY DEF dos_to_unix
<1>4. Mktime(stamp) = (DaysSinceEpoch(y, m, 1) + d - 1) * 86400 + OfDay(stamp)
  BY DEF Mktime
<1> HIDE DEF y, m, d, date
<1>5. DaysSinceEpoch(date[1], date[2], date[3]) = DaysSinceEpoch(y, m, 1) + d - 1
  <2>1. date = Fit(<<y, m, d>>)
    BY <1>1, <1>2, FittedIs
  <2>2. Fits(y, m, d, date)
    <3>1. Fitting(y, m, d)
      BY <1>1, FitIs
    <3> QED BY <2>1, <3>1, Zenon DEF Fitting
  <2> QED BY <2>2 DEF Fits
<1> DEFINE a == DaysSinceEpoch(date[1], date[2], date[3])
           b == DaysSinceEpoch(y, m, 1) + d - 1
<1>6. a = b
  BY <1>5
<1>7. dos_to_unix(stamp) = IF InClock(stamp) THEN a * 86400 + OfDay(stamp) ELSE 0
  BY <1>3
<1>8. Mktime(stamp) = b * 86400 + OfDay(stamp)
  BY <1>4
<1> HIDE DEF a, b
<1>9. Mktime(stamp) = a * 86400 + OfDay(stamp)
  BY ONLY <1>6, <1>8
<1> QED BY ONLY <1>7, <1>9

----------------------------------------------------------------------------
(* What the writer makes of its files.                                     *)

LEMMA UntaggedMap ==
  ASSUME NEW n \in Nat, NEW f, f = [k \in 1..n |-> f[k]],
         \A k \in 1..n : f[k][1] \notin RecordTags
  PROVE  Untagged(f) /\ Len(f) = n
<1>1. IsSeq(f) /\ Len(f) = n
  BY SequenceOf
<1> QED BY <1>1 DEF Untagged

LEMMA UntaggedOne ==
  ASSUME NEW x, x[1] \notin RecordTags
  PROVE  Untagged(<<x>>) /\ Len(<<x>>) = 1
<1> DEFINE s == <<x>>
<1>1. IsSeq(s) /\ Len(s) = 1 /\ s[1] = x
  BY SingleSequence
<1> HIDE DEF s
<1>2. \A k \in 1..1 : k = 1
  OBVIOUS
<1>3. Untagged(s)
  BY <1>1, <1>2 DEF Untagged
<1> QED BY <1>1, <1>3 DEF s

LEMMA UntaggedJoin ==
  ASSUME NEW s, NEW t, Untagged(s), Untagged(t)
  PROVE  Untagged(s \o t) /\ Len(s \o t) = Len(s) + Len(t)
<1> DEFINE both == s \o t
           m == Len(s)
           n == Len(t)
<1>1. IsSeq(s) /\ IsSeq(t) /\ (\A k \in 1..m : s[k][1] \notin RecordTags)
      /\ \A k \in 1..n : t[k][1] \notin RecordTags
  BY DEF Untagged
<1>2. m \in Nat /\ n \in Nat
  BY <1>1, SequenceIs
<1>3. Joined(s, t, both)
  BY <1>1, ConcatJoins
<1> HIDE DEF both
<1>4. /\ IsSeq(both) /\ Len(both) = m + n
      /\ \A i \in 1..m : both[i] = s[i]
      /\ \A j \in 1..n : both[m + j] = t[j]
  BY <1>3 DEF Joined
<1> HIDE DEF m, n
<1>5. ASSUME NEW k \in 1..(m + n) PROVE both[k][1] \notin RecordTags
  <2>1. CASE k \in 1..m
    BY <1>1, <1>4, <2>1
  <2>2. CASE k \notin 1..m
    <3> DEFINE j == k - m
    <3>1. j \in 1..n /\ m + j = k
      BY <1>2, <2>2
    <3> HIDE DEF j
    <3> QED BY <1>1, <1>4, <3>1
  <2> QED BY <2>1, <2>2
<1>6. Untagged(both)
  BY <1>4, <1>5 DEF Untagged
<1> QED BY <1>4, <1>6 DEF both, m, n

FileIs(f) ==
  /\ IsSeq(f.name) /\ IsSeq(f.data) /\ IsSeq(f.comment) /\ IsFields(f.extra)
  /\ f.stamp.time \in Nat /\ f.stamp.date \in Nat

LEMMA JobIs ==
  ASSUME job \in Jobs
  PROVE  /\ IsSeq(job.files) /\ Len(job.files) \in Nat /\ DOMAIN job.files = 1..Len(job.files)
         /\ \A i \in 1..Len(job.files) : FileIs(job.files[i])
         /\ IsSeq(Comment) /\ IsSeq(Methods)
<1>1. job \in [call : {"archive", "encrypted", "full"}, files : Seq(Files), method : STRING,
               parallel : BOOLEAN, workers : Nat, pw : STRING, methods : Seq(STRING),
               comment : Seq(STRING)]
  BY JobsAssumption
<1>2. job.files \in Seq(Files) /\ job.methods \in Seq(STRING) /\ job.comment \in Seq(STRING)
  BY <1>1
<1> DEFINE files == job.files
<1>3. IsSeq(files) /\ IsSeq(job.methods) /\ IsSeq(job.comment)
  BY <1>2 DEF IsSeq
<1>4. Len(files) \in Nat /\ DOMAIN files = 1..Len(files)
  BY <1>3, SequenceIs
<1>5. ASSUME NEW i \in 1..Len(files) PROVE FileIs(files[i])
  <2> DEFINE f == files[i]
  <2>1. f \in Files
    BY <1>2
  <2> HIDE DEF f
  <2>2. /\ f.name \in Seq(STRING) /\ f.data \in Seq(STRING \ {"garbage"})
        /\ f.comment \in Seq(STRING) /\ f.extra \in Seq([id : STRING, data : Seq(Nat)])
        /\ f.stamp \in [time : Nat, date : Nat]
    BY <2>1 DEF Files
  <2>3. IsSeq(f.name) /\ IsSeq(f.data) /\ IsSeq(f.comment) /\ IsSeq(f.extra)
    BY <2>2 DEF IsSeq
  <2>4. IsFields(f.extra)
    <3> DEFINE x == f.extra
    <3>1. x \in Seq([id : STRING, data : Seq(Nat)]) /\ IsSeq(x)
      BY <2>2, <2>3
    <3> HIDE DEF x
    <3>2. \A k \in 1..Len(x) : x[k] \in [id : STRING, data : Seq(Nat)]
      <4> DEFINE Fields == [id : STRING, data : Seq(Nat)]
      <4>1. x \in Seq(Fields)
        BY <3>1
      <4> HIDE DEF Fields
      <4>2. \A k \in 1..Len(x) : x[k] \in Fields
        BY <4>1, ElementOfSeq
      <4> QED BY <4>2 DEF Fields
    <3>3. \A k \in 1..Len(x) : x[k] = [id |-> x[k].id, data |-> x[k].data]
      BY <3>2
    <3>4. IsFields(x)
      BY <3>1, <3>3 DEF IsFields
    <3> QED BY <3>4 DEF x
  <2>5. f.stamp.time \in Nat /\ f.stamp.date \in Nat
    BY <2>2
  <2>6. FileIs(f)
    BY <2>3, <2>4, <2>5 DEF FileIs
  <2> QED BY <2>6 DEF f
<1>6. IsSeq(Comment)
  BY <1>3, EmptySequence DEF Comment
<1>7. IsSeq(Methods)
  <2>1. CASE job.call = "archive" \/ (job.call = "full" /\ job.methods = <<>>)
    <3>1. Methods = [i \in 1..Len(files) |-> "none"]
      BY <1>4, <2>1 DEF Methods
    <3>2. Methods = [i \in 1..Len(files) |-> Methods[i]]
      BY <3>1
    <3> QED BY <1>4, <3>2, SequenceOf
  <2>2. CASE ~(job.call = "archive" \/ (job.call = "full" /\ job.methods = <<>>))
    BY <1>3, <2>2 DEF Methods
  <2> QED BY <2>1, <2>2
<1> QED BY <1>3, <1>4, <1>5, <1>6, <1>7

IsCompressed(cf) ==
  cf = [name |-> cf.name, method |-> cf.method, crc |-> cf.crc, comp |-> cf.comp,
        uncomp |-> cf.uncomp, data |-> cf.data, em |-> cf.em, comment |-> cf.comment,
        extra |-> cf.extra, stamp |-> cf.stamp, attrs |-> cf.attrs]

LEMMA ReplacedIs ==
  ASSUME NEW cf, IsCompressed(cf), NEW em, NEW data
  PROVE  LET x == Replaced(cf, em, data) IN
         /\ x.name = cf.name /\ x.comment = cf.comment /\ x.extra = cf.extra
         /\ x.stamp = cf.stamp /\ x.attrs = cf.attrs /\ x.crc = cf.crc
         /\ x.method = cf.method /\ x.uncomp = cf.uncomp
         /\ x.data = data /\ x.comp = Len(data) /\ x.em = em
<1> DEFINE l == Len(data)
<1>1. Replaced(cf, em, data)
        = [name |-> cf.name, method |-> cf.method, crc |-> cf.crc, comp |-> l,
           uncomp |-> cf.uncomp, data |-> data, em |-> em, comment |-> cf.comment,
           extra |-> cf.extra, stamp |-> cf.stamp, attrs |-> cf.attrs]
  <2>1. Replaced(cf, em, data) = [cf EXCEPT !.data = data, !.comp = l, !.em = em]
    BY DEF Replaced
  <2> HIDE DEF l
  <2> QED BY <2>1 DEF IsCompressed
<1> HIDE DEF l
<1>2. /\ Replaced(cf, em, data).name = cf.name /\ Replaced(cf, em, data).comment = cf.comment
      /\ Replaced(cf, em, data).extra = cf.extra /\ Replaced(cf, em, data).stamp = cf.stamp
      /\ Replaced(cf, em, data).attrs = cf.attrs /\ Replaced(cf, em, data).crc = cf.crc
      /\ Replaced(cf, em, data).method = cf.method /\ Replaced(cf, em, data).uncomp = cf.uncomp
      /\ Replaced(cf, em, data).data = data /\ Replaced(cf, em, data).comp = l
      /\ Replaced(cf, em, data).em = em
  BY <1>1
<1> QED BY <1>2 DEF l

\* What compress_file returns, unless it is an error.
CompressedAs(f, cf) ==
  /\ IsSeq(cf.name) /\ IsSeq(cf.comment) /\ IsFields(cf.extra) /\ Untagged(cf.data)
  /\ cf.name = f.name /\ cf.comment = f.comment /\ cf.extra = f.extra
  /\ cf.stamp = f.stamp /\ cf.attrs = f.attrs /\ cf.crc = f.data /\ cf.em = "none"
  /\ cf.method \in {"store", "deflate"}
  /\ cf.comp = Len(cf.data) /\ cf.uncomp = Len(f.data) /\ cf.uncomp \in Nat
  /\ IsCompressed(cf)

LEMMA CompressedIs ==
  ASSUME NEW f, FileIs(f), compress_file(f).state # "error"
  PROVE  CompressedAs(f, compress_file(f).cf)
<1> DEFINE method == IF f.method = None THEN job.method ELSE f.method
           data == compress_bytes(f.data, method)
           cf == [name |-> f.name, method |-> method, crc |-> f.data,
                  comp |-> Len(data), uncomp |-> Len(f.data), data |-> data,
                  em |-> "none", comment |-> f.comment, extra |-> f.extra,
                  stamp |-> f.stamp, attrs |-> f.attrs]
<1>1. method \in {"store", "deflate"} /\ compress_file(f).cf = cf
  <2> HIDE DEF method, data
  <2>1. compress_file(f) =
          IF method \notin {"store", "deflate"}
          THEN [state |-> "error", error |-> "comp_not_supp"]
          ELSE [state |-> "done", cf |-> cf]
    BY DEF compress_file, method, data
  <2> HIDE DEF cf
  <2> QED BY <2>1
<1> HIDE DEF method
<1>2. Untagged(data)
  <2> DEFINE d == f.data
             n == Len(d)
  <2>1. IsSeq(d) /\ n \in Nat
    BY SequenceIs DEF FileIs
  <2>2. CASE method = "store"
    <3> DEFINE t == Texts("byte", d)
    <3>1. data = t
      BY <2>2 DEF compress_bytes
    <3>2. IsSeq(t) /\ Len(t) = n /\ \A k \in 1..n : t[k] = <<"byte", d[k]>>
      BY <2>1, TextsAre
    <3> HIDE DEF t, data, n
    <3>3. \A k \in 1..Len(t) : t[k][1] \notin RecordTags
      BY <3>2 DEF RecordTags
    <3> QED BY <3>1, <3>2, <3>3 DEF Untagged
  <2>3. CASE method # "store"
    <3> DEFINE x == <<"deflated", d>>
    <3>1. data = <<x>> /\ x[1] = "deflated"
      BY <2>3 DEF compress_bytes
    <3>2. x[1] \notin RecordTags
      BY <3>1 DEF RecordTags
    <3> HIDE DEF x, data
    <3> QED BY <3>1, <3>2, UntaggedOne
  <2> QED BY <2>2, <2>3
<1> HIDE DEF data
<1>3. Len(f.data) \in Nat
  BY SequenceIs DEF FileIs
<1>4. CompressedAs(f, cf)
  BY <1>1, <1>2, <1>3 DEF CompressedAs, FileIs, IsCompressed
<1> QED BY <1>1, <1>4

\* The cells of an encrypted entry.
LEMMA SealedData ==
  ASSUME NEW data, Untagged(data), NEW pw, NEW crc, NEW em, NEW salt
  PROVE  /\ Untagged(encrypt_data(pw, crc, data))
         /\ Len(encrypt_data(pw, crc, data)) = Len(data) + 1
         /\ Untagged(aes_encrypt_data(pw, em, data, salt))
         /\ Len(aes_encrypt_data(pw, em, data, salt)) = Len(data) + 3
<1> DEFINE n == Len(data)
<1>1. n \in Nat /\ DOMAIN data = 1..n
  BY SequenceIs DEF Untagged
<1>2. Untagged(encrypt_data(pw, crc, data)) /\ Len(encrypt_data(pw, crc, data)) = n + 1
  <2> DEFINE x == <<"header", pw, crc>>
             a == <<x>>
             b == [k \in DOMAIN data |-> <<"crypt", pw, k, data[k]>>]
  <2>1. x[1] \notin RecordTags
    BY DEF RecordTags
  <2>2. Untagged(a) /\ Len(a) = 1
    <3> HIDE DEF x
    <3> QED BY <2>1, UntaggedOne
  <2>3. Untagged(b) /\ Len(b) = n
    <3>1. b = [k \in 1..n |-> b[k]] /\ \A k \in 1..n : b[k][1] = "crypt"
      BY <1>1
    <3> HIDE DEF b, n
    <3>2. \A k \in 1..n : b[k][1] \notin RecordTags
      BY <3>1 DEF RecordTags
    <3> QED BY <1>1, <3>1, <3>2, UntaggedMap
  <2>4. encrypt_data(pw, crc, data) = a \o b
    BY DEF encrypt_data
  <2> HIDE DEF a, b, n
  <2>5. Untagged(a \o b) /\ Len(a \o b) = Len(a) + Len(b)
    BY <2>2, <2>3, UntaggedJoin
  <2> QED BY <1>1, <2>2, <2>3, <2>4, <2>5
<1>3. Untagged(aes_encrypt_data(pw, em, data, salt)) /\ Len(aes_encrypt_data(pw, em, data, salt)) = n + 3
  <2> DEFINE cipher == aes_ctr(pw, salt, data)
             x == <<"salt", em, salt>>
             y == <<"verify", CheckOf(pw), salt>>
             z == <<"hmac", pw, salt, cipher>>
             a == <<x, y>>
             h == <<z>>
  <2>1. Untagged(a) /\ Len(a) = 2
    <3>1. a = [k \in 1..2 |-> a[k]]
      OBVIOUS
    <3>2. \A k \in 1..2 : a[k][1] \in {"salt", "verify"}
      OBVIOUS
    <3> HIDE DEF a
    <3>3. \A k \in 1..2 : a[k][1] \notin RecordTags
      BY <3>2 DEF RecordTags
    <3> QED BY <3>1, <3>3, UntaggedMap
  <2>2. z[1] \notin RecordTags
    BY DEF RecordTags
  <2>3. Untagged(h) /\ Len(h) = 1
    <3> HIDE DEF z
    <3> QED BY <2>2, UntaggedOne
  <2>4. Untagged(cipher) /\ Len(cipher) = n
    <3>1. cipher = [k \in 1..n |-> cipher[k]] /\ \A k \in 1..n : cipher[k][1] = "aes"
      BY <1>1 DEF aes_ctr
    <3> HIDE DEF cipher, n
    <3>2. \A k \in 1..n : cipher[k][1] \notin RecordTags
      BY <3>1 DEF RecordTags
    <3> QED BY <1>1, <3>1, <3>2, UntaggedMap
  <2>5. aes_encrypt_data(pw, em, data, salt) = (a \o cipher) \o h
    BY DEF aes_encrypt_data
  <2> HIDE DEF a, h, cipher, n
  <2>6. Untagged(a \o cipher) /\ Len(a \o cipher) = 2 + n
    <3>1. Untagged(a \o cipher) /\ Len(a \o cipher) = Len(a) + Len(cipher)
      BY <2>1, <2>4, UntaggedJoin
    <3> QED BY <2>1, <2>4, <3>1
  <2> DEFINE ac == a \o cipher
  <2> HIDE DEF ac
  <2>7. Untagged(ac \o h) /\ Len(ac \o h) = Len(ac) + Len(h)
    BY <2>3, <2>6, UntaggedJoin DEF ac
  <2>8. Len(ac) = 2 + n
    BY <2>6 DEF ac
  <2>9. Len(ac \o h) = n + 3
    BY <1>1, <2>3, <2>7, <2>8
  <2> QED BY <2>5, <2>7, <2>9 DEF ac
<1> QED BY <1>2, <1>3

----------------------------------------------------------------------------
(* The entries of an archive.                                              *)

Sealed(salt) ==
  [i \in DOMAIN job.files |-> Encrypted(SerialResult[i].cf, Methods[i], salt[i])]

\* The compressed and encrypted i-th file.
SealedAs(i, cf) ==
  /\ Written1(cf)
  /\ cf.name = File(i).name /\ cf.comment = File(i).comment
  /\ cf.attrs = File(i).attrs /\ cf.stamp = File(i).stamp
  /\ cf.extra = Compressed(i).extra /\ cf.method = Compressed(i).method
  /\ cf.em = Methods[i] /\ cf.uncomp = Len(File(i).data) /\ cf.comp = StoredSize(i)
  /\ cf.crc = File(i).data

Succeeds ==
  /\ job \in Jobs
  /\ \A i \in DOMAIN job.files : SerialResult[i].state # "error"
  /\ EncryptionError = "none"

LEMMA MethodsAre ==
  ASSUME Succeeds
  PROVE  Len(Methods) = Len(job.files) /\ \A i \in 1..Len(job.files) : Methods[i] \in Supported
<1>1. EncryptionError = "none"
  BY DEF Succeeds
<1>2. Len(Methods) = Len(job.files) /\ ~ \E i \in DOMAIN Methods : Methods[i] \notin Supported
  BY <1>1 DEF EncryptionError
<1>3. DOMAIN Methods = 1..Len(Methods)
  BY JobIs, SequenceIs DEF Succeeds
<1> QED BY <1>2, <1>3

LEMMA SealedOne ==
  ASSUME Succeeds, NEW i \in 1..Len(job.files), NEW salt
  PROVE  SealedAs(i, Encrypted(Compressed(i), Methods[i], salt))
<1> DEFINE f == job.files[i]
           cf == Compressed(i)
           em == Methods[i]
           sealed == Encrypted(cf, em, salt)
           trad == encrypt_data(job.pw, cf.crc, cf.data)
           aes == aes_encrypt_data(job.pw, em, cf.data, salt)
           n == Len(cf.data)
<1>1. FileIs(f) /\ i \in DOMAIN job.files
  BY JobIs DEF Succeeds
<1>2. Compressed(i) = compress_file(f).cf /\ SerialResult[i] = compress_file(f) /\ File(i) = f
  BY <1>1 DEF Compressed, SerialResult, File
<1>3. CompressedAs(f, cf)
  <2>1. compress_file(f).state # "error"
    BY <1>1, <1>2 DEF Succeeds
  <2>2. CompressedAs(f, compress_file(f).cf)
    BY <1>1, <2>1, CompressedIs
  <2> QED BY <1>2, <2>2
<1>4. em \in Supported
  BY MethodsAre
<1>5. StoredSize(i) = n + (CASE em = "none" -> 0 [] em = "trad" -> 1 [] OTHER -> 3)
  BY DEF StoredSize
<1> HIDE DEF f, cf, em
<1>6. /\ IsSeq(cf.name) /\ IsSeq(cf.comment) /\ IsFields(cf.extra) /\ Untagged(cf.data)
      /\ cf.name = f.name /\ cf.comment = f.comment /\ cf.extra = Compressed(i).extra
      /\ cf.stamp = f.stamp /\ cf.attrs = f.attrs /\ cf.crc = f.data /\ cf.em = "none"
      /\ cf.method \in {"store", "deflate"} /\ cf.method = Compressed(i).method
      /\ cf.comp = n /\ cf.uncomp = Len(f.data) /\ cf.uncomp \in Nat /\ n \in Nat
  <2>1. Len(cf.data) \in Nat
    BY <1>3, SequenceIs DEF CompressedAs, Untagged
  <2> QED BY <1>3, <2>1 DEF CompressedAs, cf
<1>7. /\ Untagged(trad) /\ Len(trad) = n + 1 /\ Untagged(aes) /\ Len(aes) = n + 3
  BY <1>6, SealedData
<1> HIDE DEF trad, aes, n
<1>8. ASSUME NEW x, NEW data, Untagged(data),
             x.name = cf.name, x.comment = cf.comment, x.extra = cf.extra, x.stamp = cf.stamp,
             x.attrs = cf.attrs, x.crc = cf.crc, x.method = cf.method, x.uncomp = cf.uncomp,
             x.data = data, x.comp = Len(data), x.em = em, StoredSize(i) = Len(data)
      PROVE  SealedAs(i, x)
  <2>1. IsSeq(data) /\ \A k \in 1..Len(data) : data[k][1] \notin RecordTags
    BY <1>8 DEF Untagged
  <2>2. Written1(x)
    BY <1>4, <1>6, <1>8, <2>1 DEF Written1
  <2> QED BY <1>2, <1>6, <1>8, <2>2 DEF SealedAs, f, em
<1>12. ASSUME NEW data, Untagged(data), StoredSize(i) = Len(data), sealed = Replaced(cf, em, data)
       PROVE  SealedAs(i, sealed)
  <2> HIDE DEF sealed
  <2>1. IsCompressed(cf)
    BY <1>3 DEF CompressedAs
  <2>2. /\ sealed.name = cf.name /\ sealed.comment = cf.comment /\ sealed.extra = cf.extra
        /\ sealed.stamp = cf.stamp /\ sealed.attrs = cf.attrs /\ sealed.crc = cf.crc
        /\ sealed.method = cf.method /\ sealed.uncomp = cf.uncomp
        /\ sealed.data = data /\ sealed.comp = Len(data) /\ sealed.em = em
    BY <1>12, <2>1, ReplacedIs
  <2> QED BY <1>8, <1>12, <2>2
<1>9. CASE em = "none"
  <2>1. sealed = cf
    BY <1>9 DEF Encrypted
  <2>2. StoredSize(i) = n
    BY <1>5, <1>6, <1>9
  <2> QED BY <1>6, <1>8, <1>9, <2>1, <2>2 DEF cf, em, n
<1>10. CASE em = "trad"
  <2>1. sealed = Replaced(cf, em, trad)
    BY <1>10 DEF Encrypted, trad
  <2>2. StoredSize(i) = Len(trad)
    BY <1>5, <1>7, <1>10
  <2>3. Untagged(trad)
    BY <1>7
  <2>4. SealedAs(i, sealed)
    BY <1>12, <2>1, <2>2, <2>3
  <2> QED BY <2>4 DEF cf, em
<1>11. CASE em \in AesMethods
  <2>1. em # "none" /\ em # "trad"
    BY <1>11 DEF AesMethods
  <2>2. sealed = Replaced(cf, em, aes)
    BY <2>1 DEF Encrypted, aes
  <2>3. StoredSize(i) = Len(aes)
    BY <1>5, <1>7, <2>1
  <2>4. Untagged(aes)
    BY <1>7
  <2>5. SealedAs(i, sealed)
    BY <1>12, <2>2, <2>3, <2>4
  <2> QED BY <2>5 DEF cf, em
<1> QED BY <1>4, <1>9, <1>10, <1>11 DEF Supported

LEMMA SealedIs ==
  ASSUME Succeeds, NEW salt
  PROVE  /\ IsSeq(Sealed(salt)) /\ Len(Sealed(salt)) = Len(job.files) /\ Len(job.files) \in Nat
         /\ \A i \in 1..Len(job.files) : SealedAs(i, Sealed(salt)[i])
<1> DEFINE n == Len(job.files)
           cfs == Sealed(salt)
<1>1. n \in Nat /\ DOMAIN job.files = 1..n
  BY JobIs DEF Succeeds
<1>2. cfs = [i \in 1..n |-> Encrypted(SerialResult[i].cf, Methods[i], salt[i])]
  BY <1>1 DEF Sealed
<1>3. ASSUME NEW i \in 1..n PROVE SealedAs(i, cfs[i])
  <2>1. cfs[i] = Encrypted(Compressed(i), Methods[i], salt[i])
    BY <1>2 DEF Compressed
  <2>2. SealedAs(i, Encrypted(Compressed(i), Methods[i], salt[i]))
    BY SealedOne
  <2> QED BY <2>1, <2>2
<1>4. cfs = [i \in 1..n |-> cfs[i]]
  BY <1>2
<1> HIDE DEF cfs, n
<1>5. IsSeq(cfs) /\ Len(cfs) = n
  BY <1>1, <1>4, SequenceOf
<1> QED BY <1>1, <1>3, <1>5 DEF cfs, n

\* What a job that succeeded has written.
LEMMA WrittenIs ==
  ASSUME job \in Jobs, archive # None, archive.error = "none", Serially(archive)
  PROVE  /\ Succeeds
         /\ \E salt : /\ ~Bodies(Sealed(salt)).large
                      /\ archive.cells =
                           Bodies(Sealed(salt)).out \o Bodies(Sealed(salt)).cdir
                             \o EndRecords(Len(Sealed(salt)), Len(Bodies(Sealed(salt)).cdir),
                                           Len(Bodies(Sealed(salt)).out),
                                           Bodies(Sealed(salt)).far, Comment)
<1>1. ~ \E i \in DOMAIN job.files : SerialResult[i].state = "error"
  BY DEF Serially, Failure
<1>2. EncryptionError = "none"
  BY <1>1 DEF Serially, Failure
<1>3. PICK salt : archive = Written(SerialResult, salt)
  BY <1>1, <1>2 DEF Serially
<1> DEFINE cfs == Sealed(salt)
           b == Bodies(cfs)
           cells == b.out \o b.cdir \o EndRecords(Len(cfs), Len(b.cdir), Len(b.out), b.far, Comment)
<1>4. DOMAIN SerialResult = DOMAIN job.files
  BY DEF SerialResult
<1>5. Written(SerialResult, salt) = write_compressed(cfs, Comment)
  BY <1>4 DEF Written, Sealed
<1>6. write_compressed(cfs, Comment) =
        IF b.large THEN Failure("ef_too_large") ELSE [error |-> "none", cells |-> cells]
  BY DEF write_compressed
<1> HIDE DEF cells, cfs
<1>7. ~b.large
  <2>1. Failure("ef_too_large").error # "none"
    BY DEF Failure
  <2> QED BY <1>3, <1>5, <1>6, <2>1
<1>8. archive.cells = cells
  BY <1>3, <1>5, <1>6, <1>7
<1>9. Succeeds
  BY <1>1, <1>2 DEF Succeeds
<1> QED BY <1>7, <1>8, <1>9 DEF cells, cfs

----------------------------------------------------------------------------
(* The directory reads back.                                               *)

LEMMA Tells ==
  ASSUME NEW i, NEW cf, SealedAs(i, cf), FileIs(File(i)), NEW o, o = Start(i)
  PROVE  TellsTheFile(DirentOf(cf, o), i)
<1> DEFINE d == DirentOf(cf, o)
           f == File(i)
           valid == Methods[i] \notin AesMethods
           mtime == dos_to_unix(f.stamp)
<1>1. /\ Written1(cf) /\ cf.name = f.name /\ cf.comment = f.comment
      /\ cf.attrs = f.attrs /\ cf.stamp = f.stamp
      /\ cf.extra = Compressed(i).extra /\ cf.method = Compressed(i).method
      /\ cf.em = Methods[i] /\ cf.uncomp = Len(f.data) /\ cf.comp = StoredSize(i)
      /\ cf.crc = f.data
  BY DEF SealedAs
<1>2. /\ d.name = cf.name /\ d.comment = cf.comment /\ d.attrs = cf.attrs /\ d.offset = o
      /\ d.extra = CentralExtra(cf, o) /\ d.stamp = cf.stamp /\ d.uncomp = cf.uncomp
      /\ d.comp = cf.comp /\ d.method = cf.method /\ d.em = cf.em /\ d.crc = StoredCrc(cf)
      /\ d.crcValid = ~IsAes(cf)
  BY DEF DirentOf
<1>3. InClock(f.stamp) => mtime = Mktime(f.stamp)
  BY UnixIs DEF FileIs
<1>4. Without(d.extra, {"aes", "zip64"}) = UserFields(Compressed(i))
  <2>1. Without(CentralExtra(cf, o), {"aes", "zip64"}) = UserFields(cf)
    BY <1>1, CentralExtraIs DEF ExtraShape
  <2> QED BY <1>1, <1>2, <2>1 DEF UserFields
<1> HIDE DEF d, f, mtime
<1>5. Stat(d) = [size |-> Len(f.data), comp |-> StoredSize(i), mtime |-> mtime,
                 method |-> Compressed(i).method, em |-> Methods[i],
                 crc |-> IF valid THEN f.data ELSE <<>>, valid |-> valid]
  <2> DEFINE unkeyed == ~IsAes(cf)
  <2>1. Stat(d) = [size |-> cf.uncomp, comp |-> cf.comp, mtime |-> mtime,
                   method |-> cf.method, em |-> cf.em, crc |-> StoredCrc(cf), valid |-> unkeyed]
    <3>1. dos_to_unix(d.stamp) = mtime
      BY <1>1, <1>2 DEF mtime
    <3> QED BY <1>2, <3>1 DEF Stat
  <2>2. IsAes(cf) <=> ~valid
    BY <1>1 DEF IsAes
  <2>3. CASE valid
    <3>1. unkeyed = TRUE /\ valid = TRUE
      BY <2>2, <2>3
    <3>2. StoredCrc(cf) = f.data
      BY <1>1, <2>2, <2>3 DEF StoredCrc
    <3> HIDE DEF valid, unkeyed
    <3>3. Stat(d) = [size |-> Len(f.data), comp |-> StoredSize(i), mtime |-> mtime,
                     method |-> Compressed(i).method, em |-> Methods[i],
                     crc |-> f.data, valid |-> TRUE]
      BY <1>1, <2>1, <3>1, <3>2
    <3>4. (IF valid THEN f.data ELSE <<>>) = f.data
      BY <2>3
    <3> QED BY <3>1, <3>3, <3>4
  <2>4. CASE ~valid
    <3>1. unkeyed = FALSE /\ valid = FALSE
      BY <2>2, <2>4
    <3>2. StoredCrc(cf) = <<>>
      BY <1>1, <2>2, <2>4 DEF StoredCrc
    <3> HIDE DEF valid, unkeyed
    <3>3. Stat(d) = [size |-> Len(f.data), comp |-> StoredSize(i), mtime |-> mtime,
                     method |-> Compressed(i).method, em |-> Methods[i],
                     crc |-> <<>>, valid |-> FALSE]
      BY <1>1, <2>1, <3>1, <3>2
    <3>4. (IF valid THEN f.data ELSE <<>>) = <<>>
      BY <2>4
    <3> QED BY <3>1, <3>3, <3>4
  <2> QED BY <2>3, <2>4
<1>6. Stat(d).mtime = mtime
  BY <1>5
<1>7. Stat(d) = [size |-> Len(f.data), comp |-> StoredSize(i), mtime |-> Stat(d).mtime,
                 method |-> Compressed(i).method, em |-> Methods[i],
                 crc |-> IF valid THEN f.data ELSE <<>>, valid |-> valid]
  BY <1>5, <1>6
<1>8. InClock(f.stamp) => Stat(d).mtime = Mktime(f.stamp)
  BY <1>3, <1>6
<1> HIDE DEF valid
<1>9. /\ d.name = f.name /\ d.comment = f.comment /\ d.attrs = f.attrs /\ d.offset = Start(i)
  BY <1>1, <1>2
<1> QED BY <1>4, <1>7, <1>8, <1>9 DEF TellsTheFile, d, f, valid

LEMMA Agrees ==
  ASSUME NEW i, NEW cf, Written1(cf), NEW o \in Nat, o = Start(i), IsSeq(archive.cells),
         Len(cf.name) =< Max16, Lies(archive.cells, o, Member(cf))
  PROVE  LocalAgrees(DirentOf(cf, o), i)
<1> DEFINE c == archive.cells
           d == DirentOf(cf, o)
           h == write_local_header(cf)
           m == Member(cf)
           data == cf.data
           l == parse_local(c, o)
<1>1. /\ d.name = cf.name /\ d.uncomp = cf.uncomp /\ d.comp = cf.comp /\ d.method = cf.method
      /\ d.em = cf.em /\ d.comp = Len(data)
  BY DEF DirentOf, Written1
<1>2. IsSeq(h) /\ Lies(m, 0, h) /\ Lies(m, Len(h), data) /\ IsSeq(m) /\ IsSeq(data)
  BY LocalLength, MemberIs DEF Tagged, Written1
<1>3. Len(c) \in Nat /\ Len(m) \in Nat /\ Len(h) \in Nat /\ Len(data) \in Nat /\ 0 \in Nat
  BY <1>2, SequenceIs
<1>4. Lies(c, o, m)
  OBVIOUS
<1> HIDE DEF c, h, m, data, d
<1>5. Lies(c, o + 0, h) /\ Lies(c, o + Len(h), data)
  BY <1>2, <1>3, <1>4, LiesWithin
<1>6. Lies(c, o, h)
  <2>1. o + 0 = o
    OBVIOUS
  <2> QED BY <1>5, <2>1
<1>7. o + Len(h) + Len(data) =< Len(c)
  BY <1>5 DEF Lies
<1> SUFFICES ASSUME d.comp > Max32 <=> d.uncomp > Max32
             PROVE  /\ l.error = "none" /\ l.name = d.name /\ l.method = d.method /\ l.em = d.em
                    /\ l.comp = d.comp /\ l.uncomp = d.uncomp /\ l.data + d.comp =< Len(c)
  BY DEF LocalAgrees, c, d
<1>8. l = [error |-> "none", data |-> o + Len(h), name |-> cf.name,
           uncomp |-> cf.uncomp, comp |-> cf.comp, method |-> cf.method, em |-> cf.em]
  <2>1. cf.comp > Max32 <=> cf.uncomp > Max32
    BY <1>1
  <2>2. IsSeq(c) /\ Lies(c, o, write_local_header(cf))
    BY <1>6 DEF c, h
  <2> QED BY <2>1, <2>2, LocalReads DEF h
<1> HIDE DEF l
<1>9. /\ l.error = "none" /\ l.name = cf.name /\ l.method = cf.method /\ l.em = cf.em
      /\ l.comp = cf.comp /\ l.uncomp = cf.uncomp /\ l.data = o + Len(h)
  BY <1>8
<1>10. l.data + d.comp =< Len(c)
  BY <1>1, <1>7, <1>9
<1> QED BY <1>1, <1>9, <1>10

LEMMA Kept1Is ==
  ASSUME NEW cf, Written1(cf), NEW o \in Nat, Len(cf.name) =< Max16,
         ~TooLarge(cf, build_extra(cf, TRUE, TRUE, o), TRUE)
  PROVE  Kept1(cf, o)
<1> DEFINE e == build_extra(cf, TRUE, TRUE, o)
           u == cf.uncomp
           c == cf.comp
           values == Zip64Values(cf, TRUE, o)
           zip64 == CentralZip64(cf, o)
<1>1. u \in Nat /\ c \in Nat /\ IsSeq(cf.comment)
  BY SequenceIs DEF Written1
<1>2. zip64 <=> (u > Max32 \/ c > Max32 \/ o > Max32)
  BY DEF CentralZip64, needs_zip64_sizes
<1>3. ~zip64 => values = <<>>
  BY <1>2, EmptyConcat, EmptySequence DEF Zip64Values, Given
<1>4. CentralExtra(cf, o) = e
  <2>1. CentralExtra(cf, o) = UserFields(cf) \o aes_extra_field(cf) \o ZipField(zip64, values)
    BY DEF CentralExtra, build_extra, CentralZip64, ZipField
  <2>2. e = UserFields(cf) \o aes_extra_field(cf) \o ZipField(TRUE, values)
    BY DEF build_extra, ZipField
  <2>3. ZipField(zip64, values) = ZipField(TRUE, values)
    <3>1. CASE zip64
      BY <3>1 DEF ZipField, Given
    <3>2. CASE ~zip64
      <4> HIDE DEF values, zip64
      <4> QED BY <1>3, <3>2 DEF ZipField, Given
    <3> QED BY <3>1, <3>2
  <2> QED BY <2>1, <2>2, <2>3
<1>5. ~(Len(e) > Max16) /\ ~(Len(cf.comment) > Max16)
  BY DEF TooLarge
<1>6. IsFields(CentralExtra(cf, o))
  BY CentralLength
<1> DEFINE x == CentralExtra(cf, o)
           comment == cf.comment
<1>7. Len(x) \in Nat /\ Len(comment) \in Nat
  BY <1>1, <1>6, SequenceIs DEF IsFields
<1> HIDE DEF e, x, comment
<1>8. Len(x) =< Max16 /\ Len(comment) =< Max16
  BY <1>4, <1>5, <1>7, WidthsAssumption DEF x, comment
<1> QED BY <1>8 DEF Kept1, x, comment

Seals(i, salt, cf) == cf = Encrypted(Compressed(i), Methods[i], salt)

\* An archive that opens again, with its entries cfs.
Archived(cfs, out, cdir) ==
  /\ Succeeds /\ IsSeq(cfs) /\ Len(cfs) = Len(job.files) /\ Len(job.files) \in Nat
  /\ \A i \in 1..Len(cfs) : SealedAs(i, cfs[i]) /\ \E s : Seals(i, s, cfs[i])
  /\ out = Flats(MembersOf(cfs), Len(cfs)) /\ cdir = Flats(CentralsOf(cfs), Len(cfs))
  /\ IsSeq(out) /\ IsSeq(cdir)
  /\ \E near \in BOOLEAN : LaidOut(archive.cells, out, cdir, near, Len(cfs), Comment)
  /\ \A i \in 1..Len(cfs) :
       ~TooLarge(cfs[i], build_extra(cfs[i], TRUE, TRUE, Offset(cfs, i)), TRUE)

LEMMA ArchivedIs ==
  ASSUME job \in Jobs, archive # None, archive.error = "none", Serially(archive)
  PROVE  \E cfs, out, cdir : Archived(cfs, out, cdir)
<1>1. Succeeds
  BY WrittenIs
<1>2. PICK salt : /\ ~Bodies(Sealed(salt)).large
                  /\ archive.cells =
                       Bodies(Sealed(salt)).out \o Bodies(Sealed(salt)).cdir
                         \o EndRecords(Len(Sealed(salt)), Len(Bodies(Sealed(salt)).cdir),
                                       Len(Bodies(Sealed(salt)).out),
                                       Bodies(Sealed(salt)).far, Comment)
  BY WrittenIs
<1> DEFINE cfs == Sealed(salt)
           out == Bodies(cfs).out
           cdir == Bodies(cfs).cdir
           far == Bodies(cfs).far
           n == Len(cfs)
<1>3. /\ IsSeq(cfs) /\ n = Len(job.files) /\ Len(job.files) \in Nat
      /\ \A i \in 1..Len(job.files) : SealedAs(i, cfs[i])
  BY <1>1, SealedIs
<1>4. archive.cells = out \o cdir \o EndRecords(n, Len(cdir), Len(out), far, Comment)
      /\ ~Bodies(cfs).large
  BY <1>2
<1>13. \A i \in 1..Len(job.files) : \E s : Seals(i, s, cfs[i])
  <2>1. DOMAIN job.files = 1..Len(job.files)
    BY JobIs
  <2>2. \A i \in 1..Len(job.files) : cfs[i] = Encrypted(SerialResult[i].cf, Methods[i], salt[i])
    BY <2>1 DEF Sealed
  <2>3. \A i \in 1..Len(job.files) : Seals(i, salt[i], cfs[i])
    BY <2>2 DEF Seals, Compressed
  <2> QED BY <2>3
<1> HIDE DEF cfs
<1>5. out = Flats(MembersOf(cfs), n) /\ cdir = Flats(CentralsOf(cfs), n)
  BY <1>3, BodiesAre
<1>6. \A i \in DOMAIN cfs :
        ~TooLarge(cfs[i], build_extra(cfs[i], TRUE, TRUE, Offset(cfs, i)), TRUE)
  BY <1>4 DEF Bodies
<1>7. DOMAIN cfs = 1..n
  BY <1>3, SequenceIs
<1> HIDE DEF out, cdir, far, n
<1>8. AllWritten(cfs)
  BY <1>3 DEF AllWritten, SealedAs, n
<1>9. IsSeq(out) /\ IsSeq(cdir)
  <2>1. n \in Nat /\ \A i \in 1..n : IsSeq(MembersOf(cfs)[i])
    BY <1>8, FineParts DEF n
  <2>2. \A i \in 1..n : IsSeq(CentralsOf(cfs)[i])
    BY <1>8, FineParts DEF n
  <2> QED BY <1>5, <2>1, <2>2, FlatParts
<1>10. IsSeq(Comment)
  BY JobIs
<1>11. PICK near \in BOOLEAN :
         LaidOut(out \o cdir \o EndRecords(n, Len(cdir), Len(out), far, Comment),
                 out, cdir, near, n, Comment)
  BY <1>9, <1>10, LaidOutIs
<1>12. LaidOut(archive.cells, out, cdir, near, n, Comment)
  BY <1>4, <1>11
<1>14. Archived(cfs, out, cdir)
  BY <1>1, <1>3, <1>5, <1>6, <1>7, <1>9, <1>12, <1>13 DEF Archived, n
<1> QED BY <1>14

\* Its places.
LEMMA PlacesAre ==
  ASSUME job \in Jobs, NEW cfs, NEW out, NEW cdir, Archived(cfs, out, cdir)
  PROVE  /\ AllWritten(cfs) /\ IsSeq(archive.cells)
         /\ DirectoryAt = Len(out)..(Len(out) + Len(cdir) - 1) /\ DirectorySize = Len(cdir)
         /\ Len(out) \in Nat /\ Len(cdir) \in Nat
         /\ \A i \in 1..Len(cfs) :
              /\ Start(i) = Offset(cfs, i) /\ Offset(cfs, i) \in Nat
              /\ Lies(archive.cells, Offset(cfs, i), Member(cfs[i]))
         /\ Lies(archive.cells, Len(out), cdir)
<1> DEFINE n == Len(cfs)
           ms == MembersOf(cfs)
           c == archive.cells
           a == Len(out)
           e == Len(out) + Len(cdir)
<1>1. AllWritten(cfs)
  BY DEF Archived, AllWritten, SealedAs
<1>2. IsSeq(cfs) /\ IsSeq(out) /\ IsSeq(cdir) /\ out = Flats(ms, n)
  BY DEF Archived
<1>3. n \in Nat /\ a \in Nat /\ Len(cdir) \in Nat /\ e \in Nat
  BY <1>2, SequenceIs
<1>4. PICK near \in BOOLEAN : LaidOut(c, out, cdir, near, n, Comment)
  BY DEF Archived
<1>5. IsSeq(c) /\ Len(c) \in Nat /\ Lies(c, 0, out) /\ Lies(c, a, cdir)
  BY <1>4, SequenceIs DEF LaidOut
<1>6. TaggedAs(c, ms, n, a, e)
  BY <1>1, <1>4, TagsAre DEF Archived
<1>7. \A i \in 1..n : IsSeq(ms[i]) /\ Len(ms[i]) > 0
  BY <1>1, FineParts
<1>8. \A i \in 1..n : ms[i] = Member(cfs[i]) /\ Offset(cfs, i) = Before(ms, i)
  BY <1>2, BodiesAre
<1> HIDE DEF n, ms, c, a, e
<1>9. DirectoryAt = a..(e - 1) /\ DirectorySize = e - a
  BY <1>3, <1>5, <1>6, DirectoryPlace DEF c
<1>10. \A i \in 1..n : Before(ms, i) \in 0..(Len(out) - 1)
  BY <1>2, <1>3, <1>7, OwnPlaces
<1>11. \A i \in 1..n : Before(ms, i) \in 0..(Len(c) - 1)
  <2>1. a =< e /\ e \in 0..(Len(c) - 1)
    BY <1>6 DEF TaggedAs
  <2> QED BY <1>3, <1>5, <1>10, <2>1 DEF a
<1>12. \A i \in 1..n : Start(i) = Before(ms, i)
  BY <1>3, <1>6, <1>7, <1>11, StartIs DEF c
<1>13. ASSUME NEW i \in 1..n PROVE Before(ms, i) \in Nat /\ Lies(c, Before(ms, i), ms[i])
  <2>1. \A j \in 1..n : IsSeq(ms[j])
    BY <1>7
  <2>2. Before(ms, i) \in Nat /\ Len(ms[i]) \in Nat /\ Lies(out, Before(ms, i), ms[i])
    BY <1>2, <1>3, <2>1, FlatParts
  <2> DEFINE b == Before(ms, i)
  <2>3. b \in Nat /\ Len(ms[i]) \in Nat /\ Lies(out, b, ms[i]) /\ 0 \in Nat /\ Len(out) \in Nat
    BY <1>3, <2>2 DEF a
  <2> HIDE DEF b
  <2>4. Lies(c, 0 + b, ms[i])
    BY <1>5, <2>3, LiesWithin
  <2>5. 0 + b = b
    BY <2>3
  <2>6. Lies(c, b, ms[i])
    BY <2>4, <2>5
  <2> QED BY <2>2, <2>6 DEF b
<1>14. e - a = Len(cdir)
  BY <1>3 DEF a, e
<1> QED BY <1>1, <1>3, <1>5, <1>8, <1>9, <1>12, <1>13, <1>14 DEF n, ms, c, a, e

LEMMA FineIs ==
  ASSUME job \in Jobs, NEW cfs, NEW out, NEW cdir, Archived(cfs, out, cdir), Reopens
  PROVE  Fine(cfs)
<1>1. IsSeq(cfs) /\ Len(cfs) = Len(job.files)
  BY DEF Archived
<1>2. \A i \in 1..Len(cfs) : SealedAs(i, cfs[i])
  BY DEF Archived
<1>3. DOMAIN job.files = 1..Len(job.files)
  BY JobIs
<1>4. ASSUME NEW i \in 1..Len(cfs) PROVE Fine1(cfs[i], Offset(cfs, i))
  <2> DEFINE cf == cfs[i]
             o == Offset(cfs, i)
  <2>1. /\ Written1(cf) /\ cf.name = File(i).name /\ cf.uncomp = Len(File(i).data)
        /\ cf.comp = StoredSize(i)
    BY <1>2 DEF SealedAs
  <2>2. o = Start(i)
    BY PlacesAre
  <2> HIDE DEF cf, o
  <2>3. Len(File(i).name) =< Max16 /\ ~Traverses(File(i).name) /\ ~AtTheSentinel(i)
    BY <1>1, <1>3 DEF Reopens, WithinLimits
  <2>4. NotAtTheSentinel(cf, o)
    <3> DEFINE fields == {cf.uncomp, cf.comp, o}
    <3>1. ~(Max32 \in fields /\ \E n \in fields : n > Max32)
      BY <2>1, <2>2, <2>3 DEF AtTheSentinel
    <3> QED BY <3>1 DEF NotAtTheSentinel
  <2>5. Fine1(cf, o)
    BY <2>1, <2>3, <2>4 DEF Fine1
  <2> QED BY <2>5 DEF cf, o
<1> QED BY <1>1, <1>4 DEF Fine

LEMMA EntriesAre ==
  ASSUME job \in Jobs, NEW cfs, NEW out, NEW cdir, Archived(cfs, out, cdir), Reopens,
         opened # None, opened.cd = read_central_dir(archive.cells)
  PROVE  /\ IsOpen /\ opened.cd.comment = Comment
         /\ IsSeq(Entries) /\ Len(Entries) = Len(cfs) /\ DOMAIN Entries = 1..Len(cfs)
         /\ \A i \in 1..Len(cfs) : Entries[i] = DirentOf(cfs[i], Offset(cfs, i))
<1> DEFINE n == Len(cfs)
           d == DirentsOf(cfs)
<1>1. Fine(cfs) /\ IsSeq(cfs) /\ n \in Nat
  BY FineIs, SequenceIs DEF Archived
<1>2. PICK near \in BOOLEAN : LaidOut(archive.cells, out, cdir, near, n, Comment)
  BY DEF Archived
<1>3. out = Flats(MembersOf(cfs), Len(cfs)) /\ cdir = Flats(CentralsOf(cfs), Len(cfs))
  BY DEF Archived
<1>4. Len(cdir) =< MaxCdSize /\ Len(Comment) =< Max16
  <2>1. DirectorySize = Len(cdir)
    BY PlacesAre
  <2> QED BY <2>1 DEF Reopens, WithinLimits
<1>5. IsSeq(Comment)
  BY JobIs
<1>6. OpensAs(read_central_dir(archive.cells), cfs, Comment)
  BY <1>1, <1>2, <1>3, <1>4, <1>5, ArchiveOpens
<1>7. opened.cd.error = "none" /\ opened.cd.comment = Comment /\ Entries = SuffixOf(d, n, 1)
  BY <1>6 DEF OpensAs, Entries
<1>8. \A i \in 1..n : d[i] = DirentOf(cfs[i], Offset(cfs, i))
  BY <1>1, BodiesAre
<1> HIDE DEF n, d
<1>9. Entries = [k \in 1..n |-> d[k]]
  <2>1. SuffixOf(d, n, 1) = [k \in 1..n |-> d[1 + k - 1]]
    BY <1>1 DEF SuffixOf
  <2>2. \A k \in 1..n : 1 + k - 1 = k
    OBVIOUS
  <2> QED BY <1>7, <2>1, <2>2
<1> DEFINE es == Entries
<1>10. es = [k \in 1..n |-> d[k]]
  BY <1>9
<1> HIDE DEF es
<1>11. es = [k \in 1..n |-> es[k]]
  BY <1>10
<1>12. IsSeq(es) /\ Len(es) = n
  BY <1>1, <1>11, SequenceOf
<1>13. DOMAIN es = 1..n /\ \A i \in 1..n : es[i] = d[i]
  BY <1>10
<1> QED BY <1>7, <1>8, <1>12, <1>13 DEF n, es, IsOpen

LEMMA KeptRecords ==
  ASSUME job \in Jobs, NEW cfs, NEW out, NEW cdir, Archived(cfs, out, cdir), Reopens,
         opened # None, opened.cd = read_central_dir(archive.cells)
  PROVE  RecordsAreKept
<1> DEFINE n == Len(cfs)
           ws == CentralsOf(cfs)
           g == [i \in 1..n |-> to_central_record(Entries[i]).cells]
           a == Len(out)
           b == Len(cdir)
<1>1. /\ IsSeq(Entries) /\ Len(Entries) = n /\ DOMAIN Entries = 1..n
      /\ \A i \in 1..n : Entries[i] = DirentOf(cfs[i], Offset(cfs, i))
  BY EntriesAre
<1>2. Fine(cfs) /\ IsSeq(cfs) /\ n \in Nat /\ cdir = Flats(ws, n) /\ IsSeq(cdir)
  BY FineIs, SequenceIs DEF Archived
<1>3. \A i \in 1..n : ws[i] = write_central_entry(cfs[i], Offset(cfs, i))
  BY <1>2, BodiesAre
<1>4. /\ DirectoryAt = a..(a + b - 1) /\ DirectorySize = b /\ a \in Nat /\ b \in Nat
      /\ Lies(archive.cells, a, cdir) /\ IsSeq(archive.cells)
      /\ \A i \in 1..n : Offset(cfs, i) \in Nat
  BY PlacesAre
<1>5. \A i \in 1..n : ~TooLarge(cfs[i], build_extra(cfs[i], TRUE, TRUE, Offset(cfs, i)), TRUE)
  BY DEF Archived
<1> HIDE DEF n, ws, a, b
<1>6. ASSUME NEW i \in 1..n PROVE g[i] = ws[i]
  <2> DEFINE cf == cfs[i]
             o == Offset(cfs, i)
  <2>1. Written1(cf) /\ Len(cf.name) =< Max16
    BY <1>2 DEF Fine, Fine1, n
  <2>2. o \in Nat /\ ~TooLarge(cf, build_extra(cf, TRUE, TRUE, o), TRUE)
    BY <1>4, <1>5
  <2>3. g[i] = to_central_record(DirentOf(cf, o)).cells /\ ws[i] = write_central_entry(cf, o)
    BY <1>1, <1>3
  <2> HIDE DEF cf, o, g
  <2>4. Kept1(cf, o)
    BY <2>1, <2>2, Kept1Is
  <2> QED BY <2>1, <2>2, <2>3, <2>4, KeptIs
<1>7. FlattenSeq([i \in DOMAIN Entries |-> to_central_record(Entries[i]).cells]) = cdir
  <2>1. [i \in DOMAIN Entries |-> to_central_record(Entries[i]).cells] = g
    BY <1>1
  <2>2. g = [i \in 1..n |-> g[i]]
    OBVIOUS
  <2> HIDE DEF g
  <2>3. Flats(g, n) = Flats(ws, n)
    BY <1>2, <1>6, FlatSame
  <2> QED BY <1>2, <2>1, <2>2, <2>3 DEF Flats
<1>8. CASE Entries = <<>>
  <2>1. n = 0
    BY <1>1, <1>8, EmptySequence
  <2>2. cdir = <<>>
    BY <1>2, <2>1, FlatEmpty
  <2> QED BY <1>7, <1>8, <2>2 DEF RecordsAreKept
<1>9. CASE Entries # <<>>
  <2>1. n > 0
    <3>1. n # 0
      <4>1. n = 0 => Entries = <<>>
        BY <1>1, EmptySequence, SameSequence
      <4> QED BY <1>9, <4>1
    <3> QED BY <1>2, <3>1
  <2>2. b > 0
    <3>1. 1 \in 1..n
      BY <1>2, <2>1
    <3>2. \A i \in 1..n : IsSeq(ws[i]) /\ Len(ws[i]) > 0
      BY <1>2, FineParts, FineWritten DEF n, ws
    <3>3. Before(ws, 1) \in 0..(Len(cdir) - 1)
      BY <1>2, <3>1, <3>2, OwnPlaces
    <3> QED BY <1>4, <3>3 DEF b
  <2>3. Min(DirectoryAt) = a
    <3> DEFINE S == a..(a + b - 1)
    <3>1. a \in S /\ a \in Int /\ \A x \in S : x \in Int /\ a =< x
      BY <1>4, <2>2
    <3> HIDE DEF S
    <3>2. Min(S) = a
      BY <3>1, LeastIs
    <3> QED BY <1>4, <3>2 DEF S
  <2>4. Piece(archive.cells, a, b) = cdir
    BY <1>2, <1>4, LiesPiece DEF b
  <2>5. Piece(archive.cells, Min(DirectoryAt), DirectorySize) = cdir
    BY <1>4, <2>3, <2>4
  <2> QED BY <1>7, <1>9, <2>5 DEF RecordsAreKept
<1> QED BY <1>8, <1>9

LEMMA ReadsBackHere ==
  ASSUME job \in Jobs, archive # None, archive.error = "none", Serially(archive),
         opened # None, opened.cd = read_central_dir(archive.cells), Reopens
  PROVE  /\ IsOpen /\ Len(Entries) = Len(job.files) /\ opened.cd.comment = Comment
         /\ \A i \in DOMAIN Entries : TellsTheFile(Entries[i], i) /\ LocalAgrees(Entries[i], i)
         /\ RecordsAreKept
<1>1. PICK cfs, out, cdir : Archived(cfs, out, cdir)
  BY ArchivedIs
<1>2. /\ IsOpen /\ opened.cd.comment = Comment
      /\ Len(Entries) = Len(cfs) /\ DOMAIN Entries = 1..Len(cfs)
      /\ \A i \in 1..Len(cfs) : Entries[i] = DirentOf(cfs[i], Offset(cfs, i))
  BY <1>1, EntriesAre
<1>3. RecordsAreKept
  BY <1>1, KeptRecords
<1>4. Len(cfs) = Len(job.files) /\ \A i \in 1..Len(cfs) : SealedAs(i, cfs[i])
  BY <1>1 DEF Archived
<1>5. /\ IsSeq(archive.cells)
      /\ \A i \in 1..Len(cfs) : /\ Start(i) = Offset(cfs, i) /\ Offset(cfs, i) \in Nat
                                /\ Lies(archive.cells, Offset(cfs, i), Member(cfs[i]))
  BY <1>1, PlacesAre
<1>6. Fine(cfs)
  BY <1>1, FineIs
<1>7. ASSUME NEW i \in 1..Len(cfs)
      PROVE  TellsTheFile(Entries[i], i) /\ LocalAgrees(Entries[i], i)
  <2> DEFINE cf == cfs[i]
             o == Offset(cfs, i)
  <2>1. /\ SealedAs(i, cf) /\ o = Start(i) /\ o \in Nat /\ Lies(archive.cells, o, Member(cf))
        /\ Entries[i] = DirentOf(cf, o)
    BY <1>2, <1>4, <1>5
  <2>2. Written1(cf) /\ Len(cf.name) =< Max16
    BY <1>6 DEF Fine, Fine1
  <2>3. FileIs(File(i))
    BY <1>4, JobIs DEF File
  <2> HIDE DEF cf, o
  <2>4. TellsTheFile(DirentOf(cf, o), i)
    BY <2>1, <2>3, Tells
  <2>5. LocalAgrees(DirentOf(cf, o), i)
    BY <1>5, <2>1, <2>2, Agrees
  <2> QED BY <2>1, <2>4, <2>5
<1> QED BY <1>2, <1>3, <1>4, <1>7

\* What the reader opens is an archive that the writer has returned.
OpenedIs ==
  /\ job \in Jobs
  /\ opened # None =>
       /\ archive # None /\ archive.error = "none"
       /\ opened.cd = read_central_dir(archive.cells)

LEMMA OpenedStarts == Init => OpenedIs
BY DEF Init, WriterInit, ReadInit, OpenedIs

\* The directory read is of the archive alone.
LEMMA SameOpened ==
  ASSUME OpenedIs, UNCHANGED <<job, archive, opened>>
  PROVE  OpenedIs'
BY DEF OpenedIs

\* Until the archive is there, none is opened.
LEMMA WriterKeepsOpened ==
  ASSUME OpenedIs, WriterNext, UNCHANGED readVars
  PROVE  OpenedIs'
<1>1. job' = job /\ opened' = opened /\ (archive' = archive \/ archive = None)
  BY DEF WriterNext, TakeFile, FinishFile, WriteArchive, GiveUp, readVars
<1>2. CASE archive' = archive
  BY <1>1, <1>2, SameOpened
<1>3. CASE archive = None
  BY <1>1, <1>3 DEF OpenedIs
<1> QED BY <1>1, <1>2, <1>3

LEMMA ReadersKeepOpened ==
  ASSUME OpenedIs, ReadNext
  PROVE  OpenedIs'
<1>1. CASE OpenArchive
  BY <1>1 DEF OpenArchive, OpenedIs
<1>2. ASSUME NEW pw \in Passwords, SetDefaultPassword(pw)
      PROVE  OpenedIs'
  BY <1>2, SameOpened DEF SetDefaultPassword, writerVars
<1>3. ASSUME NEW t \in Threads, NEW i \in DOMAIN Entries,
             NEW pw \in Passwords \cup {None}, NEW raw \in BOOLEAN,
             OpenEntry(t, i, pw, raw)
      PROVE  OpenedIs'
  BY <1>3, SameOpened DEF OpenEntry, writerVars
<1>4. ASSUME NEW t \in Threads, Step(t)
      PROVE  OpenedIs'
  BY <1>4, SameOpened, StepKeepsOthers DEF writerVars
<1> QED BY <1>1, <1>2, <1>3, <1>4 DEF ReadNext

\* An archive that write_archive has produced opens again, for any files,
\* options, counts, sizes and offsets within the limits the reader states, none
\* of them just at the sentinel of its field, and its directory tells of each
\* file what was given to the writer, the time as mktime would where a clock can
\* show it.
THEOREM DirectoryIsReadBack == Spec => []DirectoryReadsBack
<1>1. Init => ArchiveInv /\ OpenedIs
  BY WriterStarts, SharedStarts, OpenedStarts DEF ArchiveInv
<1>2. ArchiveInv /\ OpenedIs /\ [Next]_vars => ArchiveInv' /\ OpenedIs'
  <2>1. ArchiveInv /\ [Next]_vars => ArchiveInv'
    BY WriterNextKeeps, ReadNextKeeps, StutterKeeps DEF Next
  <2>2. OpenedIs /\ Next => OpenedIs'
    BY WriterKeepsOpened, ReadersKeepOpened DEF Next
  <2>3. OpenedIs /\ UNCHANGED vars => OpenedIs'
    BY SameOpened DEF vars, readVars
  <2> QED BY <2>1, <2>2, <2>3
<1>3. ArchiveInv /\ OpenedIs => DirectoryReadsBack
  BY ReadsBackHere
     DEF DirectoryReadsBack, ArchiveInv, WriterInv, WorkersLeaveNoTrace, OpenedIs
<1> QED BY <1>1, <1>2, <1>3, PTL DEF Spec

----------------------------------------------------------------------------
(* What a reader has of its entry.                                         *)

First(s, k) == Piece(s, 0, k)

\* An entry e: its Dirent e.d, where its data begins, the cells there, what they
\* were before encryption, the content, and how it was encrypted.
EntryIs(e) ==
  /\ e.at \in Nat /\ IsSeq(e.region) /\ Len(e.region) = e.d.comp
  /\ IsSeq(e.text) /\ \A k \in 1..Len(e.text) : e.text[k] # "garbage"
  /\ e.d.method \in {"store", "deflate"} /\ e.d.em \in Supported
  /\ Encrypts(e.d) <=> e.d.em # "none"
  /\ e.d.uncomp = Len(e.text)
  /\ e.d.em \in AesMethods => ~e.d.crcValid
  /\ e.d.em \notin AesMethods => e.d.crcValid /\ e.d.crc = e.text
  /\ e.plain = compress_bytes(e.text, e.d.method)
  /\ e.d.em = "none" => e.region = e.plain
  /\ e.d.em = "trad" => e.region = encrypt_data(e.pw, e.text, e.plain)
  /\ e.d.em \in AesMethods =>
       e.region = aes_encrypt_data(e.pw, e.d.em, e.plain, e.salt)

\* It is the i-th of the archive.
Stands(i, e) ==
  /\ Entries[i] = e.d /\ Lies(archive.cells, e.at, e.region)
  /\ e.d.offset \in 0..(Len(archive.cells) - 1)
  /\ \E x : /\ archive.cells[e.d.offset + 1] = <<"local", x>>
            /\ e.at = e.d.offset + 1 + x.nameLen + x.extraLen
  /\ File(i).data = e.text /\ Compressed(i).data = e.plain
  /\ Methods[i] = e.d.em /\ StoredSize(i) = e.d.comp /\ job.pw = e.pw

Holds(E) ==
  /\ IsSeq(archive.cells) /\ DOMAIN Entries = DOMAIN E
  /\ \A i \in DOMAIN E : EntryIs(E[i]) /\ Stands(i, E[i])

\* The first k of the compressed cells decode to this.
Part(e, k) ==
  IF e.d.method = "store" THEN First(e.text, k) ELSE IF k = 0 THEN <<>> ELSE e.text

Garbage(k) == [j \in 1..k |-> "garbage"]

Fields(r, more) ==
  {"phase", "entry", "pw", "raw"} \cup more \subseteq DOMAIN r

AtHeader(r, e) == Fields(r, {"pos"}) /\ r.raw \in BOOLEAN /\ r.pos = e.d.offset
AtStart(r, e) == Fields(r, {"pos"}) /\ ~r.raw /\ r.pos = e.at

InRegion(r, e) ==
  /\ Fields(r, {"pos", "got"}) /\ r.raw \in BOOLEAN
  /\ Len(r.got) \in 0..e.d.comp /\ r.got = First(e.region, Len(r.got))
  /\ r.pos = e.at + Len(r.got)
  /\ r.raw \/ e.d.em \in AesMethods

Buffers(r, e) ==
  /\ Fields(r, {"src", "out"}) /\ ~r.raw /\ e.d.em = "none"
  /\ r.src.data = e.text
  /\ Len(r.out) \in 0..Len(e.text) /\ r.out = First(e.text, Len(r.out))

KeysShape(keys) == keys = [pw |-> keys.pw, done |-> keys.done, lost |-> keys.lost]

\* The key stream after k cells, under the right password or a wrong one.
KeysAre(keys, pw, out, e, k) ==
  /\ KeysShape(keys)
  /\ pw = e.pw => keys.pw = e.pw /\ keys.done = k /\ keys.lost = FALSE /\ out = Part(e, k)
  /\ pw # e.pw => /\ keys.lost = TRUE /\ out = Garbage(k)
                  /\ e.d.method = "store" \/ k = 0

StreamsAt(r, e, k) ==
  /\ r.src.left = Len(e.plain) - k
  /\ r.pos = e.at + (e.d.comp - Len(e.plain)) + k
  /\ e.d.em = "none" => r.src.keys = <<>> /\ r.out = Part(e, k)
  /\ e.d.em = "trad" => /\ r.src.keys = <<r.src.keys[1]>>
                        /\ KeysAre(r.src.keys[1], r.pw, r.out, e, k)

Streams(r, e) ==
  /\ Fields(r, {"pos", "src", "out"}) /\ ~r.raw /\ e.d.em \in {"none", "trad"}
  /\ \E k \in 0..Len(e.plain) : StreamsAt(r, e, k)

InMemory(r, e) ==
  /\ Fields(r, {"src", "out"}) /\ ~r.raw /\ e.d.em \in AesMethods
  /\ r.pw = e.pw /\ r.src.cells = e.plain /\ r.out = <<>>

Ends(r, e) ==
  /\ r.raw => r.out = e.region
  /\ ~r.raw => r.out = e.text /\ (e.d.em = "none" \/ r.pw = e.pw \/ r.out = <<>>)

FailsFor(r, e, n) ==
  \/ r.error = "read" /\ n > 0
  \/ r.error = "no_passwd" /\ r.pw = None /\ e.d.em # "none"
  \/ r.error \in {"wrong_passwd", "crc", "compressed_data"} /\ e.d.em # "none" /\ r.pw # e.pw
  \/ /\ r.error = "central_dir_too_large" /\ OverLimit(e.d)
     /\ r.raw \/ e.d.em \in AesMethods

Phases ==
  {"header", "cache", "start", "decode", "check", "region", "buffered", "streaming",
   "memory", "ended", "failed"}

\* What a reader has of its entry in each phase; n reads of the file have failed.
PhaseIs(r, e, n) ==
  /\ r.phase \in Phases
  /\ r.phase = "header" => AtHeader(r, e)
  /\ r.phase \in {"cache", "start"} => AtStart(r, e)
  /\ r.phase = "decode" => AtStart(r, e) /\ e.d.em = "none"
  /\ r.phase = "check" => AtStart(r, e) /\ e.d.em = "trad"
  /\ r.phase = "region" => InRegion(r, e)
  /\ r.phase = "buffered" => Buffers(r, e)
  /\ r.phase = "streaming" => Streams(r, e)
  /\ r.phase = "memory" => InMemory(r, e)
  /\ r.phase = "ended" => Ends(r, e)
  /\ r.phase = "failed" => FailsFor(r, e, n)

ReaderIs(r, E, n) ==
  r.phase = "idle" \/ (r.entry \in DOMAIN E /\ PhaseIs(r, E[r.entry], n))

ReadersAre(E) ==
  /\ DOMAIN readers = Threads /\ faults \in Nat
  /\ DOMAIN starts = DOMAIN E /\ \A i \in DOMAIN E : starts[i] \in {None, E[i].at}
  /\ \A t \in Threads : ReaderIs(readers[t], E, faults)

ReadersInv ==
  /\ opened = None => /\ DOMAIN readers = Threads /\ faults \in Nat
                      /\ \A t \in Threads : readers[t].phase = "idle"
  /\ IsOpen /\ Reopens => \E E : Holds(E) /\ ReadersAre(E)

LEMMA FirstIs ==
  ASSUME NEW s, IsSeq(s), NEW k \in 0..Len(s)
  PROVE  /\ IsSeq(First(s, k)) /\ Len(First(s, k)) = k
         /\ \A j \in 1..k : First(s, k)[j] = s[j]
<1>1. Len(s) \in Nat
  BY SequenceIs
<1>2. k \in Nat /\ 0 \in Nat /\ 0 + k =< Len(s)
  BY <1>1
<1>3. /\ IsSeq(Piece(s, 0, k)) /\ Len(Piece(s, 0, k)) = k
      /\ \A j \in 1..k : Piece(s, 0, k)[j] = s[0 + j]
  BY <1>2, PieceIs
<1>4. \A j \in 1..k : 0 + j = j
  BY <1>2
<1> QED BY <1>3, <1>4 DEF First

LEMMA FirstNone ==
  ASSUME NEW s, IsSeq(s)
  PROVE  First(s, 0) = <<>>
<1>1. 0 \in 0..Len(s)
  BY SequenceIs
<1>2. IsSeq(First(s, 0)) /\ Len(First(s, 0)) = 0
  BY <1>1, FirstIs
<1> HIDE DEF First
<1> QED BY <1>2, EmptySequence, SameSequence

LEMMA FirstWhole ==
  ASSUME NEW s, IsSeq(s)
  PROVE  First(s, Len(s)) = s
<1>1. Len(s) \in 0..Len(s)
  BY SequenceIs
<1>2. IsSeq(First(s, Len(s))) /\ Len(First(s, Len(s))) = Len(s)
      /\ \A j \in 1..Len(s) : First(s, Len(s))[j] = s[j]
  BY <1>1, FirstIs
<1> QED BY <1>2, SameSequence

\* The first k, and n more.
LEMMA FirstNext ==
  ASSUME NEW s, IsSeq(s), NEW k \in Nat, NEW n \in Nat, k + n =< Len(s)
  PROVE  First(s, k) \o Piece(s, k, n) = First(s, k + n)
<1>1. Len(s) \in Nat
  BY SequenceIs
<1>2. k \in 0..Len(s) /\ k + n \in 0..Len(s)
  BY <1>1
<1> DEFINE a == First(s, k)
           b == Piece(s, k, n)
           c == First(s, k + n)
<1>3. IsSeq(a) /\ Len(a) = k /\ \A j \in 1..k : a[j] = s[j]
  BY <1>2, FirstIs
<1>4. IsSeq(b) /\ Len(b) = n /\ \A j \in 1..n : b[j] = s[k + j]
  BY PieceIs
<1>5. IsSeq(c) /\ Len(c) = k + n /\ \A j \in 1..(k + n) : c[j] = s[j]
  BY <1>2, FirstIs
<1> HIDE DEF a, b, c
<1>6. Joined(a, b, a \o b)
  BY <1>3, <1>4, ConcatJoins
<1>7. IsSeq(a \o b) /\ Len(a \o b) = k + n
  BY <1>3, <1>4, <1>6 DEF Joined
<1>8. ASSUME NEW j \in 1..(k + n)
      PROVE  (a \o b)[j] = c[j]
  <2>1. CASE j =< k
    <3>1. j \in 1..k
      BY <2>1
    <3> QED BY <1>3, <1>5, <1>6, <3>1 DEF Joined
  <2>2. CASE j > k
    <3> DEFINE m == j - k
    <3>1. m \in 1..n /\ k + m = j
      BY <2>2
    <3> HIDE DEF m
    <3>2. (a \o b)[k + m] = b[m]
      BY <1>3, <1>4, <1>6, <3>1 DEF Joined
    <3> QED BY <1>4, <1>5, <3>1, <3>2
  <2>3. j =< k \/ j > k
    BY ONLY k \in Nat, n \in Nat, j \in 1..(k + n)
  <2> QED BY ONLY <2>1, <2>2, <2>3
<1>9. a \o b = c
  BY <1>5, <1>7, <1>8, SameSequence
<1> QED BY <1>9 DEF a, b, c

LEMMA FirstPrefix ==
  ASSUME NEW s, IsSeq(s), NEW k \in 0..Len(s)
  PROVE  IsPrefix(First(s, k), s)
<1>1. Len(s) \in Nat /\ k \in Nat /\ k =< Len(s)
  BY SequenceIs
<1>2. IsSeq(First(s, k)) /\ Len(First(s, k)) = k
  BY FirstIs
<1>3. First(First(s, k), k) = First(s, k)
  BY <1>2, FirstWhole
<1>4. 0 + 1 = 1 /\ 0 + k = k
  BY <1>1
<1>5. \A x : First(x, k) = SubSeq(x, 1, k)
  BY <1>4 DEF First, Piece
<1>6. SubSeq(First(s, k), 1, k) = SubSeq(s, 1, k)
  BY <1>3, <1>5
<1> QED BY <1>1, <1>2, <1>6 DEF IsPrefix

\* Of what lies in a sequence, a part is read there.
LEMMA PieceThere ==
  ASSUME NEW c, IsSeq(c), NEW at \in Nat, NEW p, IsSeq(p), Lies(c, at, p),
         NEW k \in Nat, NEW n \in Nat, k + n =< Len(p)
  PROVE  Piece(c, at + k, n) = Piece(p, k, n)
<1>1. Len(c) \in Nat /\ Len(p) \in Nat /\ at + Len(p) =< Len(c)
  BY SequenceIs DEF Lies
<1>2. at + k \in Nat /\ at + k + n =< Len(c)
  BY <1>1
<1>3. /\ IsSeq(Piece(c, at + k, n)) /\ Len(Piece(c, at + k, n)) = n
      /\ \A j \in 1..n : Piece(c, at + k, n)[j] = c[at + k + j]
  BY <1>2, PieceIs
<1>4. /\ IsSeq(Piece(p, k, n)) /\ Len(Piece(p, k, n)) = n
      /\ \A j \in 1..n : Piece(p, k, n)[j] = p[k + j]
  BY PieceIs
<1>5. ASSUME NEW j \in 1..n
      PROVE  c[at + k + j] = p[k + j]
  <2>1. k + j \in 1..Len(p) /\ at + k + j = at + (k + j)
    BY <1>1
  <2> QED BY <2>1 DEF Lies
<1> QED BY <1>3, <1>4, <1>5, SameSequence

----------------------------------------------------------------------------
(* What cells decode to.                                                   *)

DecodedOne(cell, method) ==
  CASE cell[1] = "deflated" /\ method = "deflate" -> cell[2]
    [] cell[1] = "byte" -> <<cell[2]>>
    [] OTHER -> <<"garbage">>

LEMMA DecodedIs ==
  ASSUME NEW cells, IsSeq(cells), NEW method
  PROVE  \E f : /\ Decoded(cells, method) = Flats(f, Len(cells))
                /\ \A k \in 1..Len(cells) : f[k] = DecodedOne(cells[k], method)
<1>1. DOMAIN cells = 1..Len(cells)
  BY SequenceIs
<1> DEFINE f == [k \in 1..Len(cells) |-> DecodedOne(cells[k], method)]
<1>2. Decoded(cells, method) = FlattenSeq(f)
  BY <1>1 DEF Decoded, DecodedOne
<1>3. f = [k \in 1..Len(cells) |-> f[k]]
  OBVIOUS
<1>4. \A k \in 1..Len(cells) : f[k] = DecodedOne(cells[k], method)
  OBVIOUS
<1> HIDE DEF f
<1>5. Decoded(cells, method) = Flats(f, Len(cells))
  BY <1>2, <1>3 DEF Flats
<1> QED BY <1>4, <1>5

\* Stored bytes are what they are.
LEMMA StoredDecode ==
  ASSUME NEW cells, NEW x, IsSeq(cells), IsSeq(x), Len(cells) = Len(x), NEW method,
         \A k \in 1..Len(x) : cells[k] = <<"byte", x[k]>>
  PROVE  Decoded(cells, method) = x
<1>1. PICK f : /\ Decoded(cells, method) = Flats(f, Len(cells))
               /\ \A k \in 1..Len(cells) : f[k] = DecodedOne(cells[k], method)
  BY DecodedIs
<1>2. ASSUME NEW b
      PROVE  DecodedOne(<<"byte", b>>, method) = <<b>>
  BY DEF DecodedOne
<1>3. \A k \in 1..Len(x) : f[k] = <<x[k]>>
  BY <1>1, <1>2
<1>4. Flats(f, Len(x)) = x
  BY <1>3, FlatSingles
<1> QED BY <1>1, <1>4

LEMMA GarbageIs ==
  ASSUME NEW k \in Nat
  PROVE  /\ IsSeq(Garbage(k)) /\ Len(Garbage(k)) = k
         /\ \A j \in 1..k : Garbage(k)[j] = "garbage"
<1>1. \A j \in 1..k : Garbage(k)[j] = "garbage"
  BY DEF Garbage
<1>2. Garbage(k) = [j \in 1..k |-> Garbage(k)[j]]
  BY DEF Garbage
<1> QED BY <1>1, <1>2, SequenceOf

\* What does not decrypt is garbage.
LEMMA NoiseDecode ==
  ASSUME NEW cells, IsSeq(cells), NEW method, \A k \in 1..Len(cells) : cells[k] = <<"noise">>
  PROVE  Decoded(cells, method) = Garbage(Len(cells))
<1>0. Len(cells) \in Nat
  BY SequenceIs
<1>1. PICK f : /\ Decoded(cells, method) = Flats(f, Len(cells))
               /\ \A k \in 1..Len(cells) : f[k] = DecodedOne(cells[k], method)
  BY DecodedIs
<1>2. DecodedOne(<<"noise">>, method) = <<"garbage">>
  BY DEF DecodedOne
<1> DEFINE g == Garbage(Len(cells))
<1>3. IsSeq(g) /\ Len(g) = Len(cells) /\ \A j \in 1..Len(cells) : g[j] = "garbage"
  BY <1>0, GarbageIs
<1> HIDE DEF g
<1>4. \A k \in 1..Len(g) : f[k] = <<g[k]>>
  BY <1>1, <1>2, <1>3
<1>5. Flats(f, Len(g)) = g
  BY <1>3, <1>4, FlatSingles
<1>6. Flats(f, Len(cells)) = g
  BY <1>3, <1>5
<1> QED BY <1>1, <1>6 DEF g

LEMMA GarbageNext ==
  ASSUME NEW k \in Nat, NEW n \in Nat
  PROVE  Garbage(k) \o Garbage(n) = Garbage(k + n)
<1>0. k + n \in Nat
  OBVIOUS
<1> DEFINE a == Garbage(k)
           b == Garbage(n)
           c == Garbage(k + n)
<1>1. IsSeq(a) /\ Len(a) = k /\ \A j \in 1..k : a[j] = "garbage"
  BY GarbageIs
<1>2. IsSeq(b) /\ Len(b) = n /\ \A j \in 1..n : b[j] = "garbage"
  BY GarbageIs
<1>3. IsSeq(c) /\ Len(c) = k + n /\ \A j \in 1..(k + n) : c[j] = "garbage"
  BY <1>0, GarbageIs
<1> HIDE DEF a, b, c
<1>4. Joined(a, b, a \o b)
  BY <1>1, <1>2, ConcatJoins
<1>5. ASSUME NEW j \in 1..(k + n)
      PROVE  (a \o b)[j] = "garbage"
  <2>1. CASE j =< k
    <3>1. j \in 1..k
      BY <2>1
    <3> QED BY <1>1, <1>4, <3>1 DEF Joined
  <2>2. CASE j > k
    <3> DEFINE m == j - k
    <3>1. m \in 1..n /\ k + m = j
      BY <2>2
    <3> HIDE DEF m
    <3> QED BY <1>1, <1>2, <1>4, <3>1 DEF Joined
  <2>3. j =< k \/ j > k
    BY ONLY k \in Nat, n \in Nat, j \in 1..(k + n)
  <2> QED BY ONLY <2>1, <2>2, <2>3
<1>6. IsSeq(a \o b) /\ Len(a \o b) = k + n
  BY <1>1, <1>2, <1>4 DEF Joined
<1>7. a \o b = c
  BY <1>3, <1>5, <1>6, SameSequence
<1> QED BY <1>7 DEF a, b, c

\* A deflated content decodes from its cell.
LEMMA DeflatedDecode ==
  ASSUME NEW x, IsSeq(x), NEW cells, cells = <<<<"deflated", x>>>>
  PROVE  Decoded(cells, "deflate") = x
<1>1. IsSeq(cells) /\ Len(cells) = 1 /\ cells[1] = <<"deflated", x>>
  BY SingleSequence
<1>2. PICK f : /\ Decoded(cells, "deflate") = Flats(f, Len(cells))
               /\ \A k \in 1..Len(cells) : f[k] = DecodedOne(cells[k], "deflate")
  BY <1>1, DecodedIs
<1>3. DecodedOne(<<"deflated", x>>, "deflate") = x
  BY DEF DecodedOne
<1>4. f[1] = x
  BY <1>1, <1>2, <1>3
<1>5. Flats(f, 0 + 1) = Flats(f, 0) \o f[0 + 1]
  <2>1. 0 \in Nat /\ IsSeq(f[0 + 1])
    BY <1>4
  <2> QED BY <2>1, FlatNext
<1>6. Flats(f, 1) = <<>> \o x
  <2>1. 0 + 1 = 1
    OBVIOUS
  <2>2. Flats(f, 1) = Flats(f, 0) \o f[1]
    BY ONLY <1>5, <2>1
  <2> QED BY ONLY <1>4, <2>2, FlatEmpty
<1>7. Flats(f, 1) = x
  BY <1>6, EmptyConcat
<1> QED BY <1>1, <1>2, <1>7

----------------------------------------------------------------------------
(* An entry's compressed cells, and what parts of them decode to.          *)

LEMMA PlainIs ==
  ASSUME NEW e, EntryIs(e)
  PROVE  /\ IsSeq(e.text) /\ Len(e.text) \in Nat
         /\ IsSeq(e.plain) /\ Len(e.plain) \in Nat
         /\ e.d.method = "store" =>
              /\ Len(e.plain) = Len(e.text) /\ Plain(e.plain) = e.text
              /\ \A k \in 1..Len(e.text) : e.plain[k] = <<"byte", e.text[k]>>
         /\ e.d.method = "deflate" => e.plain = <<<<"deflated", e.text>>>> /\ Len(e.plain) = 1
<1>1. IsSeq(e.text) /\ e.plain = compress_bytes(e.text, e.d.method)
      /\ e.d.method \in {"store", "deflate"}
  BY DEF EntryIs
<1>2. Len(e.text) \in Nat
  BY <1>1, SequenceIs
<1>3. CASE e.d.method = "store"
  <2>1. e.plain = Texts("byte", e.text)
    BY <1>1, <1>3 DEF compress_bytes
  <2> QED BY <1>1, <1>2, <1>3, <2>1, TextsAre
<1>4. CASE e.d.method = "deflate"
  <2>1. e.plain = <<<<"deflated", e.text>>>>
    BY <1>1, <1>4 DEF compress_bytes
  <2>2. IsSeq(e.plain) /\ Len(e.plain) = 1
    BY <2>1, SingleSequence
  <2> QED BY <1>1, <1>2, <1>4, <2>1, <2>2
<1> QED BY <1>1, <1>3, <1>4

LEMMA PartNone ==
  ASSUME NEW e, EntryIs(e)
  PROVE  Part(e, 0) = <<>>
<1>1. First(e.text, 0) = <<>>
  BY PlainIs, FirstNone
<1> QED BY <1>1 DEF Part

LEMMA PartWhole ==
  ASSUME NEW e, EntryIs(e)
  PROVE  Part(e, Len(e.plain)) = e.text
<1>1. CASE e.d.method = "store"
  <2>1. First(e.text, Len(e.text)) = e.text
    BY PlainIs, FirstWhole
  <2>2. Len(e.plain) = Len(e.text)
    BY <1>1, PlainIs
  <2> QED BY <1>1, <2>1, <2>2 DEF Part
<1>2. CASE e.d.method = "deflate"
  <2>1. Len(e.plain) = 1
    BY <1>2, PlainIs
  <2> QED BY <1>2, <2>1 DEF Part
<1> QED BY <1>1, <1>2 DEF EntryIs

LEMMA PartPrefix ==
  ASSUME NEW e, EntryIs(e), NEW k \in 0..Len(e.plain)
  PROVE  IsPrefix(Part(e, k), e.text)
<1>1. IsSeq(e.text) /\ Len(e.text) \in Nat
  BY PlainIs
<1>2. CASE e.d.method = "store"
  <2>1. k \in 0..Len(e.text)
    BY <1>2, PlainIs
  <2>2. IsPrefix(First(e.text, k), e.text)
    BY <1>1, <2>1, FirstPrefix
  <2> QED BY <1>2, <2>2 DEF Part
<1>3. CASE e.d.method # "store"
  <2>1. 0 \in 0..Len(e.text) /\ Len(e.text) \in 0..Len(e.text)
    BY <1>1
  <2>2. IsPrefix(First(e.text, 0), e.text) /\ IsPrefix(First(e.text, Len(e.text)), e.text)
    BY <1>1, <2>1, FirstPrefix
  <2>3. First(e.text, 0) = <<>> /\ First(e.text, Len(e.text)) = e.text
    BY <1>1, FirstNone, FirstWhole
  <2> QED BY <1>3, <2>2, <2>3 DEF Part
<1> QED BY <1>2, <1>3

\* The cells that a decoder takes at once, whatever it has taken before.
LEMMA PartNext ==
  ASSUME NEW e, EntryIs(e), NEW k \in Nat, NEW n \in Nat \ {0}, k + n =< Len(e.plain)
  PROVE  /\ Decodes(Piece(e.plain, k, n), e.d.method)
         /\ Part(e, k) \o Decoded(Piece(e.plain, k, n), e.d.method) = Part(e, k + n)
<1> DEFINE cells == Piece(e.plain, k, n)
<1>1. IsSeq(e.text) /\ Len(e.text) \in Nat /\ IsSeq(e.plain) /\ Len(e.plain) \in Nat
  BY PlainIs
<1>2. IsSeq(cells) /\ Len(cells) = n /\ \A j \in 1..n : cells[j] = e.plain[k + j]
  BY <1>1, PieceIs
<1>3. CASE e.d.method = "store"
  <2> DEFINE x == Piece(e.text, k, n)
  <2>1. Len(e.plain) = Len(e.text)
        /\ \A j \in 1..Len(e.text) : e.plain[j] = <<"byte", e.text[j]>>
    BY <1>3, PlainIs
  <2>2. IsSeq(x) /\ Len(x) = n /\ \A j \in 1..n : x[j] = e.text[k + j]
    BY <1>1, <2>1, PieceIs
  <2>3. First(e.text, k) \o x = First(e.text, k + n)
    BY <1>1, <2>1, FirstNext
  <2> HIDE DEF cells, x
  <2>4. \A j \in 1..n : k + j \in 1..Len(e.text)
    BY <1>1, <2>1
  <2>5. \A j \in 1..Len(x) : cells[j] = <<"byte", x[j]>>
    BY <1>2, <2>1, <2>2, <2>4
  <2>6. Decoded(cells, e.d.method) = x
    BY <1>2, <2>2, <2>5, StoredDecode
  <2>7. Decodes(cells, e.d.method)
    BY <1>3 DEF Decodes
  <2> QED BY <1>3, <2>3, <2>6, <2>7 DEF Part, cells
<1>4. CASE e.d.method = "deflate"
  <2>1. e.plain = <<<<"deflated", e.text>>>> /\ Len(e.plain) = 1
    BY <1>4, PlainIs
  <2>2. k = 0 /\ n = 1 /\ k + n = 1
    BY <2>1
  <2> HIDE DEF cells
  <2>3. cells = <<<<"deflated", e.text>>>>
    <3>1. cells = First(e.plain, Len(e.plain))
      BY <2>1, <2>2 DEF cells, First
    <3> QED BY <1>1, <2>1, <3>1, FirstWhole
  <2>4. Decoded(cells, "deflate") = e.text
    BY <1>1, <2>3, DeflatedDecode
  <2>5. Decodes(cells, e.d.method)
    <3>1. DOMAIN cells = 1..1 /\ cells[1] = <<"deflated", e.text>>
      BY <1>2, <2>2, <2>3, SequenceIs, SingleSequence
    <3> QED BY <3>1 DEF Decodes
  <2>6. Part(e, k) = <<>> /\ Part(e, k + n) = e.text
    BY <1>4, <2>2 DEF Part
  <2>7. <<>> \o e.text = e.text
    BY <1>1, EmptyConcat
  <2> QED BY <1>4, <2>4, <2>5, <2>6, <2>7 DEF cells
<1> QED BY <1>3, <1>4 DEF EntryIs

----------------------------------------------------------------------------
(* An encrypted entry.                                                     *)

\* A header, and cells each with its place in the key stream.
SealedTrad(e) ==
  /\ Len(e.region) = 1 + Len(e.plain) /\ e.region[1] = <<"header", e.pw, e.text>>
  /\ \A k \in 1..Len(e.plain) : e.region[1 + k] = <<"crypt", e.pw, k, e.plain[k]>>

LEMMA TradIs ==
  ASSUME NEW e, EntryIs(e), e.d.em = "trad"
  PROVE  SealedTrad(e)
<1> DEFINE x == <<"header", e.pw, e.text>>
           c == [k \in DOMAIN e.plain |-> <<"crypt", e.pw, k, e.plain[k]>>]
           n == Len(e.plain)
<1>1. IsSeq(e.plain) /\ n \in Nat /\ DOMAIN e.plain = 1..n
  BY PlainIs, SequenceIs
<1>2. e.region = <<x>> \o c
  BY DEF EntryIs, encrypt_data
<1>3. /\ c = [k \in 1..n |-> c[k]]
      /\ \A k \in 1..n : c[k] = <<"crypt", e.pw, k, e.plain[k]>>
  BY <1>1
<1> HIDE DEF c, x
<1>4. IsSeq(c) /\ Len(c) = n
  BY <1>1, <1>3, SequenceOf
<1>5. IsSeq(<<x>>) /\ Len(<<x>>) = 1 /\ <<x>>[1] = x
  BY SingleSequence
<1>6. Joined(<<x>>, c, e.region)
  BY <1>2, <1>4, <1>5, ConcatJoins
<1>7. Len(e.region) = 1 + n /\ e.region[1] = x /\ \A k \in 1..n : e.region[1 + k] = c[k]
  BY <1>4, <1>5, <1>6 DEF Joined
<1> QED BY <1>3, <1>7 DEF SealedTrad, x

\* A salt, the bytes that check a password, the cells and what authenticates them.
SealedAes(e) ==
  LET n == Len(e.plain) IN
  /\ Len(e.region) = n + 3 /\ e.region[1] = <<"salt", e.d.em, e.salt>>
  /\ e.region[2] = <<"verify", CheckOf(e.pw), e.salt>>
  /\ e.region[n + 3] = <<"hmac", e.pw, e.salt, aes_ctr(e.pw, e.salt, e.plain)>>
  /\ \A k \in 1..n : e.region[2 + k] = aes_ctr(e.pw, e.salt, e.plain)[k]

LEMMA CtrIs ==
  ASSUME NEW pw, NEW salt, NEW data, IsSeq(data)
  PROVE  /\ IsSeq(aes_ctr(pw, salt, data)) /\ Len(aes_ctr(pw, salt, data)) = Len(data)
         /\ \A k \in 1..Len(data) : aes_ctr(pw, salt, data)[k] = <<"aes", pw, salt, k, data[k]>>
<1> DEFINE c == [k \in DOMAIN data |-> <<"aes", pw, salt, k, data[k]>>]
           n == Len(data)
<1>1. n \in Nat /\ DOMAIN data = 1..n
  BY SequenceIs
<1>2. /\ c = [k \in 1..n |-> c[k]]
      /\ \A k \in 1..n : c[k] = <<"aes", pw, salt, k, data[k]>>
  BY <1>1
<1> HIDE DEF c
<1>3. IsSeq(c) /\ Len(c) = n
  BY <1>1, <1>2, SequenceOf
<1> QED BY <1>2, <1>3 DEF aes_ctr, c

LEMMA AesIs ==
  ASSUME NEW e, EntryIs(e), e.d.em \in AesMethods
  PROVE  SealedAes(e)
<1> DEFINE s == <<"salt", e.d.em, e.salt>>
           v == <<"verify", CheckOf(e.pw), e.salt>>
           c == aes_ctr(e.pw, e.salt, e.plain)
           h == <<"hmac", e.pw, e.salt, c>>
           n == Len(e.plain)
<1>1. IsSeq(e.plain) /\ n \in Nat
  BY PlainIs
<1>2. e.region = <<s, v>> \o c \o <<h>>
  BY DEF EntryIs, aes_encrypt_data
<1>3. IsSeq(c) /\ Len(c) = n
  BY <1>1, CtrIs
<1> HIDE DEF s, v, c, h
<1>4. IsSeq(<<s, v>>) /\ Len(<<s, v>>) = 2 /\ <<s, v>>[1] = s /\ <<s, v>>[2] = v
  BY TupleIs
<1>5. IsSeq(<<h>>) /\ Len(<<h>>) = 1 /\ <<h>>[1] = h
  BY SingleSequence
<1> DEFINE front == <<s, v>> \o c
<1>6. Joined(<<s, v>>, c, front)
  BY <1>3, <1>4, ConcatJoins
<1>7. IsSeq(front) /\ Len(front) = n + 2 /\ front[1] = s /\ front[2] = v
      /\ \A k \in 1..n : front[2 + k] = c[k]
  BY <1>1, <1>3, <1>4, <1>6 DEF Joined
<1>8. Joined(front, <<h>>, e.region)
  BY <1>2, <1>5, <1>7, ConcatJoins
<1> HIDE DEF front
<1>9. Len(e.region) = n + 3 /\ e.region[n + 3] = h
  <2>1. Len(e.region) = Len(front) + Len(<<h>>) /\ e.region[Len(front) + 1] = <<h>>[1]
    BY <1>5, <1>8 DEF Joined
  <2>2. n + 2 + 1 = n + 3
    BY <1>1
  <2> QED BY <1>5, <1>7, <2>1, <2>2
<1>10. \A i \in 1..(n + 2) : e.region[i] = front[i]
  BY <1>7, <1>8 DEF Joined
<1>11. e.region[1] = s /\ e.region[2] = v
  BY <1>1, <1>7, <1>10
<1>12. \A k \in 1..n : e.region[2 + k] = c[k]
  <2>1. \A k \in 1..n : 2 + k \in 1..(n + 2)
    BY <1>1
  <2> QED BY <1>7, <1>10, <2>1
<1> QED BY <1>9, <1>11, <1>12 DEF SealedAes, s, v, c, h


LEMMA AesOpens ==
  ASSUME NEW e, EntryIs(e), e.d.em \in AesMethods, NEW pw, NEW em
  PROVE  LET p == aes_decrypt_data(pw, em, e.region) IN
         /\ pw = e.pw => p.error = "none" /\ p.cells = e.plain
         /\ pw # e.pw => p.error \in {"wrong_passwd", "crc"}
<1> DEFINE n == Len(e.plain)
           region == e.region
           ctr == aes_ctr(e.pw, e.salt, e.plain)
           cipher == SubSeq(region, 3, Len(region) - 1)
           salt == region[1][3]
           p == aes_decrypt_data(pw, em, region)
           check == <<"verify", CheckOf(pw), salt>>
           mac == <<"hmac", pw, salt, cipher>>
           cells == [k \in DOMAIN cipher |-> cipher[k][5]]
<1>1. IsSeq(e.plain) /\ n \in Nat /\ IsSeq(region)
  BY PlainIs DEF EntryIs
<1>2. /\ Len(region) = n + 3 /\ region[1] = <<"salt", e.d.em, e.salt>>
      /\ region[2] = <<"verify", CheckOf(e.pw), e.salt>>
      /\ region[n + 3] = <<"hmac", e.pw, e.salt, ctr>>
      /\ \A k \in 1..n : region[2 + k] = ctr[k]
  BY AesIs DEF SealedAes
<1>3. IsSeq(ctr) /\ Len(ctr) = n
      /\ \A k \in 1..n : ctr[k] = <<"aes", e.pw, e.salt, k, e.plain[k]>>
  BY <1>1, CtrIs
<1>4. salt = e.salt
  BY <1>2
<1> HIDE DEF ctr
<1>5. cipher = ctr
  <2>1. cipher = Piece(region, 2, n)
    <3>1. 2 + 1 = 3 /\ Len(region) - 1 = 2 + n
      BY <1>1, <1>2
    <3> QED BY <3>1 DEF Piece
  <2>2. /\ IsSeq(Piece(region, 2, n)) /\ Len(Piece(region, 2, n)) = n
        /\ \A k \in 1..n : Piece(region, 2, n)[k] = region[2 + k]
    <3>1. 2 \in Nat /\ 2 + n =< Len(region)
      BY <1>1, <1>2
    <3> QED BY <1>1, <3>1, PieceIs
  <2> QED BY <1>2, <1>3, <2>1, <2>2, SameSequence
<1> HIDE DEF cipher
<1>6. cells = e.plain
  <2>1. DOMAIN cipher = 1..n
    BY <1>3, <1>5, SequenceIs
  <2>2. \A k \in 1..n : cipher[k][5] = e.plain[k]
    BY <1>3, <1>5
  <2>3. e.plain = [k \in 1..n |-> e.plain[k]]
    BY <1>1, SequenceIs
  <2> QED BY <2>1, <2>2, <2>3
<1>7. p = IF region[2] # check THEN Error("wrong_passwd")
          ELSE IF region[Len(region)] # mac THEN Error("crc")
          ELSE [error |-> "none", cells |-> cells]
  <2>1. ~(Len(region) < 3)
    BY <1>1, <1>2
  <2> QED BY <2>1 DEF aes_decrypt_data, cipher
<1>8. ASSUME pw = e.pw PROVE p.error = "none" /\ p.cells = e.plain
  <2>1. region[2] = check
    BY <1>2, <1>4, <1>8
  <2>2. region[Len(region)] = mac
    BY <1>2, <1>4, <1>5, <1>8
  <2> HIDE DEF check, mac, cells, p
  <2>3. p = [error |-> "none", cells |-> cells]
    BY <1>7, <2>1, <2>2
  <2> QED BY <1>6, <2>3
<1>9. ASSUME pw # e.pw PROVE p.error \in {"wrong_passwd", "crc"}
  <2>1. region[Len(region)] # mac
    <3>1. region[Len(region)][2] = e.pw
      BY <1>2
    <3>2. mac[2] = pw
      OBVIOUS
    <3> QED BY <1>9, <3>1, <3>2
  <2> HIDE DEF check, mac, cells, p
  <2>2. p = Error("wrong_passwd") \/ p = Error("crc")
    BY <1>7, <2>1
  <2> QED BY <2>2 DEF Error
<1> QED BY <1>8, <1>9

KeysChanged(keys, d, x) ==
  [keys EXCEPT !.done = d, !.lost = x] = [pw |-> keys.pw, done |-> d, lost |-> x]

LEMMA KeysChange ==
  ASSUME NEW keys, KeysShape(keys), NEW d, NEW x
  PROVE  KeysChanged(keys, d, x)
<1> DEFINE a == keys.pw
           b == keys.done
           c == keys.lost
           one == [keys EXCEPT !.done = d]
<1>1. keys = [pw |-> a, done |-> b, lost |-> c]
  BY DEF KeysShape
<1> HIDE DEF a, b, c
<1>2. one = [pw |-> a, done |-> d, lost |-> c]
  BY <1>1
<1> HIDE DEF one
<1>3. [one EXCEPT !.lost = x] = [pw |-> a, done |-> d, lost |-> x]
  BY <1>2
<1> QED BY <1>3 DEF one, a, KeysChanged

\* Under the right password the cells of the key stream decrypt in their turn.
LEMMA KeyStream ==
  ASSUME NEW e, EntryIs(e), e.d.em = "trad", NEW k \in Nat, NEW n \in Nat,
         k + n =< Len(e.plain), NEW keys, keys = [pw |-> e.pw, done |-> k, lost |-> FALSE]
  PROVE  LET s == Decrypted(keys, Piece(e.region, 1 + k, n)) IN
         /\ s.cells = Piece(e.plain, k, n)
         /\ s.keys = [pw |-> e.pw, done |-> k + n, lost |-> FALSE]
<1> DEFINE cells == Piece(e.region, 1 + k, n)
           plain == Piece(e.plain, k, n)
           good == \A j \in DOMAIN cells :
                     decrypts([keys EXCEPT !.done = @ + j - 1], cells[j])
<1>1. IsSeq(e.plain) /\ Len(e.plain) \in Nat /\ IsSeq(e.region)
  BY PlainIs DEF EntryIs
<1>2. /\ Len(e.region) = 1 + Len(e.plain)
      /\ \A j \in 1..Len(e.plain) : e.region[1 + j] = <<"crypt", e.pw, j, e.plain[j]>>
  BY TradIs DEF SealedTrad
<1>3. IsSeq(cells) /\ Len(cells) = n /\ \A j \in 1..n : cells[j] = e.region[1 + k + j]
  <2>1. 1 + k \in Nat /\ 1 + k + n =< Len(e.region)
    BY <1>1, <1>2
  <2> QED BY <1>1, <2>1, PieceIs
<1>4. IsSeq(plain) /\ Len(plain) = n /\ \A j \in 1..n : plain[j] = e.plain[k + j]
  BY <1>1, PieceIs
<1> HIDE DEF cells, plain
<1>5. DOMAIN cells = 1..n /\ plain = [j \in 1..n |-> plain[j]]
  BY <1>3, <1>4, SequenceIs
<1>6. ASSUME NEW j \in 1..n
      PROVE  cells[j] = <<"crypt", e.pw, k + j, plain[j]>>
  <2> DEFINE m == Len(e.plain)
  <2>1. m \in Nat /\ k + n =< m
    BY <1>1
  <2> HIDE DEF m
  <2>2. k + j \in 1..m /\ 1 + k + j = 1 + (k + j)
    BY ONLY <2>1, k \in Nat, n \in Nat, j \in 1..n
  <2> QED BY <1>2, <1>3, <1>4, <2>2 DEF m
<1>7. ASSUME NEW j \in 1..n
      PROVE  decrypts([keys EXCEPT !.done = @ + j - 1], cells[j])
  <2> DEFINE now == [keys EXCEPT !.done = @ + j - 1]
  <2>1. now.pw = e.pw /\ now.done = k + j - 1 /\ ~now.lost
    OBVIOUS
  <2>2. now.done + 1 = k + j
    BY <2>1
  <2> HIDE DEF now
  <2>3. decrypts(now, cells[j])
    BY <1>6, <2>1, <2>2 DEF decrypts
  <2> QED BY <2>3 DEF now
<1>8. good
  BY <1>5, <1>7
<1> DEFINE s == Decrypted(keys, cells)
<1>9. s = [cells |-> [j \in DOMAIN cells |-> cells[j][4]],
           keys |-> [keys EXCEPT !.done = @ + Len(cells), !.lost = @ \/ ~good]]
  BY <1>8 DEF Decrypted
<1> HIDE DEF good
<1>10. [keys EXCEPT !.done = @ + Len(cells), !.lost = @ \/ ~good]
         = [pw |-> e.pw, done |-> k + n, lost |-> FALSE]
  <2> DEFINE lost == keys.lost \/ ~good
  <2>1. lost = FALSE
    <3>1. keys.lost = FALSE
      OBVIOUS
    <3> QED BY <1>8, <3>1
  <2> HIDE DEF lost
  <2>2. keys.done + Len(cells) = k + n /\ keys.pw = e.pw
    BY <1>3
  <2>3. KeysShape(keys)
    BY DEF KeysShape
  <2>4. KeysChanged(keys, k + n, lost)
    BY <2>3, KeysChange
  <2>5. [keys EXCEPT !.done = k + n, !.lost = lost] = [pw |-> e.pw, done |-> k + n, lost |-> lost]
    BY <2>2, <2>4 DEF KeysChanged
  <2> QED BY <2>1, <2>2, <2>5, Zenon DEF lost
<1>11. [j \in DOMAIN cells |-> cells[j][4]] = plain
  BY <1>5, <1>6
<1> HIDE DEF s
<1>12. s.cells = plain /\ s.keys = [pw |-> e.pw, done |-> k + n, lost |-> FALSE]
  BY <1>9, <1>10, <1>11
<1> QED BY <1>12 DEF s, cells, plain

\* A key stream that is lost stays so.
LEMMA LostStream ==
  ASSUME NEW keys, KeysShape(keys),
         keys.lost = TRUE, NEW cells, IsSeq(cells), Len(cells) > 0
  PROVE  LET s == Decrypted(keys, cells) IN
         /\ IsSeq(s.cells) /\ Len(s.cells) = Len(cells)
         /\ \A j \in 1..Len(cells) : s.cells[j] = <<"noise">>
         /\ KeysShape(s.keys) /\ s.keys.lost = TRUE
<1> DEFINE n == Len(cells)
           good == \A j \in DOMAIN cells :
                     decrypts([keys EXCEPT !.done = @ + j - 1], cells[j])
           s == Decrypted(keys, cells)
<1>1. n \in Nat /\ DOMAIN cells = 1..n
  BY SequenceIs
<1>2. ~good
  <2>1. 1 \in DOMAIN cells
    BY <1>1
  <2> DEFINE now == [keys EXCEPT !.done = @ + 1 - 1]
  <2>2. now.lost = TRUE
    OBVIOUS
  <2> HIDE DEF now
  <2>3. ~decrypts(now, cells[1])
    BY <2>2 DEF decrypts
  <2> QED BY <2>1, <2>3 DEF now
<1>3. s = [cells |-> [j \in DOMAIN cells |-> <<"noise">>],
           keys |-> [keys EXCEPT !.done = @ + Len(cells), !.lost = @ \/ ~good]]
  BY <1>2 DEF Decrypted
<1> HIDE DEF good
<1> DEFINE noise == [j \in 1..n |-> <<"noise">>]
           later == [keys EXCEPT !.done = @ + Len(cells), !.lost = @ \/ ~good]
<1>4. later = [pw |-> keys.pw, done |-> keys.done + Len(cells), lost |-> TRUE]
  <2> DEFINE lost == keys.lost \/ ~good
  <2>1. lost = TRUE
    BY <1>2
  <2> HIDE DEF lost
  <2> DEFINE d == keys.done + Len(cells)
  <2>2. KeysChanged(keys, d, lost)
    BY KeysChange
  <2>3. [keys EXCEPT !.done = d, !.lost = lost] = [pw |-> keys.pw, done |-> d, lost |-> lost]
    BY <2>2 DEF KeysChanged
  <2> QED BY <2>1, <2>3, Zenon DEF lost
<1>5. IsSeq(noise) /\ Len(noise) = n
  <2>1. noise = [j \in 1..n |-> noise[j]]
    OBVIOUS
  <2> HIDE DEF noise
  <2> QED BY <1>1, <2>1, SequenceOf
<1>6. \A j \in 1..n : noise[j] = <<"noise">>
  OBVIOUS
<1>7. s = [cells |-> noise, keys |-> later]
  BY <1>1, <1>3
<1>8. KeysShape(later) /\ later.lost = TRUE
  <2>1. \A d : LET l == [pw |-> keys.pw, done |-> d, lost |-> TRUE]
               IN  l = [pw |-> l.pw, done |-> l.done, lost |-> l.lost] /\ l.lost = TRUE
    OBVIOUS
  <2> HIDE DEF later
  <2> QED BY <1>4, <2>1 DEF KeysShape
<1> HIDE DEF noise, later, s
<1>9. s.cells = noise /\ s.keys = later
  BY <1>7
<1> QED BY <1>5, <1>6, <1>8, <1>9 DEF s

LEMMA Unseals ==
  ASSUME NEW e, EntryIs(e), NEW i, Methods[i] = e.d.em, job.pw = e.pw
  PROVE  Opened(i, e.region) = e.plain
<1>1. CASE e.d.em = "none"
  BY <1>1 DEF Opened, EntryIs
<1>2. CASE e.d.em = "trad"
  <2> DEFINE n == Len(e.plain)
             keys == StartKeys(e.pw)
  <2>1. IsSeq(e.plain) /\ n \in Nat /\ IsSeq(e.region) /\ Len(e.region) = 1 + n
    BY <1>2, PlainIs, TradIs DEF EntryIs, SealedTrad
  <2>2. Tail(e.region) = Piece(e.region, 1, n)
    <3>1. PICK X : e.region \in Seq(X)
      BY <2>1 DEF IsSeq
    <3>2. e.region # <<>>
      BY <2>1, EmptySequence
    <3>3. /\ Len(Tail(e.region)) = n /\ Tail(e.region) \in Seq(X)
          /\ \A j \in 1..n : Tail(e.region)[j] = e.region[j + 1]
      <4>1. Tail(e.region) \in Seq(X) /\ Len(Tail(e.region)) = Len(e.region) - 1
            /\ \A j \in 1..Len(Tail(e.region)) : Tail(e.region)[j] = e.region[j + 1]
        BY <3>1, <3>2, HeadTailProperties
      <4>2. Len(Tail(e.region)) = n
        BY <2>1, <4>1
      <4> QED BY <4>1, <4>2
    <3>4. IsSeq(Tail(e.region))
      BY <3>3 DEF IsSeq
    <3>5. /\ IsSeq(Piece(e.region, 1, n)) /\ Len(Piece(e.region, 1, n)) = n
          /\ \A j \in 1..n : Piece(e.region, 1, n)[j] = e.region[1 + j]
      <4>1. 1 \in Nat /\ 1 + n =< Len(e.region)
        BY <2>1
      <4> QED BY <2>1, <4>1, PieceIs
    <3>6. \A j \in 1..n : j + 1 = 1 + j
      OBVIOUS
    <3> QED BY <3>3, <3>4, <3>5, <3>6, SameSequence
  <2>3. keys = [pw |-> e.pw, done |-> 0, lost |-> FALSE]
    BY DEF StartKeys
  <2>4. 0 \in Nat /\ 0 + n =< n
    BY <2>1
  <2>5. Decrypted(keys, Piece(e.region, 1 + 0, n)).cells = Piece(e.plain, 0, n)
    BY <1>2, <2>1, <2>3, <2>4, KeyStream
  <2>6. Piece(e.plain, 0, n) = e.plain
    BY <2>1, FirstWhole DEF First
  <2>7. 1 + 0 = 1
    OBVIOUS
  <2>8. Decrypted(keys, Tail(e.region)).cells = e.plain
    BY <2>2, <2>5, <2>6, <2>7
  <2> QED BY <1>2, <2>8 DEF Opened
<1>3. CASE e.d.em \in AesMethods
  <2> DEFINE p == aes_decrypt_data(job.pw, Methods[i], e.region)
  <2>1. p.cells = e.plain
    BY <1>3, AesOpens
  <2>2. e.d.em # "none" /\ e.d.em # "trad"
    BY <1>3 DEF AesMethods
  <2> QED BY <2>1, <2>2 DEF Opened
<1> QED BY <1>1, <1>2, <1>3 DEF EntryIs, Supported

\* All of an entry's cells decode to its content.
LEMMA WholeDecodes ==
  ASSUME NEW e, EntryIs(e)
  PROVE  /\ Decodes(e.plain, e.d.method) /\ Decoded(e.plain, e.d.method) = e.text
         /\ IsSeq(e.text)
<1>1. IsSeq(e.plain) /\ Len(e.plain) \in Nat /\ IsSeq(e.text) /\ Len(e.text) \in Nat
  BY PlainIs
<1>2. CASE e.d.method = "store"
  <2>1. Plain(e.plain) = e.text /\ Len(e.plain) = Len(e.text)
        /\ \A k \in 1..Len(e.text) : e.plain[k] = <<"byte", e.text[k]>>
    BY <1>2, PlainIs
  <2>2. Decoded(e.plain, e.d.method) = e.text
    BY <1>1, <2>1, StoredDecode
  <2>3. Decodes(e.plain, e.d.method)
    BY <1>2 DEF Decodes
  <2> QED BY <1>1, <2>1, <2>2, <2>3
<1>3. CASE e.d.method = "deflate"
  <2>1. e.plain = <<<<"deflated", e.text>>>> /\ Len(e.plain) = 1
    BY <1>3, PlainIs
  <2>2. Decoded(e.plain, "deflate") = e.text
    BY <1>1, <2>1, DeflatedDecode
  <2>3. Decodes(e.plain, e.d.method)
    <3>1. DOMAIN e.plain = 1..1 /\ e.plain[1] = <<"deflated", e.text>>
      BY <1>1, <2>1, SequenceIs, SingleSequence
    <3> QED BY <3>1 DEF Decodes
  <2> QED BY <1>1, <1>3, <2>2, <2>3
<1> QED BY <1>2, <1>3 DEF EntryIs

----------------------------------------------------------------------------
(* The entries that stand in an archive.                                   *)

LEMMA ContentIs ==
  ASSUME Succeeds, NEW i \in 1..Len(job.files)
  PROVE  /\ IsSeq(File(i).data) /\ \A k \in 1..Len(File(i).data) : File(i).data[k] # "garbage"
         /\ CompressedAs(File(i), Compressed(i))
         /\ Compressed(i).data = compress_bytes(File(i).data, Compressed(i).method)
<1> DEFINE f == job.files[i]
           r == compress_file(f)
<1>1. FileIs(f) /\ i \in DOMAIN job.files /\ job \in Jobs
  BY JobIs DEF Succeeds
<1>2. Compressed(i) = r.cf /\ SerialResult[i] = r /\ File(i) = f
  BY <1>1 DEF Compressed, SerialResult, File
<1>3. r.state # "error"
  BY <1>1, <1>2 DEF Succeeds
<1>4. f.data \in Seq(STRING \ {"garbage"})
  <2>1. job.files \in Seq(Files)
    BY <1>1, JobsAssumption
  <2>2. f \in Files
    BY <2>1
  <2> HIDE DEF f
  <2> QED BY <2>2 DEF Files
<1>5. IsSeq(f.data) /\ \A k \in 1..Len(f.data) : f.data[k] # "garbage"
  <2> DEFINE d == f.data
             Bytes == STRING \ {"garbage"}
  <2>1. d \in Seq(Bytes)
    BY <1>4
  <2>2. "garbage" \notin Bytes
    OBVIOUS
  <2> HIDE DEF d, Bytes
  <2>3. \A k \in 1..Len(d) : d[k] \in Bytes
    BY <2>1
  <2> QED BY <2>1, <2>2, <2>3 DEF IsSeq, d
<1>6. CompressedAs(f, r.cf)
  BY <1>1, <1>3, CompressedIs
<1>7. r.cf.data = compress_bytes(f.data, r.cf.method)
  <2> DEFINE method == IF f.method = None THEN job.method ELSE f.method
             data == compress_bytes(f.data, method)
             cf == [name |-> f.name, method |-> method, crc |-> f.data,
                    comp |-> Len(data), uncomp |-> Len(f.data), data |-> data,
                    em |-> "none", comment |-> f.comment, extra |-> f.extra,
                    stamp |-> f.stamp, attrs |-> f.attrs]
  <2> HIDE DEF method, data, f
  <2>1. r = IF method \notin {"store", "deflate"}
            THEN [state |-> "error", error |-> "comp_not_supp"]
            ELSE [state |-> "done", cf |-> cf]
    BY DEF compress_file, method, data
  <2>2. cf.data = data /\ cf.method = method
    OBVIOUS
  <2> HIDE DEF cf, r
  <2>3. r.cf = cf
    BY <1>3, <2>1
  <2> QED BY <2>2, <2>3 DEF data
<1> QED BY <1>2, <1>5, <1>6, <1>7

LEMMA SealedCells ==
  ASSUME Succeeds, NEW i \in 1..Len(job.files), NEW salt, NEW cf, Seals(i, salt, cf)
  PROVE  /\ Methods[i] = "none" => cf.data = Compressed(i).data
         /\ Methods[i] = "trad" =>
              cf.data = encrypt_data(job.pw, File(i).data, Compressed(i).data)
         /\ Methods[i] \in AesMethods =>
              cf.data = aes_encrypt_data(job.pw, Methods[i], Compressed(i).data, salt)
<1> DEFINE c == Compressed(i)
           em == Methods[i]
<1>1. IsCompressed(c) /\ c.crc = File(i).data
  BY ContentIs DEF CompressedAs
<1>2. cf = Encrypted(c, em, salt)
  BY DEF Seals
<1> HIDE DEF c, em
<1>3. \A data : Replaced(c, em, data).data = data
  BY <1>1, ReplacedIs
<1>4. em = "none" => cf.data = c.data
  BY <1>2 DEF Encrypted
<1>5. em = "trad" => cf.data = encrypt_data(job.pw, c.crc, c.data)
  <2>1. em = "trad" => cf = Replaced(c, em, encrypt_data(job.pw, c.crc, c.data))
    BY <1>2 DEF Encrypted
  <2> QED BY <1>3, <2>1
<1>6. em \in AesMethods => cf.data = aes_encrypt_data(job.pw, em, c.data, salt)
  <2>1. em \in AesMethods => em # "none" /\ em # "trad"
    BY DEF AesMethods
  <2>2. em \in AesMethods => cf = Replaced(c, em, aes_encrypt_data(job.pw, em, c.data, salt))
    BY <1>2, <2>1 DEF Encrypted
  <2> QED BY <1>3, <2>2
<1> QED BY <1>1, <1>4, <1>5, <1>6 DEF c, em

\* Where the header and the data of a member lie.
LEMMA MemberThere ==
  ASSUME NEW cf, Written1(cf), Len(cf.name) =< Max16, NEW c, IsSeq(c), NEW o \in Nat,
         Lies(c, o, Member(cf))
  PROVE  /\ o \in 0..(Len(c) - 1) /\ o + Len(write_local_header(cf)) \in Nat
         /\ \E x : /\ c[o + 1] = <<"local", x>>
                   /\ o + Len(write_local_header(cf)) = o + 1 + x.nameLen + x.extraLen
         /\ Lies(c, o + Len(write_local_header(cf)), cf.data)
<1> DEFINE h == write_local_header(cf)
           m == Member(cf)
           data == cf.data
           x == LocalFixed(cf)
           l == <<"local", x>>
           more == Texts("name", cf.name) \o FieldCells(LocalExtra(cf))
<1>1. /\ IsSeq(h) /\ Len(h) = 1 + Len(cf.name) + Len(LocalExtra(cf))
      /\ Len(cf.name) \in Nat /\ Len(LocalExtra(cf)) \in Nat
      /\ IsFields(LocalExtra(cf)) /\ IsSeq(cf.name)
  BY LocalLength DEF Written1
<1>2. Lies(m, 0, h) /\ Lies(m, Len(h), data) /\ IsSeq(m) /\ IsSeq(data)
  BY MemberIs DEF Tagged, Written1
<1>3. Len(c) \in Nat /\ Len(m) \in Nat /\ Len(h) \in Nat /\ Len(data) \in Nat /\ 0 \in Nat
  BY <1>1, <1>2, SequenceIs
<1>4. x.nameLen = Len(cf.name) /\ x.extraLen = Len(LocalExtra(cf))
  <2>1. Wrap16(Len(cf.name)) = Len(cf.name)
    BY <1>1, Wrapped
  <2> QED BY <2>1 DEF LocalFixed
<1>5. HeadReads(c, o, l, cf.name, LocalExtra(cf))
  <2>1. h = HeadCells(l, cf.name, LocalExtra(cf))
    BY LocalIs
  <2> HIDE DEF h, m, l, data
  <2>2. Lies(c, o + 0, h)
    BY <1>2, <1>3, LiesWithin DEF m
  <2>3. o + 0 = o
    OBVIOUS
  <2>4. Lies(c, o, HeadCells(l, cf.name, LocalExtra(cf)))
    BY <2>1, <2>2, <2>3
  <2> QED BY <1>1, <2>4, HeadRead
<1>6. o \in 0..(Len(c) - 1) /\ c[o + 1] = l
  <2>1. c[o + 1] = l /\ o + 1 + Len(cf.name) + Len(LocalExtra(cf)) =< Len(c)
    BY <1>5 DEF HeadReads
  <2> DEFINE a == Len(cf.name)
             b == Len(LocalExtra(cf))
             n == Len(c)
  <2>2. a \in Nat /\ b \in Nat /\ n \in Nat /\ o + 1 + a + b =< n
    BY <1>1, <1>3, <2>1
  <2> HIDE DEF a, b, n
  <2>3. o \in 0..(n - 1)
    BY <2>2
  <2> QED BY <2>1, <2>3 DEF n
<1> HIDE DEF h, m, data
<1>7. Lies(c, o + Len(h), data)
  BY <1>2, <1>3, LiesWithin DEF m
<1>8. o + Len(h) \in Nat /\ o + Len(h) = o + 1 + x.nameLen + x.extraLen
  <2> DEFINE a == Len(cf.name)
             b == Len(LocalExtra(cf))
             n == Len(h)
  <2>1. n = 1 + a + b /\ a \in Nat /\ b \in Nat /\ n \in Nat
    BY <1>1, <1>3
  <2> HIDE DEF a, b, n
  <2>2. o + n \in Nat /\ o + n = o + 1 + a + b
    BY <2>1
  <2> QED BY <1>4, <2>2 DEF a, b, n
<1> QED BY <1>6, <1>7, <1>8 DEF h, data

\* The i-th entry of an archive that holds cf for it at o.
EntryOf(i, cf, o) ==
  [at |-> o + Len(write_local_header(cf)), d |-> DirentOf(cf, o), region |-> cf.data,
   text |-> File(i).data, plain |-> Compressed(i).data, pw |-> job.pw,
   salt |-> CHOOSE s : Seals(i, s, cf)]

\* What an entry has of its Dirent.
DirentFits(d, cf, o) ==
  /\ d.comp = cf.comp /\ d.uncomp = cf.uncomp /\ d.method = cf.method /\ d.em = cf.em
  /\ d.offset = o /\ (d.em \in AesMethods => ~d.crcValid)
  /\ (d.em \notin AesMethods => d.crcValid /\ d.crc = cf.crc)
  /\ Encrypts(d) <=> d.em # "none"

LEMMA DirentIs ==
  ASSUME NEW cf, NEW o
  PROVE  DirentFits(DirentOf(cf, o), cf, o)
<1> DEFINE d == DirentOf(cf, o)
           unkeyed == ~IsAes(cf)
<1>1. /\ d.comp = cf.comp /\ d.uncomp = cf.uncomp /\ d.method = cf.method /\ d.em = cf.em
      /\ d.offset = o /\ d.crc = StoredCrc(cf) /\ d.flags = Flags(cf) /\ d.crcValid = unkeyed
  BY DEF DirentOf
<1>2. Encrypts(d) <=> d.em # "none"
  <2>1. "encrypted" \in Flags(cf) <=> cf.em # "none"
    BY DEF Flags
  <2> QED BY <1>1, <2>1 DEF Encrypts
<1>3. CASE d.em \in AesMethods
  <2>1. unkeyed = FALSE
    BY <1>1, <1>3 DEF IsAes
  <2> HIDE DEF d, unkeyed
  <2>2. ~d.crcValid
    BY <1>1, <2>1
  <2> QED BY <1>1, <1>2, <1>3, <2>2 DEF DirentFits, d
<1>4. CASE d.em \notin AesMethods
  <2>1. unkeyed = TRUE
    BY <1>1, <1>4 DEF IsAes
  <2>2. StoredCrc(cf) = cf.crc
    BY <1>1, <1>4 DEF StoredCrc, IsAes
  <2> HIDE DEF d, unkeyed
  <2>3. d.crcValid
    BY <1>1, <2>1
  <2> QED BY <1>1, <1>2, <1>4, <2>2, <2>3 DEF DirentFits, d
<1> QED BY <1>3, <1>4

LEMMA EntryStands ==
  ASSUME Succeeds, NEW i \in 1..Len(job.files), NEW cf, SealedAs(i, cf),
         \E s : Seals(i, s, cf), Len(cf.name) =< Max16, IsSeq(archive.cells),
         NEW o \in Nat, Lies(archive.cells, o, Member(cf)), Entries[i] = DirentOf(cf, o)
  PROVE  EntryIs(EntryOf(i, cf, o)) /\ Stands(i, EntryOf(i, cf, o))
<1> DEFINE at == o + Len(write_local_header(cf))
           d == DirentOf(cf, o)
           salt == CHOOSE s : Seals(i, s, cf)
           e == EntryOf(i, cf, o)
           text == File(i).data
           plain == Compressed(i).data
<1>1. /\ e.at = at /\ e.d = d /\ e.region = cf.data /\ e.text = text
      /\ e.plain = plain /\ e.pw = job.pw /\ e.salt = salt
  BY DEF EntryOf
<1>2. DirentFits(d, cf, o)
  BY DirentIs
<1>3. Seals(i, salt, cf)
  OBVIOUS
<1>4. /\ Written1(cf) /\ cf.method = Compressed(i).method /\ cf.em = Methods[i]
      /\ cf.uncomp = Len(text) /\ cf.comp = StoredSize(i) /\ cf.crc = text
  BY DEF SealedAs
<1>5. /\ IsSeq(text) /\ \A k \in 1..Len(text) : text[k] # "garbage"
      /\ plain = compress_bytes(text, Compressed(i).method)
  BY ContentIs
<1> HIDE DEF salt, e, d, at
<1>6. /\ cf.em = "none" => cf.data = plain
      /\ cf.em = "trad" => cf.data = encrypt_data(job.pw, text, plain)
      /\ cf.em \in AesMethods => cf.data = aes_encrypt_data(job.pw, cf.em, plain, salt)
  BY <1>3, <1>4, SealedCells
<1>7. /\ o \in 0..(Len(archive.cells) - 1) /\ at \in Nat
      /\ \E x : /\ archive.cells[o + 1] = <<"local", x>>
                /\ at = o + 1 + x.nameLen + x.extraLen
      /\ Lies(archive.cells, at, cf.data)
  BY <1>4, MemberThere DEF at
<1>8. /\ IsSeq(cf.data) /\ cf.comp = Len(cf.data) /\ cf.method \in {"store", "deflate"}
      /\ cf.em \in Supported
  BY <1>4 DEF Written1
<1> HIDE DEF text, plain
<1>9. EntryIs(e)
  <2>1. e.at \in Nat /\ IsSeq(e.region) /\ Len(e.region) = e.d.comp /\ IsSeq(e.text)
        /\ \A k \in 1..Len(e.text) : e.text[k] # "garbage"
    BY <1>1, <1>2, <1>5, <1>7, <1>8 DEF DirentFits
  <2>2. /\ e.d.method \in {"store", "deflate"} /\ e.d.em \in Supported
        /\ (Encrypts(e.d) <=> e.d.em # "none")
        /\ e.d.uncomp = Len(e.text)
    BY <1>1, <1>2, <1>4, <1>8 DEF DirentFits
  <2>3. /\ e.d.em \in AesMethods => ~e.d.crcValid
        /\ e.d.em \notin AesMethods => e.d.crcValid /\ e.d.crc = e.text
    BY <1>1, <1>2, <1>4 DEF DirentFits
  <2>4. e.plain = compress_bytes(e.text, e.d.method)
    BY <1>1, <1>2, <1>4, <1>5 DEF DirentFits
  <2>5. /\ e.d.em = "none" => e.region = e.plain
        /\ e.d.em = "trad" => e.region = encrypt_data(e.pw, e.text, e.plain)
        /\ e.d.em \in AesMethods =>
             e.region = aes_encrypt_data(e.pw, e.d.em, e.plain, e.salt)
    BY <1>1, <1>2, <1>6 DEF DirentFits
  <2> QED BY <2>1, <2>2, <2>3, <2>4, <2>5 DEF EntryIs
<1>10. Stands(i, e)
  <2>1. Entries[i] = e.d /\ Lies(archive.cells, e.at, e.region)
    BY <1>1, <1>7 DEF d
  <2>2. /\ e.d.offset = o /\ Methods[i] = e.d.em /\ StoredSize(i) = e.d.comp
    BY <1>1, <1>2, <1>4 DEF DirentFits
  <2>3. File(i).data = e.text /\ Compressed(i).data = e.plain /\ job.pw = e.pw
    BY <1>1 DEF text, plain
  <2> QED BY <1>1, <1>7, <2>1, <2>2, <2>3 DEF Stands
<1> QED BY <1>9, <1>10 DEF e

LEMMA WorldIs ==
  ASSUME ArchiveInv, OpenedIs, IsOpen, Reopens
  PROVE  \E E : Holds(E)
<1>1. /\ job \in Jobs /\ archive # None /\ archive.error = "none" /\ Serially(archive)
      /\ opened # None /\ opened.cd = read_central_dir(archive.cells)
  BY DEF ArchiveInv, OpenedIs, IsOpen, WriterInv, WorkersLeaveNoTrace
<1>2. PICK cfs, out, cdir : Archived(cfs, out, cdir)
  BY <1>1, ArchivedIs
<1> DEFINE n == Len(cfs)
           E == [i \in 1..n |-> EntryOf(i, cfs[i], Offset(cfs, i))]
<1>3. /\ Succeeds /\ n = Len(job.files)
      /\ \A i \in 1..n : SealedAs(i, cfs[i]) /\ \E s : Seals(i, s, cfs[i])
  BY <1>2 DEF Archived
<1>4. DOMAIN Entries = 1..n /\ \A i \in 1..n : Entries[i] = DirentOf(cfs[i], Offset(cfs, i))
  BY <1>1, <1>2, EntriesAre
<1>5. /\ IsSeq(archive.cells)
      /\ \A i \in 1..n : /\ Offset(cfs, i) \in Nat
                         /\ Lies(archive.cells, Offset(cfs, i), Member(cfs[i]))
  BY <1>1, <1>2, PlacesAre
<1>6. \A i \in 1..n : Len(cfs[i].name) =< Max16
  BY <1>1, <1>2, FineIs DEF Fine, Fine1
<1>7. ASSUME NEW i \in 1..n
      PROVE  /\ EntryIs(EntryOf(i, cfs[i], Offset(cfs, i)))
             /\ Stands(i, EntryOf(i, cfs[i], Offset(cfs, i)))
  <2> DEFINE cf == cfs[i]
             o == Offset(cfs, i)
  <2>1. /\ SealedAs(i, cf) /\ (\E s : Seals(i, s, cf)) /\ Len(cf.name) =< Max16 /\ o \in Nat
        /\ Lies(archive.cells, o, Member(cf)) /\ Entries[i] = DirentOf(cf, o)
    BY <1>3, <1>4, <1>5, <1>6
  <2>2. i \in 1..Len(job.files)
    BY <1>3
  <2> HIDE DEF cf, o
  <2>3. EntryIs(EntryOf(i, cf, o)) /\ Stands(i, EntryOf(i, cf, o))
    BY <1>3, <1>5, <2>1, <2>2, EntryStands
  <2> QED BY <2>3 DEF cf, o
<1>8. DOMAIN E = 1..n /\ \A i \in 1..n : E[i] = EntryOf(i, cfs[i], Offset(cfs, i))
  OBVIOUS
<1> HIDE DEF E, n
<1>9. Holds(E)
  BY <1>4, <1>5, <1>7, <1>8 DEF Holds
<1> QED BY <1>9

\* The archive stays as it is.
LEMMA HoldsOn ==
  ASSUME NEW E, Holds(E), job' = job, archive' = archive, opened' = opened
  PROVE  Holds(E)'
<1>1. Entries' = Entries /\ Methods' = Methods
  BY DEF Entries, Methods
<1>2. \A i : File(i)' = File(i) /\ Compressed(i)' = Compressed(i)
  BY SameCall DEF File, Compressed
<1>3. \A i : StoredSize(i)' = StoredSize(i)
  BY <1>1, <1>2 DEF StoredSize
<1>4. \A i \in DOMAIN E : Stands(i, E[i])'
  BY <1>1, <1>2, <1>3 DEF Stands, Holds
<1> QED BY <1>1, <1>4 DEF Holds

----------------------------------------------------------------------------
(* A reader's steps.                                                       *)

LEMMA PlaceIs ==
  ASSUME SharedInv, NEW pos
  PROVE  Place(pos) = pos
BY DEF SharedInv, SharedIsSound, ReadFrom, Place

\* A read inside the archive returns some of what is asked for, of the place asked.
LEMMA InsideRead ==
  ASSUME SharedInv, IsSeq(archive.cells), NEW pos \in Nat, NEW m \in Nat,
         pos + m =< Len(archive.cells), NEW n \in Lengths(pos, m)
  PROVE  /\ n \in 0..m /\ (m > 0 => n > 0)
         /\ Cells(pos, n) = Piece(archive.cells, pos, n)
<1> DEFINE len == Len(archive.cells)
<1>1. Place(pos) = pos
  BY PlaceIs
<1>2. len \in Nat
  BY SequenceIs
<1> HIDE DEF len
<1>3. Most(pos, m) = m
  <2>1. Most(pos, m) = LET rest == len - pos
                       IN  IF m < rest THEN m ELSE IF rest > 0 THEN rest ELSE 0
    BY <1>1 DEF Most, len
  <2>2. pos + m =< len
    BY DEF len
  <2> QED BY <1>2, <2>1, <2>2
<1>4. n \in 1..m \/ n = m
  BY <1>3 DEF Lengths
<1>5. n \in 0..m /\ (m > 0 => n > 0)
  BY <1>4
<1>6. Cells(pos, n) = Piece(archive.cells, pos, n)
  BY <1>1 DEF Cells
<1> QED BY <1>5, <1>6

LEMMA BreaksIs ==
  ASSUME NEW r, {"phase", "entry", "pw", "raw"} \subseteq DOMAIN r, NEW code
  PROVE  LET b == Breaks(r, code) IN
         b.phase = "failed" /\ b.error = code /\ b.entry = r.entry /\ b.pw = r.pw
BY DEF Breaks

\* What is known of a reader at work.
LEMMA ReaderAt ==
  ASSUME NEW E, Holds(E), ReadersAre(E), NEW t \in Threads, readers[t].phase # "idle"
  PROVE  LET r == readers[t]
             e == E[r.entry]
         IN  /\ r.entry \in DOMAIN E /\ EntryIs(e) /\ Stands(r.entry, e)
             /\ PhaseIs(r, e, faults) /\ Dirent(t) = e.d /\ Reader(t) = r
             /\ faults \in Nat
<1> DEFINE r == readers[t]
           e == E[r.entry]
<1>1. r.entry \in DOMAIN E /\ PhaseIs(r, e, faults) /\ faults \in Nat
  BY DEF ReadersAre, ReaderIs
<1>2. EntryIs(e) /\ Stands(r.entry, e)
  BY <1>1 DEF Holds
<1>3. Entries[r.entry] = e.d
  <2> HIDE DEF r, e
  <2> QED BY ONLY <1>2 DEF Stands
<1>4. Dirent(t) = e.d /\ Reader(t) = r
  BY <1>3 DEF Dirent, Reader
<1> QED BY <1>1, <1>2, <1>4

\* One reader goes on.
LEMMA Advances ==
  ASSUME NEW E, ReadersAre(E), NEW t \in Threads, NEW r,
         r.entry \in DOMAIN E, PhaseIs(r, E[r.entry], faults),
         readers' = [readers EXCEPT ![t] = r], starts' = starts, faults' = faults
  PROVE  ReadersAre(E)'
<1>1. ReaderIs(r, E, faults)
  BY DEF ReaderIs
<1>2. DOMAIN readers = Threads
  BY DEF ReadersAre
<1>3. DOMAIN readers' = Threads /\ readers'[t] = r
      /\ \A u \in Threads \ {t} : readers'[u] = readers[u]
  BY <1>2
<1>4. \A u \in Threads : ReaderIs(readers'[u], E, faults')
  BY <1>1, <1>3 DEF ReadersAre
<1> QED BY <1>3, <1>4 DEF ReadersAre

LEMMA FailsIs ==
  ASSUME NEW r, NEW e, NEW n, NEW code, NEW b, b.phase = "failed", b.error = code,
         b.pw = r.pw,
         \/ code = "no_passwd" /\ r.pw = None /\ e.d.em # "none"
         \/ /\ code \in {"wrong_passwd", "crc", "compressed_data"}
            /\ e.d.em # "none" /\ r.pw # e.pw
         \/ /\ code = "central_dir_too_large" /\ OverLimit(e.d)
            /\ b.raw \/ e.d.em \in AesMethods
         \/ code = "read" /\ n > 0
  PROVE  PhaseIs(b, e, n)
<1>1. FailsFor(b, e, n)
  BY DEF FailsFor
<1> QED BY <1>1 DEF PhaseIs, Phases

LEMMA HeaderStep ==
  ASSUME NEW E, Holds(E), ReadersAre(E), SharedInv, NEW t \in Threads, ReadHeader(t)
  PROVE  ReadersAre(E)'
<1> DEFINE r == readers[t]
           e == E[r.entry]
           c == archive.cells
           o == e.d.offset
<1>0. r.phase = "header"
  BY DEF ReadHeader, In
<1>1. /\ r.entry \in DOMAIN E /\ EntryIs(e) /\ Stands(r.entry, e)
      /\ PhaseIs(r, e, faults) /\ Reader(t) = r
  BY <1>0, ReaderAt
<1>2. Fields(r, {"pos"}) /\ r.raw \in BOOLEAN /\ r.pos = o
  BY <1>0, <1>1 DEF PhaseIs, AtHeader
<1>3. IsSeq(c) /\ Len(c) \in Nat /\ o \in 0..(Len(c) - 1)
  BY <1>1, SequenceIs DEF Holds, Stands
<1>4. PICK x : c[o + 1] = <<"local", x>> /\ e.at = o + 1 + x.nameLen + x.extraLen
  BY <1>1 DEF Stands
<1>5. PICK n \in Lengths(r.pos, 1) :
        LET cells == Cells(r.pos, n) IN
        Reads(t, r.pos, n,
          IF cells = <<>> THEN Fails(r, "eof")
          ELSE IF cells[1][1] # "local" THEN Fails(r, "nozip")
          ELSE [phase |-> IF r.raw THEN "region" ELSE "cache", entry |-> r.entry,
                pw |-> r.pw, raw |-> r.raw, got |-> <<>>,
                pos |-> r.pos + n + cells[1][2].nameLen + cells[1][2].extraLen])
  BY <1>1 DEF ReadHeader
<1> HIDE DEF r, e, c, o
<1> DEFINE cells == Cells(r.pos, n)
           phase == IF r.raw THEN "region" ELSE "cache"
           new == [phase |-> phase, entry |-> r.entry, pw |-> r.pw, raw |-> r.raw,
                   got |-> <<>>, pos |-> e.at]
<1>6. n = 1 /\ Cells(o, 1) = Piece(c, o, 1)
  <2>1. o \in Nat /\ 1 \in Nat /\ o + 1 =< Len(c) /\ n \in Lengths(o, 1)
    BY <1>2, <1>3, <1>5
  <2>2. n \in 0..1 /\ (1 > 0 => n > 0) /\ Cells(o, n) = Piece(c, o, n)
    BY <1>3, <2>1, InsideRead DEF c
  <2> QED BY <2>2
<1>7. cells # <<>> /\ cells[1] = <<"local", x>>
  <2>1. o \in Nat /\ 1 \in Nat /\ o + 1 =< Len(c)
    BY <1>3
  <2>2. Len(Piece(c, o, 1)) = 1 /\ Piece(c, o, 1)[1] = c[o + 1]
    <3>1. Len(Piece(c, o, 1)) = 1 /\ \A k \in 1..1 : Piece(c, o, 1)[k] = c[o + k]
      BY ONLY <1>3, <2>1, PieceIs
    <3> QED BY <3>1
  <2>3. cells = Piece(c, o, 1)
    BY <1>2, <1>6
  <2> QED BY <1>4, <2>2, <2>3, EmptySequence
<1> HIDE DEF cells
<1>8. Reads(t, r.pos, n, new)
  <2>1. cells[1][1] = "local" /\ cells[1][2] = x
    BY <1>7
  <2>2. r.pos + n + x.nameLen + x.extraLen = e.at
    BY <1>2, <1>4, <1>6
  <2> QED BY <1>5, <1>7, <2>1, <2>2 DEF cells
<1>9. new.entry = r.entry /\ PhaseIs(new, e, faults)
  <2>1. /\ new.phase = phase /\ new.entry = r.entry /\ new.raw = r.raw
        /\ new.got = <<>> /\ new.pos = e.at /\ Fields(new, {"pos", "got"}) /\ Fields(new, {"pos"})
    BY DEF Fields
  <2> HIDE DEF new
  <2>2. CASE r.raw
    <3>1. First(e.region, 0) = <<>> /\ Len(new.got) = 0 /\ Len(e.region) \in Nat
          /\ e.d.comp = Len(e.region) /\ e.at \in Nat
      BY <1>1, <2>1, FirstNone, EmptySequence, SequenceIs DEF EntryIs
    <3>2. e.at = e.at + 0 /\ 0 \in 0..e.d.comp
      BY <3>1
    <3>3. InRegion(new, e)
      BY <1>2, <2>1, <2>2, <3>1, <3>2 DEF InRegion
    <3> QED BY <2>1, <2>2, <3>3 DEF PhaseIs, Phases
  <2>3. CASE ~r.raw
    <3>1. AtStart(new, e)
      BY <2>1, <2>3 DEF AtStart
    <3> QED BY <2>1, <2>3, <3>1 DEF PhaseIs, Phases
  <2> QED BY <2>1, <2>2, <2>3
<1> HIDE DEF new
<1>10. readers' = [readers EXCEPT ![t] = new] /\ starts' = starts /\ faults' = faults
  BY <1>8 DEF Reads
<1> QED BY <1>1, <1>9, <1>10, Advances DEF e

LEMMA ReadingIs ==
  ASSUME NEW r, NEW phase, NEW src
  PROVE  LET new == Reading(r, phase, src) IN
         /\ new.phase = phase /\ new.entry = r.entry /\ new.pw = r.pw /\ ~new.raw
         /\ new.pos = r.pos /\ new.src = src /\ new.out = <<>>
         /\ Fields(new, {"pos"}) /\ Fields(new, {"src", "out"})
         /\ Fields(new, {"pos", "src", "out"})
BY DEF Reading, Fields

\* The data of an entry, where it stands.
LEMMA RegionThere ==
  ASSUME NEW E, Holds(E), NEW i, NEW e, EntryIs(e), Stands(i, e)
  PROVE  /\ Piece(archive.cells, e.at, e.d.comp) = e.region
         /\ IsSeq(archive.cells) /\ Len(archive.cells) \in Nat /\ e.at \in Nat
         /\ e.d.comp = Len(e.region) /\ e.d.comp \in Nat /\ IsSeq(e.region)
         /\ Lies(archive.cells, e.at, e.region) /\ e.at + e.d.comp =< Len(archive.cells)
<1> DEFINE c == archive.cells
           at == e.at
           p == e.region
<1>1. IsSeq(c) /\ at \in Nat /\ IsSeq(p) /\ e.d.comp = Len(p) /\ Lies(c, at, p)
  BY DEF Holds, EntryIs, Stands
<1> HIDE DEF c, at, p
<1>2. Piece(c, at, Len(p)) = p
  BY <1>1, LiesPiece
<1>3. Len(c) \in Nat /\ Len(p) \in Nat /\ at + Len(p) =< Len(c)
  BY <1>1, SequenceIs DEF Lies
<1> QED BY <1>1, <1>2, <1>3 DEF c, at, p

LEMMA CacheStep ==
  ASSUME NEW E, Holds(E), ReadersAre(E), NEW t \in Threads, CacheStart(t)
  PROVE  ReadersAre(E)'
<1> DEFINE r == readers[t]
           e == E[r.entry]
           new == [r EXCEPT !.phase = "start"]
<1>0. r.phase = "cache"
  BY DEF CacheStart, In
<1>1. /\ r.entry \in DOMAIN E /\ PhaseIs(r, e, faults) /\ Reader(t) = r
  BY <1>0, ReaderAt
<1>2. AtStart(r, e)
  BY <1>0, <1>1 DEF PhaseIs
<1>3. /\ DOMAIN readers = Threads /\ DOMAIN starts = DOMAIN E
      /\ \A i \in DOMAIN E : starts[i] \in {None, E[i].at}
      /\ \A u \in Threads : ReaderIs(readers[u], E, faults) /\ faults \in Nat
  BY DEF ReadersAre
<1>4. /\ starts' = [starts EXCEPT ![r.entry] = r.pos] /\ faults' = faults
      /\ readers' = [readers EXCEPT ![t] = new]
  BY <1>1 DEF CacheStart
<1>5. r.pos = e.at
  BY <1>2 DEF AtStart
<1>6. DOMAIN starts' = DOMAIN E /\ \A i \in DOMAIN E : starts'[i] \in {None, E[i].at}
  BY <1>1, <1>3, <1>4, <1>5
<1>7. new.phase = "start" /\ new.entry = r.entry /\ AtStart(new, e)
  <2> HIDE DEF r, e
  <2>1. new.phase = "start" /\ new.entry = r.entry /\ new.raw = r.raw /\ new.pos = r.pos
        /\ DOMAIN new = DOMAIN r
    BY <1>2 DEF AtStart, Fields
  <2> HIDE DEF new
  <2> QED BY <1>2, <2>1 DEF AtStart, Fields
<1>8. ReaderIs(new, E, faults)
  <2> HIDE DEF new
  <2>1. PhaseIs(new, e, faults)
    BY <1>7 DEF PhaseIs, Phases
  <2> QED BY <1>1, <1>7, <2>1 DEF ReaderIs
<1> HIDE DEF new
<1>9. DOMAIN readers' = Threads /\ \A u \in Threads : ReaderIs(readers'[u], E, faults')
  BY <1>3, <1>4, <1>8
<1> QED BY <1>3, <1>4, <1>6, <1>9 DEF ReadersAre

LEMMA SharedStep ==
  ASSUME NEW E, Holds(E), ReadersAre(E), NEW t \in Threads, OpenShared(t)
  PROVE  ReadersAre(E)'
<1> DEFINE r == readers[t]
           e == E[r.entry]
           data == Plain(Piece(archive.cells, r.pos, e.d.comp))
           src == [data |-> data, pooled |-> FALSE]
           new == Reading(r, "buffered", src)
<1>0. r.phase = "start"
  BY DEF OpenShared, In
<1>1. /\ r.entry \in DOMAIN E /\ EntryIs(e) /\ Stands(r.entry, e) /\ Dirent(t) = e.d
      /\ PhaseIs(r, e, faults) /\ Reader(t) = r
  BY <1>0, ReaderAt
<1>2. AtStart(r, e)
  BY <1>0, <1>1 DEF PhaseIs
<1>3. Becomes(t, new) /\ ~Encrypts(e.d) /\ e.d.method = "store"
  BY <1>1 DEF OpenShared, Fast
<1>4. data = e.text /\ e.d.em = "none"
  <2>1. Piece(archive.cells, e.at, e.d.comp) = e.region
    BY <1>1, RegionThere
  <2>2. e.d.em = "none" /\ e.region = e.plain
    BY <1>1, <1>3 DEF EntryIs
  <2>3. Plain(e.plain) = e.text
    BY <1>1, <1>3, PlainIs
  <2> QED BY <1>2, <2>1, <2>2, <2>3 DEF AtStart
<1>5. src.data = data
  OBVIOUS
<1>6. readers' = [readers EXCEPT ![t] = new] /\ starts' = starts /\ faults' = faults
  BY <1>3 DEF Becomes, sharedVars
<1> HIDE DEF r, e, data, src
<1>7. /\ new.phase = "buffered" /\ new.entry = r.entry /\ ~new.raw
      /\ new.src = src /\ new.out = <<>> /\ Fields(new, {"src", "out"})
  BY ReadingIs
<1> HIDE DEF new
<1>8. Buffers(new, e)
  <2>1. First(e.text, 0) = <<>> /\ Len(e.text) \in Nat /\ Len(new.out) = 0
    BY <1>1, <1>7, PlainIs, FirstNone, EmptySequence
  <2> QED BY <1>4, <1>5, <1>7, <2>1 DEF Buffers
<1>9. PhaseIs(new, e, faults)
  BY <1>7, <1>8 DEF PhaseIs, Phases
<1> QED BY <1>1, <1>6, <1>7, <1>9, Advances DEF e

LEMMA AcquireStep ==
  ASSUME NEW E, Holds(E), ReadersAre(E), NEW t \in Threads, Acquire(t)
  PROVE  ReadersAre(E)'
<1> DEFINE r == readers[t]
           e == E[r.entry]
           buffer == IF pool = <<>> THEN <<>> ELSE Last(pool)
           new == [phase |-> "decode", entry |-> r.entry, pw |-> r.pw, raw |-> FALSE,
                   pos |-> r.pos, buffer |-> buffer]
<1>0. r.phase = "start"
  BY DEF Acquire, In
<1>1. /\ r.entry \in DOMAIN E /\ EntryIs(e) /\ Dirent(t) = e.d
      /\ PhaseIs(r, e, faults) /\ Reader(t) = r
  BY <1>0, ReaderAt
<1>2. AtStart(r, e)
  BY <1>0, <1>1 DEF PhaseIs
<1>3. /\ readers' = [readers EXCEPT ![t] = new] /\ starts' = starts /\ faults' = faults
      /\ ~Encrypts(e.d)
  BY <1>1 DEF Acquire, Fast
<1>4. e.d.em = "none"
  BY <1>1, <1>3 DEF EntryIs
<1> HIDE DEF r, e, buffer
<1>5. /\ new.phase = "decode" /\ new.entry = r.entry /\ ~new.raw /\ new.pos = r.pos
      /\ Fields(new, {"pos"})
  BY DEF Fields
<1> HIDE DEF new
<1>6. AtStart(new, e)
  BY <1>2, <1>5 DEF AtStart
<1>7. PhaseIs(new, e, faults)
  BY <1>4, <1>5, <1>6 DEF PhaseIs, Phases
<1> QED BY <1>1, <1>3, <1>5, <1>7, Advances DEF e

\* Whatever the buffer held.
LEMMA SliceStep ==
  ASSUME NEW E, Holds(E), ReadersAre(E), NEW t \in Threads, DecodeSlice(t)
  PROVE  ReadersAre(E)'
<1> DEFINE r == readers[t]
           e == E[r.entry]
           slice == Piece(archive.cells, r.pos, e.d.comp)
           data == Cleared(r.buffer) \o Decoded(slice, e.d.method)
           src == [data |-> data, pooled |-> TRUE]
           new == Reading(r, "buffered", src)
<1>0. r.phase = "decode"
  BY DEF DecodeSlice, In
<1>1. /\ r.entry \in DOMAIN E /\ EntryIs(e) /\ Stands(r.entry, e) /\ Dirent(t) = e.d
      /\ PhaseIs(r, e, faults) /\ Reader(t) = r
  BY <1>0, ReaderAt
<1>2. AtStart(r, e) /\ e.d.em = "none"
  BY <1>0, <1>1 DEF PhaseIs
<1>3. slice = e.plain
  <2>1. Piece(archive.cells, e.at, e.d.comp) = e.region
    BY <1>1, RegionThere
  <2>2. e.region = e.plain
    BY <1>1, <1>2 DEF EntryIs
  <2> QED BY <1>2, <2>1, <2>2 DEF AtStart
<1>4. Decodes(slice, e.d.method) /\ data = e.text
  <2>1. Decodes(e.plain, e.d.method) /\ Decoded(e.plain, e.d.method) = e.text /\ IsSeq(e.text)
    BY <1>1, WholeDecodes, PlainIs
  <2>2. <<>> \o e.text = e.text
    BY <2>1, EmptyConcat
  <2> HIDE DEF slice
  <2> QED BY <1>3, <2>1, <2>2 DEF Cleared
<1>5. Becomes(t, new)
  BY <1>1, <1>4 DEF DecodeSlice
<1>6. readers' = [readers EXCEPT ![t] = new] /\ starts' = starts /\ faults' = faults
  BY <1>5 DEF Becomes, sharedVars
<1>7. src.data = data
  OBVIOUS
<1> HIDE DEF r, e, slice, data, src
<1>8. /\ new.phase = "buffered" /\ new.entry = r.entry /\ ~new.raw
      /\ new.src = src /\ new.out = <<>> /\ Fields(new, {"src", "out"})
  BY ReadingIs
<1> HIDE DEF new
<1>9. Buffers(new, e)
  <2>1. First(e.text, 0) = <<>> /\ Len(e.text) \in Nat /\ Len(new.out) = 0
    BY <1>1, <1>8, PlainIs, FirstNone, EmptySequence
  <2> QED BY <1>2, <1>4, <1>7, <1>8, <2>1 DEF Buffers
<1>10. PhaseIs(new, e, faults)
  BY <1>8, <1>9 DEF PhaseIs, Phases
<1> QED BY <1>1, <1>6, <1>8, <1>10, Advances DEF e

LEMMA BecomesAdvances ==
  ASSUME NEW E, ReadersAre(E), NEW t \in Threads, NEW r, Becomes(t, r),
         r.entry \in DOMAIN E, PhaseIs(r, E[r.entry], faults)
  PROVE  ReadersAre(E)'
<1>1. readers' = [readers EXCEPT ![t] = r] /\ starts' = starts /\ faults' = faults
  BY DEF Becomes, sharedVars
<1> QED BY <1>1, Advances

LEMMA ReadsAdvances ==
  ASSUME NEW E, ReadersAre(E), NEW t \in Threads, NEW pos, NEW n, NEW r, Reads(t, pos, n, r),
         r.entry \in DOMAIN E, PhaseIs(r, E[r.entry], faults)
  PROVE  ReadersAre(E)'
<1>1. readers' = [readers EXCEPT ![t] = r] /\ starts' = starts /\ faults' = faults
  BY DEF Reads
<1> QED BY <1>1, Advances

LEMMA FailsAre ==
  ASSUME NEW r, NEW code
  PROVE  LET b == Fails(r, code) IN
         /\ b.phase = "failed" /\ b.error = code
         /\ b.pw = r.pw /\ b.entry = r.entry /\ b.raw = r.raw
BY DEF Fails

LEMMA EncryptedStep ==
  ASSUME NEW E, Holds(E), ReadersAre(E), NEW t \in Threads, OpenEncrypted(t)
  PROVE  ReadersAre(E)'
<1> DEFINE r == readers[t]
           e == E[r.entry]
           phase == IF e.d.em = "trad" THEN "check" ELSE "region"
           new == [phase |-> phase, entry |-> r.entry, pw |-> Password(t), raw |-> FALSE,
                   pos |-> r.pos, got |-> <<>>]
           no == Fails(r, "no_passwd")
           large == Fails(r, "central_dir_too_large")
<1>0. r.phase = "start"
  BY DEF OpenEncrypted, In
<1>1. /\ r.entry \in DOMAIN E /\ EntryIs(e) /\ Dirent(t) = e.d
      /\ PhaseIs(r, e, faults) /\ Reader(t) = r
  BY <1>0, ReaderAt
<1>2. AtStart(r, e)
  BY <1>0, <1>1 DEF PhaseIs
<1>3. Encrypts(e.d) /\ e.d.em # "none" /\ e.d.em \in AesMethods \cup {"trad"}
  BY <1>1 DEF OpenEncrypted, EntryIs, Supported
<1>4. \/ Becomes(t, no) /\ Password(t) = None
      \/ Becomes(t, large) /\ e.d.em \in AesMethods /\ OverLimit(e.d)
      \/ Becomes(t, new)
  BY <1>1, <1>3 DEF OpenEncrypted
<1>5. CASE Becomes(t, no) /\ Password(t) = None
  <2>1. r.pw = None
    BY <1>1, <1>5 DEF Password
  <2> HIDE DEF r, e
  <2>2. no.phase = "failed" /\ no.error = "no_passwd" /\ no.pw = r.pw /\ no.entry = r.entry
    BY FailsAre
  <2> HIDE DEF no
  <2>3. PhaseIs(no, e, faults)
    BY <1>3, <2>1, <2>2, FailsIs
  <2> QED BY <1>1, <1>5, <2>2, <2>3, BecomesAdvances DEF e
<1>6. CASE Becomes(t, large) /\ e.d.em \in AesMethods /\ OverLimit(e.d)
  <2> HIDE DEF r, e
  <2>1. /\ large.phase = "failed" /\ large.error = "central_dir_too_large"
        /\ large.pw = r.pw /\ large.entry = r.entry
    BY FailsAre
  <2> HIDE DEF large
  <2>2. PhaseIs(large, e, faults)
    BY <1>6, <2>1, FailsIs
  <2> QED BY <1>1, <1>6, <2>1, <2>2, BecomesAdvances DEF e
<1>7. CASE Becomes(t, new)
  <2> HIDE DEF r, e
  <2>1. /\ new.phase = phase /\ new.entry = r.entry /\ ~new.raw /\ new.pos = r.pos
        /\ new.got = <<>> /\ Fields(new, {"pos"}) /\ Fields(new, {"pos", "got"})
        /\ new.raw \in BOOLEAN
    BY DEF Fields
  <2> HIDE DEF new
  <2>2. CASE e.d.em = "trad"
    <3>1. AtStart(new, e)
      BY <1>2, <2>1 DEF AtStart
    <3>2. PhaseIs(new, e, faults)
      BY <2>1, <2>2, <3>1 DEF PhaseIs, Phases
    <3> QED BY <1>1, <1>7, <2>1, <3>2, BecomesAdvances DEF e
  <2>3. CASE e.d.em \in AesMethods
    <3>0. phase = "region"
      BY <2>3 DEF AesMethods
    <3>1. /\ First(e.region, 0) = <<>> /\ Len(new.got) = 0 /\ Len(e.region) \in Nat
          /\ e.d.comp = Len(e.region) /\ e.at \in Nat
      BY <1>1, <2>1, FirstNone, EmptySequence, SequenceIs DEF EntryIs
    <3>2. e.at = e.at + 0 /\ 0 \in 0..e.d.comp
      BY <3>1
    <3>3. InRegion(new, e)
      BY <1>2, <2>1, <2>3, <3>1, <3>2 DEF InRegion, AtStart
    <3>4. PhaseIs(new, e, faults)
      BY <2>1, <3>0, <3>3 DEF PhaseIs, Phases
    <3> QED BY <1>1, <1>7, <2>1, <3>4, BecomesAdvances DEF e
  <2> QED BY <1>3, <2>2, <2>3
<1> QED BY <1>4, <1>5, <1>6, <1>7

LEMMA OpenStreamStep ==
  ASSUME NEW E, Holds(E), ReadersAre(E), NEW t \in Threads, OpenStream(t)
  PROVE  ReadersAre(E)'
<1> DEFINE r == readers[t]
           e == E[r.entry]
           src == [left |-> e.d.comp, keys |-> <<>>]
           new == Reading(r, "streaming", src)
<1>0. r.phase = "start"
  BY DEF OpenStream, In
<1>1. /\ r.entry \in DOMAIN E /\ EntryIs(e) /\ Stands(r.entry, e) /\ Dirent(t) = e.d
      /\ PhaseIs(r, e, faults) /\ Reader(t) = r
  BY <1>0, ReaderAt
<1>2. AtStart(r, e)
  BY <1>0, <1>1 DEF PhaseIs
<1>3. ~Encrypts(e.d) /\ e.d.em = "none" /\ e.region = e.plain /\ e.d.method \in Decodable
  BY <1>1 DEF OpenStream, EntryIs, Decodable
<1>4. Becomes(t, new)
  BY <1>1, <1>3 DEF OpenStream
<1>5. src.left = e.d.comp /\ src.keys = <<>>
  OBVIOUS
<1>6. e.d.comp = Len(e.plain) /\ Len(e.plain) \in Nat /\ e.at \in Nat
  BY <1>1, <1>3, PlainIs, RegionThere
<1> HIDE DEF r, e, src
<1>7. /\ new.phase = "streaming" /\ new.entry = r.entry /\ ~new.raw /\ new.pos = r.pos
      /\ new.src = src /\ new.out = <<>> /\ Fields(new, {"pos", "src", "out"})
  BY ReadingIs
<1> HIDE DEF new
<1>8. StreamsAt(new, e, 0)
  <2>1. Part(e, 0) = <<>>
    BY <1>1, PartNone
  <2>2. new.src.left = Len(e.plain) - 0 /\ new.pos = e.at + (e.d.comp - Len(e.plain)) + 0
    BY <1>2, <1>5, <1>6, <1>7 DEF AtStart
  <2>3. new.src.keys = <<>> /\ new.out = Part(e, 0) /\ e.d.em # "trad"
    BY <1>3, <1>5, <1>7, <2>1
  <2> QED BY <2>2, <2>3 DEF StreamsAt
<1>9. Streams(new, e)
  <2>1. 0 \in 0..Len(e.plain)
    BY <1>6
  <2> QED BY <1>3, <1>7, <1>8, <2>1 DEF Streams
<1>10. PhaseIs(new, e, faults)
  BY <1>7, <1>9 DEF PhaseIs, Phases
<1> QED BY <1>1, <1>4, <1>7, <1>10, BecomesAdvances DEF e

\* The one cell at a place.
LEMMA CellThere ==
  ASSUME NEW s, IsSeq(s), NEW k \in Nat, k + 1 =< Len(s)
  PROVE  Piece(s, k, 1) # <<>> /\ Piece(s, k, 1)[1] = s[k + 1]
<1>1. Len(Piece(s, k, 1)) = 1 /\ \A j \in 1..1 : Piece(s, k, 1)[j] = s[k + j]
  <2>1. 1 \in Nat
    OBVIOUS
  <2> QED BY <2>1, PieceIs
<1> QED BY <1>1, EmptySequence

\* The keys that a password makes, for an entry encrypted with another or with it.
LEMMA KeysStart ==
  ASSUME NEW e, EntryIs(e), NEW pw
  PROVE  LET keys == [StartKeys(pw) EXCEPT !.lost = pw # e.pw] IN
         KeysAre(keys, pw, <<>>, e, 0)
<1> DEFINE lost == pw # e.pw
           keys == [StartKeys(pw) EXCEPT !.lost = lost]
<1>1. keys = [pw |-> pw, done |-> 0, lost |-> lost]
  <2> HIDE DEF lost
  <2> QED BY DEF StartKeys
<1>2. pw = e.pw => lost = FALSE
  OBVIOUS
<1>3. pw # e.pw => lost = TRUE
  OBVIOUS
<1> HIDE DEF lost
<1>4. keys.pw = pw /\ keys.done = 0 /\ keys.lost = lost /\ KeysShape(keys)
  BY <1>1 DEF KeysShape
<1>5. Part(e, 0) = <<>>
  BY PartNone
<1>6. Garbage(0) = <<>>
  <2>1. IsSeq(Garbage(0)) /\ Len(Garbage(0)) = 0
    BY GarbageIs
  <2> HIDE DEF Garbage
  <2> QED BY <2>1, EmptySequence, SameSequence
<1> HIDE DEF keys
<1>7. pw = e.pw => keys.pw = e.pw /\ keys.done = 0 /\ keys.lost = FALSE
  BY <1>2, <1>4
<1>8. pw # e.pw => keys.lost = TRUE
  BY <1>3, <1>4
<1>9. KeysAre(keys, pw, <<>>, e, 0)
  BY <1>4, <1>5, <1>6, <1>7, <1>8 DEF KeysAre
<1> QED BY <1>9 DEF keys, lost

LEMMA HeaderFits ==
  ASSUME NEW at \in Nat, NEW comp, NEW n \in Nat, comp = 1 + n,
         NEW len \in Nat, at + comp =< len
  PROVE  at + 1 =< len /\ 0 + 1 =< comp /\ ~(comp < 1)
OBVIOUS

LEMMA CheckStep ==
  ASSUME NEW E, Holds(E), ReadersAre(E), SharedInv, NEW t \in Threads, CheckHeader(t)
  PROVE  ReadersAre(E)'
<1> DEFINE r == readers[t]
           e == E[r.entry]
           c == archive.cells
           wrong == Fails(r, "wrong_passwd")
           keys == [StartKeys(r.pw) EXCEPT !.lost = r.pw # e.pw]
           src == [left |-> e.d.comp - 1, keys |-> <<keys>>]
           next == [r EXCEPT !.pos = r.pos + 1]
           new == Reading(next, "streaming", src)
<1>0. r.phase = "check"
  BY DEF CheckHeader, In
<1>1. /\ r.entry \in DOMAIN E /\ EntryIs(e) /\ Stands(r.entry, e) /\ Dirent(t) = e.d
      /\ PhaseIs(r, e, faults) /\ Reader(t) = r
  BY <1>0, ReaderAt
<1>2. AtStart(r, e) /\ e.d.em = "trad"
  BY <1>0, <1>1 DEF PhaseIs
<1>3. PICK n \in Lengths(r.pos, 1) :
        LET cells == Cells(r.pos, n) IN
        Reads(t, r.pos, n,
          IF cells = <<>> THEN Fails(r, "eof")
          ELSE IF cells[1][1] # "header" \/ CheckOf(r.pw) # CheckOf(cells[1][2])
                    \/ cells[1][3] # e.d.crc
          THEN Fails(r, "wrong_passwd")
          ELSE IF e.d.comp < 1 THEN Fails(r, "truncated_zip")
          ELSE IF e.d.method \notin Decodable THEN Fails(r, "comp_not_supp")
          ELSE Reading([r EXCEPT !.pos = r.pos + 1], "streaming",
                 [left |-> e.d.comp - 1, keys |-> <<[StartKeys(r.pw) EXCEPT
                    !.lost = r.pw # cells[1][2]]>>]))
  BY <1>1 DEF CheckHeader
<1>4. /\ IsSeq(c) /\ e.at \in Nat /\ e.d.comp \in Nat /\ Len(e.region) = e.d.comp
      /\ IsSeq(e.region) /\ Lies(c, e.at, e.region) /\ e.at + e.d.comp =< Len(c)
      /\ Len(c) \in Nat
  BY <1>1, RegionThere
<1>5. /\ e.d.comp = 1 + Len(e.plain) /\ Len(e.plain) \in Nat
      /\ e.region[1] = <<"header", e.pw, e.text>> /\ e.d.crc = e.text /\ e.d.method \in Decodable
  <2>1. e.d.em \notin AesMethods
    BY <1>2 DEF AesMethods
  <2> QED BY <1>1, <1>2, <1>4, <2>1, PlainIs, TradIs DEF SealedTrad, EntryIs, Decodable
<1> DEFINE cells == Cells(r.pos, n)
<1>6. cells # <<>> /\ cells[1] = <<"header", e.pw, e.text>>
  <2>1. r.pos = e.at
    BY <1>2 DEF AtStart
  <2> HIDE DEF r, e, c
  <2>2. /\ 1 \in Nat /\ e.at + 1 =< Len(c) /\ n \in Lengths(e.at, 1)
        /\ 0 \in Nat /\ 0 + 1 =< Len(e.region)
    <3>1. n \in Lengths(e.at, 1)
      BY ONLY <1>3, <2>1
    <3>2. e.at + 1 =< Len(c) /\ 0 + 1 =< e.d.comp
      BY ONLY <1>4, <1>5, HeaderFits
    <3> QED BY ONLY <1>4, <3>1, <3>2
  <2>3. n \in 0..1 /\ (1 > 0 => n > 0) /\ Cells(e.at, n) = Piece(c, e.at, n)
    BY <1>4, <2>2, InsideRead DEF c
  <2>4. n = 1
    BY <2>3
  <2>5. Piece(c, e.at, 1) # <<>> /\ Piece(c, e.at, 1)[1] = c[e.at + 1]
    BY <1>4, <2>2, CellThere
  <2>6. c[e.at + 1] = e.region[1]
    <3>1. 1 \in 1..Len(e.region)
      BY <2>2
    <3> QED BY <1>4, <3>1 DEF Lies
  <2> QED BY <1>5, <2>1, <2>3, <2>4, <2>5, <2>6
<1> HIDE DEF cells
<1>7. \/ Reads(t, r.pos, n, wrong) /\ CheckOf(r.pw) # CheckOf(e.pw)
      \/ Reads(t, r.pos, n, new)
  <2>1. cells[1][1] = "header" /\ cells[1][2] = e.pw /\ cells[1][3] = e.d.crc
    BY <1>5, <1>6
  <2> HIDE DEF r, e, c
  <2>2. ~(e.d.comp < 1)
    BY ONLY <1>4, <1>5, HeaderFits
  <2> QED BY <1>3, <1>5, <1>6, <2>1, <2>2 DEF cells
<1>8. CASE Reads(t, r.pos, n, wrong) /\ CheckOf(r.pw) # CheckOf(e.pw)
  <2>1. r.pw # e.pw
    BY <1>8
  <2> HIDE DEF r, e
  <2>2. /\ wrong.phase = "failed" /\ wrong.error = "wrong_passwd"
        /\ wrong.pw = r.pw /\ wrong.entry = r.entry
    BY FailsAre
  <2> HIDE DEF wrong
  <2>3. PhaseIs(wrong, e, faults)
    BY <1>2, <2>1, <2>2, FailsIs
  <2> QED BY <1>1, <1>8, <2>2, <2>3, ReadsAdvances DEF e
<1>9. CASE Reads(t, r.pos, n, new)
  <2> HIDE DEF r, e
  <2>1. next.entry = r.entry /\ next.pw = r.pw /\ next.pos = r.pos + 1
    BY <1>2 DEF AtStart, Fields
  <2>2. src.left = e.d.comp - 1 /\ src.keys = <<keys>>
    OBVIOUS
  <2>3. KeysAre(keys, r.pw, <<>>, e, 0)
    BY <1>1, KeysStart
  <2> HIDE DEF next, src, keys
  <2>4. /\ new.phase = "streaming" /\ new.entry = r.entry /\ ~new.raw /\ new.pos = r.pos + 1
        /\ new.pw = r.pw /\ new.src = src /\ new.out = <<>> /\ Fields(new, {"pos", "src", "out"})
    BY <2>1, ReadingIs
  <2> HIDE DEF new
  <2>5. StreamsAt(new, e, 0)
    <3>1. new.src.left = Len(e.plain) - 0 /\ new.pos = e.at + (e.d.comp - Len(e.plain)) + 0
      BY <1>2, <1>4, <1>5, <2>2, <2>4 DEF AtStart
    <3>2. new.src.keys = <<new.src.keys[1]>> /\ new.src.keys[1] = keys
      BY <2>2, <2>4
    <3>3. KeysAre(new.src.keys[1], new.pw, new.out, e, 0)
      BY <2>3, <2>4, <3>2
    <3> QED BY <1>2, <3>1, <3>2, <3>3 DEF StreamsAt
  <2>6. Streams(new, e)
    <3>1. 0 \in 0..Len(e.plain)
      BY <1>5
    <3> QED BY <1>2, <2>4, <2>5, <3>1 DEF Streams
  <2>7. PhaseIs(new, e, faults)
    BY <2>4, <2>6 DEF PhaseIs, Phases
  <2> QED BY <1>1, <1>9, <2>4, <2>7, ReadsAdvances DEF e
<1> QED BY <1>7, <1>8, <1>9

\* After k of comp cells at a place among len.
Rest(at, k, comp, len) ==
  /\ at + k \in Nat /\ comp - k \in Nat /\ comp - k > 0
  /\ (at + k) + (comp - k) =< len
  /\ \A n \in 0..(comp - k) : n > 0 => /\ k + n =< comp /\ n \in Nat /\ n # 0
                                       /\ k + n \in 0..comp
                                       /\ (at + k) + n = at + (k + n)

LEMMA RestFits ==
  ASSUME NEW at \in Nat, NEW k \in Nat, NEW comp \in Nat, k < comp,
         NEW len \in Nat, at + comp =< len
  PROVE  Rest(at, k, comp, len)
BY DEF Rest

LEMMA RegionStep ==
  ASSUME NEW E, Holds(E), ReadersAre(E), SharedInv, NEW t \in Threads, ReadRegion(t)
  PROVE  ReadersAre(E)'
<1> DEFINE r == readers[t]
           e == E[r.entry]
           c == archive.cells
           k == Len(r.got)
           m == e.d.comp - k
<1>0. r.phase = "region"
  BY DEF ReadRegion, In
<1>1. /\ r.entry \in DOMAIN E /\ EntryIs(e) /\ Stands(r.entry, e) /\ Dirent(t) = e.d
      /\ PhaseIs(r, e, faults) /\ Reader(t) = r
  BY <1>0, ReaderAt
<1>2. InRegion(r, e)
  BY <1>0, <1>1 DEF PhaseIs
<1>3. k < e.d.comp
  BY <1>1 DEF ReadRegion
<1>4. /\ IsSeq(c) /\ e.at \in Nat /\ e.d.comp \in Nat /\ Len(e.region) = e.d.comp
      /\ IsSeq(e.region) /\ Lies(c, e.at, e.region) /\ e.at + e.d.comp =< Len(c)
      /\ Len(c) \in Nat
  BY <1>1, RegionThere
<1>5. PICK n \in Lengths(r.pos, Dirent(t).comp - k) :
        Reads(t, r.pos, n,
          IF n = 0 THEN Fails(r, "eof")
          ELSE [r EXCEPT !.got = r.got \o Cells(r.pos, n), !.pos = r.pos + n])
  BY ZenonT(30) DEF ReadRegion, Reader
<1>6. k \in Nat /\ r.got = First(e.region, k) /\ r.pos = e.at + k
  BY <1>2, <1>4 DEF InRegion
<1> HIDE DEF r, e, c, k
<1>7. /\ e.at + k \in Nat /\ m \in Nat /\ m > 0 /\ (e.at + k) + m =< Len(c)
      /\ \A i \in 0..m : i > 0 => /\ k + i =< e.d.comp /\ i \in Nat /\ i # 0
                                  /\ k + i \in 0..e.d.comp /\ (e.at + k) + i = e.at + (k + i)
  <2>1. Rest(e.at, k, e.d.comp, Len(c))
    BY ONLY <1>3, <1>4, <1>6, RestFits
  <2> QED BY ONLY <2>1 DEF Rest
<1> HIDE DEF m
<1>8. n \in 0..m /\ n > 0 /\ Cells(r.pos, n) = Piece(c, e.at + k, n)
  <2>1. n \in Lengths(e.at + k, m)
    BY ONLY <1>1, <1>5, <1>6 DEF m
  <2>2. n \in 0..m /\ (m > 0 => n > 0) /\ Cells(e.at + k, n) = Piece(c, e.at + k, n)
    BY <1>4, <1>7, <2>1, InsideRead DEF c
  <2> QED BY ONLY <1>6, <1>7, <2>2
<1>9. /\ k + n =< Len(e.region) /\ n \in Nat /\ n # 0 /\ k + n \in 0..e.d.comp
      /\ r.pos + n = e.at + (k + n)
  BY ONLY <1>4, <1>6, <1>7, <1>8
<1> DEFINE got == r.got \o Cells(r.pos, n)
           pos == r.pos + n
           new == [r EXCEPT !.got = got, !.pos = pos]
<1>10. got = First(e.region, k + n) /\ Len(got) = k + n
  <2>1. Piece(c, e.at + k, n) = Piece(e.region, k, n)
    BY ONLY <1>4, <1>6, <1>9, PieceThere
  <2>2. First(e.region, k) \o Piece(e.region, k, n) = First(e.region, k + n)
    BY ONLY <1>4, <1>6, <1>9, FirstNext
  <2>3. Len(First(e.region, k + n)) = k + n
    BY ONLY <1>4, <1>9, FirstIs
  <2> QED BY ONLY <1>6, <1>8, <2>1, <2>2, <2>3
<1>11. Reads(t, r.pos, n, new)
  BY <1>5, <1>9
<1> HIDE DEF got, pos
<1>12. /\ new.phase = "region" /\ new.entry = r.entry /\ new.raw = r.raw
       /\ new.got = got /\ new.pos = pos /\ Fields(new, {"pos", "got"})
  BY <1>0, <1>2 DEF InRegion, Fields, r
<1> HIDE DEF new
<1>13. InRegion(new, e)
  <2>1. Len(new.got) = k + n /\ new.got = First(e.region, k + n) /\ new.pos = e.at + (k + n)
    BY <1>9, <1>10, <1>12 DEF pos
  <2>2. new.raw \in BOOLEAN /\ (new.raw \/ e.d.em \in AesMethods)
    BY <1>2, <1>12 DEF InRegion
  <2> QED BY <1>9, <1>12, <2>1, <2>2 DEF InRegion
<1>14. PhaseIs(new, e, faults)
  BY <1>12, <1>13 DEF PhaseIs, Phases
<1> QED BY <1>1, <1>11, <1>12, <1>14, ReadsAdvances DEF e

LEMMA UseStep ==
  ASSUME NEW E, Holds(E), ReadersAre(E), NEW t \in Threads, UseRegion(t)
  PROVE  ReadersAre(E)'
<1> DEFINE r == readers[t]
           e == E[r.entry]
           plain == aes_decrypt_data(r.pw, e.d.em, r.got)
           ended == Reading(r, "ended", <<>>)
           whole == [ended EXCEPT !.out = r.got, !.raw = TRUE]
           src == [cells |-> plain.cells]
           new == Reading(r, "memory", src)
           no == Fails(r, plain.error)
<1>0. r.phase = "region"
  BY DEF UseRegion, In
<1>1. /\ r.entry \in DOMAIN E /\ EntryIs(e) /\ Stands(r.entry, e) /\ Dirent(t) = e.d
      /\ PhaseIs(r, e, faults) /\ Reader(t) = r
  BY <1>0, ReaderAt
<1>2. InRegion(r, e)
  BY <1>0, <1>1 DEF PhaseIs
<1>3. r.got = e.region
  <2>1. Len(r.got) = e.d.comp
    BY <1>1 DEF UseRegion
  <2>2. Len(e.region) = e.d.comp /\ IsSeq(e.region)
    BY <1>1 DEF EntryIs
  <2>3. r.got = First(e.region, Len(r.got))
    BY <1>2 DEF InRegion
  <2> QED BY ONLY <2>1, <2>2, <2>3, FirstWhole
<1>4. e.d.method \in Decodable
  BY <1>1 DEF EntryIs, Decodable
<1>5. \/ r.raw /\ Becomes(t, whole)
      \/ ~r.raw /\ plain.error # "none" /\ Becomes(t, no)
      \/ ~r.raw /\ plain.error = "none" /\ Becomes(t, new)
  BY <1>1, <1>4 DEF UseRegion
<1>6. CASE r.raw /\ Becomes(t, whole)
  <2> HIDE DEF r, e
  <2>1. ended.phase = "ended" /\ ended.entry = r.entry /\ Fields(ended, {"src", "out"})
    BY ReadingIs
  <2> HIDE DEF ended
  <2>2. whole.phase = "ended" /\ whole.entry = r.entry /\ whole.raw = TRUE /\ whole.out = r.got
    BY <2>1 DEF Fields
  <2> HIDE DEF whole
  <2>3. Ends(whole, e)
    BY <1>3, <2>2 DEF Ends
  <2>4. PhaseIs(whole, e, faults)
    BY <2>2, <2>3 DEF PhaseIs, Phases
  <2> QED BY <1>1, <1>6, <2>2, <2>4, BecomesAdvances DEF e
<1>7. ASSUME ~r.raw
      PROVE  /\ e.d.em \in AesMethods /\ e.d.em # "none"
             /\ r.pw = e.pw => plain.error = "none" /\ plain.cells = e.plain
             /\ r.pw # e.pw => plain.error \in {"wrong_passwd", "crc"}
  <2>1. e.d.em \in AesMethods
    BY <1>2, <1>7 DEF InRegion
  <2>2. e.d.em # "none"
    BY <2>1 DEF AesMethods
  <2> DEFINE p == aes_decrypt_data(r.pw, e.d.em, e.region)
  <2> HIDE DEF r, e
  <2>3. /\ r.pw = e.pw => p.error = "none" /\ p.cells = e.plain
        /\ r.pw # e.pw => p.error \in {"wrong_passwd", "crc"}
    BY ONLY <1>1, <2>1, AesOpens
  <2>4. plain = p
    BY <1>3
  <2> HIDE DEF plain, p
  <2> QED BY <2>1, <2>2, <2>3, <2>4
<1>8. CASE ~r.raw /\ plain.error # "none" /\ Becomes(t, no)
  <2> HIDE DEF r, e
  <2>1. r.pw # e.pw /\ plain.error \in {"wrong_passwd", "crc"} /\ e.d.em # "none"
    BY <1>7, <1>8
  <2> HIDE DEF plain
  <2>2. no.phase = "failed" /\ no.error = plain.error /\ no.pw = r.pw /\ no.entry = r.entry
    BY FailsAre
  <2> HIDE DEF no
  <2>3. PhaseIs(no, e, faults)
    BY <2>1, <2>2, FailsIs
  <2> QED BY <1>1, <1>8, <2>2, <2>3, BecomesAdvances DEF e
<1>9. CASE ~r.raw /\ plain.error = "none" /\ Becomes(t, new)
  <2> HIDE DEF r, e
  <2>1. r.pw = e.pw /\ plain.cells = e.plain /\ e.d.em \in AesMethods
    BY <1>7, <1>9
  <2> HIDE DEF plain
  <2>2. src.cells = e.plain
    BY <2>1
  <2> HIDE DEF src
  <2>3. /\ new.phase = "memory" /\ new.entry = r.entry /\ ~new.raw /\ new.pw = r.pw
        /\ new.src = src /\ new.out = <<>> /\ Fields(new, {"src", "out"})
    BY ReadingIs
  <2> HIDE DEF new
  <2>4. InMemory(new, e)
    BY <2>1, <2>2, <2>3 DEF InMemory
  <2>5. PhaseIs(new, e, faults)
    BY <2>3, <2>4 DEF PhaseIs, Phases
  <2> QED BY <1>1, <1>9, <2>3, <2>5, BecomesAdvances DEF e
<1> QED BY <1>5, <1>6, <1>8, <1>9

LEMMA GarbageEmpty ==
  ASSUME NEW k \in Nat, NEW s, IsSeq(s), \A j \in 1..Len(s) : s[j] # "garbage",
         Garbage(k) = s
  PROVE  s = <<>>
<1>1. Len(Garbage(k)) = k /\ \A j \in 1..k : Garbage(k)[j] = "garbage"
  BY GarbageIs
<1>2. Len(s) = k /\ \A j \in 1..k : s[j] = "garbage"
  <2> HIDE DEF Garbage
  <2> QED BY <1>1
<1>3. k = 0
  <2>1. k > 0 => 1 \in 1..k
    OBVIOUS
  <2> QED BY <1>2, <2>1
<1> QED BY <1>2, <1>3, EmptySequence

\* What verify makes of the content, or of what a wrong password left of it.
LEMMA FinishIs ==
  ASSUME NEW e, EntryIs(e), NEW t, Dirent(t) = e.d, NEW r, Fields(r, {"out"}), ~r.raw, NEW n,
         \/ r.out = e.text /\ (e.d.em = "none" \/ r.pw = e.pw \/ r.out = <<>>)
         \/ e.d.em = "trad" /\ r.pw # e.pw /\ r.out # e.text
  PROVE  End(t, r).entry = r.entry /\ PhaseIs(End(t, r), e, n)
<1> DEFINE done == [r EXCEPT !.phase = "ended"]
           bad == Breaks(r, "crc")
<1>1. End(t, r) = IF Verified(e.d, r.out) THEN done ELSE bad
  BY DEF End
<1>2. /\ e.d.em \in AesMethods => ~e.d.crcValid
      /\ e.d.em \notin AesMethods => e.d.crcValid /\ e.d.crc = e.text
      /\ e.d.uncomp = Len(e.text)
  BY DEF EntryIs
<1>3. CASE r.out = e.text /\ (e.d.em = "none" \/ r.pw = e.pw \/ r.out = <<>>)
  <2>1. Verified(e.d, r.out)
    BY <1>2, <1>3 DEF Verified
  <2>2. /\ done.phase = "ended" /\ done.entry = r.entry /\ done.raw = r.raw
        /\ done.out = r.out /\ done.pw = r.pw
    BY DEF Fields
  <2> HIDE DEF done, bad
  <2>3. Ends(done, e)
    BY <1>3, <2>2 DEF Ends
  <2>4. PhaseIs(done, e, n)
    BY <2>2, <2>3 DEF PhaseIs, Phases
  <2>5. End(t, r) = done
    BY <1>1, <2>1
  <2> QED BY <2>2, <2>4, <2>5
<1>4. CASE e.d.em = "trad" /\ r.pw # e.pw /\ r.out # e.text
  <2>1. ~Verified(e.d, r.out)
    BY <1>2, <1>4 DEF Verified, AesMethods
  <2>2. bad.phase = "failed" /\ bad.error = "crc" /\ bad.entry = r.entry /\ bad.pw = r.pw
    <3>1. {"phase", "entry", "pw", "raw"} \subseteq DOMAIN r
      BY DEF Fields
    <3> QED BY <3>1, BreaksIs
  <2> HIDE DEF done, bad
  <2>3. PhaseIs(bad, e, n)
    BY <1>4, <2>2, FailsIs
  <2>4. End(t, r) = bad
    BY <1>1, <2>1
  <2> QED BY <2>2, <2>3, <2>4
<1> QED BY <1>3, <1>4

LEMMA EndStep ==
  ASSUME NEW E, Holds(E), ReadersAre(E), NEW t \in Threads, EndStream(t)
  PROVE  ReadersAre(E)'
<1> DEFINE r == readers[t]
           e == E[r.entry]
           new == End(t, r)
<1>0. r.phase = "streaming"
  BY DEF EndStream, In
<1>1. /\ r.entry \in DOMAIN E /\ EntryIs(e) /\ Stands(r.entry, e) /\ Dirent(t) = e.d
      /\ PhaseIs(r, e, faults) /\ Reader(t) = r
  BY <1>0, ReaderAt
<1>2. Streams(r, e)
  BY <1>0, <1>1 DEF PhaseIs
<1>3. r.src.left = 0 /\ Becomes(t, new)
  BY <1>1 DEF EndStream
<1> HIDE DEF r, e
<1>4. PICK k \in 0..Len(e.plain) : StreamsAt(r, e, k)
  BY <1>2 DEF Streams
<1>5. k = Len(e.plain) /\ k \in Nat
  <2>1. Len(e.plain) \in Nat
    BY <1>1, PlainIs
  <2>2. 0 = Len(e.plain) - k
    BY <1>3, <1>4 DEF StreamsAt
  <2> DEFINE l == Len(e.plain)
  <2> HIDE DEF l
  <2>3. l \in Nat /\ k \in 0..l /\ 0 = l - k
    BY <1>4, <2>1, <2>2 DEF l
  <2>4. k = l /\ k \in Nat
    BY ONLY <2>3
  <2> QED BY <2>4 DEF l
<1>6. Part(e, k) = e.text
  BY ONLY <1>1, <1>5, PartWhole
<1>7. \/ r.out = e.text /\ (e.d.em = "none" \/ r.pw = e.pw \/ r.out = <<>>)
      \/ e.d.em = "trad" /\ r.pw # e.pw /\ r.out # e.text
  <2>1. CASE e.d.em = "none"
    BY <1>4, <1>6, <2>1 DEF StreamsAt
  <2>2. CASE e.d.em = "trad"
    <3>1. KeysAre(r.src.keys[1], r.pw, r.out, e, k)
      BY <1>4, <2>2 DEF StreamsAt
    <3>2. CASE r.pw = e.pw
      BY <1>6, <3>1, <3>2 DEF KeysAre
    <3>3. CASE r.pw # e.pw /\ r.out = e.text
      <4>1. Garbage(k) = e.text
        BY <3>1, <3>3 DEF KeysAre
      <4>2. IsSeq(e.text) /\ \A j \in 1..Len(e.text) : e.text[j] # "garbage"
        BY <1>1 DEF EntryIs
      <4>3. e.text = <<>>
        BY ONLY <1>5, <4>1, <4>2, GarbageEmpty
      <4> QED BY <3>3, <4>3
    <3> QED BY <2>2, <3>2, <3>3
  <2> QED BY <1>2, <2>1, <2>2 DEF Streams
<1>8. Fields(r, {"out"}) /\ ~r.raw
  BY <1>2 DEF Streams, Fields
<1>9. new.entry = r.entry /\ PhaseIs(new, e, faults)
  BY <1>1, <1>7, <1>8, FinishIs
<1> HIDE DEF new
<1> QED BY <1>1, <1>3, <1>9, BecomesAdvances DEF e

LEMMA MemoryStep ==
  ASSUME NEW E, Holds(E), ReadersAre(E), NEW t \in Threads, ReadMemory(t)
  PROVE  ReadersAre(E)'
<1> DEFINE r == readers[t]
           e == E[r.entry]
           decoded == Decoded(r.src.cells, e.d.method)
           out == r.out \o decoded
           full == [r EXCEPT !.out = out]
           new == End(t, full)
<1>0. r.phase = "memory"
  BY DEF ReadMemory, In
<1>1. /\ r.entry \in DOMAIN E /\ EntryIs(e) /\ Stands(r.entry, e) /\ Dirent(t) = e.d
      /\ PhaseIs(r, e, faults) /\ Reader(t) = r
  BY <1>0, ReaderAt
<1>2. InMemory(r, e)
  BY <1>0, <1>1 DEF PhaseIs
<1>3. Decodes(r.src.cells, e.d.method) /\ out = e.text
  <2>1. Decodes(e.plain, e.d.method) /\ Decoded(e.plain, e.d.method) = e.text
    BY ONLY <1>1, WholeDecodes
  <2>2. r.src.cells = e.plain /\ r.out = <<>>
    BY <1>2 DEF InMemory
  <2>3. <<>> \o e.text = e.text
    BY <1>1, PlainIs, EmptyConcat
  <2> HIDE DEF r, e
  <2> QED BY <2>1, <2>2, <2>3
<1>4. Deliver(t, r, r.src.cells) = full
  BY <1>1, <1>3 DEF Deliver
<1>5. full.phase = "memory" /\ full.entry = r.entry /\ full.raw = r.raw /\ full.pw = r.pw
      /\ full.out = out /\ Fields(full, {"out"})
  <2> HIDE DEF e, out
  <2> QED BY <1>0, <1>2 DEF InMemory, Fields
<1>6. Becomes(t, new)
  <2> HIDE DEF r, full
  <2>1. Becomes(t, IF full.phase = "failed" THEN full ELSE new)
    BY <1>1, <1>4 DEF ReadMemory
  <2> QED BY <1>5, <2>1
<1> HIDE DEF r, e, out, full
<1>7. ~full.raw /\ full.out = e.text /\ full.pw = e.pw
  BY <1>2, <1>3, <1>5 DEF InMemory
<1>8. new.entry = full.entry /\ PhaseIs(new, e, faults)
  BY <1>1, <1>5, <1>7, FinishIs
<1> HIDE DEF new
<1> QED BY <1>1, <1>5, <1>6, <1>8, BecomesAdvances DEF e

\* What a reader of a stream becomes after a read.
StreamOn(t, r, n) ==
  LET cells == Cells(r.pos, n)
      s == IF r.src.keys = <<>> THEN [cells |-> cells]
           ELSE Decrypted(r.src.keys[1], cells)
      keys == IF r.src.keys = <<>> THEN <<>> ELSE <<s.keys>>
      on == [r EXCEPT !.pos = r.pos + n,
                      !.src = [left |-> r.src.left - n, keys |-> keys]]
  IN  IF n = 0 THEN End(t, r) ELSE Deliver(t, on, s.cells)

StreamGoes(t, r, n, cells, keys) ==
  LET on == [r EXCEPT !.pos = r.pos + n,
                      !.src = [left |-> r.src.left - n, keys |-> keys]]
  IN  Deliver(t, on, cells)

\* The reader g is what the reader r was, with out, n cells later.
Later(g, r, n, out, keys) ==
  /\ g.phase = r.phase /\ g.entry = r.entry /\ g.pw = r.pw /\ ~g.raw
  /\ g.pos = r.pos + n /\ g.out = out
  /\ g.src.left = r.src.left - n /\ g.src.keys = keys
  /\ Fields(g, {"pos", "src", "out"})

LEMMA GoesOn ==
  ASSUME NEW t, NEW d, Dirent(t) = d, NEW r, Fields(r, {"pos", "src", "out"}), ~r.raw,
         NEW n, NEW cells, Decodes(cells, d.method), NEW keys, NEW out,
         r.out \o Decoded(cells, d.method) = out
  PROVE  Later(StreamGoes(t, r, n, cells, keys), r, n, out, keys)
<1> DEFINE pos == r.pos + n
           src == [left |-> r.src.left - n, keys |-> keys]
           on == [r EXCEPT !.pos = pos, !.src = src]
           next == on.out \o Decoded(cells, d.method)
           new == [on EXCEPT !.out = next]
           g == StreamGoes(t, r, n, cells, keys)
<1>1. g = new
  BY DEF StreamGoes, Deliver
<1>2. src.left = r.src.left - n /\ src.keys = keys
  OBVIOUS
<1> HIDE DEF pos, src, g
<1>3. /\ on.phase = r.phase /\ on.entry = r.entry /\ on.pw = r.pw /\ on.raw = r.raw
      /\ on.pos = pos /\ on.src = src /\ on.out = r.out /\ DOMAIN on = DOMAIN r
  BY DEF Fields
<1> HIDE DEF on
<1>4. next = out
  BY <1>3
<1> HIDE DEF next
<1>5. /\ new.phase = on.phase /\ new.entry = on.entry /\ new.pw = on.pw /\ new.raw = on.raw
      /\ new.pos = on.pos /\ new.src = on.src /\ new.out = next /\ DOMAIN new = DOMAIN on
  BY <1>3 DEF Fields
<1> HIDE DEF new
<1>6. Fields(new, {"pos", "src", "out"})
  BY <1>3, <1>5 DEF Fields
<1>7. Later(new, r, n, out, keys)
  BY <1>2, <1>3, <1>4, <1>5, <1>6 DEF Later, pos
<1> QED BY <1>1, <1>7 DEF g

LEMMA GoesWrong ==
  ASSUME NEW t, NEW d, Dirent(t) = d, NEW r, Fields(r, {"pos", "src", "out"}),
         NEW n, NEW cells, ~Decodes(cells, d.method), NEW keys
  PROVE  LET g == StreamGoes(t, r, n, cells, keys) IN
         g.phase = "failed" /\ g.error = "compressed_data" /\ g.entry = r.entry /\ g.pw = r.pw
<1> DEFINE pos == r.pos + n
           src == [left |-> r.src.left - n, keys |-> keys]
           on == [r EXCEPT !.pos = pos, !.src = src]
           g == StreamGoes(t, r, n, cells, keys)
           bad == Breaks(on, "compressed_data")
<1>1. g = bad
  BY DEF StreamGoes, Deliver
<1> HIDE DEF pos, src, g
<1>2. on.entry = r.entry /\ on.pw = r.pw /\ {"phase", "entry", "pw", "raw"} \subseteq DOMAIN on
  BY DEF Fields
<1> HIDE DEF on
<1>3. /\ bad.phase = "failed" /\ bad.error = "compressed_data"
      /\ bad.entry = on.entry /\ bad.pw = on.pw
  BY <1>2, BreaksIs
<1> QED BY <1>1, <1>2, <1>3 DEF g

\* The place of the stream.
LEMMA PlaceNext ==
  ASSUME NEW at \in Nat, NEW comp \in Nat, NEW l \in Nat, l =< comp, NEW k \in Nat,
         NEW n \in Nat, k + n =< l, NEW left, left = l - k,
         NEW pos, pos = at + (comp - l) + k
  PROVE  /\ left - n = l - (k + n) /\ pos + n = at + (comp - l) + (k + n)
         /\ k + n \in 0..l
OBVIOUS

LEMMA LaterStreams ==
  ASSUME NEW e, EntryIs(e), NEW k \in Nat, NEW n \in Nat, k + n =< Len(e.plain),
         e.at \in Nat, e.d.comp \in Nat, Len(e.plain) =< e.d.comp,
         NEW r, Streams(r, e), StreamsAt(r, e, k), r.phase = "streaming",
         NEW g, NEW out, NEW keys, Later(g, r, n, out, keys),
         e.d.em = "none" => keys = <<>> /\ out = Part(e, k + n),
         e.d.em = "trad" => keys = <<keys[1]>> /\ KeysAre(keys[1], r.pw, out, e, k + n),
         NEW faulty
  PROVE  g.entry = r.entry /\ PhaseIs(g, e, faulty)
<1>1. /\ g.src.left = Len(e.plain) - (k + n) /\ k + n \in 0..Len(e.plain)
      /\ g.pos = e.at + (e.d.comp - Len(e.plain)) + (k + n)
  <2> DEFINE l == Len(e.plain)
             left == r.src.left
             pos == r.pos
             at == e.at
             comp == e.d.comp
  <2>1. l \in Nat
    BY PlainIs
  <2>2. left = l - k /\ pos = at + (comp - l) + k
    BY DEF StreamsAt
  <2>3. g.src.left = left - n /\ g.pos = pos + n
    BY DEF Later
  <2>4. at \in Nat /\ comp \in Nat /\ l =< comp /\ k + n =< l
    OBVIOUS
  <2> HIDE DEF l, left, pos, at, comp
  <2>5. left - n = l - (k + n) /\ pos + n = at + (comp - l) + (k + n) /\ k + n \in 0..l
    BY ONLY <2>1, <2>2, <2>4, PlaceNext
  <2> QED BY <2>3, <2>5 DEF l, at, comp
<1>2. g.src.keys = keys /\ g.out = out /\ g.pw = r.pw
  BY DEF Later
<1>3. StreamsAt(g, e, k + n)
  BY <1>1, <1>2 DEF StreamsAt
<1>4. Streams(g, e)
  BY <1>1, <1>3 DEF Streams, Later
<1>5. g.phase = "streaming"
  BY DEF Later
<1>6. PhaseIs(g, e, faulty)
  BY <1>4, <1>5 DEF PhaseIs, Phases
<1> QED BY <1>6 DEF Later

GoesTo(g, r, e, n) == g.entry = r.entry /\ PhaseIs(g, e, n)

StreamTo(t, r, n, s) == StreamGoes(t, r, n, s.cells, <<s.keys>>)

LEMMA PlainGoes ==
  ASSUME NEW e, EntryIs(e), e.d.em = "none", e.at \in Nat, e.d.comp \in Nat,
         Len(e.plain) =< e.d.comp, NEW t, Dirent(t) = e.d,
         NEW k \in Nat, NEW n \in Nat \ {0}, k + n =< Len(e.plain),
         NEW r, Streams(r, e), StreamsAt(r, e, k), r.phase = "streaming", NEW faulty
  PROVE  GoesTo(StreamGoes(t, r, n, Piece(e.plain, k, n), <<>>), r, e, faulty)
<1> DEFINE cells == Piece(e.plain, k, n)
           out == Part(e, k + n)
           g == StreamGoes(t, r, n, cells, <<>>)
<1>1. Decodes(cells, e.d.method) /\ Part(e, k) \o Decoded(cells, e.d.method) = out
  BY PartNext
<1>2. r.out = Part(e, k) /\ Fields(r, {"pos", "src", "out"}) /\ ~r.raw
  BY DEF StreamsAt, Streams
<1>3. Later(g, r, n, out, <<>>)
  <2>1. r.out \o Decoded(cells, e.d.method) = out
    BY <1>1, <1>2
  <2> HIDE DEF cells, out
  <2> QED BY <1>1, <1>2, <2>1, GoesOn
<1> HIDE DEF g
<1>4. out = Part(e, k + n) /\ n \in Nat /\ e.d.em # "trad"
  OBVIOUS
<1> HIDE DEF out
<1>5. g.entry = r.entry /\ PhaseIs(g, e, faulty)
  BY <1>3, <1>4, LaterStreams
<1> QED BY <1>5 DEF GoesTo, g, cells

LEMMA KeyedGoes ==
  ASSUME NEW e, EntryIs(e), e.d.em = "trad", e.at \in Nat, e.d.comp \in Nat,
         Len(e.plain) =< e.d.comp, NEW t, Dirent(t) = e.d,
         NEW k \in Nat, NEW n \in Nat \ {0}, k + n =< Len(e.plain),
         NEW r, Streams(r, e), StreamsAt(r, e, k), r.phase = "streaming", NEW faulty
  PROVE  GoesTo(StreamTo(t, r, n, Decrypted(r.src.keys[1], Piece(e.region, 1 + k, n))),
                r, e, faulty)
<1> DEFINE keys == r.src.keys[1]
           cells == Piece(e.region, 1 + k, n)
           s == Decrypted(keys, cells)
           more == s.cells
           on == s.keys
           g == StreamGoes(t, r, n, more, <<on>>)
<1>1. Fields(r, {"pos", "src", "out"}) /\ ~r.raw
  BY DEF Streams
<1>2. KeysAre(keys, r.pw, r.out, e, k)
  BY DEF StreamsAt
<1>3. n \in Nat /\ e.d.em # "none"
  OBVIOUS
<1>4. CASE r.pw = e.pw
  <2> DEFINE out == Part(e, k + n)
  <2>1. keys = [pw |-> e.pw, done |-> k, lost |-> FALSE] /\ r.out = Part(e, k)
    BY <1>2, <1>4 DEF KeysAre, KeysShape
  <2> HIDE DEF keys
  <2>2. more = Piece(e.plain, k, n) /\ on = [pw |-> e.pw, done |-> k + n, lost |-> FALSE]
    BY <2>1, KeyStream
  <2>3. Decodes(more, e.d.method) /\ Part(e, k) \o Decoded(more, e.d.method) = out
    BY <2>2, PartNext
  <2> HIDE DEF more, on, s, cells
  <2>4. r.out \o Decoded(more, e.d.method) = out
    BY <2>1, <2>3
  <2>5. on.pw = e.pw /\ on.done = k + n /\ on.lost = FALSE /\ KeysShape(on)
    BY <2>2 DEF KeysShape
  <2>6. KeysAre(on, r.pw, out, e, k + n)
    BY <1>4, <2>5 DEF KeysAre
  <2> HIDE DEF out
  <2>7. Later(g, r, n, out, <<on>>)
    BY <1>1, <2>3, <2>4, GoesOn
  <2>8. <<on>>[1] = on
    OBVIOUS
  <2> HIDE DEF g
  <2>9. <<on>> = <<<<on>>[1]>> /\ KeysAre(<<on>>[1], r.pw, out, e, k + n)
    BY <2>6, <2>8
  <2>10. g.entry = r.entry /\ PhaseIs(g, e, faulty)
    BY <1>3, <2>7, <2>9, LaterStreams
  <2> QED BY <2>10 DEF GoesTo, StreamTo, g, more, on, s, cells, keys
<1>5. ASSUME r.pw # e.pw
      PROVE  /\ IsSeq(more) /\ Len(more) = n /\ \A j \in 1..n : more[j] = <<"noise">>
             /\ KeysShape(on) /\ on.lost = TRUE /\ r.out = Garbage(k)
  <2>1. keys.lost = TRUE /\ KeysShape(keys) /\ r.out = Garbage(k)
    BY <1>2, <1>5 DEF KeysAre
  <2>2. IsSeq(cells) /\ Len(cells) = n
    <3>1. Len(e.region) = 1 + Len(e.plain) /\ IsSeq(e.region)
      BY TradIs DEF SealedTrad, EntryIs
    <3> DEFINE l == Len(e.plain)
    <3>2. l \in Nat /\ k + n =< l /\ Len(e.region) = 1 + l
      BY <3>1, PlainIs
    <3> HIDE DEF l
    <3>3. 1 + k \in Nat /\ (1 + k) + n =< Len(e.region)
      BY ONLY <3>2, k \in Nat, n \in Nat \ {0}
    <3> QED BY <3>1, <3>3, <1>3, PieceIs
  <2>3. Len(cells) > 0
    BY <2>2
  <2> HIDE DEF keys, cells
  <2> QED BY <2>1, <2>2, <2>3, LostStream
<1>6. CASE r.pw # e.pw /\ e.d.method = "store"
  <2> DEFINE out == Garbage(k + n)
  <2> HIDE DEF more, on, keys
  <2>1. Decodes(more, e.d.method)
    BY <1>6 DEF Decodes
  <2>2. Decoded(more, e.d.method) = Garbage(n)
    BY <1>5, <1>6, NoiseDecode
  <2>3. r.out \o Decoded(more, e.d.method) = out
    <3>1. Garbage(k) \o Garbage(n) = Garbage(k + n)
      BY <1>3, GarbageNext
    <3> HIDE DEF Garbage
    <3> QED BY <1>5, <1>6, <2>2, <3>1
  <2> HIDE DEF Garbage
  <2>4. KeysAre(on, r.pw, out, e, k + n)
    BY <1>5, <1>6 DEF KeysAre
  <2> HIDE DEF out
  <2>5. Later(g, r, n, out, <<on>>)
    BY <1>1, <2>1, <2>3, GoesOn
  <2>6. <<on>>[1] = on
    OBVIOUS
  <2> HIDE DEF g
  <2>7. <<on>> = <<<<on>>[1]>> /\ KeysAre(<<on>>[1], r.pw, out, e, k + n)
    BY <2>4, <2>6
  <2>8. g.entry = r.entry /\ PhaseIs(g, e, faulty)
    BY <1>3, <2>5, <2>7, LaterStreams
  <2> QED BY <2>8 DEF GoesTo, StreamTo, g, more, on, s, cells, keys
<1>7. CASE r.pw # e.pw /\ e.d.method = "deflate"
  <2> HIDE DEF more, on, keys
  <2>1. ~Decodes(more, e.d.method)
    <3>1. 1 \in DOMAIN more
      BY <1>5, <1>7, SequenceIs
    <3>2. more[1] = <<"noise">>
      BY <1>5, <1>7
    <3>3. more[1][1] = "noise"
      BY <3>2
    <3> QED BY <1>7, <3>1, <3>3 DEF Decodes
  <2>2. g.phase = "failed" /\ g.error = "compressed_data" /\ g.entry = r.entry /\ g.pw = r.pw
    BY <1>1, <2>1, GoesWrong
  <2> HIDE DEF g
  <2>3. PhaseIs(g, e, faulty)
    BY <1>3, <1>7, <2>2, FailsIs
  <2> QED BY <2>2, <2>3 DEF GoesTo, StreamTo, g, more, on, s, cells, keys
<1>8. e.d.method \in {"store", "deflate"}
  BY DEF EntryIs
<1> QED BY <1>4, <1>6, <1>7, <1>8

\* A read of at most m after k of l cells, which are the last of comp.
StreamFits(at, comp, l, k, pos, m, len) ==
  /\ pos \in Nat /\ m \in Nat /\ m > 0 /\ pos + m =< len
  /\ (comp - l) + k \in Nat /\ pos = at + ((comp - l) + k)
  /\ \A n \in 0..m : n > 0 => /\ n \in Nat \ {0} /\ n \in Nat /\ n # 0 /\ k + n =< l
                              /\ ((comp - l) + k) + n =< comp

LEMMA StreamRoom ==
  ASSUME NEW at \in Nat, NEW comp \in Nat, NEW l \in Nat, l =< comp, NEW k \in Nat,
         NEW left, left = l - k, left > 0, NEW size \in Nat \ {0},
         NEW len \in Nat, at + comp =< len, NEW pos, pos = at + (comp - l) + k
  PROVE  StreamFits(at, comp, l, k, pos, IF size < left THEN size ELSE left, len)
BY DEF StreamFits

LEMMA StreamStep ==
  ASSUME NEW E, Holds(E), ReadersAre(E), SharedInv, NEW t \in Threads, ReadStream(t)
  PROVE  ReadersAre(E)'
<1> DEFINE r == readers[t]
           e == E[r.entry]
           c == archive.cells
           m == IF ReadSize < r.src.left THEN ReadSize ELSE r.src.left
           h == e.d.comp - Len(e.plain)
<1>0. r.phase = "streaming"
  BY DEF ReadStream, In
<1>1. /\ r.entry \in DOMAIN E /\ EntryIs(e) /\ Stands(r.entry, e) /\ Dirent(t) = e.d
      /\ PhaseIs(r, e, faults) /\ Reader(t) = r
  BY <1>0, ReaderAt
<1>2. Streams(r, e)
  BY <1>0, <1>1 DEF PhaseIs
<1>3. r.src.left > 0
  BY <1>1 DEF ReadStream
<1>4. /\ IsSeq(c) /\ e.at \in Nat /\ e.d.comp \in Nat /\ Len(e.region) = e.d.comp
      /\ IsSeq(e.region) /\ Lies(c, e.at, e.region) /\ e.at + e.d.comp =< Len(c)
      /\ Len(c) \in Nat
  BY <1>1, RegionThere
<1>5. PICK n \in Lengths(r.pos, m) : Reads(t, r.pos, n, StreamOn(t, r, n))
  BY ZenonT(30) DEF ReadStream, Reader, StreamOn
<1> HIDE DEF r, e, c
<1>6. PICK k \in 0..Len(e.plain) : StreamsAt(r, e, k)
  BY <1>2 DEF Streams
<1>7. /\ Len(e.plain) \in Nat /\ k \in Nat /\ Len(e.plain) =< e.d.comp
      /\ e.d.em = "none" => h = 0 /\ e.region = e.plain
      /\ e.d.em = "trad" => h = 1
  <2>1. Len(e.plain) \in Nat
    BY <1>1, PlainIs
  <2> DEFINE l == Len(e.plain)
             comp == e.d.comp
  <2>2. l \in Nat /\ comp \in Nat
    BY <1>4, <2>1
  <2>3. CASE e.d.em = "none"
    <3>1. e.region = e.plain /\ comp = l
      BY <1>1, <1>4, <2>3 DEF EntryIs
    <3> HIDE DEF l, comp
    <3>2. l =< comp /\ comp - l = 0
      BY ONLY <2>2, <3>1
    <3> QED BY <1>6, <2>1, <2>3, <3>1, <3>2 DEF l, comp
  <2>4. CASE e.d.em = "trad"
    <3>1. comp = 1 + l
      BY <1>1, <1>4, <2>4, TradIs DEF SealedTrad
    <3> HIDE DEF l, comp
    <3>2. l =< comp /\ comp - l = 1
      BY ONLY <2>2, <3>1
    <3> QED BY <1>6, <2>1, <2>4, <3>2 DEF l, comp
  <2> QED BY <1>2, <2>3, <2>4 DEF Streams
<1>8. StreamFits(e.at, e.d.comp, Len(e.plain), k, r.pos, m, Len(c))
  <2>1. r.src.left = Len(e.plain) - k /\ r.pos = e.at + h + k
    BY <1>6 DEF StreamsAt
  <2>2. ReadSize \in Nat \ {0}
    BY ReadSizeAssumption
  <2> QED BY ONLY <1>3, <1>4, <1>7, <2>1, <2>2, StreamRoom
<1>9. /\ r.pos \in Nat /\ m \in Nat /\ m > 0 /\ r.pos + m =< Len(c)
      /\ h + k \in Nat /\ r.pos = e.at + (h + k)
      /\ \A i \in 0..m : i > 0 => /\ i \in Nat \ {0} /\ i \in Nat /\ i # 0
                                  /\ k + i =< Len(e.plain) /\ (h + k) + i =< e.d.comp
  BY ONLY <1>8 DEF StreamFits
<1> HIDE DEF m, h
<1>10. n \in 0..m /\ n > 0 /\ Cells(r.pos, n) = Piece(c, r.pos, n)
  <2>1. n \in 0..m /\ (m > 0 => n > 0) /\ Cells(r.pos, n) = Piece(c, r.pos, n)
    BY <1>4, <1>5, <1>9, InsideRead DEF c
  <2> QED BY ONLY <1>9, <2>1
<1>11. /\ n \in Nat \ {0} /\ n \in Nat /\ n # 0 /\ k + n =< Len(e.plain)
       /\ (h + k) + n =< Len(e.region)
  BY ONLY <1>4, <1>9, <1>10
<1>12. Cells(r.pos, n) = Piece(e.region, h + k, n)
  <2>1. Piece(c, e.at + (h + k), n) = Piece(e.region, h + k, n)
    <3> DEFINE j == h + k
    <3>1. j \in Nat /\ j + n =< Len(e.region)
      BY ONLY <1>9, <1>11
    <3> HIDE DEF j
    <3>2. Piece(c, e.at + j, n) = Piece(e.region, j, n)
      BY ONLY <1>4, <1>11, <3>1, PieceThere
    <3> QED BY <3>2 DEF j
  <2> QED BY ONLY <1>9, <1>10, <2>1
<1> DEFINE new == StreamOn(t, r, n)
<1>13. GoesTo(new, r, e, faults)
  <2>0. r.phase = "streaming"
    BY <1>0 DEF r
  <2>1. CASE e.d.em = "none"
    <3>1. Cells(r.pos, n) = Piece(e.plain, k, n)
      <4>1. h + k = k
        BY ONLY <1>7, <2>1
      <4> QED BY ONLY <1>7, <1>12, <2>1, <4>1
    <3>2. r.src.keys = <<>>
      BY <1>6, <2>1 DEF StreamsAt
    <3> DEFINE g == StreamGoes(t, r, n, Piece(e.plain, k, n), <<>>)
    <3>3. new = StreamGoes(t, r, n, Cells(r.pos, n), <<>>)
      BY ONLY <1>11, <3>2 DEF StreamOn, StreamGoes
    <3>4. GoesTo(g, r, e, faults)
      BY ONLY <1>1, <1>2, <1>4, <1>6, <1>7, <1>11, <2>0, <2>1, PlainGoes
    <3>5. new = g
      BY ONLY <3>1, <3>3
    <3> HIDE DEF new, g
    <3> QED BY ONLY <3>4, <3>5
  <2>2. CASE e.d.em = "trad"
    <3>1. Cells(r.pos, n) = Piece(e.region, 1 + k, n)
      BY ONLY <1>7, <1>12, <2>2
    <3>2. r.src.keys # <<>>
      <4>1. r.src.keys = <<r.src.keys[1]>>
        BY <1>6, <2>2 DEF StreamsAt
      <4> DEFINE x == r.src.keys[1]
      <4> HIDE DEF x
      <4>2. <<x>> # <<>>
        OBVIOUS
      <4> QED BY <4>1, <4>2 DEF x
    <3> DEFINE keys == r.src.keys[1]
               g == StreamTo(t, r, n, Decrypted(keys, Piece(e.region, 1 + k, n)))
    <3>3. new = StreamTo(t, r, n, Decrypted(keys, Cells(r.pos, n)))
      BY ONLY <1>11, <3>2 DEF StreamOn, StreamTo, StreamGoes
    <3>4. GoesTo(g, r, e, faults)
      BY ONLY <1>1, <1>2, <1>4, <1>6, <1>7, <1>11, <2>0, <2>2, KeyedGoes
    <3>5. new = g
      BY ONLY <3>1, <3>3
    <3> HIDE DEF new, g
    <3> QED BY ONLY <3>4, <3>5
  <2> QED BY <1>2, <2>1, <2>2 DEF Streams
<1>14. new.entry = r.entry /\ PhaseIs(new, e, faults) /\ Reads(t, r.pos, n, new)
  BY <1>5, <1>13 DEF GoesTo, new
<1> HIDE DEF new
<1> QED BY <1>1, <1>14, ReadsAdvances DEF e

\* What is given of a buffer.
BufferGives(s, k, rest, n) ==
  /\ n = 0 => k = Len(s)
  /\ n # 0 => /\ k + n \in 0..Len(s)
              /\ First(s, k) \o SubSeq(rest, 1, n) = First(s, k + n)

LEMMA BufferNext ==
  ASSUME NEW s, IsSeq(s), NEW k \in 0..Len(s), NEW size \in Nat \ {0},
         NEW rest, rest = SubSeq(s, k + 1, Len(s)),
         NEW n, n = IF size < Len(rest) THEN size ELSE Len(rest)
  PROVE  BufferGives(s, k, rest, n)
<1>0. Len(s) \in Nat
  BY SequenceIs
<1>1. PICK l \in Nat : l = Len(s)
  BY <1>0
<1>2. k \in Nat /\ k =< l
  BY <1>1
<1>3. PICK d \in Nat : k + d = l
  <2>1. l - k \in Nat /\ k + (l - k) = l
    BY ONLY l \in Nat, <1>2
  <2> QED BY <2>1
<1>4. rest = Piece(s, k, d)
  BY ONLY <1>1, <1>3, rest = SubSeq(s, k + 1, Len(s)) DEF Piece
<1>5. IsSeq(rest) /\ Len(rest) = d /\ \A j \in 1..d : rest[j] = s[k + j]
  <2>1. k + d =< Len(s)
    BY ONLY l \in Nat, <1>1, <1>3
  <2>2. /\ IsSeq(Piece(s, k, d)) /\ Len(Piece(s, k, d)) = d
        /\ \A j \in 1..d : Piece(s, k, d)[j] = s[k + j]
    BY ONLY IsSeq(s), <1>2, d \in Nat, <2>1, PieceIs
  <2> QED BY ONLY <1>4, <2>2
<1>6. n \in 0..d /\ (n = 0 => d = 0)
  BY ONLY <1>5, d \in Nat, size \in Nat \ {0}, n = IF size < Len(rest) THEN size ELSE Len(rest)
<1>7. n = 0 => k = Len(s)
  BY ONLY <1>1, <1>2, <1>3, <1>6
<1>8. n \in Nat /\ k + n \in 0..Len(s) /\ k + n =< Len(s)
  BY ONLY l \in Nat, d \in Nat, <1>1, <1>2, <1>3, <1>6
<1>9. SubSeq(rest, 1, n) = Piece(s, k, n)
  <2>1. Lies(s, k, rest)
    <3>1. k + Len(rest) =< Len(s)
      BY ONLY l \in Nat, <1>1, <1>3, <1>5
    <3>2. \A j \in 1..Len(rest) : s[k + j] = rest[j]
      BY ONLY <1>5
    <3> QED BY ONLY <3>1, <3>2 DEF Lies
  <2>2. 0 + n =< Len(rest) /\ 0 \in Nat /\ k + 0 = k
    BY ONLY d \in Nat, <1>2, <1>5, <1>6
  <2>3. Piece(s, k + 0, n) = Piece(rest, 0, n)
    BY ONLY IsSeq(s), <1>2, <1>5, <1>8, <2>1, <2>2, PieceThere
  <2>4. Piece(rest, 0, n) = SubSeq(rest, 1, n)
    <3>1. 0 + 1 = 1 /\ 0 + n = n
      BY ONLY <1>8
    <3> QED BY ONLY <3>1 DEF Piece
  <2> QED BY ONLY <2>2, <2>3, <2>4
<1>10. First(s, k) \o Piece(s, k, n) = First(s, k + n)
  BY ONLY IsSeq(s), <1>2, <1>8, FirstNext
<1> QED BY <1>7, <1>8, <1>9, <1>10 DEF BufferGives

LEMMA BufferedStep ==
  ASSUME NEW E, Holds(E), ReadersAre(E), NEW t \in Threads, ReadBuffered(t)
  PROVE  ReadersAre(E)'
<1> DEFINE r == readers[t]
           e == E[r.entry]
           k == Len(r.out)
           rest == SubSeq(r.src.data, k + 1, Len(r.src.data))
           n == IF ReadSize < Len(rest) THEN ReadSize ELSE Len(rest)
           out == r.out \o SubSeq(rest, 1, n)
           new == [r EXCEPT !.out = out]
           done == End(t, r)
<1>0. r.phase = "buffered"
  BY DEF ReadBuffered, In
<1>1. /\ r.entry \in DOMAIN E /\ EntryIs(e) /\ Stands(r.entry, e) /\ Dirent(t) = e.d
      /\ PhaseIs(r, e, faults) /\ Reader(t) = r
  BY <1>0, ReaderAt
<1>2. Buffers(r, e)
  BY <1>0, <1>1 DEF PhaseIs
<1>3. Becomes(t, IF n = 0 THEN done ELSE new)
  BY ZenonT(30) DEF ReadBuffered, Reader
<1> HIDE DEF r, e
<1>4. IsSeq(e.text) /\ k \in 0..Len(e.text) /\ r.out = First(e.text, k) /\ r.src.data = e.text
  BY <1>1, <1>2, PlainIs DEF Buffers
<1> HIDE DEF k
<1>5. /\ n = 0 => k = Len(e.text)
      /\ n # 0 => /\ k + n \in 0..Len(e.text)
                  /\ First(e.text, k) \o SubSeq(rest, 1, n) = First(e.text, k + n)
  <2>1. rest = SubSeq(e.text, k + 1, Len(e.text))
    BY <1>4
  <2>2. ReadSize \in Nat \ {0}
    BY ReadSizeAssumption
  <2>3. n = IF ReadSize < Len(rest) THEN ReadSize ELSE Len(rest)
    OBVIOUS
  <2> HIDE DEF rest, n
  <2>4. BufferGives(e.text, k, rest, n)
    BY ONLY <1>4, <2>1, <2>2, <2>3, BufferNext
  <2> QED BY ONLY <2>4 DEF BufferGives
<1> HIDE DEF rest, n
<1>6. CASE n = 0
  <2>1. r.out = e.text
    BY ONLY <1>4, <1>5, <1>6, FirstWhole
  <2>2. e.d.em = "none" /\ Fields(r, {"out"}) /\ ~r.raw
    BY <1>2 DEF Buffers, Fields
  <2>3. done.entry = r.entry /\ PhaseIs(done, e, faults)
    BY <1>1, <2>1, <2>2, FinishIs
  <2> HIDE DEF done, new
  <2>4. Becomes(t, done)
    BY <1>3, <1>6
  <2> QED BY <1>1, <2>3, <2>4, BecomesAdvances DEF e
<1>7. CASE n # 0
  <2>1. out = First(e.text, k + n) /\ Len(out) = k + n /\ k + n \in 0..Len(e.text)
    <3>1. out = First(e.text, k + n) /\ k + n \in 0..Len(e.text)
      BY <1>4, <1>5, <1>7
    <3>2. Len(First(e.text, k + n)) = k + n
      BY ONLY <1>4, <3>1, FirstIs
    <3> HIDE DEF out
    <3> QED BY <3>1, <3>2
  <2> HIDE DEF out
  <2>2. /\ new.phase = "buffered" /\ new.entry = r.entry /\ new.raw = r.raw /\ new.out = out
        /\ new.src = r.src /\ Fields(new, {"src", "out"})
    BY <1>0, <1>2 DEF Buffers, Fields, r
  <2> HIDE DEF done, new
  <2>3. Buffers(new, e)
    BY <1>2, <2>1, <2>2 DEF Buffers
  <2>4. PhaseIs(new, e, faults)
    BY <2>2, <2>3 DEF PhaseIs, Phases
  <2>5. Becomes(t, new)
    BY <1>3, <1>7
  <2> QED BY <1>1, <2>2, <2>4, <2>5, BecomesAdvances DEF e
<1> QED BY <1>6, <1>7

\* A failure of the file does not touch the other readers.
LEMMA FaultStep ==
  ASSUME NEW E, Holds(E), ReadersAre(E), NEW t \in Threads, FileFails(t)
  PROVE  ReadersAre(E)'
<1> DEFINE r == readers[t]
           e == E[r.entry]
           new == Breaks(r, "read")
<1>0. r.phase \in {"header", "check", "region", "streaming"}
  BY DEF FileFails
<1>1. /\ r.entry \in DOMAIN E /\ PhaseIs(r, e, faults) /\ Reader(t) = r /\ faults \in Nat
  BY <1>0, ReaderAt
<1>2. {"phase", "entry", "pw", "raw"} \subseteq DOMAIN r
  <2>1. AtHeader(r, e) \/ AtStart(r, e) \/ InRegion(r, e) \/ Streams(r, e)
    BY <1>0, <1>1 DEF PhaseIs
  <2> HIDE DEF r, e
  <2> QED BY <2>1 DEF AtHeader, AtStart, InRegion, Streams, Fields
<1>3. /\ readers' = [readers EXCEPT ![t] = new] /\ starts' = starts /\ faults' = faults + 1
  BY <1>1 DEF FileFails
<1>4. /\ DOMAIN readers = Threads /\ DOMAIN starts = DOMAIN E
      /\ \A i \in DOMAIN E : starts[i] \in {None, E[i].at}
      /\ \A u \in Threads : ReaderIs(readers[u], E, faults)
  BY DEF ReadersAre
<1>5. faults' \in Nat /\ faults' > 0
  BY <1>1, <1>3
<1>6. ASSUME NEW u \in Threads, u # t PROVE ReaderIs(readers'[u], E, faults')
  <2> DEFINE s == readers[u]
  <2>1. readers'[u] = s
    BY <1>3, <1>4, <1>6
  <2>2. ReaderIs(s, E, faults)
    BY <1>4
  <2> HIDE DEF s
  <2>3. CASE s.phase = "idle"
    BY <2>1, <2>3 DEF ReaderIs
  <2>4. CASE s.entry \in DOMAIN E /\ PhaseIs(s, E[s.entry], faults)
    <3>1. FailsFor(s, E[s.entry], faults) => FailsFor(s, E[s.entry], faults')
      BY <1>5 DEF FailsFor
    <3>2. PhaseIs(s, E[s.entry], faults')
      BY <2>4, <3>1 DEF PhaseIs
    <3> QED BY <2>1, <2>4, <3>2 DEF ReaderIs
  <2> QED BY <2>2, <2>3, <2>4 DEF ReaderIs
<1>7. ReaderIs(readers'[t], E, faults')
  <2> HIDE DEF r, e
  <2>1. new.phase = "failed" /\ new.error = "read" /\ new.entry = r.entry /\ new.pw = r.pw
    BY <1>2, BreaksIs
  <2> HIDE DEF new
  <2>2. PhaseIs(new, e, faults')
    BY <1>5, <2>1, FailsIs
  <2>3. readers'[t] = new
    BY <1>3, <1>4
  <2> QED BY <1>1, <2>1, <2>2, <2>3 DEF ReaderIs, e
<1> HIDE DEF new
<1>8. DOMAIN readers' = Threads /\ \A u \in Threads : ReaderIs(readers'[u], E, faults')
  BY <1>3, <1>4, <1>6, <1>7
<1> QED BY <1>3, <1>4, <1>5, <1>8 DEF ReadersAre

LEMMA DropStep ==
  ASSUME NEW E, ReadersAre(E), NEW t \in Threads, Drop(t)
  PROVE  ReadersAre(E)'
<1>1. readers' = [readers EXCEPT ![t] = Idle] /\ starts' = starts /\ faults' = faults
  BY DEF Drop
<1>2. ReaderIs(Idle, E, faults)
  BY DEF ReaderIs, Idle
<1>3. DOMAIN readers = Threads /\ \A u \in Threads : ReaderIs(readers[u], E, faults)
  BY DEF ReadersAre
<1> HIDE DEF Idle
<1>4. DOMAIN readers' = Threads /\ \A u \in Threads : ReaderIs(readers'[u], E, faults')
  BY <1>1, <1>2, <1>3
<1> QED BY <1>1, <1>4 DEF ReadersAre

LEMMA StepAdvances ==
  ASSUME NEW E, Holds(E), ReadersAre(E), SharedInv, NEW t \in Threads, Step(t)
  PROVE  ReadersAre(E)'
BY HeaderStep, CacheStep, SharedStep, AcquireStep, SliceStep, EncryptedStep, CheckStep,
   RegionStep, UseStep, OpenStreamStep, StreamStep, EndStep, MemoryStep, BufferedStep,
   FaultStep, DropStep
   DEF Step

\* A reader starts at the header, or where the data was found before.
LEMMA EntryStep ==
  ASSUME NEW E, Holds(E), ReadersAre(E), NEW t \in Threads, NEW i \in DOMAIN Entries, NEW pw,
         NEW raw \in BOOLEAN, OpenEntry(t, i, pw, raw)
  PROVE  ReadersAre(E)'
<1> DEFINE e == E[i]
           cached == starts[i] # None /\ ~raw
           new == [phase |-> IF cached THEN "start" ELSE "header", entry |-> i, pw |-> pw,
                   raw |-> raw, pos |-> IF cached THEN starts[i] ELSE Entries[i].offset]
           large == Fails(new, "central_dir_too_large")
<1>1. i \in DOMAIN E /\ Entries[i] = e.d /\ starts[i] \in {None, e.at}
  BY DEF Holds, Stands, ReadersAre
<1>2. starts' = starts /\ faults' = faults
  BY DEF OpenEntry, sharedVars
<1>3. CASE raw /\ OverLimit(e.d)
  <2>1. readers' = [readers EXCEPT ![t] = large]
    BY <1>1, <1>3 DEF OpenEntry
  <2>2. new.entry = i /\ new.raw = TRUE
    BY <1>3
  <2> HIDE DEF new
  <2>3. /\ large.phase = "failed" /\ large.error = "central_dir_too_large"
        /\ large.pw = new.pw /\ large.entry = i /\ large.raw = TRUE
    BY <2>2, FailsAre
  <2> HIDE DEF large
  <2>4. PhaseIs(large, e, faults)
    BY <1>3, <2>3, FailsIs
  <2> QED BY <1>1, <1>2, <2>1, <2>3, <2>4, Advances
<1>4. ~(raw /\ OverLimit(e.d)) => readers' = [readers EXCEPT ![t] = new]
  BY <1>1 DEF OpenEntry
<1>5. CASE cached /\ ~(raw /\ OverLimit(e.d))
  <2>1. starts[i] = e.at
    BY <1>1, <1>5
  <2>2. /\ new.phase = "start" /\ new.entry = i /\ ~new.raw /\ new.pos = e.at
        /\ Fields(new, {"pos"})
    <3> HIDE DEF e
    <3> QED BY <1>5, <2>1 DEF Fields
  <2> HIDE DEF new
  <2>3. AtStart(new, e)
    BY <2>2 DEF AtStart
  <2>4. PhaseIs(new, e, faults)
    BY <2>2, <2>3 DEF PhaseIs, Phases
  <2> QED BY <1>1, <1>2, <1>5, <1>4, <2>2, <2>4, Advances
<1>6. CASE ~cached /\ ~(raw /\ OverLimit(e.d))
  <2>1. /\ new.phase = "header" /\ new.entry = i /\ new.raw = raw /\ new.pos = e.d.offset
        /\ Fields(new, {"pos"})
    BY <1>1, <1>6 DEF Fields
  <2> HIDE DEF new
  <2>2. AtHeader(new, e)
    BY <2>1 DEF AtHeader
  <2>3. PhaseIs(new, e, faults)
    BY <2>1, <2>2 DEF PhaseIs, Phases
  <2> QED BY <1>1, <1>2, <1>6, <1>4, <2>1, <2>3, Advances
<1> QED BY <1>5, <1>6, <1>3

LEMMA SameWorld ==
  ASSUME job' = job, archive' = archive, opened' = opened
  PROVE  (IsOpen' <=> IsOpen) /\ (Reopens' <=> Reopens)
<1>1. IsOpen' <=> IsOpen
  BY DEF IsOpen
<1>2. \A i : File(i)' = File(i) /\ Compressed(i)' = Compressed(i)
  BY SameCall DEF File, Compressed
<1>3. \A i : StoredSize(i)' = StoredSize(i) /\ Start(i)' = Start(i)
  BY <1>2 DEF StoredSize, Methods, Start, Headers
<1>4. \A i : AtTheSentinel(i)' <=> AtTheSentinel(i)
  BY <1>2, <1>3 DEF AtTheSentinel
<1>5. DirectorySize' = DirectorySize
  BY DEF DirectorySize, DirectoryAt
<1>6. \A i : Traverses(File(i).name)' <=> Traverses(File(i).name)
  BY <1>2 DEF Traverses
<1>7. \A i : Len(File(i).name)' = Len(File(i).name)
  BY <1>2
<1> DEFINE Within(i) == /\ Len(File(i).name) =< Max16 /\ ~Traverses(File(i).name)
<1>8. (\A i \in DOMAIN job.files : Within(i))' <=> \A i \in DOMAIN job.files : Within(i)
  BY <1>6, <1>7
<1>9. (Len(Comment) =< Max16)' <=> Len(Comment) =< Max16
  BY DEF Comment
<1>10. (DirectorySize =< MaxCdSize)' <=> DirectorySize =< MaxCdSize
  BY <1>5
<1>11. WithinLimits' <=> WithinLimits
  BY <1>8, <1>9, <1>10 DEF WithinLimits
<1>12. (\A i \in DOMAIN job.files : ~AtTheSentinel(i))'
         <=> \A i \in DOMAIN job.files : ~AtTheSentinel(i)
  BY <1>4
<1>13. Reopens' <=> Reopens
  BY <1>11, <1>12 DEF Reopens
<1> QED BY <1>1, <1>13

LEMMA ReadersStart == Init => ReadersInv
<1> SUFFICES ASSUME Init PROVE ReadersInv
  OBVIOUS
<1>1. opened = None /\ readers = [t \in Threads |-> Idle] /\ faults = 0
  BY DEF Init, ReadInit
<1>2. \A t \in Threads : readers[t].phase = "idle"
  BY <1>1 DEF Idle
<1> QED BY <1>1, <1>2 DEF ReadersInv, IsOpen

LEMMA SameReaders ==
  ASSUME ReadersInv, UNCHANGED <<job, archive, opened, starts, readers, faults>>
  PROVE  ReadersInv'
<1>1. opened' = None => /\ DOMAIN readers' = Threads /\ faults' \in Nat
                        /\ \A t \in Threads : readers'[t].phase = "idle"
  BY DEF ReadersInv
<1>2. ASSUME IsOpen', Reopens'
      PROVE  \E E : Holds(E)' /\ ReadersAre(E)'
  <2>1. IsOpen /\ Reopens
    BY <1>2, SameWorld
  <2>2. PICK E : Holds(E) /\ ReadersAre(E)
    BY <2>1 DEF ReadersInv
  <2>3. ReadersAre(E)'
    BY <2>2 DEF ReadersAre
  <2>4. Holds(E)'
    BY <2>2, HoldsOn
  <2> QED BY <2>3, <2>4
<1> QED BY <1>1, <1>2 DEF ReadersInv

LEMMA WriterKeepsReaders ==
  ASSUME OpenedIs, ReadersInv, WriterNext, UNCHANGED readVars
  PROVE  ReadersInv'
<1>1. /\ job' = job /\ opened' = opened /\ starts' = starts /\ readers' = readers
      /\ faults' = faults /\ (archive' = archive \/ archive = None)
  BY DEF WriterNext, TakeFile, FinishFile, WriteArchive, GiveUp, readVars
<1>2. CASE archive' = archive
  BY <1>1, <1>2, SameReaders
<1>3. CASE archive = None
  <2>1. opened = None
    BY <1>3 DEF OpenedIs
  <2> QED BY <1>1, <2>1 DEF ReadersInv, IsOpen
<1> QED BY <1>1, <1>2, <1>3

\* What is written can be opened, also after the next step.
LEMMA WorldNext == (ArchiveInv /\ OpenedIs /\ IsOpen /\ Reopens => \E E : Holds(E))'
<1>1. ArchiveInv /\ OpenedIs /\ IsOpen /\ Reopens => \E E : Holds(E)
  BY WorldIs
<1> QED BY <1>1, PTL

\* No data was found yet.
LEMMA OpenKeepsReaders ==
  ASSUME ArchiveInv', OpenedIs', ReadersInv, OpenArchive
  PROVE  ReadersInv'
<1> DEFINE cd == read_central_dir(archive.cells)
<1>1. PICK kind \in SourceKinds :
        /\ opened' = [cd |-> cd, kind |-> kind]
        /\ starts' = IF cd.error = "none" THEN [i \in DOMAIN cd.entries |-> None] ELSE <<>>
  BY DEF OpenArchive
<1>2. opened = None /\ readers' = readers /\ faults' = faults
  BY DEF OpenArchive
<1>3. DOMAIN readers = Threads /\ faults \in Nat /\ \A t \in Threads : readers[t].phase = "idle"
  BY <1>2 DEF ReadersInv
<1>4. DOMAIN readers' = Threads /\ faults' \in Nat /\ \A t \in Threads : readers'[t].phase = "idle"
  BY <1>2, <1>3
<1>5. ASSUME IsOpen', Reopens'
      PROVE  \E E : Holds(E)' /\ ReadersAre(E)'
  <2>1. PICK E : Holds(E)'
    BY <1>5, WorldNext
  <2> HIDE DEF cd
  <2>2. opened'.cd = cd
    BY <1>1
  <2>3. cd.error = "none" /\ Entries' = cd.entries
    BY <1>5, <2>2 DEF IsOpen, Entries
  <2>4. DOMAIN starts' = DOMAIN cd.entries /\ \A i \in DOMAIN cd.entries : starts'[i] = None
    BY <1>1, <2>3
  <2>5. DOMAIN E = DOMAIN cd.entries
    BY <2>1, <2>3 DEF Holds
  <2>6. ReadersAre(E)'
    BY <1>2, <1>3, <2>4, <2>5 DEF ReadersAre, ReaderIs
  <2> QED BY <2>1, <2>6
<1> QED BY <1>4, <1>5 DEF ReadersInv

LEMMA ReadersKeepReaders ==
  ASSUME ArchiveInv, ArchiveInv', OpenedIs, OpenedIs', ReadersInv, ReadNext
  PROVE  ReadersInv'
<1>1. CASE OpenArchive
  BY <1>1, OpenKeepsReaders
<1>2. ASSUME NEW pw \in Passwords, SetDefaultPassword(pw)
      PROVE  ReadersInv'
  BY <1>2, SameReaders DEF SetDefaultPassword, writerVars
<1>3. ASSUME job' = job, archive' = archive, opened' = opened, IsOpen,
             \A E : Holds(E) /\ ReadersAre(E) => ReadersAre(E)'
      PROVE  ReadersInv'
  <2>1. ASSUME IsOpen', Reopens'
        PROVE  \E E : Holds(E)' /\ ReadersAre(E)'
    <3>1. IsOpen /\ Reopens
      BY <1>3, <2>1, SameWorld
    <3>2. PICK E : Holds(E) /\ ReadersAre(E)
      BY <3>1 DEF ReadersInv
    <3>3. Holds(E)'
      BY <1>3, <3>2, HoldsOn
    <3> QED BY <1>3, <3>2, <3>3
  <2>2. opened' # None
    BY <1>3 DEF IsOpen
  <2> QED BY <2>1, <2>2 DEF ReadersInv
<1>4. ASSUME IsOpen, NEW t \in Threads, NEW i \in DOMAIN Entries,
             NEW pw \in Passwords \cup {None}, NEW raw \in BOOLEAN,
             OpenEntry(t, i, pw, raw)
      PROVE  ReadersInv'
  <2>1. job' = job /\ archive' = archive /\ opened' = opened
    BY <1>4 DEF OpenEntry, writerVars
  <2>2. \A E : Holds(E) /\ ReadersAre(E) => ReadersAre(E)'
    BY <1>4, EntryStep
  <2> QED BY <1>3, <1>4, <2>1, <2>2
<1>5. ASSUME IsOpen, NEW t \in Threads, Step(t)
      PROVE  ReadersInv'
  <2>1. job' = job /\ archive' = archive /\ opened' = opened
    BY <1>5, StepKeepsOthers DEF writerVars
  <2>2. \A E : Holds(E) /\ ReadersAre(E) => ReadersAre(E)'
    BY <1>5, StepAdvances DEF ArchiveInv
  <2> QED BY <1>3, <1>5, <2>1, <2>2
<1> QED BY <1>1, <1>2, <1>4, <1>5 DEF ReadNext

\* What a reader has given is its own entry's.
LEMMA GivesItsOwn ==
  ASSUME NEW e, EntryIs(e), NEW r, NEW n, PhaseIs(r, e, n),
         r.phase \in {"streaming", "buffered", "memory"}, e.d.em = "none" \/ r.pw = e.pw
  PROVE  IsPrefix(r.out, e.text)
<1>1. CASE r.phase = "streaming"
  <2>1. Streams(r, e)
    BY <1>1 DEF PhaseIs
  <2>2. PICK k \in 0..Len(e.plain) : StreamsAt(r, e, k)
    BY <2>1 DEF Streams
  <2>3. r.out = Part(e, k)
    <3>1. CASE e.d.em = "none"
      BY <2>2, <3>1 DEF StreamsAt
    <3>2. CASE e.d.em = "trad"
      <4>1. KeysAre(r.src.keys[1], r.pw, r.out, e, k) /\ r.pw = e.pw
        BY <2>2, <3>2 DEF StreamsAt
      <4> QED BY <4>1 DEF KeysAre
    <3> QED BY <2>1, <3>1, <3>2 DEF Streams
  <2>4. IsPrefix(Part(e, k), e.text)
    BY PartPrefix
  <2> QED BY ONLY <2>3, <2>4
<1>2. CASE r.phase = "buffered"
  <2>1. Len(r.out) \in 0..Len(e.text) /\ r.out = First(e.text, Len(r.out))
    BY <1>2 DEF PhaseIs, Buffers
  <2>2. IsPrefix(First(e.text, Len(r.out)), e.text)
    BY <2>1, PlainIs, FirstPrefix
  <2> QED BY ONLY <2>1, <2>2
<1>3. CASE r.phase = "memory"
  <2>1. r.out = <<>>
    BY <1>3 DEF PhaseIs, InMemory
  <2>2. 0 \in 0..Len(e.plain)
    BY PlainIs
  <2>3. IsPrefix(Part(e, 0), e.text) /\ Part(e, 0) = <<>>
    BY <2>2, PartPrefix, PartNone
  <2> QED BY ONLY <2>1, <2>3
<1> QED BY <1>1, <1>2, <1>3

ReadsBack(r) ==
  /\ r.phase = "ended" =>
       IF r.raw THEN Opened(r.entry, r.out) = Compressed(r.entry).data
       ELSE /\ r.out = File(r.entry).data
            /\ RightPassword(r) \/ r.out = <<>>
  /\ r.phase \in {"streaming", "buffered", "memory"} /\ RightPassword(r) =>
       IsPrefix(r.out, File(r.entry).data)
  /\ r.phase = "failed" => Excused(r)

LEMMA ReaderReadsBack ==
  ASSUME NEW e, EntryIs(e), NEW r, Stands(r.entry, e), PhaseIs(r, e, faults)
  PROVE  ReadsBack(r)
<1> DEFINE i == r.entry
<1>1. /\ File(i).data = e.text /\ Compressed(i).data = e.plain /\ Methods[i] = e.d.em
      /\ StoredSize(i) = e.d.comp /\ job.pw = e.pw
  BY DEF Stands
<1> HIDE DEF i
<1>2. RightPassword(r) <=> e.d.em = "none" \/ r.pw = e.pw
  BY <1>1 DEF RightPassword, i
<1>3. r.phase \in {"streaming", "buffered", "memory"} /\ RightPassword(r) =>
        IsPrefix(r.out, File(i).data)
  BY <1>1, <1>2, GivesItsOwn
<1>4. ASSUME r.phase = "ended", r.raw
      PROVE  Opened(i, r.out) = Compressed(i).data
  <2>1. r.out = e.region
    BY <1>4 DEF PhaseIs, Ends
  <2>2. Opened(i, e.region) = e.plain
    BY <1>1, Unseals
  <2> QED BY <1>1, <2>1, <2>2
<1>5. ASSUME r.phase = "ended", ~r.raw
      PROVE  r.out = File(i).data /\ (RightPassword(r) \/ r.out = <<>>)
  <2>1. r.out = e.text /\ (e.d.em = "none" \/ r.pw = e.pw \/ r.out = <<>>)
    BY <1>5 DEF PhaseIs, Ends
  <2> QED BY <1>1, <1>2, <2>1
<1>6. ASSUME r.phase = "failed" PROVE Excused(r)
  <2>1. FailsFor(r, e, faults)
    BY <1>6 DEF PhaseIs
  <2>2. Methods[r.entry] = e.d.em /\ StoredSize(r.entry) = e.d.comp
    BY <1>1 DEF i
  <2> QED BY <1>2, <2>1, <2>2 DEF FailsFor, Excused, OverLimit
<1> QED BY <1>3, <1>4, <1>5, <1>6 DEF ReadsBack, i

LEMMA ReadersReadBack ==
  ASSUME ReadersInv
  PROVE  ReadBack
<1> SUFFICES ASSUME IsOpen, Reopens, NEW t \in Threads
             PROVE  ReadsBack(readers[t])
  BY DEF ReadBack, ReadsBack
<1>1. PICK E : Holds(E) /\ ReadersAre(E)
  BY DEF ReadersInv
<1>2. CASE readers[t].phase = "idle"
  BY <1>2 DEF ReadsBack
<1>3. CASE readers[t].phase # "idle"
  <2> DEFINE r == readers[t]
             e == E[r.entry]
  <2>1. EntryIs(e) /\ Stands(r.entry, e) /\ PhaseIs(r, e, faults)
    BY <1>1, <1>3, ReaderAt
  <2> HIDE DEF e
  <2> QED BY <2>1, ReaderReadsBack
<1> QED BY <1>2, <1>3

\* Whatever the files, the threads and the order of their steps, whatever the
\* source, the password, a recycled buffer and the failures of the file: an
\* EntryReader gives the bytes that were given to the writer for its own
\* entry, to the end the whole of them, and a raw read the compressed bytes;
\* a call fails for the password, a read that failed or, of an AES entry and
\* of a raw read, for its size alone.
THEOREM EveryReaderReadsBack == Spec => []ReadBack
<1> DEFINE Inv == ArchiveInv /\ OpenedIs /\ ReadersInv
<1>1. Init => Inv
  BY WriterStarts, SharedStarts, OpenedStarts, ReadersStart DEF ArchiveInv
<1>2. Inv /\ [Next]_vars => Inv'
  <2>1. ArchiveInv /\ [Next]_vars => ArchiveInv'
    BY WriterNextKeeps, ReadNextKeeps, StutterKeeps DEF Next
  <2>2. OpenedIs /\ Next => OpenedIs'
    BY WriterKeepsOpened, ReadersKeepOpened DEF Next
  <2>3. OpenedIs /\ UNCHANGED vars => OpenedIs'
    BY SameOpened DEF vars, readVars
  <2>4. OpenedIs /\ ReadersInv /\ WriterNext /\ UNCHANGED readVars => ReadersInv'
    BY WriterKeepsReaders
  <2>5. ArchiveInv /\ ArchiveInv' /\ OpenedIs /\ OpenedIs' /\ ReadersInv /\ ReadNext
          => ReadersInv'
    BY ReadersKeepReaders
  <2>6. ReadersInv /\ UNCHANGED vars => ReadersInv'
    BY SameReaders DEF vars, readVars
  <2> QED BY <2>1, <2>2, <2>3, <2>4, <2>5, <2>6 DEF Next
<1>3. Inv => ReadBack
  BY ReadersReadBack
<1> QED BY <1>1, <1>2, <1>3, PTL DEF Spec
=============================================================================
