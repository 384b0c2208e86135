-------------------------- MODULE EntryReaderProofs --------------------------
(***************************************************************************)
(* What holds of EntryReader for every entry, every buffer that is not     *)
(* empty, every offset and every limit.  The argument is one inductive     *)
(* invariant: what the client has been told so far fixes the flags of the  *)
(* reader and where it stands.                                             *)
(***************************************************************************)
EXTENDS EntryReader, TLAPS

\* While nothing was told the reader is fresh and under the limit; a clean end
\* was told only behind the last byte of an intact entry; after an error the
\* reader is over the limit or at the end of the data; and only what is not
\* intact gets there.
ReaderInv ==
  /\ ReaderTypeOK
  /\ PositionIsTold
  /\ ~reader.seeked => reader.crcFrom = 0
  /\ reader.integrityErr => outcome = "failed" /\ reader.pos > SizeLimit
  /\ outcome = "open" =>
       ~reader.seeked /\ ~reader.finished /\ reader.pos =< SizeLimit
  /\ outcome = "ended" =>
       ~reader.seeked /\ reader.finished /\ reader.pos = entry.len /\ Intact(entry)
  /\ outcome = "unchecked" => reader.seeked
  /\ outcome = "failed" =>
       \/ reader.pos > SizeLimit
       \/ reader.pos = entry.len /\ (entry.broken \/ reader.finished)
  /\ Intact(entry) => outcome # "failed" /\ result.kind # "error"

----------------------------------------------------------------------------

\* What the constants say of the entry a reader is on.
LEMMA EntryFacts ==
  ASSUME entry \in Entries
  PROVE  /\ entry \in EntryType
         /\ SizeLimit \in Nat
         /\ entry.size =< SizeLimit
         /\ entry.buffered => ~entry.broken
<1>1. entry \in EntryType /\ (entry.buffered => ~entry.broken)
  BY EntriesType
<1>2. SizeLimit \in Nat /\ entry.size =< SizeLimit
  BY <1>1, LimitType DEF EntryType, SizeLimit
<1> QED
  BY <1>1, <1>2

\* A read gives no byte beyond the data, and none at all only at their end,
\* or for an empty buffer.
LEMMA InnerReadFacts ==
  ASSUME ReaderTypeOK, NEW m \in Nat
  PROVE  /\ \A n \in InnerRead(m) : n \in Nat /\ reader.pos + n =< entry.len
         /\ 0 \in InnerRead(m) /\ m > 0 => reader.pos = entry.len
<1> DEFINE most == Least(m, entry.len - reader.pos)
<1>1. entry.len \in Nat /\ reader.pos \in Nat /\ reader.pos =< entry.len
  BY EntryFacts DEF ReaderTypeOK, ReaderType, EntryType
<1>2. /\ most \in Nat
      /\ reader.pos + most =< entry.len
      /\ most = 0 /\ m > 0 => reader.pos = entry.len
  BY <1>1 DEF Least
<1>3. InnerRead(m) = {most} \/ (most # 0 /\ InnerRead(m) = 1 .. most)
  BY DEF InnerRead
<1> QED
  BY <1>1, <1>2, <1>3

\* The invariant holds of a reader that was just opened.
LEMMA OpenInv == OpenEntry => ReaderInv
<1> SUFFICES ASSUME OpenEntry PROVE ReaderInv
  OBVIOUS
<1>1. /\ entry \in EntryType
      /\ SizeLimit \in Nat
  BY EntryFacts DEF OpenEntry
<1> QED
  BY <1>1 DEF OpenEntry, Opened, Says, ReaderInv, ReaderTypeOK, ReaderType, ResultType,
     PositionIsTold, EntryType

\* The reader after a read of n bytes, field by field.
LEMMA AdvancedFields ==
  ASSUME reader \in ReaderType, NEW n \in Nat
  PROVE  [reader EXCEPT !.pos = @ + n, !.sizeRead = @ + n] =
           [pos |-> reader.pos + n, sizeRead |-> reader.sizeRead + n,
            crcFrom |-> reader.crcFrom, finished |-> reader.finished,
            integrityErr |-> reader.integrityErr, seeked |-> reader.seeked]
<1> DEFINE g == [reader EXCEPT !.pos = @ + n]
<1>1. g = [pos |-> reader.pos + n, sizeRead |-> reader.sizeRead,
           crcFrom |-> reader.crcFrom, finished |-> reader.finished,
           integrityErr |-> reader.integrityErr, seeked |-> reader.seeked]
  BY DEF ReaderType
<1>2. [reader EXCEPT !.pos = @ + n, !.sizeRead = @ + n] =
        [g EXCEPT !.sizeRead = reader.sizeRead + n]
  BY DEF ReaderType
<1> HIDE DEF g
<1> QED
  BY <1>1, <1>2

\* The invariant survives a read into a buffer that is not empty.
LEMMA ReadInv ==
  ASSUME ReaderInv, NEW m \in Nat \ {0}, Read(m)
  PROVE  ReaderInv'
<1>1. /\ entry \in EntryType
      /\ SizeLimit \in Nat
      /\ entry.size =< SizeLimit
  BY EntryFacts DEF ReaderInv, ReaderTypeOK
<1>2. /\ \A n \in InnerRead(m) : n \in Nat /\ reader.pos + n =< entry.len
      /\ 0 \in InnerRead(m) => reader.pos = entry.len
  BY InnerReadFacts DEF ReaderInv
<1>3. entry' = entry /\ SizeLimit' = SizeLimit
  BY DEF Read, HandOutError, DecoderFails, ReadBytes, ReadNothing, ReturnError, ReturnBytes,
     ReturnEnd, SizeLimit
<1>4. Intact(entry) => entry.len = entry.size /\ ~entry.broken
  BY DEF Intact
<1> USE <1>1, <1>3 DEF ReaderInv, ReaderTypeOK, ReaderType, ResultType, PositionIsTold,
        EntryType, Says
<1>5. CASE HandOutError
  BY <1>5 DEF HandOutError, ReturnError
<1>6. CASE DecoderFails(m)
  BY <1>4, <1>6 DEF DecoderFails, DecoderStuck, ReturnError
<1>7. CASE ReadBytes(m)
  <2>1. PICK n \in InnerRead(m) \ {0} :
          LET r == [reader EXCEPT !.pos = @ + n, !.sizeRead = @ + n]
          IN  IF r.sizeRead > SizeLimit
              THEN ReturnError([r EXCEPT !.integrityErr = TRUE])
              ELSE ReturnBytes(r)
    BY <1>7 DEF ReadBytes
  <2>2. n \in Nat \ {0} /\ reader.pos + n =< entry.len /\ ~reader.integrityErr
    BY <1>2, <1>7 DEF ReadBytes
  <2> DEFINE r == [reader EXCEPT !.pos = @ + n, !.sizeRead = @ + n]
  <2>3. /\ r \in ReaderType
        /\ r.pos = reader.pos + n /\ r.sizeRead = reader.sizeRead + n
        /\ r.crcFrom = reader.crcFrom /\ r.finished = reader.finished
        /\ r.seeked = reader.seeked /\ r.integrityErr = reader.integrityErr
    <3>1. r = [pos |-> reader.pos + n, sizeRead |-> reader.sizeRead + n,
               crcFrom |-> reader.crcFrom, finished |-> reader.finished,
               integrityErr |-> reader.integrityErr, seeked |-> reader.seeked]
      BY <2>2, AdvancedFields
    <3> HIDE DEF r
    <3> QED
      BY <2>2, <3>1
  <2>4. CASE reader.sizeRead + n > SizeLimit
    <3>1. /\ ReturnError([r EXCEPT !.integrityErr = TRUE])
          /\ ~Intact(entry) /\ r.pos > SizeLimit
      BY <1>4, <2>1, <2>2, <2>3, <2>4
    <3>2. /\ reader' \in ReaderType
          /\ reader'.pos = r.pos /\ reader'.sizeRead = r.sizeRead
          /\ reader'.crcFrom = r.crcFrom /\ reader'.finished = r.finished
          /\ reader'.seeked = r.seeked
      BY <2>3, <3>1 DEF ReturnError
    <3> HIDE DEF r
    <3> QED
      BY <2>2, <2>3, <3>1, <3>2 DEF ReturnError
  <2>5. CASE ~(reader.sizeRead + n > SizeLimit)
    <3>1. ReturnBytes(r)
      BY <2>1, <2>3, <2>5
    <3> HIDE DEF r
    <3> QED
      BY <2>2, <2>3, <2>5, <3>1 DEF ReturnBytes
  <2> QED
    BY <2>4, <2>5
<1>8. CASE ReadNothing(m)
  <2>1. reader.pos = entry.len /\ ~entry.broken /\ ~reader.integrityErr
    BY <1>2, <1>8 DEF ReadNothing, DecoderStuck
  <2>2. CASE reader.finished \/ Verified
    <3>1. ReturnEnd([reader EXCEPT !.finished = TRUE])
      BY <1>8, <2>2 DEF ReadNothing
    <3>2. outcome = "open" => Intact(entry)
      BY <2>1, <2>2 DEF Verified, Intact
    <3> QED
      BY <2>1, <3>1, <3>2 DEF ReturnEnd
  <2>3. CASE ~(reader.finished \/ Verified)
    <3>1. ReturnError([reader EXCEPT !.finished = TRUE])
      BY <1>8, <2>3 DEF ReadNothing
    <3>2. ~Intact(entry) /\ outcome # "ended"
      BY <2>1, <2>3 DEF Verified, Intact
    <3> QED
      BY <2>1, <3>1, <3>2 DEF ReturnError
  <2> QED
    BY <2>2, <2>3
<1> QED
  BY <1>5, <1>6, <1>7, <1>8 DEF Read

\* The invariant survives a seek, accepted or refused.
LEMMA SeekInv ==
  ASSUME ReaderInv, NEW whence \in Whences, NEW offset \in Offsets, Seek(whence, offset)
  PROVE  ReaderInv'
<1> DEFINE target == SeekBase(whence) + offset
<1>1. /\ entry \in EntryType
      /\ SizeLimit \in Nat
  BY EntryFacts DEF ReaderInv, ReaderTypeOK
<1>2. target \in Int
  BY <1>1, SizesType DEF SeekBase, Whences, ReaderInv, ReaderTypeOK, ReaderType, EntryType
<1> USE <1>1 DEF ReaderInv, ReaderTypeOK, ReaderType, ResultType, PositionIsTold, EntryType,
        SizeLimit, Intact, Says
<1>3. CASE target >= 0 /\ entry.buffered
  <2> DEFINE p == Least(target, entry.len)
  <2>1. p \in Nat /\ p =< entry.len
    BY <1>2, <1>3 DEF Least
  <2>2. /\ reader' = [pos |-> p, sizeRead |-> p, crcFrom |-> p, finished |-> FALSE,
                     integrityErr |-> FALSE, seeked |-> TRUE]
        /\ result' = Says("none") /\ outcome' = "unchecked" /\ entry' = entry
    BY <1>3 DEF Seek, Seeked
  <2> HIDE DEF p
  <2> QED
    BY <2>1, <2>2
<1>4. CASE ~(target >= 0 /\ entry.buffered)
  BY <1>4 DEF Seek
<1> QED
  BY <1>3, <1>4

\* The invariant depends on nothing else.
LEMMA ReaderStutter ==
  ASSUME ReaderInv, UNCHANGED readerVars
  PROVE  ReaderInv'
BY DEF readerVars, ReaderInv, ReaderTypeOK, PositionIsTold, SizeLimit, Intact

\* What a read tells of a reader of which nothing was told yet.
LEMMA ReadResults ==
  ASSUME ReaderInv, NEW m \in Nat \ {0}, Read(m), outcome = "open"
  PROVE  /\ entry' = entry
         /\ \/ /\ result'.kind = "bytes" /\ outcome' = "open"
               /\ result'.from = reader.pos /\ result'.to = reader'.pos
               /\ reader.pos < reader'.pos
            \/ result'.kind = "end" /\ outcome' = "ended" /\ reader'.pos = reader.pos
            \/ result'.kind = "error" /\ outcome' = "failed" /\ reader.pos =< reader'.pos
<1>1. reader \in ReaderType /\ ~reader.integrityErr
  BY DEF ReaderInv, ReaderTypeOK
<1>2. \A n \in InnerRead(m) : n \in Nat
  BY InnerReadFacts DEF ReaderInv
<1>3. CASE HandOutError
  BY <1>1, <1>3 DEF HandOutError
<1>4. CASE DecoderFails(m)
  BY <1>1, <1>4 DEF DecoderFails, ReturnError, Says, ReaderType
<1>5. CASE ReadBytes(m)
  <2> DEFINE r(n) == [reader EXCEPT !.pos = @ + n, !.sizeRead = @ + n]
  <2>1. PICK n \in InnerRead(m) \ {0} :
          IF r(n).sizeRead > SizeLimit
          THEN ReturnError([r(n) EXCEPT !.integrityErr = TRUE])
          ELSE ReturnBytes(r(n))
    BY <1>5 DEF ReadBytes
  <2>2. n \in Nat \ {0}
    BY <1>2, <2>1
  <2>3. r(n) = [pos |-> reader.pos + n, sizeRead |-> reader.sizeRead + n,
                crcFrom |-> reader.crcFrom, finished |-> reader.finished,
                integrityErr |-> reader.integrityErr, seeked |-> reader.seeked]
    BY <1>1, <2>2, AdvancedFields
  <2> HIDE DEF r
  <2>4. r(n).pos = reader.pos + n /\ reader.pos \in Nat
    BY <1>1, <2>3 DEF ReaderType
  <2>5. CASE ReturnError([r(n) EXCEPT !.integrityErr = TRUE])
    <3>1. reader'.pos = reader.pos + n
      BY <2>3, <2>4, <2>5 DEF ReturnError
    <3> QED
      BY <2>2, <2>4, <2>5, <3>1 DEF ReturnError, Says
  <2>6. CASE ReturnBytes(r(n))
    BY <2>2, <2>4, <2>6 DEF ReturnBytes
  <2> QED
    BY <2>1, <2>5, <2>6
<1>6. CASE ReadNothing(m)
  <2>1. \/ ReturnEnd([reader EXCEPT !.finished = TRUE])
        \/ ReturnError([reader EXCEPT !.finished = TRUE])
    BY <1>6 DEF ReadNothing
  <2>2. reader'.pos = reader.pos /\ reader.pos \in Nat
    BY <1>1, <2>1 DEF ReturnEnd, ReturnError, ReaderType
  <2> QED
    BY <2>1, <2>2 DEF ReturnEnd, ReturnError, Says
<1> QED
  BY <1>3, <1>4, <1>5, <1>6 DEF Read

\* The invariant holds in every state of a client that never reads into an
\* empty buffer.
LEMMA ReaderSpecInv == ReaderSpec => []ReaderInv
<1>1. ReaderInv /\ [ReaderNext]_readerVars => ReaderInv'
  <2> SUFFICES ASSUME ReaderInv, [ReaderNext]_readerVars PROVE ReaderInv'
    OBVIOUS
  <2>1. CASE ReaderNext
    BY <2>1, ReadInv, SeekInv, SizesType DEF ReaderNext, Seeks
  <2>2. CASE UNCHANGED readerVars
    BY <2>2, ReaderStutter
  <2> QED
    BY <2>1, <2>2
<1> QED
  BY OpenInv, <1>1, PTL DEF ReaderSpec

\* The fields of EntryReader keep their types and its position stays within
\* the decoded data.
THEOREM ReaderTypeCorrect == ReaderSpec => []ReaderTypeOK
<1>1. ReaderInv => ReaderTypeOK
  BY DEF ReaderInv
<1> QED
  BY <1>1, ReaderSpecInv, PTL

\* zip_ftell always tells where the next byte comes from.
THEOREM ReaderTellsPosition == ReaderSpec => []PositionIsTold
<1>1. ReaderInv => PositionIsTold
  BY DEF ReaderInv
<1> QED
  BY <1>1, ReaderSpecInv, PTL

\* No read of an intact entry fails, whatever was read and sought before it.
THEOREM ReaderAcceptsIntact == ReaderSpec => []IntactNeverFails
<1>1. ReaderInv => IntactNeverFails
  BY DEF ReaderInv, IntactNeverFails
<1> QED
  BY <1>1, ReaderSpecInv, PTL

----------------------------------------------------------------------------
(* EntryReader implements ByteStream.                                      *)

\* Every read is a delivery, an end or a failure of the stream.
LEMMA ReadImplements ==
  ASSUME ReaderInv, NEW m \in Nat \ {0}, Read(m)
  PROVE  Stream!Next
<1>1. entry \in EntryType /\ SizeLimit \in Nat
  BY EntryFacts DEF ReaderInv, ReaderTypeOK
<1>2. /\ \A n \in InnerRead(m) : n \in Nat /\ reader.pos + n =< entry.len
      /\ 0 \in InnerRead(m) => reader.pos = entry.len
  BY InnerReadFacts DEF ReaderInv
<1> USE <1>1 DEF ReaderInv, ReaderTypeOK, ReaderType, PositionIsTold, EntryType, Intact,
        Says, Stream!Says
<1>3. CASE HandOutError
  <2>1. outcome # "ended" /\ reader.pos \in reader.pos .. entry.len
    BY <1>3 DEF HandOutError
  <2>2. Stream!Fail
    BY <1>3, <2>1 DEF HandOutError, ReturnError, Stream!Fail
  <2> QED
    BY <2>2 DEF Stream!Next
<1>4. CASE DecoderFails(m)
  <2>1. outcome # "ended" /\ reader.pos \in reader.pos .. entry.len
    BY <1>4 DEF DecoderFails, DecoderStuck
  <2>2. Stream!Fail
    BY <1>4, <2>1 DEF DecoderFails, DecoderStuck, ReturnError, Stream!Fail
  <2> QED
    BY <2>2 DEF Stream!Next
<1>5. CASE ReadBytes(m)
  <2>1. PICK n \in InnerRead(m) \ {0} :
          LET r == [reader EXCEPT !.pos = @ + n, !.sizeRead = @ + n]
          IN  IF r.sizeRead > SizeLimit
              THEN ReturnError([r EXCEPT !.integrityErr = TRUE])
              ELSE ReturnBytes(r)
    BY <1>5 DEF ReadBytes
  <2>2. n \in Nat \ {0} /\ reader.pos + n =< entry.len /\ outcome # "ended"
    BY <1>2, <2>1
  <2>3. reader.pos + n \in reader.pos .. entry.len
    BY <2>2
  <2>4. CASE reader.sizeRead + n > SizeLimit
    <3>1. Stream!Fail
      BY <2>1, <2>2, <2>3, <2>4 DEF ReturnError, Stream!Fail
    <3> QED
      BY <3>1 DEF Stream!Next
  <2>5. CASE ~(reader.sizeRead + n > SizeLimit)
    <3>1. outcome \in {"open", "unchecked"}
      BY <2>2, <2>5
    <3>2. Stream!Deliver
      BY <2>1, <2>3, <2>5, <3>1 DEF ReturnBytes, Stream!Deliver
    <3> QED
      BY <3>2 DEF Stream!Next
  <2> QED
    BY <2>4, <2>5
<1>6. CASE ReadNothing(m)
  <2>1. reader.pos = entry.len /\ ~entry.broken
    BY <1>2, <1>6 DEF ReadNothing, DecoderStuck
  <2>2. CASE reader.finished \/ Verified
    <3>1. outcome = "open" => Intact(entry)
      BY <2>1, <2>2 DEF Verified
    <3>2. Stream!End
      BY <1>6, <2>1, <2>2, <3>1 DEF ReadNothing, ReturnEnd, Stream!End
    <3> QED
      BY <3>2 DEF Stream!Next
  <2>3. CASE ~(reader.finished \/ Verified)
    <3>1. Stream!Fail
      BY <1>6, <2>1, <2>3 DEF ReadNothing, ReturnError, Stream!Fail
    <3> QED
      BY <3>1 DEF Stream!Next
  <2> QED
    BY <2>2, <2>3
<1> QED
  BY <1>3, <1>4, <1>5, <1>6 DEF Read

\* A seek is a seek of the stream, or a refused one.
LEMMA SeekImplements ==
  ASSUME ReaderInv, NEW whence \in Whences, NEW offset \in Offsets, Seek(whence, offset)
  PROVE  Stream!Next
<1> DEFINE target == SeekBase(whence) + offset
<1>1. ReaderInv' /\ entry' = entry
  BY SeekInv DEF Seek
<1>2. CASE target >= 0 /\ entry.buffered
  <2>1. reader'.pos \in 0 .. entry.len
    BY <1>1, EntryFacts DEF ReaderInv, ReaderTypeOK, ReaderType, EntryType
  <2>2. Stream!Seek
    BY <1>1, <1>2, <2>1 DEF Seek, Says, Stream!Says, Stream!Seek
  <2> QED
    BY <2>2 DEF Stream!Next
<1>3. CASE ~(target >= 0 /\ entry.buffered)
  <2>1. Stream!RefuseSeek
    BY <1>3 DEF Seek, Says, Stream!Says, Stream!RefuseSeek
  <2> QED
    BY <2>1 DEF Stream!Next
<1> QED
  BY <1>2, <1>3

\* EntryReader gives the bytes of its entry, each once and in order, ends
\* cleanly only behind an intact entry, and gives none after an error.
THEOREM ReaderImplementsStream == ReaderSpec => ReaderIsByteStream
<1>1. OpenEntry => Stream!Init
  BY EntryFacts DEF OpenEntry, Opened, Says, Stream!Init, Stream!Says, EntryType, Intact
<1>2. ReaderInv /\ [ReaderNext]_readerVars => [Stream!Next]_(Stream!vars)
  <2> SUFFICES ASSUME ReaderInv, [ReaderNext]_readerVars
               PROVE  Stream!Next \/ UNCHANGED Stream!vars
    OBVIOUS
  <2>1. CASE ReaderNext
    BY <2>1, ReadImplements, SeekImplements, SizesType DEF ReaderNext, Seeks
  <2>2. CASE UNCHANGED readerVars
    BY <2>2 DEF readerVars, Stream!vars, Intact
  <2> QED
    BY <2>1, <2>2
<1> QED
  BY <1>1, <1>2, ReaderSpecInv, PTL DEF ReaderSpec, ReaderIsByteStream, Stream!Spec
=============================================================================
