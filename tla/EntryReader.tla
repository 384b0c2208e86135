----------------------------- MODULE EntryReader -----------------------------
(***************************************************************************)
(* zip_core::EntryReader, the reader of one member, and the calls through  *)
(* which C clients reach it: zip_fread, zip_fseek, zip_ftell.              *)
(*                                                                         *)
(* Bytes are known by their place in the decoded data.  The running CRC is *)
(* known by where it was last reset: it can match the recorded one only if *)
(* it started with the first byte.                                         *)
(***************************************************************************)
EXTENDS Integers

CONSTANTS
  Entries,        \* the entries a reader may be opened on
  BufferSizes,    \* the lengths of the buffers clients pass
  Offsets,        \* the offsets clients pass to zip_fseek
  AbsoluteLimit,  \* ABSOLUTE_LIMIT, the decoded bytes allowed in any case
  SafetyBuffer    \* what is allowed on top of the limit

\* len bytes come out of the decoder, size were announced, and crcOk tells
\* whether the first size of them have the recorded CRC.  A broken entry makes
\* the decoder fail after len bytes; a buffered one was decoded when opened.
EntryType ==
  [len : Nat, size : Nat, crcOk : BOOLEAN, checkCrc : BOOLEAN,
   buffered : BOOLEAN, broken : BOOLEAN]

ASSUME EntriesType ==
  /\ Entries \subseteq EntryType
  /\ \A e \in Entries : e.buffered => ~e.broken
ASSUME SizesType == BufferSizes \subseteq Nat /\ Offsets \subseteq Int
ASSUME LimitType == AbsoluteLimit \in Nat /\ SafetyBuffer \in Nat

VARIABLES
  entry,    \* the entry the reader was opened on
  reader,   \* the fields of EntryReader
  result,   \* what the latest call returned
  outcome   \* history, named as the phases of ByteStream

readerVars == <<entry, reader, result, outcome>>

ReaderType ==
  [pos : Nat, sizeRead : Nat, crcFrom : Nat, finished : BOOLEAN,
   integrityErr : BOOLEAN, seeked : BOOLEAN]

\* EntryReader::new, from_buffer, from_shared and their skip_crc variants.
Opened ==
  [pos |-> 0, sizeRead |-> 0, crcFrom |-> 0, finished |-> FALSE,
   integrityErr |-> FALSE, seeked |-> FALSE]

Says(kind) == [kind |-> kind, from |-> 0, to |-> 0]

OpenEntry ==
  /\ entry \in Entries
  /\ reader = Opened
  /\ result = Says("none")
  /\ outcome = "open"

----------------------------------------------------------------------------
(* Read::read.                                                             *)

Least(a, b) == IF a < b THEN a ELSE b

SizeLimit ==
  (IF entry.size > AbsoluteLimit THEN entry.size ELSE AbsoluteLimit)
    + SafetyBuffer

ReturnBytes(r) ==
  /\ reader' = r
  /\ result' = [kind |-> "bytes", from |-> reader.pos, to |-> r.pos]
  /\ UNCHANGED <<entry, outcome>>

ReturnError(r) ==
  /\ reader' = r
  /\ result' = Says("error")
  /\ outcome' = "failed"
  /\ UNCHANGED entry

ReturnEnd(r) ==
  /\ reader' = r
  /\ result' = Says("end")
  /\ outcome' = IF outcome = "open" THEN "ended" ELSE outcome
  /\ UNCHANGED entry

\* The error the previous read deferred.
HandOutError ==
  /\ reader.integrityErr
  /\ ReturnError([reader EXCEPT !.integrityErr = FALSE])

\* How many bytes the inner strategy gives for a buffer of m: a decoder may
\* return fewer than there are.
InnerRead(m) ==
  LET most == Least(m, entry.len - reader.pos)
  IN  IF entry.buffered \/ most = 0 THEN {most} ELSE 1 .. most

DecoderStuck(m) == entry.broken /\ reader.pos = entry.len /\ m > 0

DecoderFails(m) ==
  /\ ~reader.integrityErr
  /\ DecoderStuck(m)
  /\ ReturnError(reader)

\* The bytes of a read over the limit are in the client's buffer, but the
\* client is told of an error, now and at the next read.
ReadBytes(m) ==
  /\ ~reader.integrityErr
  /\ ~DecoderStuck(m)
  /\ \E n \in InnerRead(m) \ {0} :
       LET r == [reader EXCEPT !.pos = @ + n, !.sizeRead = @ + n]
       IN  IF r.sizeRead > SizeLimit
           THEN ReturnError([r EXCEPT !.integrityErr = TRUE])
           ELSE ReturnBytes(r)

\* verify.  Mutants: a verification that forgets that the reader has seeked,
\* and one that trusts the size alone.
VerifiedSeeked ==
  /\ reader.sizeRead = entry.size
  /\ entry.checkCrc => reader.crcFrom = 0 /\ entry.crcOk

VerifiedSize == reader.seeked \/ reader.sizeRead = entry.size

Verified ==
  \/ reader.seeked
  \/ /\ reader.sizeRead = entry.size
     /\ entry.checkCrc => reader.crcFrom = 0 /\ entry.crcOk

\* Nothing came: the end of the data, or an empty buffer.
ReadNothing(m) ==
  /\ ~reader.integrityErr
  /\ ~DecoderStuck(m)
  /\ 0 \in InnerRead(m)
  /\ IF reader.finished \/ Verified
     THEN ReturnEnd([reader EXCEPT !.finished = TRUE])
     ELSE ReturnError([reader EXCEPT !.finished = TRUE])

Read(m) == HandOutError \/ DecoderFails(m) \/ ReadBytes(m) \/ ReadNothing(m)

----------------------------------------------------------------------------
(* zip_fseek.                                                              *)

\* Mutants: a seek beyond the data, and one that zip_ftell does not follow.
SeekedUnclamped(target) ==
  [pos |-> target, sizeRead |-> target, crcFrom |-> target,
   finished |-> FALSE, integrityErr |-> FALSE, seeked |-> TRUE]

SeekedUncounted(target) ==
  LET p == Least(target, entry.len)
  IN  [pos |-> p, sizeRead |-> reader.sizeRead, crcFrom |-> p,
       finished |-> FALSE, integrityErr |-> FALSE, seeked |-> TRUE]

Seeked(target) ==
  LET p == Least(target, entry.len)
  IN  [pos |-> p, sizeRead |-> p, crcFrom |-> p,
       finished |-> FALSE, integrityErr |-> FALSE, seeked |-> TRUE]

\* The end is where the directory says it is, not where the data end.
SeekBase(whence) ==
  CASE whence = "SET" -> 0
    [] whence = "CUR" -> reader.sizeRead
    [] whence = "END" -> entry.size

Whences == {"SET", "CUR", "END"}

Seek(whence, offset) ==
  LET target == SeekBase(whence) + offset
  IN  IF target >= 0 /\ entry.buffered
      THEN /\ reader' = Seeked(target)
           /\ result' = Says("none")
           /\ outcome' = "unchecked"
           /\ UNCHANGED entry
      ELSE /\ result' = Says("refused")
           /\ UNCHANGED <<entry, reader, outcome>>

----------------------------------------------------------------------------

Seeks == \E whence \in Whences, offset \in Offsets : Seek(whence, offset)

AnyNext == Seeks \/ \E m \in BufferSizes : Read(m)
AnySpec == OpenEntry /\ [][AnyNext]_readerVars

\* A client that never reads into an empty buffer.
ReaderNext == Seeks \/ \E m \in BufferSizes \ {0} : Read(m)
ReaderSpec == OpenEntry /\ [][ReaderNext]_readerVars

----------------------------------------------------------------------------
(* Properties.                                                             *)

Intact(e) ==
  /\ e.len = e.size
  /\ ~e.broken
  /\ e.checkCrc => e.crcOk

ResultType ==
  [kind : {"none", "bytes", "end", "error", "refused"}, from : Nat, to : Nat]

\* The fields have their types, and no position lies beyond the data.
ReaderTypeOK ==
  /\ entry \in Entries
  /\ reader \in ReaderType
  /\ reader.pos =< entry.len
  /\ result \in ResultType
  /\ outcome \in {"open", "ended", "failed", "unchecked"}

\* size_read, which zip_ftell returns and the integrity check compares, is
\* where the next byte comes from, through every read, error and seek.
PositionIsTold == reader.sizeRead = reader.pos

\* An entry that is what was archived is never reported as damaged: neither
\* the deferred error nor the limit nor a seek makes verify fail on it.
IntactNeverFails == Intact(entry) => result.kind # "error"

\* EntryReader keeps the promise of a reader: bytes in order, a clean end only
\* after the whole of an intact entry, nothing after an error.
Stream == INSTANCE ByteStream WITH
  content <- [length |-> entry.len, intact |-> Intact(entry)],
  pos     <- reader.pos,
  phase   <- outcome,
  answer  <- result
ReaderIsByteStream == Stream!Spec
=============================================================================
