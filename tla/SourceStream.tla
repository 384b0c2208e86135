----------------------------- MODULE SourceStream -----------------------------
(***************************************************************************)
(* The bytes of one zip_source_t: how a source is created over a range,    *)
(* read, seeked and written, and how a command travels down the layers     *)
(* that were put over it (CRC, compression, or a callback that hands on to *)
(* zip_source_pass_to_lower_layer).                                        *)
(*                                                                         *)
(* The client owns the top of the chain, one thread calls it.  ZipSource   *)
(* has the references and the threads, and leaves the bytes out.           *)
(***************************************************************************)
EXTENDS Integers, Sequences, SequencesExt

CONSTANTS
  Bytes,
  Files,       \* the contents a source is made from
  Zero,        \* the byte that fills gaps
  Magic,       \* what the compressed form of a content starts with
  Fragments,   \* lists of buffer fragments
  Ranges,      \* the <<start, len>> asked for
  Layerings,   \* the layers a client puts over a source, the lowest first
  ReadSizes,   \* how many bytes it reads at once
  Targets,     \* the <<offset, whence>> it seeks to
  WriteData,   \* what it writes in one call
  MaxBytes, MaxWrites   \* bounds: of what is written and windowed, and of writes

\* A client does not read into an empty buffer: the layers take it for the end.
ASSUME SizeAssumption ==
  /\ ReadSizes \subseteq Nat \ {0}
  /\ MaxBytes \in Nat /\ MaxWrites \in Nat
  /\ Ranges \subseteq Nat \X Int
  /\ Targets \subseteq Int \X {"set", "cur", "end", "bad"}
ASSUME ContentAssumption ==
  /\ Zero \in Bytes /\ Magic \in Bytes
  /\ Files \subseteq Seq(Bytes) /\ WriteData \subseteq Seq(Bytes)
  /\ Fragments \subseteq Seq([data : Seq(Bytes), length : Nat])
Kinds == {"crc", "compress", "pass"}
ASSUME LayerAssumption == Layerings \subseteq Seq(Kinds)

VARIABLES
  chain,   \* the sources, the lowest first; none if nothing is open
  reply,   \* the last call, what it was asked and what it returned
  seen,    \* (history) what was read since the last open
  wrote    \* (history) what the last write session was asked to write

vars == <<chain, reply, seen, wrote>>

Failed == -1
Low(a, b) == IF a < b THEN a ELSE b
From(s, p) == SubSeq(s, p + 1, Len(s))

----------------------------------------------------------------------------
(* One source of the chain.                                                *)

Readable == {"open", "read", "close", "stat", "error", "free"}
Seekable == Readable \cup {"seek", "tell", "supports"}
WriteMode == {"begin_write", "begin_write_cloning", "commit_write",
              "rollback_write", "seek_write", "tell_write", "write"}
Writable == WriteMode \cup {"remove"}

\* size is what STAT reports (of a compress layer, as the compressed size); of
\* a CRC layer hashed are the bytes the CRC is of, crc_position their number;
\* from (history) is where the source below was when the layer was opened.
NewSource(kind, data, mask) ==
  [kind |-> kind, data |-> data, pos |-> 0, size |-> Len(data), draft |-> <<>>,
   writeOpen |-> FALSE, eof |-> FALSE, supports |-> mask,
   hashed |-> <<>>, crcComplete |-> FALSE, from |-> "unopened"]

CrcMask(lower) ==
  (lower \ {"begin_write", "commit_write", "rollback_write", "seek_write", "tell_write",
            "remove", "get_file_attributes"}) \cup {"free"}

\* What a layer's callback answers to SUPPORTS when the layer is made.
LayerMask(kind, lower) ==
  CASE kind = "crc" -> CrcMask(lower)
    [] kind = "compress" -> Readable \cup {"get_file_attributes", "supports_reopen"}
    [] kind = "pass" -> lower

\* The answer to a later query, which comes without the mask of the source
\* below: the pass-through callback cannot answer it.
Supported(s) ==
  CASE s.kind = "crc" -> CrcMask(Readable)
    [] s.kind = "compress" -> LayerMask("compress", {})
    [] OTHER -> s.supports

QuerySupports(c, i) == [c EXCEPT ![i].supports = Supported(c[i])]

SeekComputeOffset(offset, length, to, whence) ==
  LET t == CASE whence = "set" -> to
             [] whence = "cur" -> offset + to
             [] whence = "end" -> length + to
             [] OTHER -> Failed
  IN  IF t < 0 \/ t > length THEN Failed ELSE t

----------------------------------------------------------------------------
(* Commands.  A layer sends at most one on.  ok is whether the callback of  *)
(* a function source works.                                                *)

\* Layers of these kinds hand a command on: the source that answers it.
Answers(c, i, relays) ==
  CHOOSE k \in 1..i : /\ c[k].kind \notin relays
                      /\ \A j \in (k + 1)..i : c[j].kind \in relays

\* Mutant: bytes behind a gap are hashed too.
HashGaps(s, got) ==
  IF got = <<>>
  THEN [s EXCEPT !.size = s.pos, !.eof = TRUE,
                 !.crcComplete = @ \/ Len(s.hashed) = s.pos]
  ELSE [s EXCEPT !.pos = @ + Len(got),
                 !.hashed = IF s.crcComplete THEN @ ELSE @ \o got]

\* The CRC of what a read returned, if no byte was left out so far.
Hash(s, got) ==
  IF got = <<>>
  THEN [s EXCEPT !.size = s.pos, !.eof = TRUE,
                 !.crcComplete = @ \/ Len(s.hashed) = s.pos]
  ELSE [s EXCEPT !.pos = @ + Len(got),
                 !.hashed = IF ~s.crcComplete /\ s.pos = Len(s.hashed)
                            THEN @ \o got ELSE @]

\* A read that returns nothing sets eof, of a memory source only at its end.
Taken(s, got) ==
  [s EXCEPT !.pos = @ + Len(got),
            !.eof = @ \/ (got = <<>> /\ (s.kind = "memory" => s.pos >= Len(s.data)))]

\* What a read leaves in the source that has the bytes, and in a layer above it.
AfterRead(s, got) ==
  CASE s.kind = "crc" -> Hash(s, got)
    [] s.kind = "pass" -> [s EXCEPT !.eof = @ \/ got = <<>>]
    [] OTHER -> Taken(s, got)

HasBytes(c, i) == Answers(c, i, {"crc", "pass"})

\* At most len bytes, read from level i of the chain.
Reading(c, i, len, ok) ==
  LET k == HasBytes(c, i)
      left == Len(c[k].data) - c[k].pos
      got == SubSeq(c[k].data, c[k].pos + 1, c[k].pos + Low(len, left))
  IN  IF c[k].kind = "function" /\ ~ok THEN [chain |-> c, got |-> <<>>, ok |-> FALSE]
      ELSE [chain |-> [j \in 1..Len(c) |-> IF j \in k..i THEN AfterRead(c[j], got) ELSE c[j]],
            got |-> got, ok |-> TRUE]

\* The loop that reads until a read returns nothing; its buffer has room for
\* the content.
Drained(c, i, ok) ==
  LET all == Len(c[HasBytes(c, i)].data)
      body == Reading(c, i, all, ok)
      end == Reading(body.chain, i, all, ok)
  IN  IF body.ok THEN [end EXCEPT !.got = body.got] ELSE body

Compressed(data) == <<Magic>> \o data

\* Mutant: a source that is opened goes on where it was.
NotRewound(s) == s

Rewound(s) == [s EXCEPT !.pos = 0]

\* Is the source at its first byte?  A compress layer is not before it is open.
AtStart(c, i) ==
  LET k == HasBytes(c, i) IN c[k].kind # "compress" /\ c[k].pos = 0

CrcOpened(s, atStart) ==
  [Rewound(s) EXCEPT !.hashed = <<>>, !.crcComplete = FALSE,
                     !.from = IF atStart THEN "start" ELSE "middle"]

\* OPEN at level i.  It is not handed on: a compress layer opens the source
\* below (lower) and drains it, the other layers read on from where that is.
OpenLevel(c, i, ok, lower) ==
  CASE c[i].kind = "memory" ->
         [chain |-> [c EXCEPT ![i] = [Rewound(@) EXCEPT !.eof = FALSE]], ok |-> TRUE]
    [] c[i].kind = "function" ->
         [chain |-> IF ok THEN [c EXCEPT ![i] = Rewound(@)] ELSE c, ok |-> ok]
    [] c[i].kind = "crc" ->
         [chain |-> [c EXCEPT ![i] = CrcOpened(@, AtStart(c, i - 1))], ok |-> TRUE]
    [] c[i].kind = "pass" -> [chain |-> c, ok |-> TRUE]
    [] c[i].kind = "compress" ->
         LET all == Drained(lower.chain, i - 1, ok)
             data == Compressed(all.got)
         IN  IF lower.ok /\ all.ok
             THEN [chain |-> [all.chain EXCEPT ![i] =
                                [Rewound(@) EXCEPT !.data = data, !.size = Len(data)]],
                   ok |-> TRUE]
             ELSE [chain |-> [(IF lower.ok THEN all ELSE lower).chain EXCEPT ![i] = Rewound(@)],
                   ok |-> FALSE]

Opening(c, ok) ==
  LET open[i \in 0..Len(c)] ==
        IF i = 0 THEN [chain |-> c, ok |-> TRUE] ELSE OpenLevel(c, i, ok, open[i - 1])
  IN  open[Len(c)]

\* A CRC layer's own position; else that of the first source below that has one.
Tell(c, i) == c[Answers(c, i, {"compress", "pass"})].pos

\* Each layer hands the question on.
AtEof(c) ==
  IF c[1].kind = "function" THEN Failed
  ELSE IF c[1].pos >= Len(c[1].data) THEN 1 ELSE 0

\* Where a memory source goes: as far as its end.
MemorySeek(s, to, whence) ==
  LET t == CASE whence = "set" -> to
             [] whence = "cur" -> s.pos + to
             [] whence = "end" -> Len(s.data) + to
             [] OTHER -> Failed
  IN  IF t < 0 THEN Failed ELSE Low(t, Len(s.data))

FunctionSeek(s, to, whence) == SeekComputeOffset(s.pos, Len(s.data), to, whence)

\* Each layer hands a seek on, a compress layer although its own bytes stay where
\* they are.  On the way back a CRC layer asks the source below where it is now,
\* which is where the lowest has gone.
Seeking(c, to, whence) ==
  LET p == IF c[1].kind = "memory" THEN MemorySeek(c[1], to, whence)
           ELSE FunctionSeek(c[1], to, whence)
      Moved(s) ==
        CASE s.kind = "memory" -> [s EXCEPT !.pos = p, !.eof = p >= Len(s.data)]
          [] s.kind \in {"function", "crc"} -> [s EXCEPT !.pos = p]
          [] OTHER -> s
  IN  IF p = Failed THEN [chain |-> c, ok |-> FALSE]
      ELSE [chain |-> [j \in 1..Len(c) |-> Moved(c[j])], ok |-> TRUE]

----------------------------------------------------------------------------
(* Creation.                                                               *)

Empty == chain = <<>>
Top == Len(chain)

Unread == [got |-> <<>>, whole |-> FALSE]
Unwritten == [base |-> <<>>, ops |-> <<>>]

\* History is kept as long as a property looks at it.
NothingRead == seen' = Unread
NothingWritten ==
  wrote' = IF chain' # <<>> /\ chain'[1].draft # <<>> THEN wrote ELSE Unwritten

Init ==
  /\ chain = <<>>
  /\ reply = [call |-> "none", arg |-> <<>>, r |-> 0, error |-> "ok"]
  /\ seen = Unread
  /\ wrote = Unwritten

Answer(call, arg, c, r) ==
  /\ chain' = c
  /\ reply' = [call |-> call, arg |-> arg, r |-> r, error |-> "ok"]

\* Mutant: the length is taken for where the range ends.
EndIsLength(data, start, len) ==
  LET hi == IF len < 0 THEN Len(data) ELSE Low(len, Len(data))
  IN  IF start > hi THEN <<>>
      ELSE <<NewSource("memory", SubSeq(data, start + 1, hi), Seekable \cup {"at_eof"})>>

\* The range is cut at the end of the data; nothing if it starts behind it.
MakeMemorySource(data, start, len) ==
  LET hi == IF len < 0 THEN Len(data) ELSE Low(start + len, Len(data))
  IN  IF start > hi THEN <<>>
      ELSE <<NewSource("memory", SubSeq(data, start + 1, hi), Seekable \cup {"at_eof"})>>

\* error is what the caller is told if there is no source.
Made(call, arg, c, error) ==
  /\ chain' = c
  /\ reply' = IF c = <<>> THEN [call |-> call, arg |-> arg, r |-> Failed, error |-> error]
              ELSE [call |-> call, arg |-> arg, r |-> 0, error |-> "ok"]
  /\ NothingRead
  /\ NothingWritten

CreateBuffer(f) ==
  /\ Empty
  /\ Made("buffer", <<f, 0, -1>>,
          <<NewSource("memory", f, Seekable \cup WriteMode \cup {"at_eof"})>>, "inval")

\* A fragment is the bytes it points to, or nothing and how many they are.
FragmentsUsable(frags) == \A k \in DOMAIN frags : frags[k].length > 0 => frags[k].data # <<>>

CreateFragments(frags) ==
  /\ Empty
  /\ LET data == FlattenSeq([k \in DOMAIN frags |-> frags[k].data])
     IN  Made("fragments", <<data, 0, -1>>,
              IF FragmentsUsable(frags) THEN MakeMemorySource(data, 0, -1) ELSE <<>>, "inval")

\* io is how getting at the file, the FILE* or the entry went.
Ranged(f, start, len, io) == IF io = "ok" THEN MakeMemorySource(f, start, len) ELSE <<>>

CreateFile(f, start, len, io) ==
  /\ Empty
  /\ Made("file", <<f, start, len>>, Ranged(f, start, len, io), "open")

\* The forms for Windows refuse a length below -2, and tell what failed.
CreateWin32(f, start, len, io) ==
  /\ Empty
  /\ Made("win32", <<f, start, len>>,
          IF len < -2 THEN <<>> ELSE Ranged(f, start, len, io),
          IF io # "ok" /\ len >= -2 THEN io ELSE "inval")

\* A HANDLE is read from where it is, unlike a FILE*, and closed.
CreateWin32Handle(f, at, start, len, io) ==
  /\ Empty
  /\ Made("win32", <<From(f, at), start, len>>,
          IF len < -2 THEN <<>> ELSE Ranged(From(f, at), start, len, io),
          IF io = "read" /\ len >= -2 THEN "read" ELSE "inval")

\* The error is the one the archive has, which this call has not set.
CreateZip(f, flags, start, len, io) ==
  /\ Empty
  /\ LET data == IF flags = "compressed" THEN Compressed(f) ELSE f
     IN  Made("zip", <<data, start, len>>, Ranged(data, start, len, io), "stale")

CreateFunction(f) ==
  /\ Empty
  /\ Made("function", <<f, 0, -1>>, <<NewSource("function", f, Seekable)>>, "inval")

\* The window drains the source and frees it, whether the range is there or
\* not; a source that cannot be read stays the caller's.
CreateWindow(ok) ==
  /\ ~Empty
  /\ LET open == Opening(chain, ok)
         all == Drained(open.chain, Top, ok)
     IN  IF ~open.ok \/ ~all.ok
         THEN /\ Answer("unread", <<>>, (IF open.ok THEN all ELSE open).chain, Failed)
              /\ NothingRead /\ NothingWritten
         ELSE /\ Len(all.got) =< MaxBytes
              /\ \E range \in Ranges :
                   Made("window", <<all.got, range[1], range[2]>>,
                        MakeMemorySource(all.got, range[1], range[2]), "inval")

NewLayer(kind, mask) == NewSource(kind, <<>>, mask)

\* A client gives a source to a layer when it has done writing to it.
LayeredCreate(kind) ==
  /\ ~Empty /\ ~chain[Top].writeOpen
  /\ Append([i \in 1..(Top - 1) |-> chain[i + 1].kind], kind) \in Layerings
  /\ LET below == QuerySupports(chain, Top)
         mask == LayerMask(kind, below[Top].supports) \ Writable
     IN  Made("layer", <<>>, Append(below, NewLayer(kind, mask)), "inval")

Free ==
  /\ ~Empty
  /\ Answer("free", <<>>, <<>>, 0)
  /\ NothingRead /\ NothingWritten

----------------------------------------------------------------------------
(* Reading.                                                                *)

\* Will what is read after an open be all there is?  A layer that is not a
\* compress layer starts where the source below is.
Whole(c) ==
  LET k == Answers(c, Len(c), {"compress"}) IN k = 1 \/ AtStart(c, k - 1)

Open(ok) ==
  /\ ~Empty
  /\ LET o == Opening(chain, ok)
     IN  /\ Answer("open", <<>>, o.chain, IF o.ok THEN 0 ELSE Failed)
         /\ seen' = [got |-> <<>>, whole |-> o.ok /\ Whole(chain)]
  /\ NothingWritten

Read(len, ok) ==
  /\ ~Empty
  /\ LET r == Reading(chain, Top, len, ok)
     IN  /\ Answer("read", <<>>, r.chain, IF r.ok THEN Len(r.got) ELSE Failed)
         /\ seen' = [seen EXCEPT !.got = IF seen.whole THEN @ \o r.got ELSE @]
  /\ NothingWritten

Seek(to, whence) ==
  /\ ~Empty
  /\ LET s == Seeking(chain, to, whence)
     IN  Answer("seek", <<>>, s.chain, IF s.ok THEN 0 ELSE Failed)
  /\ NothingRead /\ NothingWritten

\* The size that STAT tells, if it tells one; of a compress layer it is the
\* compressed size.  No layer asks the source below.
CrcStat(s) == IF s.crcComplete THEN <<s.size>> ELSE <<>>
CompressStat(s) == <<s.size>>

Stat(s) ==
  CASE s.kind = "memory" -> <<s.size>>
    [] s.kind = "crc" -> CrcStat(s)
    [] s.kind = "compress" -> CompressStat(s)
    [] OTHER -> <<>>

\* CLOSE, TELL, STAT and AT_EOF leave every source as it is.  A callback
\* without AT_EOF leaves the answer to the flag of the topmost source.
SourceAtEof ==
  LET at == AtEof(chain)
  IN  IF at = Failed THEN IF chain[Top].eof THEN 1 ELSE 0 ELSE at

\* zip_source_is_seekable and zip_source_is_deleted ask again what is supported.
AskSupports ==
  /\ ~Empty
  /\ Answer("supports", <<>>, QuerySupports(chain, Top), 0)
  /\ NothingWritten /\ UNCHANGED seen

----------------------------------------------------------------------------
(* Writing.                                                                *)

\* Mutant: a call that is refused ends the session.
RefuseEnds(call, error) ==
  /\ chain' = [chain EXCEPT ![Top].draft = <<>>, ![Top].writeOpen = FALSE]
  /\ reply' = [call |-> call, arg |-> <<>>, r |-> Failed, error |-> error]
  /\ NothingWritten /\ UNCHANGED seen

Refuse(call, error) ==
  /\ chain' = chain
  /\ reply' = [call |-> call, arg |-> <<>>, r |-> Failed, error |-> error]
  /\ NothingWritten /\ UNCHANGED seen

IsLayered == Top > 1
IsMemory == Top = 1 /\ chain[1].kind = "memory"
IsOpen == chain[Top].writeOpen

\* A callback that has no write session answers -1, and no error is set.
Unsupported(call) ==
  /\ Answer(call, <<>>, chain, Failed)
  /\ NothingWritten /\ UNCHANGED seen

Session(base) == <<[out |-> base, offset |-> Len(base)]>>

BeginWrite ==
  /\ ~Empty
  /\ \/ IsLayered /\ Refuse("begin_write", "opnotsupp")
     \/ ~IsLayered /\ IsOpen /\ Refuse("begin_write", "inval")
     \/ ~IsLayered /\ ~IsOpen /\ ~IsMemory /\ Unsupported("begin_write")
     \/ /\ IsMemory /\ ~IsOpen
        /\ Answer("begin_write", <<>>,
                  [chain EXCEPT ![1].draft = Session(<<>>), ![1].writeOpen = TRUE], 0)
        /\ wrote' = Unwritten
        /\ UNCHANGED seen

BeginWriteCloning(offset) ==
  /\ ~Empty
  /\ \/ IsLayered /\ Refuse("begin_write", "opnotsupp")
     \/ ~IsLayered /\ IsOpen /\ Refuse("begin_write", "inval")
     \/ ~IsLayered /\ ~IsOpen /\ ~IsMemory /\ Unsupported("begin_write")
     \/ IsMemory /\ ~IsOpen /\ offset > Len(chain[1].data) /\ Refuse("begin_write", "inval")
     \/ /\ IsMemory /\ ~IsOpen /\ offset =< Len(chain[1].data)
        /\ LET base == SubSeq(chain[1].data, 1, offset)
           IN  /\ Answer("begin_write", <<>>,
                         [chain EXCEPT ![1].draft = Session(base), ![1].writeOpen = TRUE], 0)
               /\ wrote' = [base |-> base, ops |-> <<>>]
        /\ UNCHANGED seen

\* Mutant: a write that does not reach the end cuts what is behind it.
WrittenAtCuts(out, offset, data) ==
  [p \in 1..(offset + Len(data)) |->
     IF p > offset THEN data[p - offset] ELSE IF p =< Len(out) THEN out[p] ELSE Zero]

\* The draft grows to where the write ends, with zeros where nothing was.
WrittenAt(out, offset, data) ==
  LET end == offset + Len(data)
      size == IF end > Len(out) THEN end ELSE Len(out)
  IN  [p \in 1..size |->
         IF p > offset /\ p =< end THEN data[p - offset]
         ELSE IF p =< Len(out) THEN out[p] ELSE Zero]

InSession(call, do) ==
  /\ ~Empty
  /\ \/ IsLayered /\ Refuse(call, "opnotsupp")
     \/ ~IsLayered /\ ~IsOpen /\ Refuse(call, "inval")
     \/ ~IsLayered /\ IsOpen /\ do

\* zip_source_write leaves it to write_open to refuse a layered source.
Write(data) ==
  /\ ~Empty
  /\ \/ ~IsOpen /\ Refuse("write", "inval")
     \/ /\ IsOpen /\ ~IsLayered
        /\ Len(wrote.ops) < MaxWrites
        /\ LET d == chain[1].draft[1]
           IN  /\ d.offset + Len(data) =< MaxBytes
               /\ Answer("write", <<>>,
                         [chain EXCEPT ![1].draft = <<[out |-> WrittenAt(d.out, d.offset, data),
                                                       offset |-> d.offset + Len(data)]>>],
                         Len(data))
               /\ wrote' = [wrote EXCEPT !.ops = Append(@, [at |-> d.offset, data |-> data])]
        /\ UNCHANGED seen

WriteTarget(d, to, whence) ==
  CASE whence = "set" -> to
    [] whence = "cur" -> d.offset + to
    [] whence = "end" -> Len(d.out) + to
    [] OTHER -> Failed

SeekWrite(to, whence) ==
  InSession("seek_write",
    LET t == WriteTarget(chain[1].draft[1], to, whence)
    IN  IF t < 0 THEN Refuse("seek_write", "inval")
        ELSE /\ t =< MaxBytes
             /\ Answer("seek_write", <<>>, [chain EXCEPT ![1].draft[1].offset = t], 0)
             /\ NothingWritten /\ UNCHANGED seen)

Committed(s) ==
  LET out == s.draft[1].out
  IN  [s EXCEPT !.data = out, !.pos = 0, !.size = Len(out), !.draft = <<>>]

CommitWrite ==
  InSession("commit_write",
    /\ Answer("commit_write", <<>>,
              [chain EXCEPT ![1] = [Committed(@) EXCEPT !.writeOpen = FALSE]], 0)
    /\ NothingRead /\ UNCHANGED wrote)

RollbackWrite ==
  /\ ~Empty
  /\ Answer("rollback_write", <<>>,
            IF IsLayered THEN chain
            ELSE [chain EXCEPT ![1].draft = <<>>, ![1].writeOpen = FALSE], 0)
  /\ NothingWritten /\ UNCHANGED seen

----------------------------------------------------------------------------
Next ==
  \/ \E f \in Files : CreateBuffer(f) \/ CreateFunction(f)
  \/ \E frags \in Fragments : CreateFragments(frags)
  \/ \E f \in Files, range \in Ranges, io \in {"ok", "open", "read"} :
       \/ CreateFile(f, range[1], range[2], io)
       \/ CreateWin32(f, range[1], range[2], io)
       \/ \E at \in 0..Len(f) : CreateWin32Handle(f, at, range[1], range[2], io)
       \/ \E flags \in {"compressed", "none"} : CreateZip(f, flags, range[1], range[2], io)
  \/ \E kind \in Kinds : LayeredCreate(kind)
  \/ Free
  \/ \E ok \in BOOLEAN : CreateWindow(ok) \/ Open(ok) \/ \E len \in ReadSizes : Read(len, ok)
  \/ \E t \in Targets : Seek(t[1], t[2]) \/ SeekWrite(t[1], t[2])
  \/ AskSupports
  \/ BeginWrite \/ \E n \in 0..MaxBytes : BeginWriteCloning(n)
  \/ \E data \in WriteData : Write(data)
  \/ CommitWrite \/ RollbackWrite

Spec == Init /\ [][Next]_vars

----------------------------------------------------------------------------
(* Properties.                                                             *)

\* What a source delivers from its first byte to its last.
Content(c, i) ==
  LET content[n \in 0..Len(c)] ==
        IF n = 0 THEN <<>>
        ELSE CASE c[n].kind \in {"crc", "pass"} -> content[n - 1]
               [] c[n].kind = "compress" -> Compressed(content[n - 1])
               [] OTHER -> c[n].data
  IN  content[i]

CrcLayers == {i \in DOMAIN chain : chain[i].kind = "crc"}

CrcIsComplete(i) ==
  chain[i].crcComplete =>
    /\ chain[i].hashed = Content(chain, i - 1)
    /\ Stat(chain[i]) = <<Len(chain[i].hashed)>>

\* zip_source_crc: however the layer is read and seeked, what it has hashed is
\* a prefix of the source below, its position is where that source is, and
\* once it tells a CRC and a size they are those of the whole content -- if it
\* was opened while the source below was at its start.
CrcCoversContent ==
  \A i \in CrcLayers : chain[i].from = "start" =>
    /\ IsPrefix(chain[i].hashed, Content(chain, i - 1))
    /\ chain[i].pos = Tell(chain, i - 1)
    /\ CrcIsComplete(i)

Bare == ~Empty /\ chain[1].kind = "memory" /\ \A i \in 1..Top : chain[i].kind # "compress"

\* A source that is opened and read to the end delivers all of its content, in
\* order, through all its layers, and nothing else; and AT_EOF of a memory
\* source, also under layers that do not change the bytes, tells its end.
DeliveredInOrder ==
  /\ seen.whole =>
       /\ IsPrefix(seen.got, Content(chain, Top))
       /\ reply.call = "read" /\ reply.r = 0 => seen.got = Content(chain, Top)
  /\ Bare => (SourceAtEof = 1 <=> Reading(chain, Top, 1, TRUE).got = <<>>)

\* The bytes a session was asked for: at each place those of the last write
\* there, else of the prefix that was cloned, else zero.
Asked(w) ==
  LET Ends == {Len(w.base)} \cup {o.at + Len(o.data) : o \in Range(w.ops)}
      Hit(p) == {k \in DOMAIN w.ops :
                   p > w.ops[k].at /\ p =< w.ops[k].at + Len(w.ops[k].data)}
      Latest(p) == CHOOSE k \in Hit(p) : \A j \in Hit(p) : j =< k
  IN  [p \in 1..(CHOOSE e \in Ends : \A o \in Ends : o =< e) |->
         IF Hit(p) # {} THEN w.ops[Latest(p)].data[p - w.ops[Latest(p)].at]
         ELSE IF p =< Len(w.base) THEN w.base[p] ELSE Zero]

\* A write session holds what it was asked to write, whatever seeks and gaps
\* came in between, and a commit publishes that and its size.
DraftIsWritten ==
  ~Empty =>
    /\ IsOpen => chain[1].draft[1].out = Asked(wrote)
    /\ reply.call = "commit_write" /\ reply.r = 0 =>
         chain[1].data = Asked(wrote) /\ Stat(chain[1]) = <<Len(Asked(wrote))>>

\* A source made over a range has the bytes of the range that there are, and
\* a window fails only over a range that starts behind the end.
SourceIsRange ==
  reply.arg # <<>> =>
    LET data == reply.arg[1]
        start == reply.arg[2]
        len == reply.arg[3]
        Within == {p \in DOMAIN data : p > start /\ (len >= 0 => p =< start + len)}
    IN  IF reply.r = Failed
        THEN reply.error = "inval" /\ reply.call = "window" => start > Len(data)
        ELSE /\ DOMAIN chain[1].data = {p - start : p \in Within}
             /\ \A p \in Within : chain[1].data[p - start] = data[p]
             /\ reply.call # "function" => Stat(chain[1]) = <<Len(chain[1].data)>>

\* A call that fails leaves all sources of the chain, their positions and the
\* write session as they were; only opening, which may have drained some, and
\* a window do not.
FailuresAreQuiet ==
  [][reply'.r = Failed /\ reply'.call \notin {"open", "unread"} /\ reply'.arg = <<>>
       => chain' = chain]_vars

=============================================================================
