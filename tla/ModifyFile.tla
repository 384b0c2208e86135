----------------------------- MODULE ModifyFile -----------------------------
(***************************************************************************)
(* modify_archive_file of zip-core: the tail of an archive, its central    *)
(* directory and end records, is written over the old tail, piece by       *)
(* piece, and the file is then cut.  Whoever reads the file, now or after  *)
(* a restart, goes by read_central_dir.                                    *)
(*                                                                         *)
(* A file is a sequence of cells: a fixed-size record is one cell, a name  *)
(* or a comment one cell for each character.  Writes tear between cells.   *)
(***************************************************************************)
EXTENDS Integers, Sequences, FiniteSetsExt, SequencesExt

CONSTANTS
  Plain,        \* the cells that are no record
  Data,         \* the cells before the directory
  Names,        \* names of entries: sequences of characters
  Unsafe,       \* the names that parse_central rejects
  Archives,     \* the directories of the files there are at first
  Junk,         \* what may follow an archive in its file
  Renames,      \* the lists of renames a caller passes
  Deletes,      \* the sets of indices a caller passes
  CountLimit,   \* 0xFFFF
  FieldLimit,   \* 0xFFFFFFFF
  MaxCdSize,
  MaxCdBuffer,
  MaxCalls      \* bound: calls of modify_archive_file

ASSUME LimitAssumption ==
  /\ CountLimit \in Nat /\ MaxCalls \in Nat /\ MaxCdBuffer \in Nat
  /\ FieldLimit \in Nat /\ MaxCdSize \in Nat /\ MaxCdSize < FieldLimit
\* No member, name or comment that there is at first holds a record.
ASSUME PlainAssumption ==
  /\ \A c \in Plain : c.kind \notin {"head", "end64", "locator", "end"}
  /\ Data \in Seq(Plain) /\ Junk \subseteq Seq(Plain) /\ Names \subseteq Seq(Plain)
  /\ Archives \subseteq [entries : Seq([at : Nat, name : Names]), comment : Seq(Plain),
                         isZip64 : BOOLEAN, offset : Nat]
  /\ Renames \subseteq Seq([index : Nat, name : Names])
\* What a reader reads takes in any comment and the two records before it.
ASSUME CommentAssumption ==
  \A cd \in Archives : Len(cd.comment) + 2 =< MaxCdBuffer

VARIABLES
  file,
  modify,    \* the call under way
  goal,      \* history: the entries the latest call is to leave
  returned,  \* what the latest call returned
  calls

vars == <<file, modify, goal, returned, calls>>

----------------------------------------------------------------------------
(* Writing a directory.                                                    *)

FixedPart(e) == [kind |-> "head", at |-> e.at, nameLen |-> Len(e.name)]
End64(n, size, offset) == [kind |-> "end64", count |-> n, size |-> size, offset |-> offset]
Locator(offset) == [kind |-> "locator", end64 |-> offset]
End(n, size, offset, comment) ==
  [kind |-> "end", count |-> n, size |-> size, offset |-> offset, commentLen |-> Len(comment)]

Record(e) == <<FixedPart(e)>> \o e.name
Directory(entries) == FlattenSeq([k \in DOMAIN entries |-> Record(entries[k])])

\* need_zip64; no entry's own sizes and offset overflow.
NeedZip64(cd) ==
  \/ cd.isZip64
  \/ Len(cd.entries) > CountLimit
  \/ Len(Directory(cd.entries)) > FieldLimit
  \/ cd.offset > FieldLimit

Serialize(cd) ==
  LET n == Len(cd.entries)
      size == Len(Directory(cd.entries))
  IN  Directory(cd.entries)
        \o (IF NeedZip64(cd)
            THEN <<End64(n, size, cd.offset), Locator(cd.offset + size),
                   End(CountLimit, FieldLimit, FieldLimit, cd.comment)>>
            ELSE <<End(n, size, cd.offset, cd.comment)>>)
        \o cd.comment

----------------------------------------------------------------------------
(* Reading it.  A parse finds a directory, fails, or passes to the end     *)
(* record before.                                                          *)

CentralDir(entries, comment, isZip64, offset, size) ==
  [found |-> TRUE, entries |-> entries, comment |-> comment, isZip64 |-> isZip64,
   offset |-> offset, size |-> size]
Failed == [found |-> FALSE, passed |-> FALSE]
Passed == [found |-> FALSE, passed |-> TRUE]

\* The entry at position i of buf, if parse_central takes it.
NameAt(buf, i) == SubSeq(buf, i + 1, i + buf[i].nameLen)
Parses(buf, i) ==
  /\ i =< Len(buf)
  /\ buf[i].kind = "head"
  /\ i + buf[i].nameLen =< Len(buf)
  /\ NameAt(buf, i) \notin Unsafe

ParseEntries(buf) ==
  LET from[i \in 1 .. Len(buf) + 1] ==
        IF Parses(buf, i)
        THEN <<[at |-> buf[i].at, name |-> NameAt(buf, i)]>> \o from[i + 1 + buf[i].nameLen]
        ELSE <<>>
  IN  from[1]

\* A count may have wrapped.
CountValid(parsed, n) == parsed = n \/ parsed % (CountLimit + 1) = n

ReadEntries(f, offset, size, n, comment, isZip64) ==
  LET entries == ParseEntries(SubSeq(f, offset + 1, offset + size))
  IN  IF size > MaxCdSize \/ (size > 0 /\ offset + size > Len(f)) \/ ~CountValid(Len(entries), n)
      THEN Failed
      ELSE CentralDir(entries, comment, isZip64, offset, size)

TailStart(f) == Len(f) - Min({Len(f), MaxCdBuffer})

\* Whether the end record at i has a locator before it, in the part of the file
\* that was read, and the record this locates.
HasLocator(f, i) == i - 1 > TailStart(f) /\ f[i - 1].kind = "locator"
Located(f, i) == f[i - 1].end64 + 1
HasEnd64(f, i) ==
  /\ HasLocator(f, i)
  /\ Located(f, i) =< Len(f)
  /\ f[Located(f, i)].kind = "end64"

\* Mutant: no size and no entries are enough for an empty archive.
IsEmptyAnywhere(r, n) == r.size = 0 /\ n = 0

IsEmpty(r, n) == r.size = 0 /\ r.offset = 0 /\ n = 0

TryParseCdir(f, i) ==
  LET comment == SubSeq(f, i + 1, i + f[i].commentLen)
      r == IF HasEnd64(f, i) THEN f[Located(f, i)] ELSE f[i]
      n == IF f[i].count = CountLimit THEN r.count ELSE f[i].count
  IN  IF i + f[i].commentLen > Len(f)
      THEN Passed
      ELSE IF IsEmpty(r, n)
           THEN CentralDir(<<>>, comment, HasLocator(f, i), 0, 0)
           ELSE ReadEntries(f, r.offset, r.size, n, comment, HasLocator(f, i))

\* The last end record that does not pass.
ReadCentralDir(f) ==
  LET candidates ==
        {i \in TailStart(f) + 1 .. Len(f) : f[i].kind = "end" /\ TryParseCdir(f, i) # Passed}
  IN  IF candidates = {} THEN Failed ELSE TryParseCdir(f, Max(candidates))

----------------------------------------------------------------------------
(* Editing the directory.                                                  *)

\* One rename after the other; one that is out of range does nothing.
Renamed(entries, renames) ==
  LET after[n \in 0 .. Len(renames)] ==
        IF n = 0 THEN entries
        ELSE LET es == after[n - 1]
                 r == renames[n]
             IN  IF r.index < Len(es) THEN [es EXCEPT ![r.index + 1].name = r.name] ELSE es
  IN  after[Len(renames)]

RemoveIndex(es, d) == IF d < Len(es) THEN RemoveAt(es, d + 1) ELSE es

\* Mutant: the lowest index first.
RemainingAscending(entries, deletes) ==
  LET after[n \in 0 .. Len(entries)] ==
        IF n = 0 THEN entries
        ELSE IF n - 1 \in deletes THEN RemoveIndex(after[n - 1], n - 1) ELSE after[n - 1]
  IN  after[Len(entries)]

\* The highest index first; one that is out of range does nothing.
Remaining(entries, deletes) ==
  LET d(n) == Len(entries) - n
      after[n \in 0 .. Len(entries)] ==
        IF n = 0 THEN entries
        ELSE IF d(n) \in deletes THEN RemoveIndex(after[n - 1], d(n)) ELSE after[n - 1]
  IN  after[Len(entries)]

\* Mutant: deletions first, so that renames meet other entries.
EditedDeletesFirst(entries, renames, deletes) ==
  Renamed(Remaining(entries, deletes), renames)

Edited(entries, renames, deletes) == Remaining(Renamed(entries, renames), deletes)

\* What the caller asked for: the latest rename of each entry, the entries that
\* are not deleted, in their order.
Asked(entries, renames, deletes) ==
  LET of(i) == {j \in DOMAIN renames : renames[j].index + 1 = i}
      name(i) == IF of(i) = {} THEN entries[i].name ELSE renames[Max(of(i))].name
      kept == {i \in DOMAIN entries : i - 1 \notin deletes}
  IN  [k \in 1 .. Cardinality(kept) |->
         LET i == CHOOSE j \in kept : Cardinality({h \in kept : h =< j}) = k
         IN  [entries[i] EXCEPT !.name = name(i)]]

----------------------------------------------------------------------------
(* The call.                                                               *)

Idle == [busy |-> FALSE, offset |-> 0, tail |-> <<>>, written |-> 0]

Init ==
  /\ \E cd \in Archives, j \in Junk :
       file = Data \o Serialize([cd EXCEPT !.offset = Len(Data)]) \o j
  /\ modify = Idle
  /\ goal = <<>>
  /\ returned = "none"
  /\ calls = 0

\* Everything up to the first write.  A call whose parse fails changes nothing.
ModifyArchiveFile(renames, deletes) ==
  LET cd == ReadCentralDir(file)
  IN  /\ ~modify.busy /\ calls < MaxCalls
      /\ cd.found
      /\ cd.offset + cd.size =< Len(file)
      /\ modify' = [busy |-> TRUE, offset |-> cd.offset, written |-> 0,
                    tail |-> Serialize([cd EXCEPT !.entries = Edited(@, renames, deletes)])]
      /\ goal' = Asked(cd.entries, renames, deletes)
      /\ returned' = "none"
      /\ calls' = calls + 1
      /\ UNCHANGED file

AllWritten == modify.busy /\ modify.written = Len(modify.tail)

\* write_all gets on by a cell.
WriteAll ==
  LET p == modify.offset + modify.written + 1
  IN  /\ modify.busy /\ modify.written < Len(modify.tail)
      /\ file' = [i \in 1 .. Max({Len(file), p}) |->
                    IF i = p THEN modify.tail[modify.written + 1] ELSE file[i]]
      /\ modify' = [modify EXCEPT !.written = @ + 1]
      /\ UNCHANGED <<goal, returned, calls>>

SetLen ==
  /\ AllWritten
  /\ file' = SubSeq(file, 1, modify.offset + Len(modify.tail))
  /\ modify' = Idle
  /\ returned' = "ok"
  /\ UNCHANGED <<goal, calls>>

\* A seek, a write or set_len fails, or the process dies.
Stop ==
  /\ modify.busy
  /\ modify' = Idle
  /\ returned' = "error"
  /\ UNCHANGED <<file, goal, calls>>

Next ==
  \/ \E renames \in Renames, deletes \in Deletes : ModifyArchiveFile(renames, deletes)
  \/ WriteAll
  \/ SetLen
  \/ Stop

Spec == Init /\ [][Next]_vars

----------------------------------------------------------------------------
(* Properties.                                                             *)

\* The members are never touched: through any number of calls, stopped
\* anywhere, and of calls upon what those have left.
DataUntouched ==
  /\ Len(file) >= Len(Data)
  /\ \A i \in 1 .. Len(Data) : file[i] = Data[i]

\* A call that succeeds leaves an archive with the entries asked for: what one
\* call serializes the next reader parses, ZIP64 or not.
SuccessIsEdited ==
  returned = "ok" =>
    /\ ReadCentralDir(file).found
    /\ ReadCentralDir(file).entries = goal

\* Once everything is written, whoever reads the file before it is cut sees the
\* new directory or an error, not the old one and no mixture: the end record
\* that is still left behind the new tail counts other entries, or as many.
WrittenIsNewOrError ==
  AllWritten /\ ReadCentralDir(file).found => ReadCentralDir(file).entries = goal

=============================================================================
