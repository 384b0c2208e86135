---------------------------- MODULE ArchiveReader ----------------------------
(***************************************************************************)
(* The read path of zip_core (archive.rs, source.rs, crypto.rs, codec.rs)  *)
(* over an archive that ArchiveWriter has written: the archive is opened   *)
(* from one of the sources that there are, and several threads open its    *)
(* entries and read them at the same time.                                 *)
(*                                                                         *)
(* What the readers share is one file handle with a remembered position,   *)
(* the pool of decode buffers, the cache of data offsets and the default   *)
(* password.  A step holds at most one of their locks.                     *)
(***************************************************************************)
EXTENDS ArchiveWriter, DosTime

CONSTANTS
  Threads,       \* the threads that read
  SourceKinds,   \* among "mmap", "file", "cursor", "arc"
  Passwords,     \* the passwords clients use
  FastMax,       \* ZERO_COPY_FAST_MAX_UNCOMP
  PoolCapacity,  \* BUFFER_POOL_CAPACITY
  ReadSize,      \* the length of the buffer clients and decoders read into
  MaxOpens,      \* bound: entries opened in all
  MaxFaults      \* bound: failing seeks and reads of the file

ASSUME PoolAssumption == PoolCapacity \in Nat
ASSUME ReadSizeAssumption == ReadSize \in Nat \ {0}

VARIABLES
  opened,    \* the Archive: its source, its entries, or why it did not open
  starts,    \* Dirent::data_offset, the cached place of an entry's data
  handle,    \* SharedFileState: where the file stands, what is remembered
  pool,      \* the buffers in the BufferPool, with what they last held
  password,  \* the default password
  readers,   \* what each thread does
  opens, faults

sharedVars == <<starts, handle, pool, password>>
readVars == <<opened, starts, handle, pool, password, readers, opens, faults>>
vars == <<job, slots, archive, readVars>>

Unknown == -1   \* the sentinel u64::MAX of last_pos

Idle == [phase |-> "idle"]

ReadInit ==
  /\ opened = None
  /\ starts = <<>>
  /\ handle = [at |-> 0, last |-> Unknown]
  /\ pool = <<>>
  /\ password = None
  /\ readers = [t \in Threads |-> Idle]
  /\ opens = 0 /\ faults = 0

\* Archive::open.  A file is mapped when it can be; else all readers share
\* one handle, which stands wherever reading the directory has left it.
OpenArchive ==
  /\ archive # None /\ archive.error = "none" /\ opened = None
  /\ LET cd == read_central_dir(archive.cells)
     IN  \E kind \in SourceKinds :
           /\ opened' = [cd |-> cd, kind |-> kind]
           /\ starts' = IF cd.error = "none" THEN [i \in DOMAIN cd.entries |-> None]
                        ELSE <<>>
           /\ handle' = [at |-> Len(archive.cells), last |-> Unknown]
  /\ slots' = <<>>
  /\ UNCHANGED <<job, archive, pool, password, readers, opens, faults>>

Entries == opened.cd.entries
IsOpen == opened # None /\ opened.cd.error = "none"

SetDefaultPassword(pw) ==
  /\ IsOpen
  /\ password' = pw
  /\ UNCHANGED <<writerVars, opened, starts, handle, pool, readers, opens, faults>>

----------------------------------------------------------------------------
(* Sources.                                                                *)

OnFile == opened.kind = "file"

\* Whole buffers: Source::as_slice, and Source::shared_data.
HasSlice == opened.kind \in {"mmap", "cursor", "arc"}
HasShared == opened.kind \in {"mmap", "arc"}

\* SharedFile::read seeks unless the file stands where this reader is; no
\* reader is at the sentinel.
\* Mutants: it never does, and it remembers a seek before it is done.
NoSeek(pos) == handle.at
ReadFrom(pos) ==
  IF handle.last = Unknown \/ handle.last # pos THEN pos ELSE handle.at

HandleAfter(pos, n) == [at |-> ReadFrom(pos) + n, last |-> pos + n]

\* A read fails with its seek, or after it.
SeekRemembered(pos) == [handle EXCEPT !.last = pos]
HandleAfterSeekFails(pos) == handle
HandleAfterReadFails(pos) == HandleAfter(pos, 0)

\* Where a read at pos reads, and how many of at most m cells it may return: a
\* file may return fewer than there are.
Place(pos) == IF OnFile THEN ReadFrom(pos) ELSE pos

Most(pos, m) ==
  LET rest == Len(archive.cells) - Place(pos)
  IN  IF m < rest THEN m ELSE IF rest > 0 THEN rest ELSE 0

Lengths(pos, m) ==
  IF OnFile /\ Most(pos, m) > 0 THEN 1..Most(pos, m) ELSE {Most(pos, m)}

Cells(pos, n) == Piece(archive.cells, Place(pos), n)

\* Thread t becomes r after a read of n at pos.
Reads(t, pos, n, r) ==
  /\ readers' = [readers EXCEPT ![t] = r]
  /\ handle' = IF OnFile THEN HandleAfter(pos, n) ELSE handle
  /\ UNCHANGED <<writerVars, opened, starts, pool, password, opens, faults>>

\* The thread alone changes.
Becomes(t, r) ==
  /\ readers' = [readers EXCEPT ![t] = r]
  /\ UNCHANGED <<writerVars, opened, sharedVars, opens, faults>>

\* The call that opens fails, and so does a read.
Fails(r, code) ==
  [phase |-> "failed", entry |-> r.entry, pw |-> r.pw, raw |-> r.raw, error |-> code]
Breaks(r, code) ==
  [x \in DOMAIN r \cup {"error"} |->
     IF x = "error" THEN code ELSE IF x = "phase" THEN "failed" ELSE r[x]]

Reader(t) == readers[t]
In(t, phase) == readers[t].phase = phase
Dirent(t) == Entries[readers[t].entry]

----------------------------------------------------------------------------
(* Opening an entry.                                                       *)

Encrypts(d) == "encrypted" \in d.flags

\* open_entry, or read_compressed_entry when raw, which refuses what is larger
\* than a directory may be before it looks at the file.  A cached data offset
\* saves the local header; the raw read does not use it.
OverLimit(d) == d.comp > MaxCdSize

OpenEntry(t, i, pw, raw) ==
  /\ IsOpen /\ In(t, "idle") /\ opens < MaxOpens
  /\ (Encrypts(Entries[i]) /\ ~raw) \/ pw = None
  /\ LET cached == starts[i] # None /\ ~raw
         r == [phase |-> IF cached THEN "start" ELSE "header", entry |-> i, pw |-> pw,
               raw |-> raw, pos |-> IF cached THEN starts[i] ELSE Entries[i].offset]
     IN  readers' = [readers EXCEPT ![t] =
           IF raw /\ OverLimit(Entries[i]) THEN Fails(r, "central_dir_too_large") ELSE r]
  /\ opens' = opens + 1
  /\ UNCHANGED <<writerVars, opened, sharedVars, faults>>

\* local_header_len: the fixed header, and over what follows it.
ReadHeader(t) ==
  /\ In(t, "header")
  /\ LET r == Reader(t) IN
     \E n \in Lengths(r.pos, 1) :
       LET cells == Cells(r.pos, n) IN
       Reads(t, r.pos, n,
         IF cells = <<>> THEN Fails(r, "eof")
         ELSE IF cells[1][1] # "local" THEN Fails(r, "nozip")
         ELSE [phase |-> IF r.raw THEN "region" ELSE "cache", entry |-> r.entry,
               pw |-> r.pw, raw |-> r.raw, got |-> <<>>,
               pos |-> r.pos + n + cells[1][2].nameLen + cells[1][2].extraLen])

\* Dirent::data_offset remembers it under its own lock.
CacheStart(t) ==
  /\ In(t, "cache")
  /\ starts' = [starts EXCEPT ![Reader(t).entry] = Reader(t).pos]
  /\ readers' = [readers EXCEPT ![t].phase = "start"]
  /\ UNCHANGED <<writerVars, opened, handle, pool, password, opens, faults>>

\* What an EntryReader starts with.
Reading(r, phase, src) ==
  [phase |-> phase, entry |-> r.entry, pw |-> r.pw, raw |-> FALSE,
   pos |-> r.pos, src |-> src, out |-> <<>>]

Decodable == {"store", "deflate", "bzip2"}

Fast(d) ==
  /\ ~Encrypts(d) /\ d.method \in Decodable
  /\ d.uncomp =< FastMax

\* EntryReader::from_shared: a stored entry read where it lies.
OpenShared(t) ==
  /\ In(t, "start")
  /\ Fast(Dirent(t)) /\ Dirent(t).method = "store" /\ HasShared
  /\ LET r == Reader(t) IN
     Becomes(t, Reading(r, "buffered",
       [data |-> Plain(Piece(archive.cells, r.pos, Dirent(t).comp)), pooled |-> FALSE]))

\* The newest buffer of the pool, or a fresh one.
Acquire(t) ==
  /\ In(t, "start")
  /\ Fast(Dirent(t)) /\ HasSlice /\ ~(Dirent(t).method = "store" /\ HasShared)
  /\ LET r == Reader(t) IN
     readers' = [readers EXCEPT ![t] =
       [phase |-> "decode", entry |-> r.entry, pw |-> r.pw, raw |-> FALSE,
        pos |-> r.pos, buffer |-> IF pool = <<>> THEN <<>> ELSE Last(pool)]]
  /\ pool' = IF pool = <<>> THEN pool ELSE Front(pool)
  /\ UNCHANGED <<writerVars, opened, starts, handle, password, opens, faults>>

\* A decoder makes bytes of whole cells; of others it makes an error, while
\* stored ones are what they are.
Decodes(cells, method) ==
  method = "store" \/ \A k \in DOMAIN cells : cells[k][1] = "deflated"

Decoded(cells, method) ==
  FlattenSeq([k \in DOMAIN cells |->
     CASE cells[k][1] = "deflated" /\ method = "deflate" -> cells[k][2]
       [] cells[k][1] = "byte" -> <<cells[k][2]>>
       [] OTHER -> <<"garbage">>])

\* decode_slice_into clears the buffer before it appends; the mutant does not.
NotCleared(buffer) == buffer
Cleared(buffer) == <<>>

DecodeSlice(t) ==
  /\ In(t, "decode")
  /\ LET r == Reader(t)
         d == Dirent(t)
         slice == Piece(archive.cells, r.pos, d.comp)
     IN  Becomes(t, IF Decodes(slice, d.method)
           THEN Reading(r, "buffered",
                  [data |-> Cleared(r.buffer) \o Decoded(slice, d.method),
                   pooled |-> TRUE])
           ELSE Fails(r, "compressed_data"))

----------------------------------------------------------------------------
(* Decryption.                                                             *)

\* ZipCrypto: the key stream depends on the password and on all the bytes
\* decrypted before; after one wrong byte nothing decrypts any more.
StartKeys(pw) == [pw |-> pw, done |-> 0, lost |-> FALSE]

decrypts(keys, cell) ==
  /\ ~keys.lost /\ cell[1] = "crypt"
  /\ cell[2] = keys.pw /\ cell[3] = keys.done + 1

\* DecryptingSource::read decrypts what it has read.
Decrypted(keys, cells) ==
  LET good == \A k \in DOMAIN cells :
                decrypts([keys EXCEPT !.done = @ + k - 1], cells[k])
  IN  [cells |-> IF good THEN [k \in DOMAIN cells |-> cells[k][4]]
                 ELSE [k \in DOMAIN cells |-> <<"noise">>],
       keys |-> [keys EXCEPT !.done = @ + Len(cells), !.lost = @ \/ ~good]]

aes_decrypt_data(pw, em, region) ==
  IF Len(region) < 3 THEN Error("truncated_zip")
  ELSE
    LET salt == region[1][3]
        cipher == SubSeq(region, 3, Len(region) - 1)
    IN  IF region[2] # <<"verify", CheckOf(pw), salt>> THEN Error("wrong_passwd")
        ELSE IF region[Len(region)] # <<"hmac", pw, salt, cipher>> THEN Error("crc")
        ELSE [error |-> "none", cells |-> [k \in DOMAIN cipher |-> cipher[k][5]]]

\* The password given with the call, else the default.
Password(t) == IF Reader(t).pw # None THEN Reader(t).pw ELSE password

\* The cipher is looked at before the password.
OpenEncrypted(t) ==
  /\ In(t, "start") /\ Encrypts(Dirent(t))
  /\ LET r == Reader(t)
         d == Dirent(t)
     IN  Becomes(t,
           IF d.em \notin AesMethods \cup {"trad"} THEN Fails(r, "encr_not_supp")
           ELSE IF Password(t) = None THEN Fails(r, "no_passwd")
           ELSE IF d.em \in AesMethods /\ OverLimit(d)
           THEN Fails(r, "central_dir_too_large")
           ELSE [phase |-> IF d.em = "trad" THEN "check" ELSE "region",
                 entry |-> r.entry, pw |-> Password(t), raw |-> FALSE,
                 pos |-> r.pos, got |-> <<>>])

\* The encryption header; its last byte tells most wrong passwords.
CheckHeader(t) ==
  /\ In(t, "check")
  /\ LET r == Reader(t)
         d == Dirent(t)
     IN  \E n \in Lengths(r.pos, 1) :
           LET cells == Cells(r.pos, n) IN
           Reads(t, r.pos, n,
             IF cells = <<>> THEN Fails(r, "eof")
             ELSE IF cells[1][1] # "header" \/ CheckOf(r.pw) # CheckOf(cells[1][2])
                       \/ cells[1][3] # d.crc
             THEN Fails(r, "wrong_passwd")
             ELSE IF d.comp < 1 THEN Fails(r, "truncated_zip")
             ELSE IF d.method \notin Decodable THEN Fails(r, "comp_not_supp")
             ELSE Reading([r EXCEPT !.pos = r.pos + 1], "streaming",
                    [left |-> d.comp - 1, keys |-> <<[StartKeys(r.pw) EXCEPT
                       !.lost = r.pw # cells[1][2]]>>]))

\* read_exact of a whole region: raw, or of an AES entry, whose plain cells
\* are then read from memory.
ReadRegion(t) ==
  /\ In(t, "region") /\ Len(Reader(t).got) < Dirent(t).comp
  /\ LET r == Reader(t) IN
     \E n \in Lengths(r.pos, Dirent(t).comp - Len(r.got)) :
       Reads(t, r.pos, n,
         IF n = 0 THEN Fails(r, "eof")
         ELSE [r EXCEPT !.got = r.got \o Cells(r.pos, n), !.pos = r.pos + n])

UseRegion(t) ==
  /\ In(t, "region") /\ Len(Reader(t).got) = Dirent(t).comp
  /\ LET r == Reader(t)
         d == Dirent(t)
         plain == aes_decrypt_data(r.pw, d.em, r.got)
     IN  Becomes(t,
           IF r.raw THEN [Reading(r, "ended", <<>>) EXCEPT !.out = r.got, !.raw = TRUE]
           ELSE IF plain.error # "none" THEN Fails(r, plain.error)
           ELSE IF d.method \notin Decodable THEN Fails(r, "comp_not_supp")
           ELSE Reading(r, "memory", [cells |-> plain.cells]))

----------------------------------------------------------------------------
(* EntryReader::read.                                                      *)

\* verify: the size, and the checksum of the bytes where there is one.
Verified(d, out) == Len(out) = d.uncomp /\ (d.crcValid => out = d.crc)

End(t, r) ==
  IF Verified(Dirent(t), r.out) THEN [r EXCEPT !.phase = "ended"]
  ELSE Breaks(r, "crc")

Deliver(t, r, cells) ==
  IF Decodes(cells, Dirent(t).method)
  THEN [r EXCEPT !.out = r.out \o Decoded(cells, Dirent(t).method)]
  ELSE Breaks(r, "compressed_data")

\* Inner::Streaming without a cipher, and Inner::Streaming over Cursor.
OpenStream(t) ==
  /\ In(t, "start") /\ ~Encrypts(Dirent(t))
  /\ ~(Fast(Dirent(t)) /\ HasSlice)
  /\ LET r == Reader(t) IN
     Becomes(t,
       IF Dirent(t).method \notin Decodable
       THEN Fails(r, "comp_not_supp")
       ELSE Reading(r, "streaming", [left |-> Dirent(t).comp, keys |-> <<>>]))

\* The decoder takes no more than the entry's compressed data.
ReadStream(t) ==
  /\ In(t, "streaming") /\ Reader(t).src.left > 0
  /\ LET r == Reader(t)
         m == IF ReadSize < r.src.left THEN ReadSize ELSE r.src.left
     IN  \E n \in Lengths(r.pos, m) :
           LET cells == Cells(r.pos, n)
               s == IF r.src.keys = <<>> THEN [cells |-> cells]
                    ELSE Decrypted(r.src.keys[1], cells)
               keys == IF r.src.keys = <<>> THEN <<>> ELSE <<s.keys>>
               on == [r EXCEPT !.pos = r.pos + n,
                               !.src = [left |-> r.src.left - n, keys |-> keys]]
           IN  Reads(t, r.pos, n,
                 IF n = 0 THEN End(t, r) ELSE Deliver(t, on, s.cells))

EndStream(t) ==
  /\ In(t, "streaming") /\ Reader(t).src.left = 0
  /\ Becomes(t, End(t, Reader(t)))

ReadMemory(t) ==
  /\ In(t, "memory")
  /\ LET r == Deliver(t, Reader(t), Reader(t).src.cells)
     IN  Becomes(t, IF r.phase = "failed" THEN r ELSE End(t, r))

\* Inner::Buffered and Inner::Shared.
ReadBuffered(t) ==
  /\ In(t, "buffered")
  /\ LET r == Reader(t)
         rest == SubSeq(r.src.data, Len(r.out) + 1, Len(r.src.data))
         n == IF ReadSize < Len(rest) THEN ReadSize ELSE Len(rest)
     IN  Becomes(t, IF n = 0 THEN End(t, r)
                    ELSE [r EXCEPT !.out = r.out \o SubSeq(rest, 1, n)])

\* Dropping a reader at any time returns its buffer to a pool with room.
Releases(r) ==
  "src" \in DOMAIN r /\ "pooled" \in DOMAIN r.src /\ r.src.pooled

\* Mutant: one too many.
ReleasedOver(r) ==
  IF Releases(r) /\ Len(pool) =< PoolCapacity THEN Append(pool, r.src.data) ELSE pool

Released(r) ==
  IF Releases(r) /\ Len(pool) < PoolCapacity THEN Append(pool, r.src.data) ELSE pool

Drop(t) ==
  /\ readers[t].phase \in {"buffered", "streaming", "memory", "ended", "failed"}
  /\ pool' = Released(Reader(t))
  /\ readers' = [readers EXCEPT ![t] = Idle]
  /\ UNCHANGED <<writerVars, opened, starts, handle, password, opens, faults>>

\* The file's own errors, at any read through the shared handle.
FileFails(t) ==
  /\ OnFile /\ faults < MaxFaults
  /\ readers[t].phase \in {"header", "check", "region", "streaming"}
  /\ LET r == Reader(t) IN
     /\ \/ handle.last # r.pos /\ handle' = HandleAfterSeekFails(r.pos)
        \/ handle' = HandleAfterReadFails(r.pos)
     /\ readers' = [readers EXCEPT ![t] = Breaks(r, "read")]
  /\ faults' = faults + 1
  /\ UNCHANGED <<writerVars, opened, starts, pool, password, opens>>

Step(t) ==
  \/ ReadHeader(t) \/ CacheStart(t)
  \/ OpenShared(t) \/ Acquire(t) \/ DecodeSlice(t)
  \/ OpenEncrypted(t) \/ CheckHeader(t) \/ ReadRegion(t) \/ UseRegion(t)
  \/ OpenStream(t) \/ ReadStream(t) \/ EndStream(t)
  \/ ReadMemory(t) \/ ReadBuffered(t)
  \/ FileFails(t) \/ Drop(t)

Init == WriterInit /\ ReadInit

ReadNext ==
  \/ OpenArchive
  \/ \E pw \in Passwords : SetDefaultPassword(pw)
  \/ IsOpen /\ \E t \in Threads :
       \/ \E i \in DOMAIN Entries, pw \in Passwords \cup {None}, raw \in BOOLEAN :
            OpenEntry(t, i, pw, raw)
       \/ Step(t)

Next == (WriterNext /\ UNCHANGED readVars) \/ ReadNext

Spec == Init /\ [][Next]_vars

----------------------------------------------------------------------------
(* Properties.                                                             *)

\* Archive::stat.
Stat(d) ==
  [size |-> d.uncomp, comp |-> d.comp, mtime |-> dos_to_unix(d.stamp),
   method |-> d.method, em |-> d.em, crc |-> d.crc, valid |-> d.crcValid]

File(i) == job.files[i]
Compressed(i) == SerialResult[i].cf

StoredSize(i) ==
  Len(Compressed(i).data)
    + (CASE Methods[i] = "none" -> 0 [] Methods[i] = "trad" -> 1 [] OTHER -> 3)

\* The place of the i-th local header.
Headers == {at \in 0..Len(archive.cells) - 1 : Tag(archive.cells, at) = "local"}
Start(i) == CHOOSE at \in Headers : Cardinality({h \in Headers : h < at}) = i - 1

\* A field that is exactly the sentinel, in a record with a ZIP64 field for
\* another: the reader takes it for one that is in that field too, and
\* WrittenArchivesOpen fails.
AtTheSentinel(i) ==
  LET fields == {Len(File(i).data), StoredSize(i), Start(i)}
  IN  Max32 \in fields /\ \E n \in fields : n > Max32

\* From the first central record to the records that end the archive.
DirectoryAt ==
  LET At(tags) == {at \in 0..Len(archive.cells) - 1 : Tag(archive.cells, at) \in tags}
  IN  Min(At({"central", "eocd", "eocd64"}))..Min(At({"eocd", "eocd64"})) - 1

DirectorySize == Cardinality(DirectoryAt)

\* What no archive that can be read has, and the writer does not check: the
\* length of a name or of the archive comment, names that the reader refuses,
\* the size of the directory.
WithinLimits ==
  /\ \A i \in DOMAIN job.files :
       Len(File(i).name) =< Max16 /\ ~Traverses(File(i).name)
  /\ Len(Comment) =< Max16
  /\ DirectorySize =< MaxCdSize

Reopens == WithinLimits /\ \A i \in DOMAIN job.files : ~AtTheSentinel(i)

\* write_archive: "The produced bytes can be re-read with Archive::open", if
\* its limits are kept.
WrittenArchivesOpen == opened # None /\ WithinLimits => IsOpen

\* The central record tells what was given to the writer and where it is.  Of
\* a time that no clock shows, nothing is asked: dos_to_unix does not normalize
\* those as its comment says.
TellsTheFile(d, i) ==
  LET valid == Methods[i] \notin AesMethods IN
  /\ d.name = File(i).name /\ d.comment = File(i).comment
  /\ d.attrs = File(i).attrs /\ d.offset = Start(i)
  /\ Without(d.extra, {"aes", "zip64"}) = UserFields(Compressed(i))
  /\ InClock(File(i).stamp) => Stat(d).mtime = Mktime(File(i).stamp)
  /\ Stat(d) = [size |-> Len(File(i).data), comp |-> StoredSize(i),
                mtime |-> Stat(d).mtime,
                method |-> Compressed(i).method, em |-> Methods[i],
                crc |-> IF valid THEN File(i).data ELSE <<>>, valid |-> valid]

\* The local header says the same.  With one size over the limit both of its
\* sizes are sentinels, and its ZIP64 field holds that one alone.
LocalAgrees(d, i) ==
  (d.comp > Max32 <=> d.uncomp > Max32) =>
    LET l == parse_local(archive.cells, Start(i)) IN
    /\ l.error = "none"
    /\ l.name = d.name /\ l.method = d.method /\ l.em = d.em
    /\ l.comp = d.comp /\ l.uncomp = d.uncomp
    /\ l.data + d.comp =< Len(archive.cells)

\* Dirent::to_central_record: "the output is byte-identical to the record this
\* entry was parsed from".
RecordsAreKept ==
  FlattenSeq([i \in DOMAIN Entries |-> to_central_record(Entries[i]).cells])
    = IF Entries = <<>> THEN <<>>
      ELSE Piece(archive.cells, Min(DirectoryAt), DirectorySize)

\* An archive that was written opens, unless a field is just at the sentinel,
\* and tells of each file what was given to the writer, whatever counts, sizes
\* and offsets exceed their fields; and its entries are written again as they
\* were.
DirectoryReadsBack ==
  opened # None /\ Reopens =>
    /\ IsOpen /\ Len(Entries) = Len(job.files) /\ opened.cd.comment = Comment
    /\ \A i \in DOMAIN Entries :
         TellsTheFile(Entries[i], i) /\ LocalAgrees(Entries[i], i)
    /\ RecordsAreKept

\* The plain compressed cells of an entry's data region.
Opened(i, region) ==
  CASE Methods[i] = "none" -> region
    [] Methods[i] = "trad" ->
         Decrypted(StartKeys(job.pw), Tail(region)).cells
    [] OTHER -> aes_decrypt_data(job.pw, Methods[i], region).cells

RightPassword(r) == Methods[r.entry] = "none" \/ r.pw = job.pw

\* Why a read of an intact entry may fail.  What a raw read returns, and an AES
\* entry, is held in memory as a whole and its size limited as that of a
\* directory.
Excused(r) ==
  \/ r.error = "read" /\ faults > 0
  \/ r.error = "no_passwd" /\ r.pw = None /\ Methods[r.entry] # "none"
  \/ r.error \in {"wrong_passwd", "crc", "compressed_data"} /\ ~RightPassword(r)
  \/ /\ r.error = "central_dir_too_large" /\ StoredSize(r.entry) > MaxCdSize
     /\ r.raw \/ Methods[r.entry] \in AesMethods

\* However the readers' steps fall between each other, whatever the source
\* and whatever a recycled buffer held: each reader gets the bytes of its own
\* entry, to the end the whole of them, and fails only for a password, an error
\* of the file, or as an AES entry or a raw read over the limit that these two
\* have.  Nothing can tell that an empty entry was read with a
\* wrong password.
ReadBack ==
  IsOpen /\ Reopens => \A t \in Threads :
    LET r == readers[t] IN
    /\ r.phase = "ended" =>
         IF r.raw THEN Opened(r.entry, r.out) = Compressed(r.entry).data
         ELSE /\ r.out = File(r.entry).data
              /\ RightPassword(r) \/ r.out = <<>>
    /\ r.phase \in {"streaming", "buffered", "memory"} /\ RightPassword(r) =>
         IsPrefix(r.out, File(r.entry).data)
    /\ r.phase = "failed" => Excused(r)

\* What the readers share is sound after every step, also a failing one: a
\* remembered position is where the file stands, and the pool keeps to its
\* capacity.
SharedIsSound ==
  /\ handle.last # Unknown => handle.last = handle.at
  /\ Len(pool) =< PoolCapacity

=============================================================================
