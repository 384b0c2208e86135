----------------------------- MODULE ZipHandle -----------------------------
(***************************************************************************)
(* One zip_t handle of the C ABI (crates/zip-sys/src/lib.rs) over one file *)
(* on disk.  Every editing call only stages an operation in PendingOps;    *)
(* the getters read overlays that the setters keep beside it; zip_close    *)
(* materialises the staged operations over the archive read at open time   *)
(* and rewrites the file.  Calls are atomic here: the interleaving of two  *)
(* threads inside a call is the subject of another module.                 *)
(*                                                                         *)
(* Logical indices are those of the API: 0 .. N-1 are the entries read at  *)
(* open time, N, N+1, ... the entries staged by zip_file_add/zip_dir_add.  *)
(***************************************************************************)
EXTENDS Integers, Sequences, FiniteSets, SequencesExt

CONSTANTS
  Names,         \* entry names
  DirNames,      \* the names that end in "/"
  Contents,      \* entry payloads that decode and pass their checks
  Corrupt,       \* the payload of an entry whose data does not
  EmptyContent,  \* the payload of a directory
  Comments,      \* non-empty comments
  Unshowable,    \* the comments with a NUL inside
  Mtimes,        \* arguments of zip_file_set_mtime, seconds from the DOS epoch
  DosTimes,      \* arguments of zip_file_set_dostime, the same instants
  Attrs,         \* external attributes
  DefaultAttrs,  \* the attributes of an entry that never had any set
  Passwords,     \* passwords
  None,          \* no comment, no password, no file
  Unset,         \* no staged value
  Damaged,       \* a file that holds a proper prefix of an archive
  MaxEntries,    \* bound on the logical indices of a session
  MaxStaged,     \* bound on the operations staged at one time
  MaxSessions,   \* bound on the handles opened, one after the other
  Modes,         \* the flags the client opens with, a set of sets of flags
  Calls,         \* the API calls the client makes
  InitialFiles   \* what the path may hold at first

ASSUME BoundsAreNatural ==
  MaxEntries \in Nat /\ MaxStaged \in Nat /\ MaxSessions \in Nat
ASSUME PayloadsAreDistinct ==
  EmptyContent \in Contents /\ Corrupt \notin Contents
ASSUME ModesAreFlags == Modes \subseteq SUBSET {"CREATE", "TRUNCATE", "RDONLY"}
ASSUME SubsetsOfData == Unshowable \subseteq Comments /\ DirNames \subseteq Names
ASSUME TimesAreSeconds == Mtimes \subseteq Nat /\ DosTimes \subseteq Nat
ASSUME SentinelsAreApart ==
  /\ DefaultAttrs \in Attrs
  /\ None \notin Comments \cup Passwords
  /\ Unset \notin Comments \cup Mtimes \cup DosTimes \cup Attrs \cup {None}
  /\ Unset \notin {"none", "encrypted", "default", "store", "deflate"}

VARIABLES
  file,      \* what the path holds
  zip,       \* the fields of Zip fixed by make_zip
  pending,   \* PendingOps
  overlay,   \* the comments the getters return
  chAfl,     \* Zip.ch_afl, the live archive flags
  password,  \* Zip.password and the archive's default password
  cancelCb,  \* whether a cancel callback is registered
  err,       \* the code in Zip.error
  ret,       \* what the last zip_close returned, "none" after zip_discard
  sessions   \* the handles opened so far

vars == <<file, zip, pending, overlay, chAfl, password, cancelCb, err, ret,
          sessions>>

----------------------------------------------------------------------------
(* Archives, the staged operations and the overlays.                       *)

Entry == [name : Names, data : Contents \cup {Corrupt},
          comment : Comments \cup {None}, time : Nat, attrs : Attrs,
          comp : {"store", "deflate"}, enc : Passwords \cup {None}]

Archive == [entries : Seq(Entry), comment : Comments \cup {None}]
EmptyArchive == [entries |-> <<>>, comment |-> None]

ASSUME FilesAreArchives ==
  \A f \in InitialFiles :
    f = None \/ f = Damaged \/ (f \in Archive /\ Len(f.entries) =< MaxEntries)
ASSUME NoFileIsNotAnArchive == None \notin Archive /\ Damaged \notin Archive

OpenFlags == {"CREATE", "TRUNCATE", "RDONLY"}

\* Indices a staged operation may be keyed by, and the ones a caller may pass.
Index == 0 .. (MaxEntries - 1)
Arg == 0 .. MaxEntries

\* The per-index lists that hold at most one pair per index, because their
\* setters drop the older pair before they push: a partial map each.
MetaKind == {"encryption", "comment", "mtime", "dostime", "attrs", "compression"}
MetaValue(kind) ==
  CASE kind = "encryption"  -> {"none", "encrypted"}
    [] kind = "comment"     -> Comments \cup {None}
    [] kind = "mtime"       -> Mtimes
    [] kind = "dostime"     -> DosTimes
    [] kind = "attrs"       -> Attrs
    [] kind = "compression" -> {"default", "store", "deflate"}

\* Renames and replaces are pushed without dropping the older ones; the order
\* between different indices is never looked at, so each index has a list.
PendingAdd == [name : Names, data : Contents]
NoPending ==
  [adds     |-> <<>>,
   deletes  |-> {},
   renames  |-> [i \in Index |-> <<>>],
   replaces |-> [i \in Index |-> <<>>],
   meta     |-> [kind \in MetaKind |-> [i \in Index |-> Unset]],
   archiveComment |-> Unset]

\* CString::new(c).ok(), the string zip_file_get_comment returns.
CStr(c) == IF c \in Unshowable THEN None ELSE c

OverlayOf(a) ==
  [comments |-> [i \in Index |-> IF i < Len(a.entries)
                                 THEN CStr(a.entries[i + 1].comment) ELSE None],
   archiveComment |-> a.comment]

N == Len(zip.archive.entries)
Logical == N + Len(pending.adds)
ReadOnly == "RDONLY" \in zip.flags
Afl(flags) == flags \cap {"RDONLY"}

\* Archive::name_locate looks among the entries read at open time only.
Located(n) == {i \in 0 .. (N - 1) : zip.archive.entries[i + 1].name = n}
NameLocate(n) == CHOOSE i \in Located(n) : \A j \in Located(n) : i =< j

----------------------------------------------------------------------------
(* What zip_close would write for each logical index.                      *)

\* unix_to_dos of an instant that DOS time has: its resolution is two seconds.
UnixToDos(t) == t - (t % 2)

\* The entry a staged operation applies to: read at open time or added.
Base(i) ==
  IF i < N
  THEN zip.archive.entries[i + 1]
  ELSE [name |-> pending.adds[i - N + 1].name,
        data |-> pending.adds[i - N + 1].data,
        comment |-> None, time |-> 0, attrs |-> DefaultAttrs,
        comp |-> "deflate", enc |-> None]

\* The list's `find`: of several renames of one entry the oldest counts.
FirstOr(list, original) == IF list = <<>> THEN original ELSE Head(list)
Staged(kind, i) == pending.meta[kind][i]
StagedOr(kind, i, original) ==
  IF Staged(kind, i) = Unset THEN original ELSE Staged(kind, i)

EffectiveTime(i) ==
  IF Staged("mtime", i) # Unset
  THEN UnixToDos(Staged("mtime", i))
  ELSE StagedOr("dostime", i, Base(i).time)

\* Method and encryption of the entry on disk are not carried over.
Effective(i) ==
  [name    |-> FirstOr(pending.renames[i], Base(i).name),
   data    |-> FirstOr(pending.replaces[i], Base(i).data),
   comment |-> StagedOr("comment", i, Base(i).comment),
   time    |-> EffectiveTime(i),
   attrs   |-> StagedOr("attrs", i, Base(i).attrs),
   comp    |-> IF Staged("compression", i) \in {"store", "deflate"}
               THEN Staged("compression", i) ELSE "deflate",
   enc     |-> StagedOr("encryption", i, "none")]

Slot(i) == [live |-> i \notin pending.deletes, entry |-> Effective(i)]
View == [k \in 1 .. Logical |-> Slot(k - 1)]

EffectiveArchiveComment ==
  IF pending.archiveComment = Unset
  THEN zip.archive.comment ELSE pending.archiveComment

\* The loop of materialize: one pass over the logical indices, pushing the
\* files that are not deleted.
Pushed(files, slot) == IF slot.live THEN Append(files, slot.entry) ELSE files
Files(slots) ==
  LET upTo[k \in 0 .. Len(slots)] ==
        IF k = 0 THEN <<>> ELSE Pushed(upTo[k - 1], slots[k])
  IN  upTo[Len(slots)]

Encoded(entry, pw) ==
  [entry EXCEPT !.enc = IF @ = "encrypted" THEN pw ELSE None]
Written(slots, comment, pw) ==
  [entries |-> [k \in 1 .. Len(Files(slots)) |-> Encoded(Files(slots)[k], pw)],
   comment |-> comment]

----------------------------------------------------------------------------
(* Opening.                                                                *)

StartSession(archive, flags, existed, path) ==
  /\ zip' = [open |-> TRUE, archive |-> archive, flags |-> flags,
             existed |-> existed, path |-> path]
  /\ pending' = NoPending
  /\ overlay' = OverlayOf(archive)
  /\ chAfl' = Afl(flags)
  /\ password' = None
  /\ cancelCb' = FALSE
  /\ err' = "OK"
  /\ ret' = "none"
  /\ sessions < MaxSessions
  /\ sessions' = sessions + 1
  /\ UNCHANGED file

NoSession ==
  [open |-> FALSE, archive |-> EmptyArchive, flags |-> {}, existed |-> FALSE,
   path |-> FALSE]

Init ==
  /\ file \in InitialFiles
  /\ zip = NoSession
  /\ pending = NoPending
  /\ overlay = OverlayOf(EmptyArchive)
  /\ chAfl = {}
  /\ password = None
  /\ cancelCb = FALSE
  /\ err = "OK"
  /\ ret = "none"
  /\ sessions = 0

\* zip_open; a call that fails leaves nothing behind.
ZipOpen(flags) ==
  /\ "open" \in Calls
  /\ ~zip.open
  /\ file = None => "CREATE" \in flags
  /\ IF file # None /\ "TRUNCATE" \notin flags
     THEN file # Damaged /\ StartSession(file, flags, TRUE, TRUE)
     ELSE StartSession(EmptyArchive, flags, file # None, TRUE)

\* zip_fdopen and zip_open_from_source: a handle without a path, over a copy
\* of the archive's bytes.  Only the source variant accepts ZIP_TRUNCATE.
ZipOpenPathless(flags) ==
  /\ "open_pathless" \in Calls
  /\ ~zip.open
  /\ file # None
  /\ IF "TRUNCATE" \in flags
     THEN StartSession(EmptyArchive, flags, TRUE, FALSE)
     ELSE file # Damaged /\ StartSession(file, flags, TRUE, FALSE)

----------------------------------------------------------------------------
(* Editing calls.                                                          *)

Calling(call) == call \in Calls /\ zip.open

\* A call that returns -1 sets the error and changes nothing else.
Reject(code) ==
  /\ err' = code
  /\ UNCHANGED <<file, zip, pending, overlay, chAfl, password, cancelCb, ret,
                 sessions>>

\* The number of operations staged, which a run bounds.
PerIndex(lists) == UNION {{i} \X DOMAIN lists[i] : i \in Index}
CountStaged(p) ==
  Cardinality(p.deletes) + Cardinality(PerIndex(p.renames))
    + Cardinality(PerIndex(p.replaces))
    + Cardinality({m \in MetaKind \X Index : p.meta[m[1]][m[2]] # Unset})
Room == CountStaged(pending) < MaxStaged

\* A call that succeeds leaves the error of an earlier one in place.
Stage(staged) ==
  /\ Room
  /\ pending' = staged
  /\ UNCHANGED <<file, zip, overlay, chAfl, password, cancelCb, err, ret,
                 sessions>>

\* check_writable, then the check of the arguments: a NULL or non-UTF-8 one is
\* rejected as an index out of range is.
Refused(valid) ==
  \/ ReadOnly /\ Reject("RDONLY")
  \/ ~ReadOnly /\ ~valid /\ Reject("INVAL")

\* Mutants: setters that forget check_writable, setters that forget the index.
AcceptedReadOnly(valid) == valid
AcceptedUnchecked(valid) == ~ReadOnly
Accepted(valid) == ~ReadOnly /\ valid

WithAdd(n, d) ==
  [pending EXCEPT !.adds = Append(@, [name |-> n, data |-> d])]
WithReplace(i, d) == [pending EXCEPT !.replaces[i] = Append(@, d)]
WithMeta(kind, i, v) == [pending EXCEPT !.meta[kind][i] = v]

\* zip_file_add of a source that holds d, flag ZIP_FL_OVERWRITE or not.  The
\* name is looked up among the entries on disk, not among the staged ones.
ZipFileAdd(n, d, overwrite) ==
  /\ Calling("file_add")
  /\ \/ Refused(FALSE)
     \/ /\ Accepted(TRUE)
        /\ Located(n) # {}
        /\ IF overwrite
           THEN Stage(WithReplace(NameLocate(n), d))
           ELSE Reject("EXISTS")
     \/ /\ Accepted(TRUE)
        /\ Located(n) = {}
        /\ Logical < MaxEntries
        /\ Stage(WithAdd(n, d))

\* zip_dir_add, once the "/" is appended to the name.
ZipDirAdd(n) ==
  /\ Calling("dir_add")
  /\ \/ Refused(FALSE)
     \/ Accepted(TRUE) /\ Located(n) # {} /\ Reject("EXISTS")
     \/ /\ Accepted(TRUE)
        /\ Located(n) = {}
        /\ Logical < MaxEntries
        /\ Stage(WithAdd(n, EmptyContent))

\* zip_delete, zip_rename and zip_file_replace take only entries on disk.
ZipDelete(i) ==
  /\ Calling("delete")
  /\ \/ Refused(i < N)
     \/ /\ Accepted(i < N)
        /\ Stage([pending EXCEPT !.deletes = @ \cup {i}])

ZipRename(i, n) ==
  /\ Calling("rename")
  /\ \/ Refused(i < N)
     \/ /\ Accepted(i < N)
        /\ Stage([pending EXCEPT !.renames[i] = Append(@, n)])

ZipFileReplace(i, d) ==
  /\ Calling("file_replace")
  /\ \/ Refused(i < N)
     \/ /\ Accepted(i < N)
        /\ Stage(WithReplace(i, d))

\* zip_file_add or zip_file_replace of a source whose data cannot be read.
ZipSourceUnreadable ==
  /\ Calling("source_error")
  /\ ~ReadOnly
  /\ Reject("READ")

\* The setters that keep one pair per index: zip_file_set_encryption,
\* zip_file_set_mtime, zip_file_set_dostime, zip_file_set_external_attributes
\* and zip_set_file_compression.
ZipSetMeta(kind, i, v) ==
  /\ Calling(kind)
  /\ kind # "comment"
  /\ \/ Refused(i < Logical)
     \/ /\ Accepted(i < Logical)
        /\ Stage(WithMeta(kind, i, v))

\* A method zip_file_set_encryption or zip_set_file_compression does not know.
ZipSetMethodUnsupported(kind, i) ==
  /\ Calling(kind)
  /\ kind \in {"encryption", "compression"}
  /\ Accepted(i < Logical)
  /\ Reject(IF kind = "encryption" THEN "ENCRNOTSUPP" ELSE "COMPNOTSUPP")

\* zip_file_set_comment and zip_set_file_comment: the staged comment and the
\* overlay that zip_file_get_comment reads.
ZipFileSetComment(i, c) ==
  /\ Calling("comment")
  /\ \/ Refused(i < Logical)
     \/ /\ Accepted(i < Logical)
        /\ Room
        /\ pending' = WithMeta("comment", i, c)
        /\ overlay' = [overlay EXCEPT !.comments[i] = CStr(c)]
        /\ UNCHANGED <<file, zip, chAfl, password, cancelCb, err, ret, sessions>>

ZipSetArchiveComment(c) ==
  /\ Calling("archive_comment")
  /\ \/ Refused(FALSE)
     \/ /\ Accepted(TRUE)
        /\ pending' = [pending EXCEPT !.archiveComment = c]
        /\ overlay' = [overlay EXCEPT !.archiveComment = c]
        /\ UNCHANGED <<file, zip, chAfl, password, cancelCb, err, ret, sessions>>

\* zip_set_archive_flag.
ZipSetArchiveFlag(flag, on) ==
  LET new == IF on THEN chAfl \cup {flag} ELSE chAfl \ {flag}
  IN  /\ Calling("archive_flag")
      /\ \/ flag = "IS_TORRENTZIP" /\ Reject("INVAL")
         \/ /\ flag # "IS_TORRENTZIP" /\ new # chAfl
            /\ "RDONLY" \in Afl(zip.flags)
            /\ Reject("RDONLY")
         \/ /\ flag # "IS_TORRENTZIP" /\ new # chAfl
            /\ "RDONLY" \notin Afl(zip.flags)
            /\ IF flag = "RDONLY" /\ on /\ pending # NoPending
               THEN Reject("CHANGED")
               ELSE /\ chAfl' = new
                    /\ UNCHANGED <<file, zip, pending, overlay, password,
                                   cancelCb, err, ret, sessions>>

\* zip_set_default_password, NULL as None; a read-only handle takes it too.
ZipSetDefaultPassword(pw) ==
  /\ Calling("password")
  /\ \/ pw = None /\ Reject("INVAL")
     \/ /\ pw # None
        /\ password' = pw
        /\ UNCHANGED <<file, zip, pending, overlay, chAfl, cancelCb, err, ret,
                       sessions>>

\* zip_register_cancel_callback_with_state; NULL unregisters.
ZipRegisterCancelCallback(on) ==
  /\ Calling("cancel")
  /\ cancelCb' = on
  /\ UNCHANGED <<file, zip, pending, overlay, chAfl, password, err, ret,
                 sessions>>

----------------------------------------------------------------------------
(* Reverting.                                                              *)

\* Mutant: the encryption outlives the entry.
WithoutMetaButEncryption(meta, i) ==
  [kind \in MetaKind |-> IF kind = "encryption" THEN meta[kind]
                         ELSE [meta[kind] EXCEPT ![i] = Unset]]
WithoutMeta(meta, i) == [kind \in MetaKind |-> [meta[kind] EXCEPT ![i] = Unset]]

\* Mutant: reverting any entry takes the additions away.
UnchangedAndAdds(i) ==
  [adds     |-> <<>>,
   deletes  |-> pending.deletes \ {i},
   renames  |-> [pending.renames EXCEPT ![i] = <<>>],
   replaces |-> [pending.replaces EXCEPT ![i] = <<>>],
   meta     |-> WithoutMeta(pending.meta, i),
   archiveComment |-> pending.archiveComment]

\* unchange_entry: drops every operation keyed by i and, if i is an added
\* entry, the addition; the operations keyed by later indices stay as they are.
Unchanged(i) ==
  [adds     |-> IF i < N THEN pending.adds ELSE RemoveAt(pending.adds, i - N + 1),
   deletes  |-> pending.deletes \ {i},
   renames  |-> [pending.renames EXCEPT ![i] = <<>>],
   replaces |-> [pending.replaces EXCEPT ![i] = <<>>],
   meta     |-> WithoutMeta(pending.meta, i),
   archiveComment |-> pending.archiveComment]

\* zip_unchange is allowed on a read-only handle.
ZipUnchange(i) ==
  /\ Calling("unchange")
  /\ IF i < Logical
     THEN /\ pending' = Unchanged(i)
          /\ UNCHANGED <<file, zip, overlay, chAfl, password, cancelCb, err,
                         ret, sessions>>
     ELSE Reject("INVAL")

\* zip_unchange_all and zip_unchange_archive are allowed there as well.
ZipUnchangeAll ==
  /\ Calling("unchange_all")
  /\ pending' = NoPending
  /\ chAfl' = Afl(zip.flags)
  /\ overlay' = [overlay EXCEPT !.archiveComment = zip.archive.comment]
  /\ UNCHANGED <<file, zip, password, cancelCb, err, ret, sessions>>

\* Both restore the overlay of the archive comment, neither those of entries.
\* Mutant: zip_unchange_archive without reset_archive_comment_overlay.
ZipUnchangeArchiveOnly ==
  /\ Calling("unchange_archive")
  /\ pending' = [pending EXCEPT !.archiveComment = Unset]
  /\ chAfl' = Afl(zip.flags)
  /\ UNCHANGED <<file, zip, overlay, password, cancelCb, err, ret, sessions>>

ZipUnchangeArchive ==
  /\ Calling("unchange_archive")
  /\ pending' = [pending EXCEPT !.archiveComment = Unset]
  /\ chAfl' = Afl(zip.flags)
  /\ overlay' = [overlay EXCEPT !.archiveComment = zip.archive.comment]
  /\ UNCHANGED <<file, zip, password, cancelCb, err, ret, sessions>>

----------------------------------------------------------------------------
(* Closing.  The handle is freed whatever the outcome.                     *)

FreeHandle(report) ==
  /\ zip' = NoSession
  /\ pending' = NoPending
  /\ overlay' = OverlayOf(EmptyArchive)
  /\ chAfl' = {}
  /\ password' = None
  /\ cancelCb' = FALSE
  /\ err' = "OK"
  /\ ret' = report
  /\ UNCHANGED sessions

ShouldWrite ==
  \/ pending # NoPending
  \/ ~zip.existed /\ "CREATE" \in zip.flags

\* materialize reads every kept entry whose data is not replaced, under the
\* password the handle has, and needs one for the entries it is to encrypt.
Readable(i) ==
  /\ Base(i).data # Corrupt
  /\ Base(i).enc \in {None, password}

\* Mutant: an entry to encrypt is written without asking for the password.
MaterializesInClear ==
  \A i \in 0 .. (N - 1) :
    i \notin pending.deletes /\ pending.replaces[i] = <<>> => Readable(i)
Materializes ==
  /\ \A i \in 0 .. (N - 1) :
       i \notin pending.deletes /\ pending.replaces[i] = <<>> => Readable(i)
  /\ \A k \in DOMAIN View :
       View[k].live /\ View[k].entry.enc = "encrypted" => password # None
Materialized == Written(View, EffectiveArchiveComment, password)

ZipCloseUnwritten ==
  /\ zip.open
  /\ ~ShouldWrite
  /\ FreeHandle("ok")
  /\ UNCHANGED file

ZipCloseWritten ==
  /\ zip.open
  /\ ShouldWrite
  /\ Materializes
  /\ zip.path
  /\ file' = Materialized
  /\ FreeHandle("ok")

\* An unreadable entry, no password, a cancel callback that answers non-zero,
\* or a handle without a path: nothing is written.
ZipCloseFailed ==
  /\ zip.open
  /\ ShouldWrite
  /\ ~Materializes \/ cancelCb \/ ~zip.path
  /\ FreeHandle("failed")
  /\ UNCHANGED file

\* fs::write opens with truncation and then writes: when it fails the file is
\* as it was, or holds a part of the new bytes.
ZipCloseWriteError ==
  /\ "write_error" \in Calls
  /\ zip.open
  /\ ShouldWrite
  /\ Materializes
  /\ zip.path
  /\ file' \in {file, Damaged}
  /\ FreeHandle("failed")

ZipDiscard ==
  /\ Calling("discard")
  /\ FreeHandle("none")
  /\ UNCHANGED file

----------------------------------------------------------------------------

OtherCalls ==
  \/ \E flags \in Modes : ZipOpen(flags)
  \/ \E flags \in Modes : ZipOpenPathless(flags \ {"CREATE"})
  \/ \E n \in Names, d \in Contents, o \in BOOLEAN : ZipFileAdd(n, d, o)
  \/ \E n \in DirNames : ZipDirAdd(n)
  \/ \E i \in Arg : ZipDelete(i)
  \/ \E i \in Arg, n \in Names : ZipRename(i, n)
  \/ \E i \in Arg, d \in Contents : ZipFileReplace(i, d)
  \/ ZipSourceUnreadable
  \/ \E kind \in MetaKind : \E i \in Arg, v \in MetaValue(kind) :
       ZipSetMeta(kind, i, v)
  \/ \E kind \in MetaKind, i \in Arg : ZipSetMethodUnsupported(kind, i)
  \/ \E i \in Arg, c \in Comments \cup {None} : ZipFileSetComment(i, c)
  \/ \E c \in Comments \cup {None} : ZipSetArchiveComment(c)
  \/ \E flag \in {"RDONLY", "WANT_TORRENTZIP", "IS_TORRENTZIP"} :
       \E on \in BOOLEAN : ZipSetArchiveFlag(flag, on)
  \/ \E pw \in Passwords \cup {None} : ZipSetDefaultPassword(pw)
  \/ \E on \in BOOLEAN : ZipRegisterCancelCallback(on)
  \/ ZipUnchangeAll
  \/ ZipUnchangeArchive
  \/ ZipCloseUnwritten
  \/ ZipCloseWritten
  \/ ZipCloseFailed
  \/ ZipCloseWriteError
  \/ ZipDiscard

Next == OtherCalls \/ \E i \in Arg : ZipUnchange(i)

Spec == Init /\ [][Next]_vars

----------------------------------------------------------------------------
(* Clients for whom staging is the same as editing at once.                *)

StagesNothing(i) == \A kind \in MetaKind : Staged(kind, i) = Unset

\* Such a client reverts an added entry only when nothing is staged for a
\* later one; renames or replaces an entry, and sets its time in one of the
\* two forms, once between reverts; and does not truncate a file that exists
\* only to close it again.
CarefulUnchange(i) ==
  /\ ZipUnchange(i)
  /\ i >= N => \A j \in Index : j > i => StagesNothing(j)

OneChangeEach ==
  \A i \in Index :
    /\ Len(pending.renames[i]) =< 1
    /\ Len(pending.replaces[i]) =< 1
    /\ Staged("mtime", i) = Unset \/ Staged("dostime", i) = Unset

IdleTruncation ==
  ZipCloseUnwritten /\ zip.existed /\ zip.path /\ "TRUNCATE" \in zip.flags

CarefulNext ==
  /\ OtherCalls \/ \E i \in Arg : CarefulUnchange(i)
  /\ OneChangeEach'
  /\ ~IdleTruncation

CarefulSpec == Init /\ [][CarefulNext]_vars

\* For these clients the handle implements ArchiveEdit: what zip_close writes
\* is the archive the client's calls describe, in order, and a close that
\* reports success without writing had nothing to write.
Eager == INSTANCE ArchiveEdit WITH
  Times   <- {UnixToDos(t) : t \in Mtimes} \cup DosTimes,
  session <- [open |-> zip.open, base |-> zip.archive, writable |-> ~ReadOnly,
              path |-> zip.path, password |-> password],
  view    <- [slots |-> View, comment |-> EffectiveArchiveComment],
  outcome <- ret
ImplementsEdit == Eager!EditSpec

----------------------------------------------------------------------------
(* Properties.                                                             *)

PendingType(p) ==
  /\ p \in [adds     : Seq(PendingAdd),
            deletes  : SUBSET (0 .. (N - 1)),
            renames  : [Index -> Seq(Names)],
            replaces : [Index -> Seq(Contents)],
            meta     : {p.meta},
            archiveComment : Comments \cup {None, Unset}]
  /\ p.meta = [kind \in MetaKind |-> p.meta[kind]]
  /\ \A kind \in MetaKind :
       p.meta[kind] \in [Index -> MetaValue(kind) \cup {Unset}]

ErrorCodes == {"OK", "RDONLY", "INVAL", "EXISTS", "READ", "CHANGED",
               "ENCRNOTSUPP", "COMPNOTSUPP"}

\* The types of the variables, and the bound on a session's logical indices.
TypeOK ==
  /\ file \in Archive \cup {None, Damaged}
  /\ file \in Archive => Len(file.entries) =< MaxEntries
  /\ zip \in [open : BOOLEAN, archive : Archive, flags : SUBSET OpenFlags,
              existed : BOOLEAN, path : BOOLEAN]
  /\ PendingType(pending)
  /\ Logical =< MaxEntries
  /\ overlay \in [comments : [Index -> Comments \cup {None}],
                  archiveComment : Comments \cup {None}]
  /\ chAfl \in SUBSET {"RDONLY", "WANT_TORRENTZIP"}
  /\ password \in Passwords \cup {None}
  /\ cancelCb \in BOOLEAN
  /\ err \in ErrorCodes
  /\ ret \in {"none", "ok", "failed"}
  /\ sessions \in 0 .. MaxSessions

\* A file that existed is never changed by a session opened ZIP_RDONLY,
\* whatever is called on it: every editing call, the archive-flag call that
\* could drop the read-only flag and the reverting calls included.
ReadOnlyNeverRewrites ==
  [][ReadOnly /\ zip.existed => file' = file /\ "RDONLY" \in chAfl]_vars

\* What makes it so: on a handle opened ZIP_RDONLY nothing is ever staged and
\* the live flags keep saying so.
ReadOnlyUntouched ==
  ReadOnly => pending = NoPending /\ "RDONLY" \in chAfl

\* A comment the client set is what the getters return until it is reverted,
\* and the archive comment they return is at all times the one zip_close
\* would write: the overlays follow the staged operations through every call.
GettersShowStaged ==
  zip.open =>
    /\ overlay.archiveComment = EffectiveArchiveComment
    /\ \A i \in Index : Staged("comment", i) # Unset =>
         overlay.comments[i] = CStr(Staged("comment", i))

\* zip_unchange of an entry on disk makes zip_close write that entry as it was
\* read, and every other entry as it would have been written without the call.
UnchangeRestoresOriginal ==
  [][\A i \in 0 .. (N - 1) : ZipUnchange(i) =>
       View' = [View EXCEPT ![i + 1] =
                  [live |-> TRUE,
                   entry |-> [zip.archive.entries[i + 1] EXCEPT
                                !.comp = "deflate", !.enc = "none"]]]]_vars

\* Staged operations are keyed by entries that exist: nothing waits at an
\* index for whatever the client adds next.  Only for careful clients.
StagedKeysExist ==
  \A i \in Index : i >= Logical => StagesNothing(i)

\* zip_unchange of an added entry takes that entry away and leaves the others
\* as they would have been written.
UnchangeLeavesOthers ==
  [][\A i \in Arg : i >= N /\ i < Logical /\ ZipUnchange(i) =>
       View' = RemoveAt(View, i + 1)]_vars
=============================================================================
