---------------------------- MODULE SharedHandle ----------------------------
(***************************************************************************)
(* One zip_t shared by several threads (zip-sys/src/lib.rs).  Every field  *)
(* of Zip that changes has a lock of its own, and most calls take several  *)
(* of them one after the other: they look something up under one, stage    *)
(* under the next, and bring what the getters show up to date under a      *)
(* third.  Here a step is one critical section, so that calls interleave   *)
(* where the code lets go of a lock.  zip_close holds the staged           *)
(* operations while it writes, and the client's callbacks run inside it.   *)
(*                                                                         *)
(* ZipHandle has the same calls as atomic actions, with names, payloads,   *)
(* read-only handles, error codes and failing writes; here the handle is a *)
(* writable one upon an archive of N entries, and what is staged is kept   *)
(* as far as two calls can disagree about it.                              *)
(***************************************************************************)
EXTENDS Naturals, Sequences, FiniteSets, SequencesExt

CONSTANTS
  Threads,
  Clients,       \* the calls a behaviour's client makes, and how many at most
  N,             \* the entries on disk
  OnDisk,        \* of each its comment, its extra fields and its size
  MaxAdds,       \* bounds the additions
  Comments, None, Unset,
  FieldIds,      \* ids of extra fields
  Internal,      \* those of ZIP64 and WinZip AES, which getters do not show
  Datas,         \* contents of extra fields
  FieldIndexes,  \* the ef_idx a client passes besides All
  All,           \* 0xFFFF: ZIP_EXTRA_FIELD_ALL and ZIP_EXTRA_FIELD_NEW alike
  Metas,         \* the kinds of staged metadata that no getter shows
  Flags,         \* ZIP_AFL_*, "RDONLY" among them
  Passwords,
  UserStates,    \* the ud pointers handed over with callbacks
  Precisions,    \* of progress callbacks, in tenths
  CallbackCalls  \* what callbacks call on their handle, besides nothing

ASSUME SharedHandleAssumption ==
  /\ N \in Nat /\ MaxAdds \in Nat
  /\ Internal \subseteq FieldIds
  /\ FieldIndexes \subseteq Nat /\ All \notin FieldIndexes
  /\ DOMAIN OnDisk = 0..(N - 1)
  /\ \A i \in DOMAIN OnDisk : OnDisk[i].size \in Nat
  /\ Unset \notin Nat \cup Comments \cup {None}
  /\ CallbackCalls \subseteq {"get_comment", "stat", "set_comment",
                              "register_other", "register_same"}

Index == 0..(N + MaxAdds - 1)
Kinds == {"progress", "cancel"}

VARIABLES
  client,    \* the client of this behaviour
  calls,     \* what each thread is doing
  made,      \* the calls begun so far
  pending,   \* PendingOps
  shown,     \* the overlays: what the getters return
  chAfl,     \* the changed archive flags
  password,  \* [write, read]: Zip.password and that of the Archive
  reg,       \* the registered callbacks
  write,     \* the write of zip_close under way
  open, file,
  freed,     \* how often each user state handed over has been freed
  wanted,    \* history: the flags that returned calls have asked for
  overlaps   \* history: what two calls at once, or a revert, have touched

vars == <<client, calls, made, pending, shown, chAfl, password, reg, write,
          open, file, freed, wanted, overlaps>>

-----------------------------------------------------------------------------
(* Extra fields.                                                           *)

Shows(fields) == SelectSeq(fields, LAMBDA f : f.id \notin Internal)

\* Where the fields with an id are, and the position of the k-th, if any.
Positions(fields, id) == {p \in DOMAIN fields : fields[p].id = id}

Nth(fields, id, k) ==
  {p \in Positions(fields, id) :
     Cardinality({q \in Positions(fields, id) : q < p}) = k}

\* Without the field at the one position, if any.
Without(fields, positions) ==
  IF positions = {} THEN fields
                    ELSE RemoveAt(fields, CHOOSE p \in positions : TRUE)

\* One ExtraFieldOp.  Two constants are the same number, so that deleting by
\* the id All looks for fields with that id.
Apply(fields, op) ==
  LET field == [id |-> op.id, data |-> op.data]
      nth   == Nth(fields, op.id, op.at)
  IN  CASE op.op = "delete" ->
             IF op.at = All THEN <<>>
             ELSE Without(fields, {op.at + 1} \cap DOMAIN fields)
        [] op.op = "delete_by_id" ->
             IF All \in {op.id, op.at} THEN SelectSeq(fields, LAMBDA f : f.id # op.id)
             ELSE Without(fields, nth)
        [] op.op = "set" ->
             IF op.at = All \/ nth = {} THEN Append(fields, field)
             ELSE ReplaceAt(fields, CHOOSE p \in nth : TRUE, field)

Base(i) == IF i < N THEN Shows(OnDisk[i].fields) ELSE <<>>

\* refresh_extra_fields replays what is staged for an entry, in that order, and
\* leaves out what is staged for others.
Replayed(fields, ops) ==
  LET after[n \in 0..Len(ops)] ==
        IF n = 0 THEN fields ELSE Apply(after[n - 1], ops[n])
  IN  after[Len(ops)]

Effective(ops, i) == Replayed(Base(i), ops[i])

\* The getters.
FieldsCount(i) == Len(shown.fields[i])
CountById(i, id) == Cardinality(Positions(shown.fields[i], id))
\* With what zip_file_extra_field_get writes to idxp.
Get(i, id, k) ==
  {[at |-> k, data |-> shown.fields[i][p].data] : p \in Nth(shown.fields[i], id, k)}
GetById(i, id, k) == {field.data : field \in Get(i, id, k)}

-----------------------------------------------------------------------------
(* The handle, and which locks a thread holds between two steps.           *)

DiskComment(i) == IF i < N THEN OnDisk[i].comment ELSE None

\* The operations on extra fields are kept entry by entry: nothing looks at
\* their order across entries.
NothingStaged ==
  [adds |-> 0, comments |-> [i \in Index |-> Unset],
   fields |-> [i \in Index |-> <<>>], meta |-> {}, archiveComment |-> Unset]

Idle == [call |-> "none", step |-> "none"]

NoWrite ==
  [k |-> 0, last |-> 0, hasProgress |-> FALSE, hasCancel |-> FALSE,
   cancel |-> FALSE, asked |-> FALSE, told |-> <<>>]

Init ==
  /\ client \in Clients
  /\ calls = [t \in Threads |-> Idle]
  /\ made = 0
  /\ pending = NothingStaged
  /\ shown = [comments |-> [i \in Index |-> DiskComment(i)],
              fields |-> [i \in Index |-> Base(i)], archiveComment |-> None]
  /\ chAfl = {} /\ wanted = {}
  /\ password = [write |-> None, read |-> None]
  /\ reg = [kind \in Kinds |-> None]
  /\ write = NoWrite
  /\ open = TRUE /\ file = "old"
  /\ freed = [u \in UserStates |-> Unset]
  /\ overlaps = {}

\* zip_unchange_all and the writer keep the staged operations locked; a
\* callback runs under the lock of its own registration.
KeepsPending(c) ==
  \/ c.call = "unchange_all" /\ c.step # "revert"
  \/ c.call = "close" /\ c.step \notin {"decide", "drop"}


Holds(t) ==
  {lock \in {"pending", "progress", "cancel"} :
     \/ lock = "pending" /\ KeepsPending(calls[t])
     \/ lock = "progress" /\ calls[t].step \in {"in_start", "in_progress", "in_end"}
     \/ lock = "cancel" /\ calls[t].step = "in_cancel"}

Free(lock, t) == \A s \in Threads \ {t} : lock \notin Holds(s)

At(t, call, step) == calls[t].call = call /\ calls[t].step = step
Goes(t, step) == calls' = [calls EXCEPT ![t].step = step]
Returns(t) == calls' = [calls EXCEPT ![t] = Idle]

ValidIndex(i) == i < N + pending.adds
IsEmpty == pending = NothingStaged

FieldCalls == {"extra_field_set", "extra_field_delete",
               "extra_field_delete_by_id"}

\* What a call is about.
Touches(c) ==
  CASE c.call = "set_comment" -> {<<"comment", c.i>>, <<"entry", c.i>>}
    [] c.call \in FieldCalls \cup {"set_meta"} -> {<<"entry", c.i>>}
    [] c.call = "unchange" -> {<<"comment", c.i>>, <<"entry", c.i>>}
    [] c.call = "unchange_all" ->
         ({"comment", "entry"} \X Index) \cup {<<"archive_comment">>, <<"flags">>}
    [] c.call = "unchange_archive" -> {<<"archive_comment">>, <<"flags">>}
    [] c.call = "set_archive_comment" -> {<<"archive_comment">>}
    [] c.call = "set_archive_flag" -> {<<"flags">>}
    [] c.call = "set_default_password" -> {<<"password">>}
    [] OTHER -> {}

Begin(t, c) ==
  /\ open /\ calls[t] = Idle
  /\ c.call \in client.calls /\ made < client.most
  /\ \A s \in Threads : calls[s].call \notin {"close", "discard"}
  /\ calls' = [calls EXCEPT ![t] = c]
  /\ made' = made + 1
  /\ overlaps' = overlaps \cup
       UNION {Touches(c) \cap Touches(calls[s]) : s \in Threads \ {t}}
  /\ UNCHANGED <<client, pending, shown, chAfl, password, reg, write, open,
                 file, freed, wanted>>

-----------------------------------------------------------------------------
(* Setters: look the index up, stage, show.                                *)

\* check_writable and valid_index; the index may be gone again when the call
\* comes to stage.
CheckIndex(t) ==
  LET c == calls[t] IN
  /\ c.step = "check" /\ Free("pending", t)
  /\ IF ~ValidIndex(c.i) \/ c.refused THEN Returns(t)
     ELSE Goes(t, IF c.call \in FieldCalls THEN "count" ELSE "stage")
  /\ UNCHANGED <<client, made, pending, shown, chAfl, password, reg, write,
                 open, file, freed, wanted, overlaps>>

\* zip_file_set_comment and zip_set_file_comment.
StageComment(t) ==
  LET c == calls[t] IN
  /\ At(t, "set_comment", "stage") /\ Free("pending", t)
  /\ pending' = [pending EXCEPT !.comments[c.i] = c.v]
  /\ Goes(t, "show")
  /\ UNCHANGED <<client, made, shown, chAfl, password, reg, write, open, file,
                 freed, wanted, overlaps>>

ShowComment(t) ==
  LET c == calls[t] IN
  /\ At(t, "set_comment", "show")
  /\ shown' = [shown EXCEPT !.comments[c.i] = c.v]
  /\ Returns(t)
  /\ UNCHANGED <<client, made, pending, chAfl, password, reg, write, open,
                 file, freed, wanted, overlaps>>

StageArchiveComment(t) ==
  /\ At(t, "set_archive_comment", "stage") /\ Free("pending", t)
  /\ pending' = [pending EXCEPT !.archiveComment = calls[t].v]
  /\ Goes(t, "show")
  /\ UNCHANGED <<client, made, shown, chAfl, password, reg, write, open, file,
                 freed, wanted, overlaps>>

ShowArchiveComment(t) ==
  /\ At(t, "set_archive_comment", "show")
  /\ shown' = [shown EXCEPT !.archiveComment = calls[t].v]
  /\ Returns(t)
  /\ UNCHANGED <<client, made, pending, chAfl, password, reg, write, open,
                 file, freed, wanted, overlaps>>

\* zip_file_set_encryption, _mtime, _dostime, _external_attributes and
\* zip_set_file_compression.
StageMeta(t) ==
  /\ At(t, "set_meta", "stage") /\ Free("pending", t)
  /\ pending' = [pending EXCEPT !.meta = @ \cup {<<calls[t].meta, calls[t].i>>}]
  /\ Returns(t)
  /\ UNCHANGED <<client, made, shown, chAfl, password, reg, write, open, file,
                 freed, wanted, overlaps>>

\* zip_file_add: the one call that gives an index.
Add(t) ==
  /\ At(t, "add", "stage") /\ Free("pending", t)
  /\ pending' = [pending EXCEPT !.adds = @ + 1]
  /\ Returns(t)
  /\ UNCHANGED <<client, made, shown, chAfl, password, reg, write, open, file,
                 freed, wanted, overlaps>>

\* The index of a field is checked against what the getters show, under the
\* lock of the overlay alone.
FieldMissing(c) ==
  CASE c.call = "extra_field_set" -> c.at # All /\ c.at > CountById(c.i, c.id)
    [] c.call = "extra_field_delete" -> c.at # All /\ c.at >= FieldsCount(c.i)
    [] c.call = "extra_field_delete_by_id" ->
         All \notin {c.id, c.at} /\ c.at >= CountById(c.i, c.id)

CheckCount(t) ==
  /\ calls[t].step = "count"
  /\ IF FieldMissing(calls[t]) THEN Returns(t) ELSE Goes(t, "stage")
  /\ UNCHANGED <<client, made, pending, shown, chAfl, password, reg, write,
                 open, file, freed, wanted, overlaps>>

OpOf(c) ==
  [id |-> c.id, at |-> c.at, data |-> c.data,
   op |-> CASE c.call = "extra_field_set" -> "set"
            [] c.call = "extra_field_delete" -> "delete"
            [] c.call = "extra_field_delete_by_id" -> "delete_by_id"]

StageField(t) ==
  /\ calls[t].call \in FieldCalls /\ calls[t].step = "stage"
  /\ Free("pending", t)
  /\ pending' = [pending EXCEPT !.fields[calls[t].i] = Append(@, OpOf(calls[t]))]
  /\ Goes(t, "show")
  /\ UNCHANGED <<client, made, shown, chAfl, password, reg, write, open, file,
                 freed, wanted, overlaps>>

\* refresh_extra_fields replays all that is staged by now, whoever staged it.
RefreshedByLast(fields, ops, i) ==
  [fields EXCEPT ![i] = IF ops[i] = <<>> THEN @ ELSE Apply(@, Last(ops[i]))]
Refreshed(fields, ops, i) == [fields EXCEPT ![i] = Effective(ops, i)]

ShowFields(t) ==
  LET c == calls[t] IN
  /\ c.call \in FieldCalls /\ c.step = "show" /\ Free("pending", t)
  /\ shown' = [shown EXCEPT !.fields = Refreshed(@, pending.fields, c.i)]
  /\ overlaps' = overlaps \ {<<"fields", c.i>>}
  /\ Returns(t)
  /\ UNCHANGED <<client, made, pending, chAfl, password, reg, write, open,
                 file, freed, wanted>>

-----------------------------------------------------------------------------
(* Archive flags and passwords.                                            *)

WithFlag(flags, c) ==
  IF c.v THEN flags \cup {c.flag} ELSE flags \ {c.flag}

\* zip_set_archive_flag: ch_afl is loaded, compared and stored in separate
\* steps; RDONLY looks at the staged operations in between.
LoadFlags(t) ==
  LET c == calls[t]
      new == WithFlag(chAfl, c)
  IN
  /\ At(t, "set_archive_flag", "load")
  /\ IF new = chAfl
     THEN /\ Returns(t) /\ wanted' = WithFlag(wanted, c)
     ELSE /\ calls' = [calls EXCEPT ![t] =
               [call |-> c.call, flag |-> c.flag, v |-> c.v, new |-> new,
                step |-> IF c.flag = "RDONLY" /\ c.v THEN "staged"
                                                     ELSE "store"]]
          /\ UNCHANGED wanted
  /\ UNCHANGED <<client, made, pending, shown, chAfl, password, reg, write,
                 open, file, freed, overlaps>>

CheckNothingStaged(t) ==
  /\ At(t, "set_archive_flag", "staged") /\ Free("pending", t)
  /\ IF IsEmpty THEN Goes(t, "store") ELSE Returns(t)
  /\ UNCHANGED <<client, made, pending, shown, chAfl, password, reg, write,
                 open, file, freed, wanted, overlaps>>

StoreFlags(t) ==
  /\ At(t, "set_archive_flag", "store")
  /\ chAfl' = calls[t].new
  /\ wanted' = WithFlag(wanted, calls[t])
  /\ Returns(t)
  /\ UNCHANGED <<client, made, pending, shown, password, reg, write, open,
                 file, freed, overlaps>>

\* zip_set_default_password stores the password to write with, then the one
\* to read with.
SetWritePassword(t) ==
  /\ At(t, "set_default_password", "write")
  /\ password' = [password EXCEPT !.write = calls[t].v]
  /\ Goes(t, "read")
  /\ UNCHANGED <<client, made, pending, shown, chAfl, reg, write, open, file,
                 freed, wanted, overlaps>>

SetReadPassword(t) ==
  /\ At(t, "set_default_password", "read")
  /\ password' = [password EXCEPT !.read = calls[t].v]
  /\ Returns(t)
  /\ UNCHANGED <<client, made, pending, shown, chAfl, reg, write, open, file,
                 freed, wanted, overlaps>>

-----------------------------------------------------------------------------
(* Reverting.                                                              *)

\* What getters go on showing although it is no longer staged.
StillShown(is) ==
  {<<"fields", i>> : i \in {i \in is : pending.fields[i] # <<>>}}
  \cup {<<"comment", i>> : i \in {i \in is : pending.comments[i] # Unset}}

RevertedButMeta(i) ==
  [pending EXCEPT
     !.comments[i] = Unset,
     !.fields[i] = <<>>,
     !.adds = IF i >= N THEN @ - 1 ELSE @]

\* unchange_entry.
Reverted(i) ==
  [pending EXCEPT
     !.comments[i] = Unset,
     !.fields[i] = <<>>,
     !.meta = {m \in @ : m[2] # i},
     !.adds = IF i >= N THEN @ - 1 ELSE @]

\* zip_unchange, one section.  An addition that goes takes the indices of the
\* later ones down, but not what is staged for them.
Unchange(t) ==
  LET i == calls[t].i IN
  /\ At(t, "unchange", "revert") /\ Free("pending", t)
  /\ IF ValidIndex(i)
     THEN /\ pending' = Reverted(i)
          /\ overlaps' = overlaps \cup StillShown({i})
               \cup (IF i >= N THEN {<<"entry", j>> : j \in {j \in Index : j > i}}
                               ELSE {})
     ELSE UNCHANGED <<pending, overlaps>>
  /\ Returns(t)
  /\ UNCHANGED <<client, made, shown, chAfl, password, reg, write, open, file,
                 freed, wanted>>

\* zip_unchange_all keeps the staged operations locked until it returns.
UnchangeAll(t) ==
  /\ At(t, "unchange_all", "revert") /\ Free("pending", t)
  /\ pending' = NothingStaged
  /\ overlaps' = overlaps \cup StillShown(Index)
  /\ Goes(t, "flags")
  /\ UNCHANGED <<client, made, shown, chAfl, password, reg, write, open, file,
                 freed, wanted>>

\* zip_unchange_archive lets go of them at once.
UnchangeArchive(t) ==
  /\ At(t, "unchange_archive", "revert") /\ Free("pending", t)
  /\ pending' = [pending EXCEPT !.archiveComment = Unset]
  /\ Goes(t, "flags")
  /\ UNCHANGED <<client, made, shown, chAfl, password, reg, write, open, file,
                 freed, wanted, overlaps>>

RevertFlagsOfAll(t) ==
  /\ calls[t].call \in {"unchange_all", "unchange_archive"}
  /\ calls[t].step = "flags"
  /\ chAfl' = (IF calls[t].call = "unchange_all" THEN {} ELSE chAfl) /\ wanted' = {}
  /\ Goes(t, "show")
  /\ UNCHANGED <<client, made, pending, shown, password, reg, write, open,
                 file, freed, overlaps>>

RevertFlags(t) ==
  /\ calls[t].call \in {"unchange_all", "unchange_archive"}
  /\ calls[t].step = "flags"
  /\ chAfl' = {} /\ wanted' = {}
  /\ Goes(t, "show")
  /\ UNCHANGED <<client, made, pending, shown, password, reg, write, open,
                 file, freed, overlaps>>

\* reset_archive_comment_overlay.
RevertArchiveComment(t) ==
  /\ calls[t].call \in {"unchange_all", "unchange_archive"}
  /\ calls[t].step = "show"
  /\ shown' = [shown EXCEPT !.archiveComment = None]
  /\ Returns(t)
  /\ UNCHANGED <<client, made, pending, chAfl, password, reg, write, open,
                 file, freed, wanted, overlaps>>

-----------------------------------------------------------------------------
(* Callbacks.                                                              *)

Ud(registration) == IF registration = None THEN {} ELSE {registration.ud}

\* A user state is freed when its callback is replaced or unregistered.
Replaces(old, new) ==
  freed' = [u \in UserStates |->
              IF u \in Ud(old) THEN freed[u] + 1
              ELSE IF u \in Ud(new) THEN 0 ELSE freed[u]]

\* The old user state is freed while the lock of the registration is held.
Registers(t, kind) ==
  LET c == calls[t] IN
  /\ At(t, "register", "register") /\ c.kind = kind /\ Free(kind, t)
  /\ reg' = [reg EXCEPT ![kind] = c.new]
  /\ Replaces(reg[kind], c.new)
  /\ Returns(t)
  /\ UNCHANGED <<client, made, pending, shown, chAfl, password, write, open,
                 file, wanted, overlaps>>

\* zip_register_progress_callback_with_state, and the deprecated form, whose
\* user state is a box of the library's own.
RegisterProgress(t) == Registers(t, "progress")

\* zip_register_cancel_callback_with_state.
RegisterCancel(t) == Registers(t, "cancel")

\* User states the client has not handed over yet.
Fresh ==
  {u \in UserStates :
     /\ freed[u] = Unset
     /\ \A t \in Threads : calls[t].call = "register" => u \notin Ud(calls[t].new)}

Registrations ==
  {None} \cup [ud : Fresh, precision : Precisions]

\* The callback may call its handle in turn; that call waits for a lock its
\* own thread may already hold.  A setter stages, and fill_stat looks at the
\* staged times, so "stat" stands for zip_stat, zip_stat_index and the getter
\* of external attributes; "get_comment" for the getters of overlays, of
\* names and of counts.
Other(kind) == CHOOSE other \in Kinds : other # kind

LockOf(nested, kind) ==
  CASE nested = "register_other" -> {Other(kind)}
    [] nested = "register_same" -> {kind}
    [] nested \in {"set_comment", "stat"} -> {"pending"}
    [] nested \in {"get_comment", "nothing"} -> {}

CallsBack(t, step, kind) ==
  \E nested \in CallbackCalls \cup {"nothing"} :
    calls' = [calls EXCEPT ![t] =
                [call |-> "close", step |-> step, nested |-> nested,
                 kind |-> kind, ud |-> reg[kind].ud]]

CallbackEnds(t, step) ==
  LET c == calls[t] IN
  /\ LockOf(c.nested, c.kind) \cap Holds(t) = {}
  /\ IF c.nested = "register_other"
     THEN \E new \in Registrations :
            /\ reg' = [reg EXCEPT ![Other(c.kind)] = new]
            /\ Replaces(reg[Other(c.kind)], new)
     ELSE UNCHANGED <<reg, freed>>
  /\ calls' = [calls EXCEPT ![t] = [call |-> "close", step |-> step]]

-----------------------------------------------------------------------------
(* zip_close: materialize and the checkpoints of WriteProgress.            *)

Files == N + pending.adds
SizeOf(i) == IF i < N THEN OnDisk[i].size ELSE 1

\* The checkpoints: the start, one before each file is compressed, one before
\* each is written, the end.  A file counts as done before it is compressed.
LastCheckpoint == 2 * Files + 1
Completed(k) ==
  LET before[n \in 0..Files] ==
        IF n = 0 THEN 0 ELSE before[n - 1] + SizeOf(n - 1)
  IN  before[IF k < Files THEN k ELSE Files]

Total == Completed(Files)

\* Fractions are counted in bytes, an archive without any as one byte done.
Full == IF Total = 0 THEN 1 ELSE Total
Fraction(k) == IF Total = 0 THEN 1 ELSE Completed(k)

Due(frac) ==
  \/ (frac - write.last) * 10 > reg["progress"].precision * Full
  \/ write.last < Full /\ frac = Full

\* should_write, under the lock of the staged operations.
Decide(t) ==
  /\ At(t, "close", "decide")
  /\ Goes(t, IF IsEmpty THEN "drop" ELSE "prepare")
  /\ UNCHANGED <<client, made, pending, shown, chAfl, password, reg, write,
                 open, file, freed, wanted, overlaps>>

\* Every entry kept is refreshed; encryption needs a password; the callbacks
\* are looked at once, and without any the archive is written in one go.
Prepare(t) ==
  LET refused == /\ \E i \in 0..(Files - 1) : <<"encryption", i>> \in pending.meta
                 /\ password.write = None
      progress == reg["progress"] # None
      cancel   == reg["cancel"] # None
  IN
  /\ At(t, "close", "prepare")
  /\ shown' = [shown EXCEPT !.fields =
                 [i \in Index |-> IF i < Files THEN Effective(pending.fields, i)
                                               ELSE @[i]]]
  /\ overlaps' = overlaps \ {<<"fields", i>> : i \in 0..(Files - 1)}
  /\ IF refused \/ (~progress /\ ~cancel)
     THEN /\ Goes(t, "drop")
          /\ file' = IF refused THEN file ELSE "new"
          /\ UNCHANGED write
     ELSE /\ write' = [NoWrite EXCEPT
                         !.hasProgress = progress, !.hasCancel = cancel,
                         !.told = IF progress THEN <<0>> ELSE <<>>]
          /\ IF progress THEN CallsBack(t, "in_start", "progress")
                         ELSE Goes(t, "ask")
          /\ UNCHANGED file
  /\ UNCHANGED <<client, made, pending, chAfl, password, reg, open, freed,
                 wanted>>

Started(t) ==
  /\ calls[t].step = "in_start" /\ CallbackEnds(t, "ask")
  /\ UNCHANGED <<client, made, pending, shown, chAfl, password, write, open,
                 file, wanted, overlaps>>

\* A checkpoint asks the cancel callback, then tells the progress callback.
Ask(t) ==
  /\ At(t, "close", "ask")
  /\ IF write.hasCancel /\ reg["cancel"] # None
     THEN CallsBack(t, "in_cancel", "cancel")
     ELSE Goes(t, "tell")
  /\ UNCHANGED <<client, made, pending, shown, chAfl, password, reg, write,
                 open, file, freed, wanted, overlaps>>

Answered(t) ==
  /\ calls[t].step = "in_cancel" /\ CallbackEnds(t, "tell")
  /\ \E answer \in BOOLEAN :
       write' = [write EXCEPT !.cancel = answer, !.asked = @ \/ answer]
  /\ UNCHANGED <<client, made, pending, shown, chAfl, password, open, file,
                 wanted, overlaps>>

NextStepUnlessLast ==
  IF write.k = LastCheckpoint THEN "end"
  ELSE IF write.cancel THEN "drop" ELSE "ask"

\* What report makes of the answer.
NextStep ==
  IF write.cancel THEN "drop"
  ELSE IF write.k = LastCheckpoint THEN "end" ELSE "ask"

PassesOn == write' = [write EXCEPT !.k = @ + 1]

Tells == write.hasProgress /\ reg["progress"] # None /\ Due(Fraction(write.k))

Tell(t) ==
  /\ At(t, "close", "tell")
  /\ IF Tells
     THEN /\ CallsBack(t, "in_progress", "progress")
          /\ write' = [write EXCEPT !.last = Fraction(write.k),
                                    !.told = Append(@, Fraction(write.k))]
     ELSE PassesOn /\ Goes(t, NextStep)
  /\ UNCHANGED <<client, made, pending, shown, chAfl, password, reg, open,
                 file, freed, wanted, overlaps>>

Told(t) ==
  /\ calls[t].step = "in_progress" /\ CallbackEnds(t, NextStep)
  /\ PassesOn
  /\ UNCHANGED <<client, made, pending, shown, chAfl, password, open, file,
                 wanted, overlaps>>

Finish(t) ==
  /\ At(t, "close", "end")
  /\ IF write.hasProgress /\ reg["progress"] # None
     THEN /\ CallsBack(t, "in_end", "progress")
          /\ write' = [write EXCEPT !.told = Append(@, Full)]
          /\ UNCHANGED file
     ELSE Goes(t, "drop") /\ file' = "new" /\ UNCHANGED write
  /\ UNCHANGED <<client, made, pending, shown, chAfl, password, reg, open,
                 freed, wanted, overlaps>>

Finished(t) ==
  /\ calls[t].step = "in_end" /\ CallbackEnds(t, "drop")
  /\ file' = "new"
  /\ UNCHANGED <<client, made, pending, shown, chAfl, password, write, open,
                 wanted, overlaps>>

DroppedProgress(registered) ==
  [u \in UserStates |->
     IF u \in Ud(registered["progress"]) THEN freed[u] + 1 ELSE freed[u]]

\* Drop frees the user state of both callbacks, zip_discard does nothing else.
Dropped(registered) ==
  [u \in UserStates |->
     LET held == {kind \in Kinds : u \in Ud(registered[kind])}
     IN  IF held = {} THEN freed[u] ELSE freed[u] + Cardinality(held)]

Drop(t) ==
  /\ calls[t].call \in {"close", "discard"} /\ calls[t].step = "drop"
  /\ open' = FALSE
  /\ reg' = [kind \in Kinds |-> None]
  /\ freed' = Dropped(reg)
  /\ Returns(t)
  /\ UNCHANGED <<client, made, pending, shown, chAfl, password, write, file,
                 wanted, overlaps>>

-----------------------------------------------------------------------------
(* The client.                                                             *)

SettersOf ==
  [call : {"set_comment"}, step : {"check"}, i : Index,
   v : Comments \cup {None}, refused : {FALSE}]
  \cup [call : {"set_meta"}, step : {"check"}, i : Index, meta : Metas,
        refused : BOOLEAN]
  \cup [call : {"set_archive_comment"}, step : {"stage"}, v : Comments \cup {None}]
  \cup [call : {"set_archive_flag"}, step : {"load"}, flag : Flags, v : BOOLEAN]
  \cup [call : {"set_default_password"}, step : {"write"}, v : Passwords]
  \cup [call : {"add"}, step : {"stage"}]

\* ZIP64 and AES fields cannot be set; they can be asked to be deleted.
FieldSettersOf ==
  (UNION {[call : {"extra_field_set"}, step : {"check"}, i : Index, id : {id},
           at : FieldIndexes \cup {All}, data : Datas,
           refused : {(id \in Internal)}] : id \in FieldIds})
  \cup [call : {"extra_field_delete"}, step : {"check"}, i : Index, id : {None},
        at : FieldIndexes \cup {All}, data : {None}, refused : {FALSE}]
  \cup [call : {"extra_field_delete_by_id"}, step : {"check"}, i : Index,
        id : FieldIds \cup {All}, at : FieldIndexes \cup {All}, data : {None},
        refused : {FALSE}]

RevertsOf ==
  [call : {"unchange"}, step : {"revert"}, i : Index]
  \cup [call : {"unchange_all", "unchange_archive"}, step : {"revert"}]

\* Additions under way count against the bound.
BeginSetter(t) ==
  \E c \in SettersOf :
    /\ Begin(t, c)
    /\ c.call = "add" =>
         pending.adds + Cardinality({s \in Threads : calls[s].call = "add"})
           < MaxAdds

BeginFieldSetter(t) == \E c \in FieldSettersOf : Begin(t, c)
BeginRevert(t) == \E c \in RevertsOf : Begin(t, c)

BeginRegister(t) ==
  \E kind \in Kinds, new \in Registrations :
    Begin(t, [call |-> "register", step |-> "register", kind |-> kind,
              new |-> new])

\* The handle is given back by one thread when no other is in a call.
BeginClose(t) ==
  /\ \A s \in Threads : calls[s] = Idle
  /\ \/ Begin(t, [call |-> "close", step |-> "decide"])
     \/ Begin(t, [call |-> "discard", step |-> "drop"])

Step(t) ==
  \/ CheckIndex(t) \/ StageComment(t) \/ ShowComment(t)
  \/ StageArchiveComment(t) \/ ShowArchiveComment(t)
  \/ StageMeta(t) \/ Add(t)
  \/ CheckCount(t) \/ StageField(t) \/ ShowFields(t)
  \/ LoadFlags(t) \/ CheckNothingStaged(t) \/ StoreFlags(t)
  \/ SetWritePassword(t) \/ SetReadPassword(t)
  \/ Unchange(t) \/ UnchangeAll(t) \/ UnchangeArchive(t)
  \/ RevertFlags(t) \/ RevertArchiveComment(t)
  \/ RegisterProgress(t) \/ RegisterCancel(t)
  \/ Decide(t) \/ Prepare(t) \/ Started(t) \/ Ask(t) \/ Answered(t)
  \/ Tell(t) \/ Told(t) \/ Finish(t) \/ Finished(t) \/ Drop(t)

Next ==
  \E t \in Threads :
    \/ BeginSetter(t) \/ BeginFieldSetter(t) \/ BeginRevert(t)
    \/ BeginRegister(t) \/ BeginClose(t)
    \/ Step(t)

\* Every thread that is in a call is scheduled; a callback returns.
Spec == Init /\ [][Next]_vars /\ \A t \in Threads : WF_vars(Step(t))

-----------------------------------------------------------------------------
(* Properties.                                                             *)

InCall(topic) == \E t \in Threads : topic \in Touches(calls[t])

EffectiveComment(i) ==
  IF pending.comments[i] = Unset THEN DiskComment(i) ELSE pending.comments[i]

EffectiveArchiveComment ==
  IF pending.archiveComment = Unset THEN None ELSE pending.archiveComment

\* Calls upon different things do not disturb each other, whatever their
\* steps: once no call about it is under way, the comment a getter shows, the
\* password it reads with and the archive flags are what the calls asked for,
\* unless two calls about the very same thing ran at once, or a comment was
\* reverted.
SettersAgree ==
  /\ \A i \in Index :
       <<"comment", i>> \notin overlaps /\ ~InCall(<<"comment", i>>)
         => shown.comments[i] = EffectiveComment(i)
  /\ <<"archive_comment">> \notin overlaps /\ ~InCall(<<"archive_comment">>)
       => shown.archiveComment = EffectiveArchiveComment
  /\ <<"password">> \notin overlaps /\ ~InCall(<<"password">>)
       => password.read = password.write
  /\ <<"flags">> \notin overlaps /\ ~InCall(<<"flags">>) => chAfl = wanted

\* Nothing is staged for an entry that does not exist, although the index was
\* checked under an earlier lock, unless a revert ran at the same time as the
\* call or took away an addition below it.
CheckedEntriesExist ==
  \A i \in Index :
    (\/ pending.comments[i] # Unset
     \/ pending.fields[i] # <<>>
     \/ \E m \in pending.meta : m[2] = i)
    => ValidIndex(i) \/ <<"entry", i>> \in overlaps

\* The getters of extra fields show what zip_close would write as soon as no
\* call is between staging and refreshing, however the calls overlapped: each
\* refresh replays all that is staged by then.  Only a revert leaves them
\* behind, until the next refresh.
FieldsFollow ==
  \A i \in Index :
    \/ <<"fields", i>> \in overlaps
    \/ \E t \in Threads : /\ calls[t].call \in FieldCalls
                          /\ calls[t].step = "show" /\ calls[t].i = i
    \/ LET due == Effective(pending.fields, i) IN
       /\ FieldsCount(i) = Len(due)
       /\ \A id \in FieldIds, k \in 0..(Len(due) - 1) :
            GetById(i, id, k) = {due[p].data : p \in Nth(due, id, k)}

\* A user state is freed once, when its callback is replaced or the handle
\* goes, never while its callback runs, and none outlives the handle.
UserStatesAreFreedOnce ==
  /\ \A u \in UserStates :
       /\ freed[u] \in {Unset, 0, 1}
       /\ freed[u] = 0 <=> \E kind \in Kinds : u \in Ud(reg[kind])
       /\ ~open => freed[u] # 0
  /\ \A t \in Threads :
       calls[t].step \in {"in_start", "in_cancel", "in_progress", "in_end"}
         => freed[calls[t].ud] = 0

\* A close that was asked to stop at any checkpoint writes nothing.
StoppedWritesNothing == write.asked => file = "old"

\* What the callbacks of zip_close answer and hear: an answer to stop holds,
\* progress never goes back, and a write with a progress callback from first
\* to last tells it that it began with nothing and ended with everything.
CloseKeepsItsWord ==
  /\ StoppedWritesNothing
  /\ \A p \in 1..(Len(write.told) - 1) : write.told[p] =< write.told[p + 1]
  /\ (/\ \E t \in Threads : At(t, "close", "drop")
      /\ file = "new" /\ write.hasProgress /\ reg["progress"] # None)
       => write.told[1] = 0 /\ Last(write.told) = Full

InCallback(t) ==
  calls[t].step \in {"in_start", "in_cancel", "in_progress", "in_end"}

=============================================================================
