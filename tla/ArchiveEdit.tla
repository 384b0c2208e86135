---------------------------- MODULE ArchiveEdit ----------------------------
(***************************************************************************)
(* What an editing session on an archive promises its client: every        *)
(* successful call takes effect at once on a working copy of the archive,  *)
(* closing either saves that copy, all of it and nothing else, or reports  *)
(* a failure, and reverting an entry gives back that entry alone.          *)
(*                                                                         *)
(* ZipHandle, which stages operations and replays them when it closes,     *)
(* implements this module for the clients its CarefulSpec describes.       *)
(***************************************************************************)
EXTENDS Integers, Sequences, SequencesExt

CONSTANTS
  Names, Contents, Corrupt, Comments, Times, Attrs, DefaultAttrs, Passwords,
  None,     \* no comment, no password, no file
  Damaged   \* a file that no longer holds an archive

VARIABLES
  file,     \* what the path holds
  session,  \* the open session: the archive it started from, what it may do
  view,     \* the working copy
  outcome   \* what the last close reported

vars == <<file, session, view, outcome>>

EmptyArchive == [entries |-> <<>>, comment |-> None]
Closed == [open |-> FALSE, base |-> EmptyArchive, writable |-> TRUE,
           path |-> FALSE, password |-> None]

\* A working copy starts with the archive's entries, which will be encoded
\* afresh: with the default method, and not encrypted unless asked for.
Fresh(a) ==
  [slots |-> [k \in DOMAIN a.entries |->
                [live |-> TRUE,
                 entry |-> [a.entries[k] EXCEPT !.comp = "deflate",
                                                !.enc = "none"]]],
   comment |-> a.comment]

FieldValue(f) ==
  CASE f = "name"    -> Names
    [] f = "data"    -> Contents
    [] f = "comment" -> Comments \cup {None}
    [] f = "time"    -> Times
    [] f = "attrs"   -> Attrs
    [] f = "comp"    -> {"store", "deflate"}
    [] f = "enc"     -> {"none", "encrypted"}
EntryFields == {"name", "data", "comment", "time", "attrs", "comp", "enc"}

OnDisk(k) == k \in DOMAIN session.base.entries

\* The positions that are not deleted, in their order: what a close saves.
Live == {k \in DOMAIN view.slots : view.slots[k].live}
InOrder(order, n) ==
  /\ \A j, k \in 1 .. n : j < k => order[j] < order[k]
  /\ Live = {order[k] : k \in 1 .. n}

SavedEntry(entry) ==
  [entry EXCEPT !.enc = IF @ = "encrypted" THEN session.password ELSE None]

----------------------------------------------------------------------------

Init ==
  /\ session = Closed
  /\ view = Fresh(EmptyArchive)
  /\ outcome = "none"

\* A session starts from the file's archive or from an empty one.
Open(base, writable, path) ==
  /\ ~session.open
  /\ base \in {file, EmptyArchive} \ {None, Damaged}
  /\ session' = [open |-> TRUE, base |-> base, writable |-> writable,
                 path |-> path, password |-> None]
  /\ view' = Fresh(base)
  /\ outcome' = "none"
  /\ UNCHANGED file

Edit(v) ==
  /\ session.open /\ session.writable
  /\ view' = v
  /\ UNCHANGED <<file, session, outcome>>

\* The name and the data of an added entry are fixed by the call that adds it.
SetField(k, f) ==
  /\ f \in {"name", "data"} => OnDisk(k)
  /\ \E v \in FieldValue(f) : Edit([view EXCEPT !.slots[k].entry[f] = v])

Delete(k) == OnDisk(k) /\ Edit([view EXCEPT !.slots[k].live = FALSE])

Add(n, d) ==
  /\ \A k \in DOMAIN session.base.entries : session.base.entries[k].name # n
  /\ Edit([view EXCEPT !.slots =
       Append(@, [live |-> TRUE,
                  entry |-> [name |-> n, data |-> d, comment |-> None,
                             time |-> 0, attrs |-> DefaultAttrs,
                             comp |-> "deflate", enc |-> "none"]])])

SetComment(c) == Edit([view EXCEPT !.comment = c])

\* One entry back to what the session started from; an added entry goes.
Revert(k) ==
  Edit([view EXCEPT !.slots =
          IF OnDisk(k)
          THEN [@ EXCEPT ![k] = Fresh(session.base).slots[k]]
          ELSE RemoveAt(@, k)])

RevertAll == Edit(Fresh(session.base))
RevertComment == Edit([view EXCEPT !.comment = session.base.comment])

SetPassword(pw) ==
  /\ session.open
  /\ session' = [session EXCEPT !.password = pw]
  /\ UNCHANGED <<file, view, outcome>>

End(report) ==
  /\ session.open
  /\ session' = Closed
  /\ view' = Fresh(EmptyArchive)
  /\ outcome' = report

\* Success: the file holds the working copy.  No entry the client wanted
\* encrypted is saved in clear and no undecodable entry is saved at all.
Save ==
  /\ End("ok")
  /\ session.path
  /\ \A k \in DOMAIN view.slots : view.slots[k].live =>
       /\ view.slots[k].entry.data # Corrupt
       /\ view.slots[k].entry.enc = "encrypted" => session.password # None
  /\ \E n \in 0 .. Len(view.slots) : \E order \in [1 .. n -> Live] :
       /\ InOrder(order, n)
       /\ file' = [entries |-> [k \in 1 .. n |-> SavedEntry(view.slots[order[k]].entry)],
                   comment |-> view.comment]

\* Success without a write, when there is nothing that the file should hold
\* and does not.
Keep ==
  /\ End("ok")
  /\ view = Fresh(session.base)
  /\ session.path => file = session.base
  /\ UNCHANGED file

Fail == End("failed") /\ file' \in {file, Damaged}
Discard == End("none") /\ UNCHANGED file

Next ==
  \/ \E base \in {file, EmptyArchive}, w, p \in BOOLEAN : Open(base, w, p)
  \/ \E k \in DOMAIN view.slots, f \in EntryFields : SetField(k, f)
  \/ \E k \in DOMAIN view.slots : Delete(k) \/ Revert(k)
  \/ \E n \in Names, d \in Contents : Add(n, d)
  \/ \E c \in Comments \cup {None} : SetComment(c)
  \/ RevertAll \/ RevertComment
  \/ \E pw \in Passwords : SetPassword(pw)
  \/ Save \/ Keep \/ Fail \/ Discard

EditSpec == Init /\ [][Next]_vars
=============================================================================
