--------------------------- MODULE MCSharedHandle ---------------------------
(***************************************************************************)
(* SharedHandle with two threads on an archive of one entry, which has a   *)
(* comment, two extra fields with one id and one that is internal.         *)
(***************************************************************************)
EXTENDS SharedHandle

CONSTANTS note, x, y, f, z64

Field(id, d) == [id |-> id, data |-> d]

OneEntry ==
  [i \in {0} |-> [comment |-> note, size |-> 1,
                  fields |-> <<Field(z64, y), Field(f, x), Field(f, y)>>]]

Makes(most, names) == [calls |-> names, most |-> most]

AClient ==
  {Makes(4, {"set_comment", "unchange", "unchange_all", "add", "set_meta"}),
   Makes(3, {"extra_field_set", "extra_field_delete", "unchange", "close"}),
   Makes(3, {"extra_field_delete_by_id", "extra_field_set", "unchange_all",
             "close"}),
   Makes(4, {"set_archive_comment", "set_archive_flag", "unchange_archive",
             "unchange_all", "add"}),
   Makes(4, {"set_default_password", "set_meta", "close"}),
   Makes(4, {"register", "add", "close", "discard"})}
=============================================================================
