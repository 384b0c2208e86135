------------------------------ MODULE ZipRecords ------------------------------
(***************************************************************************)
(* The records of a ZIP archive, as zip_core writes them (compress.rs,     *)
(* cdir.rs) and as it reads them back (cdir.rs, dirent.rs).                *)
(*                                                                         *)
(* An archive is a sequence of cells <<tag, ...>>.  A cell stands for the  *)
(* fixed part of a record, for one extra field, or for a piece of a name,  *)
(* of a comment or of data; positions and lengths count cells.  The fields *)
(* of records keep a width: Max16 and Max32 are the largest values that    *)
(* fit, and the sentinels that send the reader to the ZIP64 records.       *)
(***************************************************************************)
EXTENDS Integers, Sequences, SequencesExt, FiniteSets

CONSTANTS
  Max16,      \* u16::MAX
  Max32,      \* u32::MAX
  MaxCdSize   \* MAX_CD_SIZE

ASSUME WidthsAssumption ==
  /\ Max16 \in Nat /\ Max32 \in Nat /\ MaxCdSize \in Nat
  /\ 0 < Max16 /\ Max16 < Max32

Wrap16(n) == n % (Max16 + 1)
Saturated(n) == IF n > Max32 THEN Max32 ELSE n

Texts(tag, text) == [k \in DOMAIN text |-> <<tag, text[k]>>]

AesMethods == {"aes128", "aes192", "aes256"}

aes_strength == [em \in AesMethods |->
  CASE em = "aes128" -> 1 [] em = "aes192" -> 2 [] em = "aes256" -> 3]

aes_method_from_strength(s) ==
  CASE s = 1 -> "aes128" [] s = 2 -> "aes192" [] s = 3 -> "aes256"
    [] OTHER -> "unknown"

----------------------------------------------------------------------------
(* Writing.  A compressed file cf has the fields of CompressedFile; its    *)
(* checksum is the content itself, and zero is that of no content.         *)

IsAes(cf) == cf.em \in AesMethods

Flags(cf) ==
  (IF cf.em # "none" THEN {"encrypted"} ELSE {})
    \cup (IF IsAes(cf) THEN {"data_descriptor"} ELSE {})

on_disk_method(cf) == IF IsAes(cf) THEN "winzip_aes" ELSE cf.method

StoredCrc(cf) == IF IsAes(cf) THEN <<>> ELSE cf.crc

needs_zip64_sizes(cf) == cf.comp > Max32 \/ cf.uncomp > Max32

VersionNeeded(cf, zip64) == IF IsAes(cf) THEN 51 ELSE IF zip64 THEN 45 ELSE 20

Given(cond, x) == IF cond THEN <<x>> ELSE <<>>

\* Extra fields, but for those with some ids.
Without(fields, ids) ==
  FlattenSeq([k \in DOMAIN fields |-> Given(fields[k].id \notin ids, fields[k])])

FieldCells(fields) ==
  [k \in DOMAIN fields |-> <<"extra", fields[k].id, fields[k].data>>]

aes_extra_field(cf) ==
  Given(IsAes(cf), [id |-> "aes", data |-> <<2, aes_strength[cf.em], cf.method>>])

\* Mutant: the offset is left out.
Zip64SizesOnly(cf, central, offset) ==
  Given(cf.uncomp > Max32, cf.uncomp) \o Given(cf.comp > Max32, cf.comp)

Zip64Values(cf, central, offset) ==
  Given(cf.uncomp > Max32, cf.uncomp) \o Given(cf.comp > Max32, cf.comp)
    \o Given(central /\ offset > Max32, offset)

\* The fields the writer manages itself are not taken from the user.
UserFields(cf) == Without(cf.extra, {"aes", "zip64"})

build_extra(cf, zip64, central, offset) ==
  LET values == Zip64Values(cf, central, offset)
  IN  UserFields(cf) \o aes_extra_field(cf)
        \o Given(zip64 /\ values # <<>>, [id |-> "zip64", data |-> values])

\* ZIP_ER_EF_TOO_LARGE: a field, all of them, or the comment.
TooLarge(cf, extra, central) ==
  \/ \E k \in DOMAIN UserFields(cf) : Len(UserFields(cf)[k].data) > Max16
  \/ Len(extra) > Max16
  \/ central /\ Len(cf.comment) > Max16

write_local_header(cf) ==
  LET zip64 == needs_zip64_sizes(cf)
      extra == build_extra(cf, zip64, FALSE, 0)
  IN  <<<<"local",
          [version |-> VersionNeeded(cf, zip64), flags |-> Flags(cf),
           method |-> on_disk_method(cf), stamp |-> cf.stamp,
           crc |-> StoredCrc(cf),
           comp |-> IF zip64 THEN Max32 ELSE cf.comp,
           uncomp |-> IF zip64 THEN Max32 ELSE cf.uncomp,
           nameLen |-> Wrap16(Len(cf.name)), extraLen |-> Len(extra)]>>>>
        \o Texts("name", cf.name) \o FieldCells(extra)

write_data_descriptor(cf) ==
  IF IsAes(cf) THEN <<<<"descriptor", cf.comp, cf.uncomp>>>> ELSE <<>>

write_central_entry(cf, offset) ==
  LET zip64 == needs_zip64_sizes(cf) \/ offset > Max32
      extra == build_extra(cf, zip64, TRUE, offset)
  IN  <<<<"central",
          [version |-> VersionNeeded(cf, zip64), flags |-> Flags(cf),
           method |-> on_disk_method(cf), stamp |-> cf.stamp,
           crc |-> StoredCrc(cf), attrs |-> cf.attrs,
           comp |-> Saturated(cf.comp), uncomp |-> Saturated(cf.uncomp),
           offset |-> Saturated(offset),
           nameLen |-> Wrap16(Len(cf.name)), extraLen |-> Len(extra),
           commentLen |-> Len(cf.comment)]>>>>
        \o Texts("name", cf.name) \o FieldCells(extra) \o Texts("comment", cf.comment)

write_eocd(count, size, offset, comment) ==
  <<<<"eocd", [count |-> Wrap16(count), size |-> size, offset |-> offset,
               commentLen |-> Wrap16(Len(comment))]>>>>
    \o Texts("comment", comment)

write_eocd64(count, size, offset) ==
  <<<<"eocd64", [count |-> count, size |-> size, offset |-> offset]>>>>

write_eocd64_locator(offset) == <<<<"locator", offset>>>>

\* An entry's local header and data, and the place of it in the archive.
Member(cf) == write_local_header(cf) \o cf.data \o write_data_descriptor(cf)

Members(cfs, n) == FlattenSeq([i \in 1..n |-> Member(cfs[i])])
Offset(cfs, i) == Len(Members(cfs, i - 1))

\* The local headers and data, and the directory that goes with them.
Bodies(cfs) ==
  [out |-> Members(cfs, Len(cfs)),
   cdir |-> FlattenSeq([i \in DOMAIN cfs |-> write_central_entry(cfs[i], Offset(cfs, i))]),
   far |-> \E i \in DOMAIN cfs : needs_zip64_sizes(cfs[i]) \/ Offset(cfs, i) > Max32,
   large |-> \E i \in DOMAIN cfs :
     \/ TooLarge(cfs[i], build_extra(cfs[i], needs_zip64_sizes(cfs[i]), FALSE, 0), FALSE)
     \/ TooLarge(cfs[i], build_extra(cfs[i], TRUE, TRUE, Offset(cfs, i)), TRUE)]

\* The end of the archive, the comment only in its last record.
EndRecords(count, size, offset, far, comment) ==
  IF count > Max16 \/ size > Max32 \/ offset > Max32 \/ far
  THEN write_eocd64(count, size, offset)
         \o write_eocd64_locator(offset + size)
         \o write_eocd(Max16, Max32, Max32, comment)
  ELSE write_eocd(count, size, offset, comment)

Failure(code) == [error |-> code, cells |-> <<>>]

write_compressed(cfs, comment) ==
  LET b == Bodies(cfs)
  IN  IF b.large THEN Failure("ef_too_large")
      ELSE [error |-> "none",
            cells |-> b.out \o b.cdir
              \o EndRecords(Len(cfs), Len(b.cdir), Len(b.out), b.far, comment)]

----------------------------------------------------------------------------
(* Reading.  A result is [error |-> code], or one whose error is "none".   *)

Error(code) == [error |-> code]

Piece(cells, from, len) == SubSeq(cells, from + 1, from + len)
Tag(cells, at) == IF at \in 0..Len(cells) - 1 THEN cells[at + 1][1] ELSE "none"
Plain(texts) == [k \in DOMAIN texts |-> texts[k][2]]

\* A piece of another record inside the extra fields, as a name that is
\* longer than its length tells leaves it, does not parse.
parse_extra_fields(cells) ==
  IF \A k \in DOMAIN cells : cells[k][1] = "extra"
  THEN <<[k \in DOMAIN cells |-> [id |-> cells[k][2], data |-> cells[k][3]]]>>
  ELSE <<>>

\* The first field with an id.
Has(fields, id) == \E k \in DOMAIN fields : fields[k].id = id
DataOf(fields, id) ==
  fields[CHOOSE k \in DOMAIN fields :
           fields[k].id = id /\ \A j \in 1..k - 1 : fields[j].id # id].data

\* The values of the ZIP64 field in the order of the record's sentinels.  A
\* sentinel without a field is a value; one behind the end of the field is
\* an error.
Widened(raw, fields) ==
  LET values == DataOf(fields, "zip64")
      Sentinels(k) == Cardinality({j \in 1..k : raw[j] = Max32})
  IN  IF ~Has(fields, "zip64") THEN <<raw>>
      ELSE IF Sentinels(Len(raw)) > Len(values) THEN <<>>
      ELSE <<[k \in DOMAIN raw |-> IF raw[k] = Max32 THEN values[Sentinels(k)] ELSE raw[k]]>>

\* The real method, the cipher, and whether the checksum is one.
parse_aes_extra(fields) ==
  LET aes == DataOf(fields, "aes")
  IN  IF ~Has(fields, "aes") \/ aes_method_from_strength(aes[2]) = "unknown"
      THEN [method |-> "winzip_aes", em |-> "unknown", crcValid |-> FALSE]
      ELSE [method |-> aes[3], em |-> aes_method_from_strength(aes[2]),
            crcValid |-> aes[1] = 1]

Ciphered(fixed, fields) ==
  IF fixed.method = "winzip_aes" THEN parse_aes_extra(fields)
  ELSE [method |-> fixed.method, crcValid |-> TRUE,
        em |-> IF "encrypted" \in fixed.flags THEN "trad" ELSE "none"]

\* The path traversal guard.
Traverses(name) ==
  ".." \in ToSet(name) \/ (name # <<>> /\ name[1] \in {"/", "\\"})

parse_central(cells, at) ==
  IF Tag(cells, at) # "central" THEN Error("nozip")
  ELSE
    LET fixed == cells[at + 1][2]
        extraAt == at + 1 + fixed.nameLen
        commentAt == extraAt + fixed.extraLen
        next == commentAt + fixed.commentLen
        name == Plain(Piece(cells, at + 1, fixed.nameLen))
        fields == parse_extra_fields(Piece(cells, extraAt, fixed.extraLen))
        wide == Widened(<<fixed.uncomp, fixed.comp, fixed.offset>>, fields[1])
        cipher == Ciphered(fixed, fields[1])
    IN  IF next > Len(cells) THEN Error("eof")
        ELSE IF fields = <<>> \/ wide = <<>> \/ Traverses(name)
        THEN Error("incons")
        ELSE [error |-> "none", next |-> next,
              dirent |->
                [name |-> name, comment |-> Plain(Piece(cells, commentAt, fixed.commentLen)),
                 extra |-> fields[1], version |-> fixed.version,
                 flags |-> fixed.flags, stamp |-> fixed.stamp,
                 attrs |-> fixed.attrs, crc |-> fixed.crc,
                 uncomp |-> wide[1][1], comp |-> wide[1][2],
                 offset |-> wide[1][3], method |-> cipher.method,
                 em |-> cipher.em, crcValid |-> cipher.crcValid]]

\* Dirent::parse_local, of a header and what follows it.
parse_local(cells, at) ==
  IF Tag(cells, at) # "local" THEN Error("nozip")
  ELSE
    LET fixed == cells[at + 1][2]
        extraAt == at + 1 + fixed.nameLen
        fields == parse_extra_fields(Piece(cells, extraAt, fixed.extraLen))
        wide == Widened(<<fixed.uncomp, fixed.comp>>, fields[1])
        cipher == Ciphered(fixed, fields[1])
    IN  IF fields = <<>> \/ wide = <<>> THEN Error("incons")
        ELSE [error |-> "none", data |-> extraAt + fixed.extraLen,
              name |-> Plain(Piece(cells, at + 1, fixed.nameLen)),
              uncomp |-> wide[1][1], comp |-> wide[1][2],
              method |-> cipher.method, em |-> cipher.em]

needs_zip64(d) == d.comp > Max32 \/ d.uncomp > Max32 \/ d.offset > Max32

build_zip64_extra(d) ==
  LET values == Given(d.uncomp > Max32, d.uncomp) \o Given(d.comp > Max32, d.comp)
                  \o Given(d.offset > Max32, d.offset)
  IN  Given(values # <<>>, [id |-> "zip64", data |-> values])

\* Dirent::to_central_record, of an entry that was parsed: a ZIP64 field that
\* is needed is made anew, else the fields are kept as they were.  Mutant: a
\* stale field is kept as well.
KeptWithStale(d) == d.extra \o build_zip64_extra(d)

KeptFields(d) ==
  IF needs_zip64(d)
  THEN Without(d.extra, {"zip64"}) \o build_zip64_extra(d)
  ELSE d.extra

to_central_record(d) ==
  LET extra == KeptFields(d)
  IN  IF Len(extra) > Max16 \/ Len(d.name) > Max16 \/ Len(d.comment) > Max16
      THEN Failure("ef_too_large")
      ELSE [error |-> "none", cells |->
              <<<<"central",
                  [version |-> d.version, flags |-> d.flags,
                   method |-> IF d.em \in AesMethods THEN "winzip_aes" ELSE d.method,
                   stamp |-> d.stamp, crc |-> d.crc, attrs |-> d.attrs,
                   comp |-> Saturated(d.comp), uncomp |-> Saturated(d.uncomp),
                   offset |-> Saturated(d.offset), nameLen |-> Len(d.name),
                   extraLen |-> Len(extra), commentLen |-> Len(d.comment)]>>>>
                \o Texts("name", d.name)
                \o FieldCells(extra)
                \o Texts("comment", d.comment)]

\* As many records as parse; their number may be told modulo the width of its
\* field.
Parsed(region) ==
  LET from[at \in 0..Len(region)] ==
        LET p == parse_central(region, at)
        IN  IF p.error # "none" THEN <<>> ELSE <<p.dirent>> \o from[p.next]
  IN  from[0]

read_entries(cells, offset, size, count) ==
  IF size > MaxCdSize THEN Error("central_dir_too_large")
  ELSE IF offset + size > Len(cells) THEN Error("incons")
  ELSE LET entries == Parsed(Piece(cells, offset, size))
       IN  IF Len(entries) = count \/ Wrap16(Len(entries)) = count
           THEN [error |-> "none", entries |-> entries]
           ELSE Error("incons")

\* The last EOCD, and the ZIP64 record its locator leads to.
read_central_dir(cells) ==
  LET Ends == {at \in 0..Len(cells) - 1 : Tag(cells, at) = "eocd"}
      abs == CHOOSE at \in Ends : \A b \in Ends : b =< at
      e == cells[abs + 1][2]
      comment == Plain(Piece(cells, abs + 1, e.commentLen))
      located == Tag(cells, abs - 1) = "locator"
      there == located /\ Tag(cells, cells[abs][2]) = "eocd64"
      z == cells[cells[abs][2] + 1][2]
      r == IF there
           THEN read_entries(cells, z.offset, z.size,
                             IF e.count = Max16 THEN z.count ELSE e.count)
           ELSE read_entries(cells, e.offset, e.size, e.count)
  IN  IF Ends = {} THEN Error("nozip")
      ELSE IF r.error # "none" THEN r
      ELSE [error |-> "none", entries |-> r.entries, comment |-> comment,
            zip64 |-> located]

=============================================================================
