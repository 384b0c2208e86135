---------------------------- MODULE ArchiveWriter ----------------------------
(***************************************************************************)
(* The write path of zip_core (compress.rs): a batch of files is           *)
(* compressed, by one thread or by a pool of workers that finish in any    *)
(* order, encrypted entry by entry, and laid out as one archive.           *)
(*                                                                         *)
(* A file's content is a sequence of bytes.  Stored bytes are cells of     *)
(* their own; a deflated content is one cell, whatever its length.  A      *)
(* cipher cell carries the key it was made with and its place in the key   *)
(* stream: only there does it decrypt.                                     *)
(***************************************************************************)
EXTENDS ZipRecords

CONSTANTS
  Jobs,            \* the calls of the writer: files and options
  Salts,           \* what random_salt may return
  LargeThreshold,  \* large_file_threshold
  Twins,           \* passwords that agree in their check bytes
  None

\* What a call is given.  No byte of a content is "garbage": that is what a wrong
\* key makes of one.
Files ==
  [name : Seq(STRING), data : Seq(STRING \ {"garbage"}), comment : Seq(STRING),
   extra : Seq([id : STRING, data : Seq(Nat)]), attrs : Nat,
   stamp : [time : Nat, date : Nat], method : STRING \cup {None}]

ASSUME JobsAssumption ==
  Jobs \subseteq
    [call : {"archive", "encrypted", "full"}, files : Seq(Files), method : STRING,
     parallel : BOOLEAN, workers : Nat, pw : STRING, methods : Seq(STRING),
     comment : Seq(STRING)]

VARIABLES
  job,      \* the call
  slots,    \* per file: "todo", "busy", or what compress_file returned
  archive   \* what the call returned

writerVars == <<job, slots, archive>>

Todo == [state |-> "todo"]
Busy == [state |-> "busy"]

WriterInit ==
  /\ job \in Jobs
  /\ slots = [i \in DOMAIN job.files |-> Todo]
  /\ archive = None

----------------------------------------------------------------------------
(* compress_file.                                                          *)

compress_bytes(data, method) ==
  IF method = "store" THEN Texts("byte", data) ELSE <<<<"deflated", data>>>>

compress_file(f) ==
  LET method == IF f.method = None THEN job.method ELSE f.method
      data == compress_bytes(f.data, method)
  IN  IF method \notin {"store", "deflate"}
      THEN [state |-> "error", error |-> "comp_not_supp"]
      ELSE [state |-> "done",
            cf |-> [name |-> f.name, method |-> method, crc |-> f.data,
                    comp |-> Len(data), uncomp |-> Len(f.data), data |-> data,
                    em |-> "none", comment |-> f.comment, extra |-> f.extra,
                    stamp |-> f.stamp, attrs |-> f.attrs]]

With(state) == {i \in DOMAIN slots : slots[i].state = state}
Failed == With("error")

\* compress_files_parallel_or_serial; write_archive_full polls its progress
\* and never uses the pool.
UsesPool ==
  /\ job.parallel /\ job.call # "full"
  /\ Len(job.files) > 1
  /\ \A i \in DOMAIN job.files : Len(job.files[i].data) < LargeThreshold

InFlight == IF UsesPool THEN job.workers ELSE 1

\* A worker takes any file, also before it hears of another's error; one
\* thread takes the first, and none after an error.
TakeFile(i) ==
  /\ archive = None
  /\ slots[i].state = "todo"
  /\ Cardinality(With("busy")) < InFlight
  /\ UsesPool \/ (Failed = {} /\ \A j \in With("todo") : i =< j)
  /\ slots' = [slots EXCEPT ![i] = Busy]
  /\ UNCHANGED <<job, archive>>

\* Mutant: results are collected as they come.
FinishInTurn(i) ==
  /\ slots[i].state = "busy"
  /\ LET k == Cardinality(With("done")) + 1
     IN  slots' = [slots EXCEPT ![i] = slots[k], ![k] = compress_file(job.files[i])]
  /\ UNCHANGED <<job, archive>>

FinishFile(i) ==
  /\ slots[i].state = "busy"
  /\ slots' = [slots EXCEPT ![i] = compress_file(job.files[i])]
  /\ UNCHANGED <<job, archive>>

----------------------------------------------------------------------------
(* Encryption.                                                             *)

\* The bytes that tell a wrong password, of the header or after the salt.
CheckOf(pw) == IF pw \in Twins THEN "twin" ELSE pw

\* encrypt_data: the header, whose last byte is the checksum's, and the data.
encrypt_data(pw, crc, data) ==
  <<<<"header", pw, crc>>>>
    \o [k \in DOMAIN data |-> <<"crypt", pw, k, data[k]>>]

\* AES in counter mode under a key that password and salt derive.
aes_ctr(pw, salt, data) == [k \in DOMAIN data |-> <<"aes", pw, salt, k, data[k]>>]

aes_encrypt_data(pw, em, data, salt) ==
  LET cipher == aes_ctr(pw, salt, data)
  IN  <<<<"salt", em, salt>>, <<"verify", CheckOf(pw), salt>>>>
        \o cipher \o <<<<"hmac", pw, salt, cipher>>>>

Replaced(cf, em, data) == [cf EXCEPT !.data = data, !.comp = Len(data), !.em = em]

Encrypted(cf, em, salt) ==
  CASE em = "none" -> cf
    [] em = "trad" -> Replaced(cf, em, encrypt_data(job.pw, cf.crc, cf.data))
    [] OTHER -> Replaced(cf, em, aes_encrypt_data(job.pw, em, cf.data, salt))

\* write_archive and an empty list of methods encrypt nothing.
Methods ==
  IF job.call = "archive" \/ (job.call = "full" /\ job.methods = <<>>)
  THEN [i \in DOMAIN job.files |-> "none"] ELSE job.methods

Supported == {"none", "trad"} \cup AesMethods

EncryptionError ==
  CASE Len(Methods) # Len(job.files) -> "inval"
    [] \E i \in DOMAIN Methods : Methods[i] \notin Supported -> "encr_not_supp"
    [] OTHER -> "none"

Comment == IF job.call = "full" THEN job.comment ELSE <<>>

\* What is written for results r, each entry with its salt.
Written(r, salt) ==
  write_compressed([i \in DOMAIN r |-> Encrypted(r[i].cf, Methods[i], salt[i])],
                   Comment)

AesEntries == {i \in DOMAIN Methods : Methods[i] \in AesMethods}

WriteArchive ==
  /\ archive = None
  /\ With("todo") \cup With("busy") \cup Failed = {}
  /\ IF EncryptionError # "none" THEN archive' = Failure(EncryptionError)
     ELSE \E s \in [AesEntries -> Salts] :
            archive' = Written(slots, [i \in DOMAIN slots |->
                                         IF i \in AesEntries THEN s[i] ELSE None])
  /\ UNCHANGED <<job, slots>>

\* The workers under way are waited for.
GiveUp ==
  /\ archive = None
  /\ Failed # {} /\ With("busy") = {}
  /\ archive' = Failure("comp_not_supp")
  /\ UNCHANGED <<job, slots>>

WriterNext ==
  \/ \E i \in DOMAIN slots : TakeFile(i) \/ FinishFile(i)
  \/ WriteArchive \/ GiveUp

----------------------------------------------------------------------------
(* Properties.                                                             *)

\* What one thread returns, that compresses the files in their order.
SerialResult == [i \in DOMAIN job.files |-> compress_file(job.files[i])]

\* What one thread may return, with one salt or another.
Serially(a) ==
  IF \E i \in DOMAIN job.files : SerialResult[i].state = "error"
  THEN a = Failure("comp_not_supp")
  ELSE IF EncryptionError # "none" THEN a = Failure(EncryptionError)
  ELSE \E salt \in [DOMAIN job.files -> Salts \cup {None}] :
         a = Written(SerialResult, salt)

\* compress_files: "byte-identical to serial mode".  Whatever the number of
\* workers and their order, the archive is the one a single thread writes,
\* but for the salts, and where the batch fails it fails alike.
WorkersLeaveNoTrace == archive # None => Serially(archive)

=============================================================================
