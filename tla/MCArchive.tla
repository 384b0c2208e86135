------------------------------ MODULE MCArchive ------------------------------
(* ArchiveReader on a handful of archives, one for each thing that may be    *)
(* special about one.                                                        *)
EXTENDS ArchiveReader, TLC

CONSTANTS t1, t2

MCThreads == {t1, t2}
Symmetric == Permutations(MCThreads)

Noon == [time |-> 24576, date |-> 22110]   \* the 30th of February 2023
Named(name, data) ==
  [name |-> name, data |-> data, comment |-> <<>>, extra |-> <<>>,
   stamp |-> Noon, attrs |-> 0, method |-> None]
A(data) == Named(<<"a">>, data)
B(data) == Named(<<"b">>, data)
Deflated(f) == [f EXCEPT !.method = "deflate"]

Batch(files) ==
  [call |-> "archive", files |-> files, method |-> "store", parallel |-> TRUE,
   workers |-> 2, pw |-> "right", methods |-> <<>>, comment |-> <<>>]
Locked(files, methods) ==
  [Batch(files) EXCEPT !.call = "encrypted", !.methods = methods, !.parallel = FALSE]

\* Archives that are read.
Plain3 == Batch(<<A(<<"1", "2">>), Deflated(B(<<"3", "3", "3">>)), A(<<"4">>)>>)
Large == Batch(<<A(<<"1", "1", "2", "2", "3", "3", "4">>), Deflated(B(<<"5", "5", "5", "5", "5", "5", "5">>))>>)
Trad == Locked(<<A(<<"1", "2", "3">>), Deflated(B(<<"4", "4">>))>>, <<"trad", "trad">>)
Aes == Locked(<<A(<<"1", "2">>), B(<<"3">>)>>, <<"aes128", "none">>)
\* Both over the limit: an AES entry, and a stored one that is read in pieces.
Huge == Locked(<<A(<<"1", "2", "1", "2", "1", "2", "1", "2">>),
                 B(<<"1", "2", "3", "1", "2", "3", "1", "2", "3", "1", "2">>)>>,
               <<"aes128", "none">>)
Full ==
  [Locked(<<Deflated([A(<<"1", "1">>) EXCEPT !.comment = <<"c">>,
               !.extra = <<[id |-> "user", data |-> <<1>>], [id |-> "aes", data |-> <<9>>]>>,
               !.stamp = [time |-> 29, date |-> 10751], !.attrs = 1]),
            A(<<>>)>>, <<"aes256", "trad">>)
     EXCEPT !.call = "full", !.comment = <<"x", "y">>, !.parallel = TRUE]

\* Archives at an edge of the format, and calls that fail.
Many == Batch([k \in 1..4 |-> [A(<<>>) EXCEPT !.stamp = [time |-> 0, date |-> 0]]])
Sentinel == Batch(<<A(<<"1", "2", "3", "4", "5", "6">>), A(<<"1", "2", "3", "4", "5", "6">>)>>)
Crowded == Batch([k \in 1..3 |-> Named(<<"d", "a", "b">>, <<"1">>)])
Edges ==
  {Many, Sentinel, Crowded,
   Batch(<<Named(<<"..", "a">>, <<"1">>)>>), Batch(<<Named(<<"a", "b", "c", "d">>, <<"1">>)>>),
   Batch(<<>>),
   Batch(<<A(<<"1">>), [B(<<"2">>) EXCEPT !.method = "lzma"], A(<<"3">>)>>),
   Batch(<<[A(<<"1">>) EXCEPT !.comment = <<"a", "b", "c", "d">>]>>),
   Batch(<<[A(<<"1">>) EXCEPT !.extra = <<[id |-> "user", data |-> <<1, 2, 3, 4>>]>>]>>),
   Locked(<<A(<<"1">>)>>, <<"none", "trad">>), Locked(<<A(<<"1">>)>>, <<"pkware">>),
   [Locked(<<>>, <<>>) EXCEPT !.call = "full", !.comment = <<"a", "b", "c", "d">>],
   [Locked(<<A(<<"1">>)>>, <<>>) EXCEPT !.call = "full"]}

MCJobs == {Plain3, Large, Trad, Aes, Huge, Full} \cup Edges

\* Below, beyond and at the largest value of a field of 32 bits.
SizesNearby == {Plain3, Large, Sentinel}

=============================================================================
