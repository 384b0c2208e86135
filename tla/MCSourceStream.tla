---------------------------- MODULE MCSourceStream ----------------------------
(* A content of two bytes, ranges that end before, at and behind the end of *)
(* it, chains of up to three sources.                                       *)
EXTENDS SourceStream

MCFiles == {<<"a", "b">>}

MCFragments ==
  {<<>>,
   <<[data |-> <<"b">>, length |-> 1], [data |-> <<>>, length |-> 0],
     [data |-> <<"a">>, length |-> 1]>>,
   <<[data |-> <<"a">>, length |-> 1], [data |-> <<>>, length |-> 2]>>}

MCRanges == {<<1, 1>>, <<1, 9>>, <<2, -2>>, <<3, 0>>, <<1, -3>>}
MCLayerings ==
  {<<"crc">>, <<"compress">>, <<"pass">>, <<"crc", "compress">>, <<"pass", "crc">>}

MCTargets == {<<0, "set">>, <<1, "set">>, <<-1, "cur">>, <<0, "end">>,
              <<0, "bad">>}
MCWriteData == {<<"c">>}
=============================================================================
