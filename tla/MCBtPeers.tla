----------------------------- MODULE MCBtPeers ------------------------------
(* Lists of up to three lines (one more than there is room for), among them *)
(* empty ones, lines that just fit a url or buf and ones that do not, lines *)
(* without a port, and an end of the file with or without a newline.       *)
EXTENDS BtPeers

MCChar  == {"h", "1", "2", Colon}
MCDigit == {"1", "2"}

MCLines ==
  { << >>, <<"h", "h">>, <<"h", Colon>>, <<"1", Colon, "2">>, <<"h", Colon, "1", "2">>,
    <<Colon, "h", Colon, "1">>, <<"h", "h", Colon, "1", "2">>,
    <<"h", "h", "h", "h", Colon, "1">>, <<"h", "h", "h", "h", Colon, "1", "2">> }

MCRests == { << >>, <<"h", Colon, "1">>, <<"h", "h", "h", "h", Colon, "1">> }

MCPeerFiles ==
  [lines : UNION {[1 .. n -> MCLines] : n \in 0 .. 3}, rest : MCRests]

\* memory behind a url that begins with a zero, with a letter, with a colon or with a digit
MCResidues == { << >>, <<"h">>, <<Colon, "1">>, <<"1", "h">>, <<"2", "1">> }
=============================================================================
