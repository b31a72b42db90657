--------------------------- MODULE MCCommandCodec ---------------------------
(***************************************************************************)
(* CommandCodec for TLC: fields of two symbols, nonces 0 and 1, a long of  *)
(* 32 bits. Lines are up to three of the pieces in any order, joined by    *)
(* semicolons, and one piece repeated past the length of a frame.          *)
(***************************************************************************)
EXTENDS CommandCodec

MCSymbols ==
    TextKeys \cup {"type", "nonce", "=", ";", "\n", "a", "0", "1", "2"}
    \cup UNION {Range(TypeWords[t]) : t \in Types}
MCNumeral == [n \in 0..2 |-> <<"0", "1", "2">>[n + 1]]
MCTexts ==
    {<<>>, <<"a">>, <<"=">>, <<"a", "=">>, <<"=", "a">>, <<"a", "\n">>,
     <<"\n", "a">>, <<";", "a">>, <<"type", "=">>}
MCPieces ==
    {Pair("type", <<"REQUEST_FILL">>), Pair("type", <<"REQUEST_FILL", "a">>),
     Pair("type", <<"REQUEST_GENERATE", "a">>),
     Pair("type", <<"REQUEST_SELECT_N">>),
     Pair("nonce", <<"1">>), Pair("nonce", <<"2">>), Pair("nonce", <<>>),
     Pair("origin", <<"a">>), Pair("origin", <<"=", "a", "a">>),
     Pair("password", <<"a">>), Pair("password", <<"a", "\n">>),
     <<"a">>, <<"=">>, <<>>, <<"\n">>}

Joined(pieces) ==
    FlattenSeq([i \in DOMAIN pieces |->
        IF i = 1 THEN pieces[i] ELSE <<";">> \o pieces[i]])
MCLines ==
    {Joined(pieces) : pieces \in BoundedSeq(MCPieces, 3)}
    \cup {Joined(<<Pair("type", <<"REQUEST_SAVE">>)>>
                  \o [i \in 1..n |-> <<"origin", "=">>]) : n \in 5..8}

=============================================================================
