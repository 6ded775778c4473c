--------------------------- MODULE MCCredentials ---------------------------
(***************************************************************************)
(* Credentials for TLC: the lines files are made of, and users, hashes and *)
(* salts small enough for blocks of four octets.                           *)
(***************************************************************************)
EXTENDS Credentials

\* A line that says what its author means, and a piece of text that may stand
\* anywhere.
Proper(t, u, h) == [text |-> t \o <<NL>>, clean |-> TRUE, says |-> <<[user |-> u, hash |-> h]>>]
Blank(t)        == [text |-> t \o <<NL>>, clean |-> TRUE, says |-> <<>>]
Piece(t)        == [text |-> t, clean |-> FALSE, says |-> <<>>]

Unended(t, u, h) == [text |-> t, clean |-> FALSE, says |-> <<[user |-> u, hash |-> h]>>]

H1 == <<"b">>
H3 == <<"a", "b", "n">>
H7 == <<"b", "a", "n", "b", "b", "a", "n">>

MCLines == {
    Proper(<<"a", " ", "md5", " ">> \o H3, <<"a">>, H3),
    Proper(<<"a", " ", "md5", " ">> \o H1, <<"a">>, H1),
    Proper(<<"b", " ", " ", "md5", " ", "'">> \o H7 \o <<"'", " ", "#", "a">>, <<"b">>, H7),
    Proper(<<" ", "dq", "b", BS, "n", BS, "dq", "dq", " ", "md5", " ", "a", "b", "n">>,
           <<"b", NL, "dq">>, H3),
    Blank(<<" ", "#", "a", " ", "md5", "'">>),
    Blank(<<>>),
    Unended(<<"a", " ", "md5", " ">> \o H3, <<"a">>, H3),
    Piece(<<"a", " ", "'", "md5", "'", " ", "b", NL>>),
    Piece(<<"a", " ", "md5", " ", "dq", BS, NUL, "dq">>),
    Piece(<<"a", " ", "#", NL>>),
    Piece(<<" ", "md5">>), Piece(<<"a">>), Piece(<<" ">>), Piece(<<"#">>), Piece(<<"'">>),
    Piece(<<BS>>), Piece(<<NUL>>)}

MCUsers   == {<<"a">>, <<"b">>, <<"b", NL, "dq">>}
MCSecrets == {H1, H3, H7}
MCSalt    == <<"n", "#">>
MCSalt2   == <<"b", "n">>
MCText    == <<"a", "b", "n", "n", "a", "a", "b", "n", "b", "b", "a", "n", "n", "b", "a", "a", "a",
               "n", "b">>
=============================================================================
