------------------------------- MODULE MCMBuf -------------------------------
(***************************************************************************)
(* MBuf for TLC: a header of two octets, a buffer of six, and a stream of  *)
(* five messages: one of three octets, one of two without a type octet,    *)
(* one that does not fit into the buffer, and two more behind it.          *)
(***************************************************************************)
EXTENDS MBuf

MCLast   == 18
MCStarts == {0, 3, 5, 13, 15}
MCMsgEnd == [p \in MCStarts |->
                CASE p = 0 -> 3 [] p = 3 -> 5 [] p = 5 -> 13 [] p = 13 -> 15 [] p = 15 -> 18]
MCUntyped == {3}
MCFinal  == {15}
MCRefusals == {5}
=============================================================================
