------------------------------- MODULE Digest -------------------------------
(***************************************************************************)
(* What MD5 promises its callers, whatever pieces they hand it: the digest *)
(* is that of all octets since the last initialisation, in their order.    *)
(* The compression of blocks is a function nobody looks into, so a digest  *)
(* is identified with the padded message it compresses (RFC 1321, 3.1 and  *)
(* 3.2).                                                                   *)
(***************************************************************************)
EXTENDS Integers, Sequences

CONSTANTS Block,     \* octets in a block
          Field,     \* octets of the length field at the end of the last block
          LoMod,     \* the lower half of the length counts octets modulo this
          HiMod      \* and the upper half its overflows, modulo this

VARIABLES arg,       \* the octets handed over by the last call
          msg,       \* those handed over since the initialisation
          out        \* the last digest

Length(n) ==
    [i \in 1..Field |-> IF i <= Field \div 2 THEN <<"lo", i, n % LoMod>>
                                             ELSE <<"hi", i, (n \div LoMod) % HiMod>>]

\* As many zeros as it takes to end a block with the length.
Zeros(n) == (Block - ((n + 1 + Field) % Block)) % Block

Padded(m) == m \o << <<"80">> >> \o [i \in 1..Zeros(Len(m)) |-> <<"0">>] \o Length(Len(m))

Init == arg = <<>> /\ msg = <<>> /\ out = <<>>

Start  == msg' = <<>> /\ arg' = <<>> /\ UNCHANGED out
Feed   == msg' = msg \o arg' /\ UNCHANGED out
Finish == out' = Padded(msg) /\ msg' = <<>> /\ arg' = <<>>

Next == Start \/ Feed \/ Finish

Spec == Init /\ [][Next]_<<arg, msg, out>>
=============================================================================
