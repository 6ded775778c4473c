-------------------------------- MODULE Md5 --------------------------------
(***************************************************************************)
(* The streaming part of src/md5.c: the octets of a message come in pieces *)
(* of any length, whole blocks are compressed as soon as they are complete *)
(* and the rest waits in ctx->buf.                                         *)
(*                                                                         *)
(* The registers a, b, c, d are what body() has made of the blocks it was  *)
(* given, so they are replaced by those blocks (md) and by the values they *)
(* started from (iv).  Block, Field, LoMod and HiMod stand for 64, 8, 2^29 *)
(* and 2^32.  An octet is <<"data", c>> if it is one of the message, and   *)
(* else says where it comes from.                                          *)
(***************************************************************************)
EXTENDS Integers, Sequences

CONSTANTS Block, Field, LoMod, HiMod

ASSUME Md5Assumption ==
    /\ Block \in Nat /\ Field \in Nat /\ Field < Block /\ Field % 2 = 0
    /\ LoMod \in Nat \ {0} /\ LoMod % Block = 0
    /\ HiMod \in Nat \ {0}

VARIABLES iv,          \* where a, b, c, d started: "std", "zero", or not set yet
          md,          \* the octets compressed into them since
          lo, hi,      \* ctx->lo, ctx->hi
          mdbuf,       \* ctx->buf
          out,         \* the last result, and the iv it was computed from
          sizes,       \* history: the sizes body was called with
          arg          \* history: the octets of the last call

mdVars == <<iv, md, lo, hi, mdbuf, out, sizes, arg>>

Stray == <<"stray">>
Zero  == <<"0">>

\* memcpy(&ctx->buf[at], d, Len(d)), and memset with zeros.
Copied(b, at, d)  == [i \in 1..Block |-> IF i \in (at + 1)..(at + Len(d)) THEN d[i - at] ELSE b[i]]
Cleared(b, at, n) == Copied(b, at, [i \in 1..n |-> Zero])

MdInit ==
    /\ iv = "unset" /\ md = <<>> /\ lo = 0 /\ hi = 0
    /\ mdbuf = [i \in 1..Block |-> Stray]
    /\ out = <<>> /\ sizes = {} /\ arg = <<>>

\* pgr_md5_init(): the buffer keeps what it held.
pgr_md5_init ==
    /\ iv' = "std" /\ md' = <<>> /\ lo' = 0 /\ hi' = 0
    /\ arg' = <<>>
    /\ UNCHANGED <<mdbuf, sizes, out>>

\* ctx->hi once size octets are counted: a sum that is smaller than before has
\* wrapped, and size may itself be larger than lo can count.
Carry(size) ==
    (hi + (IF (lo + size) % LoMod < lo THEN 1 ELSE 0) + (size \div LoMod)) % HiMod

\* Mutant: the remainder of the data is compressed with the whole blocks.
update_all_blocks(d) ==
    LET used      == lo % Block
        available == Block - used
        size      == Len(d)
        rest      == IF used = 0 THEN d ELSE SubSeq(d, available + 1, size)
        first     == Copied(mdbuf, used, SubSeq(d, 1, available))
        whole     == Len(rest)
    IN /\ lo' = (lo + size) % LoMod
       /\ hi' = Carry(size)
       /\ IF used # 0 /\ size < available
          THEN mdbuf' = Copied(mdbuf, used, d) /\ UNCHANGED <<md, sizes>>
          ELSE /\ md' = md \o (IF used = 0 THEN <<>> ELSE first) \o SubSeq(rest, 1, whole)
               /\ sizes' = sizes \union (IF used = 0 THEN {} ELSE {Block})
                                 \union (IF Len(rest) < Block THEN {} ELSE {whole})
               /\ mdbuf' = Copied(IF used = 0 THEN mdbuf ELSE first, 0,
                                  SubSeq(rest, whole + 1, Len(rest)))
       /\ arg' = d
       /\ UNCHANGED <<iv, out>>

\* pgr_md5_update(): fills up a block that was begun, and compresses it; then
\* compresses the whole blocks of the data where they are, in one call of body;
\* then keeps the rest.
pgr_md5_update(d) ==
    LET used      == lo % Block
        available == Block - used
        size      == Len(d)
        rest      == IF used = 0 THEN d ELSE SubSeq(d, available + 1, size)
        first     == Copied(mdbuf, used, SubSeq(d, 1, available))
        whole     == Len(rest) - (Len(rest) % Block)
    IN /\ lo' = (lo + size) % LoMod
       /\ hi' = Carry(size)
       /\ IF used # 0 /\ size < available
          THEN mdbuf' = Copied(mdbuf, used, d) /\ UNCHANGED <<md, sizes>>
          ELSE /\ md' = md \o (IF used = 0 THEN <<>> ELSE first) \o SubSeq(rest, 1, whole)
               /\ sizes' = sizes \union (IF used = 0 THEN {} ELSE {Block})
                                 \union (IF Len(rest) < Block THEN {} ELSE {whole})
               /\ mdbuf' = Copied(IF used = 0 THEN mdbuf ELSE first, 0,
                                  SubSeq(rest, whole + 1, Len(rest)))
       /\ arg' = d
       /\ UNCHANGED <<iv, out>>

\* The length field: ctx->lo << 3 and ctx->hi, octet by octet.
LengthField ==
    [i \in 1..Field |-> IF i <= Field \div 2 THEN <<"lo", i, lo>> ELSE <<"hi", i, hi>>]

\* Mutant: a block of its own is used for the length one octet too late.
NoRoomLate(available) == available < Field - 1

\* Does the length not fit behind the data and the octet 0x80?
NoRoom(available) == available < Field

\* pgr_md5_raw(): the padding, in one or two blocks, and the result; the context
\* is zeroed.
pgr_md5_raw ==
    LET used   == (lo % Block) + 1
        ended  == Copied(mdbuf, used - 1, << <<"80">> >>)
        full   == Cleared(ended, used, Block - used)
        last(b, at) == Copied(Cleared(b, at, Block - at - Field), Block - Field, LengthField)
    IN /\ out' = <<iv, IF NoRoom(Block - used) THEN md \o full \o last(full, 0)
                                               ELSE md \o last(ended, used)>>
       /\ sizes' = sizes \union {Block} /\ arg' = <<>>
       /\ iv' = "zero" /\ md' = <<>> /\ lo' = 0 /\ hi' = 0
       /\ mdbuf' = [i \in 1..Block |-> Zero]

-----------------------------------------------------------------------------
(* Properties. *)

\* body() loops `while (size -= 64)`: any size but a positive multiple of a block
\* would make it run through all of memory.
WholeBlocks == \A n \in sizes : n > 0 /\ n % Block = 0

\* The octets of the message at hand: those compressed and those in the buffer.
Message == IF iv = "std" THEN md \o SubSeq(mdbuf, 1, lo % Block) ELSE <<>>

\* hi and lo count the octets of the message, and nothing of another message is
\* among them.
Counted ==
    iv = "std" =>
        /\ lo = Len(Message) % LoMod
        /\ hi = (Len(Message) \div LoMod) % HiMod

\* Every octet of a message is compressed in a whole block, or is in the buffer,
\* and is counted once, however the message is cut up.
Accounted == WholeBlocks /\ Counted

\* What a caller sees is the digest of the octets it has handed over since the
\* initialisation, in their order, however they were cut into pieces.
D == INSTANCE Digest WITH
         msg <- Message,
         out <- IF out = <<>> THEN <<>> ELSE IF out[1] = "std" THEN out[2] ELSE <<Stray>>
ComputesDigest == D!Spec
=============================================================================
