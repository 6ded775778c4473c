------------------------- MODULE CredentialsProofs -------------------------
(***************************************************************************)
(* Proofs about the lexer of authdb.c, the streaming of md5.c and what     *)
(* check_auth and password_message make of them.                           *)
(***************************************************************************)
EXTENDS Credentials, SequenceTheorems, FiniteSetTheorems, WellFoundedInduction, TLAPS

-----------------------------------------------------------------------------
(* Quotients and remainders. *)

LEMMA DivMod ==
    ASSUME NEW a \in Nat, NEW b \in Nat \ {0}
    PROVE  /\ a \div b \in Nat /\ a % b \in 0..(b - 1)
           /\ a = b * (a \div b) + (a % b)
BY SMT

LEMMA Multiples ==
    ASSUME NEW b \in Nat \ {0}, NEW q \in Int, NEW p \in Int, q < p
    PROVE  b * q + b <= b * p
<1>1. PICK k \in Nat : p = q + 1 + k
  <2>1. p - q - 1 \in Nat /\ p = q + 1 + (p - q - 1) OBVIOUS
  <2> QED BY <2>1
<1>2. b * p = b * q + b + b * k BY <1>1
<1>3. b * k \in Nat OBVIOUS
<1> QED BY <1>2, <1>3

\* There is one way only to write a number as a multiple and a remainder.
LEMMA DivModIs ==
    ASSUME NEW b \in Nat \ {0}, NEW q \in Nat, NEW r \in 0..(b - 1)
    PROVE  (b * q + r) \div b = q /\ (b * q + r) % b = r
<1> DEFINE a == b * q + r
           p == a \div b
           s == a % b
<1>1. a \in Nat /\ b * q \in Nat /\ a = b * q + r OBVIOUS
<1>2. p \in Nat /\ s \in 0..(b - 1) /\ a = b * p + s BY <1>1, DivMod
<1>3. b * p \in Nat BY <1>2
<1> HIDE DEF a, p, s
<1>4. ~(p < q) BY <1>1, <1>2, <1>3, Multiples
<1>5. ~(q < p) BY <1>1, <1>2, <1>3, Multiples
<1>6. p = q BY <1>2, <1>4, <1>5
<1>7. s = r BY <1>1, <1>2, <1>6
<1> QED BY <1>6, <1>7 DEF a, p, s

LEMMA ModSmall ==
    ASSUME NEW b \in Nat \ {0}, NEW r \in 0..(b - 1)
    PROVE  r % b = r /\ r \div b = 0
<1>1. b * 0 + r = r OBVIOUS
<1> QED BY <1>1, DivModIs

LEMMA Distributed ==
    ASSUME NEW b \in Nat, NEW q \in Nat, NEW r \in Nat, NEW p \in Nat, NEW t \in Nat,
           NEW s \in Nat, r + s = b * p + t
    PROVE  (b * q + r) + s = b * (q + p) + t
<1>1. b * (q + p) = b * q + b * p OBVIOUS
<1>2. PICK x \in Nat : x = b * q OBVIOUS
<1>3. PICK y \in Nat : y = b * p OBVIOUS
<1> QED BY <1>1, <1>2, <1>3

LEMMA ModAdd ==
    ASSUME NEW b \in Nat \ {0}, NEW a \in Nat, NEW s \in Nat
    PROVE  ((a % b) + s) % b = (a + s) % b
<1>1. PICK q \in Nat, r \in 0..(b - 1) : a = b * q + r /\ r = a % b BY DivMod
<1>2. PICK p \in Nat, t \in 0..(b - 1) : r + s = b * p + t /\ t = (r + s) % b
  <2>1. r + s \in Nat OBVIOUS
  <2> QED BY <2>1, DivMod
<1>3. a + s = b * (q + p) + t
  <2>1. r \in Nat /\ t \in Nat OBVIOUS
  <2>2. (b * q + r) + s = b * (q + p) + t BY <1>2, <2>1, Distributed
  <2> QED BY <1>1, <2>2
<1>4. q + p \in Nat OBVIOUS
<1>5. (b * (q + p) + t) % b = t BY <1>4, DivModIs
<1> QED BY <1>1, <1>2, <1>3, <1>5

\* A remainder modulo a multiple of b keeps the remainder modulo b.
LEMMA ModMod ==
    ASSUME NEW b \in Nat \ {0}, NEW m \in Nat \ {0}, m % b = 0, NEW a \in Nat
    PROVE  (a % m) % b = a % b
<1>1. PICK k \in Nat : m = b * k
  <2>1. m \div b \in Nat /\ m = b * (m \div b) + 0 BY DivMod
  <2>2. b * (m \div b) \in Nat BY <2>1
  <2> QED BY <2>1, <2>2
<1>2. PICK q \in Nat, r \in 0..(m - 1) : a = m * q + r /\ r = a % m BY DivMod
<1>3. PICK p \in Nat, t \in 0..(b - 1) : r = b * p + t /\ t = r % b
  <2>1. r \in Nat OBVIOUS
  <2> QED BY <2>1, DivMod
<1>4. PICK j \in Nat : j = k * q OBVIOUS
<1>5. m * q = b * j BY <1>1, <1>4
<1>6. r \in Nat /\ r + 0 = b * p + t BY <1>3
<1>7. (b * j + r) + 0 = b * (j + p) + t BY <1>6, Distributed
<1>8. a = b * (j + p) + t
  <2>1. PICK x \in Nat : x = b * j OBVIOUS
  <2> QED BY <1>2, <1>5, <1>6, <1>7, <2>1
<1>9. j + p \in Nat OBVIOUS
<1>10. (b * (j + p) + t) % b = t BY <1>9, DivModIs
<1> QED BY <1>2, <1>3, <1>8, <1>10

LEMMA ModSum ==
    ASSUME NEW b \in Nat \ {0}, NEW a \in Nat, NEW s \in Nat, a % b = 0
    PROVE  (a + s) % b = s % b
<1>1. ((a % b) + s) % b = (a + s) % b BY ModAdd
<1>2. (a % b) + s = s OBVIOUS
<1> QED BY <1>1, <1>2

\* What is left of n without its remainder is a multiple.
LEMMA WholeIs ==
    ASSUME NEW b \in Nat \ {0}, NEW n \in Nat
    PROVE  /\ n - (n % b) \in 0..n /\ (n - (n % b)) % b = 0
           /\ n >= b => n - (n % b) > 0
<1>1. PICK q \in Nat, r \in 0..(b - 1) : n = b * q + r /\ r = n % b BY DivMod
<1>2. b * q \in Nat /\ n - r = b * q /\ b * q = b * q + 0 BY <1>1
<1>3. (b * q) % b = 0 BY <1>2, DivModIs
<1> QED BY <1>1, <1>2, <1>3

\* Does the lower half of a count n wrap when s is added?
Overflow(n, s, m) == IF ((n % m) + s) % m < n % m THEN 1 ELSE 0

\* Adding s octets to n in two halves: the upper half counts what the lower half
\* has lost, once by its overflow and once for every LoMod octets of s.
LEMMA Carried ==
    ASSUME NEW m \in Nat \ {0}, NEW h \in Nat \ {0}, NEW n \in Nat, NEW s \in Nat
    PROVE  (((n \div m) % h) + Overflow(n, s, m) + (s \div m)) % h = ((n + s) \div m) % h
<1>0. PICK c \in {0, 1} : c = Overflow(n, s, m) BY DEF Overflow
<1>1. PICK q \in Nat, l \in 0..(m - 1) : n = m * q + l /\ l = n % m /\ q = n \div m BY DivMod
<1>2. PICK p \in Nat, v \in 0..(m - 1) : s = m * p + v /\ v = s % m /\ p = s \div m BY DivMod
<1>3. q % h \in Nat BY DivMod
<1>4. CASE l + v < m
  <2>1. l + v \in 0..(m - 1) BY <1>4
  <2>2. l + s = m * p + (l + v)
    <3>1. PICK x \in Nat : x = m * p OBVIOUS
    <3> QED BY <1>2, <3>1
  <2>3. (l + s) % m = l + v BY <2>1, <2>2, DivModIs
  <2>4. c = 0 BY <1>0, <1>1, <2>3 DEF Overflow
  <2>5. n + s = m * (q + p) + (l + v)
    <3>1. l + v \in Nat /\ l \in Nat OBVIOUS
    <3>2. (m * q + l) + s = m * (q + p) + (l + v) BY <2>2, <3>1, Distributed
    <3> QED BY <1>1, <3>2
  <2>6. q + p \in Nat OBVIOUS
  <2>7. (n + s) \div m = q + p BY <2>1, <2>5, <2>6, DivModIs
  <2>8. ((q % h) + p) % h = (q + p) % h BY ModAdd
  <2>9. (q % h) + c + p = (q % h) + p BY <1>3, <2>4
  <2> QED BY <1>0, <1>1, <1>2, <2>7, <2>8, <2>9
<1>5. CASE l + v >= m
  <2>0. PICK w \in 0..(m - 1) : w = l + v - m BY <1>5
  <2>1. w < l BY <2>0
  <2>2. l + s = m * (p + 1) + w
    <3>1. PICK x \in Nat : x = m * p OBVIOUS
    <3>2. m * (p + 1) = x + m BY <3>1
    <3>3. s = x + v BY <1>2, <3>1
    <3>4. l + (x + v) = (x + m) + w BY <2>0
    <3> QED BY <3>2, <3>3, <3>4
  <2>3. (l + s) % m = w
    <3>1. p + 1 \in Nat OBVIOUS
    <3>2. (m * (p + 1) + w) % m = w BY <3>1, DivModIs
    <3> QED BY <2>2, <3>2
  <2>4. c = 1 BY <1>0, <1>1, <2>1, <2>3 DEF Overflow
  <2>5. n + s = m * (q + (p + 1)) + w
    <3>1. w \in Nat /\ l \in Nat /\ p + 1 \in Nat OBVIOUS
    <3>2. (m * q + l) + s = m * (q + (p + 1)) + w BY <2>2, <3>1, Distributed
    <3> QED BY <1>1, <3>2
  <2>6. q + (p + 1) \in Nat /\ p + 1 \in Nat OBVIOUS
  <2>7. (n + s) \div m = q + (p + 1) BY <2>5, <2>6, DivModIs
  <2>8. ((q % h) + (p + 1)) % h = (q + (p + 1)) % h BY <2>6, ModAdd
  <2>9. (q % h) + c + p = (q % h) + (p + 1) BY <1>3, <2>4
  <2> QED BY <1>0, <1>1, <1>2, <2>7, <2>8, <2>9
<1> QED BY <1>4, <1>5

-----------------------------------------------------------------------------
(* The buffer of md5.c. *)

LEMMA CarriedOver ==
    ASSUME NEW n \in Nat, NEW s \in Nat
    PROVE  (((n \div LoMod) % HiMod) + Overflow(n, s, LoMod) + (s \div LoMod)) % HiMod
               = ((n + s) \div LoMod) % HiMod
<1>1. LoMod \in Nat \ {0} BY Md5Assumption
<1>2. HiMod \in Nat \ {0} BY Md5Assumption
<1> QED BY <1>1, <1>2, Carried

\* What the octets of messages and of the buffer are.
Data  == {<<"data", c>> : c \in Char}
End   == <<"80">>
Count == {<<half, i, n>> : half \in {"lo", "hi"}, i \in Nat, n \in Nat}
Octet == Data \union {Stray, Zero, End} \union Count

LEMMA Sizes == Block \in Nat \ {0} /\ Field \in Nat /\ LoMod \in Nat \ {0} /\ HiMod \in Nat \ {0}
BY Md5Assumption

\* memcpy into the buffer keeps what is before, and puts d behind it.
LEMMA CopiedIs ==
    ASSUME NEW b \in [1..Block -> Octet], NEW at \in Nat, NEW d \in Seq(Octet),
           at + Len(d) <= Block
    PROVE  /\ Copied(b, at, d) \in [1..Block -> Octet]
           /\ SubSeq(Copied(b, at, d), 1, at + Len(d)) = SubSeq(b, 1, at) \o d
<1> DEFINE B == Copied(b, at, d)
<1>1. Len(d) \in Nat /\ \A i \in 1..Len(d) : d[i] \in Octet BY LenProperties
<1>2. \A i \in 1..Block : B[i] = IF i \in (at + 1)..(at + Len(d)) THEN d[i - at] ELSE b[i]
  BY DEF Copied
<1>3. B \in [1..Block -> Octet]
  <2>1. ASSUME NEW i \in 1..Block PROVE B[i] \in Octet
    BY <1>1, <1>2, Sizes
  <2>2. B = [i \in 1..Block |-> B[i]] BY DEF Copied
  <2> QED BY <2>1, <2>2
<1> HIDE DEF B
<1>4. /\ SubSeq(B, 1, at + Len(d)) \in Seq(Octet)
      /\ Len(SubSeq(B, 1, at + Len(d))) = at + Len(d)
      /\ \A i \in 1..(at + Len(d)) : SubSeq(B, 1, at + Len(d))[i] = B[i]
  <2>1. \A i \in 1..(at + Len(d)) : B[i] \in Octet BY <1>1, <1>3, Sizes
  <2>2. at + Len(d) \in Int BY <1>1
  <2> QED BY <1>1, <2>1, <2>2, SubSeqProperties
<1>5. /\ SubSeq(b, 1, at) \in Seq(Octet) /\ Len(SubSeq(b, 1, at)) = at
      /\ \A i \in 1..at : SubSeq(b, 1, at)[i] = b[i]
  <2>1. \A i \in 1..at : b[i] \in Octet BY <1>1, Sizes
  <2> QED BY <2>1, SubSeqProperties
<1>6. /\ SubSeq(b, 1, at) \o d \in Seq(Octet) /\ Len(SubSeq(b, 1, at) \o d) = at + Len(d)
      /\ \A i \in 1..(at + Len(d)) :
             (SubSeq(b, 1, at) \o d)[i] = IF i <= at THEN SubSeq(b, 1, at)[i] ELSE d[i - at]
  BY <1>5, ConcatProperties
<1>7. ASSUME NEW i \in 1..(at + Len(d))
      PROVE  SubSeq(B, 1, at + Len(d))[i] = (SubSeq(b, 1, at) \o d)[i]
  <2>1. i \in 1..Block BY <1>1, Sizes
  <2>2. CASE i <= at BY <1>2, <1>4, <1>5, <1>6, <2>1, <2>2
  <2>3. CASE i > at
    <3>1. i \in (at + 1)..(at + Len(d)) BY <1>1, <2>3
    <3> QED BY <1>2, <1>4, <1>6, <2>1, <2>3, <3>1
  <2> QED BY <2>2, <2>3
<1>8. SubSeq(B, 1, at + Len(d)) = SubSeq(b, 1, at) \o d
  BY <1>4, <1>6, <1>7, SeqEqual
<1> QED BY <1>3, <1>8 DEF B

LEMMA Pieces ==
    ASSUME NEW S, NEW d \in Seq(S), NEW n \in 0..Len(d)
    PROVE  /\ SubSeq(d, 1, n) \in Seq(S) /\ Len(SubSeq(d, 1, n)) = n
           /\ SubSeq(d, n + 1, Len(d)) \in Seq(S) /\ Len(SubSeq(d, n + 1, Len(d))) = Len(d) - n
           /\ SubSeq(d, 1, n) \o SubSeq(d, n + 1, Len(d)) = d
<1>1. Len(d) \in Nat /\ \A i \in 1..Len(d) : d[i] \in S BY LenProperties
<1>2. SubSeq(d, 1, n) \in Seq(S) /\ Len(SubSeq(d, 1, n)) = n
  <2>1. \A i \in 1..n : d[i] \in S BY <1>1
  <2> QED BY <1>1, <2>1, SubSeqProperties
<1>3. SubSeq(d, n + 1, Len(d)) \in Seq(S) /\ Len(SubSeq(d, n + 1, Len(d))) = Len(d) - n
  <2>1. \A i \in (n + 1)..Len(d) : d[i] \in S BY <1>1
  <2>2. n + 1 \in Int /\ Len(d) \in Int BY <1>1
  <2> QED BY <1>1, <2>1, <2>2, SubSeqProperties
<1>4. SubSeq(d, 1, n) \o SubSeq(d, n + 1, Len(d)) = SubSeq(d, 1, Len(d))
  <2>1. 1 \in 1..(Len(d) + 1) /\ n \in (1 - 1)..Len(d) /\ Len(d) \in n..Len(d) BY <1>1
  <2> QED BY <2>1, ConcatAdjacentSubSeq
<1>5. SubSeq(d, 1, Len(d)) = d BY SubSeqFull
<1> QED BY <1>2, <1>3, <1>4, <1>5

LEMMA Joined ==
    ASSUME NEW s \in Seq(Octet), NEW t \in Seq(Octet)
    PROVE  s \o t \in Seq(Octet) /\ Len(s \o t) = Len(s) + Len(t)
BY ConcatProperties

LEMMA Associative ==
    ASSUME NEW s \in Seq(Octet), NEW t \in Seq(Octet), NEW v \in Seq(Octet)
    PROVE  (s \o t) \o v = s \o (t \o v)
BY ConcatAssociative

LEMMA BlockMod == Block % Block = 0
<1>1. Block * 1 + 0 = Block BY Sizes
<1>2. (Block * 1 + 0) % Block = 0 BY Sizes, DivModIs
<1> QED BY <1>1, <1>2

\* The block that d completes, if one was begun, and what is left of d.
BegunBy(b, u, d) == IF u = 0 THEN <<>> ELSE Copied(b, u, SubSeq(d, 1, Block - u))
RestOf(u, d)     == IF u = 0 THEN d ELSE SubSeq(d, Block - u + 1, Len(d))

\* pgr_md5_update on a buffer b that holds u octets, after the blocks m and calls
\* of body for the sizes z.
Updated(b, m, z, u, d, b2, m2, z2) ==
    LET begun == BegunBy(b, u, d)
        rest  == RestOf(u, d)
        whole == Len(rest) - (Len(rest) % Block)
    IN IF u # 0 /\ Len(d) < Block - u
       THEN b2 = Copied(b, u, d) /\ m2 = m /\ z2 = z
       ELSE /\ m2 = m \o begun \o SubSeq(rest, 1, whole)
            /\ b2 = Copied(IF u = 0 THEN b ELSE begun, 0, SubSeq(rest, whole + 1, Len(rest)))
            /\ z2 = z \union (IF u = 0 THEN {} ELSE {Block})
                      \union (IF Len(rest) < Block THEN {} ELSE {whole})

\* What d makes of a buffer that was begun: a block that is full, and a rest.
LEMMA Begun ==
    ASSUME NEW b \in [1..Block -> Octet], NEW u \in 0..(Block - 1), NEW d \in Seq(Octet),
           u = 0 \/ Len(d) >= Block - u
    PROVE  /\ BegunBy(b, u, d) \in Seq(Octet) /\ Len(BegunBy(b, u, d)) \in Nat
           /\ Len(BegunBy(b, u, d)) % Block = 0
           /\ u # 0 => BegunBy(b, u, d) \in [1..Block -> Octet]
           /\ RestOf(u, d) \in Seq(Octet)
           /\ Len(BegunBy(b, u, d)) + Len(RestOf(u, d)) = u + Len(d)
           /\ BegunBy(b, u, d) \o RestOf(u, d) = SubSeq(b, 1, u) \o d
<1> DEFINE begun == BegunBy(b, u, d)
           rest  == RestOf(u, d)
           first == Copied(b, u, SubSeq(d, 1, Block - u))
<1>1. Len(d) \in Nat BY LenProperties
<1>2. SubSeq(b, 1, u) \in Seq(Octet) /\ Len(SubSeq(b, 1, u)) = u
  <2>1. \A i \in 1..u : b[i] \in Octet BY Sizes
  <2> QED BY <2>1, Sizes, SubSeqProperties
<1>3. CASE u = 0
  <2>1. SubSeq(b, 1, u) = <<>> BY <1>3, SubSeqEmpty
  <2>2. <<>> \in Seq(Octet) /\ Len(<<>>) = 0 BY EmptySeq
  <2>3. 0 % Block = 0 BY Sizes, ModSmall
  <2>4. begun = <<>> /\ rest = d BY <1>3 DEF BegunBy, RestOf
  <2>5. Len(begun) + Len(rest) = u + Len(d) BY <1>1, <1>3, <2>2, <2>4
  <2> QED BY <1>3, <2>1, <2>2, <2>3, <2>4, <2>5
<1>4. CASE u # 0
  <2>1. PICK a \in 0..Len(d) : a = Block - u BY <1>1, <1>4, Sizes
  <2> DEFINE d1 == SubSeq(d, 1, a)
             d2 == SubSeq(d, a + 1, Len(d))
  <2>2. /\ d1 \in Seq(Octet) /\ Len(d1) = a
        /\ d2 \in Seq(Octet) /\ Len(d2) = Len(d) - a
        /\ d1 \o d2 = d
    BY Pieces
  <2>3. first = Copied(b, u, d1) /\ rest = d2 /\ begun = first BY <1>4, <2>1 DEF BegunBy, RestOf
  <2> HIDE DEF d1, d2
  <2>4. u \in Nat /\ a \in Nat /\ u + a = Block BY <1>1, <2>1, Sizes
  <2>5. first \in [1..Block -> Octet] /\ SubSeq(first, 1, Block) = SubSeq(b, 1, u) \o d1
    <3>1. u + Len(d1) = Block BY <2>2, <2>4
    <3>2. u + Len(d1) <= Block BY <3>1, Sizes
    <3>3. /\ Copied(b, u, d1) \in [1..Block -> Octet]
          /\ SubSeq(Copied(b, u, d1), 1, u + Len(d1)) = SubSeq(b, 1, u) \o d1
      BY <2>2, <2>4, <3>2, CopiedIs
    <3> QED BY <2>3, <3>1, <3>3
  <2>6. first \in Seq(Octet) /\ Len(first) = Block BY <2>5, Sizes
  <2>7. first = SubSeq(b, 1, u) \o d1
    <3>1. SubSeq(first, 1, Len(first)) = first BY <2>6, SubSeqFull
    <3> QED BY <2>5, <2>6, <3>1
  <2>8. (SubSeq(b, 1, u) \o d1) \o d2 = SubSeq(b, 1, u) \o (d1 \o d2)
    BY <1>2, <2>2, Associative
  <2>9. Block + Len(d2) = u + Len(d) BY <1>1, <2>2, <2>4
  <2> QED BY <2>2, <2>3, <2>5, <2>6, <2>7, <2>8, <2>9, BlockMod, Sizes
<1> QED BY <1>3, <1>4

\* The buffer, the blocks that were compressed and the sizes of the calls are sound.
Blocks(b, m, z) ==
    /\ b \in [1..Block -> Octet] /\ m \in Seq(Octet) /\ Len(m) % Block = 0
    /\ \A n \in z : n > 0 /\ n % Block = 0

\* The message that the blocks m and the first u octets of b hold.
Held(m, b, u) == m \o SubSeq(b, 1, u)

\* What pgr_md5_update compresses is whole blocks, and blocks and buffer are the
\* message with d behind it.
LEMMA Streamed ==
    ASSUME NEW b, NEW m, NEW z, Blocks(b, m, z),
           NEW u \in 0..(Block - 1), NEW d \in Seq(Octet),
           NEW b2, NEW m2, NEW z2, Updated(b, m, z, u, d, b2, m2, z2)
    PROVE  /\ Blocks(b2, m2, z2)
           /\ Held(m2, b2, (u + Len(d)) % Block) = Held(m, b, u) \o d
<1>0. /\ b \in [1..Block -> Octet] /\ m \in Seq(Octet) /\ Len(m) % Block = 0
      /\ \A n \in z : n > 0 /\ n % Block = 0
  BY DEF Blocks
<1>1. Len(d) \in Nat /\ Len(m) \in Nat BY <1>0, LenProperties
<1>2. SubSeq(b, 1, u) \in Seq(Octet) /\ Len(SubSeq(b, 1, u)) = u
  <2>1. \A i \in 1..u : b[i] \in Octet BY <1>0, Sizes
  <2> QED BY <2>1, Sizes, SubSeqProperties
<1>3. m \o (SubSeq(b, 1, u) \o d) = (m \o SubSeq(b, 1, u)) \o d BY <1>0, <1>2, Associative
<1>4. CASE u # 0 /\ Len(d) < Block - u
  <2>1. b2 = Copied(b, u, d) /\ m2 = m /\ z2 = z BY <1>4 DEF Updated
  <2>2. u \in Nat /\ u + Len(d) \in 0..(Block - 1) /\ u + Len(d) <= Block BY <1>1, <1>4, Sizes
  <2>3. (u + Len(d)) % Block = u + Len(d) BY <2>2, Sizes, ModSmall
  <2>4. /\ Copied(b, u, d) \in [1..Block -> Octet]
        /\ SubSeq(Copied(b, u, d), 1, u + Len(d)) = SubSeq(b, 1, u) \o d
    BY <1>0, <2>2, CopiedIs
  <2> QED BY <1>0, <1>3, <2>1, <2>3, <2>4 DEF Blocks, Held
<1>5. CASE ~(u # 0 /\ Len(d) < Block - u)
  <2> DEFINE begun == BegunBy(b, u, d)
             rest  == RestOf(u, d)
             whole == Len(rest) - (Len(rest) % Block)
             base  == IF u = 0 THEN b ELSE begun
             front == SubSeq(rest, 1, whole)
             kept  == SubSeq(rest, whole + 1, Len(rest))
  <2>1. /\ m2 = m \o begun \o front /\ b2 = Copied(base, 0, kept)
        /\ z2 = z \union (IF u = 0 THEN {} ELSE {Block})
                  \union (IF Len(rest) < Block THEN {} ELSE {whole})
    BY <1>5 DEF Updated
  <2>2. /\ begun \in Seq(Octet) /\ Len(begun) \in Nat /\ Len(begun) % Block = 0
        /\ u # 0 => begun \in [1..Block -> Octet]
        /\ rest \in Seq(Octet) /\ Len(begun) + Len(rest) = u + Len(d)
        /\ begun \o rest = SubSeq(b, 1, u) \o d
    <3>1. u = 0 \/ Len(d) >= Block - u BY <1>1, <1>5, Sizes
    <3> QED BY <1>0, <3>1, Begun
  <2>3. base \in [1..Block -> Octet] BY <1>0, <2>2
  <2> HIDE DEF rest, begun, base
  <2>4. Len(rest) \in Nat BY <2>2, LenProperties
  <2>5. /\ whole \in 0..Len(rest) /\ whole % Block = 0
        /\ Len(rest) >= Block => whole > 0
    BY <2>4, Sizes, WholeIs
  <2>6. Len(rest) - whole = Len(rest) % Block
    <3>1. Len(rest) % Block \in Nat BY <2>4, Sizes, DivMod
    <3> QED BY <2>4, <3>1
  <2> HIDE DEF whole
  <2>7. /\ front \in Seq(Octet) /\ Len(front) = whole
        /\ kept \in Seq(Octet) /\ Len(kept) = Len(rest) - whole
        /\ front \o kept = rest
    BY <2>2, <2>5, Pieces
  <2> HIDE DEF kept, front
  <2>8. Len(kept) = (u + Len(d)) % Block
    <3>1. (Len(begun) + Len(rest)) % Block = Len(rest) % Block BY <2>2, <2>4, Sizes, ModSum
    <3> QED BY <2>2, <2>6, <2>7, <3>1
  <2>9. b2 \in [1..Block -> Octet] /\ SubSeq(b2, 1, (u + Len(d)) % Block) = kept
    <3>1. u + Len(d) \in Nat BY <1>1
    <3>2. (u + Len(d)) % Block \in 0..(Block - 1) BY <3>1, Sizes, DivMod
    <3>3. PICK at \in Nat : at = 0 OBVIOUS
    <3>4. at + Len(kept) <= Block /\ at + Len(kept) = Len(kept) BY <2>8, <3>2, <3>3, Sizes
    <3>5. /\ Copied(base, at, kept) \in [1..Block -> Octet]
          /\ SubSeq(Copied(base, at, kept), 1, at + Len(kept)) = SubSeq(base, 1, at) \o kept
      BY <2>3, <2>7, <3>4, CopiedIs
    <3>6. SubSeq(base, 1, at) = <<>> BY <3>3, SubSeqEmpty
    <3>7. <<>> \o kept = kept BY <2>7, ConcatEmptySeq
    <3> QED BY <2>1, <2>8, <3>3, <3>4, <3>5, <3>6, <3>7
  <2>10. /\ m \o begun \in Seq(Octet) /\ Len(m \o begun) = Len(m) + Len(begun)
         /\ m2 \in Seq(Octet) /\ Len(m2) = Len(m \o begun) + whole
    BY <1>0, <2>1, <2>2, <2>7, Joined
  <2>11. Len(m2) % Block = 0
    <3>1. (Len(m) + Len(begun)) % Block = 0 BY <1>0, <1>1, <2>2, Sizes, ModSum
    <3>2. Len(m) + Len(begun) \in Nat /\ whole \in Nat BY <1>1, <2>2, <2>5
    <3>3. (Len(m) + Len(begun) + whole) % Block = 0 BY <2>5, <3>1, <3>2, Sizes, ModSum
    <3> QED BY <2>10, <3>3
  <2>12. m2 \o kept = (m \o SubSeq(b, 1, u)) \o d
    <3>0. PICK mb \in Seq(Octet) : mb = m \o begun BY <2>10
    <3>1. (mb \o front) \o kept = mb \o (front \o kept) BY <2>7, Associative
    <3>2. (m \o begun) \o rest = m \o (begun \o rest) BY <1>0, <2>2, Associative
    <3> QED BY <1>3, <2>1, <2>2, <2>7, <3>0, <3>1, <3>2
  <2>13. \A n \in z2 : n > 0 /\ n % Block = 0
    BY <1>0, <2>1, <2>4, <2>5, BlockMod, Sizes
  <2> QED BY <2>9, <2>10, <2>11, <2>12, <2>13 DEF Blocks, Held
<1> QED BY <1>4, <1>5

-----------------------------------------------------------------------------
(* The steps of md5.c. *)

\* The inductive invariant of md5.c: Accounted, with the blocks whole.
Stream ==
    /\ Blocks(mdbuf, md, sizes)
    /\ lo \in 0..(LoMod - 1) /\ hi \in 0..(HiMod - 1) /\ iv \in {"unset", "std", "zero"}
    /\ Counted

LEMMA MessageIs ==
    ASSUME Stream
    PROVE  /\ lo % Block \in 0..(Block - 1)
           /\ SubSeq(mdbuf, 1, lo % Block) \in Seq(Octet)
           /\ Len(SubSeq(mdbuf, 1, lo % Block)) = lo % Block
           /\ Message \in Seq(Octet)
           /\ iv = "std" => /\ Message = md \o SubSeq(mdbuf, 1, lo % Block)
                            /\ Len(Message) = Len(md) + (lo % Block)
<1>1. lo \in Nat BY Sizes DEF Stream, Blocks
<1>2. lo % Block \in 0..(Block - 1) BY <1>1, Sizes, DivMod
<1>3. PICK u \in 0..(Block - 1) : u = lo % Block BY <1>2
<1>4. SubSeq(mdbuf, 1, u) \in Seq(Octet) /\ Len(SubSeq(mdbuf, 1, u)) = u
  <2>1. \A i \in 1..u : mdbuf[i] \in Octet BY Sizes DEF Stream, Blocks
  <2>2. u \in Int /\ (1 <= u \/ u = 0) BY Sizes
  <2> QED BY <2>1, <2>2, SubSeqProperties
<1>5. iv = "std" => /\ Message = md \o SubSeq(mdbuf, 1, u)
                    /\ Message \in Seq(Octet) /\ Len(Message) = Len(md) + u
  BY <1>3, <1>4, Joined DEF Stream, Blocks, Message
<1>6. iv # "std" => Message \in Seq(Octet) BY EmptySeq DEF Message
<1> QED BY <1>2, <1>3, <1>4, <1>5, <1>6

LEMMA UpdateStep ==
    ASSUME Stream, iv = "std", NEW d \in Seq(Octet), pgr_md5_update(d)
    PROVE  Stream' /\ iv' = "std" /\ Message' = Message \o d
<1>1. PICK u \in 0..(Block - 1) : u = lo % Block BY MessageIs
<1>2. /\ iv' = "std" /\ lo' = (lo + Len(d)) % LoMod /\ hi' = Carry(Len(d))
      /\ Updated(mdbuf, md, sizes, u, d, mdbuf', md', sizes')
  BY <1>1 DEF pgr_md5_update, Updated, BegunBy, RestOf
<1>3. Len(d) \in Nat /\ Len(md) \in Nat /\ lo \in Nat BY LenProperties, Sizes DEF Stream, Blocks
<1>4. /\ Blocks(mdbuf', md', sizes')
      /\ Held(md', mdbuf', (u + Len(d)) % Block) = Held(md, mdbuf, u) \o d
  <2>1. Blocks(mdbuf, md, sizes) BY DEF Stream
  <2> QED BY <1>2, <2>1, Streamed
<1>5. lo' % Block = (u + Len(d)) % Block
  <2>1. lo + Len(d) \in Nat BY <1>3
  <2>2. ((lo + Len(d)) % LoMod) % Block = (lo + Len(d)) % Block
    BY <2>1, Sizes, Md5Assumption, ModMod
  <2>3. ((lo % Block) + Len(d)) % Block = (lo + Len(d)) % Block BY <1>3, Sizes, ModAdd
  <2> QED BY <1>1, <1>2, <2>2, <2>3
<1>6. Message' = Message \o d
  <2>1. Message' = md' \o SubSeq(mdbuf', 1, lo' % Block) BY <1>2 DEF Message
  <2>2. Message = md \o SubSeq(mdbuf, 1, u) BY <1>1, MessageIs
  <2> QED BY <1>4, <1>5, <2>1, <2>2 DEF Held
<1>7. PICK n \in Nat : n = Len(Message) BY MessageIs, LenProperties
<1>8. Len(Message') = n + Len(d) BY <1>6, <1>7, MessageIs, Joined
<1>9. lo = n % LoMod /\ hi = (n \div LoMod) % HiMod BY <1>7 DEF Stream, Counted
<1>10. lo' = (n + Len(d)) % LoMod BY <1>2, <1>3, <1>9, Sizes, ModAdd
<1>11. hi' = ((n + Len(d)) \div LoMod) % HiMod
  <2>1. PICK s \in Nat : s = Len(d) BY <1>3
  <2>2. (((n \div LoMod) % HiMod) + Overflow(n, s, LoMod) + (s \div LoMod)) % HiMod
           = ((n + s) \div LoMod) % HiMod
    BY CarriedOver
  <2>3. hi' = (hi + Overflow(n, s, LoMod) + (s \div LoMod)) % HiMod
    BY <1>2, <1>9, <2>1 DEF Carry, Overflow
  <2> QED BY <1>9, <2>1, <2>2, <2>3
<1>12. lo' \in 0..(LoMod - 1) /\ hi' \in 0..(HiMod - 1)
  <2>1. PICK k \in Nat : k = n + Len(d) BY <1>3
  <2>2. k % LoMod \in 0..(LoMod - 1) /\ k \div LoMod \in Nat BY Sizes, DivMod
  <2>3. (k \div LoMod) % HiMod \in 0..(HiMod - 1) BY <2>2, Sizes, DivMod
  <2> QED BY <1>10, <1>11, <2>1, <2>2, <2>3
<1>14. Counted' BY <1>8, <1>10, <1>11 DEF Counted
<1> QED BY <1>2, <1>4, <1>6, <1>12, <1>14 DEF Stream

LEMMA NoneCounted == 0 % Block = 0 /\ 0 % LoMod = 0 /\ (0 \div LoMod) % HiMod = 0
<1>1. 0 % Block = 0 /\ 0 % LoMod = 0 /\ 0 \div LoMod = 0 /\ 0 % HiMod = 0 BY Sizes, ModSmall
<1> QED BY <1>1

LEMMA InitStep ==
    ASSUME Stream, pgr_md5_init
    PROVE  Stream' /\ iv' = "std" /\ Message' = <<>>
<1>1. iv' = "std" /\ md' = <<>> /\ lo' = 0 /\ hi' = 0 /\ mdbuf' = mdbuf /\ sizes' = sizes
  BY DEF pgr_md5_init
<1>2. SubSeq(mdbuf', 1, 0) = <<>> BY SubSeqEmpty
<1>3. <<>> \in Seq(Octet) /\ Len(<<>>) = 0 BY EmptySeq
<1>4. Message' = <<>> BY <1>1, <1>2, <1>3, NoneCounted, ConcatEmptySeq DEF Message
<1>5. Counted' BY <1>1, <1>3, <1>4, NoneCounted DEF Counted
<1>6. 0 \in 0..(LoMod - 1) /\ 0 \in 0..(HiMod - 1) BY Sizes
<1> QED BY <1>1, <1>3, <1>4, <1>5, <1>6, NoneCounted DEF Stream, Blocks

LEMMA RawStep ==
    ASSUME Stream, pgr_md5_raw
    PROVE  Stream' /\ iv' = "zero" /\ Message' = <<>>
<1>1. /\ iv' = "zero" /\ md' = <<>> /\ lo' = 0 /\ hi' = 0
      /\ mdbuf' = [i \in 1..Block |-> Zero] /\ sizes' = sizes \union {Block}
  BY DEF pgr_md5_raw
<1>2. <<>> \in Seq(Octet) /\ Len(<<>>) = 0 BY EmptySeq
<1>3. mdbuf' \in [1..Block -> Octet] BY <1>1 DEF Octet
<1>4. 0 \in 0..(LoMod - 1) /\ 0 \in 0..(HiMod - 1) BY Sizes
<1>5. \A n \in sizes' : n > 0 /\ n % Block = 0 BY <1>1, BlockMod, Sizes DEF Stream, Blocks
<1>6. Counted' /\ Message' = <<>> BY <1>1 DEF Counted, Message
<1> QED BY <1>1, <1>2, <1>3, <1>4, <1>5, <1>6, NoneCounted DEF Stream, Blocks

-----------------------------------------------------------------------------
(* The padding of a message. *)

ZeroRow(n) == [i \in 1..n |-> Zero]

LEMMA ZeroRowIs ==
    ASSUME NEW n \in Nat
    PROVE  /\ ZeroRow(n) \in Seq(Octet) /\ Len(ZeroRow(n)) = n
           /\ \A i \in 1..n : ZeroRow(n)[i] = Zero
<1>1. Zero \in Octet BY DEF Octet
<1> QED BY <1>1 DEF ZeroRow

LEMMA ZeroRows ==
    ASSUME NEW n \in Nat, NEW k \in Nat
    PROVE  ZeroRow(n) \o ZeroRow(k) = ZeroRow(n + k)
<1> DEFINE p == ZeroRow(n) \o ZeroRow(k)
           q == ZeroRow(n + k)
<1>1. n + k \in Nat OBVIOUS
<1>2. /\ p \in Seq(Octet) /\ Len(p) = n + k
      /\ \A i \in 1..(n + k) : p[i] = IF i <= n THEN ZeroRow(n)[i] ELSE ZeroRow(k)[i - n]
  <2>1. ZeroRow(n) \in Seq(Octet) /\ Len(ZeroRow(n)) = n BY ZeroRowIs
  <2>2. ZeroRow(k) \in Seq(Octet) /\ Len(ZeroRow(k)) = k BY ZeroRowIs
  <2>3. PICK a \in Seq(Octet) : a = ZeroRow(n) BY <2>1
  <2>4. PICK b \in Seq(Octet) : b = ZeroRow(k) BY <2>2
  <2>5. /\ a \o b \in Seq(Octet) /\ Len(a \o b) = Len(a) + Len(b)
        /\ \A i \in 1..(Len(a) + Len(b)) :
              (a \o b)[i] = IF i <= Len(a) THEN a[i] ELSE b[i - Len(a)]
    BY ONLY <2>3, <2>4, ConcatProperties
  <2> QED BY <2>1, <2>2, <2>3, <2>4, <2>5
<1>3. q \in Seq(Octet) /\ Len(q) = n + k /\ \A i \in 1..(n + k) : q[i] = Zero
  BY <1>1, ZeroRowIs
<1>4. ASSUME NEW i \in 1..(n + k) PROVE p[i] = Zero
  <2>1. i <= n => ZeroRow(n)[i] = Zero BY ZeroRowIs
  <2>2. ~(i <= n) => i - n \in 1..k OBVIOUS
  <2>3. ~(i <= n) => ZeroRow(k)[i - n] = Zero BY <2>2, ZeroRowIs
  <2> QED BY <1>2, <2>1, <2>3
<1> HIDE DEF p, q
<1>5. p = q BY <1>2, <1>3, <1>4, SeqEqual
<1> QED BY <1>5 DEF p, q

\* What is in the buffer up to at, then d: a buffer is the sequence of its octets.
LEMMA CopiedFull ==
    ASSUME NEW b \in [1..Block -> Octet], NEW at \in Nat, NEW d \in Seq(Octet),
           at + Len(d) = Block
    PROVE  /\ Copied(b, at, d) \in [1..Block -> Octet] /\ Copied(b, at, d) \in Seq(Octet)
           /\ Copied(b, at, d) = SubSeq(b, 1, at) \o d
<1>1. at + Len(d) <= Block BY Sizes
<1>2. /\ Copied(b, at, d) \in [1..Block -> Octet]
      /\ SubSeq(Copied(b, at, d), 1, at + Len(d)) = SubSeq(b, 1, at) \o d
  BY <1>1, CopiedIs
<1>3. PICK s \in [1..Block -> Octet] : s = Copied(b, at, d) BY <1>2
<1>4. s \in Seq(Octet) /\ Len(s) = Block BY Sizes
<1>5. SubSeq(s, 1, Len(s)) = s BY <1>4, SubSeqFull
<1> QED BY <1>2, <1>3, <1>4, <1>5

\* How many zeros there are, in one block and in two.
LEMMA ZerosIs ==
    ASSUME NEW n \in Nat, NEW u \in 0..(Block - 1), u = n % Block
    PROVE  D!Zeros(n) = IF u + 1 + Field <= Block THEN Block - u - 1 - Field
                                                  ELSE (Block - u - 1) + (Block - Field)
<1>1. PICK x \in Nat : x = u + 1 + Field
  <2>1. u + 1 + Field \in Nat BY ONLY u \in 0..(Block - 1), Sizes
  <2> QED BY ONLY <2>1
<1>2. (n + 1 + Field) % Block = x % Block
  <2>1. 1 + Field \in Nat BY Sizes
  <2>2. ((n % Block) + (1 + Field)) % Block = (n + (1 + Field)) % Block BY <2>1, Sizes, ModAdd
  <2>3. n + (1 + Field) = n + 1 + Field /\ u + (1 + Field) = x BY <1>1, Sizes
  <2> QED BY <2>2, <2>3
<1>3. PICK y \in Nat : y = x % Block
  <2>1. x % Block \in 0..(Block - 1) BY ONLY x \in Nat, Sizes, DivMod
  <2> QED BY ONLY <2>1, Sizes
<1>4. D!Zeros(n) = (Block - y) % Block BY <1>2, <1>3 DEF D!Zeros
<1>5. CASE x < Block
  <2>1. y = x BY <1>3, <1>5, Sizes, ModSmall
  <2>2. Block - x \in 0..(Block - 1) BY <1>1, <1>5, Sizes
  <2>3. (Block - x) % Block = Block - x BY <2>2, Sizes, ModSmall
  <2> QED BY <1>1, <1>4, <1>5, <2>1, <2>3, Sizes
<1>6. CASE x = Block
  <2>1. y = 0 BY <1>3, <1>6, BlockMod
  <2>2. Block - y = Block BY <2>1, Sizes
  <2>3. D!Zeros(n) = 0 BY <1>4, <2>2, BlockMod
  <2> QED BY <1>1, <1>6, <2>3, Sizes
<1>7. CASE x > Block
  <2>1. PICK w \in 1..(Block - 1) : x = Block + w
    <3>1. x - Block \in 1..(Block - 1) /\ x = Block + (x - Block)
      BY <1>1, <1>7, Sizes, Md5Assumption
    <3> QED BY <3>1
  <2>2. (Block + w) % Block = w % Block
    <3>1. w \in Nat BY ONLY w \in 1..(Block - 1), Sizes
    <3> QED BY ONLY <3>1, BlockMod, Sizes, ModSum
  <2>3. y = w BY <1>3, <2>1, <2>2, Sizes, ModSmall
  <2>4. Block - w \in 0..(Block - 1) BY Sizes
  <2>5. D!Zeros(n) = Block - w BY <1>4, <2>3, <2>4, Sizes, ModSmall
  <2> QED BY <1>1, <1>7, <2>1, <2>5, Sizes
<1> QED BY <1>1, <1>5, <1>6, <1>7, Sizes

\* The octet 0x80 is put behind the u octets of the buffer, and n zeros behind it.
LEMMA Ended ==
    ASSUME NEW b \in [1..Block -> Octet], NEW u \in 0..(Block - 1)
    PROVE  /\ Copied(b, u, <<End>>) \in [1..Block -> Octet]
           /\ SubSeq(Copied(b, u, <<End>>), 1, u + 1) = SubSeq(b, 1, u) \o <<End>>
<1>1. <<End>> \in Seq(Octet) /\ Len(<<End>>) = 1 BY DEF Octet
<1>2. u \in Nat /\ u + Len(<<End>>) = u + 1 /\ u + Len(<<End>>) <= Block BY <1>1, Sizes
<1>3. /\ Copied(b, u, <<End>>) \in [1..Block -> Octet]
      /\ SubSeq(Copied(b, u, <<End>>), 1, u + Len(<<End>>)) = SubSeq(b, 1, u) \o <<End>>
  BY <1>1, <1>2, CopiedIs
<1> QED BY <1>2, <1>3

LEMMA ClearedIs ==
    ASSUME NEW b \in [1..Block -> Octet], NEW at \in Nat, NEW n \in Nat, at + n <= Block
    PROVE  /\ Cleared(b, at, n) \in [1..Block -> Octet]
           /\ SubSeq(Cleared(b, at, n), 1, at + n) = SubSeq(b, 1, at) \o ZeroRow(n)
<1>1. Cleared(b, at, n) = Copied(b, at, ZeroRow(n)) BY DEF Cleared, ZeroRow
<1>2. ZeroRow(n) \in Seq(Octet) /\ Len(ZeroRow(n)) = n BY ZeroRowIs
<1>3. /\ Copied(b, at, ZeroRow(n)) \in [1..Block -> Octet]
      /\ SubSeq(Copied(b, at, ZeroRow(n)), 1, at + Len(ZeroRow(n))) = SubSeq(b, 1, at) \o ZeroRow(n)
  BY <1>2, CopiedIs
<1> QED BY <1>1, <1>2, <1>3

\* s \o t for octets, as an operator that the provers do not look into.
Cat(s, t) == s \o t

LEMMA CatIs ==
    ASSUME NEW s \in Seq(Octet), NEW t \in Seq(Octet)
    PROVE  Cat(s, t) \in Seq(Octet)
BY Joined DEF Cat

LEMMA CatAssociative ==
    ASSUME NEW s \in Seq(Octet), NEW t \in Seq(Octet), NEW v \in Seq(Octet)
    PROVE  Cat(Cat(s, t), v) = Cat(s, Cat(t, v))
BY Associative DEF Cat

LEMMA Shifted ==
    ASSUME NEW m \in Seq(Octet), NEW p \in Seq(Octet), NEW e \in Seq(Octet), NEW z \in Seq(Octet),
           NEW g \in Seq(Octet)
    PROVE  Cat(m, Cat(Cat(Cat(p, e), z), g)) = Cat(Cat(Cat(Cat(m, p), e), z), g)
<1>1. Cat(p, e) \in Seq(Octet) BY CatIs
<1>2. Cat(Cat(p, e), z) \in Seq(Octet) BY <1>1, CatIs
<1>3. Cat(m, Cat(Cat(Cat(p, e), z), g)) = Cat(Cat(m, Cat(Cat(p, e), z)), g) BY <1>2, CatAssociative
<1>4. Cat(m, Cat(Cat(p, e), z)) = Cat(Cat(m, Cat(p, e)), z) BY <1>1, CatAssociative
<1>5. Cat(m, Cat(p, e)) = Cat(Cat(m, p), e) BY CatAssociative
<1> QED BY <1>3, <1>4, <1>5

LEMMA ShiftedTwice ==
    ASSUME NEW m \in Seq(Octet), NEW p \in Seq(Octet), NEW e \in Seq(Octet), NEW z \in Seq(Octet),
           NEW y \in Seq(Octet), NEW g \in Seq(Octet)
    PROVE  Cat(Cat(m, Cat(Cat(p, e), z)), Cat(y, g)) = Cat(Cat(Cat(Cat(m, p), e), Cat(z, y)), g)
<1>1. Cat(p, e) \in Seq(Octet) /\ Cat(z, y) \in Seq(Octet) BY CatIs
<1>2. Cat(Cat(p, e), z) \in Seq(Octet) BY <1>1, CatIs
<1>3. Cat(m, Cat(Cat(p, e), z)) \in Seq(Octet) BY <1>2, CatIs
<1>4. Cat(Cat(m, Cat(Cat(p, e), z)), Cat(y, g)) = Cat(Cat(Cat(m, Cat(Cat(p, e), z)), y), g)
  BY <1>3, CatAssociative
<1>5. Cat(Cat(m, Cat(Cat(p, e), z)), y) = Cat(m, Cat(Cat(Cat(p, e), z), y)) BY <1>2, CatAssociative
<1>6. Cat(Cat(Cat(p, e), z), y) = Cat(Cat(p, e), Cat(z, y)) BY <1>1, CatAssociative
<1>7. Cat(m, Cat(Cat(p, e), Cat(z, y))) = Cat(Cat(m, Cat(p, e)), Cat(z, y)) BY <1>1, CatAssociative
<1>8. Cat(m, Cat(p, e)) = Cat(Cat(m, p), e) BY CatAssociative
<1> QED BY <1>4, <1>5, <1>6, <1>7, <1>8

\* The last block, behind data that leave room for the length g, and the last two
\* behind data that do not.
OnlyBlock(b, u, g) ==
    Copied(Cleared(Copied(b, u, <<End>>), u + 1, Block - (u + 1) - Field), Block - Field, g)
FullBlock(b, u) == Cleared(Copied(b, u, <<End>>), u + 1, Block - (u + 1))
LengthBlock(b, g) == Copied(Cleared(b, 0, Block - 0 - Field), Block - Field, g)

\* The length g fits behind the data: one block ends the message.
LEMMA OneBlock ==
    ASSUME NEW b \in [1..Block -> Octet], NEW u \in 0..(Block - 1), u + 1 + Field <= Block,
           NEW g \in Seq(Octet), Len(g) = Field
    PROVE  OnlyBlock(b, u, g)
               = Cat(Cat(Cat(SubSeq(b, 1, u), <<End>>), ZeroRow(Block - u - 1 - Field)), g)
<1>1. PICK k \in Nat : k = u + 1 BY Sizes
<1>2. PICK n \in Nat : n = Block - u - 1 - Field BY Sizes
<1>3. k + n = Block - Field /\ k + n <= Block /\ k + n \in Nat /\ (k + n) + Len(g) = Block
      /\ n = Block - (u + 1) - Field
  BY <1>1, <1>2, Sizes
<1>4. PICK b1 \in [1..Block -> Octet] :
          b1 = Copied(b, u, <<End>>) /\ SubSeq(b1, 1, k) = SubSeq(b, 1, u) \o <<End>>
  BY <1>1, Ended
<1>5. PICK b2 \in [1..Block -> Octet] :
          b2 = Cleared(b1, k, n) /\ SubSeq(b2, 1, k + n) = SubSeq(b1, 1, k) \o ZeroRow(n)
  BY <1>3, ClearedIs
<1>6. Copied(b2, k + n, g) \in Seq(Octet) /\ Copied(b2, k + n, g) = SubSeq(b2, 1, k + n) \o g
  BY <1>3, CopiedFull
<1>7. OnlyBlock(b, u, g) = Copied(b2, k + n, g) BY <1>1, <1>3, <1>4, <1>5 DEF OnlyBlock
<1> QED BY <1>2, <1>4, <1>5, <1>6, <1>7 DEF Cat

\* It does not fit: a second block ends the message.
LEMMA TwoBlocks ==
    ASSUME NEW b \in [1..Block -> Octet], NEW u \in 0..(Block - 1), u + 1 + Field > Block,
           NEW g \in Seq(Octet), Len(g) = Field
    PROVE  /\ FullBlock(b, u) = Cat(Cat(SubSeq(b, 1, u), <<End>>), ZeroRow(Block - u - 1))
           /\ LengthBlock(FullBlock(b, u), g) = Cat(ZeroRow(Block - Field), g)
<1>1. PICK k \in Nat : k = u + 1 BY Sizes
<1>2. PICK n \in Nat : n = Block - u - 1 BY Sizes
<1>3. PICK h \in Nat : h = Block - Field BY Sizes, Md5Assumption
<1>4. k + n = Block /\ k + n <= Block /\ h <= Block /\ h + Len(g) = Block /\ n = Block - (u + 1)
      /\ Block - 0 - Field = h
  BY <1>1, <1>2, <1>3, Sizes
<1>5. PICK b1 \in [1..Block -> Octet] :
          b1 = Copied(b, u, <<End>>) /\ SubSeq(b1, 1, k) = SubSeq(b, 1, u) \o <<End>>
  BY <1>1, Ended
<1>6. PICK b2 \in [1..Block -> Octet] :
          b2 = Cleared(b1, k, n) /\ SubSeq(b2, 1, k + n) = SubSeq(b1, 1, k) \o ZeroRow(n)
  BY <1>4, ClearedIs
<1>7. FullBlock(b, u) = b2 BY <1>1, <1>4, <1>5, <1>6 DEF FullBlock
<1>8. b2 \in Seq(Octet) /\ b2 = SubSeq(b1, 1, k) \o ZeroRow(n)
  <2>1. b2 \in Seq(Octet) /\ Len(b2) = Block BY Sizes
  <2>2. SubSeq(b2, 1, Len(b2)) = b2 BY <2>1, SubSeqFull
  <2> QED BY <1>4, <1>6, <2>1, <2>2
<1>9. PICK z \in Nat : z = 0 OBVIOUS
<1>10. z + h = h /\ z + h <= Block BY <1>4, <1>9
<1>11. PICK b3 \in [1..Block -> Octet] :
           b3 = Cleared(b2, z, h) /\ SubSeq(b3, 1, h) = SubSeq(b2, 1, z) \o ZeroRow(h)
  BY <1>10, ClearedIs
<1>12. SubSeq(b3, 1, h) = ZeroRow(h)
  <2>1. SubSeq(b2, 1, z) = <<>> BY <1>9, SubSeqEmpty
  <2>2. <<>> \o ZeroRow(h) = ZeroRow(h) BY ZeroRowIs, ConcatEmptySeq
  <2> QED BY <1>11, <2>1, <2>2
<1>13. Copied(b3, h, g) \in Seq(Octet) /\ Copied(b3, h, g) = SubSeq(b3, 1, h) \o g
  BY <1>4, CopiedFull
<1>14. LengthBlock(b2, g) = Copied(b3, h, g) BY <1>3, <1>4, <1>9, <1>11 DEF LengthBlock
<1> QED BY <1>2, <1>3, <1>5, <1>7, <1>8, <1>12, <1>13, <1>14 DEF Cat

LEMMA LengthIs ==
    ASSUME NEW n \in Nat
    PROVE  D!Length(n) \in Seq(Octet) /\ Len(D!Length(n)) = Field
<1>1. n % LoMod \in Nat /\ (n \div LoMod) % HiMod \in Nat
  <2>1. n \div LoMod \in Nat /\ n % LoMod \in 0..(LoMod - 1) BY Sizes, DivMod
  <2>2. (n \div LoMod) % HiMod \in 0..(HiMod - 1) BY <2>1, Sizes, DivMod
  <2> QED BY <2>1, <2>2, Sizes
<1>2. PICK x \in Nat, y \in Nat : x = n % LoMod /\ y = (n \div LoMod) % HiMod BY <1>1
<1>3. D!Length(n) = [i \in 1..Field |-> IF i <= Field \div 2 THEN <<"lo", i, x>> ELSE <<"hi", i, y>>]
  BY <1>2 DEF D!Length
<1>4. ASSUME NEW i \in 1..Field PROVE <<"lo", i, x>> \in Octet /\ <<"hi", i, y>> \in Octet
  <2>1. i \in Nat BY Sizes
  <2> QED BY <2>1 DEF Octet, Count
<1>5. D!Length(n) \in [1..Field -> Octet] BY <1>3, <1>4
<1> QED BY <1>5, Sizes

LEMMA PaddedIs ==
    ASSUME NEW m \in Seq(Octet)
    PROVE  D!Padded(m) = Cat(Cat(Cat(m, <<End>>), ZeroRow(D!Zeros(Len(m)))), D!Length(Len(m)))
BY DEF D!Padded, ZeroRow, Zero, End, Cat

\* pgr_md5_raw: the result is the digest of the message, as RFC 1321 pads it.
LEMMA RawResult ==
    ASSUME Stream, iv = "std", pgr_md5_raw
    PROVE  out' = <<"std", D!Padded(Message)>>
<1>1. PICK u \in 0..(Block - 1) : u = lo % Block BY MessageIs
<1> DEFINE p == SubSeq(mdbuf, 1, u)
           e == <<End>>
           g == D!Length(Len(Message))
<1>2. /\ p \in Seq(Octet) /\ Message \in Seq(Octet) /\ Message = Cat(md, p)
      /\ Len(Message) = Len(md) + u
  BY <1>1, MessageIs DEF Cat
<1>3. /\ md \in Seq(Octet) /\ Len(md) \in Nat /\ Len(md) % Block = 0
      /\ mdbuf \in [1..Block -> Octet]
  BY LenProperties DEF Stream, Blocks
<1>4. e \in Seq(Octet) BY DEF Octet
<1>5. PICK n \in Nat : n = Len(Message) BY <1>2, LenProperties
<1>6. u = n % Block
  <2>1. (Len(md) + u) % Block = u % Block
    <3>1. u \in Nat BY Sizes
    <3> QED BY <1>3, <3>1, Sizes, ModSum
  <2>2. u % Block = u BY Sizes, ModSmall
  <2> QED BY <1>2, <1>5, <2>1, <2>2
<1>7. g \in Seq(Octet) /\ Len(g) = Field BY <1>5, LengthIs
<1>8. LengthField = g
  <2>1. lo = n % LoMod /\ hi = (n \div LoMod) % HiMod BY <1>5 DEF Stream, Counted
  <2> QED BY <1>5, <2>1 DEF LengthField, D!Length
<1>9. D!Padded(Message) = Cat(Cat(Cat(Cat(md, p), e), ZeroRow(D!Zeros(n))), g)
  BY <1>2, <1>5, PaddedIs
<1>10. D!Zeros(n) = IF u + 1 + Field <= Block THEN Block - u - 1 - Field
                                             ELSE (Block - u - 1) + (Block - Field)
  BY <1>6, ZerosIs
<1> HIDE DEF g
<1>11. CASE u + 1 + Field <= Block
  <2> DEFINE last == OnlyBlock(mdbuf, u, g)
  <2>1. ~NoRoom(Block - (u + 1)) BY <1>11, Sizes DEF NoRoom
  <2>2. out' = <<"std", Cat(md, last)>>
    <3>1. (u + 1) - 1 = u BY Sizes
    <3> QED BY <1>1, <1>8, <2>1, <3>1 DEF pgr_md5_raw, End, OnlyBlock, Cat
  <2>3. last = Cat(Cat(Cat(p, e), ZeroRow(Block - u - 1 - Field)), g)
    BY <1>3, <1>7, <1>11, OneBlock
  <2>4. PICK k \in Nat : k = Block - u - 1 - Field BY <1>11, Sizes
  <2>5. PICK z \in Seq(Octet) : z = ZeroRow(k) BY ZeroRowIs
  <2> HIDE DEF p, e, last
  <2>6. Cat(md, Cat(Cat(Cat(p, e), z), g)) = Cat(Cat(Cat(Cat(md, p), e), z), g)
    BY <1>2, <1>3, <1>4, <1>7, Shifted
  <2>7. Cat(md, last) = D!Padded(Message) BY <1>9, <1>10, <1>11, <2>3, <2>4, <2>5, <2>6
  <2> QED BY <2>2, <2>7
<1>12. CASE ~(u + 1 + Field <= Block)
  <2> DEFINE full == FullBlock(mdbuf, u)
             last == LengthBlock(full, g)
  <2>0. u + 1 + Field > Block BY <1>12, Sizes
  <2>1. NoRoom(Block - (u + 1)) BY <2>0, Sizes DEF NoRoom
  <2>2. out' = <<"std", Cat(Cat(md, full), last)>>
    <3>1. (u + 1) - 1 = u BY Sizes
    <3> QED BY <1>1, <1>8, <2>1, <3>1 DEF pgr_md5_raw, End, FullBlock, LengthBlock, Cat
  <2>3. /\ full = Cat(Cat(p, e), ZeroRow(Block - u - 1))
        /\ last = Cat(ZeroRow(Block - Field), g)
    BY <1>3, <1>7, <2>0, TwoBlocks
  <2>4. PICK k \in Nat : k = Block - u - 1 BY Sizes
  <2>5. PICK h \in Nat : h = Block - Field BY Sizes, Md5Assumption
  <2>6. PICK z \in Seq(Octet) : z = ZeroRow(k) BY ZeroRowIs
  <2>7. PICK y \in Seq(Octet) : y = ZeroRow(h) BY ZeroRowIs
  <2> HIDE DEF p, e, full, last
  <2>8. Cat(Cat(md, Cat(Cat(p, e), z)), Cat(y, g)) = Cat(Cat(Cat(Cat(md, p), e), Cat(z, y)), g)
    BY <1>2, <1>3, <1>4, <1>7, ShiftedTwice
  <2>9. Cat(z, y) = ZeroRow(D!Zeros(n))
    BY <1>10, <1>12, <2>4, <2>5, <2>6, <2>7, ZeroRows DEF Cat
  <2>10. Cat(Cat(md, full), last) = D!Padded(Message)
    BY <1>9, <2>3, <2>4, <2>5, <2>6, <2>7, <2>8, <2>9
  <2> QED BY <2>2, <2>10
<1> QED BY <1>11, <1>12

-----------------------------------------------------------------------------
(* Strings of C, and the functions of the lexer. *)

\* A nonempty set of natural numbers has a least element.
LEMMA Least ==
    ASSUME NEW T \in SUBSET Nat, T # {}
    PROVE  \E x \in T : \A y \in T : ~(y < x)
<1>1. \E x \in T : \A y \in T : ~(<<y, x>> \in OpToRel(<, Nat))
  BY NatLessThanWellFounded, WFMin
<1> QED BY <1>1 DEF OpToRel

LEMMA Ordered ==
    ASSUME NEW K, \A k \in K : k \in Nat, NEW i \in K
    PROVE  /\ {k \in K : k <= i} = {k \in K : k < i} \union {i} /\ i \notin {k \in K : k < i}
           /\ {k \in K : i < k} = {} => {k \in K : k <= i} = K
<1>1. {k \in K : k <= i} = {k \in K : k < i} \union {i} /\ i \notin {k \in K : k < i} OBVIOUS
<1>2. {k \in K : i < k} = {} => {k \in K : k <= i} = K OBVIOUS
<1> QED BY <1>1, <1>2

LEMMA OrderedNext ==
    ASSUME NEW K, \A k \in K : k \in Nat, NEW i \in K, NEW x \in {k \in K : i < k},
           \A y \in {k \in K : i < k} : ~(y < x)
    PROVE  {k \in K : k < x} = {k \in K : k <= i}
OBVIOUS

\* A set of k positions has a first, a second, and so on to a k-th.
LEMMA NthIs ==
    ASSUME NEW n \in Nat, NEW K \in SUBSET (1..n), NEW j \in 1..Cardinality(K)
    PROVE  Nth(K, j) \in K
<1> DEFINE Below(i) == {k \in K : k < i}
           T == {c \in 1..Cardinality(K) : ~\E i \in K : Cardinality(Below(i)) = c - 1}
<1>0. \A k \in K : k \in Nat OBVIOUS
<1>1. IsFiniteSet(K) /\ \A i : IsFiniteSet(Below(i)) /\ Cardinality(Below(i)) \in Nat
  <2>1. IsFiniteSet(1..n) BY FS_Interval
  <2>2. \A S \in SUBSET (1..n) : IsFiniteSet(S) BY <2>1, FS_Subset
  <2>3. \A i : Below(i) \in SUBSET (1..n) OBVIOUS
  <2> QED BY <2>2, <2>3, FS_CardinalityType
<1>2. Cardinality(K) \in Nat BY <1>1, FS_CardinalityType
<1>3. SUFFICES T = {}
  <2>1. PICK i \in K : Cardinality(Below(i)) = j - 1 BY <1>3
  <2> QED BY <2>1 DEF Nth
<1>4. SUFFICES ASSUME T # {} PROVE FALSE OBVIOUS
<1>5. PICK c \in T : \A y \in T : ~(y < c)
  <2>1. T \in SUBSET Nat BY <1>2
  <2> QED BY <1>4, <2>1, Least
<1>6. c \in 1..Cardinality(K) /\ ~\E i \in K : Cardinality(Below(i)) = c - 1 BY <1>5
<1>7. CASE c = 1
  <2>1. K # {} BY <1>2, <1>6, FS_EmptySet
  <2>2. K \in SUBSET Nat OBVIOUS
  <2>3. PICK x \in K : \A y \in K : ~(y < x) BY <2>1, <2>2, Least
  <2>4. Below(x) = {} BY <2>3
  <2>5. Cardinality(Below(x)) = 0 BY <2>4, FS_EmptySet
  <2> QED BY <1>6, <1>7, <2>5
<1>8. CASE c # 1
  <2>1. c - 1 \in 1..Cardinality(K) /\ c - 1 < c BY <1>2, <1>6, <1>8
  <2>2. c - 1 \notin T BY <1>5, <2>1
  <2>3. PICK i \in K : Cardinality(Below(i)) = (c - 1) - 1 BY <2>1, <2>2
  <2> DEFINE Upto == {k \in K : k <= i}
             Rest == {k \in K : i < k}
  <2>4. Upto = Below(i) \union {i} /\ i \notin Below(i) BY <1>0, Ordered
  <2>5. Cardinality(Upto) = c - 1
    <3>1. PICK B : B = Below(i) OBVIOUS
    <3>2. IsFiniteSet(B) /\ i \notin B /\ Cardinality(B) = (c - 1) - 1 BY <1>1, <2>3, <2>4, <3>1
    <3>3. Cardinality(B \union {i}) = Cardinality(B) + 1 BY ONLY <3>2, FS_AddElement
    <3>4. c \in Int BY <1>6
    <3>5. Cardinality(B \union {i}) = c - 1 BY ONLY <3>2, <3>3, <3>4
    <3> QED BY <2>4, <3>1, <3>5
  <2>6. Rest # {}
    <3>1. SUFFICES ASSUME Rest = {} PROVE FALSE OBVIOUS
    <3>2. Upto = K BY <1>0, <3>1, Ordered
    <3>3. Cardinality(K) = c - 1 BY <2>5, <3>2
    <3> QED BY ONLY <1>2, <1>6, <3>3
  <2>7. Rest \in SUBSET Nat BY ONLY <1>0
  <2>8. PICK x \in Rest : \A y \in Rest : ~(y < x) BY <2>6, <2>7, Least
  <2>9. Below(x) = Upto
    <3> HIDE DEF T
    <3> QED BY <1>0, <2>8, OrderedNext
  <2> QED BY <1>6, <2>5, <2>8, <2>9
<1> QED BY <1>7, <1>8

LEMMA CharSeq ==
    ASSUME NEW s \in Seq(Char)
    PROVE  Len(s) \in Nat /\ \A i \in 1..Len(s) : s[i] \in Char
BY LenProperties

LEMMA SubString ==
    ASSUME NEW s \in Seq(Char), NEW i \in Int, NEW k \in Int, i >= 1, k <= Len(s)
    PROVE  /\ SubSeq(s, i, k) \in Seq(Char)
           /\ Len(SubSeq(s, i, k)) = IF i <= k THEN k - i + 1 ELSE 0
<1>1. \A x \in i..k : s[x] \in Char BY CharSeq
<1> QED BY <1>1, SubSeqProperties

LEMMA CStringIs ==
    ASSUME NEW s \in Seq(Char)
    PROVE  CString(s) \in Seq(Char)
<1> DEFINE T == {i \in 1..(Len(s) + 1) : i = Len(s) + 1 \/ s[i] = NUL}
           P(i) == /\ i = Len(s) + 1 \/ s[i] = NUL
                   /\ \A j \in 1..(i - 1) : s[j] # NUL
           c == CHOOSE i \in 1..(Len(s) + 1) : P(i)
<1>1. Len(s) \in Nat BY CharSeq
<1>2. PICK x \in T : \A y \in T : ~(y < x)
  <2>1. T \in SUBSET Nat /\ Len(s) + 1 \in T BY <1>1
  <2> QED BY <2>1, Least
<1>3. x \in 1..(Len(s) + 1) /\ P(x) BY <1>1, <1>2
<1>4. c \in 1..(Len(s) + 1) BY <1>3
<1>5. CString(s) = SubSeq(s, 1, c - 1) BY DEF CString
<1> HIDE DEF c
<1>6. c - 1 \in Int /\ c - 1 <= Len(s) BY <1>1, <1>4
<1> QED BY <1>5, <1>6, SubString

LEMMA AsStringIs ==
    ASSUME NEW t, t.text \in Seq(Char)
    PROVE  as_string(t) \in Seq(Char)
<1>1. CASE t.type = "WORD" BY <1>1 DEF as_string
<1>2. CASE t.type # "WORD"
  <2> DEFINE s     == SubSeq(t.text, 2, Len(t.text) - 1)
             kept  == {i \in 1..Len(s) : Escaped(s, i) \/ s[i] # BS}
             at(j) == Nth(kept, j)
             r     == [j \in 1..Cardinality(kept) |->
                          IF Escaped(s, at(j)) THEN Control(s[at(j)]) ELSE s[at(j)]]
  <2>1. as_string(t) = CString(r) BY <1>2 DEF as_string
  <2>2. s \in Seq(Char)
    <3>1. Len(t.text) \in Nat BY CharSeq
    <3>2. Len(t.text) - 1 \in Int /\ Len(t.text) - 1 <= Len(t.text) BY <3>1
    <3> QED BY <3>2, SubString
  <2> HIDE DEF s
  <2>3. Len(s) \in Nat /\ \A i \in 1..Len(s) : s[i] \in Char BY <2>2, CharSeq
  <2>4. kept \in SUBSET (1..Len(s)) OBVIOUS
  <2>5. Cardinality(kept) \in Nat
    <3>1. IsFiniteSet(1..Len(s)) BY <2>3, FS_Interval
    <3> QED BY <2>4, <3>1, FS_Subset, FS_CardinalityType
  <2>6. \A j \in 1..Cardinality(kept) : at(j) \in 1..Len(s) BY <2>3, <2>4, NthIs
  <2> HIDE DEF kept, at
  <2>7. \A c \in Char : Control(c) \in Char BY DEF Control, Char
  <2>8. r \in [1..Cardinality(kept) -> Char] BY <2>3, <2>6, <2>7
  <2> HIDE DEF r
  <2>9. r \in Seq(Char) BY <2>5, <2>8
  <2> QED BY <2>1, <2>9, CStringIs
<1> QED BY <1>1, <1>2

\* The inductive invariant of the lexer: what a function finds is promised
\* already when the token before it is returned, but for the two tokens after
\* which the parser asks for no other.
Lexing ==
    /\ AuthTypeOK
    /\ start <= pos /\ pos <= max
    /\ pc = "load" => f = "any" /\ start = pos
    /\ pc = "emit" => /\ f # "NULL"
                      /\ f = "any" => start = pos
                      /\ f \in {"bareword", "qstring"} => start = pos - 1
    /\ pc = "token" => \/ f = "any" /\ (start = pos \/ tok.type = "ERROR")
                       \/ f = "NULL" /\ tok.type = "EOS"

LEMMA FirstIs ==
    ASSUME Lexing, NEW S
    PROVE  First(pos, S) \in pos..max
<1> DEFINE T == {e \in pos..max : e = max \/ src[e + 1] \in S}
           P(e) == /\ e = max \/ src[e + 1] \in S
                   /\ \A i \in pos..(e - 1) : src[i + 1] \notin S
<1>1. max \in Nat /\ pos \in Nat /\ pos <= max BY CharSeq DEF Lexing, AuthTypeOK, max
<1>2. PICK x \in T : \A y \in T : ~(y < x)
  <2>1. T \in SUBSET Nat /\ max \in T BY <1>1
  <2> QED BY <2>1, Least
<1>3. x \in pos..max /\ P(x) BY <1>1, <1>2
<1>4. First(pos, S) = CHOOSE e \in pos..max : P(e) BY DEF First
<1> QED BY <1>3, <1>4

LEMMA TokenIs ==
    ASSUME NEW t
    PROVE  /\ Token(t).type = t /\ Token(t).text \in Seq(Char)
           /\ None.type = "NONE" /\ None.text \in Seq(Char)
BY EmptySeq DEF Token, None

LEMMA LexAnyStep == ASSUME Lexing, LexAny PROVE Lexing'
<1> DEFINE e == First(pos, Char \ {" "})
           c == IF e < max THEN src[e + 1] ELSE NUL
           t == CASE c = NUL -> "EOS" [] c = NL -> "NEWLINE" [] OTHER -> "RESTART"
<1>1. /\ pc = "emit" /\ f = "any" /\ pos' = Read(e) /\ start' = IF c \in {NL, "#"} THEN pos' ELSE e
      /\ f' = CASE c = NUL -> "NULL" [] c = NL -> "any" [] c = "#" -> "comment"
                [] c \in Quote -> "qstring" [] OTHER -> "bareword"
      /\ pc' = (IF Token(t).type = "RESTART" THEN "emit" ELSE "token") /\ tok' = Token(t)
      /\ UNCHANGED <<file, src, parser, table>>
  BY DEF LexAny, Emit
<1>2. e \in pos..max BY FirstIs
<1>3. max \in Nat /\ pos \in Nat BY CharSeq DEF Lexing, AuthTypeOK, max
<1>4. Token(t).type = t /\ Token(t).text \in Seq(Char) BY TokenIs
<1>5. max' = max BY <1>1 DEF max
<1> HIDE DEF e
<1>6. c # NUL => e < max OBVIOUS
<1> HIDE DEF c
<1>7. pos' \in Nat /\ start' \in Nat /\ start' <= pos' /\ pos' <= max'
  BY <1>1, <1>2, <1>3, <1>5 DEF Read
<1>8. c \notin {NUL, NL, "#"} => start' = pos' - 1 BY <1>1, <1>2, <1>3, <1>6 DEF Read
<1>9. t \in {"EOS", "NEWLINE", "RESTART"} /\ (t = "EOS" <=> c = NUL) /\ (t = "NEWLINE" <=> c = NL)
  BY DEF NUL, NL
<1> HIDE DEF t
<1>10. AuthTypeOK' BY <1>1, <1>4, <1>7, <1>9 DEF Lexing, AuthTypeOK, parser
<1>11. CASE c = NUL
  <2>1. pc' = "token" /\ f' = "NULL" /\ tok'.type = "EOS" BY <1>1, <1>4, <1>9, <1>11 DEF NL, NUL, Quote
  <2> QED BY <1>7, <1>10, <2>1 DEF Lexing
<1>12. CASE c = NL
  <2>1. /\ pc' = "token" /\ f' = "any" /\ start' = pos'
    BY <1>1, <1>4, <1>9, <1>12 DEF NL, NUL, Quote
  <2> QED BY <1>7, <1>10, <2>1 DEF Lexing
<1>13. CASE c = "#"
  <2>1. pc' = "emit" /\ f' = "comment" BY <1>1, <1>4, <1>9, <1>13 DEF NL, NUL, Quote
  <2> QED BY <1>7, <1>10, <2>1 DEF Lexing
<1>14. CASE c \notin {NUL, NL, "#"}
  <2>1. pc' = "emit" /\ f' \in {"qstring", "bareword"} BY <1>1, <1>4, <1>9, <1>14 DEF NL, NUL
  <2> QED BY <1>7, <1>8, <1>10, <1>14, <2>1 DEF Lexing
<1> QED BY <1>11, <1>12, <1>13, <1>14

LEMMA LexBarewordStep == ASSUME Lexing, LexBareword PROVE Lexing'
<1> DEFINE e == First(pos, Space \union {NUL})
           p == Read(e) - 1
           t == [type |-> "WORD", text |-> SubSeq(src, start + 1, p)]
<1>1. /\ pc = "emit" /\ f = "bareword" /\ pos' = p /\ start' = p /\ f' = "any"
      /\ pc' = (IF t.type = "RESTART" THEN "emit" ELSE "token") /\ tok' = t
      /\ UNCHANGED <<file, src, parser, table>>
  BY DEF LexBareword, Emit
<1>2. e \in pos..max BY FirstIs
<1>3. max \in Nat /\ pos \in Nat /\ start \in Nat /\ start = pos - 1 /\ src \in Seq(Char)
  BY <1>1, CharSeq DEF Lexing, AuthTypeOK, max
<1>4. max' = max BY <1>1 DEF max
<1> HIDE DEF e
<1>5. p \in Nat /\ p <= max BY <1>2, <1>3 DEF Read
<1> HIDE DEF p
<1>6. SubSeq(src, start + 1, p) \in Seq(Char) BY <1>3, <1>5, SubString DEF max
<1>7. tok'.type = "WORD" /\ tok'.text \in Seq(Char) /\ pc' = "token" BY <1>1, <1>6
<1>8. AuthTypeOK' BY <1>1, <1>5, <1>7 DEF Lexing, AuthTypeOK, parser
<1> QED BY <1>1, <1>4, <1>5, <1>7, <1>8 DEF Lexing

LEMMA LexQstringStep == ASSUME Lexing, LexQstring PROVE Lexing'
<1> DEFINE s     == SubSeq(src, pos + 1, max)
           stops == {i \in 1..Len(s) : s[i] \in {src[pos], NUL} /\ ~Escaped(s, i)}
           e     == IF stops = {} THEN Len(s) ELSE CHOOSE i \in stops : \A j \in stops : i <= j
           ends  == stops # {} /\ s[e] # NUL
           t     == IF ends THEN [type |-> "QSTRING", text |-> SubSeq(src, start + 1, pos')]
                            ELSE Token("ERROR")
<1>1. /\ pc = "emit" /\ f = "qstring" /\ pos' = pos + e /\ f' = "any"
      /\ start' = IF ends THEN pos' ELSE start
      /\ pc' = (IF t.type = "RESTART" THEN "emit" ELSE "token") /\ tok' = t
      /\ UNCHANGED <<file, src, parser, table>>
  BY DEF LexQstring, Emit
<1>2. /\ max \in Nat /\ pos \in Nat /\ pos <= max /\ start \in Nat /\ start = pos - 1
      /\ src \in Seq(Char)
  BY <1>1, CharSeq DEF Lexing, AuthTypeOK, max
<1>3. max' = max BY <1>1 DEF max
<1>4. Len(s) = max - pos
  <2>1. pos + 1 \in Int /\ pos + 1 >= 1 /\ max \in Int /\ max <= Len(src) BY <1>2 DEF max
  <2>2. Len(s) = IF pos + 1 <= max THEN max - (pos + 1) + 1 ELSE 0 BY <1>2, <2>1, SubString
  <2> QED BY <1>2, <2>2
<1>5. e \in 0..Len(s)
  <2>1. stops \in SUBSET Nat /\ stops \in SUBSET (1..Len(s)) BY <1>2, <1>4
  <2>2. Len(s) \in Nat BY <1>2, <1>4
  <2> HIDE DEF s, stops
  <2>3. CASE stops = {} BY <2>2, <2>3
  <2>4. CASE stops # {}
    <3>1. PICK x \in stops : \A y \in stops : ~(y < x) BY <2>1, <2>4, Least
    <3>2. \A j \in stops : x <= j BY <2>1, <3>1
    <3>3. e \in stops BY <2>4, <3>2
    <3> HIDE DEF e
    <3> QED BY <2>1, <2>2, <3>3
  <2> QED BY <2>3, <2>4
<1> HIDE DEF s, stops, e, ends
<1>6. pos' \in Nat /\ pos <= pos' /\ pos' <= max BY <1>1, <1>2, <1>4, <1>5
<1>7. start' \in Nat /\ start' <= pos' BY <1>1, <1>2, <1>6
<1>8. SubSeq(src, start + 1, pos') \in Seq(Char) BY <1>2, <1>6, SubString DEF max
<1>9. /\ tok'.type \in {"QSTRING", "ERROR"} /\ tok'.text \in Seq(Char) /\ pc' = "token"
      /\ start' = pos' \/ tok'.type = "ERROR"
  BY <1>1, <1>8, TokenIs
<1>10. AuthTypeOK' BY <1>1, <1>6, <1>7, <1>9 DEF Lexing, AuthTypeOK, parser
<1> QED BY <1>1, <1>3, <1>6, <1>7, <1>9, <1>10 DEF Lexing

LEMMA LexCommentStep == ASSUME Lexing, LexComment PROVE Lexing'
<1> DEFINE e == First(pos, {NL, NUL})
<1>1. /\ pc = "emit" /\ f = "comment" /\ pos' = Read(e) /\ start' = pos' /\ f' = "any"
      /\ pc' = (IF Token("RESTART").type = "RESTART" THEN "emit" ELSE "token")
      /\ tok' = Token("RESTART") /\ UNCHANGED <<file, src, parser, table>>
  BY DEF LexComment, Emit
<1>2. e \in pos..max BY FirstIs
<1>3. max \in Nat /\ pos \in Nat BY CharSeq DEF Lexing, AuthTypeOK, max
<1>4. max' = max BY <1>1 DEF max
<1> HIDE DEF e
<1>5. pos' \in Nat /\ pos' <= max BY <1>1, <1>2, <1>3 DEF Read
<1>6. tok'.type = "RESTART" /\ tok'.text \in Seq(Char) /\ pc' = "emit" BY <1>1, TokenIs
<1>7. AuthTypeOK' BY <1>1, <1>5, <1>6 DEF Lexing, AuthTypeOK, parser
<1> QED BY <1>1, <1>4, <1>5, <1>6, <1>7 DEF Lexing

\* What parse_top does with a token leaves the lexer as it was.
LEMMA ParseStep == ASSUME Lexing, Parse PROVE Lexing'
<1> DEFINE Entry == [user : Seq(Char), hash : Seq(Char)]
<1>1. UNCHANGED <<file, lexer, tok, table>> /\ pc = "token" /\ max' = max
  BY DEF Parse, ParseUser, ParseType, ParseHash, lexer, max
<1>2. as_string(tok) \in Seq(Char) BY AsStringIs DEF Lexing, AuthTypeOK
<1>3. /\ pc' \in {"emit", "parsed"} /\ want' \in 1..3 /\ user' \in Seq(Char)
      /\ pc' = "emit" => tok.type \notin {"EOS", "ERROR"}
  <2>1. want \in 1..3 /\ user \in Seq(Char) BY DEF Lexing, AuthTypeOK
  <2>2. CASE ParseUser
    BY <1>2, <2>1, <2>2 DEF ParseUser, Ask, StopParse, IsString
  <2>3. CASE ParseType
    BY <1>2, <2>1, <2>3 DEF ParseType, Ask, StopParse
  <2>4. CASE ParseHash
    BY <1>2, <2>1, <2>4 DEF ParseHash, Ask, StopParse, IsString
  <2> QED BY <2>2, <2>3, <2>4 DEF Parse
<1>4. entries' \in Seq(Entry)
  <2>1. entries \in Seq(Entry) /\ user \in Seq(Char) BY DEF Lexing, AuthTypeOK
  <2>2. CASE ParseUser \/ ParseType BY <2>1, <2>2 DEF ParseUser, ParseType
  <2>3. CASE ParseHash
    <3> DEFINE new == [user |-> user, hash |-> as_string(tok)]
    <3>1. new \in Entry BY <1>2, <2>1
    <3>2. entries' = entries \/ entries' = <<new>> \o entries BY <2>3 DEF ParseHash
    <3> HIDE DEF new, Entry
    <3>3. <<new>> \in Seq(Entry) BY <3>1
    <3>4. <<new>> \o entries \in Seq(Entry) BY <2>1, <3>3, ConcatProperties
    <3> QED BY <2>1, <3>2, <3>4
  <2> QED BY <2>2, <2>3 DEF Parse
<1>5. AuthTypeOK' BY <1>1, <1>3, <1>4 DEF Lexing, AuthTypeOK, lexer
<1> QED BY <1>1, <1>3, <1>5 DEF Lexing, lexer

LEMMA InstallStep == ASSUME Lexing, Install PROVE Lexing'
<1> DEFINE Entry == [user : Seq(Char), hash : Seq(Char)]
<1>1. /\ pc' = "ready" /\ UNCHANGED <<file, lexer, tok, parser>> /\ max' = max
      /\ table' = [i \in 1..Len(entries) |-> entries[Len(entries) + 1 - i]]
  BY DEF Install, lexer, max
<1>2. entries \in Seq(Entry) BY DEF Lexing, AuthTypeOK
<1> HIDE DEF Entry
<1>3. Len(entries) \in Nat /\ \A i \in 1..Len(entries) : entries[i] \in Entry
  BY <1>2, LenProperties
<1>4. \A i \in 1..Len(entries) : Len(entries) + 1 - i \in 1..Len(entries) BY <1>3
<1>5. table' \in [1..Len(entries) -> Entry] BY <1>1, <1>3, <1>4
<1>6. table' \in Seq(Entry) BY <1>3, <1>5
<1>7. AuthTypeOK' BY <1>1, <1>6 DEF Lexing, AuthTypeOK, lexer, parser, Entry
<1> QED BY <1>1, <1>7 DEF Lexing, lexer

LEMMA LoadStep ==
    ASSUME Lexing, (\E l \in Lines : Load(l)) \/ Loaded \/ LoadFails
    PROVE  Lexing'
<1>1. ASSUME NEW l \in Lines, Load(l) PROVE Lexing'
  <2>1. /\ pc = "load" /\ file' = Append(file, l) /\ src' = src \o l.text
        /\ UNCHANGED <<pc, pos, start, f, tok, parser, table>>
    BY <1>1 DEF Load
  <2>2. file \in Seq(Lines) /\ src \in Seq(Char) /\ l.text \in Seq(Char)
    BY AuthDbAssumption DEF Lexing, AuthTypeOK
  <2>3. Len(src) \in Nat /\ Len(l.text) \in Nat BY <2>2, CharSeq
  <2>4. file' \in Seq(Lines) BY <2>1, <2>2, AppendProperties
  <2>5. src' \in Seq(Char) /\ Len(src') = Len(src) + Len(l.text) BY <2>1, <2>2, ConcatProperties
  <2>6. AuthTypeOK' BY <2>1, <2>4, <2>5 DEF Lexing, AuthTypeOK, parser
  <2>7. pos' <= max' /\ start' <= pos' BY <2>1, <2>3, <2>5 DEF Lexing, AuthTypeOK, max
  <2> QED BY <2>1, <2>6, <2>7 DEF Lexing
<1>2. ASSUME Loaded \/ LoadFails PROVE Lexing'
  <2>1. /\ pc = "load" /\ pc' \in {"emit", "failed"} /\ UNCHANGED <<file, lexer, tok, parser, table>>
        /\ max' = max
    BY <1>2 DEF Loaded, LoadFails, lexer, max
  <2>2. AuthTypeOK' BY <2>1 DEF Lexing, AuthTypeOK, lexer, parser
  <2> QED BY <2>1, <2>2 DEF Lexing, lexer
<1> QED BY <1>1, <1>2

LEMMA LexerStep == ASSUME Lexing, AuthNext PROVE Lexing'
BY LoadStep, LexAnyStep, LexBarewordStep, LexQstringStep, LexCommentStep, ParseStep, InstallStep
   DEF AuthNext, Lex

LEMMA LexerStays == ASSUME Lexing, UNCHANGED authVars PROVE Lexing'
<1>1. max' = max BY DEF authVars, max
<1> QED BY <1>1 DEF Lexing, AuthTypeOK, authVars

LEMMA LexerBegins == AuthInit => Lexing
<1> SUFFICES ASSUME AuthInit PROVE Lexing OBVIOUS
<1>1. \A S : <<>> \in Seq(S) /\ Len(<<>>) = 0 BY EmptySeq
<1>2. AuthTypeOK BY <1>1, TokenIs DEF AuthInit, AuthTypeOK
<1> QED BY <1>1, <1>2 DEF AuthInit, Lexing, max

-----------------------------------------------------------------------------
(* What a digest tells of the octets it was computed from. *)

LEMMA DataIs ==
    /\ \A c, x : <<"data", c>> = <<"data", x>> => c = x
    /\ \A c : <<"data", c>> # End
    /\ Data \subseteq Octet
BY DEF End, Octet

LEMMA OctetsIs ==
    ASSUME NEW s \in Seq(Char)
    PROVE  /\ Octets(s) \in Seq(Data) /\ Octets(s) \in Seq(Octet) /\ Len(Octets(s)) = Len(s)
           /\ \A i \in 1..Len(s) : Octets(s)[i] = <<"data", s[i]>>
<1>1. Len(s) \in Nat /\ \A i \in 1..Len(s) : s[i] \in Char BY CharSeq
<1>2. Octets(s) \in [1..Len(s) -> Data] BY <1>1 DEF Octets, Data
<1>3. Octets(s) \in Seq(Data) /\ Len(Octets(s)) = Len(s) BY <1>1, <1>2
<1>4. Octets(s) \in Seq(Octet) BY <1>3, DataIs, SeqMonotonic
<1> QED BY <1>3, <1>4 DEF Octets

LEMMA OctetsJoined ==
    ASSUME NEW s \in Seq(Char), NEW t \in Seq(Char)
    PROVE  Octets(s) \o Octets(t) = Octets(s \o t)
<1> DEFINE p == Octets(s) \o Octets(t)
           q == Octets(s \o t)
<1>1. Len(s) \in Nat /\ Len(t) \in Nat BY CharSeq
<1>2. /\ p \in Seq(Octet) /\ Len(p) = Len(s) + Len(t)
      /\ \A i \in 1..(Len(s) + Len(t)) :
             p[i] = IF i <= Len(s) THEN Octets(s)[i] ELSE Octets(t)[i - Len(s)]
  <2>1. PICK a \in Seq(Octet) : a = Octets(s) /\ Len(a) = Len(s) BY OctetsIs
  <2>2. PICK b \in Seq(Octet) : b = Octets(t) /\ Len(b) = Len(t) BY OctetsIs
  <2>3. /\ a \o b \in Seq(Octet) /\ Len(a \o b) = Len(a) + Len(b)
        /\ \A i \in 1..(Len(a) + Len(b)) :
               (a \o b)[i] = IF i <= Len(a) THEN a[i] ELSE b[i - Len(a)]
    BY ConcatProperties
  <2> QED BY <2>1, <2>2, <2>3
<1>3. /\ s \o t \in Seq(Char) /\ Len(s \o t) = Len(s) + Len(t)
      /\ \A i \in 1..(Len(s) + Len(t)) : (s \o t)[i] = IF i <= Len(s) THEN s[i] ELSE t[i - Len(s)]
  BY ConcatProperties
<1>4. PICK st \in Seq(Char) : st = s \o t BY <1>3
<1>5. /\ q \in Seq(Octet) /\ Len(q) = Len(s) + Len(t)
      /\ \A i \in 1..(Len(s) + Len(t)) : q[i] = <<"data", st[i]>>
  BY <1>3, <1>4, OctetsIs
<1> HIDE DEF p, q
<1>6. ASSUME NEW i \in 1..(Len(s) + Len(t)) PROVE p[i] = q[i]
  <2>1. CASE i <= Len(s)
    <3>1. i \in 1..Len(s) BY <1>1, <2>1
    <3>2. Octets(s)[i] = <<"data", s[i]>> BY <3>1, OctetsIs
    <3> QED BY <1>2, <1>3, <1>4, <1>5, <2>1, <3>2
  <2>2. CASE ~(i <= Len(s))
    <3>0. i - Len(s) \in 1..Len(t) BY ONLY <1>1, <2>2, i \in 1..(Len(s) + Len(t))
    <3>1. PICK k \in 1..Len(t) : k = i - Len(s) BY ONLY <3>0
    <3>2. Octets(t)[k] = <<"data", t[k]>> BY <3>1, OctetsIs
    <3> QED BY <1>2, <1>3, <1>4, <1>5, <2>2, <3>1, <3>2
  <2> QED BY <2>1, <2>2
<1>7. p = q BY <1>2, <1>5, <1>6, SeqEqual
<1> QED BY <1>7 DEF p, q

\* The first octet that is not of the message is the one behind it.
LEMMA PaddedFront ==
    ASSUME NEW m \in Seq(Data)
    PROVE  /\ Len(m) \in Nat /\ D!Padded(m)[Len(m) + 1] = End
           /\ \A i \in 1..Len(m) : D!Padded(m)[i] = m[i]
<1>1. m \in Seq(Octet) BY DataIs, SeqMonotonic
<1>2. Len(m) \in Nat BY <1>1, LenProperties
<1>3. PICK n \in Nat : n = Len(m) BY <1>2
<1>4. D!Zeros(n) \in Nat
  <2>1. PICK u \in 0..(Block - 1) : u = n % Block BY Sizes, DivMod
  <2>2. D!Zeros(n) = IF u + 1 + Field <= Block THEN Block - u - 1 - Field
                                               ELSE (Block - u - 1) + (Block - Field)
    BY <2>1, ZerosIs
  <2> QED BY ONLY <2>2, u \in 0..(Block - 1), Md5Assumption
<1>5. PICK z \in Seq(Octet) : z = ZeroRow(D!Zeros(n)) BY <1>4, ZeroRowIs
<1>6. PICK g \in Seq(Octet) : g = D!Length(n) BY LengthIs
<1>7. <<End>> \in Seq(Octet) /\ Len(<<End>>) = 1 /\ <<End>>[1] = End BY DEF Octet
<1>8. PICK s \in Seq(Octet) : /\ s = m \o <<End>> /\ Len(s) = n + 1 /\ s[n + 1] = End
                              /\ \A i \in 1..n : s[i] = m[i]
  <2>1. /\ m \o <<End>> \in Seq(Octet) /\ Len(m \o <<End>>) = Len(m) + 1
        /\ \A i \in 1..(Len(m) + 1) :
               (m \o <<End>>)[i] = IF i <= Len(m) THEN m[i] ELSE <<End>>[i - Len(m)]
    BY <1>1, <1>7, ConcatProperties
  <2>2. PICK s \in Seq(Octet) : s = m \o <<End>> BY <2>1
  <2>3. s[n + 1] = End
    <3>1. n + 1 \in 1..(n + 1) /\ ~(n + 1 <= n) /\ (n + 1) - n = 1 OBVIOUS
    <3> QED BY <1>3, <1>7, <2>1, <2>2, <3>1
  <2>4. \A i \in 1..n : s[i] = m[i] BY <1>3, <2>1, <2>2
  <2> QED BY <1>3, <2>1, <2>2, <2>3, <2>4
<1>9. PICK sz \in Seq(Octet) : sz = s \o z /\ Len(sz) >= n + 1 /\ \A i \in 1..(n + 1) : sz[i] = s[i]
  <2>1. Len(z) \in Nat BY LenProperties
  <2>2. /\ s \o z \in Seq(Octet) /\ Len(s \o z) = (n + 1) + Len(z)
        /\ \A i \in 1..((n + 1) + Len(z)) : (s \o z)[i] = IF i <= n + 1 THEN s[i] ELSE z[i - (n + 1)]
    BY <1>8, ConcatProperties
  <2>3. \A i \in 1..(n + 1) : i \in 1..((n + 1) + Len(z)) /\ i <= n + 1 BY <2>1
  <2>4. (n + 1) + Len(z) >= n + 1 BY <2>1
  <2> QED BY <2>2, <2>3, <2>4
<1>10. \A i \in 1..(n + 1) : (sz \o g)[i] = sz[i]
  <2>1. Len(g) \in Nat /\ Len(sz) \in Nat BY LenProperties
  <2>2. \A i \in 1..(Len(sz) + Len(g)) : (sz \o g)[i] = IF i <= Len(sz) THEN sz[i] ELSE g[i - Len(sz)]
    BY ConcatProperties
  <2>3. \A i \in 1..(n + 1) : i \in 1..(Len(sz) + Len(g)) /\ i <= Len(sz) BY <1>9, <2>1
  <2> QED BY <2>2, <2>3
<1>11. D!Padded(m) = sz \o g BY <1>1, <1>3, <1>5, <1>6, <1>8, <1>9, PaddedIs DEF Cat
<1>12. \A i \in 1..n : i \in 1..(n + 1) OBVIOUS
<1>13. n + 1 \in 1..(n + 1) OBVIOUS
<1> QED BY <1>3, <1>8, <1>9, <1>10, <1>11, <1>12, <1>13

\* Equal digests are those of equal messages.
LEMMA PaddedOnce ==
    ASSUME NEW m \in Seq(Data), NEW k \in Seq(Data), D!Padded(m) = D!Padded(k)
    PROVE  m = k
<1>1. /\ Len(m) \in Nat /\ D!Padded(m)[Len(m) + 1] = End
      /\ \A i \in 1..Len(m) : D!Padded(m)[i] = m[i]
  BY PaddedFront
<1>2. /\ Len(k) \in Nat /\ D!Padded(k)[Len(k) + 1] = End
      /\ \A i \in 1..Len(k) : D!Padded(k)[i] = k[i]
  BY PaddedFront
<1>3. (\A i \in 1..Len(m) : m[i] # End) /\ (\A i \in 1..Len(k) : k[i] # End)
  <2>1. \A d \in Data : d # End BY DataIs DEF Data
  <2> QED BY <2>1, LenProperties
<1>4. ~(Len(m) < Len(k))
  <2>1. SUFFICES ASSUME Len(m) < Len(k) PROVE FALSE OBVIOUS
  <2>2. Len(m) + 1 \in 1..Len(k) BY <1>1, <1>2, <2>1
  <2> QED BY <1>1, <1>2, <1>3, <2>2
<1>5. ~(Len(k) < Len(m))
  <2>1. SUFFICES ASSUME Len(k) < Len(m) PROVE FALSE OBVIOUS
  <2>2. Len(k) + 1 \in 1..Len(m) BY <1>1, <1>2, <2>1
  <2> QED BY <1>1, <1>2, <1>3, <2>2
<1>6. Len(m) = Len(k) BY <1>1, <1>2, <1>4, <1>5
<1>7. \A i \in 1..Len(m) : m[i] = k[i] BY <1>1, <1>2, <1>6
<1> QED BY <1>6, <1>7, SeqEqual

\* Strings with the same salt behind them, and the same octets, are the same.
LEMMA SaltedOnce ==
    ASSUME NEW s \in Seq(Char), NEW t \in Seq(Char), NEW v \in Seq(Char),
           Octets(s \o v) = Octets(t \o v)
    PROVE  s = t
<1>1. Len(s) \in Nat /\ Len(t) \in Nat /\ Len(v) \in Nat BY CharSeq
<1>2. PICK x \in Seq(Char) : /\ x = s \o v /\ Len(x) = Len(s) + Len(v)
                             /\ \A i \in 1..Len(s) : x[i] = s[i]
  <2>1. /\ s \o v \in Seq(Char) /\ Len(s \o v) = Len(s) + Len(v)
        /\ \A i \in 1..(Len(s) + Len(v)) : (s \o v)[i] = IF i <= Len(s) THEN s[i] ELSE v[i - Len(s)]
    BY ConcatProperties
  <2>2. \A i \in 1..Len(s) : i \in 1..(Len(s) + Len(v)) /\ i <= Len(s) BY <1>1
  <2> QED BY <2>1, <2>2
<1>3. PICK y \in Seq(Char) : /\ y = t \o v /\ Len(y) = Len(t) + Len(v)
                             /\ \A i \in 1..Len(t) : y[i] = t[i]
  <2>1. /\ t \o v \in Seq(Char) /\ Len(t \o v) = Len(t) + Len(v)
        /\ \A i \in 1..(Len(t) + Len(v)) : (t \o v)[i] = IF i <= Len(t) THEN t[i] ELSE v[i - Len(t)]
    BY ConcatProperties
  <2>2. \A i \in 1..Len(t) : i \in 1..(Len(t) + Len(v)) /\ i <= Len(t) BY <1>1
  <2> QED BY <2>1, <2>2
<1>4. Octets(x) = Octets(y) BY <1>2, <1>3
<1>5. Len(x) = Len(y) BY <1>4, OctetsIs
<1>6. Len(s) = Len(t) BY <1>1, <1>2, <1>3, <1>5
<1>7. ASSUME NEW i \in 1..Len(s) PROVE s[i] = t[i]
  <2>1. i \in 1..Len(x) /\ i \in 1..Len(y) /\ i \in 1..Len(t) BY <1>1, <1>2, <1>3, <1>6
  <2>2. Octets(x)[i] = <<"data", x[i]>> /\ Octets(y)[i] = <<"data", y[i]>> BY <2>1, OctetsIs
  <2>3. x[i] = y[i] BY <1>4, <2>2, DataIs
  <2> QED BY <1>2, <1>3, <2>1, <2>3
<1> QED BY <1>6, <1>7, SeqEqual

-----------------------------------------------------------------------------
(* check_auth and password_message. *)

Checking == {"check", "check hash", "check salt", "check result"}
Proving  == {"prove", "prove hash", "prove salt", "prove result", "proved"}

\* What the connection knows of its client.
Known ==
    /\ phase \in {"idle", "api", "over"} \union Checking \union Proving
    /\ fed \in 0..Len(Text) /\ claim \in Seq(Char)
    /\ phase \in {"idle", "api"} => pwhash = {} /\ verdict = "none"
    /\ phase \notin {"idle", "api"} => pwhash = pgr_auth_find(who)
    /\ phase \in Checking => pwhash # {} /\ verdict = "none"
    /\ phase \in Proving => pwhash # {} /\ verdict = "ok" /\ Hash = claim
    /\ phase = "over" => verdict = "denied" /\ (pwhash = {} \/ Hash # claim)

\* What md5.c has been handed so far, between the calls of one computation.
Handed ==
    /\ phase \in {"check hash", "prove hash"} => iv = "std" /\ Message = <<>>
    /\ phase = "check salt" => iv = "std" /\ Message = Octets(Hash)
    /\ phase = "check result" => iv = "std" /\ Message = Octets(Hash) \o Octets(Salt)
    /\ phase = "prove salt" => iv = "std" /\ Message = Proved
    /\ phase = "prove result" => iv = "std" /\ Message = Proved \o Octets(Salt2)
    /\ phase = "proved" => out = <<"std", D!Padded(Proved \o Octets(Salt2))>>

IInv == Lexing /\ Stream /\ Known /\ Handed

\* The search finds one hash of the table, or none.
LEMMA FindIs ==
    ASSUME Lexing, NEW u
    PROVE  \/ pgr_auth_find(u) = {}
           \/ \E i \in 1..Len(table) : /\ pgr_auth_find(u) = {table[i].hash}
                                       /\ table[i].hash \in Seq(Char)
<1>1. Len(table) \in Nat /\ \A i \in 1..Len(table) : table[i] \in [user : Seq(Char), hash : Seq(Char)]
  BY LenProperties DEF Lexing, AuthTypeOK
<1>2. CASE Entries(u) = {} BY <1>2 DEF pgr_auth_find
<1>3. CASE Entries(u) # {}
  <2>1. Entries(u) \in SUBSET Nat /\ Entries(u) \in SUBSET (1..Len(table)) BY <1>1 DEF Entries
  <2>2. PICK x \in Entries(u) : \A y \in Entries(u) : ~(y < x) BY <1>3, <2>1, Least
  <2>3. \A y \in Entries(u) : x <= y BY <2>1, <2>2
  <2> DEFINE i == CHOOSE i \in Entries(u) : \A j \in Entries(u) : i <= j
  <2>4. i \in Entries(u) BY <2>3
  <2>5. pgr_auth_find(u) = {table[i].hash} BY <1>3 DEF pgr_auth_find
  <2> HIDE DEF i
  <2>6. i \in 1..Len(table) /\ table[i].hash \in Seq(Char) BY <1>1, <2>1, <2>4
  <2> QED BY <2>5, <2>6
<1> QED BY <1>2, <1>3

LEMMA HashIs ==
    ASSUME Lexing, Known, pwhash # {}
    PROVE  pwhash = {Hash} /\ Hash \in Seq(Char)
<1>1. pwhash = pgr_auth_find(who) BY DEF Known
<1>2. PICK i \in 1..Len(table) : pwhash = {table[i].hash} /\ table[i].hash \in Seq(Char)
  BY <1>1, FindIs
<1>3. Hash = table[i].hash BY <1>2 DEF Hash
<1> QED BY <1>2, <1>3

LEMMA ProvedIs ==
    ASSUME Lexing, Known, pwhash # {}
    PROVE  /\ Proved \in Seq(Octet)
           /\ Len(Hash) = HashLen => Proved = Octets(Hash)
<1>1. Hash \in Seq(Char) BY HashIs
<1>2. Len(Hash) \in Nat /\ \A i \in 1..Len(Hash) : Hash[i] \in Char BY <1>1, CharSeq
<1>3. HashLen \in Nat BY CredentialsAssumption
<1>4. ASSUME NEW i \in 1..HashLen
      PROVE  (IF i <= Len(Hash) THEN <<"data", Hash[i]>> ELSE Stray) \in Octet
  <2>1. i <= Len(Hash) => i \in 1..Len(Hash) BY <1>2, <1>3
  <2> QED BY <1>2, <2>1 DEF Octet, Data
<1>5. Proved \in [1..HashLen -> Octet] BY <1>4 DEF Proved
<1>6. Proved \in Seq(Octet) BY <1>3, <1>5
<1>7. ASSUME Len(Hash) = HashLen PROVE Proved = Octets(Hash)
  <2>1. \A i \in 1..HashLen : i <= Len(Hash) BY <1>3, <1>7
  <2> QED BY <1>7, <2>1 DEF Proved, Octets
<1> QED BY <1>6, <1>7

LEMMA FoundStays == ASSUME UNCHANGED authVars, who' = who PROVE pgr_auth_find(who)' = pgr_auth_find(who)
BY DEF authVars, pgr_auth_find, Entries

LEMMA HashStays == ASSUME pwhash' = pwhash PROVE Hash' = Hash /\ Proved' = Proved
BY DEF Hash, Proved

LEMMA PhasesApart ==
    /\ Checking \intersect Proving = {}
    /\ {"idle", "api", "over"} \intersect (Checking \union Proving) = {}
BY DEF Checking, Proving

\* A step inside one computation.
LEMMA KnownStays ==
    ASSUME Known, UNCHANGED authVars, UNCHANGED conn,
           \/ phase \in Checking /\ phase' \in Checking
           \/ phase \in Proving /\ phase' \in Proving
    PROVE  Known'
<1>1. UNCHANGED <<who, claim, pwhash, verdict, fed>> BY DEF conn
<1>2. pgr_auth_find(who)' = pgr_auth_find(who) BY <1>1, FoundStays
<1>3. Hash' = Hash BY <1>1, HashStays
<1>4. CASE phase \in Checking /\ phase' \in Checking
  <2>1. pwhash = pgr_auth_find(who) /\ pwhash # {} /\ verdict = "none"
    BY <1>4, PhasesApart DEF Known
  <2> QED BY <1>1, <1>2, <1>4, <2>1, PhasesApart DEF Known
<1>5. CASE phase \in Proving /\ phase' \in Proving
  <2>1. pwhash = pgr_auth_find(who) /\ pwhash # {} /\ verdict = "ok" /\ Hash = claim
    BY <1>5, PhasesApart DEF Known
  <2> QED BY <1>1, <1>2, <1>3, <1>5, <2>1, PhasesApart DEF Known
<1> QED BY <1>4, <1>5

LEMMA StreamStays == ASSUME Stream, UNCHANGED mdVars PROVE Stream' /\ Message' = Message
<1>1. UNCHANGED <<mdbuf, md, lo, hi, iv, sizes>> BY DEF mdVars
<1>2. Message' = Message BY <1>1 DEF Message
<1>3. Counted' BY <1>1, <1>2 DEF Stream, Counted
<1> QED BY <1>1, <1>2, <1>3 DEF Stream

\* The calls of check_auth up to the result.
LEMMA CheckStep == ASSUME IInv, Check \/ CheckHash \/ CheckSalt PROVE IInv'
<1>1. UNCHANGED authVars /\ UNCHANGED conn /\ pwhash' = pwhash BY DEF Check, CheckHash, CheckSalt, conn
<1>2. Lexing' BY <1>1, LexerStays DEF IInv
<1>3. phase \in Checking /\ phase' \in Checking BY DEF Check, CheckHash, CheckSalt, Checking
<1>4. Known' BY <1>1, <1>3, KnownStays DEF IInv
<1>5. Hash' = Hash /\ Hash \in Seq(Char) /\ Octets(Hash)' = Octets(Hash)
  <2>1. pwhash # {} BY <1>3 DEF IInv, Known
  <2>2. Hash' = Hash /\ Hash \in Seq(Char) BY <1>1, <2>1, HashIs, HashStays DEF IInv
  <2> QED BY <2>2 DEF Octets
<1>6. Octets(Hash) \in Seq(Octet) /\ Octets(Salt) \in Seq(Octet) /\ Octets(Salt)' = Octets(Salt)
  BY <1>5, OctetsIs, CredentialsAssumption DEF Octets
<1>7. CASE Check
  <2>1. phase' = "check hash" /\ pgr_md5_init BY <1>7 DEF Check
  <2>2. Stream' /\ iv' = "std" /\ Message' = <<>> BY <2>1, InitStep DEF IInv
  <2>3. Handed' BY <2>1, <2>2 DEF Handed
  <2> QED BY <1>2, <1>4, <2>2, <2>3 DEF IInv
<1>8. CASE CheckHash
  <2>1. phase = "check hash" /\ phase' = "check salt" /\ pgr_md5_update(Octets(Hash))
    BY <1>8 DEF CheckHash
  <2>2. iv = "std" /\ Message = <<>> BY <2>1 DEF IInv, Handed
  <2>3. Stream' /\ iv' = "std" /\ Message' = Message \o Octets(Hash)
    BY <1>6, <2>1, <2>2, UpdateStep DEF IInv
  <2>4. Message' = Octets(Hash) BY <1>6, <2>2, <2>3, ConcatEmptySeq
  <2>5. Handed' BY <1>5, <2>1, <2>3, <2>4 DEF Handed
  <2> QED BY <1>2, <1>4, <2>3, <2>5 DEF IInv
<1>9. CASE CheckSalt
  <2>1. phase = "check salt" /\ phase' = "check result" /\ pgr_md5_update(Octets(Salt))
    BY <1>9 DEF CheckSalt
  <2>2. iv = "std" /\ Message = Octets(Hash) BY <2>1 DEF IInv, Handed
  <2>3. Stream' /\ iv' = "std" /\ Message' = Message \o Octets(Salt)
    BY <1>6, <2>1, <2>2, UpdateStep DEF IInv
  <2>4. Message' = Octets(Hash) \o Octets(Salt) BY <2>2, <2>3
  <2>5. Handed' BY <1>5, <1>6, <2>1, <2>3, <2>4 DEF Handed
  <2> QED BY <1>2, <1>4, <2>3, <2>5 DEF IInv
<1> QED BY <1>7, <1>8, <1>9

\* The client's answer is the router's result if and only if it knows the hash.
LEMMA CheckResultStep == ASSUME IInv, CheckResult PROVE IInv'
<1>1. /\ phase = "check result" /\ pgr_md5_raw
      /\ verdict' = (IF out' = ClientAnswer(claim) THEN "ok" ELSE "denied")
      /\ phase' = (IF verdict' = "ok" THEN "prove" ELSE "over")
      /\ UNCHANGED authVars /\ UNCHANGED <<who, claim, pwhash, fed>>
  BY DEF CheckResult
<1>2. Lexing' BY <1>1, LexerStays DEF IInv
<1>3. Stream' BY <1>1, RawStep DEF IInv
<1>4. /\ pwhash # {} /\ pwhash = pgr_auth_find(who) /\ claim \in Seq(Char) /\ fed \in 0..Len(Text)
  BY <1>1 DEF IInv, Known, Checking
<1>5. Hash \in Seq(Char) /\ Hash' = Hash BY <1>1, <1>4, HashIs, HashStays DEF IInv
<1>6. iv = "std" /\ Message = Octets(Hash) \o Octets(Salt) BY <1>1 DEF IInv, Handed
<1>7. Salt \in Seq(Char) BY CredentialsAssumption
<1>8. PICK h \in Seq(Char) : h = Hash \o Salt BY <1>5, <1>7, ConcatProperties
<1>9. PICK c \in Seq(Char) : c = claim \o Salt BY <1>4, <1>7, ConcatProperties
<1>10. out' = <<"std", D!Padded(Octets(h))>>
  <2>1. Message = Octets(h) BY <1>5, <1>6, <1>7, <1>8, OctetsJoined
  <2> QED BY <1>1, <1>6, <2>1, RawResult DEF IInv
<1>11. ClientAnswer(claim) = <<"std", D!Padded(Octets(c))>> BY <1>9 DEF ClientAnswer
<1>12. out' = ClientAnswer(claim) <=> Hash = claim
  <2>1. ASSUME out' = ClientAnswer(claim) PROVE Hash = claim
    <3>1. D!Padded(Octets(h)) = D!Padded(Octets(c)) BY <1>10, <1>11, <2>1
    <3>2. Octets(h) = Octets(c) BY <3>1, OctetsIs, PaddedOnce
    <3> QED BY <1>4, <1>5, <1>7, <1>8, <1>9, <3>2, SaltedOnce
  <2>2. ASSUME Hash = claim PROVE out' = ClientAnswer(claim)
    BY <1>8, <1>9, <1>10, <1>11, <2>2
  <2> QED BY <2>1, <2>2
<1>13. pgr_auth_find(who)' = pgr_auth_find(who) BY <1>1, FoundStays
<1>14. CASE Hash = claim
  <2>1. verdict' = "ok" /\ phase' = "prove" BY <1>1, <1>12, <1>14
  <2>2. Known' BY <1>1, <1>4, <1>5, <1>13, <1>14, <2>1 DEF Known, Checking, Proving
  <2>3. Handed' BY <2>1 DEF Handed
  <2> QED BY <1>2, <1>3, <2>2, <2>3 DEF IInv
<1>15. CASE Hash # claim
  <2>1. verdict' = "denied" /\ phase' = "over" BY <1>1, <1>12, <1>15
  <2>2. Known' BY <1>1, <1>4, <1>5, <1>13, <1>15, <2>1 DEF Known, Checking, Proving
  <2>3. Handed' BY <2>1 DEF Handed
  <2> QED BY <1>2, <1>3, <2>2, <2>3 DEF IInv
<1> QED BY <1>14, <1>15

\* The calls of password_message.
LEMMA ProveStep == ASSUME IInv, Prove \/ ProveHash \/ ProveSalt \/ ProveResult PROVE IInv'
<1>1. UNCHANGED authVars /\ UNCHANGED conn /\ pwhash' = pwhash
  BY DEF Prove, ProveHash, ProveSalt, ProveResult, conn
<1>2. Lexing' BY <1>1, LexerStays DEF IInv
<1>3. phase \in Proving /\ phase' \in Proving BY DEF Prove, ProveHash, ProveSalt, ProveResult, Proving
<1>4. Known' BY <1>1, <1>3, KnownStays DEF IInv
<1>5. Proved' = Proved /\ Proved \in Seq(Octet)
  <2>1. pwhash # {} BY <1>3 DEF IInv, Known
  <2> QED BY <1>1, <2>1, ProvedIs, HashStays DEF IInv
<1>6. Octets(Salt2) \in Seq(Octet) /\ Octets(Salt2)' = Octets(Salt2)
  BY OctetsIs, CredentialsAssumption DEF Octets
<1>7. CASE Prove
  <2>1. phase' = "prove hash" /\ pgr_md5_init BY <1>7 DEF Prove
  <2>2. Stream' /\ iv' = "std" /\ Message' = <<>> BY <2>1, InitStep DEF IInv
  <2>3. Handed' BY <2>1, <2>2 DEF Handed
  <2> QED BY <1>2, <1>4, <2>2, <2>3 DEF IInv
<1>8. CASE ProveHash
  <2>1. phase = "prove hash" /\ phase' = "prove salt" /\ pgr_md5_update(Proved)
    BY <1>8 DEF ProveHash
  <2>2. iv = "std" /\ Message = <<>> BY <2>1 DEF IInv, Handed
  <2>3. Stream' /\ iv' = "std" /\ Message' = Message \o Proved
    BY <1>5, <2>1, <2>2, UpdateStep DEF IInv
  <2>4. Message' = Proved BY <1>5, <2>2, <2>3, ConcatEmptySeq
  <2>5. Handed' BY <1>5, <2>1, <2>3, <2>4 DEF Handed
  <2> QED BY <1>2, <1>4, <2>3, <2>5 DEF IInv
<1>9. CASE ProveSalt
  <2>1. phase = "prove salt" /\ phase' = "prove result" /\ pgr_md5_update(Octets(Salt2))
    BY <1>9 DEF ProveSalt
  <2>2. iv = "std" /\ Message = Proved BY <2>1 DEF IInv, Handed
  <2>3. Stream' /\ iv' = "std" /\ Message' = Message \o Octets(Salt2)
    BY <1>6, <2>1, <2>2, UpdateStep DEF IInv
  <2>4. Message' = Proved \o Octets(Salt2) BY <2>2, <2>3
  <2>5. Handed' BY <1>5, <1>6, <2>1, <2>3, <2>4 DEF Handed
  <2> QED BY <1>2, <1>4, <2>3, <2>5 DEF IInv
<1>10. CASE ProveResult
  <2>1. phase = "prove result" /\ phase' = "proved" /\ pgr_md5_raw BY <1>10 DEF ProveResult
  <2>2. iv = "std" /\ Message = Proved \o Octets(Salt2) BY <2>1 DEF IInv, Handed
  <2>3. Stream' BY <2>1, RawStep DEF IInv
  <2>4. out' = <<"std", D!Padded(Proved \o Octets(Salt2))>> BY <2>1, <2>2, RawResult DEF IInv
  <2>5. D!Padded(Proved \o Octets(Salt2))' = D!Padded(Proved \o Octets(Salt2))
    BY <1>5, <1>6 DEF D!Padded, D!Zeros, D!Length
  <2>6. Handed' BY <2>1, <2>4, <2>5 DEF Handed
  <2> QED BY <1>2, <1>4, <2>3, <2>6 DEF IInv
<1> QED BY <1>7, <1>8, <1>9, <1>10

LEMMA IdentifyStep == ASSUME IInv, NEW u \in Users, NEW h \in Secrets, Identify(u, h) PROVE IInv'
<1>1. /\ phase = "idle" /\ who' = u /\ claim' = h /\ pwhash' = pgr_auth_find(u)
      /\ IF pwhash' = {} THEN verdict' = "denied" /\ phase' = "over"
                         ELSE verdict' = "none" /\ phase' = "check"
      /\ UNCHANGED authVars /\ UNCHANGED mdVars /\ fed' = fed
  BY DEF Identify
<1>2. Lexing' /\ Stream' BY <1>1, LexerStays, StreamStays DEF IInv
<1>3. pgr_auth_find(who)' = pgr_auth_find(u) BY <1>1 DEF authVars, pgr_auth_find, Entries
<1>4. claim' \in Seq(Char) /\ fed' \in 0..Len(Text)
  BY <1>1, CredentialsAssumption DEF IInv, Known
<1>5. Known' /\ Handed' BY <1>1, <1>3, <1>4 DEF Known, Handed, Checking, Proving
<1> QED BY <1>2, <1>5 DEF IInv

LEMMA ApiStep ==
    ASSUME IInv, ApiInit \/ ApiRaw \/ \E n \in 0..(Len(Text) - fed) : ApiUpdate(n)
    PROVE  IInv'
<1>1. /\ phase = "api" /\ phase' = "api" /\ UNCHANGED authVars
      /\ UNCHANGED <<who, claim, pwhash, verdict>>
  BY DEF ApiInit, ApiRaw, ApiUpdate, conn
<1>2. Lexing' BY <1>1, LexerStays DEF IInv
<1>3. Handed' BY <1>1 DEF Handed
<1>4. fed \in 0..Len(Text) /\ Len(Text) \in Nat BY CredentialsAssumption, CharSeq DEF IInv, Known
<1>5. fed' \in 0..Len(Text)
  <2>1. CASE ApiInit \/ ApiRaw BY <1>4, <2>1 DEF ApiInit, ApiRaw, conn
  <2>2. ASSUME NEW n \in 0..(Len(Text) - fed), ApiUpdate(n) PROVE fed' \in 0..Len(Text)
    BY <1>4, <2>2 DEF ApiUpdate
  <2> QED BY <2>1, <2>2
<1>6. Known' BY <1>1, <1>5 DEF IInv, Known, Checking, Proving
<1>7. Stream'
  <2>1. CASE ApiInit BY <2>1, InitStep DEF ApiInit, IInv
  <2>2. CASE ApiRaw BY <2>2, RawStep DEF ApiRaw, IInv
  <2>3. ASSUME NEW n \in 0..(Len(Text) - fed), ApiUpdate(n) PROVE Stream'
    <3>1. iv = "std" /\ pgr_md5_update(Octets(SubSeq(Text, fed + 1, fed + n))) BY <2>3 DEF ApiUpdate
    <3>2. SubSeq(Text, fed + 1, fed + n) \in Seq(Char) BY <1>4, CredentialsAssumption, SubString
    <3>3. Octets(SubSeq(Text, fed + 1, fed + n)) \in Seq(Octet) BY <3>2, OctetsIs
    <3> QED BY <3>1, <3>3, UpdateStep DEF IInv
  <2> QED BY <2>1, <2>2, <2>3
<1> QED BY <1>2, <1>3, <1>6, <1>7 DEF IInv

LEMMA ReadingStep == ASSUME IInv, phase = "idle", Reading PROVE IInv'
<1>1. AuthNext /\ UNCHANGED mdVars /\ phase' = phase /\ UNCHANGED <<who, claim, pwhash, verdict, fed>>
  BY DEF Reading, conn
<1>2. Lexing' /\ Stream' BY <1>1, LexerStep, StreamStays DEF IInv
<1>3. Known' BY <1>1 DEF IInv, Known, Checking, Proving
<1>4. Handed' BY <1>1 DEF Handed
<1> QED BY <1>2, <1>3, <1>4 DEF IInv

LEMMA StutterStep == ASSUME IInv, UNCHANGED vars PROVE IInv'
<1>1. /\ UNCHANGED authVars /\ UNCHANGED mdVars /\ UNCHANGED <<phase, who, claim, pwhash, verdict, fed>>
      /\ UNCHANGED <<iv, out>>
  BY DEF vars, mdVars
<1>2. Lexing' /\ Stream' /\ Message' = Message BY <1>1, LexerStays, StreamStays DEF IInv
<1>3. Hash' = Hash /\ Proved' = Proved /\ pgr_auth_find(who)' = pgr_auth_find(who)
  BY <1>1, HashStays, FoundStays
<1>4. Known' BY <1>1, <1>3 DEF IInv, Known
<1>5. Octets(Hash)' = Octets(Hash) BY <1>3 DEF Octets
<1>6. Octets(Salt)' = Octets(Salt) /\ Octets(Salt2)' = Octets(Salt2) BY DEF Octets
<1>7. D!Padded(Proved \o Octets(Salt2))' = D!Padded(Proved \o Octets(Salt2))
  BY <1>3, <1>6 DEF D!Padded, D!Zeros, D!Length
<1>8. Handed' BY <1>1, <1>2, <1>3, <1>5, <1>6, <1>7 DEF IInv, Handed
<1> QED BY <1>2, <1>4, <1>8 DEF IInv

LEMMA Preserved == IInv /\ [Next]_vars => IInv'
<1> SUFFICES ASSUME IInv, [Next]_vars PROVE IInv' OBVIOUS
<1>1. CASE phase = "idle" /\ Reading BY <1>1, ReadingStep
<1>2. CASE \E u \in Users, h \in Secrets : Identify(u, h) BY <1>2, IdentifyStep
<1>3. CASE Session BY <1>3, CheckStep, CheckResultStep, ProveStep DEF Session
<1>4. CASE ApiInit \/ ApiRaw \/ \E n \in 0..(Len(Text) - fed) : ApiUpdate(n) BY <1>4, ApiStep
<1>5. CASE UNCHANGED vars BY <1>5, StutterStep
<1> QED BY <1>1, <1>2, <1>3, <1>4, <1>5 DEF Next

LEMMA Initially == Init => IInv
<1> SUFFICES ASSUME Init PROVE IInv OBVIOUS
<1>1. Lexing BY LexerBegins DEF Init
<1>2. /\ iv = "unset" /\ md = <<>> /\ lo = 0 /\ hi = 0 /\ sizes = {}
      /\ mdbuf = [i \in 1..Block |-> Stray]
  BY DEF Init, MdInit
<1>3. \A S : <<>> \in Seq(S) /\ Len(<<>>) = 0 BY EmptySeq
<1>4. mdbuf \in [1..Block -> Octet] BY <1>2 DEF Octet
<1>5. 0 \in 0..(LoMod - 1) /\ 0 \in 0..(HiMod - 1) BY Sizes
<1>6. Stream BY <1>2, <1>3, <1>4, <1>5, NoneCounted DEF Stream, Blocks, Counted
<1>7. Len(Text) \in Nat BY CredentialsAssumption, CharSeq
<1>8. Known
  <2>1. claim \in Seq(Char) BY <1>3 DEF Init
  <2>2. fed \in 0..Len(Text) BY <1>7 DEF Init
  <2> QED BY <2>1, <2>2 DEF Init, Known, Checking, Proving
<1>9. Handed BY DEF Init, Handed
<1> QED BY <1>1, <1>6, <1>8, <1>9 DEF IInv

LEMMA Invariant == Spec => []IInv
BY Initially, Preserved, PTL DEF Spec

-----------------------------------------------------------------------------
(* Theorems. *)

LEMMA Implied == IInv => LexerInv /\ Accounted /\ ProvesSame
<1> SUFFICES ASSUME IInv PROVE LexerInv /\ Accounted /\ ProvesSame OBVIOUS
<1>1. pwhash \subseteq {table[i].hash : i \in 1..Len(table)}
  BY FindIs DEF IInv, Known
<1>2. Len(mdbuf) = Block BY Sizes DEF IInv, Stream, Blocks
<1>3. verdict \in {"none", "ok", "denied"} BY DEF IInv, Known
<1>4. TypeOK BY <1>1, <1>2, <1>3 DEF IInv, Lexing, Stream, Known, TypeOK
<1>5. InBounds /\ EmitSafe BY DEF IInv, Lexing, InBounds, EmitSafe
<1>6. Accounted BY DEF IInv, Stream, Blocks, Accounted, WholeBlocks
<1>7. ProvesSame
  <2>1. SUFFICES ASSUME phase = "proved", Len(Hash) = HashLen
                 PROVE  out = <<"std", D!Padded(Octets(claim \o Salt2))>>
    BY DEF ProvesSame
  <2>2. pwhash # {} /\ Hash = claim BY <2>1 DEF IInv, Known, Proving
  <2>3. Proved = Octets(claim) /\ claim \in Seq(Char) BY <2>1, <2>2, ProvedIs DEF IInv, Known
  <2>4. Octets(claim) \o Octets(Salt2) = Octets(claim \o Salt2)
    BY <2>3, OctetsJoined, CredentialsAssumption
  <2>5. out = <<"std", D!Padded(Proved \o Octets(Salt2))>> BY <2>1 DEF IInv, Handed
  <2> QED BY <2>3, <2>4, <2>5
<1> QED BY <1>4, <1>5, <1>6, <1>7 DEF LexerInv

\* Whatever the file of users holds, the lexer of authdb.c stays inside the source
\* it has read, every one of its functions finds the token begun where it expects
\* it, and it is not asked for another token after it has ended.
THEOREM LexerSafe == Spec => []LexerInv
BY Invariant, Implied, PTL

\* For every size of the blocks, the buffer and the counters, and however a message
\* is cut into pieces, body() is called with whole blocks and the two counters of
\* pgr_md5_update hold the number of octets, with every carry.
THEOREM OctetsAccounted == Spec => []Accounted
BY Invariant, Implied, PTL

\* The digest the router sends to a backend is that of the hash the client has
\* shown to know, if it has the length of a hash.
THEOREM SameHashProved == Spec => []ProvesSame
BY Invariant, Implied, PTL

\* A client is let in if and only if the hash it knows is the one that the search
\* in the table finds for its user.
AdmitsKnown == verdict # "none" => (verdict = "ok" <=> pgr_auth_find(who) = {claim})

\* check_auth lets in a client that knows the hash of the table, and no other: two
\* messages that differ have digests that differ, and the table does not change
\* under a connection.
THEOREM KnownAdmitted == Spec => []AdmitsKnown
<1>1. IInv => AdmitsKnown
  <2> SUFFICES ASSUME IInv, verdict # "none" PROVE verdict = "ok" <=> pgr_auth_find(who) = {claim}
    BY DEF AdmitsKnown
  <2>1. phase \in Proving \/ phase = "over" BY DEF IInv, Known
  <2>2. pwhash = pgr_auth_find(who) BY <2>1, PhasesApart DEF IInv, Known, Proving
  <2>3. pwhash # {} => pwhash = {Hash} BY HashIs DEF IInv
  <2>4. CASE phase \in Proving BY <2>2, <2>3, <2>4 DEF IInv, Known
  <2>5. CASE phase = "over" BY <2>2, <2>3, <2>5 DEF IInv, Known
  <2> QED BY <2>1, <2>4, <2>5
<1> QED BY <1>1, Invariant, PTL

\* What a caller sees of the result: nothing yet, a digest, or no digest.
Result == IF out = <<>> THEN <<>> ELSE IF out[1] = "std" THEN out[2] ELSE <<Stray>>

LEMMA InitMaps == ASSUME Stream, pgr_md5_init PROVE D!Next
<1>1. Message' = <<>> BY InitStep
<1>2. arg' = <<>> /\ out' = out BY DEF pgr_md5_init
<1> QED BY <1>1, <1>2 DEF D!Next, D!Start

LEMMA UpdateMaps == ASSUME Stream, iv = "std", NEW d \in Seq(Octet), pgr_md5_update(d) PROVE D!Next
<1>1. Message' = Message \o d BY UpdateStep
<1>2. arg' = d /\ out' = out BY DEF pgr_md5_update
<1> QED BY <1>1, <1>2 DEF D!Next, D!Feed

LEMMA RawMaps == ASSUME Stream, iv = "std", pgr_md5_raw PROVE D!Next
<1>1. Message' = <<>> BY RawStep
<1>2. arg' = <<>> BY DEF pgr_md5_raw
<1>3. out' = <<"std", D!Padded(Message)>> BY RawResult
<1>4. out' # <<>> /\ out'[1] = "std" /\ out'[2] = D!Padded(Message) BY <1>3
<1> QED BY <1>1, <1>2, <1>4 DEF D!Next, D!Finish

LEMMA StayMaps ==
    ASSUME Stream, UNCHANGED mdVars
    PROVE  UNCHANGED <<arg, Message, Result>>
BY StreamStays DEF mdVars, Result

LEMMA StepMaps == IInv /\ [Next]_vars => [D!Next]_<<arg, Message, Result>>
<1> SUFFICES ASSUME IInv, [Next]_vars PROVE [D!Next]_<<arg, Message, Result>> OBVIOUS
<1>1. Stream BY DEF IInv
<1>2. CASE UNCHANGED mdVars BY <1>1, <1>2, StayMaps
<1>3. CASE Check \/ Prove \/ ApiInit BY <1>1, <1>3, InitMaps DEF Check, Prove, ApiInit
<1>4. CASE CheckResult \/ ProveResult \/ ApiRaw
  <2>1. iv = "std" /\ pgr_md5_raw BY <1>4 DEF CheckResult, ProveResult, ApiRaw, IInv, Handed
  <2> QED BY <1>1, <2>1, RawMaps
<1>5. CASE CheckHash
  <2>1. iv = "std" /\ pgr_md5_update(Octets(Hash)) BY <1>5 DEF CheckHash, IInv, Handed
  <2>2. pwhash # {} BY <1>5 DEF CheckHash, IInv, Known, Checking
  <2>3. Octets(Hash) \in Seq(Octet) BY <2>2, HashIs, OctetsIs DEF IInv
  <2> QED BY <1>1, <2>1, <2>3, UpdateMaps
<1>6. CASE CheckSalt
  <2>1. iv = "std" /\ pgr_md5_update(Octets(Salt)) BY <1>6 DEF CheckSalt, IInv, Handed
  <2>2. Octets(Salt) \in Seq(Octet) BY OctetsIs, CredentialsAssumption
  <2> QED BY <1>1, <2>1, <2>2, UpdateMaps
<1>7. CASE ProveHash
  <2>1. iv = "std" /\ pgr_md5_update(Proved) BY <1>7 DEF ProveHash, IInv, Handed
  <2>2. pwhash # {} BY <1>7 DEF ProveHash, IInv, Known, Proving
  <2>3. Proved \in Seq(Octet) BY <2>2, ProvedIs DEF IInv
  <2> QED BY <1>1, <2>1, <2>3, UpdateMaps
<1>8. CASE ProveSalt
  <2>1. iv = "std" /\ pgr_md5_update(Octets(Salt2)) BY <1>8 DEF ProveSalt, IInv, Handed
  <2>2. Octets(Salt2) \in Seq(Octet) BY OctetsIs, CredentialsAssumption
  <2> QED BY <1>1, <2>1, <2>2, UpdateMaps
<1>9. ASSUME NEW n \in 0..(Len(Text) - fed), ApiUpdate(n) PROVE D!Next
  <2>1. iv = "std" /\ pgr_md5_update(Octets(SubSeq(Text, fed + 1, fed + n))) BY <1>9 DEF ApiUpdate
  <2>2. fed \in 0..Len(Text) /\ Len(Text) \in Nat BY CredentialsAssumption, CharSeq DEF IInv, Known
  <2>3. SubSeq(Text, fed + 1, fed + n) \in Seq(Char) BY <2>2, CredentialsAssumption, SubString
  <2>4. Octets(SubSeq(Text, fed + 1, fed + n)) \in Seq(Octet) BY <2>3, OctetsIs
  <2> QED BY <1>1, <2>1, <2>4, UpdateMaps
<1>10. CASE \/ phase = "idle" /\ Reading
            \/ \E u \in Users, h \in Secrets : Identify(u, h)
            \/ UNCHANGED vars
  <2>1. UNCHANGED mdVars BY <1>10 DEF Reading, Identify, vars
  <2> QED BY <1>2, <2>1
<1> QED BY <1>3, <1>4, <1>5, <1>6, <1>7, <1>8, <1>9, <1>10 DEF Next, Session

LEMMA InitMapsToInit == Init => D!Init
<1> SUFFICES ASSUME Init PROVE D!Init OBVIOUS
<1>1. iv = "unset" /\ arg = <<>> /\ out = <<>> BY DEF Init, MdInit
<1>2. Message = <<>> BY <1>1 DEF Message
<1> QED BY <1>1, <1>2 DEF D!Init

\* md5.c computes what Digest promises: fed in pieces of any length, it returns the
\* digest of the octets since the initialisation, in their order, padded as RFC
\* 1321 says, with their number in the last octets.
THEOREM DigestComputed == Spec => ComputesDigest
<1>1. IInv /\ [Next]_vars => [D!Next]_<<arg, Message, Result>> BY StepMaps
<1>2. [D!Next]_<<arg, Message, Result>>
        => [D!Next]_<<arg, Message,
                      IF out = <<>> THEN <<>> ELSE IF out[1] = "std" THEN out[2] ELSE <<Stray>> >>
  BY DEF Result
<1> QED BY <1>1, <1>2, InitMapsToInit, Invariant, PTL DEF Spec, ComputesDigest, D!Spec
=============================================================================
