----------------------------- MODULE MBufProofs -----------------------------
(***************************************************************************)
(* Proofs about the message buffer of module MBuf, for every buffer size,  *)
(* every header size and every input stream.                               *)
(***************************************************************************)
EXTENDS MBuf, SequenceTheorems, TLAPS

\* n successive octets of the stream, from position p on.
Octets(p, n) == [i \in 1..n |-> p + i - 1]

-----------------------------------------------------------------------------
(* The parts of the buffer. *)

\* A run of octets is a sequence of that length.
LEMMA OctetsSeq ==
    ASSUME NEW p \in Int, NEW n \in Nat
    PROVE  /\ Octets(p, n) \in Seq(Int) /\ Len(Octets(p, n)) = n
           /\ \A i \in 1..n : Octets(p, n)[i] = p + i - 1
  BY DEF Octets

\* Successive runs of octets make up one run.
LEMMA OctetsConcat ==
    ASSUME NEW p \in Int, NEW m \in Nat, NEW n \in Nat
    PROVE  Octets(p, m) \o Octets(p + m, n) = Octets(p, m + n)
<1> DEFINE s == Octets(p, m)
           t == Octets(p + m, n)
           u == Octets(p, m + n)
<1>1. s \in Seq(Int) /\ Len(s) = m /\ \A i \in 1..m : s[i] = p + i - 1
  BY OctetsSeq
<1>2. t \in Seq(Int) /\ Len(t) = n /\ \A i \in 1..n : t[i] = p + m + i - 1
  BY OctetsSeq
<1>3. u \in Seq(Int) /\ Len(u) = m + n /\ \A i \in 1..(m + n) : u[i] = p + i - 1
  BY OctetsSeq
<1> HIDE DEF s, t, u
<1>4. /\ s \o t \in Seq(Int) /\ Len(s \o t) = m + n
      /\ \A i \in 1..(m + n) : (s \o t)[i] = IF i <= m THEN s[i] ELSE t[i - m]
  BY <1>1, <1>2, ConcatProperties
<1>5. \A i \in 1..(m + n) : (s \o t)[i] = u[i]
  <2> SUFFICES ASSUME NEW i \in 1..(m + n) PROVE (s \o t)[i] = u[i]
    OBVIOUS
  <2>1. CASE i <= m
    BY <2>1, <1>1, <1>3, <1>4
  <2>2. CASE ~(i <= m)
    <3>1. i - m \in 1..n
      BY <2>2
    <3> QED
      BY <2>2, <3>1, <1>2, <1>3, <1>4
  <2> QED
    BY <2>1, <2>2
<1>6. s \o t = u
  BY <1>3, <1>4, <1>5, SeqEqual
<1> QED
  BY <1>6 DEF s, t, u

\* The octets read are octets of the stream.
LEMMA OctetsPosition ==
    ASSUME NEW p \in Nat, NEW n \in Nat, p + n <= Last
    PROVE  Octets(p, n) \in Seq(Position)
  BY MBufAssumption DEF Octets, Position

\* What start and fill delimit are sequences of octets of the expected lengths.
LEMMA Parts ==
    ASSUME TypeOK, Bounded
    PROVE  /\ available \in Nat /\ Len(buf) \in Nat
           /\ Kept \in Seq(Position) /\ Len(Kept) = start
           /\ \A i \in 1..start : Kept[i] = buf[i]
           /\ Unsent \in Seq(Position) /\ Len(Unsent) = available
           /\ \A i \in 1..available : Unsent[i] = buf[start + i]
           /\ Kept \o Unsent = buf
<1>1. available \in Nat /\ Len(buf) \in Nat
  BY DEF TypeOK, Bounded, available
<1>2. /\ Kept \in Seq(Position) /\ Len(Kept) = start
      /\ \A i \in 1..start : Kept[i] = buf[i]
  <2>1. \A i \in 1..start : buf[i] \in Position
    BY <1>1, ElementOfSeq DEF TypeOK, Bounded
  <2> QED
    BY <2>1, <1>1, SubSeqProperties DEF TypeOK, Bounded, Kept
<1>3. /\ Unsent \in Seq(Position) /\ Len(Unsent) = available
      /\ \A i \in 1..available : Unsent[i] = buf[start + i]
  <2>1. \A i \in (start + 1)..Len(buf) : buf[i] \in Position
    BY <1>1, ElementOfSeq DEF TypeOK, Bounded
  <2> DEFINE a == start + 1
             b == Len(buf)
  <2>2. a \in Int /\ b \in Int
    BY <1>1 DEF TypeOK
  <2>3. /\ SubSeq(buf, a, b) \in Seq(Position)
        /\ Len(SubSeq(buf, a, b)) = IF a <= b THEN b - a + 1 ELSE 0
        /\ \A i \in 1..(b - a + 1) : SubSeq(buf, a, b)[i] = buf[a + i - 1]
    BY <2>1, <2>2, SubSeqProperties
  <2> QED
    BY <2>3, <1>1 DEF TypeOK, Bounded, Unsent, available
<1>4. Kept \o Unsent = buf
  <2>1. SubSeq(buf, 1, start) \o SubSeq(buf, start + 1, Len(buf)) = SubSeq(buf, 1, Len(buf))
    <3>1. buf \in Seq(Position) /\ 1 \in 1..(Len(buf) + 1) /\ start \in (1 - 1)..Len(buf)
          /\ Len(buf) \in start..Len(buf)
      BY <1>1 DEF TypeOK, Bounded
    <3> QED
      BY <3>1, ConcatAdjacentSubSeq
  <2> QED
    BY <2>1, SubSeqFull DEF TypeOK, Kept, Unsent
<1> QED
  BY <1>1, <1>2, <1>3, <1>4

\* The first n octets behind start, and what memmove leaves when it takes them
\* out.
LEMMA Taken ==
    ASSUME TypeOK, Bounded, NEW n \in Nat, n <= available
    PROVE  /\ Leading(n) \in Seq(Position) /\ Len(Leading(n)) = n
           /\ \A i \in 1..n : Leading(n)[i] = buf[start + i]
           /\ Without(n) \in Seq(Position) /\ Len(Without(n)) = Len(buf) - n
           /\ \A i \in 1..start : Without(n)[i] = buf[i]
           /\ \A i \in 1..(available - n) : Without(n)[start + i] = buf[start + n + i]
           /\ Kept \o Leading(n) = SubSeq(buf, 1, start + n)
<1>1. available \in Nat /\ Len(buf) \in Nat /\ start \in Nat /\ start + n <= Len(buf)
  BY Parts DEF TypeOK, Bounded, available
<1>2. \A i \in 1..Len(buf) : buf[i] \in Position
  BY ElementOfSeq DEF TypeOK
<1>3. /\ Leading(n) \in Seq(Position) /\ Len(Leading(n)) = n
      /\ \A i \in 1..n : Leading(n)[i] = buf[start + i]
  <2> DEFINE a == start + 1
             b == start + n
  <2>1. a \in Int /\ b \in Int /\ \A i \in a..b : buf[i] \in Position
    BY <1>1, <1>2
  <2>2. /\ SubSeq(buf, a, b) \in Seq(Position)
        /\ Len(SubSeq(buf, a, b)) = IF a <= b THEN b - a + 1 ELSE 0
        /\ \A i \in 1..(b - a + 1) : SubSeq(buf, a, b)[i] = buf[a + i - 1]
    BY <2>1, SubSeqProperties
  <2> QED
    BY <2>2, <1>1 DEF Leading
<1> DEFINE rest == SubSeq(buf, start + n + 1, Len(buf))
<1>4. /\ rest \in Seq(Position) /\ Len(rest) = Len(buf) - start - n
      /\ \A i \in 1..(Len(buf) - start - n) : rest[i] = buf[start + n + i]
  <2> DEFINE a == start + n + 1
             b == Len(buf)
  <2>1. a \in Int /\ b \in Int /\ \A i \in a..b : buf[i] \in Position
    BY <1>1, <1>2
  <2>2. /\ SubSeq(buf, a, b) \in Seq(Position)
        /\ Len(SubSeq(buf, a, b)) = IF a <= b THEN b - a + 1 ELSE 0
        /\ \A i \in 1..(b - a + 1) : SubSeq(buf, a, b)[i] = buf[a + i - 1]
    BY <2>1, SubSeqProperties
  <2> QED
    BY <2>2, <1>1
<1>5. /\ Kept \o rest \in Seq(Position)
      /\ Len(Kept \o rest) = start + (Len(buf) - start - n)
      /\ \A i \in 1..(start + (Len(buf) - start - n)) :
            (Kept \o rest)[i] = IF i <= start THEN Kept[i] ELSE rest[i - start]
  <2> HIDE DEF rest
  <2>1. Kept \in Seq(Position) /\ Len(Kept) = start
    BY Parts
  <2>2. /\ Kept \o rest \in Seq(Position)
        /\ Len(Kept \o rest) = Len(Kept) + Len(rest)
        /\ \A i \in 1..(Len(Kept) + Len(rest)) :
              (Kept \o rest)[i] = IF i <= Len(Kept) THEN Kept[i] ELSE rest[i - Len(Kept)]
    BY <2>1, <1>4, ConcatProperties
  <2> QED
    BY <2>1, <2>2, <1>4
<1>6. Without(n) = Kept \o rest
  BY DEF Without
<1>7. /\ Without(n) \in Seq(Position) /\ Len(Without(n)) = Len(buf) - n
      /\ \A i \in 1..start : Without(n)[i] = buf[i]
      /\ \A i \in 1..(available - n) : Without(n)[start + i] = buf[start + n + i]
  <2> HIDE DEF rest
  <2>1. ASSUME NEW i \in 1..start PROVE Without(n)[i] = buf[i]
    <3>1. i \in 1..(start + (Len(buf) - start - n)) /\ i <= start
      BY <1>1
    <3>2. (Kept \o rest)[i] = Kept[i]
      BY <3>1, <1>5
    <3>3. Kept[i] = buf[i]
      BY Parts
    <3> QED
      BY <3>2, <3>3, <1>6
  <2>2. ASSUME NEW i \in 1..(available - n) PROVE Without(n)[start + i] = buf[start + n + i]
    <3>1. /\ start + i \in 1..(start + (Len(buf) - start - n))
          /\ ~(start + i <= start) /\ (start + i) - start = i
          /\ i \in 1..(Len(buf) - start - n)
      BY <1>1 DEF available
    <3> QED
      BY <3>1, <1>4, <1>5, <1>6
  <2>3. Len(Without(n)) = Len(buf) - n /\ Without(n) \in Seq(Position)
    BY <1>1, <1>5, <1>6
  <2> QED
    BY <2>1, <2>2, <2>3
<1>8. Kept \o Leading(n) = SubSeq(buf, 1, start + n)
  <2>1. buf \in Seq(Position) /\ 1 \in 1..(Len(buf) + 1) /\ start \in (1 - 1)..Len(buf)
        /\ start + n \in start..Len(buf)
    BY <1>1 DEF TypeOK
  <2> QED
    BY <2>1, ConcatAdjacentSubSeq DEF Kept, Leading
<1> QED
  BY <1>3, <1>7, <1>8

-----------------------------------------------------------------------------
(* What the ways to change the buffer do to its parts. *)

\* What stands in front of start is kept by a step that leaves it there.
LEMMA SameKept ==
    ASSUME TypeOK, Bounded, start' = start,
           buf' \in Seq(Position), start <= Len(buf'), \A i \in 1..start : buf'[i] = buf[i]
    PROVE  Kept' = Kept
<1>1. start \in Nat /\ Len(buf') \in Nat
  BY DEF TypeOK
<1>2. \A i \in 1..start : buf'[i] \in Position
  BY <1>1, ElementOfSeq
<1>3. /\ SubSeq(buf', 1, start) \in Seq(Position) /\ Len(SubSeq(buf', 1, start)) = start
      /\ \A i \in 1..start : SubSeq(buf', 1, start)[i] = buf'[i]
  BY <1>1, <1>2, SubSeqProperties
<1>4. /\ Kept \in Seq(Position) /\ Len(Kept) = start
      /\ \A i \in 1..start : Kept[i] = buf[i]
  BY Parts
<1>5. SubSeq(buf', 1, start) = Kept
  BY <1>3, <1>4, SeqEqual
<1> QED
  BY <1>5 DEF Kept

\* A read appends octets of the stream and fits into the allocation.
LEMMA ReadStep ==
    ASSUME TypeOK, Bounded, Read(buf), start' = start
    PROVE  \E n \in Nat \ {0} :
              /\ ~eof /\ nread' = nread + n /\ nread' \in 0..Last
              /\ buf' \in Seq(Position) /\ Len(buf') = Len(buf) + n /\ Len(buf') <= Cap
              /\ \A i \in 1..Len(buf) : buf'[i] = buf[i]
              /\ \A i \in 1..n : buf'[Len(buf) + i] = nread + i - 1
              /\ Kept' = Kept /\ available' = available + n
<1>1. PICK n \in 1..Room : /\ ~eof /\ nread + n <= Last
                           /\ buf' = buf \o Octets(nread, n) /\ nread' = nread + n
  BY DEF Read, Octets
<1>2. /\ Len(buf) \in Nat /\ start \in Nat /\ start <= Len(buf) /\ Cap \in Nat /\ Last \in Nat
      /\ nread \in Nat /\ buf \in Seq(Position) /\ n \in Nat \ {0} /\ n <= Cap - Len(buf)
  BY MBufAssumption, Parts DEF TypeOK, Bounded, Room
<1> DEFINE t == Octets(nread, n)
<1>3. /\ t \in Seq(Position) /\ Len(t) = n
      /\ \A i \in 1..n : t[i] = nread + i - 1
  BY <1>1, <1>2, OctetsPosition, OctetsSeq
<1> HIDE DEF t
<1>4. /\ buf \o t \in Seq(Position)
      /\ Len(buf \o t) = Len(buf) + Len(t)
      /\ \A i \in 1..(Len(buf) + Len(t)) :
            (buf \o t)[i] = IF i <= Len(buf) THEN buf[i] ELSE t[i - Len(buf)]
  BY <1>2, <1>3, ConcatProperties
<1>5. buf' = buf \o t
  BY <1>1 DEF t
<1>6. ASSUME NEW i \in 1..Len(buf) PROVE buf'[i] = buf[i]
  <2>1. i \in 1..(Len(buf) + n) /\ i <= Len(buf)
    BY <1>2
  <2> QED
    BY <2>1, <1>3, <1>4, <1>5
<1>7. ASSUME NEW i \in 1..n PROVE buf'[Len(buf) + i] = nread + i - 1
  <2>1. /\ Len(buf) + i \in 1..(Len(buf) + n) /\ ~(Len(buf) + i <= Len(buf))
        /\ (Len(buf) + i) - Len(buf) = i
    BY <1>2
  <2>2. (buf \o t)[Len(buf) + i] = t[i]
    BY <2>1, <1>3, <1>4
  <2> QED
    BY <2>2, <1>3, <1>5
<1>8. buf' \in Seq(Position) /\ Len(buf') = Len(buf) + n /\ Len(buf') <= Cap
  BY <1>2, <1>3, <1>4, <1>5
<1>9. Kept' = Kept
  BY <1>2, <1>6, <1>8, SameKept
<1>10. available' = available + n
  BY <1>2, <1>8 DEF available
<1>11. nread' \in 0..Last
  BY <1>1, <1>2
<1> QED
  BY <1>1, <1>2, <1>6, <1>7, <1>8, <1>9, <1>10, <1>11

\* fill = start: everything behind start is gone, what stands in front is kept.
LEMMA KeptStep ==
    ASSUME TypeOK, Bounded, buf' = Kept, start' = start
    PROVE  /\ buf' \in Seq(Position) /\ Len(buf') = start
           /\ Kept' = Kept /\ available' = 0
<1>1. start \in Nat /\ start <= Len(buf) /\ Len(buf) \in Nat
  BY Parts DEF TypeOK, Bounded
<1>2. /\ Kept \in Seq(Position) /\ Len(Kept) = start
      /\ \A i \in 1..start : Kept[i] = buf[i]
  BY Parts
<1>3. /\ buf' \in Seq(Position) /\ Len(buf') = start
      /\ \A i \in 1..start : buf'[i] = buf[i]
  BY <1>2
<1>4. Kept' = Kept
  BY <1>1, <1>3, SameKept
<1>5. available' = 0
  BY <1>1, <1>3 DEF available
<1> QED
  BY <1>3, <1>4, <1>5

\* memmove: the first n octets behind start are gone.
LEMMA WithoutStep ==
    ASSUME TypeOK, Bounded, NEW n \in Nat, n <= available, buf' = Without(n), start' = start
    PROVE  /\ buf' \in Seq(Position) /\ Len(buf') = Len(buf) - n
           /\ Kept' = Kept /\ available' = available - n
           /\ \A i \in 1..(available - n) : buf'[start + i] = buf[start + n + i]
<1>1. /\ start \in Nat /\ start <= Len(buf) /\ Len(buf) \in Nat /\ start + n <= Len(buf)
  BY Parts DEF TypeOK, Bounded, available
<1>2. /\ buf' \in Seq(Position) /\ Len(buf') = Len(buf) - n
      /\ \A i \in 1..start : buf'[i] = buf[i]
      /\ \A i \in 1..(available - n) : buf'[start + i] = buf[start + n + i]
  BY Taken
<1>3. Kept' = Kept
  BY <1>1, <1>2, SameKept
<1>4. available' = available - n
  BY <1>1, <1>2 DEF available
<1> QED
  BY <1>2, <1>3, <1>4

\* start += n: n octets more are kept.
LEMMA AdvanceStep ==
    ASSUME TypeOK, Bounded, NEW n \in Nat, n <= available, buf' = buf, start' = start + n
    PROVE  /\ Kept' = Kept \o Leading(n) /\ available' = available - n
           /\ start' \in Nat /\ start' <= Len(buf)
<1>1. start \in Nat /\ Len(buf) \in Nat /\ start + n <= Len(buf)
  BY Parts DEF TypeOK, Bounded, available
<1>2. Kept' = SubSeq(buf, 1, start + n)
  BY DEF Kept
<1>3. Kept \o Leading(n) = SubSeq(buf, 1, start + n)
  BY Taken
<1> QED
  BY <1>1, <1>2, <1>3 DEF available

\* What size adds to the length word of the message at start.
LEMMA SizeIs ==
    ASSUME TypeOK, Bounded, available >= Hdr, NEW p \in Starts, p = buf[start + 1]
    PROVE  /\ p \in Nat /\ MsgEnd[p] \in Nat /\ MsgEnd[p] >= p + Hdr
           /\ p \notin Untyped => size = ((MsgEnd[p] - p - 1) % LenMod) + 1
           /\ p \in Untyped => size = MsgEnd[p] - p
<1>1. /\ Hdr \in Nat \ {0} /\ LenMod \in Nat \ {0} /\ p \in Nat /\ MsgEnd[p] \in Nat
      /\ MsgEnd[p] >= p + Hdr
      /\ p \in Untyped => MsgEnd[p] - p < LenMod
  BY MBufAssumption DEF Position
<1>2. size = ((MsgEnd[p] - p - TypeOctets(p)) % LenMod) + TypeOctets(p)
  BY MBufAssumption, Parts DEF size
<1>3. p \notin Untyped => size = ((MsgEnd[p] - p - 1) % LenMod) + 1
  BY <1>2 DEF TypeOctets
<1>4. ASSUME p \in Untyped PROVE size = MsgEnd[p] - p
  <2>1. PICK k \in 0..(LenMod - 1) : k = MsgEnd[p] - p
    <3>1. MsgEnd[p] - p \in 0..(LenMod - 1)
      BY <1>1, <1>4
    <3> QED
      BY <3>1
  <2>2. MsgEnd[p] - p - 0 = k
    BY <1>1, <2>1
  <2>3. size = (k % LenMod) + 0
    BY <1>2, <1>4, <2>2 DEF TypeOctets
  <2>4. k % LenMod = k
    BY <1>1, <2>1
  <2> QED
    BY <1>1, <2>1, <2>3, <2>4
<1> QED
  BY <1>1, <1>3, <1>4

\* The length of a visible message is positive.
LEMMA SizePositive ==
    ASSUME TypeOK, Bounded, available >= Hdr
    PROVE  size \in Nat /\ size > 0
<1>1. Hdr \in Nat \ {0} /\ LenMod \in Nat \ {0}
  BY MBufAssumption
<1>2. CASE buf[start + 1] \in Starts
  <2>1. PICK p \in Starts : p = buf[start + 1]
    BY <1>2
  <2>2. /\ p \in Nat /\ MsgEnd[p] \in Nat /\ MsgEnd[p] >= p + Hdr
        /\ p \notin Untyped => size = ((MsgEnd[p] - p - 1) % LenMod) + 1
        /\ p \in Untyped => size = MsgEnd[p] - p
    BY <2>1, SizeIs
  <2>3. PICK k \in Int : k = MsgEnd[p] - p - 1
    BY <2>2
  <2>4. k % LenMod \in Nat
    BY <1>1, <2>3
  <2>5. CASE p \notin Untyped
    BY <2>2, <2>3, <2>4, <2>5
  <2>6. CASE p \in Untyped
    BY <1>1, <2>2, <2>6
  <2> QED
    BY <2>5, <2>6
<1>3. CASE buf[start + 1] \notin Starts
  BY <1>1, <1>3, Parts DEF size
<1> QED
  BY <1>2, <1>3

\* The length of a message is what size says, if u32 can hold it.
LEMMA SizeExact ==
    ASSUME TypeOK, Bounded, available >= Hdr, LengthsFit, buf[start + 1] \in Starts
    PROVE  buf[start + 1] + size = MsgEnd[buf[start + 1]]
<1>1. PICK p \in Starts : p = buf[start + 1]
  OBVIOUS
<1>2. /\ p \in Nat /\ MsgEnd[p] \in Nat /\ MsgEnd[p] >= p + Hdr
      /\ p \notin Untyped => size = ((MsgEnd[p] - p - 1) % LenMod) + 1
      /\ p \in Untyped => size = MsgEnd[p] - p
  BY <1>1, SizeIs
<1>3. Hdr \in Nat \ {0} /\ LenMod \in Nat \ {0} /\ MsgEnd[p] - p <= LenMod
  BY MBufAssumption DEF LengthsFit
<1>4. PICK k \in 0..(LenMod - 1) : k = MsgEnd[p] - p - 1
  <2>1. MsgEnd[p] - p - 1 \in 0..(LenMod - 1)
    BY <1>2, <1>3
  <2> QED
    BY <2>1
<1>5. k % LenMod = k
  BY <1>3, <1>4
<1>6. CASE p \notin Untyped
  BY <1>1, <1>2, <1>4, <1>5, <1>6
<1>7. CASE p \in Untyped
  BY <1>1, <1>2, <1>7
<1> QED
  BY <1>6, <1>7

-----------------------------------------------------------------------------
(* Types and bounds. *)

\* A call that is about to read has emptied the buffer behind start; a relay
\* and a discard began with a message behind start; a send that is about to
\* read has warmed up the cache.
Shape ==
    /\ pc \in {"sendread", "relayread", "discardread"} => Len(buf) = start
    /\ pc \in {"relay", "relayread", "discard", "discardread"} => start < Cap
    /\ pc = "sendread" => warm

BufInv == TypeOK /\ Bounded /\ Shape

\* Octets written are octets of the stream.
LEMMA ConcatPosition ==
    ASSUME NEW s \in Seq(Position), NEW t \in Seq(Position)
    PROVE  s \o t \in Seq(Position)
  BY ConcatProperties

\* A discard returns to its caller or to pgr_mbuf_drain.
LEMMA DiscardedStep ==
    ASSUME TypeOK, Discarded(0)
    PROVE  rc' \in Int /\ (pc' = "idle" \/ (pc' = "drainrecv" /\ draining))
<1>1. CASE draining /\ dtype
  BY <1>1 DEF Discarded, Return
<1>2. CASE draining /\ ~dtype
  <2>1. pc' = "drainrecv" /\ rc' = rc
    BY <1>2 DEF Discarded
  <2> QED
    BY <1>2, <2>1 DEF TypeOK
<1>3. CASE ~draining
  <2>1. pc' = "idle" /\ rc' = 0
    BY <1>3 DEF Discarded, Return, TypeOK
  <2> QED
    BY <2>1
<1> QED
  BY <1>1, <1>2, <1>3 DEF TypeOK

\* No call, at any point of it, leaves the types or the bounds.
LEMMA BufStep ==
    ASSUME BufInv, [Next]_vars
    PROVE  BufInv'
<1> USE DEF BufInv
<1>1. /\ available \in Nat /\ Len(buf) \in Nat /\ start \in Nat
      /\ Kept \in Seq(Position) /\ Len(Kept) = start
      /\ Unsent \in Seq(Position) /\ Len(Unsent) = available
      /\ cache \in Seq(Position) /\ wrote \in Seq(Position) /\ sent \in Seq(Position)
  BY Parts DEF TypeOK
<1>2. Hdr \in Nat \ {0} /\ Cap \in Nat /\ Cap >= Hdr /\ Last \in Nat
  BY MBufAssumption
<1>3. <<>> \in Seq(Position) /\ Len(<<>>) = 0
  BY EmptySeq
<1>4. ASSUME available >= 1
      PROVE  buf[start + 1] \in Nat
  <2>1. start + 1 \in 1..Len(buf)
    BY <1>1, <1>4 DEF available
  <2>2. buf[start + 1] \in Position
    BY <2>1, ElementOfSeq DEF TypeOK
  <2> QED
    BY <2>2, <1>2 DEF Position
<1>5. CASE Recv
  BY <1>1, <1>5 DEF Recv, Begin, Return, TypeOK, Bounded, Shape, Steps, Ops
<1>6. CASE RecvRead
  <2>1. start' = start /\ Read(buf) /\ pc' \in {"idle", "recv"}
    BY <1>6 DEF RecvRead, Return
  <2>2. PICK n \in Nat \ {0} :
            /\ nread' \in 0..Last /\ buf' \in Seq(Position)
            /\ Len(buf') = Len(buf) + n /\ Len(buf') <= Cap
    BY <2>1, ReadStep
  <2>3. rc' \in Int
    BY <1>1, <1>6, <2>2 DEF RecvRead, Return, TypeOK
  <2> QED
    BY <1>1, <1>6, <2>1, <2>2, <2>3 DEF RecvRead, TypeOK, Bounded, Shape, Steps
<1>7. CASE RecvNothing
  BY <1>7 DEF RecvNothing, Return, TypeOK, Bounded, Shape, Steps
<1>8. ASSUME NEW o \in {"send", "relay", "discard"}, Start(o)
      PROVE  BufInv'
  <2>1. CASE available < Hdr
    <3>1. /\ op' \in Ops /\ wrote' \in Seq(Position) /\ draining' \in BOOLEAN /\ rc' = 1
          /\ pc' \in {"idle", "closed"}
          /\ UNCHANGED <<len, wr_ok, msg, buf, start, warm, cache, dtype, nread, eof,
                         outdead, sent, dropped>>
      BY <1>3, <1>8, <2>1 DEF Start, Begin, Return, Failure, Ops
    <3>2. TypeOK'
      BY <3>1 DEF TypeOK, Steps
    <3> QED
      BY <3>1, <3>2 DEF Bounded, Shape
  <2>2. CASE ~(available < Hdr)
    <3>1. available >= Hdr /\ available >= 1
      BY <1>1, <1>2, <2>2
    <3>2. size \in Nat /\ buf[start + 1] \in Nat
      BY <3>1, <1>4, SizePositive
    <3>3. start < Cap
      BY <3>1, <1>1, <1>2 DEF available, Bounded
    <3>4. /\ len' = size /\ wr_ok' = TRUE /\ msg' = buf[start + 1] /\ pc' = o /\ rc' = rc
          /\ op' = o /\ wrote' = <<>> /\ draining' = FALSE
          /\ UNCHANGED <<buf, start, warm, cache, dtype, nread, eof, outdead, sent, dropped>>
      BY <1>8, <2>2 DEF Start, Begin
    <3>5. TypeOK'
      BY <1>3, <3>2, <3>4 DEF TypeOK, Steps, Ops
    <3> QED
      BY <3>3, <3>4, <3>5 DEF Bounded, Shape
  <2> QED
    BY <2>1, <2>2
<1>9. CASE Send
  BY <1>8, <1>9 DEF Send
<1>10. CASE Relay
  BY <1>8, <1>10 DEF Relay
<1>11. CASE Discard
  BY <1>8, <1>11 DEF Discard
<1>12. CASE Drain
  BY <1>12 DEF Drain, Begin, TypeOK, Bounded, Shape, Steps, Ops
<1>13. CASE SendChunk
  <2>1. WarmCache \o Unsent \in Seq(Position)
    BY <1>1, ConcatPosition DEF WarmCache
  <2>2. Written(Unsent) \in Seq(Position) /\ sent \o Unsent \in Seq(Position)
    BY <1>1, ConcatPosition DEF Written
  <2>3. Remaining \in Nat
    BY <1>1, <1>13 DEF SendChunk, Remaining, TypeOK
  <2>4. buf' \in Seq(Position) /\ Len(buf') = 0 /\ start' = 0 /\ warm' = TRUE
    BY <1>1, <1>3, <1>13 DEF SendChunk, Bounded, TypeOK
  <2>5. TypeOK'
    BY <1>13, <2>1, <2>2, <2>3, <2>4 DEF SendChunk, TypeOK, Steps
  <2>6. Bounded'
    BY <1>2, <2>4 DEF Bounded
  <2> QED
    BY <1>13, <2>4, <2>5, <2>6 DEF SendChunk, Shape
<1>14. CASE SendNoCache
  BY <1>14 DEF SendNoCache, Failure, TypeOK, Bounded, Shape, Steps
<1>15. CASE SendRead
  <2>1. start' = start /\ Read(buf)
    BY <1>15 DEF SendRead
  <2>2. PICK n \in Nat \ {0} :
            /\ nread' \in 0..Last /\ buf' \in Seq(Position)
            /\ Len(buf') = Len(buf) + n /\ Len(buf') <= Cap
    BY <2>1, ReadStep
  <2> QED
    BY <1>1, <1>15, <2>1, <2>2 DEF SendRead, TypeOK, Bounded, Shape, Steps
<1>16. CASE SendNothing
  BY <1>16 DEF SendNothing, Return, TypeOK, Bounded, Shape, Steps
<1>17. CASE SendTail
  <2>1. len \in Nat /\ len <= available
    BY <1>17 DEF SendTail, TypeOK
  <2>2. Leading(len) \in Seq(Position)
    BY <2>1, Taken
  <2>3. /\ Written(Leading(len)) \in Seq(Position) /\ sent \o Leading(len) \in Seq(Position)
        /\ cache \o Leading(len) \in Seq(Position)
    BY <1>1, <2>2, ConcatPosition DEF Written
  <2>4. /\ buf' \in Seq(Position) /\ start' \in Nat /\ cache' \in Seq(Position)
        /\ start' <= Len(buf') /\ Len(buf') <= Cap /\ warm' = warm
        /\ (warm => start' = 0) /\ (~warm => cache' = <<>>)
    <3>1. CASE warm
      <4>1. /\ start' = start /\ cache' = cache \o Leading(len) /\ buf' = Without(len)
            /\ warm' = warm
        BY <1>17, <3>1 DEF SendTail
      <4>2. buf' \in Seq(Position) /\ Len(buf') = Len(buf) - len
        BY <2>1, <4>1, WithoutStep
      <4> QED
        BY <1>1, <1>2, <2>1, <2>3, <3>1, <4>1, <4>2 DEF Bounded, available
    <3>2. CASE ~warm
      <4>1. start' = start + len /\ cache' = cache /\ buf' = buf /\ warm' = warm
        BY <1>17, <3>2 DEF SendTail
      <4>2. start' \in Nat /\ start' <= Len(buf)
        BY <2>1, <4>1, AdvanceStep
      <4> QED
        BY <1>1, <3>2, <4>1, <4>2 DEF TypeOK, Bounded
    <3> QED
      BY <3>1, <3>2 DEF TypeOK
  <2>5. /\ wrote' \in Seq(Position) /\ sent' \in Seq(Position)
        /\ wr_ok' \in BOOLEAN /\ len' = 0 /\ pc' \in {"idle", "closed"} /\ rc' \in {0, 1}
    BY <1>17, <2>3 DEF SendTail, Return, Failure
  <2> QED
    BY <1>17, <2>4, <2>5 DEF SendTail, TypeOK, Bounded, Shape, Steps
<1>18. CASE RelayChunk
  <2>1. Written(Unsent) \in Seq(Position)
    BY <1>1, ConcatPosition DEF Written
  <2>2. Remaining \in Nat
    BY <1>1, <1>18 DEF RelayChunk, Remaining, TypeOK
  <2>3. start' = start /\ buf' \in Seq(Position) /\ Len(buf') = start
    BY <1>18, KeptStep DEF RelayChunk
  <2>4. wr_ok' \in BOOLEAN
    BY <1>18 DEF RelayChunk
  <2>5. wrote' \in Seq(Position)
    BY <1>1, <1>18, <2>1 DEF RelayChunk
  <2> QED
    <3>1. TypeOK'
      BY <1>1, <1>18, <2>2, <2>3, <2>4, <2>5 DEF RelayChunk, TypeOK, Steps
    <3>2. Bounded'
      BY <1>1, <1>2, <1>18, <2>3 DEF RelayChunk, Bounded
    <3> QED
      BY <1>18, <2>3, <3>1, <3>2 DEF RelayChunk, Shape
<1>19. CASE RelayRead
  <2>1. start' = start /\ Read(buf)
    BY <1>19 DEF RelayRead
  <2>2. PICK n \in Nat \ {0} :
            /\ nread' \in 0..Last /\ buf' \in Seq(Position)
            /\ Len(buf') = Len(buf) + n /\ Len(buf') <= Cap
    BY <2>1, ReadStep
  <2> QED
    BY <1>1, <1>19, <2>1, <2>2 DEF RelayRead, TypeOK, Bounded, Shape, Steps
<1>20. CASE RelayNothing
  BY <1>20 DEF RelayNothing, Failure, TypeOK, Bounded, Shape, Steps
<1>21. CASE RelayTail
  <2>1. len \in Nat /\ len <= available
    BY <1>21 DEF RelayTail, TypeOK
  <2>2. Written(Leading(len)) \in Seq(Position)
    BY <1>1, <2>1, Taken, ConcatPosition DEF Written
  <2>3. start' = start /\ buf' \in Seq(Position) /\ Len(buf') = Len(buf) - len
    BY <1>21, <2>1, WithoutStep DEF RelayTail
  <2>4. /\ wrote' \in Seq(Position) /\ wr_ok' \in BOOLEAN /\ len' = 0
        /\ pc' \in {"idle", "closed"} /\ rc' \in {0, 1}
    BY <1>1, <1>21, <2>2 DEF RelayTail, Return, Failure
  <2> QED
    <3>1. TypeOK'
      BY <1>1, <1>21, <2>3, <2>4 DEF RelayTail, TypeOK, Steps
    <3>2. Bounded'
      BY <1>1, <1>2, <1>21, <2>1, <2>3 DEF RelayTail, Bounded, available
    <3> QED
      BY <2>4, <3>1, <3>2 DEF Shape
<1>22. CASE DiscardChunk
  <2>1. Remaining \in Nat
    BY <1>1, <1>22 DEF DiscardChunk, Remaining, TypeOK
  <2>2. start' = start /\ buf' \in Seq(Position) /\ Len(buf') = start
    BY <1>22, KeptStep DEF DiscardChunk
  <2> QED
    <3>1. TypeOK'
      BY <1>1, <1>22, <2>1, <2>2 DEF DiscardChunk, TypeOK, Steps
    <3>2. Bounded'
      BY <1>1, <1>2, <1>22, <2>2 DEF DiscardChunk, Bounded
    <3> QED
      BY <1>22, <2>2, <3>1, <3>2 DEF DiscardChunk, Shape
<1>23. CASE DiscardRead
  <2>1. start' = start /\ Read(buf)
    BY <1>23 DEF DiscardRead
  <2>2. PICK n \in Nat \ {0} :
            /\ nread' \in 0..Last /\ buf' \in Seq(Position)
            /\ Len(buf') = Len(buf) + n /\ Len(buf') <= Cap
    BY <2>1, ReadStep
  <2> QED
    BY <1>1, <1>23, <2>1, <2>2 DEF DiscardRead, TypeOK, Bounded, Shape, Steps
<1>24. CASE DiscardNothing
  <2>1. pc' \in {"idle", "drainrecv"} /\ rc' \in Int
    BY <1>24, DiscardedStep DEF DiscardNothing
  <2> QED
    BY <1>24, <2>1 DEF DiscardNothing, TypeOK, Bounded, Shape, Steps
<1>25. CASE DiscardTail
  <2>1. pc' \in {"idle", "drainrecv"} /\ rc' \in Int
    BY <1>25, DiscardedStep DEF DiscardTail
  <2>2. len \in Nat /\ len <= available
    BY <1>25 DEF DiscardTail, TypeOK
  <2>3. start' = start /\ buf' \in Seq(Position) /\ Len(buf') = Len(buf) - len
    BY <1>25, <2>2, WithoutStep DEF DiscardTail
  <2> QED
    <3>1. TypeOK'
      BY <1>1, <1>25, <2>1, <2>3 DEF DiscardTail, TypeOK, Steps
    <3>2. Bounded'
      BY <1>1, <1>2, <1>25, <2>2, <2>3 DEF DiscardTail, Bounded, available
    <3> QED
      BY <2>1, <3>1, <3>2 DEF Shape
<1>26. CASE DrainTurn
  <2>1. CASE available = 0
    BY <1>26, <2>1 DEF DrainTurn, Return, TypeOK, Bounded, Shape, Steps
  <2>2. CASE available # 0
    <3>1. available >= 1 /\ buf[start + 1] \in Nat /\ start < Cap
      BY <1>1, <1>2, <1>4, <2>2 DEF available, Bounded
    <3>2. available >= Hdr => size \in Nat
      BY SizePositive
    <3>3. /\ dtype' \in BOOLEAN /\ msg' \in Nat /\ rc' \in Int /\ len' \in Nat
          /\ pc' \in {"idle", "drainrecv", "discard"}
      BY <1>1, <1>2, <1>26, <2>2, <3>1, <3>2 DEF DrainTurn, Return, TypeOK
    <3> QED
      BY <1>26, <3>1, <3>3 DEF DrainTurn, TypeOK, Bounded, Shape, Steps
  <2> QED
    BY <2>1, <2>2
<1>27. CASE DrainRecv
  <2>1. CASE Read(buf)
    <3>1. start' = start /\ pc' \in {"drain", "drainrecv"}
      BY <1>27, <2>1 DEF DrainRecv
    <3>2. PICK n \in Nat \ {0} :
              /\ nread' \in 0..Last /\ buf' \in Seq(Position)
              /\ Len(buf') = Len(buf) + n /\ Len(buf') <= Cap
      BY <2>1, <3>1, ReadStep
    <3> QED
      BY <1>1, <1>27, <3>1, <3>2 DEF DrainRecv, TypeOK, Bounded, Shape, Steps
  <2>2. CASE UNCHANGED <<buf, nread>> /\ pc' = "drain"
    BY <1>27, <2>2 DEF DrainRecv, TypeOK, Bounded, Shape, Steps
  <2> QED
    BY <1>27, <2>1, <2>2 DEF DrainRecv
<1>28. CASE Resend
  <2>1. Replay \in Seq(Position)
    BY <1>1, ConcatPosition DEF Replay
  <2>2. wrote' \in Seq(Position) /\ rc' \in Int /\ pc' = "idle"
    BY <1>28, <2>1 DEF Resend, Return
  <2> QED
    BY <1>28, <2>2 DEF Resend, Begin, TypeOK, Bounded, Shape, Steps, Ops
<1>35. CASE ResendFails
  <2>1. wrote' \in Seq(Position) /\ rc' \in Int /\ pc' = "resent" /\ start' = 0 /\ buf' = buf
    BY <1>3, <1>35 DEF ResendFails
  <2>2. dropped' \in BOOLEAN
    BY <1>35 DEF ResendFails
  <2>3. TypeOK'
    BY <1>35, <2>1, <2>2 DEF ResendFails, Begin, TypeOK, Steps, Ops
  <2>4. Bounded'
    BY <1>1, <1>35, <2>1 DEF ResendFails, Bounded
  <2> QED
    BY <2>1, <2>3, <2>4 DEF Shape
<1>29. CASE Reset
  <2>1. /\ buf' = <<>> /\ start' = 0 /\ warm' = FALSE /\ cache' = <<>>
        /\ sent' = <<>> /\ wrote' = <<>> /\ pc' = "idle" /\ op' = "reset" /\ dropped' \in BOOLEAN
    BY <1>29 DEF Reset
  <2> QED
    <3>1. TypeOK'
      <4>1. /\ buf' \in Seq(Position) /\ cache' \in Seq(Position)
            /\ wrote' \in Seq(Position) /\ sent' \in Seq(Position) /\ op' \in Ops
            /\ warm' \in BOOLEAN /\ start' \in Nat /\ pc' \in Steps
        BY <1>3, <2>1 DEF Ops, Steps
      <4> QED
        BY <1>29, <2>1, <4>1 DEF Reset, TypeOK
    <3>2. Bounded'
      BY <1>2, <1>3, <2>1 DEF Bounded
    <3> QED
      BY <2>1, <3>1, <3>2 DEF Shape
<1>30. CASE SetFd
  BY <1>3, <1>30 DEF SetFd, Begin, TypeOK, Bounded, Shape, Steps, Ops
<1>31. CASE IsError
  <2>1. buf[start + 1] \in Nat
    BY <1>1, <1>2, <1>4, <1>31 DEF IsError
  <2> QED
    BY <1>31, <2>1 DEF IsError, Begin, Return, TypeOK, Bounded, Shape, Steps, Ops
<1>32. CASE HangUp
  BY <1>32 DEF HangUp, TypeOK, Bounded, Shape
<1>33. CASE OutHangUp
  BY <1>33 DEF OutHangUp, TypeOK, Bounded, Shape
<1>34. CASE UNCHANGED vars
  BY <1>34 DEF vars, TypeOK, Bounded, Shape
<1> QED
  BY <1>5, <1>6, <1>7, <1>9, <1>10, <1>11, <1>12, <1>13, <1>14, <1>15, <1>16, <1>17, <1>18,
     <1>19, <1>20, <1>21, <1>22, <1>23, <1>24, <1>25, <1>26, <1>27, <1>28, <1>29, <1>30,
     <1>31, <1>32, <1>33, <1>34, <1>35
     DEF Next, Progress

\* In every state that the calls on an MBUF reach, for every size of the buffer
\* and every input stream, the types and the bounds hold.
THEOREM BufInvariant == Spec => []BufInv
<1>1. Init => BufInv
  <2> SUFFICES ASSUME Init PROVE BufInv
    OBVIOUS
  <2>1. <<>> \in Seq(Position) /\ Len(<<>>) = 0
    BY EmptySeq
  <2> QED
    <3>1. TypeOK
      <4>1. /\ buf \in Seq(Position) /\ cache \in Seq(Position)
            /\ wrote \in Seq(Position) /\ sent \in Seq(Position)
        BY <2>1 DEF Init
      <4>2. /\ warm \in BOOLEAN /\ wr_ok \in BOOLEAN /\ draining \in BOOLEAN
            /\ dtype \in BOOLEAN /\ eof \in BOOLEAN /\ outdead \in BOOLEAN
            /\ dropped \in BOOLEAN
        BY DEF Init
      <4> QED
        BY <4>1, <4>2, MBufAssumption DEF Init, TypeOK, Steps, Ops
    <3>2. Bounded
      BY <2>1, MBufAssumption DEF Init, Bounded
    <3> QED
      BY <3>1, <3>2 DEF Init, BufInv, Shape
<1>2. BufInv /\ [Next]_vars => BufInv'
  BY BufStep
<1> QED
  BY <1>1, <1>2, PTL DEF Spec

\* Type correctness of an MBUF and of the calls on it.
THEOREM TypeCorrect == Spec => []TypeOK
  BY BufInvariant, PTL DEF BufInv

\* start and fill never leave the allocation of pgr_mbuf_new, and only a cold
\* cache leaves octets in front of start.
THEOREM BufferBounded == Spec => []Bounded
  BY BufInvariant, PTL DEF BufInv

-----------------------------------------------------------------------------
(* What is buffered and what would be replayed. *)

\* Unless a failed resend is still to be followed by its reset, the buffer and
\* the cache change in seven ways.
LEMMA Effects ==
    ASSUME [Next]_vars, pc' # "resent"
    PROVE  \/ Reset
           \/ /\ pc # "resent"
              /\ \/ UNCHANGED <<buf, start, nread, warm, cache, sent>>
                 \/ Read(buf) /\ UNCHANGED <<start, warm, cache, sent>>
                 \/ buf' = Kept /\ UNCHANGED <<start, nread, warm, cache, sent>>
                 \/ /\ buf' = Without(len) /\ len <= available
                    /\ UNCHANGED <<start, nread, warm, cache, sent>>
                 \/ SendChunk
                 \/ SendTail
<1>1. CASE Recv \/ Send \/ Relay \/ Discard \/ Drain
  BY <1>1 DEF Recv, Send, Relay, Discard, Drain, Start, Begin
<1>2. CASE Resend \/ SetFd \/ IsError \/ HangUp \/ OutHangUp \/ UNCHANGED vars
  BY <1>2 DEF Resend, SetFd, IsError, HangUp, OutHangUp, vars, Begin
<1>3. CASE RecvNothing \/ SendNoCache \/ SendNothing \/ RelayNothing \/ DiscardNothing \/ DrainTurn
  BY <1>3 DEF RecvNothing, SendNoCache, SendNothing, RelayNothing, DiscardNothing, DrainTurn
<1>4. CASE RecvRead \/ SendRead \/ RelayRead \/ DiscardRead
  BY <1>4 DEF RecvRead, SendRead, RelayRead, DiscardRead
<1>5. CASE DrainRecv
  BY <1>5 DEF DrainRecv
<1>6. CASE RelayChunk \/ DiscardChunk
  BY <1>6 DEF RelayChunk, DiscardChunk
<1>7. CASE RelayTail \/ DiscardTail
  BY <1>7 DEF RelayTail, DiscardTail
<1>8. CASE SendChunk \/ SendTail
  BY <1>8 DEF SendChunk, SendTail
<1>9. CASE ResendFails
  BY <1>9 DEF ResendFails
<1> QED
  BY <1>1, <1>2, <1>3, <1>4, <1>5, <1>6, <1>7, <1>8, <1>9 DEF Next, Progress

\* Sending the first n octets behind start, with a cold and with a warm cache.
LEMMA SendTailStep ==
    ASSUME BufInv, SendTail
    PROVE  /\ len \in Nat /\ len <= available /\ nread' = nread
           /\ sent' = sent \o Leading(len)
           /\ available' = available - len
           /\ \/ /\ warm /\ cache' = cache \o Leading(len) /\ Kept' = Kept
                 /\ buf' = Without(len) /\ start' = start
              \/ /\ ~warm /\ cache' = cache /\ Kept' = Kept \o Leading(len)
                 /\ buf' = buf /\ start' = start + len
<1> USE DEF BufInv
<1>1. len \in Nat /\ len <= available /\ nread' = nread /\ sent' = sent \o Leading(len)
  BY DEF SendTail, TypeOK
<1>2. CASE warm
  <2>1. cache' = cache \o Leading(len) /\ buf' = Without(len) /\ start' = start
    BY <1>2 DEF SendTail
  <2>2. Kept' = Kept /\ available' = available - len
    BY <1>1, <2>1, WithoutStep
  <2> QED
    BY <1>1, <1>2, <2>1, <2>2
<1>3. CASE ~warm
  <2>1. cache' = cache /\ buf' = buf /\ start' = start + len
    BY <1>3 DEF SendTail
  <2>2. Kept' = Kept \o Leading(len) /\ available' = available - len
    BY <1>1, <2>1, AdvanceStep
  <2> QED
    BY <1>1, <1>3, <2>1, <2>2
<1> QED
  BY <1>2, <1>3

\* Sending all there is behind start.
LEMMA SendChunkStep ==
    ASSUME BufInv, SendChunk
    PROVE  /\ nread' = nread /\ sent' = sent \o Unsent /\ warm' = TRUE
           /\ cache' = WarmCache \o Unsent
           /\ buf' = <<>> /\ start' = 0 /\ available' = 0 /\ Kept' = <<>>
<1> USE DEF BufInv
<1>1. <<>> \in Seq(Position) /\ Len(<<>>) = 0
  BY EmptySeq
<1>2. buf' = <<>> /\ start' = 0
  <2>1. CASE warm
    <3>1. start = 0
      BY <2>1 DEF Bounded
    <3>2. Kept \in Seq(Position) /\ Len(Kept) = 0
      BY <3>1, Parts
    <3>3. Kept = <<>>
      BY <3>2, EmptySeq
    <3> QED
      BY <2>1, <3>1, <3>3 DEF SendChunk
  <2>2. CASE ~warm
    BY <2>2 DEF SendChunk
  <2> QED
    BY <2>1, <2>2
<1>3. available' = 0
  BY <1>1, <1>2 DEF available
<1>4. Kept' = <<>>
  <2>1. SubSeq(buf', 1, 0) = <<>>
    BY SubSeqEmpty
  <2> QED
    BY <1>2, <2>1 DEF Kept
<1> QED
  BY <1>2, <1>3, <1>4 DEF SendChunk

\* Every step keeps the octets behind start the next ones of the stream.
LEMMA ContiguousStep ==
    ASSUME BufInv, Contiguous, [Next]_vars
    PROVE  Contiguous'
<1> USE DEF BufInv
<1> SUFFICES ASSUME pc' # "resent" PROVE Contiguous'
  BY DEF Contiguous
<1>1. /\ available \in Nat /\ Len(buf) \in Nat /\ start \in Nat /\ start <= Len(buf)
      /\ nread \in Nat /\ available = Len(buf) - start
  BY Parts, MBufAssumption DEF TypeOK, Bounded, available
<1>2. pc # "resent" => \A i \in 1..available : buf[start + i] = nread - available + i - 1
  BY <1>1 DEF Contiguous
<1>3. SUFFICES \A i \in 1..available' : buf'[start' + i] = nread' - available' + i - 1
  BY DEF Contiguous, available
<1>4. CASE available' = 0
  BY <1>4
<1>12. CASE Reset
  <2>1. buf' = <<>> /\ start' = 0
    BY <1>12 DEF Reset
  <2>2. available' = 0
    BY <2>1, EmptySeq DEF available
  <2> QED
    BY <1>4, <2>2
<1> SUFFICES ASSUME pc # "resent"
             PROVE  \A i \in 1..available' : buf'[start' + i] = nread' - available' + i - 1
  BY <1>12, Effects
<1>5. ASSUME NEW n \in Nat, n <= available, nread' = nread, available' = available - n,
             \A i \in 1..(available - n) : buf'[start' + i] = buf[start + n + i]
      PROVE  \A i \in 1..available' : buf'[start' + i] = nread' - available' + i - 1
  <2> SUFFICES ASSUME NEW i \in 1..available'
               PROVE  buf'[start' + i] = nread' - available' + i - 1
    OBVIOUS
  <2>1. i \in 1..(available - n) /\ n + i \in 1..available /\ start + (n + i) = start + n + i
    BY <1>1, <1>5
  <2>2. buf[start + n + i] = nread - available + (n + i) - 1
    BY <1>2, <2>1
  <2> QED
    BY <1>1, <1>5, <2>1, <2>2
<1>6. CASE UNCHANGED <<buf, start, nread, warm, cache, sent>>
  BY <1>2, <1>6 DEF available
<1>7. CASE Read(buf) /\ UNCHANGED <<start, warm, cache, sent>>
  <2>1. PICK n \in Nat \ {0} :
            /\ nread' = nread + n /\ available' = available + n
            /\ \A i \in 1..Len(buf) : buf'[i] = buf[i]
            /\ \A i \in 1..n : buf'[Len(buf) + i] = nread + i - 1
    BY <1>7, ReadStep
  <2> SUFFICES ASSUME NEW i \in 1..available'
               PROVE  buf'[start' + i] = nread' - available' + i - 1
    OBVIOUS
  <2>2. CASE i <= available
    <3>1. i \in 1..available /\ start + i \in 1..Len(buf)
      BY <1>1, <2>1, <2>2
    <3>2. buf'[start + i] = nread - available + i - 1
      BY <1>2, <2>1, <3>1
    <3> QED
      BY <1>1, <1>7, <2>1, <3>2
  <2>3. CASE ~(i <= available)
    <3>1. i - available \in 1..n /\ Len(buf) + (i - available) = start + i
      BY <1>1, <2>1, <2>3
    <3>2. buf'[Len(buf) + (i - available)] = nread + (i - available) - 1
      BY <2>1, <3>1
    <3> QED
      BY <1>1, <1>7, <2>1, <3>1, <3>2
  <2> QED
    BY <2>2, <2>3
<1>8. CASE buf' = Kept /\ UNCHANGED <<start, nread, warm, cache, sent>>
  BY <1>4, <1>8, KeptStep
<1>9. CASE /\ buf' = Without(len) /\ len <= available
           /\ UNCHANGED <<start, nread, warm, cache, sent>>
  <2>1. len \in Nat
    BY DEF TypeOK
  <2>2. /\ available' = available - len
        /\ \A i \in 1..(available - len) : buf'[start + i] = buf[start + len + i]
    BY <1>9, <2>1, WithoutStep
  <2> QED
    BY <1>5, <1>9, <2>1, <2>2
<1>10. CASE SendChunk
  BY <1>4, <1>10, SendChunkStep
<1>11. CASE SendTail
  <2>1. /\ len \in Nat /\ len <= available /\ nread' = nread
        /\ available' = available - len
        /\ \/ buf' = Without(len) /\ start' = start
           \/ buf' = buf /\ start' = start + len
    BY <1>11, SendTailStep
  <2>2. \A i \in 1..(available - len) : buf'[start' + i] = buf[start + len + i]
    <3>1. CASE buf' = Without(len) /\ start' = start
      BY <2>1, <3>1, WithoutStep
    <3>2. CASE buf' = buf /\ start' = start + len
      BY <3>2
    <3> QED
      BY <2>1, <3>1, <3>2
  <2> QED
    BY <1>5, <2>1, <2>2
<1> QED
  BY <1>6, <1>7, <1>8, <1>9, <1>10, <1>11, <1>12, Effects

\* The replay of a resend follows what is sent.
LEMMA ReplayStep ==
    ASSUME BufInv, ReplayExact, [Next]_vars
    PROVE  ReplayExact'
<1> USE DEF BufInv
<1> SUFFICES ASSUME pc' # "resent" PROVE cache' \o Kept' = sent'
  BY DEF ReplayExact, Replay
<1>12. CASE Reset
  <2>1. cache' = <<>> /\ sent' = <<>> /\ buf' = <<>> /\ start' = 0
    BY <1>12 DEF Reset
  <2>2. Kept' = <<>>
    BY <2>1, SubSeqEmpty DEF Kept
  <2> QED
    BY <2>1, <2>2, EmptySeq, ConcatEmptySeq
<1> SUFFICES ASSUME pc # "resent" PROVE cache' \o Kept' = sent'
  BY <1>12, Effects
<1>1. /\ Kept \in Seq(Position) /\ Len(Kept) = start /\ Unsent \in Seq(Position)
      /\ cache \in Seq(Position) /\ sent = cache \o Kept
  BY Parts DEF TypeOK, ReplayExact, Replay
<1>3. warm => Kept = <<>> /\ cache = sent
  <2> SUFFICES ASSUME warm PROVE Kept = <<>> /\ cache = sent
    OBVIOUS
  <2>1. Len(Kept) = 0
    BY <1>1 DEF Bounded
  <2>2. Kept = <<>>
    BY <1>1, <2>1, EmptySeq
  <2> QED
    BY <1>1, <2>2, ConcatEmptySeq
<1>4. ~warm => cache = <<>> /\ Kept = sent
  <2> SUFFICES ASSUME ~warm PROVE cache = <<>> /\ Kept = sent
    OBVIOUS
  <2>1. cache = <<>>
    BY DEF Bounded
  <2> QED
    BY <1>1, <2>1, ConcatEmptySeq
<1>5. CASE Kept' = Kept /\ UNCHANGED <<cache, sent>>
  BY <1>1, <1>5
<1>6. CASE UNCHANGED <<buf, start, nread, warm, cache, sent>>
  BY <1>5, <1>6 DEF Kept
<1>7. CASE Read(buf) /\ UNCHANGED <<start, warm, cache, sent>>
  BY <1>5, <1>7, ReadStep
<1>8. CASE buf' = Kept /\ UNCHANGED <<start, nread, warm, cache, sent>>
  BY <1>5, <1>8, KeptStep
<1>9. CASE /\ buf' = Without(len) /\ len <= available
           /\ UNCHANGED <<start, nread, warm, cache, sent>>
  <2>1. Kept' = Kept
    BY <1>9, WithoutStep DEF TypeOK
  <2> QED
    BY <1>5, <1>9, <2>1
<1>10. CASE SendChunk
  <2>1. sent' = sent \o Unsent /\ cache' = WarmCache \o Unsent /\ Kept' = <<>>
    BY <1>10, SendChunkStep
  <2>2. WarmCache = sent
    BY <1>3, <1>4 DEF WarmCache
  <2>3. sent \o Unsent \in Seq(Position)
    BY <1>1, ConcatPosition DEF TypeOK
  <2> QED
    BY <2>1, <2>2, <2>3, ConcatEmptySeq
<1>11. CASE SendTail
  <2> DEFINE t == Leading(len)
  <2>1. t \in Seq(Position)
    BY <1>11, SendTailStep, Taken
  <2>2. /\ sent' = sent \o t
        /\ \/ warm /\ cache' = cache \o t /\ Kept' = Kept
           \/ ~warm /\ cache' = cache /\ Kept' = Kept \o t
    BY <1>11, SendTailStep
  <2> HIDE DEF t
  <2>3. sent \o t \in Seq(Position)
    BY <1>1, <2>1, ConcatPosition DEF TypeOK
  <2>4. CASE warm
    <3>1. cache' = sent' /\ Kept' = <<>>
      BY <1>3, <2>2, <2>4
    <3> QED
      BY <2>2, <2>3, <3>1, ConcatEmptySeq
  <2>5. CASE ~warm
    <3>1. cache' = <<>> /\ Kept' = sent'
      BY <1>4, <2>2, <2>5
    <3> QED
      BY <2>2, <2>3, <3>1, ConcatEmptySeq
  <2> QED
    BY <2>4, <2>5
<1> QED
  BY <1>6, <1>7, <1>8, <1>9, <1>10, <1>11, <1>12, Effects

\* send, relay and discard remove a prefix of what is behind start, and nothing
\* else: what is left is what the stream goes on with.
THEOREM StreamContiguous == Spec => []Contiguous
<1>1. Init => Contiguous
  <2>1. Len(<<>>) = 0
    BY EmptySeq
  <2> QED
    BY <2>1 DEF Init, Contiguous
<1>2. BufInv /\ Contiguous /\ [Next]_vars => Contiguous'
  BY ContiguousStep
<1> QED
  BY <1>1, <1>2, BufInvariant, PTL DEF Spec

\* What pgr_mbuf_resend would replay is what pgr_mbuf_send has sent since the
\* last reset, wherever the cache was warmed up in between.
THEOREM ReplayIsExact == Spec => []ReplayExact
<1>1. Init => ReplayExact
  <2> SUFFICES ASSUME Init PROVE ReplayExact
    OBVIOUS
  <2>1. cache = <<>> /\ sent = <<>> /\ start = 0
    BY DEF Init
  <2>2. Kept = <<>>
    BY <2>1, SubSeqEmpty DEF Kept
  <2> QED
    BY <2>1, <2>2, EmptySeq, ConcatEmptySeq DEF ReplayExact, Replay
<1>2. BufInv /\ ReplayExact /\ [Next]_vars => ReplayExact'
  BY ReplayStep
<1> QED
  BY <1>1, <1>2, BufInvariant, PTL DEF Spec

-----------------------------------------------------------------------------
(* Resending. *)

\* The step of a call tells which call it is.
Calls ==
    /\ pc = "recv" => op = "recv"
    /\ pc \in {"drain", "drainrecv"} => op = "drain" /\ draining
    /\ pc \in {"send", "sendread"} => op = "send"
    /\ pc \in {"relay", "relayread"} => op = "relay"
    /\ pc = "resent" => op = "resend" /\ rc = 1
    /\ pc \in {"discard", "discardread"} =>
          (op = "drain" /\ draining) \/ (op = "discard" /\ ~draining)

\* Every step keeps Calls.
LEMMA CallsStep ==
    ASSUME Calls, TypeOK, [Next]_vars
    PROVE  Calls'
<1>1. CASE Recv \/ RecvRead \/ RecvNothing
  BY <1>1 DEF Calls, Recv, RecvRead, RecvNothing, Begin, Return
<1>2. CASE Send \/ Relay \/ Discard
  BY <1>2 DEF Calls, Send, Relay, Discard, Start, Begin, Return, Failure
<1>3. CASE Drain \/ DrainTurn \/ DrainRecv
  <2>1. CASE Drain
    <3>1. pc' = "drain" /\ op' = "drain" /\ draining'
      BY <2>1 DEF Drain, Begin
    <3> QED
      BY <3>1 DEF Calls
  <2>2. CASE DrainTurn
    <3>1. op = "drain" /\ draining
      BY <2>2 DEF DrainTurn, Calls
    <3>2. op' = op /\ draining' = draining /\ pc' \in {"idle", "drainrecv", "discard"}
      BY <2>2 DEF DrainTurn, Return
    <3> QED
      BY <3>1, <3>2 DEF Calls
  <2>3. CASE DrainRecv
    BY <2>3 DEF Calls, DrainRecv
  <2> QED
    BY <1>3, <2>1, <2>2, <2>3
<1>4. CASE Resend \/ ResendFails \/ Reset \/ SetFd \/ IsError
  BY <1>4 DEF Calls, Resend, ResendFails, Reset, SetFd, IsError, Begin, Return
<1>5. CASE SendChunk \/ SendNoCache \/ SendRead \/ SendNothing \/ SendTail
  BY <1>5 DEF Calls, SendChunk, SendNoCache, SendRead, SendNothing, SendTail, Return, Failure
<1>6. CASE RelayChunk \/ RelayRead \/ RelayNothing \/ RelayTail
  BY <1>6 DEF Calls, RelayChunk, RelayRead, RelayNothing, RelayTail, Return, Failure
<1>7. CASE DiscardChunk \/ DiscardRead
  BY <1>7 DEF Calls, DiscardChunk, DiscardRead
<1>8. CASE DiscardNothing \/ DiscardTail
  <2>1. Discarded(0) /\ op' = op /\ draining' = draining /\ pc \in {"discard", "discardread"}
    BY <1>8 DEF DiscardNothing, DiscardTail
  <2>2. pc' = "idle" \/ (pc' = "drainrecv" /\ draining)
    BY <2>1, DiscardedStep
  <2> QED
    BY <2>1, <2>2 DEF Calls
<1>9. CASE HangUp \/ OutHangUp \/ UNCHANGED vars
  BY <1>9 DEF Calls, HangUp, OutHangUp, vars
<1> QED
  BY <1>1, <1>2, <1>3, <1>4, <1>5, <1>6, <1>7, <1>8, <1>9 DEF Next, Progress

\* Calls is an invariant.
LEMMA CallsInvariant == Spec => []Calls
<1>1. Init => Calls
  BY DEF Init, Calls
<1>2. Calls /\ BufInv /\ [Next]_vars => Calls'
  BY CallsStep DEF BufInv
<1> QED
  BY <1>1, <1>2, BufInvariant, PTL DEF Spec

\* A resend writes what was sent since the last reset, if it writes at all.
LEMMA ResendStep ==
    ASSUME BufInv, Calls, ReplayExact, ResendWrites, [Next]_vars
    PROVE  ResendWrites'
<1> SUFFICES ASSUME pc' = "idle", op' = "resend", rc' = 0
             PROVE  wrote' = sent'
  BY DEF ResendWrites
<1>1. CASE Resend
  BY <1>1 DEF Resend, Begin, ReplayExact
<1>2. CASE HangUp \/ OutHangUp \/ UNCHANGED vars
  BY <1>2 DEF HangUp, OutHangUp, vars, ResendWrites
<1>3. CASE Recv \/ Send \/ Relay \/ Discard \/ Drain \/ ResendFails \/ Reset \/ SetFd \/ IsError
  BY <1>3 DEF Recv, ResendFails, Send, Relay, Discard, Drain, Start, Reset, SetFd, IsError, Begin
<1>4. CASE Progress
  <2>1. op' = op /\ pc \notin {"idle", "closed", "resent"}
    BY <1>4 DEF Progress, RecvRead, RecvNothing, SendChunk, SendNoCache, SendRead, SendNothing,
                SendTail, RelayChunk, RelayRead, RelayNothing, RelayTail, DiscardChunk,
                DiscardRead, DiscardNothing, DiscardTail, DrainTurn, DrainRecv
  <2> QED
    BY <2>1 DEF Calls, BufInv, TypeOK, Steps
<1> QED
  BY <1>1, <1>2, <1>3, <1>4 DEF Next

\* A pgr_mbuf_resend that reports success has written exactly what the client
\* sent since the last reset, once and in order.
THEOREM ResendIsExact == Spec => []ResendWrites
<1>1. Init => ResendWrites
  BY DEF Init, ResendWrites
<1>2. BufInv /\ Calls /\ ReplayExact /\ ResendWrites /\ [Next]_vars => ResendWrites'
  BY ResendStep
<1> QED
  BY <1>1, <1>2, BufInvariant, CallsInvariant, ReplayIsExact, PTL DEF Spec

-----------------------------------------------------------------------------
(* Framing. *)

\* The position in the stream of the octet at start.
pos == nread - available

InCall  == pc \in {"send", "sendread", "relay", "relayread", "discard", "discardread"}
Between == pc \in {"idle", "recv", "drain", "drainrecv"}

\* A call in progress has len octets of its message still to do; between two
\* calls the stream goes on with a message, or the peer has closed in the
\* middle of one; a failed resend threw away nothing.
Place ==
    /\ InCall => msg \in Starts /\ msg <= pos /\ pos + len = MsgEnd[msg]
    /\ Between => pos \in Starts \union {Last} \/ (eof /\ available = 0)
    /\ pc = "resent" => nread \in Starts \union {Last} \/ eof

\* A call in progress has written the octets of its message up to pos, if no
\* write has failed.
Progressed ==
    /\ pc \in {"send", "sendread"} /\ ~outdead => wrote = Octets(msg, pos - msg)
    /\ pc \in {"relay", "relayread"} /\ wr_ok => wrote = Octets(msg, pos - msg)

\* What the calls that returned 0 have written.
Completed ==
    pc = "idle" /\ rc = 0 =>
        /\ op = "relay" => Whole
        /\ op = "send" /\ ~eof => Whole

FrameInv == Place /\ Progressed /\ Completed

\* The octets of the buffer are named by their position.
LEMMA Positions ==
    ASSUME BufInv, Contiguous, pc # "resent"
    PROVE  /\ pos \in Nat /\ pos + available = nread
           /\ available >= 1 => buf[start + 1] = pos
           /\ Unsent = Octets(pos, available)
           /\ \A n \in Nat : n <= available => Leading(n) = Octets(pos, n)
<1> USE DEF BufInv
<1>1. /\ available \in Nat /\ nread \in Nat /\ start \in Nat
      /\ \A i \in 1..available : buf[start + i] = pos + i - 1
      /\ pos = nread - available /\ Last \in Nat
      /\ available = Len(buf) - start
  BY Parts, MBufAssumption DEF TypeOK, Contiguous, pos, available
<1>2. pos \in Int /\ pos + available = nread
  BY <1>1
<1>3. available >= 1 => buf[start + 1] = pos /\ pos \in Nat
  <2> SUFFICES ASSUME available >= 1 PROVE buf[start + 1] = pos /\ pos \in Nat
    OBVIOUS
  <2>1. 1 \in 1..available /\ start + 1 \in 1..Len(buf)
    BY <1>1, Parts
  <2>2. buf[start + 1] = pos + 1 - 1
    BY <1>1, <2>1
  <2>3. buf[start + 1] \in Position
    BY <2>1, ElementOfSeq DEF TypeOK
  <2> QED
    BY <1>1, <1>2, <2>2, <2>3 DEF Position
<1>4. pos \in Nat
  BY <1>1, <1>2, <1>3
<1>5. ASSUME NEW n \in Nat, NEW s \in Seq(Position), Len(s) = n, n <= available,
             \A i \in 1..n : s[i] = buf[start + i]
      PROVE  s = Octets(pos, n)
  <2> DEFINE t == Octets(pos, n)
  <2>1. Len(t) = n /\ \A i \in 1..n : t[i] = pos + i - 1
    BY <1>2, OctetsSeq
  <2>2. t \in Seq(Position)
    <3>1. pos + n <= Last
      BY <1>1, <1>2, <1>5 DEF TypeOK
    <3> QED
      BY <1>4, <3>1, OctetsPosition
  <2> HIDE DEF t
  <2>3. ASSUME NEW i \in 1..n PROVE s[i] = t[i]
    <3>1. i \in 1..available
      BY <1>1, <1>5
    <3> QED
      BY <1>1, <1>5, <2>1, <3>1
  <2>4. s = t
    BY <1>5, <2>1, <2>2, <2>3, SeqEqual
  <2> QED
    BY <2>4 DEF t
<1>6. Unsent = Octets(pos, available)
  <2>1. /\ Unsent \in Seq(Position) /\ Len(Unsent) = available
        /\ \A i \in 1..available : Unsent[i] = buf[start + i]
    BY Parts
  <2> QED
    BY <1>1, <1>5, <2>1
<1>7. ASSUME NEW n \in Nat, n <= available PROVE Leading(n) = Octets(pos, n)
  <2>1. /\ Leading(n) \in Seq(Position) /\ Len(Leading(n)) = n
        /\ \A i \in 1..n : Leading(n)[i] = buf[start + i]
    BY <1>7, Taken
  <2> QED
    BY <1>5, <1>7, <2>1
<1> QED
  BY <1>2, <1>3, <1>4, <1>6, <1>7

\* What a call writes continues what it has written.
LEMMA WritesOn ==
    ASSUME NEW p \in Nat, NEW q \in Nat, p <= q, NEW n \in Nat
    PROVE  Octets(p, q - p) \o Octets(q, n) = Octets(p, (q + n) - p)
<1>1. q - p \in Nat /\ p \in Int /\ p + (q - p) = q /\ (q - p) + n = (q + n) - p
  OBVIOUS
<1>2. Octets(p, q - p) \o Octets(p + (q - p), n) = Octets(p, (q - p) + n)
  BY <1>1, OctetsConcat
<1> QED
  BY <1>1, <1>2

\* A call begins with the message that the stream goes on with.
LEMMA CallBegins ==
    ASSUME BufInv, Contiguous, LengthsFit, Place, Between, available >= Hdr
    PROVE  pos \in Starts /\ buf[start + 1] = pos /\ pos + size = MsgEnd[pos]
<1>1. /\ Hdr \in Nat \ {0} /\ available \in Nat /\ nread \in Nat /\ nread <= Last /\ Last \in Nat
  BY MBufAssumption, Parts DEF BufInv, TypeOK
<1>2. available >= 1
  BY <1>1
<1>3. pos \in Nat /\ pos + available = nread /\ buf[start + 1] = pos
  BY <1>2, Positions DEF Between
<1>4. pos \in Starts \union {Last}
  BY <1>1, <1>2 DEF Place
<1>5. pos \in Starts
  BY <1>1, <1>2, <1>3, <1>4
<1> QED
  BY <1>3, <1>5, SizeExact DEF BufInv

\* Every step keeps the frame, unless a reset throws away octets.
LEMMA FrameStep ==
    ASSUME BufInv, Contiguous, Calls, LengthsFit, ~dropped, ~dropped', FrameInv, [Next]_vars
    PROVE  FrameInv'
<1> USE DEF FrameInv
<1>1. /\ Hdr \in Nat \ {0} /\ Cap \in Nat \ {0} /\ available \in Nat /\ Len(buf) \in Nat
      /\ start \in Nat /\ len \in Nat /\ available = Len(buf) - start
      /\ Starts \subseteq Nat /\ MsgEnd \in [Starts -> Nat]
      /\ \A p \in Starts : MsgEnd[p] \in Starts \union {Last}
  BY MBufAssumption, Parts DEF BufInv, TypeOK, Position, available
<1>39. ASSUME pc = "resent"
       PROVE  FrameInv'
  <2>1. CASE Reset
    <3>1. /\ buf' = <<>> /\ start' = 0 /\ nread' = nread /\ eof' = eof
          /\ pc' = "idle" /\ op' = "reset"
      BY <2>1 DEF Reset
    <3>2. available' = 0 /\ nread \in Int
      BY <3>1, EmptySeq, MBufAssumption DEF available, BufInv, TypeOK
    <3>3. pos' = nread
      BY <3>1, <3>2 DEF pos
    <3> QED
      BY <1>39, <3>1, <3>2, <3>3 DEF Place, Progressed, Completed, InCall, Between
  <2>2. CASE HangUp \/ OutHangUp \/ UNCHANGED vars
    BY <1>39, <2>2 DEF HangUp, OutHangUp, vars, Place, Progressed, Completed, InCall, Between
  <2>3. Reset \/ HangUp \/ OutHangUp \/ UNCHANGED vars
    BY <1>39 DEF Next, Progress, Recv, RecvRead, RecvNothing, Send, Relay, Discard, Start, Begin,
                 SendChunk, SendNoCache, SendRead, SendNothing, SendTail, RelayChunk,
                 RelayRead, RelayNothing, RelayTail, DiscardChunk, DiscardRead,
                 DiscardNothing, DiscardTail, Drain, DrainTurn, DrainRecv, Resend,
                 ResendFails, SetFd, IsError
  <2> QED
    BY <2>1, <2>2, <2>3
<1> SUFFICES ASSUME pc # "resent" PROVE FrameInv'
  BY <1>39
<1>2. /\ pos \in Nat /\ pos + available = nread
      /\ Unsent = Octets(pos, available)
      /\ \A n \in Nat : n <= available => Leading(n) = Octets(pos, n)
  BY Positions
<1>3. InCall => /\ msg \in Starts /\ msg \in Nat /\ msg <= pos /\ pos + len = MsgEnd[msg]
                /\ \A n \in Nat : Octets(msg, pos - msg) \o Octets(pos, n)
                                      = Octets(msg, (pos + n) - msg)
  BY <1>1, <1>2, WritesOn DEF Place
<1>4. ASSUME UNCHANGED <<buf, start, nread>>
      PROVE  pos' = pos /\ available' = available
  BY <1>4 DEF pos, available
<1>5. ASSUME Read(buf), start' = start
      PROVE  pos' = pos /\ ~eof
  BY <1>1, <1>2, <1>5, ReadStep DEF BufInv, pos, TypeOK
<1>6. ASSUME buf' = Kept, start' = start, nread' = nread
      PROVE  pos' = pos + available
  BY <1>2, <1>6, KeptStep DEF BufInv, pos, TypeOK
<1>7. ASSUME buf' = Without(len), start' = start, nread' = nread, len <= available
      PROVE  pos' = pos + len
  BY <1>1, <1>2, <1>7, WithoutStep DEF BufInv, pos, TypeOK
<1>8. ASSUME pc' \in {"idle", "recv", "drain", "drainrecv"},
             op' \notin {"relay", "send"},
             pos' \in Starts \union {Last} \/ (eof' /\ available' = 0)
      PROVE  FrameInv'
  BY <1>8 DEF Place, Progressed, Completed, InCall, Between
<1>9. ASSUME pc' = "closed"
      PROVE  FrameInv'
  BY <1>9 DEF Place, Progressed, Completed, InCall, Between
<1>10. ASSUME pc \in {"discardread", "relayread"}, ReadsNothing
       PROVE  available = 0 /\ eof
  BY <1>1, <1>10 DEF ReadsNothing, Room, BufInv, Shape
<1>11. ASSUME pc = "sendread", ReadsNothing
       PROVE  available = 0 /\ eof
  BY <1>1, <1>11 DEF ReadsNothing, Room, BufInv, Shape, Bounded
<1>12. CASE Recv
  <2>1. /\ UNCHANGED <<buf, start, nread, eof>> /\ Between /\ pc' \in {"idle", "recv"}
        /\ op' = "recv"
    BY <1>12 DEF Recv, Begin, Return, Between
  <2> QED
    BY <1>4, <1>8, <2>1 DEF Place
<1>13. CASE RecvRead
  <2>1. /\ Read(buf) /\ start' = start /\ Between /\ pc' \in {"idle", "recv"}
        /\ op' = op /\ op = "recv"
    BY <1>13 DEF RecvRead, Return, Between, Calls
  <2> QED
    BY <1>5, <1>8, <2>1 DEF Place
<1>14. CASE RecvNothing
  <2>1. /\ UNCHANGED <<buf, start, nread, eof>> /\ Between /\ pc' = "idle"
        /\ op' = op /\ op = "recv"
    BY <1>14 DEF RecvNothing, Return, Between, Calls
  <2> QED
    BY <1>4, <1>8, <2>1 DEF Place
<1>15. ASSUME NEW o \in {"send", "relay", "discard"}, Start(o)
       PROVE  FrameInv'
  <2>1. UNCHANGED <<buf, start, nread, eof>> /\ Between /\ op' = o /\ wrote' = <<>>
    BY <1>15 DEF Start, Begin, Between
  <2>2. CASE available < Hdr
    <3>1. CASE o = "discard"
      <4>1. pc' = "idle"
        BY <1>15, <2>2, <3>1 DEF Start, Return
      <4> QED
        BY <1>4, <1>8, <2>1, <3>1, <4>1 DEF Place
    <3>2. CASE o # "discard"
      BY <1>9, <1>15, <2>2, <3>2 DEF Start, Failure
    <3> QED
      BY <3>1, <3>2
  <2>3. CASE ~(available < Hdr)
    <3>1. len' = size /\ msg' = buf[start + 1] /\ pc' = o
      BY <1>15, <2>3 DEF Start
    <3>2. pos \in Starts /\ buf[start + 1] = pos /\ pos + size = MsgEnd[pos]
      BY <1>1, <2>1, <2>3, CallBegins
    <3>3. Octets(pos, pos - pos) = <<>>
      <4>1. pos - pos = 0 /\ pos \in Int
        BY <1>2
      <4>2. Octets(pos, 0) \in Seq(Int) /\ Len(Octets(pos, 0)) = 0
        BY <4>1, OctetsSeq
      <4> QED
        BY <4>1, <4>2, EmptySeq
    <3>4. pos' = pos
      BY <1>4, <2>1
    <3>5. Place'
      BY <1>2, <3>1, <3>2, <3>4 DEF Place, InCall, Between
    <3>6. Progressed'
      BY <2>1, <3>1, <3>2, <3>3, <3>4 DEF Progressed
    <3> QED
      BY <3>1, <3>5, <3>6 DEF Completed
  <2> QED
    BY <2>2, <2>3
<1>16. CASE Send \/ Relay \/ Discard
  BY <1>15, <1>16 DEF Send, Relay, Discard
<1>17. CASE Drain
  <2>1. /\ UNCHANGED <<buf, start, nread, eof>> /\ Between /\ pc' = "drain" /\ op' = "drain"
    BY <1>17 DEF Drain, Begin, Between
  <2> QED
    BY <1>4, <1>8, <2>1 DEF Place
<1>18. CASE SendChunk
  <2>1. pc = "send" /\ InCall /\ pc' = "sendread" /\ msg' = msg /\ outdead' = outdead
    BY <1>18 DEF SendChunk, InCall
  <2>2. /\ len' = len - available /\ wrote' = Written(Unsent)
    BY <1>18 DEF SendChunk, Remaining
  <2>3. pos' = pos + available
    BY <1>2, <1>18, SendChunkStep DEF pos, BufInv, TypeOK
  <2>4. Place'
    <3>1. msg \in Starts /\ msg \in Nat /\ msg <= pos /\ pos + len = MsgEnd[msg]
      BY <1>3, <2>1
    <3>2. msg' \in Starts /\ msg' <= pos' /\ pos' + len' = MsgEnd[msg']
      BY <1>1, <1>2, <2>1, <2>2, <2>3, <3>1
    <3> QED
      BY <2>1, <3>2 DEF Place, InCall, Between
  <2>5. Progressed'
    <3> SUFFICES ASSUME ~outdead' PROVE wrote' = Octets(msg', pos' - msg')
      BY <2>1 DEF Progressed
    <3>1. wrote' = wrote \o Unsent /\ wrote = Octets(msg, pos - msg)
      BY <2>1, <2>2 DEF Written, Progressed
    <3> QED
      BY <1>1, <1>2, <1>3, <2>1, <2>3, <3>1
  <2> QED
    BY <2>1, <2>4, <2>5 DEF Completed
<1>19. CASE SendNoCache
  BY <1>9, <1>19 DEF SendNoCache, Failure
<1>20. CASE SendRead
  <2>1. /\ pc = "sendread" /\ InCall /\ pc' = "send" /\ Read(buf)
        /\ UNCHANGED <<start, msg, len, outdead, wrote>>
    BY <1>20 DEF SendRead, InCall
  <2>2. pos' = pos
    BY <1>5, <2>1
  <2> QED
    BY <2>1, <2>2 DEF Place, Progressed, Completed, InCall, Between
<1>21. CASE SendNothing
  <2>1. available = 0 /\ eof
    BY <1>11, <1>21 DEF SendNothing
  <2>2. pc' = "idle" /\ UNCHANGED <<buf, start, nread, eof, op>> /\ op = "send"
    BY <1>21 DEF SendNothing, Return, Calls
  <2> QED
    BY <1>4, <2>1, <2>2 DEF Place, Progressed, Completed, InCall, Between
<1>22. CASE SendTail
  <2>1. /\ pc = "send" /\ InCall /\ op = "send" /\ UNCHANGED <<msg, op>>
        /\ wrote' = Written(Leading(len)) /\ len <= available
    BY <1>22 DEF SendTail, InCall, Calls
  <2>2. pos' = pos + len
    BY <1>1, <1>2, <1>22, SendTailStep DEF pos, BufInv, TypeOK
  <2>3. CASE outdead
    <3>1. pc' = "closed"
      BY <1>22, <2>3 DEF SendTail, Failure
    <3> QED
      BY <1>9, <3>1
  <2>4. CASE ~outdead
    <3>1. pc' = "idle"
      BY <1>22, <2>4 DEF SendTail, Return
    <3>2. wrote' = wrote \o Leading(len) /\ wrote = Octets(msg, pos - msg)
      BY <2>1, <2>4 DEF Written, Progressed
    <3>3. wrote' = Octets(msg, MsgEnd[msg] - msg)
      BY <1>1, <1>2, <1>3, <2>1, <3>2
    <3>4. Whole'
      BY <2>1, <3>3 DEF Whole, Octets
    <3>5. pos' \in Starts \union {Last}
      BY <1>1, <1>3, <2>1, <2>2
    <3> QED
      BY <3>1, <3>4, <3>5 DEF Place, Progressed, Completed, InCall, Between
  <2> QED
    BY <2>3, <2>4 DEF BufInv, TypeOK
<1>23. CASE RelayChunk
  <2>1. pc = "relay" /\ InCall /\ pc' = "relayread" /\ msg' = msg
    BY <1>23 DEF RelayChunk, InCall
  <2>2. /\ len' = len - available /\ wrote' = (IF wr_ok THEN Written(Unsent) ELSE wrote)
        /\ wr_ok' = (wr_ok /\ ~outdead)
    BY <1>23 DEF RelayChunk, Remaining
  <2>3. pos' = pos + available
    BY <1>6, <1>23 DEF RelayChunk
  <2>4. Place'
    <3>1. msg \in Starts /\ msg \in Nat /\ msg <= pos /\ pos + len = MsgEnd[msg]
      BY <1>3, <2>1
    <3>2. msg' \in Starts /\ msg' <= pos' /\ pos' + len' = MsgEnd[msg']
      BY <1>1, <1>2, <2>1, <2>2, <2>3, <3>1
    <3> QED
      BY <2>1, <3>2 DEF Place, InCall, Between
  <2>5. Progressed'
    <3> SUFFICES ASSUME wr_ok' PROVE wrote' = Octets(msg', pos' - msg')
      BY <2>1 DEF Progressed
    <3>1. wr_ok /\ ~outdead
      BY <2>2
    <3>2. wrote' = wrote \o Unsent /\ wrote = Octets(msg, pos - msg)
      BY <2>1, <2>2, <3>1 DEF Written, Progressed
    <3> QED
      BY <1>1, <1>2, <1>3, <2>1, <2>3, <3>2
  <2> QED
    BY <2>1, <2>4, <2>5 DEF Completed
<1>24. CASE RelayRead
  <2>1. /\ pc = "relayread" /\ InCall /\ pc' = "relay" /\ Read(buf)
        /\ UNCHANGED <<start, msg, len, wr_ok, wrote>>
    BY <1>24 DEF RelayRead, InCall
  <2>2. pos' = pos
    BY <1>5, <2>1
  <2> QED
    BY <2>1, <2>2 DEF Place, Progressed, Completed, InCall, Between
<1>25. CASE RelayNothing
  BY <1>9, <1>25 DEF RelayNothing, Failure
<1>26. CASE RelayTail
  <2>1. /\ pc = "relay" /\ InCall /\ op = "relay" /\ UNCHANGED <<msg, op>> /\ len <= available
        /\ wrote' = (IF wr_ok THEN Written(Leading(len)) ELSE wrote)
    BY <1>26 DEF RelayTail, InCall, Calls
  <2>2. pos' = pos + len
    BY <1>7, <1>26 DEF RelayTail
  <2>3. CASE ~(wr_ok /\ ~outdead)
    <3>1. pc' = "closed"
      BY <1>26, <2>3 DEF RelayTail, Failure
    <3> QED
      BY <1>9, <3>1
  <2>4. CASE wr_ok /\ ~outdead
    <3>1. pc' = "idle"
      BY <1>26, <2>4 DEF RelayTail, Return
    <3>2. wrote' = wrote \o Leading(len) /\ wrote = Octets(msg, pos - msg)
      BY <2>1, <2>4 DEF Written, Progressed
    <3>3. wrote' = Octets(msg, MsgEnd[msg] - msg)
      BY <1>1, <1>2, <1>3, <2>1, <3>2
    <3>4. Whole'
      BY <2>1, <3>3 DEF Whole, Octets
    <3>5. pos' \in Starts \union {Last}
      BY <1>1, <1>3, <2>1, <2>2
    <3> QED
      BY <3>1, <3>4, <3>5 DEF Place, Progressed, Completed, InCall, Between
  <2> QED
    BY <2>3, <2>4
<1>27. CASE DiscardChunk
  <2>1. /\ pc = "discard" /\ InCall /\ pc' = "discardread" /\ msg' = msg
        /\ len' = len - available
    BY <1>27 DEF DiscardChunk, InCall, Remaining
  <2>2. pos' = pos + available
    BY <1>6, <1>27 DEF DiscardChunk
  <2>3. Place'
    <3>1. msg \in Starts /\ msg \in Nat /\ msg <= pos /\ pos + len = MsgEnd[msg]
      BY <1>3, <2>1
    <3>2. msg' \in Starts /\ msg' <= pos' /\ pos' + len' = MsgEnd[msg']
      BY <1>1, <1>2, <2>1, <2>2, <3>1
    <3> QED
      BY <2>1, <3>2 DEF Place, InCall, Between
  <2> QED
    BY <2>1, <2>3 DEF Progressed, Completed
<1>28. CASE DiscardRead
  <2>1. /\ pc = "discardread" /\ InCall /\ pc' = "discard" /\ Read(buf)
        /\ UNCHANGED <<start, msg, len>>
    BY <1>28 DEF DiscardRead, InCall
  <2>2. pos' = pos
    BY <1>5, <2>1
  <2> QED
    BY <2>1, <2>2 DEF Place, Progressed, Completed, InCall, Between
<1>29. CASE DiscardNothing
  <2>1. /\ UNCHANGED <<buf, start, nread, eof, op>> /\ op \in {"discard", "drain"}
        /\ pc = "discardread" /\ Discarded(0)
    BY <1>29 DEF DiscardNothing, Calls
  <2>2. available = 0 /\ eof
    BY <1>10, <1>29 DEF DiscardNothing
  <2>3. pc' \in {"idle", "drainrecv"}
    BY <2>1, DiscardedStep DEF BufInv
  <2> QED
    BY <1>4, <1>8, <2>1, <2>2, <2>3
<1>30. CASE DiscardTail
  <2>1. /\ pc = "discard" /\ InCall /\ op \in {"discard", "drain"} /\ op' = op
        /\ len <= available /\ Discarded(0)
    BY <1>30 DEF DiscardTail, InCall, Calls
  <2>2. pos' = pos + len
    BY <1>7, <1>30 DEF DiscardTail
  <2>3. pc' \in {"idle", "drainrecv"}
    BY <2>1, DiscardedStep DEF BufInv
  <2>4. pos' \in Starts \union {Last}
    BY <1>1, <1>3, <2>1, <2>2
  <2> QED
    BY <1>8, <2>1, <2>3, <2>4
<1>31. CASE DrainTurn
  <2>1. /\ UNCHANGED <<buf, start, nread, eof, op>> /\ Between /\ op = "drain"
    BY <1>31 DEF DrainTurn, Between, Calls
  <2>2. CASE available < Hdr
    <3>1. pc' \in {"idle", "drainrecv"}
      BY <1>1, <1>31, <2>2 DEF DrainTurn, Return
    <3> QED
      BY <1>4, <1>8, <2>1, <3>1 DEF Place
  <2>3. CASE ~(available < Hdr)
    <3>1. available # 0
      BY <1>1, <2>3
    <3>2. len' = size /\ msg' = buf[start + 1] /\ pc' = "discard"
      BY <1>31, <2>3, <3>1 DEF DrainTurn
    <3>3. pos \in Starts /\ buf[start + 1] = pos /\ pos + size = MsgEnd[pos]
      BY <1>1, <2>1, <2>3, CallBegins
    <3>4. pos' = pos
      BY <1>4, <2>1
    <3>5. Place'
      BY <1>2, <3>2, <3>3, <3>4 DEF Place, InCall, Between
    <3> QED
      BY <3>2, <3>5 DEF Progressed, Completed
  <2> QED
    BY <2>2, <2>3
<1>32. CASE DrainRecv
  <2>1. /\ UNCHANGED <<start, eof, op>> /\ Between /\ op = "drain"
        /\ pc' \in {"drain", "drainrecv"}
    BY <1>32 DEF DrainRecv, Between, Calls
  <2>2. CASE Read(buf)
    BY <1>5, <1>8, <2>1, <2>2 DEF Place
  <2>3. CASE UNCHANGED <<buf, nread>>
    BY <1>4, <1>8, <2>1, <2>3 DEF Place
  <2> QED
    BY <1>32, <2>2, <2>3 DEF DrainRecv
<1>33. CASE Resend \/ IsError
  <2>1. /\ UNCHANGED <<buf, start, nread, eof>> /\ Between /\ pc' = "idle"
        /\ op' \in {"resend", "iserror"}
    BY <1>33 DEF Resend, IsError, Begin, Return, Between
  <2> QED
    BY <1>4, <1>8, <2>1 DEF Place
<1>40. CASE SetFd
  <2>1. /\ UNCHANGED <<buf, start, nread>> /\ Between /\ pc' = "idle" /\ op' = "setfd"
    BY <1>40 DEF SetFd, Begin, Between
  <2>2. eof' = eof \/ nread \in Starts \union {Last}
    <3>1. PICK in, out \in BOOLEAN :
              /\ eof' = IF in THEN FALSE ELSE eof
              /\ dropped' = (dropped \/ (in /\ nread \notin Starts \union {Last}))
      BY <1>40, Zenon DEF SetFd
    <3>2. CASE in
      BY <3>1, <3>2, Zenon
    <3>3. CASE ~in
      BY <3>1, <3>3
    <3> QED
      BY <3>2, <3>3
  <2>3. pos \in Starts \union {Last} \/ (eof /\ available = 0)
    BY <2>1 DEF Place
  <2>4. available = 0 => pos = nread
    BY <1>2
  <2> QED
    BY <1>4, <1>8, <2>1, <2>2, <2>3, <2>4
<1>34. CASE Reset
  <2>1. /\ buf' = <<>> /\ start' = 0 /\ nread' = nread /\ eof' = eof
        /\ pc' = "idle" /\ op' = "reset"
        /\ pc = "idle" /\ available = 0
    BY <1>34 DEF Reset
  <2>2. available' = 0
    BY <2>1, EmptySeq DEF available
  <2>3. pos' = nread /\ pos = nread
    BY <1>2, <2>1, <2>2 DEF pos
  <2>4. nread \in Starts \union {Last} \/ eof
    BY <2>1, <2>3 DEF Place, Between
  <2> QED
    BY <1>8, <2>1, <2>2, <2>3, <2>4
<1>38. CASE ResendFails
  <2>1. pc = "idle" /\ pc' = "resent" /\ nread' = nread /\ eof' = eof /\ available = 0
    BY <1>38 DEF ResendFails, Begin
  <2>2. nread \in Starts \union {Last} \/ eof
    BY <1>2, <2>1 DEF Place, Between
  <2> QED
    BY <2>1, <2>2 DEF Place, Progressed, Completed, InCall, Between
<1>35. CASE HangUp
  <2>1. /\ UNCHANGED <<buf, start, nread, pc, op, rc, msg, len, wrote, outdead, wr_ok>>
        /\ ~eof
    BY <1>35 DEF HangUp
  <2> QED
    BY <1>4, <2>1 DEF Place, Progressed, Completed, Whole, InCall, Between
<1>36. CASE OutHangUp
  <2>1. /\ UNCHANGED <<buf, start, nread, pc, op, rc, msg, len, wrote, eof, wr_ok>>
        /\ ~outdead
    BY <1>36 DEF OutHangUp
  <2> QED
    BY <1>4, <2>1 DEF Place, Progressed, Completed, Whole, InCall, Between
<1>37. CASE UNCHANGED vars
  <2>1. UNCHANGED <<buf, start, nread, pc, op, rc, msg, len, wrote, eof, outdead, wr_ok>>
    BY <1>37 DEF vars
  <2> QED
    BY <1>4, <2>1 DEF Place, Progressed, Completed, Whole, InCall, Between
<1> QED
  BY <1>12, <1>13, <1>14, <1>16, <1>17, <1>18, <1>19, <1>20, <1>21, <1>22, <1>23, <1>24,
     <1>25, <1>26, <1>27, <1>28, <1>29, <1>30, <1>31, <1>32, <1>33, <1>34, <1>35, <1>36,
     <1>37, <1>38, <1>40 DEF Next, Progress

\* The frame is an invariant as long as no reset has thrown away octets.
LEMMA FrameInvariant == Spec => [](LengthsFit /\ ~dropped => FrameInv)
<1> DEFINE Frame == LengthsFit /\ ~dropped => FrameInv
<1>1. Init => Frame
  <2> SUFFICES ASSUME Init PROVE FrameInv
    OBVIOUS
  <2>1. available = 0
    BY EmptySeq DEF Init, available
  <2>2. pos = 0
    BY <2>1 DEF Init, pos
  <2> QED
    BY <2>2, MBufAssumption DEF Init, FrameInv, Place, Progressed, Completed, InCall, Between
<1>2. BufInv /\ Contiguous /\ Calls /\ Frame /\ [Next]_vars => Frame'
  <2> SUFFICES ASSUME BufInv, Contiguous, Calls, Frame, [Next]_vars, LengthsFit, ~dropped'
               PROVE  FrameInv'
    BY DEF LengthsFit
  <2>1. ~dropped
    <3>1. CASE Reset \/ ResendFails
      BY <3>1 DEF Reset, ResendFails
    <3>3. CASE SetFd
      BY <3>3, Zenon DEF SetFd
    <3>2. CASE ~(Reset \/ ResendFails \/ SetFd)
      <4>1. dropped' = dropped
        BY <3>2 DEF Next, Progress, Recv, RecvRead, RecvNothing, Send, Relay, Discard, Start,
                    SendChunk, SendNoCache, SendRead, SendNothing, SendTail, RelayChunk,
                    RelayRead, RelayNothing, RelayTail, DiscardChunk, DiscardRead,
                    DiscardNothing, DiscardTail, Drain, DrainTurn, DrainRecv, Resend, IsError,
                    HangUp, OutHangUp, vars
      <4> QED
        BY <4>1
    <3> QED
      BY <3>1, <3>2, <3>3
  <2> QED
    BY <2>1, FrameStep
<1> QED
  BY <1>1, <1>2, BufInvariant, CallsInvariant, StreamContiguous, PTL DEF Spec

\* Between two calls the octet at start is the first of a message: send, relay,
\* discard and drain each consume exactly one message, however the stream is
\* cut up by read.
THEOREM FramingKept == Spec => []Framed
<1>1. BufInv /\ Contiguous /\ (LengthsFit /\ ~dropped => FrameInv) => Framed
  <2> SUFFICES ASSUME BufInv, Contiguous, FrameInv, pc = "idle", available > 0
               PROVE  buf[start + 1] \in Starts
    BY DEF Framed, AtBoundary
  <2>1. available \in Nat /\ nread \in Nat /\ nread <= Last /\ Last \in Nat
    BY MBufAssumption, Parts DEF BufInv, TypeOK
  <2>2. available >= 1
    BY <2>1
  <2>3. pos \in Nat /\ pos + available = nread /\ buf[start + 1] = pos
    BY <2>2, Positions
  <2>4. pos \in Starts \union {Last}
    BY <2>1, <2>2 DEF FrameInv, Place, Between
  <2> QED
    BY <2>1, <2>2, <2>3, <2>4
<1> QED
  BY <1>1, BufInvariant, StreamContiguous, FrameInvariant, PTL

\* A relay, or a send from a peer that has not closed, that returns 0 has
\* written the whole message and nothing else.
THEOREM MessageWhole == Spec => []WholeMessage
<1>1. (LengthsFit /\ ~dropped => FrameInv) => WholeMessage
  BY DEF FrameInv, Completed, WholeMessage
<1> QED
  BY <1>1, FrameInvariant, PTL
=============================================================================
