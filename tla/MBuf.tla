-------------------------------- MODULE MBuf --------------------------------
(***************************************************************************)
(* The message buffer of src/msg.c: an MBUF moves protocol messages from   *)
(* one descriptor to another, reading as much as fits and acting on one    *)
(* message at a time.  pgr_mbuf_send keeps what it sent, first in the      *)
(* buffer in front of `start` and, once a message does not fit, in a       *)
(* temporary file (the cache), so that pgr_mbuf_resend can replay it.      *)
(*                                                                         *)
(* An octet is identified by its position in the input, which goes on      *)
(* being counted when another infd takes over; where the messages of the   *)
(* input begin and end is given by constants.  A step is the code between  *)
(* two system calls that may block or fail, so the peer can deliver any    *)
(* number of octets, or close, between any two steps.  A write on a socket *)
(* takes all octets or fails (descriptors are blocking and every thread    *)
(* blocks all signals).                                                    *)
(***************************************************************************)
EXTENDS Integers, Sequences

CONSTANTS Cap,      \* m->len: 16384 for fe, 4096 for be
          Hdr,      \* octets that make a message visible: 5
          LenMod,   \* the length word as u32 decodes it is taken modulo this: 2^24
          Last,     \* length of the input stream
          Starts,   \* the positions at which its messages begin
          MsgEnd,   \* the position after the last octet of each message
          Untyped,  \* the messages that begin with their length word, whose first
                    \*   octet is 0, as the startup messages of the protocol do
          Final,    \* the messages whose type octet pgr_mbuf_drain waits for ('Z')
          Refusals, \* the messages that are a 25006 ErrorResponse
          CodeAt    \* octets of an ErrorResponse that show its SQLSTATE field

Position == 0..(Last - 1)

ASSUME MBufAssumption ==
    /\ Hdr \in Nat \ {0} /\ Cap \in Nat /\ Cap >= Hdr
    /\ LenMod \in Nat \ {0} /\ Last \in Nat
    /\ Starts \subseteq Position
    /\ MsgEnd \in [Starts -> Nat]
    /\ 0 \in Starts \union {Last}
    /\ \A p \in Starts : /\ MsgEnd[p] >= p + Hdr
                         /\ MsgEnd[p] \in Starts \union {Last}
    /\ Untyped \subseteq Starts /\ \A p \in Untyped : MsgEnd[p] - p < LenMod
    /\ Final \subseteq Starts /\ Refusals \subseteq Starts
    /\ CodeAt \in Nat

VARIABLES
    buf,      \* the octets buf[0 .. fill)
    start,    \* m->start; m->fill is Len(buf)
    warm,     \* is there a cache file, m->cache >= 0?
    cache,    \* what it holds
    pc,       \* "idle" between calls, else where the call has got to
    len,      \* the local len: octets of the message still to be dealt with
    wr_ok,    \* the local wr_ok
    draining, \* is the discard in progress one of pgr_mbuf_drain?
    dtype,    \* the local type of pgr_mbuf_drain: is it `until`?
    rc,       \* what the last call returned
    \* the descriptors
    nread,    \* octets read from infd so far
    eof,      \* has the peer behind infd closed it?
    outdead,  \* has the peer behind outfd closed it?
    \* history
    op,       \* the last call made
    msg,      \* where the message begins that the call works on
    wrote,    \* octets the call has written to outfd
    sent,     \* octets passed by pgr_mbuf_send since the last reset
    dropped   \* has a reset thrown away octets that were not sent, or another
              \*   infd taken over in the middle of a message?

vars == <<buf, start, warm, cache, pc, len, wr_ok, draining, dtype, rc,
          nread, eof, outdead, op, msg, wrote, sent, dropped>>

available == Len(buf) - start

\* Mutant: the room is computed from what is available, not from fill.
RoomIgnoresStart == Cap - available

Room == Cap - Len(buf)

\* The octets in front of start, those behind it, the first n of those, and the
\* buffer when memmove has closed the gap they leave.
Kept   == SubSeq(buf, 1, start)
Unsent == SubSeq(buf, start + 1, Len(buf))

\* Mutants: the message is taken from the beginning of the buffer; the gap is
\* closed with the wrong octets.
LeadingFromZero(n) == SubSeq(buf, 1, n)
WithoutFromZero(n) == Kept \o SubSeq(buf, n + 1, Len(buf) - start)

Leading(n) == SubSeq(buf, start + 1, start + n)
Without(n) == Kept \o SubSeq(buf, start + n + 1, Len(buf))

\* The octets of message p in front of its length word, which does not count them.
TypeOctets(p) == IF p \in Untyped THEN 0 ELSE 1

\* Mutant: the type octet is not added to the length word.
sizeUntyped ==
    LET p == buf[start + 1]
    IN CASE available < Hdr                     -> 0
         [] available >= Hdr /\ p \in Starts    -> (MsgEnd[p] - p - TypeOctets(p)) % LenMod
         [] available >= Hdr /\ p \notin Starts -> Hdr

\* size(): the length word counts itself and the payload but not the type
\* octet, if there is one.  What a position decodes to that is not the beginning
\* of a message is of no interest: Framed says there is none.
size ==
    LET p == buf[start + 1]
    IN CASE available < Hdr                     -> 0
         [] available >= Hdr /\ p \in Starts    ->
              ((MsgEnd[p] - p - TypeOctets(p)) % LenMod) + TypeOctets(p)
         [] available >= Hdr /\ p \notin Starts -> Hdr

\* read(infd, buf + fill, len - fill) returns n > 0 octets ...
Read(b) ==
    \E n \in 1..Room :
        /\ ~eof /\ nread + n <= Last
        /\ buf' = b \o [i \in 1..n |-> nread + i - 1]
        /\ nread' = nread + n

\* ... or 0: the peer has closed, or there is no room to read into.
ReadsNothing == eof \/ Room = 0

Return(r)  == rc' = r /\ pc' = "idle"
\* The caller closes the connection when a call reports failure.
Failure(r) == rc' = r /\ pc' = "closed"

Begin(o) ==
    /\ pc = "idle"
    /\ op' = o

-----------------------------------------------------------------------------
(* pgr_mbuf_recv *)

Recv ==
    /\ Begin("recv")
    /\ IF available >= Hdr THEN Return(available) ELSE pc' = "recv" /\ UNCHANGED rc
    /\ UNCHANGED <<buf, start, warm, cache, len, wr_ok, draining, dtype, nread, eof, outdead,
                   msg, wrote, sent, dropped>>

RecvRead ==
    /\ pc = "recv"
    /\ Read(buf)
    /\ LET a == Len(buf') - start
       IN IF a >= Hdr THEN Return(a) ELSE UNCHANGED <<pc, rc>>
    /\ UNCHANGED <<start, warm, cache, len, wr_ok, draining, dtype, eof, outdead,
                   op, msg, wrote, sent, dropped>>

RecvNothing ==
    /\ pc = "recv" /\ ReadsNothing
    /\ Return(0)
    /\ UNCHANGED <<buf, start, warm, cache, len, wr_ok, draining, dtype, nread, eof, outdead,
                   op, msg, wrote, sent, dropped>>

-----------------------------------------------------------------------------
(* pgr_mbuf_send, pgr_mbuf_relay and pgr_mbuf_discard *)

\* The common prologue: without a visible message the call fails.  No caller
\* looks at what a discard returns.
Start(o) ==
    /\ Begin(o)
    /\ wrote' = <<>>
    /\ IF available < Hdr
       THEN /\ IF o = "discard" THEN Return(1) ELSE Failure(1)
            /\ UNCHANGED <<len, wr_ok, msg>>
       ELSE /\ len' = size
            /\ wr_ok' = TRUE
            /\ msg' = buf[start + 1]
            /\ pc' = o
            /\ UNCHANGED rc
    /\ draining' = FALSE
    /\ UNCHANGED <<buf, start, warm, cache, dtype, nread, eof, outdead, sent, dropped>>

Send    == Start("send")
Relay   == Start("relay")
Discard == Start("discard")

\* write(outfd, ...): nothing gets through to a peer that has closed.
Written(s) == IF outdead THEN wrote ELSE wrote \o s

\* Mutant: a whole buffer is taken off, not what was in it.
RemainingCap == len - Cap

\* len -= available(m)
Remaining == len - available

\* Mutant: what the buffer had kept is not moved to the cache.
WarmCacheEmpty == cache

\* The cache after it was warmed up, if need be.
WarmCache == IF warm THEN cache ELSE Kept

\* The message is longer than what is buffered.  A cold cache is warmed up: it
\* takes what the buffer had kept, and the rest moves to the front.  Then all
\* there is of the message goes to outfd and to the cache, and the buffer is
\* read into again.
SendChunk ==
    /\ pc = "send" /\ len > available
    /\ cache' = WarmCache \o Unsent
    /\ start' = IF warm THEN start ELSE 0
    /\ buf' = IF warm THEN Kept ELSE <<>>
    /\ warm' = TRUE
    /\ wrote' = Written(Unsent)
    /\ wr_ok' = ~outdead
    /\ sent' = sent \o Unsent
    /\ len' = Remaining
    /\ pc' = "sendread"
    /\ UNCHANGED <<draining, dtype, rc, nread, eof, outdead, op, msg, dropped>>

\* The temporary file cannot be made or written, by a chunk or by the tail.  Of
\* the buffer of a connection that is closed nothing matters any more.
SendNoCache ==
    /\ pc = "send" /\ (len > available \/ warm)
    /\ Failure(1)
    /\ UNCHANGED <<buf, start, warm, cache, len, wr_ok, draining, dtype, nread, eof, outdead,
                   op, msg, wrote, sent, dropped>>

SendRead ==
    /\ pc = "sendread"
    /\ Read(buf)
    /\ pc' = "send"
    /\ UNCHANGED <<start, warm, cache, len, wr_ok, draining, dtype, rc, eof, outdead,
                   op, msg, wrote, sent, dropped>>

\* The peer closed in the middle of the message: send returns what read did.
SendNothing ==
    /\ pc = "sendread" /\ ReadsNothing
    /\ Return(0)
    /\ UNCHANGED <<buf, start, warm, cache, len, wr_ok, draining, dtype, nread, eof, outdead,
                   op, msg, wrote, sent, dropped>>

\* The rest of the message is in the buffer: it stays there if there is no
\* cache, and else moves to the cache.
SendTail ==
    /\ pc = "send" /\ len <= available
    /\ IF warm
       THEN /\ cache' = cache \o Leading(len)
            /\ buf' = Without(len)
            /\ UNCHANGED start
       ELSE start' = start + len /\ UNCHANGED <<buf, cache>>
    /\ wrote' = Written(Leading(len))
    /\ wr_ok' = ~outdead
    /\ sent' = sent \o Leading(len)
    /\ len' = 0
    /\ IF wr_ok' THEN Return(0) ELSE Failure(1)
    /\ UNCHANGED <<warm, draining, dtype, nread, eof, outdead, op, msg, dropped>>

RelayChunk ==
    /\ pc = "relay" /\ len > available
    /\ wrote' = IF wr_ok THEN Written(Unsent) ELSE wrote
    /\ wr_ok' = (wr_ok /\ ~outdead)
    /\ len' = Remaining
    /\ buf' = Kept
    /\ pc' = "relayread"
    /\ UNCHANGED <<start, warm, cache, draining, dtype, rc, nread, eof, outdead, op, msg, sent, dropped>>

RelayRead ==
    /\ pc = "relayread"
    /\ Read(buf)
    /\ pc' = "relay"
    /\ UNCHANGED <<start, warm, cache, len, wr_ok, draining, dtype, rc, eof, outdead,
                   op, msg, wrote, sent, dropped>>

RelayNothing ==
    /\ pc = "relayread" /\ ReadsNothing
    /\ Failure(1)
    /\ UNCHANGED <<buf, start, warm, cache, len, wr_ok, draining, dtype, nread, eof, outdead,
                   op, msg, wrote, sent, dropped>>

RelayTail ==
    /\ pc = "relay" /\ len <= available
    /\ wrote' = IF wr_ok THEN Written(Leading(len)) ELSE wrote
    /\ wr_ok' = (wr_ok /\ ~outdead)
    /\ buf' = Without(len)
    /\ len' = 0
    /\ IF wr_ok' THEN Return(0) ELSE Failure(1)
    /\ UNCHANGED <<start, warm, cache, draining, dtype, nread, eof, outdead, op, msg, sent, dropped>>

DiscardChunk ==
    /\ pc = "discard" /\ len > available
    /\ len' = Remaining
    /\ buf' = Kept
    /\ pc' = "discardread"
    /\ UNCHANGED <<start, warm, cache, wr_ok, draining, dtype, rc, nread, eof, outdead,
                   op, msg, wrote, sent, dropped>>

DiscardRead ==
    /\ pc = "discardread"
    /\ Read(buf)
    /\ pc' = "discard"
    /\ UNCHANGED <<start, warm, cache, len, wr_ok, draining, dtype, rc, eof, outdead,
                   op, msg, wrote, sent, dropped>>

\* Where pgr_mbuf_drain goes on after a discard, whatever that returned.
Discarded(r) ==
    CASE draining /\ ~dtype -> pc' = "drainrecv" /\ UNCHANGED rc
      [] draining /\ dtype  -> Return(0)
      [] ~draining          -> Return(r)

DiscardNothing ==
    /\ pc = "discardread" /\ ReadsNothing
    /\ Discarded(0)
    /\ UNCHANGED <<buf, start, warm, cache, len, wr_ok, draining, dtype, nread, eof, outdead,
                   op, msg, wrote, sent, dropped>>

DiscardTail ==
    /\ pc = "discard" /\ len <= available
    /\ buf' = Without(len)
    /\ len' = 0
    /\ Discarded(0)
    /\ UNCHANGED <<start, warm, cache, wr_ok, draining, dtype, nread, eof, outdead,
                   op, msg, wrote, sent, dropped>>

-----------------------------------------------------------------------------
(* pgr_mbuf_drain *)

\* Its one caller calls it when pgr_mbuf_iserror has recognised a refusal.
Drain ==
    /\ Begin("drain") /\ op = "iserror" /\ rc = 0
    /\ draining' = TRUE
    /\ pc' = "drain"
    /\ UNCHANGED <<buf, start, warm, cache, len, wr_ok, dtype, rc, nread, eof, outdead,
                   msg, wrote, sent, dropped>>

\* One turn: the type octet of the first message, then its discard, which does
\* nothing as long as the message is not visible.
DrainTurn ==
    /\ pc = "drain"
    /\ IF available = 0
       THEN Return(-1) /\ UNCHANGED <<len, dtype, msg>>
       ELSE /\ dtype' = (buf[start + 1] \in Final)
            /\ msg' = buf[start + 1]
            /\ IF available < Hdr
               THEN /\ UNCHANGED len
                    /\ IF dtype' THEN Return(0) ELSE pc' = "drainrecv" /\ UNCHANGED rc
               ELSE len' = size /\ pc' = "discard" /\ UNCHANGED rc
    /\ UNCHANGED <<buf, start, warm, cache, wr_ok, draining, nread, eof, outdead,
                   op, wrote, sent, dropped>>

\* The pgr_mbuf_recv of a turn, whose result is not looked at.
DrainRecv ==
    /\ pc = "drainrecv"
    /\ \/ /\ available >= Hdr
          /\ pc' = "drain"
          /\ UNCHANGED <<buf, nread>>
       \/ /\ available < Hdr
          /\ Read(buf)
          /\ pc' = IF Len(buf') - start >= Hdr THEN "drain" ELSE pc
       \/ /\ available < Hdr /\ ReadsNothing
          /\ pc' = "drain"
          /\ UNCHANGED <<buf, nread>>
    /\ UNCHANGED <<start, warm, cache, len, wr_ok, draining, dtype, rc, eof, outdead,
                   op, msg, wrote, sent, dropped>>

-----------------------------------------------------------------------------
(* pgr_mbuf_resend, pgr_mbuf_reset, pgr_mbuf_setfd, pgr_mbuf_iserror *)

\* Mutant: the cache only.
ReplayCache == cache

\* The cache, then what the buffer has kept.
Replay == cache \o Kept

\* start runs from 0 up to where it was again.
Resend ==
    /\ Begin("resend") /\ (~outdead \/ Replay = <<>>)
    /\ wrote' = Replay
    /\ Return(0)
    /\ UNCHANGED <<buf, start, warm, cache, len, wr_ok, draining, dtype, nread, eof, outdead,
                   msg, sent, dropped>>

\* A write fails and start stays at 0, which makes what was kept look like it
\* was never sent.  The one caller ignores the result, and resets.
ResendFails ==
    /\ Begin("resend") /\ outdead /\ Replay # <<>>
    /\ start' = 0
    /\ wrote' = <<>>
    /\ rc' = 1 /\ pc' = "resent"
    /\ dropped' = (dropped \/ available # 0)
    /\ UNCHANGED <<buf, warm, cache, len, wr_ok, draining, dtype, nread, eof, outdead, msg, sent>>

Reset ==
    /\ pc \in {"idle", "resent"}
    /\ op' = "reset" /\ pc' = "idle"
    /\ buf' = <<>> /\ start' = 0 /\ warm' = FALSE /\ cache' = <<>>
    /\ sent' = <<>> /\ wrote' = <<>>
    /\ dropped' = (dropped \/ (pc = "idle" /\ available # 0))
    /\ UNCHANGED <<len, wr_ok, draining, dtype, rc, nread, eof, outdead, msg>>

\* A new infd, a new outfd or both: the peer behind it is alive.  What was read
\* of the old infd stays in the buffer, and what was not is never read.
SetFd ==
    /\ Begin("setfd")
    /\ \E in, out \in BOOLEAN :
          /\ eof' = IF in THEN FALSE ELSE eof
          /\ outdead' = IF out THEN FALSE ELSE outdead
          /\ dropped' = (dropped \/ (in /\ nread \notin Starts \union {Last}))
    /\ wrote' = <<>>
    /\ UNCHANGED <<buf, start, warm, cache, pc, len, wr_ok, draining, dtype, rc, nread,
                   msg, sent>>

\* Is the first message a 25006 ErrorResponse?  Only buffered octets count.
IsError ==
    /\ Begin("iserror") /\ available >= Hdr
    /\ msg' = buf[start + 1]
    /\ Return(IF buf[start + 1] \in Refusals /\ available >= CodeAt THEN 0 ELSE 1)
    /\ UNCHANGED <<buf, start, warm, cache, len, wr_ok, draining, dtype, nread, eof, outdead,
                   wrote, sent, dropped>>

-----------------------------------------------------------------------------
(* The peers (external). *)

HangUp ==
    /\ ~eof /\ eof' = TRUE
    /\ UNCHANGED <<buf, start, warm, cache, pc, len, wr_ok, draining, dtype, rc, nread, outdead,
                   op, msg, wrote, sent, dropped>>

OutHangUp ==
    /\ ~outdead /\ outdead' = TRUE
    /\ UNCHANGED <<buf, start, warm, cache, pc, len, wr_ok, draining, dtype, rc, nread, eof,
                   op, msg, wrote, sent, dropped>>

Init ==
    /\ buf = <<>> /\ start = 0 /\ warm = FALSE /\ cache = <<>>
    /\ pc = "idle" /\ len = 0 /\ wr_ok = TRUE /\ draining = FALSE /\ dtype = FALSE
    /\ rc = 0 /\ nread = 0 /\ eof = FALSE /\ outdead = FALSE
    /\ op = "reset" /\ msg = 0 /\ wrote = <<>> /\ sent = <<>> /\ dropped = FALSE

\* The steps of a call in progress.
Progress ==
    \/ RecvRead \/ RecvNothing
    \/ SendChunk \/ SendNoCache \/ SendRead \/ SendNothing \/ SendTail
    \/ RelayChunk \/ RelayRead \/ RelayNothing \/ RelayTail
    \/ DiscardChunk \/ DiscardRead \/ DiscardNothing \/ DiscardTail
    \/ DrainTurn \/ DrainRecv

Next ==
    \/ Recv \/ Send \/ Relay \/ Discard \/ Drain
    \/ Resend \/ ResendFails \/ Reset \/ SetFd \/ IsError
    \/ Progress
    \/ HangUp \/ OutHangUp

Spec == Init /\ [][Next]_vars

\* A call in progress goes on, and a peer that has sent everything closes.
FairSpec == Spec /\ WF_vars(Progress) /\ WF_vars(nread = Last /\ HangUp)

-----------------------------------------------------------------------------
(* Properties. *)

Steps == {"idle", "closed", "recv", "send", "sendread", "relay", "relayread",
          "discard", "discardread", "drain", "drainrecv", "resent"}

Ops == {"recv", "send", "relay", "discard", "drain", "resend", "reset", "setfd", "iserror"}

\* The variables of an MBUF and of a call on it hold values of their types.
TypeOK ==
    /\ buf \in Seq(Position) /\ start \in Nat /\ warm \in BOOLEAN /\ cache \in Seq(Position)
    /\ pc \in Steps /\ len \in Nat /\ rc \in Int
    /\ wr_ok \in BOOLEAN /\ draining \in BOOLEAN /\ dtype \in BOOLEAN
    /\ nread \in 0..Last /\ eof \in BOOLEAN /\ outdead \in BOOLEAN
    /\ op \in Ops /\ msg \in Nat /\ wrote \in Seq(Position) /\ sent \in Seq(Position)
    /\ dropped \in BOOLEAN

\* start and fill stay inside the allocation, whatever mix of calls is made,
\* and a warm cache leaves nothing in front of start.
Bounded ==
    /\ start <= Len(buf) /\ Len(buf) <= Cap
    /\ warm => start = 0
    /\ ~warm => cache = <<>>

\* What a resend would replay, the cache and then what the buffer has kept, is
\* exactly what has been sent since the last reset: warming up the cache in the
\* middle of a message, and relays in between, lose, repeat and reorder nothing.
\* (A failed resend spoils this until the reset that follows it.)
ReplayExact == pc # "resent" => Replay = sent

\* The octets behind start are the next ones of the stream, up to the last one
\* read: send, relay and discard remove a prefix and nothing else.
Contiguous ==
    pc # "resent" =>
      \A i \in 1..(Len(buf) - start) : buf[start + i] = nread - (Len(buf) - start) + i - 1

\* The length word of every message of the stream survives u32.
LengthsFit == \A p \in Starts : MsgEnd[p] - p <= LenMod

\* Between two calls the octet at start is the first of a message.
AtBoundary == pc = "idle" /\ available > 0 => buf[start + 1] \in Starts

\* Framing is never lost in a stream of messages below the limit of u32, typed
\* or not, as long as no reset has thrown away octets and no other infd taken
\* over in the middle of a message.
Framed == LengthsFit /\ ~dropped => AtBoundary

\* Framing is never lost, whatever the length of the messages.
FramedAlways == ~dropped => AtBoundary

\* The call has written the whole message, and nothing else.
Whole == wrote = [i \in 1..(MsgEnd[msg] - msg) |-> msg + i - 1]

\* A relay or a send that returns 0 has written the whole message, and nothing
\* else, also when it had to read in the middle of it (a send: if the peer has
\* not closed).
WholeMessage ==
    LengthsFit /\ ~dropped /\ pc = "idle" /\ rc = 0 =>
        /\ op = "relay" => Whole
        /\ op = "send" /\ ~eof => Whole

\* A send that returns 0 has written the whole message.
SendWhole ==
    LengthsFit /\ ~dropped /\ pc = "idle" /\ rc = 0 /\ op = "send" => Whole

\* A resend to a live peer writes exactly what was sent since the last reset.
ResendWrites == pc = "idle" /\ op = "resend" /\ rc = 0 => wrote = sent

\* recv returns 0 only when the peer has closed.
RecvZeroMeansEof == pc = "idle" /\ op = "recv" /\ rc = 0 => eof

\* iserror recognises every 25006 ErrorResponse it is asked about.
RefusalSeen == pc = "idle" /\ op = "iserror" /\ msg \in Refusals => rc = 0

\* Every drain ends once the peer has closed.
DrainEnds == pc \in {"drain", "drainrecv", "discard", "discardread"} ~>
                 pc \in {"idle", "closed"}
=============================================================================
