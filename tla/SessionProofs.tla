---------------------------- MODULE SessionProofs ----------------------------
(***************************************************************************)
(* Proofs about one session, for sessions of any length and peers that     *)
(* vanish at any time.  Of every mix of requests, however pipelined:       *)
(* handle_client looks at a message only when it has one, and the writer   *)
(* executes the writes of a session in the order the client issued them    *)
(* and none of them twice, although every redirect replays all that fe has *)
(* kept.  Of sessions that only read, or only write one request at a time: *)
(* the client cannot tell pgrouter from one node, and nothing of a request *)
(* is left behind.                                                         *)
(***************************************************************************)
EXTENDS Session, SequenceTheorems, TLAPS

\* The queries a backend knows.
Queries == {"read", "write", "bad", "begin", "start", "commit", "copy", "copyfail"}

\* The messages that travel from the client to a backend, and back.
Ask == {m \in [t : {"Q", "P", "H", "S", "X", "d", "c", "f"}, id : 0..MaxReqs,
               k : AllKinds \union {"sync", "data", "fail", "done"}] :
            m.t = "Q" => m.k \in Queries}

Reply == [t : {"C", "Z", "E", "G", "1"}, id : 0..MaxReqs, k : {"ok", "25006", "other"}]

WorkerTyped ==
    /\ pc \in Step /\ in_txn \in BOOLEAN
    /\ befd \in Backend /\ feout \in Backend /\ bein \in Backend
    /\ pc \in {"send", "copysend"} => unsent # <<>>
    /\ pc \in {"dispatch", "drain"} => bebuf # <<>>

AsksTyped ==
    /\ saved \in Seq(Ask) /\ unsent \in Seq(Ask) /\ c2r \in Seq(Ask)
    /\ r2b \in [Backend -> Seq(Ask)]

RepliesTyped ==
    /\ bebuf \in Seq(Reply) /\ r2c \in Seq(Reply)
    /\ b2r \in [Backend -> Seq(Reply)]

ClientTyped ==
    /\ mix \in Mixes
    /\ reqs \in Seq(Kinds) /\ Len(reqs) <= MaxReqs /\ zs \in 0..Len(reqs)
    /\ ans \in [1..MaxReqs -> SUBSET [id : 0..MaxReqs, k : {"ok", "25006", "other"}]]
    /\ noise \in BOOLEAN

ServersTyped ==
    /\ up \in [Peer -> BOOLEAN]
    /\ mode \in [Backend -> {"idle", "copy", "skip"}]
    /\ tx \in [Backend -> {"none", "open", "failed"}]
    /\ copying \in [Backend -> 0..MaxReqs]
    /\ execs \in [Backend -> Seq(1..MaxReqs)]

Typed == WorkerTyped /\ AsksTyped /\ RepliesTyped /\ ClientTyped /\ ServersTyped

\* A message that opens a request.
Opens(m) == m.t \in {"Q", "P"}

\* Every request that q opens comes after request n.
Ahead(n, q) == \A i \in 1..Len(q) : Opens(q[i]) => n < q[i].id

\* The requests that q opens come in the order of their numbers, ...
Sorted(q) ==
    \A i, j \in 1..Len(q) : i < j /\ Opens(q[i]) /\ Opens(q[j]) => q[i].id < q[j].id

\* ... after those that p opens, ...
Before(p, q) == \A i \in 1..Len(p) : Opens(p[i]) => Ahead(p[i].id, q)

\* ... and are among the first n.
UpTo(n, q) == \A i \in 1..Len(q) : Opens(q[i]) => q[i].id \in 1..n

\* No message of q is a BEGIN.
Plain(q) == \A i \in 1..Len(q) : q[i].k # "begin"

NoBegin == \A n \in 1..Len(reqs) : reqs[n] # "begin"

\* A session without BEGIN sends new requests to the reader only, and has
\* nothing saved while it sends to the writer.
Routed ==
    /\ in_txn = FALSE /\ Plain(c2r) /\ Plain(unsent)
    /\ pc \in {"recvfe", "send"} => feout = "reader"
    /\ feout = "writer" => saved = <<>>

\* The requests on their way to the writer: w is with the writer, r saved, u not
\* sent yet and c still with the client.
Line(w, r, u, c) ==
    /\ Sorted(w) /\ Sorted(r) /\ Sorted(u) /\ Sorted(c)
    /\ Before(w, r) /\ Before(w, u) /\ Before(w, c)
    /\ Before(r, u) /\ Before(r, c) /\ Before(u, c)

LineUpTo(n, w, r, u, c) == UpTo(n, w) /\ UpTo(n, r) /\ UpTo(n, u) /\ UpTo(n, c)

LineAhead(n, w, r, u, c) == Ahead(n, w) /\ Ahead(n, r) /\ Ahead(n, u) /\ Ahead(n, c)

InLine ==
    /\ Line(r2b["writer"], saved, unsent, c2r)
    /\ LineUpTo(Len(reqs), r2b["writer"], saved, unsent, c2r)

\* Request n has reached the writer, and no message that would open it again is
\* under way.
Past(n) ==
    /\ n \in 1..Len(reqs)
    /\ LineAhead(n, r2b["writer"], saved, unsent, c2r)

Executed ==
    /\ \A i \in 1..Len(execs["writer"]) : Past(execs["writer"][i])
    /\ copying["writer"] # 0 =>
          /\ Past(copying["writer"])
          /\ \A i \in 1..Len(execs["writer"]) : execs["writer"][i] < copying["writer"]
    /\ \A i, j \in 1..Len(execs["writer"]) :
          i < j => execs["writer"][i] < execs["writer"][j]

IInv == Typed /\ (NoBegin => Routed /\ InLine /\ Executed)
-----------------------------------------------------------------------------
(* Sequences of messages. *)

\* The first message, and the others.
LEMMA FirstTaken ==
    ASSUME NEW S, NEW q \in Seq(S), q # <<>>
    PROVE  /\ Head(q) \in S /\ Tail(q) \in Seq(S) /\ Len(q) \in Nat \ {0}
           /\ Head(q) = q[1] /\ Len(Tail(q)) = Len(q) - 1
           /\ \A i \in 1..Len(Tail(q)) : Tail(q)[i] = q[i + 1] /\ i + 1 \in 1..Len(q)
OBVIOUS

\* A sequence cut in two.
LEMMA Cut ==
    ASSUME NEW S, NEW q \in Seq(S), NEW n \in 1..Len(q)
    PROVE  /\ SubSeq(q, 1, n) \in Seq(S) /\ SubSeq(q, n + 1, Len(q)) \in Seq(S)
           /\ Len(SubSeq(q, 1, n)) = n /\ Len(SubSeq(q, n + 1, Len(q))) = Len(q) - n
           /\ \A i \in 1..n : SubSeq(q, 1, n)[i] = q[i]
           /\ \A i \in 1..(Len(q) - n) : SubSeq(q, n + 1, Len(q))[i] = q[n + i]
           /\ SubSeq(q, 1, n) # <<>>
<1>1. Len(q) \in Nat /\ n \in Nat /\ n >= 1 /\ n <= Len(q) OBVIOUS
<1>2. /\ SubSeq(q, 1, n) \in Seq(S) /\ Len(SubSeq(q, 1, n)) = n
      /\ \A i \in 1..n : SubSeq(q, 1, n)[i] = q[i]
  BY <1>1
<1>3. /\ SubSeq(q, n + 1, Len(q)) \in Seq(S) /\ Len(SubSeq(q, n + 1, Len(q))) = Len(q) - n
      /\ \A i \in 1..(Len(q) - n) : SubSeq(q, n + 1, Len(q))[i] = q[n + i]
  BY <1>1
<1> QED BY <1>1, <1>2, <1>3

\* Two sequences, one after the other.
LEMMA Glued ==
    ASSUME NEW S, NEW p \in Seq(S), NEW q \in Seq(S)
    PROVE  /\ p \o q \in Seq(S) /\ Len(p \o q) = Len(p) + Len(q)
           /\ \A i \in 1..Len(p \o q) :
                 (p \o q)[i] = IF i <= Len(p) THEN p[i] ELSE q[i - Len(p)]
           /\ Len(p) \in Nat /\ Len(q) \in Nat
OBVIOUS

\* Properties that a sequence has when the two it was made of have them.
LEMMA GluedOrder ==
    ASSUME NEW p \in Seq(Ask), NEW q \in Seq(Ask)
    PROVE  /\ Sorted(p) /\ Sorted(q) /\ Before(p, q) => Sorted(p \o q)
           /\ \A n \in Nat : Ahead(n, p) /\ Ahead(n, q) => Ahead(n, p \o q)
           /\ \A x \in Seq(Ask) : Before(x, p) /\ Before(x, q) => Before(x, p \o q)
           /\ \A x \in Seq(Ask) : Before(p, x) /\ Before(q, x) => Before(p \o q, x)
           /\ \A n \in Nat : UpTo(n, p) /\ UpTo(n, q) => UpTo(n, p \o q)
           /\ Plain(p) /\ Plain(q) => Plain(p \o q)
<1> DEFINE g == p \o q
<1>1. /\ g \in Seq(Ask) /\ Len(g) = Len(p) + Len(q) /\ Len(p) \in Nat /\ Len(q) \in Nat
      /\ \A i \in 1..Len(g) : g[i] = IF i <= Len(p) THEN p[i] ELSE q[i - Len(p)]
  BY Glued
<1> HIDE DEF g
<1>2. \A i \in 1..Len(g) : \/ i \in 1..Len(p) /\ g[i] = p[i]
                           \/ i - Len(p) \in 1..Len(q) /\ i > Len(p) /\ g[i] = q[i - Len(p)]
  BY <1>1
<1>3. ASSUME Sorted(p), Sorted(q), Before(p, q) PROVE Sorted(g)
  <2> SUFFICES ASSUME NEW i \in 1..Len(g), NEW j \in 1..Len(g), i < j, Opens(g[i]), Opens(g[j])
               PROVE  g[i].id < g[j].id
    BY DEF Sorted
  <2>1. CASE i \in 1..Len(p) /\ g[i] = p[i] /\ j \in 1..Len(p) /\ g[j] = p[j]
    BY <1>3, <2>1 DEF Sorted
  <2>2. CASE /\ i \in 1..Len(p) /\ g[i] = p[i]
             /\ j - Len(p) \in 1..Len(q) /\ g[j] = q[j - Len(p)]
    BY <1>3, <2>2 DEF Before, Ahead
  <2>3. CASE /\ i - Len(p) \in 1..Len(q) /\ g[i] = q[i - Len(p)]
             /\ j - Len(p) \in 1..Len(q) /\ g[j] = q[j - Len(p)]
    <3>1. i - Len(p) < j - Len(p) BY <1>1
    <3> QED BY <1>3, <2>3, <3>1 DEF Sorted
  <2> QED BY <1>1, <1>2, <2>1, <2>2, <2>3
<1>4. \A n \in Nat : Ahead(n, p) /\ Ahead(n, q) => Ahead(n, g) BY <1>2 DEF Ahead
<1>5. ASSUME NEW x \in Seq(Ask), Before(x, p), Before(x, q) PROVE Before(x, g)
  <2>1. \A i \in 1..Len(x) : x[i] \in Ask /\ x[i].id \in Nat BY SessionAssumption DEF Ask
  <2> QED BY <1>4, <1>5, <2>1 DEF Before
<1>6. \A x \in Seq(Ask) : Before(p, x) /\ Before(q, x) => Before(g, x) BY <1>2 DEF Before
<1>7. \A n \in Nat : UpTo(n, p) /\ UpTo(n, q) => UpTo(n, g) BY <1>2 DEF UpTo
<1>8. Plain(p) /\ Plain(q) => Plain(g) BY <1>2 DEF Plain
<1> QED BY <1>3, <1>4, <1>5, <1>6, <1>7, <1>8 DEF g

\* Every message of r is one of q, and they come in the same order.
Part(r, q) ==
    \E d \in Nat : \A i \in 1..Len(r) : i + d \in 1..Len(q) /\ r[i] = q[i + d]

\* What holds of a sequence holds of a part of it.
LEMMA PartOrder ==
    ASSUME NEW q \in Seq(Ask), NEW r \in Seq(Ask), Part(r, q)
    PROVE  /\ Sorted(q) => Sorted(r)
           /\ \A n \in Nat : Ahead(n, q) => Ahead(n, r)
           /\ \A x \in Seq(Ask) : Before(x, q) => Before(x, r)
           /\ \A x \in Seq(Ask) : Before(q, x) => Before(r, x)
           /\ \A n \in Nat : UpTo(n, q) => UpTo(n, r)
           /\ Plain(q) => Plain(r)
<1>1. PICK d \in Nat : \A i \in 1..Len(r) : i + d \in 1..Len(q) /\ r[i] = q[i + d] BY DEF Part
<1>2. Len(r) \in Nat /\ Len(q) \in Nat OBVIOUS
<1>3. ASSUME Sorted(q) PROVE Sorted(r)
  <2>1. \A i, j \in 1..Len(r) : i < j => i + d < j + d BY <1>2
  <2> QED BY <1>1, <1>3, <2>1 DEF Sorted
<1>4. \A n \in Nat : Ahead(n, q) => Ahead(n, r) BY <1>1 DEF Ahead
<1>5. ASSUME NEW x \in Seq(Ask), Before(x, q) PROVE Before(x, r)
  <2>1. \A i \in 1..Len(x) : x[i] \in Ask /\ x[i].id \in Nat BY SessionAssumption DEF Ask
  <2> QED BY <1>4, <1>5, <2>1 DEF Before
<1>6. \A x \in Seq(Ask) : Before(q, x) => Before(r, x) BY <1>1 DEF Before
<1>7. \A n \in Nat : UpTo(n, q) => UpTo(n, r) BY <1>1 DEF UpTo
<1>8. Plain(q) => Plain(r) BY <1>1 DEF Plain
<1> QED BY <1>3, <1>4, <1>5, <1>6, <1>7, <1>8

\* The parts the worker and the backends make.
LEMMA Parts ==
    ASSUME NEW q \in Seq(Ask)
    PROVE  /\ q # <<>> => Part(Tail(q), q)
           /\ \A n \in 1..Len(q) : /\ Part(SubSeq(q, 1, n), q)
                                   /\ Part(SubSeq(q, n + 1, Len(q)), q)
           /\ Part(<<>>, q)
<1>1. ASSUME q # <<>> PROVE Part(Tail(q), q)
  <2>1. \A i \in 1..Len(Tail(q)) : Tail(q)[i] = q[i + 1] /\ i + 1 \in 1..Len(q)
    BY <1>1, FirstTaken
  <2> QED BY <2>1 DEF Part
<1>2. ASSUME NEW n \in 1..Len(q) PROVE Part(SubSeq(q, 1, n), q) /\ Part(SubSeq(q, n + 1, Len(q)), q)
  <2> DEFINE a == SubSeq(q, 1, n)
             b == SubSeq(q, n + 1, Len(q))
  <2>1. /\ Len(a) = n /\ Len(b) = Len(q) - n
        /\ \A i \in 1..n : a[i] = q[i]
        /\ \A i \in 1..(Len(q) - n) : b[i] = q[n + i]
    BY <1>2, Cut
  <2> HIDE DEF a, b
  <2>2. Len(q) \in Nat /\ n \in Nat /\ n <= Len(q) OBVIOUS
  <2>3. \A i \in 1..Len(a) : i + 0 \in 1..Len(q) /\ a[i] = q[i + 0] BY <2>1, <2>2
  <2>4. \A i \in 1..Len(b) : i + n \in 1..Len(q) /\ b[i] = q[i + n] BY <2>1, <2>2
  <2>5. Part(a, q) BY <2>3 DEF Part
  <2>6. Part(b, q) BY <2>2, <2>4 DEF Part
  <2> QED BY <2>5, <2>6 DEF a, b
<1>3. Part(<<>>, q)
  <2>1. \A i \in 1..Len(<<>>) : i + 0 \in 1..Len(q) /\ <<>>[i] = q[i + 0] OBVIOUS
  <2> QED BY <2>1 DEF Part
<1> QED BY <1>1, <1>2, <1>3
-----------------------------------------------------------------------------
(* Types. *)

Reacts(b, m) == \E reply \in Seq(Reply), md \in {"idle", "copy", "skip"},
                   t \in {"none", "open", "failed"}, ex \in 0..MaxReqs :
    /\ Serve(b, m, reply, md, t, ex)
    /\ ex # 0 => md # "copy" /\ (\/ ex = m.id /\ Opens(m)
                                 \/ ex = copying[b])
    /\ md = "copy" => mode[b] = "copy" \/ Opens(m)

\* The replies of a backend.
LEMMA ReplyTypes ==
    ASSUME NEW n \in 0..MaxReqs
    PROVE  /\ <<>> \in Seq(Reply) /\ <<Ready(n)>> \in Seq(Reply) /\ Done(n) \in Seq(Reply)
           /\ \A c \in {"25006", "other"} :
                 Fail(n, c) \in Seq(Reply) /\ <<Msg("E", n, c)>> \in Seq(Reply)
           /\ <<Msg("G", n, "ok")>> \in Seq(Reply) /\ <<Msg("1", n, "ok")>> \in Seq(Reply)
<1>1. \A t \in {"C", "Z", "E", "G", "1"}, k \in {"ok", "25006", "other"} : Msg(t, n, k) \in Reply
  BY DEF Msg, Reply
<1>2. /\ Msg("Z", n, "ok") \in Reply /\ Msg("C", n, "ok") \in Reply /\ Msg("G", n, "ok") \in Reply
      /\ Msg("1", n, "ok") \in Reply
      /\ \A c \in {"25006", "other"} : Msg("E", n, c) \in Reply
  BY <1>1
<1>3. \A x, y \in Reply : <<x>> \in Seq(Reply) /\ <<x, y>> \in Seq(Reply) OBVIOUS
<1>4. <<>> \in Seq(Reply) OBVIOUS
<1> QED BY <1>2, <1>3, <1>4 DEF Ready, Done, Fail

\* What a backend makes of a query.
LEMMA QueryServed ==
    ASSUME Typed, NEW b \in Backend, NEW m \in Ask, m.t = "Q", BackendQuery(b, m)
    PROVE  Reacts(b, m)
<1>1. m.k \in Queries /\ m.id \in 0..MaxReqs /\ Opens(m) BY DEF Ask, Opens
<1>2. tx[b] \in {"none", "open", "failed"} BY DEF Typed, ServersTyped
<1>3. \/ \E c \in {"25006", "other"}, t \in {"none", "open", "failed"} :
            Serve(b, m, Fail(m.id, c), "idle", t, 0)
      \/ \E t \in {"none", "open", "failed"}, ex \in {0, m.id} :
            Serve(b, m, Done(m.id), "idle", t, ex)
      \/ Serve(b, m, <<Msg("G", m.id, "ok")>>, "copy", tx[b], 0)
  BY <1>1, <1>2, Zenon DEF BackendQuery, Queries
<1>4. CASE \E c \in {"25006", "other"}, t \in {"none", "open", "failed"} :
              Serve(b, m, Fail(m.id, c), "idle", t, 0)
  BY <1>1, <1>4, ReplyTypes, SessionAssumption DEF Reacts
<1>5. CASE \E t \in {"none", "open", "failed"}, ex \in {0, m.id} :
              Serve(b, m, Done(m.id), "idle", t, ex)
  BY <1>1, <1>5, ReplyTypes, SessionAssumption DEF Reacts
<1>6. CASE Serve(b, m, <<Msg("G", m.id, "ok")>>, "copy", tx[b], 0)
  <2>1. <<Msg("G", m.id, "ok")>> \in Seq(Reply) /\ 0 \in 0..MaxReqs
    BY <1>1, ReplyTypes, SessionAssumption
  <2> QED BY <1>1, <1>2, <1>6, <2>1 DEF Reacts
<1> QED BY <1>3, <1>4, <1>5, <1>6

\* A backend consumes one message and reacts to it, or goes away.
LEMMA Served ==
    ASSUME Typed, NEW b \in Backend, BackendStep(b)
    PROVE  /\ up[b] /\ r2b[b] # <<>>
           /\ r2b' = [r2b EXCEPT ![b] = Tail(@)]
           /\ UNCHANGED <<worker, c2r, r2c, client>>
           /\ \/ up' = [up EXCEPT ![b] = FALSE] /\ UNCHANGED <<b2r, servers>>
              \/ UNCHANGED up /\ Reacts(b, Head(r2b[b]))
<1> DEFINE m == Head(r2b[b])
<1>1. r2b[b] \in Seq(Ask) /\ r2b[b] # <<>> BY DEF Typed, AsksTyped, BackendStep
<1>2. m \in Ask BY <1>1, FirstTaken
<1>3. /\ up[b] /\ r2b' = [r2b EXCEPT ![b] = Tail(@)]
      /\ UNCHANGED <<worker, c2r, r2c, client>>
  BY DEF BackendStep
<1> HIDE DEF m
<1>4. /\ m.id \in 0..MaxReqs /\ tx[b] \in {"none", "open", "failed"}
      /\ mode[b] \in {"idle", "copy", "skip"} /\ copying[b] \in 0..MaxReqs /\ 0 \in 0..MaxReqs
  BY <1>2, SessionAssumption DEF Ask, Typed, ServersTyped
<1>a. ASSUME NEW reply \in Seq(Reply), NEW md \in {"idle", "copy", "skip"},
             NEW ex \in 0..MaxReqs, Serve(b, m, reply, md, tx[b], ex),
             ex # 0 => md # "copy" /\ (\/ ex = m.id /\ Opens(m)
                                       \/ ex = copying[b]),
             md = "copy" => mode[b] = "copy" \/ Opens(m)
      PROVE  Reacts(b, m)
  BY <1>4, <1>a, Zenon DEF Reacts
<1>5. ASSUME NEW reply \in Seq(Reply), NEW md \in {"idle", "copy", "skip"},
             Serve(b, m, reply, md, tx[b], 0), md = "copy" => mode[b] = "copy"
      PROVE  Reacts(b, m)
  BY <1>4, <1>5, <1>a
<1>6. ASSUME mode[b] = "copy", m.t # "X" PROVE UNCHANGED up /\ Reacts(b, m)
  <2>1. UNCHANGED up /\ \/ Serve(b, m, <<>>, "copy", tx[b], 0)
                        \/ Serve(b, m, Done(m.id), "idle", tx[b], copying[b])
                        \/ Serve(b, m, Fail(m.id, "other"), "idle", tx[b], 0)
    BY <1>6, Zenon DEF BackendStep, m
  <2>2. /\ <<>> \in Seq(Reply) /\ Done(m.id) \in Seq(Reply) /\ Fail(m.id, "other") \in Seq(Reply)
    BY <1>4, ReplyTypes
  <2>3. CASE Serve(b, m, Done(m.id), "idle", tx[b], copying[b])
    BY <1>4, <1>a, <2>1, <2>2, <2>3
  <2> QED BY <1>5, <1>6, <2>1, <2>2, <2>3
<1>7. ASSUME mode[b] = "skip", m.t # "X" PROVE UNCHANGED up /\ Reacts(b, m)
  <2>1. UNCHANGED up /\ \/ Serve(b, m, <<Ready(m.id)>>, "idle", tx[b], 0)
                        \/ Serve(b, m, <<>>, "skip", tx[b], 0)
    BY <1>7, Zenon DEF BackendStep, m
  <2>2. <<>> \in Seq(Reply) /\ <<Ready(m.id)>> \in Seq(Reply) BY <1>4, ReplyTypes
  <2> QED BY <1>5, <2>1, <2>2
<1>8. ASSUME mode[b] = "idle", m.t # "X" PROVE UNCHANGED up /\ Reacts(b, m)
  <2>1. UNCHANGED up /\ \/ m.t = "Q" /\ BackendQuery(b, m)
                        \/ Serve(b, m, <<Msg("E", m.id, "25006")>>, "skip", tx[b], 0)
                        \/ /\ m.t = "P"
                           /\ Serve(b, m, <<Msg("1", m.id, "ok")>>, "idle", tx[b],
                                    IF m.k = "write" THEN m.id ELSE 0)
                        \/ Serve(b, m, <<Ready(m.id)>>, "idle", tx[b], 0)
                        \/ Serve(b, m, <<>>, "idle", tx[b], 0)
    BY <1>8, Zenon DEF BackendStep, m
  <2>2. /\ <<>> \in Seq(Reply) /\ <<Ready(m.id)>> \in Seq(Reply)
        /\ <<Msg("E", m.id, "25006")>> \in Seq(Reply) /\ <<Msg("1", m.id, "ok")>> \in Seq(Reply)
    BY <1>4, ReplyTypes
  <2>3. CASE m.t = "Q" /\ BackendQuery(b, m) BY <1>2, <2>1, <2>3, QueryServed
  <2>4. CASE m.t = "P" /\ Serve(b, m, <<Msg("1", m.id, "ok")>>, "idle", tx[b],
                                IF m.k = "write" THEN m.id ELSE 0)
    <3>1. Opens(m) BY <2>4 DEF Opens
    <3> DEFINE ex == IF m.k = "write" THEN m.id ELSE 0
    <3>2. ex \in 0..MaxReqs /\ (ex # 0 => ex = m.id) BY <1>4
    <3>3. Serve(b, m, <<Msg("1", m.id, "ok")>>, "idle", tx[b], ex) BY <2>4
    <3> HIDE DEF ex
    <3> QED BY <1>a, <2>1, <2>2, <3>1, <3>2, <3>3
  <2> QED BY <1>5, <2>1, <2>2, <2>3, <2>4
<1>9. CASE m.t = "X"
  <2>1. up' = [up EXCEPT ![b] = FALSE] /\ UNCHANGED <<b2r, servers>>
    BY <1>9, Zenon DEF BackendStep, m
  <2> QED BY <1>1, <1>3, <2>1
<1> QED BY <1>1, <1>3, <1>4, <1>6, <1>7, <1>8, <1>9 DEF m

\* The messages of a client.
LEMMA OpeningTypes ==
    ASSUME NEW k \in AllKinds, NEW n \in 1..MaxReqs
    PROVE  /\ Opening(k, n) \in Seq(Ask)
           /\ \A i \in 1..Len(Opening(k, n)) :
                 /\ Opening(k, n)[i].id = n
                 /\ Opening(k, n)[i].k = "begin" => k = "begin"
                 /\ i > 1 => ~Opens(Opening(k, n)[i])
<1>1. /\ \A x \in Ask : <<x>> \in Seq(Ask) /\ Len(<<x>>) = 1 /\ <<x>>[1] = x
      /\ \A x, y \in Ask : /\ <<x, y>> \in Seq(Ask) /\ Len(<<x, y>>) = 2
                           /\ <<x, y>>[1] = x /\ <<x, y>>[2] = y
  OBVIOUS
<1>2. /\ \A t \in {"P", "H", "S", "X"},
            kk \in {"read", "write", "sync", "flush", "quit"} : Msg(t, n, kk) \in Ask
      /\ k \in Queries => Msg("Q", n, k) \in Ask
  BY DEF Msg, Ask, AllKinds, Queries
<1>3. \A t, kk : Msg(t, n, kk).t = t /\ Msg(t, n, kk).id = n /\ Msg(t, n, kk).k = kk BY DEF Msg
<1>4. CASE k = "xread"
  <2>1. Opening(k, n) = <<Msg("P", n, "read"), Msg("S", n, "sync")>> BY <1>4 DEF Opening
  <2> QED BY <1>1, <1>2, <1>3, <2>1 DEF Opens
<1>5. CASE k = "xwrite"
  <2>1. Opening(k, n) = <<Msg("P", n, "write"), Msg("S", n, "sync")>> BY <1>5 DEF Opening
  <2> QED BY <1>1, <1>2, <1>3, <2>1 DEF Opens
<1>6. CASE k = "flush"
  <2>1. Opening(k, n) = <<Msg("P", n, "read"), Msg("H", n, "flush")>> BY <1>6 DEF Opening
  <2> QED BY <1>1, <1>2, <1>3, <2>1 DEF Opens
<1>7. CASE k = "quit"
  <2>1. Opening(k, n) = <<Msg("X", n, "quit")>> BY <1>7 DEF Opening
  <2> QED BY <1>1, <1>2, <1>3, <2>1 DEF Opens
<1>8. CASE k \in Queries
  <2>1. Opening(k, n) = <<Msg("Q", n, k)>> BY <1>8 DEF Opening, Queries
  <2> QED BY <1>1, <1>2, <1>3, <1>8, <2>1 DEF Opens
<1> QED BY <1>4, <1>5, <1>6, <1>7, <1>8 DEF AllKinds, Queries

LEMMA FollowUpTypes ==
    ASSUME NEW m \in Reply, NEW n \in 1..MaxReqs
    PROVE  /\ FollowUp(m, n) \in Seq(Ask)
           /\ \A i \in 1..Len(FollowUp(m, n)) :
                 ~Opens(FollowUp(m, n)[i]) /\ FollowUp(m, n)[i].k # "begin"
<1>1. /\ \A x \in Ask : <<x>> \in Seq(Ask) /\ Len(<<x>>) = 1 /\ <<x>>[1] = x
      /\ \A x, y \in Ask : /\ <<x, y>> \in Seq(Ask) /\ Len(<<x, y>>) = 2
                           /\ <<x, y>>[1] = x /\ <<x, y>>[2] = y
      /\ <<>> \in Seq(Ask) /\ Len(<<>>) = 0
  OBVIOUS
<1>2. /\ Msg("d", n, "data") \in Ask /\ Msg("f", n, "fail") \in Ask
      /\ Msg("c", n, "done") \in Ask /\ Msg("S", n, "sync") \in Ask
  BY DEF Msg, Ask
<1>3. \A t, kk : Msg(t, n, kk).t = t /\ Msg(t, n, kk).k = kk BY DEF Msg
<1>4. \/ FollowUp(m, n) = <<Msg("d", n, "data"), Msg("f", n, "fail")>>
      \/ FollowUp(m, n) = <<Msg("d", n, "data"), Msg("c", n, "done")>>
      \/ FollowUp(m, n) = <<Msg("S", n, "sync")>>
      \/ FollowUp(m, n) = <<>>
  BY DEF FollowUp
<1>5. CASE FollowUp(m, n) = <<Msg("d", n, "data"), Msg("f", n, "fail")>>
  BY <1>1, <1>2, <1>3, <1>5 DEF Opens
<1>6. CASE FollowUp(m, n) = <<Msg("d", n, "data"), Msg("c", n, "done")>>
  BY <1>1, <1>2, <1>3, <1>6 DEF Opens
<1>7. CASE FollowUp(m, n) = <<Msg("S", n, "sync")>>
  BY <1>1, <1>2, <1>3, <1>7 DEF Opens
<1>8. CASE FollowUp(m, n) = <<>> BY <1>1, <1>8
<1> QED BY <1>4, <1>5, <1>6, <1>7, <1>8

LEMMA ClientSendTyped ==
    ASSUME Typed, NEW k \in Kinds, Same(ClientSend(k)) PROVE Typed'
<1>1. k \in AllKinds /\ Kinds' = Kinds BY SessionAssumption DEF Kinds, Mix, Typed, ClientTyped, Same
<1>2. Len(reqs) \in Nat /\ Len(reqs) + 1 \in 1..MaxReqs
  BY SessionAssumption DEF Typed, ClientTyped, Same, ClientSend
<1>3. WorkerTyped' BY DEF Typed, WorkerTyped, Same, ClientSend, worker
<1>4. AsksTyped'
  <2>1. c2r' \in Seq(Ask) BY <1>1, <1>2, OpeningTypes, Glued DEF Typed, AsksTyped, Same, ClientSend
  <2> QED BY <2>1 DEF Typed, AsksTyped, Same, ClientSend, worker
<1>5. RepliesTyped' BY DEF Typed, RepliesTyped, Same, ClientSend, worker
<1>6. ClientTyped'
  <2>1. reqs' \in Seq(Kinds) /\ Len(reqs') = Len(reqs) + 1
    BY DEF Typed, ClientTyped, Same, ClientSend
  <2> QED BY <1>1, <1>2, <2>1 DEF Typed, ClientTyped, Same, ClientSend
<1>7. ServersTyped' BY DEF Typed, ServersTyped, Same, ClientSend, servers
<1> QED BY <1>3, <1>4, <1>5, <1>6, <1>7 DEF Typed

LEMMA ClientRecvTyped ==
    ASSUME Typed, Same(ClientRecv) PROVE Typed'
<1> DEFINE m == Head(r2c)
           n == zs + 1
<1>1. m \in Reply /\ Tail(r2c) \in Seq(Reply)
  BY FirstTaken DEF Typed, RepliesTyped, Same, ClientRecv
<1>2. Kinds' = Kinds BY DEF Kinds, Same
<1>3. Awaiting(n) => n \in 1..MaxReqs
  BY SessionAssumption DEF Typed, ClientTyped, Awaiting
<1>4. WorkerTyped' BY DEF Typed, WorkerTyped, Same, ClientRecv, worker
<1>5. AsksTyped'
  <2>1. Awaiting(n) => c2r \o FollowUp(m, n) \in Seq(Ask)
    BY <1>1, <1>3, FollowUpTypes, Glued DEF Typed, AsksTyped
  <2>2. c2r' \in Seq(Ask) BY <2>1 DEF Typed, AsksTyped, Same, ClientRecv
  <2> QED BY <2>2 DEF Typed, AsksTyped, Same, ClientRecv, worker
<1>6. RepliesTyped' BY <1>1 DEF Typed, RepliesTyped, Same, ClientRecv, worker
<1>7. ClientTyped'
  <2>1. [id |-> m.id, k |-> m.k] \in [id : 0..MaxReqs, k : {"ok", "25006", "other"}]
    BY <1>1 DEF Reply
  <2>2. CASE Awaiting(n)
    <3>1. /\ ans' = [ans EXCEPT ![n] = @ \union {[id |-> m.id, k |-> m.k]}]
          /\ zs' = (IF m.t = "Z" THEN n ELSE zs) /\ UNCHANGED <<noise, reqs, mix>>
      BY <2>2 DEF Same, ClientRecv
    <3>2. ans' \in [1..MaxReqs -> SUBSET [id : 0..MaxReqs, k : {"ok", "25006", "other"}]]
      BY <1>3, <2>1, <2>2, <3>1 DEF Typed, ClientTyped
    <3>3. zs' \in 0..Len(reqs) BY <2>2, <3>1 DEF Typed, ClientTyped, Awaiting
    <3> QED BY <1>2, <3>1, <3>2, <3>3 DEF Typed, ClientTyped
  <2>3. CASE ~Awaiting(n) BY <1>2, <2>3 DEF Typed, ClientTyped, Same, ClientRecv
  <2> QED BY <2>2, <2>3
<1>8. ServersTyped' BY DEF Typed, ServersTyped, Same, ClientRecv, servers
<1> QED BY <1>4, <1>5, <1>6, <1>7, <1>8 DEF Typed

LEMMA VanishTyped ==
    ASSUME Typed, NEW p \in Peer, Same(Vanish(p)) PROVE Typed'
<1>1. Kinds' = Kinds BY DEF Kinds, Same
<1>2. WorkerTyped' BY DEF Typed, WorkerTyped, Same, Vanish, worker
<1>3. AsksTyped' BY DEF Typed, AsksTyped, Same, Vanish, worker
<1>4. RepliesTyped' BY DEF Typed, RepliesTyped, Same, Vanish, worker
<1>5. ClientTyped' BY <1>1 DEF Typed, ClientTyped, Same, Vanish, client
<1>6. ServersTyped' BY DEF Typed, ServersTyped, Same, Vanish, servers
<1> QED BY <1>2, <1>3, <1>4, <1>5, <1>6 DEF Typed

LEMMA BackendTyped ==
    ASSUME Typed, NEW b \in Backend, Same(BackendStep(b)) PROVE Typed'
<1>1. Kinds' = Kinds BY DEF Kinds, Same
<1>2. /\ r2b[b] # <<>> /\ r2b' = [r2b EXCEPT ![b] = Tail(@)] /\ UNCHANGED mix
      /\ UNCHANGED <<worker, c2r, r2c, client>>
      /\ \/ up' = [up EXCEPT ![b] = FALSE] /\ UNCHANGED <<b2r, servers>>
         \/ UNCHANGED up /\ Reacts(b, Head(r2b[b]))
  BY Served DEF Same
<1>3. /\ b \in Peer /\ r2b[b] \in Seq(Ask) /\ Head(r2b[b]) \in Ask /\ Tail(r2b[b]) \in Seq(Ask)
  BY <1>2, FirstTaken DEF Typed, AsksTyped, Peer
<1>4. WorkerTyped' BY <1>2 DEF Typed, WorkerTyped, worker
<1>5. AsksTyped' BY <1>2, <1>3 DEF Typed, AsksTyped, worker
<1>6. ClientTyped' BY <1>1, <1>2 DEF Typed, ClientTyped, client
<1>7. CASE up' = [up EXCEPT ![b] = FALSE] /\ UNCHANGED <<b2r, servers>>
  <2>1. RepliesTyped' BY <1>2, <1>7 DEF Typed, RepliesTyped, worker
  <2>2. ServersTyped' BY <1>2, <1>3, <1>7 DEF Typed, ServersTyped, servers
  <2> QED BY <1>4, <1>5, <1>6, <2>1, <2>2 DEF Typed
<1>8. CASE UNCHANGED up /\ Reacts(b, Head(r2b[b]))
  <2> DEFINE m == Head(r2b[b])
  <2>1. PICK reply \in Seq(Reply), md \in {"idle", "copy", "skip"},
             t \in {"none", "open", "failed"}, ex \in 0..MaxReqs : Serve(b, m, reply, md, t, ex)
    BY <1>8 DEF Reacts
  <2>2. m.id \in 0..MaxReqs /\ 0 \in 0..MaxReqs BY <1>3, SessionAssumption DEF Ask
  <2> HIDE DEF m
  <2>3. RepliesTyped'
    <3>1. b2r[b] \o reply \in Seq(Reply) BY Glued DEF Typed, RepliesTyped
    <3> QED BY <1>2, <2>1, <3>1 DEF Typed, RepliesTyped, worker, Serve
  <2>4. ServersTyped'
    <3>1. mode' \in [Backend -> {"idle", "copy", "skip"}]
      BY <2>1 DEF Typed, ServersTyped, Serve
    <3>2. tx' \in [Backend -> {"none", "open", "failed"}]
      BY <2>1 DEF Typed, ServersTyped, Serve
    <3>3. copying' \in [Backend -> 0..MaxReqs]
      BY <2>1, <2>2 DEF Typed, ServersTyped, Serve
    <3>4. execs' \in [Backend -> Seq(1..MaxReqs)]
      <4>1. ex # 0 => Append(execs[b], ex) \in Seq(1..MaxReqs)
        BY SessionAssumption DEF Typed, ServersTyped
      <4>2. (IF ex # 0 THEN Append(execs[b], ex) ELSE execs[b]) \in Seq(1..MaxReqs)
        BY <4>1 DEF Typed, ServersTyped
      <4> QED BY <2>1, <4>2 DEF Typed, ServersTyped, Serve
    <3> QED BY <1>8, <3>1, <3>2, <3>3, <3>4 DEF Typed, ServersTyped
  <2> QED BY <1>4, <1>5, <1>6, <2>3, <2>4 DEF Typed
<1> QED BY <1>2, <1>7, <1>8

\* The messages the worker passes to a backend.
LEMMA ToBackendTyped ==
    ASSUME Typed, NEW q \in [Backend -> Seq(Ask)], NEW b \in Backend, NEW ms \in Seq(Ask)
    PROVE  /\ ToBackend(q, b, ms) \in [Backend -> Seq(Ask)]
           /\ \A c \in Backend : c # b => ToBackend(q, b, ms)[c] = q[c]
           /\ ToBackend(q, b, ms)[b] = q[b] \o ms \/ ToBackend(q, b, ms)[b] = q[b]
<1>1. q[b] \o ms \in Seq(Ask) BY Glued
<1> QED BY <1>1 DEF ToBackend

\* The worker thread leaves its peers alone.
LEMMA WorkerFrame ==
    ASSUME Worker
    PROVE  UNCHANGED <<up, client, servers>>
BY DEF Worker, Top, RecvFe, RecvFrontend, FrontendGone, Send, SendFails, RecvBe, RecvBackend,
       BackendGone, Relay, RelayFails, Drain, DrainRecv, DrainGone, Redirect, CopyRecv, CopyRelay,
       client, servers

\* pgr_mbuf_recv(fe)
LEMMA RecvFrontendTyped ==
    ASSUME Typed, NEW from \in Step, NEW to \in {"send", "copysend"}, RecvFrontend(from, to)
    PROVE  WorkerTyped' /\ AsksTyped' /\ RepliesTyped'
<1>1. unsent' \in Seq(Ask) /\ c2r' \in Seq(Ask) /\ unsent' # <<>>
  <2>1. CASE unsent # <<>> /\ UNCHANGED <<unsent, c2r>> BY <2>1 DEF Typed, AsksTyped
  <2>2. CASE c2r # <<>> /\ \E n \in Portions(c2r) : /\ unsent' = SubSeq(c2r, 1, n)
                                                    /\ c2r' = SubSeq(c2r, n + 1, Len(c2r))
    <3>1. PICK n \in 1..Len(c2r) : /\ unsent' = SubSeq(c2r, 1, n)
                                   /\ c2r' = SubSeq(c2r, n + 1, Len(c2r))
      BY <2>2 DEF Portions
    <3>2. c2r \in Seq(Ask) BY DEF Typed, AsksTyped
    <3> QED BY <3>1, <3>2, Cut
  <2> QED BY <2>1, <2>2 DEF RecvFrontend
<1>2. WorkerTyped' BY <1>1 DEF Typed, WorkerTyped, RecvFrontend, Step
<1>3. AsksTyped' BY <1>1 DEF Typed, AsksTyped, RecvFrontend
<1>4. RepliesTyped' BY DEF Typed, RepliesTyped, RecvFrontend
<1> QED BY <1>2, <1>3, <1>4

\* pgr_mbuf_recv(be)
LEMMA RecvBackendTyped ==
    ASSUME Typed, NEW from \in Step, NEW to \in {"dispatch", "drain"}, RecvBackend(from, to)
    PROVE  WorkerTyped' /\ AsksTyped' /\ RepliesTyped'
<1>1. bebuf' \in Seq(Reply) /\ b2r' \in [Backend -> Seq(Reply)] /\ bebuf' # <<>>
  <2>1. CASE bebuf # <<>> /\ UNCHANGED <<bebuf, b2r>> BY <2>1 DEF Typed, RepliesTyped
  <2>2. CASE /\ b2r[bein] # <<>>
             /\ \E n \in Portions(b2r[bein]) :
                   /\ bebuf' = SubSeq(b2r[bein], 1, n)
                   /\ b2r' = [b2r EXCEPT ![bein] = SubSeq(@, n + 1, Len(@))]
    <3>1. PICK n \in Portions(b2r[bein]) :
                   /\ bebuf' = SubSeq(b2r[bein], 1, n)
                   /\ b2r' = [b2r EXCEPT ![bein] = SubSeq(b2r[bein], n + 1, Len(b2r[bein]))]
      BY <2>2
    <3>2. b2r[bein] \in Seq(Reply) BY DEF Typed, WorkerTyped, RepliesTyped
    <3>3. /\ SubSeq(b2r[bein], 1, n) \in Seq(Reply) /\ SubSeq(b2r[bein], 1, n) # <<>>
          /\ SubSeq(b2r[bein], n + 1, Len(b2r[bein])) \in Seq(Reply)
      BY <3>1, <3>2, Cut DEF Portions
    <3> QED BY <3>1, <3>3 DEF Typed, RepliesTyped
  <2> QED BY <2>1, <2>2 DEF RecvBackend
<1>2. WorkerTyped' BY <1>1 DEF Typed, WorkerTyped, RecvBackend, Step
<1>3. AsksTyped' BY DEF Typed, AsksTyped, RecvBackend
<1>4. RepliesTyped' BY <1>1 DEF Typed, RepliesTyped, RecvBackend
<1> QED BY <1>2, <1>3, <1>4

LEMMA WorkerTypedNext ==
    ASSUME Typed, Worker
    PROVE  WorkerTyped' /\ AsksTyped' /\ RepliesTyped'
<1>a. "recvfe" \in Step /\ "copy" \in Step /\ "recvbe" \in Step /\ "drainrecv" \in Step BY DEF Step
<1>1. CASE Top
  <2>1. WorkerTyped' BY <1>1 DEF Typed, WorkerTyped, Top, Step, Backend
  <2> QED BY <1>1, <2>1 DEF Typed, AsksTyped, RepliesTyped, Top
<1>2. CASE RecvFe BY <1>2, <1>a, RecvFrontendTyped DEF RecvFe
<1>3. CASE FrontendGone
  <2>1. WorkerTyped' BY <1>3 DEF Typed, WorkerTyped, FrontendGone, Shutdown, Step
  <2> QED BY <1>3, <2>1 DEF Typed, AsksTyped, RepliesTyped, FrontendGone, Shutdown
<1>4. CASE Send
  <2>1. unsent \in Seq(Ask) /\ unsent # <<>> BY <1>4 DEF Typed, WorkerTyped, AsksTyped, Send
  <2>2. Head(unsent) \in Ask /\ Tail(unsent) \in Seq(Ask) BY <2>1, FirstTaken
  <2> DEFINE m == Head(unsent)
             x == <<Msg("X", 0, "quit")>>
  <2>3. <<m>> \in Seq(Ask) BY <2>2
  <2>4. x \in Seq(Ask)
    <3>1. Msg("X", 0, "quit") \in Ask BY SessionAssumption DEF Msg, Ask, AllKinds
    <3> QED BY <3>1
  <2>5. feout' \in Backend /\ befd' \in Backend /\ in_txn' \in BOOLEAN
    BY <1>4 DEF Typed, WorkerTyped, Send, Backend
  <2>6. /\ saved' = Append(saved, m) /\ unsent' = Tail(unsent)
        /\ UNCHANGED <<bein, bebuf, c2r, r2c, b2r>>
        /\ pc' \in {"done", "recvbe", "recvfe"}
        /\ \/ r2b' = ToBackend(r2b, feout', <<m>>)
           \/ r2b' = ToBackend(ToBackend(ToBackend(r2b, feout', <<m>>), "reader", x), "writer", x)
    BY <1>4 DEF Send
  <2>7. r2b' \in [Backend -> Seq(Ask)]
    <3>1. r2b \in [Backend -> Seq(Ask)] BY DEF Typed, AsksTyped
    <3>2. "reader" \in Backend /\ "writer" \in Backend BY DEF Backend
    <3> HIDE DEF m, x
    <3>3. ToBackend(r2b, feout', <<m>>) \in [Backend -> Seq(Ask)]
      BY <2>3, <2>5, <3>1, ToBackendTyped
    <3>4. ToBackend(ToBackend(r2b, feout', <<m>>), "reader", x) \in [Backend -> Seq(Ask)]
      BY <2>4, <3>2, <3>3, ToBackendTyped
    <3>5. ToBackend(ToBackend(ToBackend(r2b, feout', <<m>>), "reader", x), "writer", x)
              \in [Backend -> Seq(Ask)]
      BY <2>4, <3>2, <3>4, ToBackendTyped
    <3> QED BY <2>6, <3>3, <3>5
  <2>8. saved' \in Seq(Ask) BY <2>2, <2>6 DEF Typed, AsksTyped
  <2>9. WorkerTyped' BY <2>5, <2>6 DEF Typed, WorkerTyped, Step
  <2> QED BY <2>2, <2>6, <2>7, <2>8, <2>9 DEF Typed, AsksTyped, RepliesTyped
<1>5. CASE SendFails
  <2>1. WorkerTyped' BY <1>5 DEF Typed, WorkerTyped, SendFails, Shutdown, Step
  <2> QED BY <1>5, <2>1 DEF Typed, AsksTyped, RepliesTyped, SendFails, Shutdown
<1>6. CASE RecvBe BY <1>6, <1>a, RecvBackendTyped DEF RecvBe
<1>7. CASE BackendGone
  <2>1. WorkerTyped' BY <1>7 DEF Typed, WorkerTyped, BackendGone, Shutdown, Step
  <2> QED BY <1>7, <2>1 DEF Typed, AsksTyped, RepliesTyped, BackendGone, Shutdown
<1>8. CASE Relay
  <2>1. bebuf \in Seq(Reply) /\ bebuf # <<>> BY <1>8 DEF Typed, WorkerTyped, RepliesTyped, Relay
  <2>2. Head(bebuf) \in Reply /\ Tail(bebuf) \in Seq(Reply) BY <2>1, FirstTaken
  <2>3. /\ r2c' = (IF up["client"] THEN Append(r2c, Head(bebuf)) ELSE r2c)
        /\ bebuf' = Tail(bebuf) /\ pc' \in {"copy", "top", "recvbe"}
        /\ UNCHANGED <<in_txn, befd, feout, bein, saved, unsent, c2r, r2b, b2r>>
    BY <1>8 DEF Relay
  <2>4. r2c' \in Seq(Reply) BY <2>2, <2>3 DEF Typed, RepliesTyped
  <2>5. WorkerTyped' BY <2>3 DEF Typed, WorkerTyped, Step
  <2> QED BY <2>2, <2>3, <2>4, <2>5 DEF Typed, AsksTyped, RepliesTyped
<1>9. CASE RelayFails
  <2>1. WorkerTyped' BY <1>9 DEF Typed, WorkerTyped, RelayFails, Shutdown, Step
  <2> QED BY <1>9, <2>1 DEF Typed, AsksTyped, RepliesTyped, RelayFails, Shutdown
<1>10. CASE Drain
  <2>1. bebuf \in Seq(Reply) /\ bebuf # <<>> BY <1>10 DEF Typed, WorkerTyped, RepliesTyped, Drain
  <2>2. Tail(bebuf) \in Seq(Reply) BY <2>1, FirstTaken
  <2>3. WorkerTyped' BY <1>10 DEF Typed, WorkerTyped, Drain, Step
  <2> QED BY <1>10, <2>2, <2>3 DEF Typed, AsksTyped, RepliesTyped, Drain
<1>11. CASE DrainRecv BY <1>11, <1>a, RecvBackendTyped DEF DrainRecv
<1>12. CASE DrainGone
  <2>1. WorkerTyped' BY <1>12 DEF Typed, WorkerTyped, DrainGone, Step
  <2> QED BY <1>12, <2>1 DEF Typed, AsksTyped, RepliesTyped, DrainGone
<1>13. CASE Redirect
  <2>1. r2b' \in [Backend -> Seq(Ask)]
    BY <1>13, ToBackendTyped DEF Typed, AsksTyped, Redirect, Backend
  <2>2. WorkerTyped' BY <1>13 DEF Typed, WorkerTyped, Redirect, Step, Backend
  <2>3. saved' \in Seq(Ask) /\ unsent' \in Seq(Ask) BY <1>13 DEF Redirect
  <2> QED BY <1>13, <2>1, <2>2, <2>3 DEF Typed, AsksTyped, RepliesTyped, Redirect
<1>14. CASE CopyRecv BY <1>14, <1>a, RecvFrontendTyped DEF CopyRecv
<1>15. CASE CopyRelay
  <2>1. unsent \in Seq(Ask) /\ unsent # <<>> BY <1>15 DEF Typed, WorkerTyped, AsksTyped, CopyRelay
  <2>2. Head(unsent) \in Ask /\ Tail(unsent) \in Seq(Ask) BY <2>1, FirstTaken
  <2>3. <<Head(unsent)>> \in Seq(Ask) BY <2>2
  <2>4. /\ r2b' = ToBackend(r2b, feout, <<Head(unsent)>>) /\ unsent' = Tail(unsent)
        /\ pc' \in {"recvbe", "copy"}
        /\ UNCHANGED <<in_txn, befd, feout, bein, saved, bebuf, c2r, r2c, b2r>>
    BY <1>15 DEF CopyRelay
  <2>5. r2b' \in [Backend -> Seq(Ask)]
    BY <2>3, <2>4, ToBackendTyped DEF Typed, WorkerTyped, AsksTyped
  <2>6. WorkerTyped' BY <2>4 DEF Typed, WorkerTyped, Step
  <2> QED BY <2>2, <2>4, <2>5, <2>6 DEF Typed, AsksTyped, RepliesTyped
<1> QED BY <1>1, <1>2, <1>3, <1>4, <1>5, <1>6, <1>7, <1>8, <1>9, <1>10, <1>11, <1>12, <1>13,
           <1>14, <1>15 DEF Worker

LEMMA TypedNext ==
    ASSUME Typed, [Next]_vars PROVE Typed'
<1>1. CASE \E k \in Kinds : Same(ClientSend(k)) BY <1>1, ClientSendTyped
<1>2. CASE Same(ClientRecv) BY <1>2, ClientRecvTyped
<1>3. CASE \E p \in Peer : Same(Vanish(p)) BY <1>3, VanishTyped
<1>4. CASE \E b \in Backend : Same(BackendStep(b)) BY <1>4, BackendTyped
<1>5. CASE Same(Worker)
  <2>1. WorkerTyped' /\ AsksTyped' /\ RepliesTyped' BY <1>5, WorkerTypedNext DEF Same
  <2>2. UNCHANGED <<mix, up, client, servers>> BY <1>5, WorkerFrame DEF Same
  <2>3. ClientTyped' BY <2>2 DEF Typed, ClientTyped, client, Kinds
  <2>4. ServersTyped' BY <2>2 DEF Typed, ServersTyped, servers
  <2> QED BY <2>1, <2>3, <2>4 DEF Typed
<1>6. CASE UNCHANGED vars
  BY <1>6 DEF vars, worker, client, servers, Typed, WorkerTyped, AsksTyped, RepliesTyped,
              ClientTyped, ServersTyped, Kinds
<1> QED BY <1>1, <1>2, <1>3, <1>4, <1>5, <1>6 DEF Next

LEMMA TypedInit == Init => Typed
<1> SUFFICES ASSUME Init PROVE Typed OBVIOUS
<1>1. WorkerTyped BY DEF Init, WorkerTyped, Step, Backend
<1>2. AsksTyped BY DEF Init, AsksTyped
<1>3. RepliesTyped BY DEF Init, RepliesTyped
<1>4. ClientTyped
  <2>1. /\ mix \in Mixes /\ noise \in BOOLEAN
        /\ ans \in [1..MaxReqs -> SUBSET [id : 0..MaxReqs, k : {"ok", "25006", "other"}]]
    BY DEF Init
  <2>2. reqs \in Seq(Kinds) /\ Len(reqs) <= MaxReqs /\ zs \in 0..Len(reqs)
    BY SessionAssumption DEF Init
  <2> QED BY <2>1, <2>2 DEF ClientTyped
<1>5. ServersTyped BY SessionAssumption DEF Init, ServersTyped
<1> QED BY <1>1, <1>2, <1>3, <1>4, <1>5 DEF Typed

\* Every value of a Typed state is of its type.
LEMMA TypedIsTypeOK == Typed => TypeOK
<1> SUFFICES ASSUME Typed PROVE TypeOK OBVIOUS
<1>1. Ask \subseteq Message BY DEF Ask, Message
<1>2. Reply \subseteq Message BY DEF Reply, Message
<1>3. \A S, T : S \subseteq T => Seq(S) \subseteq Seq(T) OBVIOUS
<1>4. Seq(Ask) \subseteq Seq(Message) /\ Seq(Reply) \subseteq Seq(Message) BY <1>1, <1>2, <1>3
<1>5. /\ saved \in Seq(Message) /\ unsent \in Seq(Message) /\ bebuf \in Seq(Message)
      /\ c2r \in Seq(Message) /\ r2c \in Seq(Message)
      /\ r2b \in [Backend -> Seq(Message)] /\ b2r \in [Backend -> Seq(Message)]
  BY <1>4 DEF Typed, AsksTyped, RepliesTyped
<1> QED BY <1>5 DEF Typed, WorkerTyped, ClientTyped, ServersTyped, TypeOK
-----------------------------------------------------------------------------
(* The order of the writes. *)

\* The four queues before and after a step: what was in line stays in line, and
\* no request turns up again.
KeepsLine(w, r, u, c, ww, rr, uu, cc) ==
    /\ Line(ww, rr, uu, cc)
    /\ \A n \in Nat : LineAhead(n, w, r, u, c) => LineAhead(n, ww, rr, uu, cc)
    /\ \A n \in Nat : LineUpTo(n, w, r, u, c) => LineUpTo(n, ww, rr, uu, cc)

LEMMA Whole == ASSUME NEW q \in Seq(Ask) PROVE Part(q, q)
<1>1. \A i \in 1..Len(q) : i + 0 \in 1..Len(q) /\ q[i] = q[i + 0] OBVIOUS
<1> QED BY <1>1 DEF Part

\* Every queue may lose messages.
LEMMA LineShrinks ==
    ASSUME NEW w \in Seq(Ask), NEW r \in Seq(Ask), NEW u \in Seq(Ask), NEW c \in Seq(Ask),
           NEW ww \in Seq(Ask), NEW rr \in Seq(Ask), NEW uu \in Seq(Ask), NEW cc \in Seq(Ask),
           Line(w, r, u, c), Part(ww, w), Part(rr, r), Part(uu, u), Part(cc, c)
    PROVE  KeepsLine(w, r, u, c, ww, rr, uu, cc)
<1>1. Sorted(ww) /\ Sorted(rr) /\ Sorted(uu) /\ Sorted(cc) BY PartOrder DEF Line
<1>2. Before(ww, rr) /\ Before(ww, uu) /\ Before(ww, cc)
  <2>1. Before(w, rr) /\ Before(w, uu) /\ Before(w, cc) BY PartOrder DEF Line
  <2> QED BY <2>1, PartOrder
<1>3. Before(rr, uu) /\ Before(rr, cc) /\ Before(uu, cc)
  <2>1. Before(r, uu) /\ Before(r, cc) /\ Before(u, cc) BY PartOrder DEF Line
  <2> QED BY <2>1, PartOrder
<1>4. \A n \in Nat : LineAhead(n, w, r, u, c) => LineAhead(n, ww, rr, uu, cc)
  BY PartOrder DEF LineAhead
<1>5. \A n \in Nat : LineUpTo(n, w, r, u, c) => LineUpTo(n, ww, rr, uu, cc)
  BY PartOrder DEF LineUpTo
<1> QED BY <1>1, <1>2, <1>3, <1>4, <1>5 DEF KeepsLine, Line

\* A queue is nothing but its first message and the others.
LEMMA HeadFirst ==
    ASSUME NEW q \in Seq(Ask), q # <<>>
    PROVE  /\ <<Head(q)>> \in Seq(Ask) /\ Tail(q) \in Seq(Ask)
           /\ Part(<<Head(q)>>, q) /\ Part(Tail(q), q)
           /\ Sorted(q) => Before(<<Head(q)>>, Tail(q))
<1>1. /\ Head(q) \in Ask /\ Tail(q) \in Seq(Ask) /\ Len(q) \in Nat \ {0}
      /\ Head(q) = q[1]
      /\ \A i \in 1..Len(Tail(q)) : Tail(q)[i] = q[i + 1] /\ i + 1 \in 1..Len(q)
  BY FirstTaken
<1>2. <<Head(q)>> \in Seq(Ask) /\ Len(<<Head(q)>>) = 1 /\ <<Head(q)>>[1] = q[1] BY <1>1
<1>3. Part(<<Head(q)>>, q)
  <2>1. \A i \in 1..Len(<<Head(q)>>) : i + 0 \in 1..Len(q) /\ <<Head(q)>>[i] = q[i + 0]
    BY <1>1, <1>2
  <2> QED BY <2>1 DEF Part
<1>4. Part(Tail(q), q) BY Parts
<1>5. ASSUME Sorted(q) PROVE Before(<<Head(q)>>, Tail(q))
  <2> SUFFICES ASSUME Opens(q[1]), NEW i \in 1..Len(Tail(q)), Opens(Tail(q)[i])
               PROVE  q[1].id < Tail(q)[i].id
    BY <1>2 DEF Before, Ahead
  <2>1. i + 1 \in 1..Len(q) /\ 1 \in 1..Len(q) /\ 1 < i + 1 BY <1>1
  <2> QED BY <1>1, <1>5, <2>1 DEF Sorted
<1> QED BY <1>1, <1>2, <1>3, <1>4, <1>5

\* The worker reads from the client.
LEMMA LineReceives ==
    ASSUME NEW w \in Seq(Ask), NEW r \in Seq(Ask), NEW c \in Seq(Ask), NEW n \in 1..Len(c),
           Line(w, r, <<>>, c)
    PROVE  KeepsLine(w, r, <<>>, c, w, r, SubSeq(c, 1, n), SubSeq(c, n + 1, Len(c)))
<1> DEFINE a == SubSeq(c, 1, n)
           b == SubSeq(c, n + 1, Len(c))
<1>1. /\ a \in Seq(Ask) /\ b \in Seq(Ask) /\ Len(a) = n /\ Len(b) = Len(c) - n
      /\ \A i \in 1..n : a[i] = c[i]
      /\ \A i \in 1..(Len(c) - n) : b[i] = c[n + i]
  BY Cut
<1>2. Part(a, c) /\ Part(b, c) BY Parts
<1> HIDE DEF a, b
<1>3. Before(a, b)
  <2> SUFFICES ASSUME NEW i \in 1..Len(a), Opens(a[i]), NEW j \in 1..Len(b), Opens(b[j])
               PROVE  a[i].id < b[j].id
    BY DEF Before, Ahead
  <2>1. /\ i \in 1..Len(c) /\ n + j \in 1..Len(c) /\ i < n + j
        /\ a[i] = c[i] /\ b[j] = c[n + j]
    BY <1>1
  <2> QED BY <2>1 DEF Line, Sorted
<1>4. Sorted(a) /\ Sorted(b) BY <1>1, <1>2, PartOrder DEF Line
<1>5. Before(w, a) /\ Before(w, b) /\ Before(r, a) /\ Before(r, b)
  BY <1>1, <1>2, PartOrder DEF Line
<1>6. \A k \in Nat : LineAhead(k, w, r, <<>>, c) => LineAhead(k, w, r, a, b)
  BY <1>1, <1>2, PartOrder DEF LineAhead
<1>7. \A k \in Nat : LineUpTo(k, w, r, <<>>, c) => LineUpTo(k, w, r, a, b)
  BY <1>1, <1>2, PartOrder DEF LineUpTo
<1>8. Line(w, r, a, b) BY <1>3, <1>4, <1>5 DEF Line
<1> QED BY <1>6, <1>7, <1>8 DEF KeepsLine, a, b

\* The worker sends to the reader what it has received, and saves it.
LEMMA LineSaves ==
    ASSUME NEW w \in Seq(Ask), NEW r \in Seq(Ask), NEW u \in Seq(Ask), NEW c \in Seq(Ask),
           Line(w, r, u, c), u # <<>>
    PROVE  KeepsLine(w, r, u, c, w, Append(r, Head(u)), Tail(u), c)
<1> DEFINE h == <<Head(u)>>
           t == Tail(u)
<1>1. /\ h \in Seq(Ask) /\ t \in Seq(Ask) /\ Part(h, u) /\ Part(t, u) /\ Before(h, t)
  BY HeadFirst DEF Line
<1>2. Append(r, Head(u)) = r \o h OBVIOUS
<1> HIDE DEF h, t
<1>3. /\ Sorted(h) /\ Sorted(t) /\ Before(w, h) /\ Before(w, t) /\ Before(r, h) /\ Before(r, t)
      /\ Before(h, c) /\ Before(t, c)
  BY <1>1, PartOrder DEF Line
<1>4. Line(w, r \o h, t, c) BY <1>1, <1>3, GluedOrder DEF Line
<1>5. \A k \in Nat : LineAhead(k, w, r, u, c) => LineAhead(k, w, r \o h, t, c)
  BY <1>1, PartOrder, GluedOrder DEF LineAhead
<1>6. \A k \in Nat : LineUpTo(k, w, r, u, c) => LineUpTo(k, w, r \o h, t, c)
  BY <1>1, PartOrder, GluedOrder DEF LineUpTo
<1> QED BY <1>2, <1>4, <1>5, <1>6 DEF KeepsLine, t

\* What is saved is replayed to the writer.
LEMMA LineReplays ==
    ASSUME NEW w \in Seq(Ask), NEW r \in Seq(Ask), NEW u \in Seq(Ask), NEW c \in Seq(Ask),
           Line(w, r, u, c)
    PROVE  KeepsLine(w, r, u, c, w \o r, <<>>, <<>>, c)
<1> DEFINE e == <<>>
<1>1. e \in Seq(Ask) /\ w \o r \in Seq(Ask) BY Glued
<1>2. \A x \in Seq(Ask) : /\ Sorted(e) /\ Before(e, x) /\ Before(x, e)
                          /\ \A k \in Nat : Ahead(k, e) /\ UpTo(k, e)
  BY DEF Sorted, Before, Ahead, UpTo
<1> HIDE DEF e
<1>3. Line(w \o r, e, e, c) BY <1>1, <1>2, GluedOrder DEF Line
<1>4. \A k \in Nat : LineAhead(k, w, r, u, c) => LineAhead(k, w \o r, e, e, c)
  BY <1>2, GluedOrder DEF LineAhead
<1>5. \A k \in Nat : LineUpTo(k, w, r, u, c) => LineUpTo(k, w \o r, e, e, c)
  BY <1>2, GluedOrder DEF LineUpTo
<1> QED BY <1>3, <1>4, <1>5 DEF KeepsLine, e

\* During a COPY the worker passes on to the writer what it receives, and has
\* nothing saved.
LEMMA LineCopies ==
    ASSUME NEW w \in Seq(Ask), NEW u \in Seq(Ask), NEW c \in Seq(Ask),
           Line(w, <<>>, u, c), u # <<>>
    PROVE  KeepsLine(w, <<>>, u, c, w \o <<Head(u)>>, <<>>, Tail(u), c)
<1> DEFINE e == <<>>
           h == <<Head(u)>>
           t == Tail(u)
<1>1. /\ h \in Seq(Ask) /\ t \in Seq(Ask) /\ Part(h, u) /\ Part(t, u) /\ Before(h, t)
  BY HeadFirst DEF Line
<1>2. e \in Seq(Ask) /\ w \o h \in Seq(Ask) BY <1>1, Glued
<1>3. \A x \in Seq(Ask) : /\ Sorted(e) /\ Before(e, x) /\ Before(x, e)
                          /\ \A k \in Nat : Ahead(k, e) /\ UpTo(k, e)
  BY DEF Sorted, Before, Ahead, UpTo
<1>4. Line(w, e, u, c) OBVIOUS
<1> HIDE DEF e, h, t
<1>5. Sorted(h) /\ Sorted(t) /\ Before(w, h) /\ Before(w, t) /\ Before(h, c) /\ Before(t, c)
  BY <1>1, <1>4, PartOrder DEF Line
<1>6. Line(w \o h, e, t, c) BY <1>1, <1>2, <1>3, <1>4, <1>5, GluedOrder DEF Line
<1>7. \A k \in Nat : LineAhead(k, w, e, u, c) => LineAhead(k, w \o h, e, t, c)
  BY <1>1, <1>3, PartOrder, GluedOrder DEF LineAhead
<1>8. \A k \in Nat : LineUpTo(k, w, e, u, c) => LineUpTo(k, w \o h, e, t, c)
  BY <1>1, <1>3, PartOrder, GluedOrder DEF LineUpTo
<1> QED BY <1>6, <1>7, <1>8 DEF KeepsLine, e, h, t

\* Messages that open nothing join a queue of the writer or of the client.
LEMMA LineIgnores ==
    ASSUME NEW w \in Seq(Ask), NEW r \in Seq(Ask), NEW u \in Seq(Ask), NEW c \in Seq(Ask),
           NEW x \in Seq(Ask), \A i \in 1..Len(x) : ~Opens(x[i]), Line(w, r, u, c)
    PROVE  /\ KeepsLine(w, r, u, c, w \o x, r, u, c)
           /\ KeepsLine(w, r, u, c, w, r, u, c \o x)
<1>1. \A y \in Seq(Ask) : /\ Sorted(x) /\ Before(x, y) /\ Before(y, x)
                          /\ \A k \in Nat : Ahead(k, x) /\ UpTo(k, x)
  BY DEF Sorted, Before, Ahead, UpTo
<1>2. Line(w \o x, r, u, c) /\ Line(w, r, u, c \o x) BY <1>1, GluedOrder DEF Line
<1>3. \A k \in Nat : LineAhead(k, w, r, u, c) =>
          LineAhead(k, w \o x, r, u, c) /\ LineAhead(k, w, r, u, c \o x)
  BY <1>1, GluedOrder DEF LineAhead
<1>4. \A k \in Nat : LineUpTo(k, w, r, u, c) =>
          LineUpTo(k, w \o x, r, u, c) /\ LineUpTo(k, w, r, u, c \o x)
  BY <1>1, GluedOrder DEF LineUpTo
<1> QED BY <1>2, <1>3, <1>4 DEF KeepsLine

\* The client issues the next request.
LEMMA LineGrows ==
    ASSUME NEW w \in Seq(Ask), NEW r \in Seq(Ask), NEW u \in Seq(Ask), NEW c \in Seq(Ask),
           NEW x \in Seq(Ask), NEW n \in Nat,
           \A i \in 1..Len(x) : x[i].id = n + 1 /\ (i > 1 => ~Opens(x[i])),
           Line(w, r, u, c), LineUpTo(n, w, r, u, c)
    PROVE  /\ Line(w, r, u, c \o x)
           /\ \A k \in 0..n : LineAhead(k, w, r, u, c) => LineAhead(k, w, r, u, c \o x)
           /\ LineUpTo(n + 1, w, r, u, c \o x)
<1>1. /\ Sorted(x) /\ UpTo(n + 1, x) /\ \A k \in 0..n : Ahead(k, x)
  <2>1. Sorted(x)
    <3>1. \A i, j \in 1..Len(x) : i < j => j > 1 OBVIOUS
    <3> QED BY <3>1 DEF Sorted
  <2>2. UpTo(n + 1, x) BY DEF UpTo
  <2>3. \A k \in 0..n : Ahead(k, x) BY DEF Ahead
  <2> QED BY <2>1, <2>2, <2>3
<1>2. \A q \in Seq(Ask) : UpTo(n, q) => Before(q, x) /\ UpTo(n + 1, q)
  <2>1. ASSUME NEW q \in Seq(Ask), UpTo(n, q) PROVE Before(q, x) BY <1>1, <2>1 DEF Before, UpTo
  <2>2. 1..n \subseteq 1..(n + 1) OBVIOUS
  <2> QED BY <2>1, <2>2 DEF UpTo
<1>3. Line(w, r, u, c \o x) BY <1>1, <1>2, GluedOrder DEF Line, LineUpTo
<1>4. \A k \in 0..n : LineAhead(k, w, r, u, c) => LineAhead(k, w, r, u, c \o x)
  <2>1. 0..n \subseteq Nat OBVIOUS
  <2> QED BY <1>1, <2>1, GluedOrder DEF LineAhead
<1>5. LineUpTo(n + 1, w, r, u, c \o x) BY <1>1, <1>2, GluedOrder DEF LineUpTo
<1> QED BY <1>3, <1>4, <1>5

\* The queues of a typed state.
LEMMA Queues ==
    ASSUME Typed
    PROVE  /\ r2b["writer"] \in Seq(Ask) /\ saved \in Seq(Ask)
           /\ unsent \in Seq(Ask) /\ c2r \in Seq(Ask)
           /\ Len(reqs) \in Nat /\ execs["writer"] \in Seq(1..MaxReqs)
           /\ copying["writer"] \in 0..MaxReqs
BY DEF Typed, AsksTyped, ClientTyped, ServersTyped, Backend

\* A step between the client and the writer that executes nothing.
LEMMA Kept ==
    ASSUME Typed, InLine, Executed,
           UNCHANGED <<reqs, execs, copying>>,
           KeepsLine(r2b["writer"], saved, unsent, c2r,
                     r2b'["writer"], saved', unsent', c2r')
    PROVE  InLine' /\ Executed'
<1>1. Len(reqs) \in Nat BY Queues
<1>2. InLine' BY <1>1 DEF InLine, KeepsLine
<1>3. \A n : Past(n) => Past(n)' BY <1>1 DEF Past, KeepsLine
<1> QED BY <1>2, <1>3 DEF Executed

\* Nothing becomes a BEGIN on its way.
LEMMA PlainParts ==
    ASSUME NEW q \in Seq(Ask), Plain(q)
    PROVE  /\ q # <<>> => Plain(Tail(q))
           /\ \A n \in 1..Len(q) : Plain(SubSeq(q, 1, n)) /\ Plain(SubSeq(q, n + 1, Len(q)))
           /\ Plain(<<>>)
<1>1. q # <<>> => Plain(Tail(q)) BY Parts, PartOrder, FirstTaken
<1>2. \A n \in 1..Len(q) : Plain(SubSeq(q, 1, n)) /\ Plain(SubSeq(q, n + 1, Len(q)))
  BY Parts, PartOrder, Cut
<1>3. Plain(<<>>) BY DEF Plain
<1> QED BY <1>1, <1>2, <1>3

\* Nothing moves between the client and the writer.
LEMMA Unmoved ==
    ASSUME Typed, InLine, UNCHANGED <<r2b, saved, unsent, c2r>>
    PROVE  KeepsLine(r2b["writer"], saved, unsent, c2r,
                     r2b'["writer"], saved', unsent', c2r')
BY DEF InLine, KeepsLine

LEMMA ClientSendOrder ==
    ASSUME Typed, Routed, InLine, Executed, NEW k \in Kinds, Same(ClientSend(k)), NoBegin'
    PROVE  Routed' /\ InLine' /\ Executed'
<1> DEFINE n == Len(reqs)
           x == Opening(k, n + 1)
<1>1. k \in AllKinds BY SessionAssumption DEF Kinds, Mix, Typed, ClientTyped
<1>2. n \in Nat /\ n + 1 \in 1..MaxReqs
  BY SessionAssumption DEF Typed, ClientTyped, Same, ClientSend
<1>3. /\ reqs' = Append(reqs, k) /\ c2r' = c2r \o x
      /\ UNCHANGED <<pc, in_txn, feout, saved, unsent, r2b, execs, copying>>
  BY DEF Same, ClientSend, worker, servers
<1>4. Len(reqs') = n + 1 /\ reqs'[n + 1] = k BY <1>3 DEF Typed, ClientTyped
<1>5. k # "begin" BY <1>2, <1>4 DEF NoBegin
<1>6. /\ x \in Seq(Ask) /\ Plain(x)
      /\ \A i \in 1..Len(x) : x[i].id = n + 1 /\ (i > 1 => ~Opens(x[i]))
  BY <1>1, <1>2, <1>5, OpeningTypes DEF Plain
<1> HIDE DEF x
<1>7. Routed' BY <1>3, <1>6, GluedOrder, Queues DEF Routed
<1> DEFINE w == r2b["writer"]
<1>8. /\ Line(w, saved, unsent, c2r \o x)
      /\ \A m \in 0..n : LineAhead(m, w, saved, unsent, c2r)
                            => LineAhead(m, w, saved, unsent, c2r \o x)
      /\ LineUpTo(n + 1, w, saved, unsent, c2r \o x)
  BY <1>2, <1>6, LineGrows, Queues DEF InLine
<1>9. InLine' BY <1>3, <1>4, <1>8 DEF InLine
<1>10. \A m : Past(m) => Past(m)'
  <2>1. 1..n \subseteq 0..n /\ 1..n \subseteq 1..(n + 1) BY <1>2
  <2> QED BY <1>3, <1>4, <1>8, <2>1 DEF Past
<1> QED BY <1>3, <1>7, <1>9, <1>10 DEF Executed

LEMMA ClientRecvOrder ==
    ASSUME Typed, Routed, InLine, Executed, Same(ClientRecv)
    PROVE  Routed' /\ InLine' /\ Executed'
<1> DEFINE m == Head(r2c)
           n == zs + 1
<1>1. UNCHANGED <<pc, in_txn, feout, saved, unsent, r2b, reqs, execs, copying>>
  BY DEF Same, ClientRecv, worker, servers
<1>2. CASE Awaiting(n)
  <2> DEFINE x == FollowUp(m, n)
  <2>1. m \in Reply BY FirstTaken DEF Typed, RepliesTyped, Same, ClientRecv
  <2>2. n \in 1..MaxReqs BY <1>2, SessionAssumption DEF Typed, ClientTyped, Awaiting
  <2>3. x \in Seq(Ask) /\ Plain(x) /\ \A i \in 1..Len(x) : ~Opens(x[i])
    BY <2>1, <2>2, FollowUpTypes DEF Plain
  <2>4. c2r' = c2r \o x BY <1>2 DEF Same, ClientRecv
  <2> HIDE DEF x
  <2>5. Routed' BY <1>1, <2>3, <2>4, GluedOrder, Queues DEF Routed
  <2>6. KeepsLine(r2b["writer"], saved, unsent, c2r, r2b'["writer"], saved', unsent', c2r')
    BY <1>1, <2>3, <2>4, LineIgnores, Queues DEF InLine
  <2> QED BY <1>1, <2>5, <2>6, Kept
<1>3. CASE ~Awaiting(n)
  <2>1. UNCHANGED c2r BY <1>3 DEF Same, ClientRecv
  <2>2. Routed' BY <1>1, <2>1 DEF Routed
  <2> QED BY <1>1, <2>1, <2>2, Unmoved, Kept
<1> QED BY <1>2, <1>3

LEMMA VanishOrder ==
    ASSUME Typed, Routed, InLine, Executed, NEW p \in Peer, Same(Vanish(p))
    PROVE  Routed' /\ InLine' /\ Executed'
<1>1. UNCHANGED <<pc, in_txn, feout, saved, unsent, c2r, r2b, reqs, execs, copying>>
  BY DEF Same, Vanish, worker, client, servers
<1>2. Routed' BY <1>1 DEF Routed
<1> QED BY <1>1, <1>2, Unmoved, Kept

\* The request that the writer takes next is new to it, and only the writer
\* has it.
LEMMA NextIsNew ==
    ASSUME Typed, InLine, Executed, r2b["writer"] # <<>>, Opens(Head(r2b["writer"])),
           r2b'["writer"] = Tail(r2b["writer"]), UNCHANGED <<saved, unsent, c2r, reqs>>,
           NEW n, n = Head(r2b["writer"]).id
    PROVE  /\ Past(n)'
           /\ \A i \in 1..Len(execs["writer"]) : execs["writer"][i] < n
<1> DEFINE q == r2b["writer"]
           m == Head(q)
           t == Tail(q)
<1>1. /\ q \in Seq(Ask) /\ m = q[1] /\ 1 \in 1..Len(q) /\ t \in Seq(Ask)
      /\ Len(<<m>>) = 1 /\ <<m>>[1] = m
  BY Queues, FirstTaken
<1>2. Before(<<m>>, t) BY HeadFirst, Queues DEF InLine, Line
<1>3. Ahead(m.id, t) BY <1>1, <1>2 DEF Before
<1>4. Ahead(m.id, saved) /\ Ahead(m.id, unsent) /\ Ahead(m.id, c2r)
  BY <1>1 DEF InLine, Line, Before
<1>5. m.id \in 1..Len(reqs) BY <1>1 DEF InLine, LineUpTo, UpTo
<1>6. \A k : Past(k) => k < m.id BY <1>1 DEF Past, LineAhead, Ahead
<1> QED BY <1>3, <1>4, <1>5, <1>6 DEF Past, LineAhead, Executed

LEMMA BackendOrder ==
    ASSUME Typed, Typed', Routed, InLine, Executed, NEW b \in Backend, Same(BackendStep(b))
    PROVE  Routed' /\ InLine' /\ Executed'
<1>1. /\ r2b[b] # <<>> /\ r2b' = [r2b EXCEPT ![b] = Tail(@)]
      /\ UNCHANGED <<pc, in_txn, feout, saved, unsent, c2r, reqs>>
      /\ \/ UNCHANGED <<execs, copying>>
         \/ Reacts(b, Head(r2b[b]))
  BY Served DEF Same, worker, client, servers
<1>2. Routed' BY <1>1 DEF Routed
<1>3. r2b \in [Backend -> Seq(Ask)] BY DEF Typed, AsksTyped
<1>4. KeepsLine(r2b["writer"], saved, unsent, c2r, r2b'["writer"], saved', unsent', c2r')
  <2>1. Part(r2b'["writer"], r2b["writer"]) /\ r2b'["writer"] \in Seq(Ask)
    <3>1. CASE b = "reader" BY <1>1, <1>3, <3>1, Whole DEF Backend
    <3>2. CASE b = "writer" BY <1>1, <1>3, <3>2, Parts, FirstTaken DEF Backend
    <3> QED BY <3>1, <3>2 DEF Backend
  <2>2. Part(saved', saved) /\ Part(unsent', unsent) /\ Part(c2r', c2r) BY <1>1, Whole, Queues
  <2>3. /\ Line(r2b["writer"], saved, unsent, c2r)
        /\ saved' \in Seq(Ask) /\ unsent' \in Seq(Ask) /\ c2r' \in Seq(Ask)
    BY <1>1, Queues DEF InLine
  <2> QED BY <2>1, <2>2, <2>3, LineShrinks, Queues
<1>5. CASE UNCHANGED <<execs, copying>> BY <1>1, <1>2, <1>4, <1>5, Kept
<1>6. CASE Reacts(b, Head(r2b[b]))
  <2>1. Len(reqs) \in Nat BY Queues
  <2>2. InLine' BY <1>1, <1>4, <2>1 DEF InLine, KeepsLine
  <2>3. \A n : Past(n) => Past(n)' BY <1>1, <1>4, <2>1 DEF Past, KeepsLine
  <2>a. PICK m, e, k : m = Head(r2b[b]) /\ e = execs["writer"] /\ k = copying["writer"] OBVIOUS
  <2>4. PICK reply \in Seq(Reply), md \in {"idle", "copy", "skip"},
             t \in {"none", "open", "failed"}, ex \in 0..MaxReqs :
                /\ Serve(b, m, reply, md, t, ex)
                /\ ex # 0 => md # "copy" /\ (\/ ex = m.id /\ Opens(m)
                                             \/ ex = copying[b])
                /\ md = "copy" => mode[b] = "copy" \/ Opens(m)
    BY <1>6, <2>a DEF Reacts
  <2>5. /\ e \in Seq(1..MaxReqs) /\ k \in 0..MaxReqs
        /\ execs \in [Backend -> Seq(1..MaxReqs)] /\ copying \in [Backend -> 0..MaxReqs]
    BY <2>a, Queues DEF Typed, ServersTyped
  <2>6. /\ execs' = [execs EXCEPT ![b] = IF ex # 0 THEN Append(@, ex) ELSE @]
        /\ copying' = [copying EXCEPT ![b] = IF md # "copy" THEN 0
                                             ELSE IF mode[b] = "copy" THEN @ ELSE m.id]
    BY <2>4 DEF Serve
  <2>7. CASE b = "reader"
    <3>1. execs'["writer"] = e /\ copying'["writer"] = k BY <2>a, <2>5, <2>6, <2>7 DEF Backend
    <3> QED BY <1>2, <2>2, <2>3, <2>a, <3>1 DEF Executed
  <2>8. CASE b = "writer"
    <3>1. /\ execs'["writer"] = (IF ex # 0 THEN Append(e, ex) ELSE e)
          /\ copying'["writer"] = (IF md # "copy" THEN 0 ELSE IF mode[b] = "copy" THEN k ELSE m.id)
      BY <2>5, <2>6, <2>8, <2>a DEF Backend
    <3>2. r2b'["writer"] = Tail(r2b["writer"]) BY <1>1, <1>3, <2>8 DEF Backend
    <3>3. Opens(m) => Past(m.id)' /\ \A i \in 1..Len(e) : e[i] < m.id
      BY <1>1, <2>8, <2>a, <3>2, NextIsNew
    <3>4. /\ \A i \in 1..Len(e) : Past(e[i])'
          /\ k # 0 => Past(k)' /\ \A i \in 1..Len(e) : e[i] < k
          /\ \A i, j \in 1..Len(e) : i < j => e[i] < e[j]
      BY <2>3, <2>a DEF Executed
    <3>5. CASE ex = 0
      <4>1. execs'["writer"] = e BY <3>1, <3>5
      <4>2. \A n : n # 0 /\ n = copying'["writer"] => Past(n)' /\ \A i \in 1..Len(e) : e[i] < n
        BY <2>4, <3>1, <3>3, <3>4
      <4> QED BY <1>2, <2>2, <3>4, <4>1, <4>2 DEF Executed
    <3>6. CASE ex # 0
      <4>1. Past(ex)' /\ \A i \in 1..Len(e) : e[i] < ex
        BY <2>4, <2>8, <2>a, <3>3, <3>4, <3>6
      <4>2. copying'["writer"] = 0 BY <2>4, <3>1, <3>6
      <4> DEFINE f == Append(e, ex)
      <4>3. /\ execs'["writer"] = f /\ Len(f) = Len(e) + 1 /\ Len(e) \in Nat
            /\ \A i \in 1..Len(f) : f[i] = IF i <= Len(e) THEN e[i] ELSE ex
        BY <2>5, <3>1, <3>6
      <4> HIDE DEF f
      <4>4. \A i \in 1..Len(f) : Past(f[i])' BY <3>4, <4>1, <4>3
      <4>5. \A i, j \in 1..Len(f) : i < j => f[i] < f[j] BY <3>4, <4>1, <4>3
      <4> QED BY <1>2, <2>2, <4>2, <4>3, <4>4, <4>5 DEF Executed
    <3> QED BY <3>5, <3>6
  <2> QED BY <2>7, <2>8 DEF Backend
<1> QED BY <1>1, <1>5, <1>6

LEMMA RecvFrontendOrder ==
    ASSUME Typed, Routed, InLine, NEW from, NEW to \in {"send", "copysend"},
           RecvFrontend(from, to), from = "recvfe" \/ to = "copysend"
    PROVE  /\ Routed'
           /\ KeepsLine(r2b["writer"], saved, unsent, c2r, r2b'["writer"], saved', unsent', c2r')
<1>1. /\ pc = from /\ pc' = to /\ UNCHANGED <<in_txn, feout, saved, r2b>>
  BY DEF RecvFrontend
<1>2. CASE UNCHANGED <<unsent, c2r>>
  <2>1. Routed' BY <1>1, <1>2 DEF Routed
  <2> QED BY <1>1, <1>2, <2>1, Unmoved
<1>3. CASE /\ unsent = <<>>
           /\ \E n \in Portions(c2r) : /\ unsent' = SubSeq(c2r, 1, n)
                                       /\ c2r' = SubSeq(c2r, n + 1, Len(c2r))
  <2>1. PICK n \in 1..Len(c2r) : /\ unsent' = SubSeq(c2r, 1, n)
                                 /\ c2r' = SubSeq(c2r, n + 1, Len(c2r))
    BY <1>3 DEF Portions
  <2>2. Plain(unsent)' /\ Plain(c2r)' BY <2>1, PlainParts, Queues DEF Routed, Plain
  <2>3. Routed' BY <1>1, <2>2 DEF Routed
  <2>4. KeepsLine(r2b["writer"], saved, <<>>, c2r, r2b["writer"], saved,
                  SubSeq(c2r, 1, n), SubSeq(c2r, n + 1, Len(c2r)))
    BY <1>3, LineReceives, Queues DEF InLine
  <2> QED BY <1>1, <1>3, <2>1, <2>3, <2>4
<1> QED BY <1>2, <1>3 DEF RecvFrontend

LEMMA SendOrder ==
    ASSUME Typed, Routed, InLine, Send
    PROVE  /\ Routed'
           /\ KeepsLine(r2b["writer"], saved, unsent, c2r, r2b'["writer"], saved', unsent', c2r')
<1> DEFINE m == Head(unsent)
           x == <<Msg("X", 0, "quit")>>
           w == r2b["writer"]
<1>1. /\ unsent \in Seq(Ask) /\ unsent # <<>> /\ Plain(unsent) /\ feout = "reader"
      /\ r2b \in [Backend -> Seq(Ask)] /\ w \in Seq(Ask)
  BY Queues DEF Typed, WorkerTyped, AsksTyped, Routed, Send
<1>2. m \in Ask /\ m = unsent[1] /\ 1 \in 1..Len(unsent) /\ <<m>> \in Seq(Ask) BY <1>1, FirstTaken
<1>3. ~IsBegin(m) BY <1>1, <1>2 DEF Plain, IsBegin
<1>4. /\ saved' = Append(saved, m) /\ unsent' = Tail(unsent) /\ UNCHANGED c2r
      /\ in_txn' = FALSE /\ feout' = "reader"
      /\ \/ r2b' = ToBackend(r2b, "reader", <<m>>)
         \/ r2b' = ToBackend(ToBackend(ToBackend(r2b, "reader", <<m>>), "reader", x), "writer", x)
  BY <1>1, <1>3 DEF Send, Routed
<1>5. Routed'
  <2>1. Plain(unsent)' BY <1>1, <1>4, PlainParts DEF Plain
  <2> QED BY <1>4, <2>1 DEF Routed, Plain
<1>6. /\ x \in Seq(Ask) /\ \A i \in 1..Len(x) : ~Opens(x[i])
  <2>1. Msg("X", 0, "quit") \in Ask /\ ~Opens(Msg("X", 0, "quit"))
    BY SessionAssumption DEF Msg, Ask, AllKinds, Opens
  <2> QED BY <2>1
<1>7. r2b'["writer"] = w \/ r2b'["writer"] = w \o x
  <2> HIDE DEF m, x
  <2>0. "reader" \in Backend /\ "writer" \in Backend /\ "reader" # "writer" BY DEF Backend
  <2> DEFINE p == ToBackend(r2b, "reader", <<m>>)
             q == ToBackend(p, "reader", x)
  <2>1. p \in [Backend -> Seq(Ask)] /\ p["writer"] = w BY <1>1, <1>2, <2>0, ToBackendTyped
  <2> HIDE DEF p
  <2>2. q \in [Backend -> Seq(Ask)] /\ q["writer"] = w BY <1>6, <2>0, <2>1, ToBackendTyped
  <2> HIDE DEF q
  <2>3. ToBackend(q, "writer", x)["writer"] = q["writer"] \o x
            \/ ToBackend(q, "writer", x)["writer"] = q["writer"]
    BY <1>6, <2>0, <2>2, ToBackendTyped
  <2>4. r2b' = p \/ r2b' = ToBackend(q, "writer", x) BY <1>4 DEF p, q
  <2> QED BY <2>1, <2>2, <2>3, <2>4
<1>8. KeepsLine(w, saved, unsent, c2r, w, Append(saved, m), Tail(unsent), c2r)
  BY <1>1, LineSaves, Queues DEF InLine
<1>9. Append(saved, m) \in Seq(Ask) /\ Tail(unsent) \in Seq(Ask) /\ c2r \in Seq(Ask) /\ saved \in Seq(Ask)
  BY <1>1, <1>2, FirstTaken, Queues
<1> HIDE DEF m, x, w
<1>10. KeepsLine(w, Append(saved, m), Tail(unsent), c2r, w \o x, Append(saved, m), Tail(unsent), c2r)
  BY <1>1, <1>6, <1>8, <1>9, LineIgnores DEF KeepsLine
<1>11. KeepsLine(w, saved, unsent, c2r, w \o x, Append(saved, m), Tail(unsent), c2r)
  BY <1>8, <1>10 DEF KeepsLine
<1> QED BY <1>4, <1>5, <1>7, <1>8, <1>11 DEF w

LEMMA RedirectOrder ==
    ASSUME Typed, Typed', Routed, InLine, Redirect
    PROVE  /\ Routed'
           /\ KeepsLine(r2b["writer"], saved, unsent, c2r, r2b'["writer"], saved', unsent', c2r')
<1> DEFINE w == r2b["writer"]
<1>1. /\ r2b' = ToBackend(r2b, "writer", saved) /\ saved' = <<>> /\ unsent' = <<>>
      /\ pc' = "recvbe" /\ UNCHANGED <<in_txn, c2r>>
  BY DEF Redirect
<1>2. Routed' BY <1>1 DEF Routed, Plain
<1>3. r2b'["writer"] = w \/ r2b'["writer"] = w \o saved
  <2>1. r2b \in [Backend -> Seq(Ask)] /\ "writer" \in Backend BY DEF Typed, AsksTyped, Backend
  <2> QED BY <1>1, <2>1, ToBackendTyped, Queues
<1>4. KeepsLine(w, saved, unsent, c2r, w \o saved, <<>>, <<>>, c2r)
  BY LineReplays, Queues DEF InLine
<1>5. KeepsLine(w, saved, unsent, c2r, w, <<>>, <<>>, c2r)
  <2>1. /\ Part(w, w) /\ Part(c2r, c2r) /\ Part(<<>>, saved) /\ Part(<<>>, unsent)
        /\ <<>> \in Seq(Ask)
    BY Whole, Parts, Queues
  <2> QED BY <2>1, LineShrinks, Queues DEF InLine
<1> QED BY <1>1, <1>2, <1>3, <1>4, <1>5

LEMMA CopyRelayOrder ==
    ASSUME Typed, Typed', Routed, InLine, CopyRelay
    PROVE  /\ Routed'
           /\ KeepsLine(r2b["writer"], saved, unsent, c2r, r2b'["writer"], saved', unsent', c2r')
<1> DEFINE w == r2b["writer"]
           h == <<Head(unsent)>>
<1>1. /\ unsent # <<>> /\ r2b' = ToBackend(r2b, feout, h) /\ unsent' = Tail(unsent)
      /\ pc' \in {"recvbe", "copy"} /\ UNCHANGED <<in_txn, feout, saved, c2r>>
  BY DEF CopyRelay, Typed, WorkerTyped
<1>2. /\ unsent \in Seq(Ask) /\ h \in Seq(Ask) /\ Tail(unsent) \in Seq(Ask)
      /\ Part(Tail(unsent), unsent)
  BY <1>1, HeadFirst, Queues
<1>3. Routed'
  <2>1. Plain(unsent)' BY <1>1, PlainParts, Queues DEF Plain, Routed
  <2> QED BY <1>1, <2>1 DEF Routed, Plain
<1>4. r2b \in [Backend -> Seq(Ask)] /\ feout \in Backend BY DEF Typed, AsksTyped, WorkerTyped
<1>5. KeepsLine(w, saved, unsent, c2r, w, saved, Tail(unsent), c2r)
  <2>1. Part(w, w) /\ Part(c2r, c2r) /\ Part(saved, saved) BY Whole, Queues
  <2> QED BY <1>2, <2>1, LineShrinks, Queues DEF InLine
<1>6. CASE feout = "reader"
  <2>1. r2b'["writer"] = w BY <1>1, <1>2, <1>4, <1>6, ToBackendTyped DEF Backend
  <2> QED BY <1>1, <1>3, <1>5, <2>1
<1>7. CASE feout = "writer"
  <2>1. r2b'["writer"] = w \/ r2b'["writer"] = w \o h
    BY <1>1, <1>2, <1>4, <1>7, ToBackendTyped DEF Backend
  <2>2. saved = <<>> BY <1>7 DEF Routed
  <2>3. Line(w, <<>>, unsent, c2r) BY <2>2 DEF InLine
  <2>4. KeepsLine(w, <<>>, unsent, c2r, w \o h, <<>>, Tail(unsent), c2r)
    BY <1>1, <2>3, LineCopies, Queues
  <2> QED BY <1>1, <1>3, <1>5, <2>1, <2>2, <2>4
<1> QED BY <1>4, <1>6, <1>7 DEF Backend

LEMMA WorkerOrder ==
    ASSUME Typed, Typed', Routed, InLine, Executed, Worker
    PROVE  Routed' /\ InLine' /\ Executed'
<1>1. UNCHANGED <<reqs, execs, copying>> BY WorkerFrame DEF client, servers
<1> DEFINE Good ==
      /\ Routed'
      /\ KeepsLine(r2b["writer"], saved, unsent, c2r, r2b'["writer"], saved', unsent', c2r')
<1>2. SUFFICES Good BY <1>1, Kept
<1>3. CASE RecvFe BY <1>3, RecvFrontendOrder DEF RecvFe
<1>4. CASE Send BY <1>4, SendOrder
<1>5. CASE Redirect BY <1>5, RedirectOrder
<1>6. CASE CopyRecv BY <1>6, RecvFrontendOrder DEF CopyRecv
<1>7. CASE CopyRelay BY <1>7, CopyRelayOrder
<1>8. CASE Top
  <2>1. Routed' BY <1>8 DEF Routed, Top, Plain
  <2>2. UNCHANGED <<r2b, saved, unsent, c2r>> BY <1>8 DEF Top
  <2> QED BY <2>1, <2>2, Unmoved
<1>9. CASE \/ FrontendGone \/ SendFails \/ RecvBe \/ BackendGone \/ Relay \/ RelayFails
           \/ Drain \/ DrainRecv \/ DrainGone
  <2>1. /\ UNCHANGED <<in_txn, feout, r2b, saved, unsent, c2r>>
        /\ pc' \notin {"recvfe", "send"}
    BY <1>9 DEF FrontendGone, SendFails, Shutdown, RecvBe, RecvBackend, BackendGone, Relay,
                RelayFails, Drain, DrainRecv, DrainGone
  <2>2. Routed' BY <2>1 DEF Routed, Plain
  <2> QED BY <2>1, <2>2, Unmoved
<1> QED BY <1>3, <1>4, <1>5, <1>6, <1>7, <1>8, <1>9 DEF Worker

\* The requests are only added to.
LEMMA ReqsGrow ==
    ASSUME Typed, [Next]_vars, NoBegin' PROVE NoBegin
<1>1. UNCHANGED reqs \/ \E k : reqs' = Append(reqs, k)
  <2>1. CASE Same(Worker) BY <2>1, WorkerFrame DEF Same, client
  <2>2. CASE \E b \in Backend : Same(BackendStep(b)) BY <2>2 DEF Same, BackendStep, client
  <2> QED BY <2>1, <2>2 DEF Next, Same, ClientSend, ClientRecv, Vanish, vars, client
<1>2. reqs \in Seq(Kinds) BY DEF Typed, ClientTyped
<1>3. \A i \in 1..Len(reqs) : i \in 1..Len(reqs') /\ reqs'[i] = reqs[i]
  <2>1. CASE UNCHANGED reqs BY <2>1
  <2>2. CASE \E k : reqs' = Append(reqs, k)
    <3>1. PICK k : reqs' = Append(reqs, k) BY <2>2
    <3>2. Len(reqs) \in Nat /\ Len(reqs') = Len(reqs) + 1 BY <1>2, <3>1
    <3> QED BY <1>2, <3>1, <3>2
  <2> QED BY <1>1, <2>1, <2>2
<1> QED BY <1>3 DEF NoBegin

LEMMA InvNext ==
    ASSUME IInv, [Next]_vars PROVE IInv'
<1>1. Typed /\ Typed' BY TypedNext DEF IInv
<1>2. ASSUME NoBegin' PROVE Routed' /\ InLine' /\ Executed'
  <2>1. NoBegin /\ Routed /\ InLine /\ Executed BY <1>1, <1>2, ReqsGrow DEF IInv
  <2>2. CASE \E k \in Kinds : Same(ClientSend(k)) BY <1>1, <1>2, <2>1, <2>2, ClientSendOrder
  <2>3. CASE Same(ClientRecv) BY <1>1, <2>1, <2>3, ClientRecvOrder
  <2>4. CASE \E p \in Peer : Same(Vanish(p)) BY <1>1, <2>1, <2>4, VanishOrder
  <2>5. CASE \E b \in Backend : Same(BackendStep(b)) BY <1>1, <2>1, <2>5, BackendOrder
  <2>6. CASE Same(Worker) BY <1>1, <2>1, <2>6, WorkerOrder DEF Same
  <2>7. CASE UNCHANGED vars
    <3>1. UNCHANGED <<pc, in_txn, feout, saved, unsent, c2r, r2b, reqs, execs, copying>>
      BY <2>7 DEF vars, worker, client, servers
    <3>2. Routed' BY <2>1, <3>1 DEF Routed
    <3> QED BY <1>1, <2>1, <3>1, <3>2, Unmoved, Kept
  <2> QED BY <2>2, <2>3, <2>4, <2>5, <2>6, <2>7 DEF Next
<1> QED BY <1>1, <1>2 DEF IInv

LEMMA InvInit == Init => IInv
<1> SUFFICES ASSUME Init PROVE IInv OBVIOUS
<1>1. Typed BY TypedInit
<1>2. r2b["writer"] = <<>> /\ execs["writer"] = <<>> /\ copying["writer"] = 0 BY DEF Init, Backend
<1>3. Routed BY DEF Init, Routed, Plain
<1>4. InLine BY <1>2 DEF Init, InLine, Line, LineUpTo, Sorted, Before, Ahead, UpTo
<1>5. Executed BY <1>2 DEF Executed
<1> QED BY <1>1, <1>3, <1>4, <1>5 DEF IInv

LEMMA Inductive == Spec => []IInv
<1>1. Init => IInv BY InvInit
<1>2. IInv /\ [Next]_vars => IInv' BY InvNext
<1> QED BY <1>1, <1>2, PTL DEF Spec

\* Whatever the client and the backends send, and whoever vanishes, every
\* variable of the loop of handle_client keeps its type, and the loop looks at
\* the first message of a buffer only when there is one.
THEOREM SessionTyped == Spec => []TypeOK
<1>1. IInv => TypeOK BY TypedIsTypeOK DEF IInv
<1> QED BY <1>1, Inductive, PTL

\* In a session of any length that has not used BEGIN, the writer executes the
\* writes in the order in which the client issued them and none twice, whatever
\* is replayed to it, pipelined, copied or lost.
THEOREM WritesAreInOrder == Spec => []WritesInOrder
<1>1. IInv => WritesInOrder BY DEF IInv, NoBegin, Executed, WritesInOrder, WritesInOrderAlways
<1> QED BY <1>1, Inductive, PTL

-----------------------------------------------------------------------------
(* Tame sessions. *)

ReadKinds  == {"read", "bad", "xread", "commit", "quit"}
WriteKinds == {"write", "xwrite", "copy", "quit"}

Reads(x) == x.kinds \subseteq ReadKinds

\* The sorts of session pgrouter is made for: nothing but reads, however many of
\* them are pipelined and however their messages are cut, or nothing but writes,
\* one at a time and every message in one piece.
Tame == {x \in Mix : Reads(x) \/ (x.kinds \subseteq WriteKinds /\ x.window = 1 /\ ~x.split)}

\* The exchange of request n leads from position 2n to position 2n + 2, for those
\* who ask as for those who answer: each message is a step between two positions.
\* A CopyInResponse ends the exchange, and the data of the COPY starts it over.
From(m) == 2 * m.id + (IF m.t \in {"S", "Z"} THEN 1 ELSE 0)
To(m)   == 2 * m.id + (IF m.t \in {"Q", "X", "S", "c", "Z", "G"} THEN 2
                       ELSE IF m.t = "d" THEN 0 ELSE 1)

\* The messages of q, all of them in S, lead from position a to position b.
Leg(q, S, a, b) ==
    /\ q \in Seq(S)
    /\ q = <<>> => a = b
    /\ q # <<>> => /\ From(q[1]) = a /\ To(q[Len(q)]) = b
                   /\ \A i \in 1..(Len(q) - 1) : To(q[i]) = From(q[i + 1])

\* What opens the requests of a session of sort x, and the data of a COPY.
Plea(x) ==
    {m \in Ask : \/ m.t = "Q" /\ m.k \in (IF Reads(x) THEN {"read", "bad", "commit"}
                                                      ELSE {"write", "copy"})
                 \/ m.t = "P" /\ m.k = (IF Reads(x) THEN "read" ELSE "write")
                 \/ m.t \in {"S", "X"}}
Data == {m \in Ask : m.t \in {"d", "c"}}

InCopy == {"copy", "copysend"}

\* What the client, and what fe, still has to send of the first n requests while
\* the worker is at s.
Due(x, s, n) == {m \in (IF s \in InCopy THEN Data ELSE Plea(x)) : m.id <= n}

\* What a backend in mode md has been given of request e.
Given(x, md, e) == {m \in (IF md = "copy" THEN Data ELSE Plea(x)) : m.id = e}

\* What backend b says to request e, among peers of which those in u are up and
\* the backends are in the modes md: the reader refuses all there is to write,
\* the writer nothing.
Says(x, b, u, md, e) ==
    {m \in Reply :
        /\ m.id = e
        /\ Reads(x) => m.t # "G" /\ m.k # "25006"
        /\ ~Reads(x) /\ b = "reader" => m.t = "Z" \/ (m.t = "E" /\ m.k = "25006")
        /\ ~Reads(x) /\ b = "writer" => /\ m.k = "ok" /\ m.t # "E"
                                        /\ u[b] => (m.t = "G" <=> md[b] = "copy")}

\* What the client may be told of its first n requests while the worker is at s.
Told(x, s, n) ==
    {m \in Reply : /\ m.id <= n /\ m.k # "25006"
                   /\ ~Reads(x) => m.id = n
                   /\ m.t = "G" => ~Reads(x) /\ s \in InCopy \union {"done"}}

\* The client has got to the oldest request that is not answered yet; what is
\* under way to it leads on to position p.
Heard(p) ==
    up["client"] =>
        \E o \in {2 * zs + 2, 2 * zs + 3} : Leg(r2c, Told(mix, pc, Len(reqs)), o, p)

\* Backend b is not involved.
Quiet(b) == b2r[b] = <<>> /\ (up[b] => r2b[b] = <<>> /\ mode[b] = "idle")

Routes ==
    /\ befd = feout /\ befd = bein /\ in_txn = FALSE
    /\ tx = [b \in Backend |-> "none"]
    /\ Reads(mix) => befd = "reader"
    /\ \A b \in Backend : b # befd => Quiet(b)

\* Request e is the one in hand: what the backend in use has answered leads from
\* position a to h, ...
Answers(e, a, h) ==
    \E g \in Nat : /\ Leg(bebuf, Says(mix, befd, up, mode, e), a, g)
                   /\ Leg(b2r[befd], Says(mix, befd, up, mode, e), g, h)

\* ... what it has been given leads on to i, unless it is gone, ...
Handed(e, h, i) ==
    up[befd] =>
        /\ Leg(r2b[befd], Given(mix, mode[befd], e), h, i)
        /\ Reads(mix) => mode[befd] = "idle"
        /\ ~Reads(mix) /\ befd = "writer" => mode[befd] # "skip"
        /\ ~Reads(mix) /\ befd = "reader" =>
              mode[befd] # "copy" /\ (mode[befd] = "skip" => h = 2 * e + 1)

\* ... what the client has yet to send leads from i to the end of its last
\* request, ...
Waiting(i) ==
    \E j \in Nat : /\ Leg(unsent, Due(mix, pc, Len(reqs)), i, j)
                   /\ Leg(c2r, Due(mix, pc, Len(reqs)), j, 2 * Len(reqs) + 2)

\* ... and what the reader was sent of a write is kept until it is replayed.
Replay(e, i) ==
    ~Reads(mix) => /\ e \in {Len(reqs), Len(reqs) + 1}
                   /\ befd = "reader" => Leg(saved, Given(mix, "idle", e), 2 * e, i)
                   /\ befd = "writer" => saved = <<>>

\* The positions at each point of the loop: p is how far the client has been
\* answered, a where the rest of the answer starts, i how far the request has
\* been sent on.
Stage(e, p, a, i) ==
    /\ pc = "top" => /\ a = 2 * e /\ p = 2 * e /\ i = 2 * e
                     /\ bebuf = <<>> /\ Quiet(befd)
    /\ pc \in {"recvfe", "send"} =>
          /\ befd = "reader" /\ bebuf = <<>>
          /\ a = 2 * e /\ p = 2 * e /\ i \in {2 * e, 2 * e + 1}
    /\ pc \in {"recvbe", "dispatch"} =>
          /\ a = p /\ p \in {2 * e, 2 * e + 1} /\ i = 2 * e + 2 /\ e <= Len(reqs)
          /\ ~Reads(mix) /\ befd = "reader" => p = 2 * e
    /\ pc \in {"drain", "drainrecv"} =>
          /\ ~Reads(mix) /\ befd = "reader" /\ e <= Len(reqs)
          /\ p = 2 * e /\ a = 2 * e + 1 /\ i = 2 * e + 2
    /\ pc = "redirect" =>
          /\ ~Reads(mix) /\ befd = "reader" /\ e <= Len(reqs)
          /\ p = 2 * e /\ i = 2 * e + 2 /\ bebuf = <<>> /\ Quiet("reader")
    /\ pc \in InCopy =>
          /\ ~Reads(mix) /\ befd = "writer" /\ e <= Len(reqs)
          /\ a = p /\ i = p /\ p \in {2 * e, 2 * e + 2}
          /\ bebuf = <<>> /\ b2r["writer"] = <<>> /\ (up["writer"] => mode["writer"] = "copy")
          /\ up["client"] /\ p = 2 * e + 2 => Len(r2c) = 1 /\ r2c[1].t = "G"

Walk(e, p, a, h, i) ==
    /\ Answers(e, a, h) /\ Handed(e, h, i) /\ Waiting(i) /\ Replay(e, i)
    /\ Heard(p) /\ Stage(e, p, a, i)

InHand == Routes /\ \E e, p, a, h, i \in Nat : Walk(e, p, a, h, i)

\* The inductive invariant of a tame session: the messages on their way to the
\* client, in be, from the backend, to the backend, in fe and from the client
\* walk through the requests without a gap.
Steady ==
    /\ mix \in Tame
    /\ pc = "done" => \E p \in Nat : Heard(p)
    /\ pc # "done" => InHand

-----------------------------------------------------------------------------
(* Legs. *)

LEMMA NoLeg == ASSUME NEW S, NEW a PROVE Leg(<<>>, S, a, a)
BY DEF Leg

LEMMA OneLeg == ASSUME NEW S, NEW m \in S PROVE Leg(<<m>>, S, From(m), To(m))
<1>1. <<m>> \in Seq(S) /\ <<m>> # <<>> /\ Len(<<m>>) = 1 /\ <<m>>[1] = m OBVIOUS
<1> HIDE DEF From, To
<1> QED BY <1>1 DEF Leg

LEMMA TwoLegs ==
    ASSUME NEW S, NEW m \in S, NEW n \in S, To(m) = From(n)
    PROVE  Leg(<<m, n>>, S, From(m), To(n))
<1>1. /\ <<m, n>> \in Seq(S) /\ <<m, n>> # <<>> /\ Len(<<m, n>>) = 2
      /\ <<m, n>>[1] = m /\ <<m, n>>[2] = n
  OBVIOUS
<1>2. \A i \in 1..(2 - 1) : i = 1 OBVIOUS
<1> HIDE DEF From, To
<1> QED BY <1>1, <1>2 DEF Leg

\* The first message of a leg, and the rest.
LEMMA FirstStep ==
    ASSUME NEW S, NEW q, NEW a, NEW b, Leg(q, S, a, b), q # <<>>
    PROVE  /\ Head(q) \in S /\ Head(q) = q[1] /\ From(Head(q)) = a
           /\ Leg(Tail(q), S, To(Head(q)), b)
<1>1. q \in Seq(S) BY DEF Leg
<1>2. /\ Head(q) \in S /\ Tail(q) \in Seq(S) /\ Len(q) \in Nat \ {0}
      /\ Head(q) = q[1] /\ Len(Tail(q)) = Len(q) - 1
      /\ \A i \in 1..Len(Tail(q)) : Tail(q)[i] = q[i + 1] /\ i + 1 \in 1..Len(q)
  BY <1>1, FirstTaken
<1>3. /\ From(q[1]) = a /\ To(q[Len(q)]) = b
      /\ \A i \in 1..(Len(q) - 1) : To(q[i]) = From(q[i + 1])
  BY DEF Leg
<1> DEFINE t == Tail(q)
<1>4. /\ t \in Seq(S) /\ Len(t) = Len(q) - 1
      /\ \A i \in 1..Len(t) : t[i] = q[i + 1]
  BY <1>2
<1> HIDE DEF t, From, To
<1>5. CASE t = <<>>
  <2>0. Len(t) = 0 BY <1>5
  <2>a. Len(q) \in Nat /\ Len(t) = Len(q) - 1 BY <1>2, <1>4
  <2>1. Len(q) = 1 BY <2>0, <2>a
  <2> QED BY <1>2, <1>3, <1>4, <1>5, <2>1 DEF Leg, t
<1>6. CASE t # <<>>
  <2>1. Len(t) \in Nat /\ Len(t) # 0 BY <1>4, <1>6
  <2>2. t[1] = q[2] /\ t[Len(t)] = q[Len(q)] BY <1>2, <1>4, <2>1
  <2>3. From(t[1]) = To(q[1]) BY <1>2, <1>3, <1>4, <2>1, <2>2
  <2>4. ASSUME NEW i \in 1..(Len(t) - 1) PROVE To(t[i]) = From(t[i + 1])
    <3>1. i \in 1..Len(t) /\ i + 1 \in 1..Len(t) /\ i + 1 \in 1..(Len(q) - 1)
      BY <1>2, <1>4, <2>1
    <3>2. t[i] = q[i + 1] /\ t[i + 1] = q[(i + 1) + 1] BY <1>4, <3>1
    <3> QED BY <1>3, <3>1, <3>2
  <2> QED BY <1>2, <1>3, <1>4, <1>6, <2>2, <2>3, <2>4 DEF Leg, t
<1> QED BY <1>5, <1>6

\* One leg after the other.
LEMMA NextLeg ==
    ASSUME NEW S, NEW p, NEW q, NEW a, NEW b, NEW c, Leg(p, S, a, b), Leg(q, S, b, c)
    PROVE  Leg(p \o q, S, a, c)
<1>1. p \in Seq(S) /\ q \in Seq(S) BY DEF Leg
<1>2. CASE p = <<>>
  <2>1. p \o q = q BY <1>1, <1>2
  <2> QED BY <1>2, <2>1 DEF Leg
<1>3. CASE q = <<>>
  <2>1. p \o q = p BY <1>1, <1>3
  <2> QED BY <1>3, <2>1 DEF Leg
<1>4. CASE p # <<>> /\ q # <<>>
  <2> DEFINE g == p \o q
  <2>1. /\ g \in Seq(S) /\ Len(g) = Len(p) + Len(q)
        /\ \A i \in 1..Len(g) : g[i] = IF i <= Len(p) THEN p[i] ELSE q[i - Len(p)]
        /\ Len(p) \in Nat /\ Len(q) \in Nat
    BY <1>1, Glued
  <2>2. Len(p) # 0 /\ Len(q) # 0 BY <1>1, <1>4
  <2> HIDE DEF g, From, To
  <2>3. /\ g # <<>> /\ g[1] = p[1] /\ g[Len(g)] = q[Len(q)]
        /\ g[Len(p)] = p[Len(p)] /\ g[Len(p) + 1] = q[1]
    BY <2>1, <2>2
  <2>4. From(p[1]) = a /\ To(p[Len(p)]) = b /\ From(q[1]) = b /\ To(q[Len(q)]) = c
    BY <1>4 DEF Leg
  <2>5. ASSUME NEW i \in 1..(Len(g) - 1) PROVE To(g[i]) = From(g[i + 1])
    <3>1. CASE i < Len(p)
      <4>1. i \in 1..(Len(p) - 1) /\ g[i] = p[i] /\ g[i + 1] = p[i + 1] BY <2>1, <3>1
      <4> QED BY <1>4, <4>1 DEF Leg
    <3>2. CASE i = Len(p) BY <2>3, <2>4, <3>2
    <3>3. CASE i > Len(p)
      <4>1. /\ i - Len(p) \in 1..(Len(q) - 1) /\ g[i] = q[i - Len(p)]
            /\ g[i + 1] = q[(i - Len(p)) + 1]
        BY <2>1, <3>3
      <4> QED BY <1>4, <4>1 DEF Leg
    <3> QED BY <2>1, <3>1, <3>2, <3>3
  <2> QED BY <2>1, <2>3, <2>4, <2>5 DEF Leg, g
<1> QED BY <1>2, <1>3, <1>4

\* A leg cut in two.
LEMMA CutLeg ==
    ASSUME NEW S, NEW q, NEW a, NEW c, Leg(q, S, a, c), NEW n \in 1..Len(q),
           \A m \in S : To(m) \in Nat, a \in Nat
    PROVE  \E b \in Nat : /\ Leg(SubSeq(q, 1, n), S, a, b)
                          /\ Leg(SubSeq(q, n + 1, Len(q)), S, b, c)
<1> DEFINE f == SubSeq(q, 1, n)
           r == SubSeq(q, n + 1, Len(q))
<1>1. q \in Seq(S) BY DEF Leg
<1>2. /\ f \in Seq(S) /\ r \in Seq(S) /\ Len(f) = n /\ Len(r) = Len(q) - n
      /\ \A i \in 1..n : f[i] = q[i]
      /\ \A i \in 1..(Len(q) - n) : r[i] = q[n + i]
      /\ f # <<>>
  BY <1>1, Cut
<1>3. Len(q) \in Nat /\ n \in Nat /\ n >= 1 /\ n <= Len(q) /\ q # <<>> BY <1>1
<1>4. /\ From(q[1]) = a /\ To(q[Len(q)]) = c
      /\ \A i \in 1..(Len(q) - 1) : To(q[i]) = From(q[i + 1])
  BY <1>3 DEF Leg
<1> HIDE DEF f, r, From, To
<1>5. q[n] \in S /\ To(q[n]) \in Nat BY <1>1, <1>3
<1>6. Leg(f, S, a, To(q[n]))
  <2>1. f[1] = q[1] /\ f[Len(f)] = q[n] BY <1>2, <1>3
  <2>2. ASSUME NEW i \in 1..(Len(f) - 1) PROVE To(f[i]) = From(f[i + 1])
    <3>1. i \in 1..(Len(q) - 1) /\ f[i] = q[i] /\ f[i + 1] = q[i + 1] BY <1>2, <1>3
    <3> QED BY <1>4, <3>1
  <2> QED BY <1>2, <1>4, <2>1, <2>2 DEF Leg
<1>7. Leg(r, S, To(q[n]), c)
  <2>1. CASE r = <<>>
    <3>1. Len(q) = n BY <1>2, <1>3, <2>1
    <3> QED BY <1>2, <1>4, <2>1, <3>1 DEF Leg
  <2>2. CASE r # <<>>
    <3>1. Len(r) \in Nat /\ Len(r) # 0 BY <1>2, <2>2
    <3>a. 1 \in 1..(Len(q) - n) /\ Len(r) \in 1..(Len(q) - n) /\ n + Len(r) = Len(q)
      BY <1>2, <1>3, <3>1
    <3>b. r[1] = q[n + 1] /\ r[Len(r)] = q[n + Len(r)] BY <1>2, <3>a
    <3>2. r[1] = q[n + 1] /\ r[Len(r)] = q[Len(q)] /\ n \in 1..(Len(q) - 1)
      BY <1>3, <3>a, <3>b
    <3>3. ASSUME NEW i \in 1..(Len(r) - 1) PROVE To(r[i]) = From(r[i + 1])
      <4>1. /\ n + i \in 1..(Len(q) - 1) /\ r[i] = q[n + i] /\ r[i + 1] = q[(n + i) + 1]
        BY <1>2, <1>3, <3>1
      <4> QED BY <1>4, <4>1
    <3> QED BY <1>2, <1>4, <2>2, <3>2, <3>3 DEF Leg
  <2> QED BY <2>1, <2>2
<1> QED BY <1>5, <1>6, <1>7 DEF f, r

\* No leg starts where no message starts, and none ends where no message ends.
LEMMA NoStart ==
    ASSUME NEW S, NEW q, NEW a, NEW b, Leg(q, S, a, b), \A m \in S : From(m) # a
    PROVE  q = <<>> /\ a = b
<1>1. q # <<>> => q[1] \in S /\ From(q[1]) = a BY DEF Leg
<1> QED BY <1>1 DEF Leg

LEMMA NoEnd ==
    ASSUME NEW S, NEW q, NEW a, NEW b, Leg(q, S, a, b), \A m \in S : To(m) # b
    PROVE  q = <<>> /\ a = b
<1>1. q # <<>> => q[Len(q)] \in S /\ To(q[Len(q)]) = b BY DEF Leg
<1> QED BY <1>1 DEF Leg

\* A leg is one in a larger set.
LEMMA WiderLeg ==
    ASSUME NEW S, NEW T, NEW q, NEW a, NEW b, Leg(q, S, a, b), S \subseteq T
    PROVE  Leg(q, T, a, b)
<1>1. Seq(S) \subseteq Seq(T) OBVIOUS
<1> QED BY <1>1 DEF Leg
-----------------------------------------------------------------------------
(* The steps that messages make. *)

LEMMA PleaSteps ==
    ASSUME NEW x, NEW m \in Plea(x)
    PROVE  /\ m \in Ask /\ m.id \in Nat /\ m.t \in {"Q", "P", "S", "X"}
           /\ m.t \in {"Q", "X"} => From(m) = 2 * m.id /\ To(m) = 2 * m.id + 2
           /\ m.t = "P" => From(m) = 2 * m.id /\ To(m) = 2 * m.id + 1
           /\ m.t = "S" => From(m) = 2 * m.id + 1 /\ To(m) = 2 * m.id + 2
<1>1. m \in Ask /\ m.t \in {"Q", "P", "S", "X"} BY DEF Plea
<1>2. m.id \in Nat BY <1>1, SessionAssumption DEF Ask
<1> QED BY <1>1, <1>2 DEF From, To

LEMMA DataSteps ==
    ASSUME NEW m \in Data
    PROVE  /\ m \in Ask /\ m.id \in Nat /\ m.t \in {"d", "c"}
           /\ m.t = "d" => From(m) = 2 * m.id /\ To(m) = 2 * m.id
           /\ m.t = "c" => From(m) = 2 * m.id /\ To(m) = 2 * m.id + 2
<1>1. m \in Ask /\ m.t \in {"d", "c"} BY DEF Data
<1>2. m.id \in Nat BY <1>1, SessionAssumption DEF Ask
<1> QED BY <1>1, <1>2 DEF From, To

LEMMA ReplySteps ==
    ASSUME NEW m \in Reply
    PROVE  /\ m.id \in Nat /\ m.t \in {"C", "Z", "E", "G", "1"}
           /\ m.t \in {"C", "E", "1"} => From(m) = 2 * m.id /\ To(m) = 2 * m.id + 1
           /\ m.t = "G" => From(m) = 2 * m.id /\ To(m) = 2 * m.id + 2
           /\ m.t = "Z" => From(m) = 2 * m.id + 1 /\ To(m) = 2 * m.id + 2
<1>1. m.id \in Nat /\ m.t \in {"C", "Z", "E", "G", "1"} BY SessionAssumption DEF Reply
<1> QED BY <1>1 DEF From, To

\* The sets of messages, as positions.
LEMMA SaysSteps ==
    ASSUME NEW x, NEW b, NEW u, NEW md, NEW e \in Nat, NEW m \in Says(x, b, u, md, e)
    PROVE  /\ m \in Reply /\ m.id = e
           /\ From(m) \in {2 * e, 2 * e + 1} /\ To(m) \in {2 * e + 1, 2 * e + 2}
           /\ From(m) = 2 * e + 1 <=> m.t = "Z"
           /\ To(m) = 2 * e + 2 <=> m.t \in {"Z", "G"}
<1>1. m \in Reply /\ m.id = e BY DEF Says
<1> QED BY <1>1, ReplySteps

LEMMA GivenSteps ==
    ASSUME NEW x, NEW md, NEW e \in Nat, NEW m \in Given(x, md, e)
    PROVE  /\ m.id = e /\ m \in Plea(x) \union Data
           /\ From(m) \in {2 * e, 2 * e + 1} /\ To(m) \in {2 * e, 2 * e + 1, 2 * e + 2}
           /\ md # "copy" => m \in Plea(x) /\ To(m) # 2 * e
           /\ md = "copy" => m \in Data
<1>1. m.id = e /\ m \in (IF md = "copy" THEN Data ELSE Plea(x)) BY DEF Given
<1>2. CASE md = "copy" BY <1>1, <1>2, DataSteps
<1>3. CASE md # "copy" BY <1>1, <1>3, PleaSteps
<1> QED BY <1>2, <1>3

LEMMA DueSteps ==
    ASSUME NEW x, NEW s, NEW n \in Nat, NEW m \in Due(x, s, n)
    PROVE  /\ m.id \in Nat /\ m.id <= n
           /\ From(m) \in {2 * m.id, 2 * m.id + 1} /\ To(m) \in Nat
           /\ s \in InCopy => m \in Data
           /\ s \notin InCopy => m \in Plea(x)
<1>1. m.id <= n /\ m \in (IF s \in InCopy THEN Data ELSE Plea(x)) BY DEF Due
<1>2. CASE s \in InCopy BY <1>1, <1>2, DataSteps
<1>3. CASE s \notin InCopy BY <1>1, <1>3, PleaSteps
<1> QED BY <1>2, <1>3

LEMMA ToldSteps ==
    ASSUME NEW x, NEW s, NEW n \in Nat, NEW m \in Told(x, s, n)
    PROVE  /\ m \in Reply /\ m.id \in Nat /\ m.id <= n
           /\ From(m) \in {2 * m.id, 2 * m.id + 1} /\ To(m) \in {2 * m.id + 1, 2 * m.id + 2}
           /\ ~Reads(x) => m.id = n
<1>1. m \in Reply /\ m.id <= n /\ (~Reads(x) => m.id = n) BY DEF Told
<1> QED BY <1>1, ReplySteps

\* An exchange that is at its end has no more messages, and one that is at its
\* beginning has none behind it.
LEMMA SaysNoMore ==
    ASSUME NEW x, NEW b, NEW u, NEW md, NEW e \in Nat, NEW q, NEW a, NEW c,
           Leg(q, Says(x, b, u, md, e), a, c)
    PROVE  /\ a = 2 * e + 2 => q = <<>> /\ c = a
           /\ c = 2 * e => q = <<>> /\ a = c
           /\ q \in Seq(Reply)
<1>1. \A m \in Says(x, b, u, md, e) : From(m) # 2 * e + 2 /\ To(m) # 2 * e BY SaysSteps
<1>2. a = 2 * e + 2 => q = <<>> /\ c = a BY <1>1, NoStart
<1>3. c = 2 * e => q = <<>> /\ a = c BY <1>1, NoEnd
<1>4. Says(x, b, u, md, e) \subseteq Reply BY DEF Says
<1>5. Seq(Says(x, b, u, md, e)) \subseteq Seq(Reply) BY <1>4
<1> QED BY <1>2, <1>3, <1>5 DEF Leg

LEMMA GivenNoMore ==
    ASSUME NEW x, NEW md, NEW e \in Nat, NEW q, NEW a, NEW c, Leg(q, Given(x, md, e), a, c)
    PROVE  /\ a = 2 * e + 2 => q = <<>> /\ c = a
           /\ md # "copy" /\ c = 2 * e => q = <<>> /\ a = c
<1>1. \A m \in Given(x, md, e) : From(m) # 2 * e + 2 /\ (md # "copy" => To(m) # 2 * e)
  BY GivenSteps
<1>2. a = 2 * e + 2 => q = <<>> /\ c = a BY <1>1, NoStart
<1>3. md # "copy" /\ c = 2 * e => q = <<>> /\ a = c BY <1>1, NoEnd
<1> QED BY <1>2, <1>3

LEMMA DueNoMore ==
    ASSUME NEW x, NEW s, NEW n \in Nat, NEW q, NEW a \in Nat, NEW c,
           Leg(q, Due(x, s, n), a, c), a > 2 * n + 1
    PROVE  q = <<>> /\ c = a
<1>1. \A m \in Due(x, s, n) : From(m) # a BY DueSteps
<1> QED BY <1>1, NoStart

LEMMA ToldNoMore ==
    ASSUME NEW x, NEW s, NEW n \in Nat, NEW q, NEW a \in Nat, NEW c,
           Leg(q, Told(x, s, n), a, c)
    PROVE  /\ a > 2 * n + 1 => q = <<>> /\ c = a
           /\ ~Reads(x) /\ c = 2 * n => q = <<>> /\ a = c
<1>1. \A m \in Told(x, s, n) : /\ a > 2 * n + 1 => From(m) # a
                               /\ ~Reads(x) => To(m) # 2 * n
  BY ToldSteps
<1>2. a > 2 * n + 1 => q = <<>> /\ c = a BY <1>1, NoStart
<1>3. ~Reads(x) /\ c = 2 * n => q = <<>> /\ a = c BY <1>1, NoEnd
<1> QED BY <1>2, <1>3

\* What the client has to say is done once the last request has been sent.
LEMMA NoneWaiting ==
    ASSUME Typed, NEW i \in Nat, Waiting(i), i > 2 * Len(reqs) + 1
    PROVE  unsent = <<>> /\ c2r = <<>> /\ i = 2 * Len(reqs) + 2
<1>1. Len(reqs) \in Nat BY DEF Typed, ClientTyped
<1>2. PICK j \in Nat : /\ Leg(unsent, Due(mix, pc, Len(reqs)), i, j)
                       /\ Leg(c2r, Due(mix, pc, Len(reqs)), j, 2 * Len(reqs) + 2)
  BY DEF Waiting
<1>3. unsent = <<>> /\ j = i BY <1>1, <1>2, DueNoMore
<1>4. c2r = <<>> /\ 2 * Len(reqs) + 2 = j BY <1>1, <1>2, <1>3, DueNoMore
<1> QED BY <1>3, <1>4

\* Which of them depend on where the worker is.
LEMMA SameDue ==
    ASSUME NEW x, NEW s, NEW t, NEW n, s \in InCopy <=> t \in InCopy
    PROVE  Due(x, s, n) = Due(x, t, n)
BY DEF Due

LEMMA SameTold ==
    ASSUME NEW x, NEW s, NEW t, NEW n,
           s \in InCopy \union {"done"} => t \in InCopy \union {"done"}
    PROVE  Told(x, s, n) \subseteq Told(x, t, n)
BY DEF Told
-----------------------------------------------------------------------------
(* What a step that does not touch a part leaves of it. *)

LEMMA FewerSay ==
    ASSUME NEW x, NEW b, NEW u, NEW v, NEW md, NEW e, v[b] => u[b]
    PROVE  Says(x, b, u, md, e) \subseteq Says(x, b, v, md, e)
BY DEF Says

LEMMA AnswersKept ==
    ASSUME NEW e, NEW a, NEW h, Answers(e, a, h), up'[befd] => up[befd],
           UNCHANGED <<mix, befd, mode, bebuf, b2r>>
    PROVE  Answers(e, a, h)'
<1> DEFINE S == Says(mix, befd, up, mode, e)
           T == Says(mix, befd, up', mode, e)
<1>1. PICK g \in Nat : Leg(bebuf, S, a, g) /\ Leg(b2r[befd], S, g, h) BY DEF Answers
<1>2. S \subseteq T BY FewerSay
<1> HIDE DEF S, T
<1>3. Leg(bebuf, T, a, g) /\ Leg(b2r[befd], T, g, h) BY <1>1, <1>2, WiderLeg
<1> QED BY <1>3 DEF Answers, T

LEMMA HandedKept ==
    ASSUME NEW e, NEW h, NEW i, Handed(e, h, i), up'[befd] => up[befd],
           UNCHANGED <<mix, befd, mode, r2b>>
    PROVE  Handed(e, h, i)'
BY DEF Handed

LEMMA WaitingKept ==
    ASSUME NEW i, Waiting(i), pc' \in InCopy <=> pc \in InCopy,
           UNCHANGED <<mix, reqs, unsent, c2r>>
    PROVE  Waiting(i)'
<1>1. Due(mix, pc, Len(reqs)) = Due(mix, pc', Len(reqs)) BY SameDue
<1> QED BY <1>1 DEF Waiting

LEMMA ReplayKept ==
    ASSUME NEW e, NEW i, Replay(e, i), UNCHANGED <<mix, reqs, befd, saved>>
    PROVE  Replay(e, i)'
BY DEF Replay

LEMMA HeardKept ==
    ASSUME NEW p, Heard(p), up'["client"] => up["client"],
           pc \in InCopy \union {"done"} => pc' \in InCopy \union {"done"},
           UNCHANGED <<mix, reqs, zs, r2c>>
    PROVE  Heard(p)'
<1> SUFFICES ASSUME up'["client"]
             PROVE  \E o \in {2 * zs + 2, 2 * zs + 3} : Leg(r2c, Told(mix, pc', Len(reqs)), o, p)
  BY DEF Heard
<1>1. Told(mix, pc, Len(reqs)) \subseteq Told(mix, pc', Len(reqs)) BY SameTold
<1>2. PICK o \in {2 * zs + 2, 2 * zs + 3} : Leg(r2c, Told(mix, pc, Len(reqs)), o, p) BY DEF Heard
<1>3. Leg(r2c, Told(mix, pc', Len(reqs)), o, p) BY <1>1, <1>2, WiderLeg
<1> QED BY <1>3

LEMMA QuietKept ==
    ASSUME NEW b, Quiet(b), up'[b] => up[b], b2r'[b] = b2r[b], r2b'[b] = r2b[b],
           mode'[b] = mode[b]
    PROVE  Quiet(b)'
BY DEF Quiet

\* A session that is over: only what is under way to the client matters.
LEMMA OverKept ==
    ASSUME Steady, pc' = "done", up'["client"] => up["client"], UNCHANGED <<mix, reqs, zs, r2c>>
    PROVE  Steady'
<1>1. \E p \in Nat : Heard(p) BY DEF Steady, InHand, Walk
<1>2. PICK p \in Nat : Heard(p) BY <1>1
<1>3. Heard(p)' BY <1>2, HeardKept
<1> QED BY <1>3 DEF Steady

\* Someone goes away, or nothing happens.
LEMMA FewerWalk ==
    ASSUME Steady, Typed, UNCHANGED <<mix, worker, c2r, r2c, r2b, b2r, client, servers>>,
           \A q \in Peer : up'[q] => up[q]
    PROVE  Steady'
<1>1. CASE pc = "done" BY <1>1, OverKept DEF Peer, worker, client
<1>2. CASE pc # "done"
  <2>1. UNCHANGED <<mix, pc, in_txn, befd, feout, bein, saved, unsent, bebuf, c2r, r2c, r2b, b2r,
                    reqs, zs, mode, tx>>
    BY DEF worker, client, servers
  <2>2. befd \in Backend /\ Backend \subseteq Peer /\ "client" \in Peer
    BY DEF Typed, WorkerTyped, Backend, Peer
  <2>3. Routes /\ \E e, p, a, h, i \in Nat : Walk(e, p, a, h, i) BY <1>2 DEF Steady, InHand
  <2>4. Routes'
    <3>1. \A b \in Backend : Quiet(b) => Quiet(b)' BY <2>1, <2>2 DEF Quiet
    <3> QED BY <2>1, <2>3, <3>1 DEF Routes
  <2>5. PICK e \in Nat, p \in Nat, a \in Nat, h \in Nat, i \in Nat : Walk(e, p, a, h, i) BY <2>3
  <2>6. Answers(e, a, h)' BY <2>1, <2>2, <2>5, AnswersKept DEF Walk
  <2>7. Handed(e, h, i)' BY <2>1, <2>2, <2>5, HandedKept DEF Walk
  <2>8. Waiting(i)' BY <2>1, <2>5, WaitingKept DEF Walk
  <2>9. Replay(e, i)' BY <2>1, <2>5, ReplayKept DEF Walk
  <2>10. Heard(p)' BY <2>1, <2>2, <2>5, HeardKept DEF Walk
  <2>11. Stage(e, p, a, i)'
    <3>1. \A b \in Backend : Quiet(b) => Quiet(b)' BY <2>1, <2>2 DEF Quiet
    <3>2. "reader" \in Backend /\ "writer" \in Backend BY DEF Backend
    <3>3. Stage(e, p, a, i) BY <2>5 DEF Walk
    <3> QED BY <2>1, <2>2, <3>1, <3>2, <3>3 DEF Stage
  <2>12. Walk(e, p, a, h, i)' BY <2>6, <2>7, <2>8, <2>9, <2>10, <2>11 DEF Walk
  <2>13. InHand' BY <2>4, <2>12 DEF InHand
  <2> QED BY <1>2, <2>1, <2>13 DEF Steady
<1> QED BY <1>1, <1>2
-----------------------------------------------------------------------------
(* The client of a tame session. *)

LEMMA TameMix ==
    ASSUME mix \in Tame
    PROVE  /\ Kinds \subseteq AllKinds
           /\ Reads(mix) => Kinds \subseteq ReadKinds
           /\ ~Reads(mix) => Kinds \subseteq WriteKinds /\ Window = 1 /\ ~Split
<1>1. mix \in Mix BY DEF Tame
<1>2. mix.kinds \subseteq AllKinds BY <1>1 DEF Mix
<1> QED BY <1>2 DEF Tame, Reads, Kinds, Window, Split

\* The messages that open a request walk through it.
LEMMA OpeningLeg ==
    ASSUME mix \in Tame, NEW k \in Kinds, NEW n \in 1..MaxReqs, NEW s \in Step, s \notin InCopy
    PROVE  Leg(Opening(k, n), Due(mix, s, n), 2 * n, 2 * n + 2)
<1> DEFINE D == Due(mix, s, n)
<1>1. k \in AllKinds /\ n \in Nat /\ n \in 0..MaxReqs /\ n <= n BY TameMix, SessionAssumption
<1>2. D = {m \in Plea(mix) : m.id <= n} BY DEF Due
<1>3. \A t, kk : Msg(t, n, kk).t = t /\ Msg(t, n, kk).id = n /\ Msg(t, n, kk).k = kk BY DEF Msg
<1>4. /\ \A kk : From(Msg("Q", n, kk)) = 2 * n /\ To(Msg("Q", n, kk)) = 2 * n + 2
      /\ \A kk : From(Msg("X", n, kk)) = 2 * n /\ To(Msg("X", n, kk)) = 2 * n + 2
      /\ \A kk : From(Msg("P", n, kk)) = 2 * n /\ To(Msg("P", n, kk)) = 2 * n + 1
      /\ \A kk : From(Msg("S", n, kk)) = 2 * n + 1 /\ To(Msg("S", n, kk)) = 2 * n + 2
  BY <1>1, <1>3 DEF From, To
<1>5. /\ \A t \in {"P", "S", "X"}, kk \in {"read", "write", "sync", "quit"} : Msg(t, n, kk) \in Ask
      /\ k \in Queries => Msg("Q", n, k) \in Ask
  BY <1>1 DEF Msg, Ask, AllKinds, Queries
<1> HIDE DEF D
<1>6. CASE k = "quit"
  <2>1. Opening(k, n) = <<Msg("X", n, "quit")>> BY <1>6 DEF Opening
  <2>2. Msg("X", n, "quit") \in Plea(mix) BY <1>3, <1>5 DEF Plea
  <2>3. Msg("X", n, "quit") \in D BY <1>1, <1>2, <1>3, <2>2
  <2>4. Leg(<<Msg("X", n, "quit")>>, D, From(Msg("X", n, "quit")), To(Msg("X", n, "quit")))
    BY <2>3, OneLeg
  <2> QED BY <1>4, <2>1, <2>4 DEF D
<1>7. CASE k \in {"xread", "xwrite"}
  <2>1. PICK kk : /\ kk = (IF k = "xread" THEN "read" ELSE "write")
                  /\ kk = IF Reads(mix) THEN "read" ELSE "write"
    <3>1. k = "xread" <=> Reads(mix) BY <1>7, TameMix DEF ReadKinds, WriteKinds
    <3> QED BY <3>1
  <2>2. Opening(k, n) = <<Msg("P", n, kk), Msg("S", n, "sync")>> BY <1>7, <2>1 DEF Opening
  <2>3. Msg("P", n, kk) \in Plea(mix) BY <1>3, <1>5, <2>1 DEF Plea
  <2>4. Msg("S", n, "sync") \in Plea(mix) BY <1>3, <1>5 DEF Plea
  <2>5. Msg("P", n, kk) \in D /\ Msg("S", n, "sync") \in D BY <1>1, <1>2, <1>3, <2>3, <2>4
  <2>6. To(Msg("P", n, kk)) = From(Msg("S", n, "sync")) BY <1>4
  <2>7. Leg(<<Msg("P", n, kk), Msg("S", n, "sync")>>, D, From(Msg("P", n, kk)),
            To(Msg("S", n, "sync")))
    BY <2>5, <2>6, TwoLegs
  <2> QED BY <1>4, <2>2, <2>7 DEF D
<1>8. CASE k \notin {"quit", "xread", "xwrite"}
  <2>1. k \in (IF Reads(mix) THEN {"read", "bad", "commit"} ELSE {"write", "copy"})
    BY <1>8, TameMix DEF ReadKinds, WriteKinds
  <2>2. k \in Queries /\ Opening(k, n) = <<Msg("Q", n, k)>> BY <2>1 DEF Opening, Queries
  <2>3. Msg("Q", n, k) \in Plea(mix) BY <1>3, <1>5, <2>1, <2>2 DEF Plea
  <2>4. Msg("Q", n, k) \in D BY <1>1, <1>2, <1>3, <2>3
  <2>5. Leg(<<Msg("Q", n, k)>>, D, From(Msg("Q", n, k)), To(Msg("Q", n, k))) BY <2>4, OneLeg
  <2> QED BY <1>4, <2>2, <2>5 DEF D
<1> QED BY <1>6, <1>7, <1>8

\* A client that writes has one request at a time: when it issues the next one,
\* the worker is waiting for it.
LEMMA ReadyForNext ==
    ASSUME Typed, mix \in Tame, ~Reads(mix), up["client"], zs = Len(reqs),
           NEW e \in Nat, NEW p \in Nat, NEW a \in Nat, NEW h \in Nat, NEW i \in Nat,
           Walk(e, p, a, h, i), pc # "done"
    PROVE  /\ e = Len(reqs) + 1 /\ pc \notin InCopy /\ pc \in {"top", "recvfe", "send"}
           /\ unsent = <<>> /\ c2r = <<>> /\ r2c = <<>> /\ i = 2 * Len(reqs) + 2
<1>1. PICK n \in Nat : n = Len(reqs) BY DEF Typed, ClientTyped
<1>2. PICK o \in {2 * n + 2, 2 * n + 3} : Leg(r2c, Told(mix, pc, n), o, p)
  BY <1>1 DEF Walk, Heard
<1>3. r2c = <<>> /\ p = o BY <1>2, ToldNoMore
<1>4. e \in {n, n + 1} BY <1>1 DEF Walk, Replay
<1>5. pc \in Step BY DEF Typed, WorkerTyped
<1>6. pc \in {"top", "recvfe", "send"}
  <2>1. Stage(e, p, a, i) BY DEF Walk
  <2>2. pc \notin {"recvbe", "dispatch"}
    <3>1. pc \in {"recvbe", "dispatch"} => p \in {2 * e, 2 * e + 1} /\ e <= n
      BY <1>1, <2>1 DEF Stage
    <3>2. ~(p \in {2 * e, 2 * e + 1} /\ e <= n) BY <1>2, <1>3, <1>4
    <3> QED BY <3>1, <3>2
  <2>3. pc \notin {"drain", "drainrecv", "redirect"} BY <1>1, <1>2, <1>3, <2>1 DEF Stage
  <2>4. pc \notin {"copy", "copysend"}
    <3>1. Len(r2c) = 0 BY <1>3
    <3> QED BY <1>1, <1>2, <1>3, <1>4, <2>1, <3>1 DEF Stage, InCopy
  <2> QED BY <1>5, <2>2, <2>3, <2>4 DEF Step
<1>7. p = 2 * e /\ i \in {2 * e, 2 * e + 1} BY <1>6 DEF Walk, Stage
<1>8. e = n + 1 BY <1>2, <1>3, <1>4, <1>7
<1>9. unsent = <<>> /\ c2r = <<>> /\ i = 2 * n + 2
  <2>1. i > 2 * Len(reqs) + 1 BY <1>1, <1>7, <1>8
  <2> QED BY <1>1, <2>1, NoneWaiting DEF Walk
<1> QED BY <1>1, <1>3, <1>6, <1>8, <1>9 DEF InCopy

LEMMA ClientSendSteady ==
    ASSUME Typed, Steady, NEW k \in Kinds, Same(ClientSend(k)) PROVE Steady'
<1>1. PICK n \in Nat : n = Len(reqs) BY DEF Typed, ClientTyped
<1>2. /\ pc # "done" /\ up["client"] /\ n < MaxReqs /\ n - zs < Window
      /\ reqs' = Append(reqs, k) /\ c2r' = c2r \o Opening(k, n + 1)
      /\ UNCHANGED <<mix, pc, in_txn, befd, feout, bein, saved, unsent, bebuf, r2c, r2b, b2r,
                     up, zs, mode, tx>>
  BY <1>1 DEF Same, ClientSend, worker, servers
<1>3. Len(reqs') = n + 1 /\ n + 1 \in 1..MaxReqs /\ n + 1 \in Nat
  BY <1>1, <1>2, SessionAssumption DEF Typed, ClientTyped
<1>4. mix \in Tame /\ Routes /\ \E e, p, a, h, i \in Nat : Walk(e, p, a, h, i)
  BY <1>2 DEF Steady, InHand
<1>5. Routes' BY <1>2, <1>4 DEF Routes, Quiet
<1>6. PICK e \in Nat, p \in Nat, a \in Nat, h \in Nat, i \in Nat : Walk(e, p, a, h, i) BY <1>4
<1>7. pc \in Step /\ befd \in Backend /\ zs \in 0..n BY <1>1 DEF Typed, WorkerTyped, ClientTyped
<1>8. Answers(e, a, h)' BY <1>2, <1>6, AnswersKept DEF Walk
<1>9. Handed(e, h, i)' BY <1>2, <1>6, HandedKept DEF Walk
<1>10. ~Reads(mix) => zs = n BY <1>2, <1>4, <1>7, TameMix
<1>11. pc \notin InCopy
  <2>1. Reads(mix) => pc \notin InCopy BY <1>6 DEF Walk, Stage
  <2>2. ~Reads(mix) => pc \notin InCopy BY <1>1, <1>2, <1>4, <1>6, <1>10, ReadyForNext
  <2> QED BY <2>1, <2>2
<1>12. Leg(Opening(k, n + 1), Due(mix, pc, n + 1), 2 * n + 2, 2 * (n + 1) + 2)
  <2>1. Leg(Opening(k, n + 1), Due(mix, pc, n + 1), 2 * (n + 1), 2 * (n + 1) + 2)
    BY <1>3, <1>4, <1>7, <1>11, OpeningLeg
  <2>2. 2 * (n + 1) = 2 * n + 2 OBVIOUS
  <2> QED BY <2>1, <2>2
<1>13. Waiting(i)'
  <2>1. PICK j \in Nat : /\ Leg(unsent, Due(mix, pc, n), i, j)
                         /\ Leg(c2r, Due(mix, pc, n), j, 2 * n + 2)
    BY <1>1, <1>6 DEF Walk, Waiting
  <2>2. Due(mix, pc, n) \subseteq Due(mix, pc, n + 1)
    <3>1. \A m \in Due(mix, pc, n) : m.id \in Nat /\ m.id <= n BY DueSteps
    <3>2. \A m \in Due(mix, pc, n) : m.id <= n + 1 BY <3>1
    <3> QED BY <3>2 DEF Due
  <2>3. Leg(unsent, Due(mix, pc, n + 1), i, j) BY <2>1, <2>2, WiderLeg
  <2>4. Leg(c2r, Due(mix, pc, n + 1), j, 2 * n + 2) BY <2>1, <2>2, WiderLeg
  <2>5. Leg(c2r', Due(mix, pc, n + 1), j, 2 * (n + 1) + 2) BY <1>2, <1>12, <2>4, NextLeg
  <2> QED BY <1>2, <1>3, <2>3, <2>5 DEF Waiting
<1>14. Replay(e, i)'
  <2>1. ~Reads(mix) => e = n + 1 BY <1>1, <1>2, <1>4, <1>6, <1>10, ReadyForNext
  <2> QED BY <1>2, <1>3, <1>6, <2>1 DEF Walk, Replay
<1>15. Heard(p)'
  <2>1. PICK o \in {2 * zs + 2, 2 * zs + 3} : Leg(r2c, Told(mix, pc, n), o, p)
    BY <1>1, <1>2, <1>6 DEF Walk, Heard
  <2>2. CASE Reads(mix)
    <3>1. Told(mix, pc, n) \subseteq Told(mix, pc, n + 1)
      <4>1. \A m \in Told(mix, pc, n) : m.id \in Nat /\ m.id <= n BY ToldSteps
      <4>2. \A m \in Told(mix, pc, n) : m.id <= n + 1 BY <4>1
      <4> QED BY <2>2, <4>2 DEF Told
    <3>2. Leg(r2c, Told(mix, pc, n + 1), o, p) BY <2>1, <3>1, WiderLeg
    <3> QED BY <1>2, <1>3, <3>2 DEF Heard
  <2>3. CASE ~Reads(mix)
    <3>1. r2c = <<>> BY <1>1, <1>2, <1>4, <1>6, <1>10, <2>3, ReadyForNext
    <3>2. o = p BY <2>1, <3>1 DEF Leg
    <3>3. Leg(r2c, Told(mix, pc, n + 1), o, p) BY <3>1, <3>2, NoLeg
    <3> QED BY <1>2, <1>3, <3>3 DEF Heard
  <2> QED BY <2>2, <2>3
<1>16. Stage(e, p, a, i)'
  <2>1. e <= Len(reqs) => e <= Len(reqs') BY <1>1, <1>3
  <2>2. Stage(e, p, a, i) BY <1>6 DEF Walk
  <2>3. \A b : Quiet(b) => Quiet(b)' BY <1>2 DEF Quiet
  <2> QED BY <1>2, <2>1, <2>2, <2>3 DEF Stage
<1>17. InHand'
  <2>1. Walk(e, p, a, h, i)' BY <1>8, <1>9, <1>13, <1>14, <1>15, <1>16 DEF Walk
  <2> QED BY <1>5, <2>1 DEF InHand
<1> QED BY <1>2, <1>4, <1>17 DEF Steady

\* What the client sends on top of a COPY walks through the request again.
LEMMA CopyLeg ==
    ASSUME NEW n \in 1..MaxReqs, NEW s \in InCopy, NEW x
    PROVE  Leg(<<Msg("d", n, "data"), Msg("c", n, "done")>>, Due(x, s, n), 2 * n, 2 * n + 2)
<1> DEFINE d == Msg("d", n, "data")
           c == Msg("c", n, "done")
<1>1. n \in Nat /\ n \in 0..MaxReqs /\ n <= n BY SessionAssumption
<1>2. d.t = "d" /\ d.id = n /\ c.t = "c" /\ c.id = n /\ d \in Ask /\ c \in Ask
  BY <1>1 DEF Msg, Ask
<1> HIDE DEF d, c
<1>3. d \in Data /\ c \in Data BY <1>2 DEF Data
<1>4. d \in Due(x, s, n) /\ c \in Due(x, s, n) BY <1>1, <1>2, <1>3 DEF Due
<1>5. From(d) = 2 * n /\ To(d) = 2 * n /\ From(c) = 2 * n /\ To(c) = 2 * n + 2
  BY <1>2, <1>3, DataSteps
<1>6. Leg(<<d, c>>, Due(x, s, n), From(d), To(c)) BY <1>4, <1>5, TwoLegs
<1> QED BY <1>5, <1>6 DEF d, c

\* The client only ever receives what it waits for: a message of its oldest
\* unanswered request, and never a refusal of the reader.
LEMMA RecvIsOwn ==
    ASSUME Typed, mix \in Tame, NEW p \in Nat, Heard(p), Same(ClientRecv)
    PROVE  /\ Awaiting(zs + 1) /\ Head(r2c).id = zs + 1 /\ Head(r2c).k \in {"ok", "other"}
           /\ Head(r2c) \in Told(mix, pc, Len(reqs))
           /\ Leg(Tail(r2c), Told(mix, pc, Len(reqs)), To(Head(r2c)), p)
<1>1. PICK n \in Nat : n = Len(reqs) BY DEF Typed, ClientTyped
<1>2. up["client"] /\ r2c # <<>> /\ zs \in 0..n BY <1>1 DEF Same, ClientRecv, Typed, ClientTyped
<1>3. PICK o \in {2 * zs + 2, 2 * zs + 3} : Leg(r2c, Told(mix, pc, n), o, p)
  BY <1>1, <1>2 DEF Heard
<1> DEFINE m == Head(r2c)
<1>4. m \in Told(mix, pc, n) /\ From(m) = o /\ Leg(Tail(r2c), Told(mix, pc, n), To(m), p)
  BY <1>2, <1>3, FirstStep
<1> HIDE DEF m
<1>5. /\ m \in Reply /\ m.id \in Nat /\ m.id <= n /\ From(m) \in {2 * m.id, 2 * m.id + 1}
  BY <1>4, ToldSteps
<1>6. m.id = zs + 1 BY <1>2, <1>3, <1>4, <1>5
<1>7. m.k \in {"ok", "other"} BY <1>4 DEF Told, Reply
<1> QED BY <1>1, <1>2, <1>4, <1>5, <1>6, <1>7 DEF m, Awaiting

LEMMA ClientRecvSteady ==
    ASSUME Typed, Steady, Same(ClientRecv) PROVE Steady'
<1>1. PICK n \in Nat : n = Len(reqs) BY DEF Typed, ClientTyped
<1>2. /\ r2c # <<>> /\ r2c' = Tail(r2c) /\ mix \in Tame /\ zs \in 0..n
      /\ UNCHANGED <<mix, pc, in_txn, befd, feout, bein, saved, unsent, bebuf, r2b, b2r, up, reqs,
                     mode, tx>>
  BY <1>1 DEF Same, ClientRecv, worker, servers, Steady, Typed, ClientTyped
<1>3. \E p \in Nat : Heard(p) BY DEF Steady, InHand, Walk
<1> DEFINE m == Head(r2c)
<1>4. Awaiting(zs + 1) /\ m.id = zs + 1 /\ m \in Told(mix, pc, n)
  BY <1>1, <1>2, <1>3, RecvIsOwn
<1>5. zs' = (IF m.t = "Z" THEN zs + 1 ELSE zs) /\ c2r' = c2r \o FollowUp(m, zs + 1)
  BY <1>4 DEF Same, ClientRecv
<1>6. zs + 1 \in 1..n /\ reqs[zs + 1] \in Kinds BY <1>1, <1>2, <1>4 DEF Awaiting, Typed, ClientTyped
<1>7. reqs[zs + 1] \notin {"flush", "copyfail"} BY <1>2, <1>6, TameMix DEF ReadKinds, WriteKinds
<1>8. c2r \in Seq(Ask) BY DEF Typed, AsksTyped
<1>a. ASSUME NEW p \in Nat, Heard(p)
      PROVE  Leg(Tail(r2c), Told(mix, pc, n), To(m), p)
  BY <1>1, <1>2, <1>a, RecvIsOwn
<1> HIDE DEF m
<1>9. m \in Reply BY <1>1, <1>4, ToldSteps
<1>10. CASE m.t # "G"
  <2>1. c2r' = c2r
    <3>1. FollowUp(m, zs + 1) = <<>> BY <1>7, <1>10 DEF FollowUp
    <3> QED BY <1>5, <1>8, <3>1
  <2>2. To(m) \in {2 * zs' + 2, 2 * zs' + 3}
    <3>1. m.t = "Z" => To(m) = 2 * (zs + 1) + 2 BY <1>4, <1>9, ReplySteps
    <3>2. m.t # "Z" => To(m) = 2 * (zs + 1) + 1 BY <1>4, <1>9, <1>10, ReplySteps
    <3> QED BY <1>2, <1>5, <3>1, <3>2
  <2>3. ASSUME NEW p \in Nat, Heard(p) PROVE Heard(p)'
    <3>1. Leg(r2c', Told(mix, pc, n), To(m), p) BY <1>2, <1>a, <2>3
    <3> QED BY <1>1, <1>2, <2>2, <3>1 DEF Heard
  <2>4. CASE pc = "done" BY <1>2, <1>3, <2>3, <2>4 DEF Steady
  <2>5. CASE pc # "done"
    <3>1. PICK e \in Nat, p \in Nat, a \in Nat, h \in Nat, i \in Nat : Walk(e, p, a, h, i)
      BY <2>5 DEF Steady, InHand
    <3>2. Routes' BY <1>2, <2>5 DEF Steady, InHand, Routes, Quiet
    <3>3. Answers(e, a, h)' BY <1>2, <3>1, AnswersKept DEF Walk
    <3>4. Handed(e, h, i)' BY <1>2, <3>1, HandedKept DEF Walk
    <3>5. Waiting(i)' BY <1>2, <2>1, <3>1, WaitingKept DEF Walk
    <3>6. Replay(e, i)' BY <1>2, <3>1, ReplayKept DEF Walk
    <3>7. Heard(p)' BY <2>3, <3>1 DEF Walk
    <3>8. Stage(e, p, a, i)'
      <4>1. Stage(e, p, a, i) BY <3>1 DEF Walk
      <4>2. \A b : Quiet(b) => Quiet(b)' BY <1>2 DEF Quiet
      <4>3. ~(Len(r2c) = 1 /\ r2c[1].t = "G")
        <5>1. m = r2c[1] BY <1>2 DEF m, Typed, RepliesTyped
        <5> QED BY <1>10, <5>1
      <4>4. ~(up["client"] /\ p = 2 * e + 2 /\ pc \in InCopy) BY <4>1, <4>3 DEF Stage
      <4> QED BY <1>2, <4>1, <4>2, <4>4 DEF Stage
    <3>9. Walk(e, p, a, h, i)' BY <3>3, <3>4, <3>5, <3>6, <3>7, <3>8 DEF Walk
    <3>10. InHand' BY <3>2, <3>9 DEF InHand
    <3> QED BY <1>2, <2>5, <3>10 DEF Steady
  <2> QED BY <2>4, <2>5
<1>11. CASE m.t = "G"
  <2>1. ~Reads(mix) /\ pc \in InCopy \union {"done"} /\ m.id = n BY <1>4, <1>11 DEF Told
  <2>2. zs + 1 = n /\ zs' = zs /\ To(m) = 2 * n + 2 /\ 2 * zs + 2 = 2 * n
    <3>1. To(m) = 2 * m.id + 2 BY <1>9, <1>11, ReplySteps
    <3>2. zs + 1 = n /\ zs' = zs BY <1>4, <1>5, <1>11, <2>1
    <3> QED BY <1>2, <2>1, <3>1, <3>2
  <2>3. Tail(r2c) = <<>>
    <3>1. PICK p \in Nat : Heard(p) BY <1>3
    <3>2. Leg(Tail(r2c), Told(mix, pc, n), 2 * n + 2, p) BY <1>a, <2>2, <3>1
    <3>3. 2 * n + 2 \in Nat /\ 2 * n + 2 > 2 * n + 1 OBVIOUS
    <3>4. PICK t : t = Tail(r2c) OBVIOUS
    <3>5. Leg(t, Told(mix, pc, n), 2 * n + 2, p) BY <3>2, <3>4
    <3>6. t = <<>> BY <3>3, <3>5, ToldNoMore
    <3> QED BY <3>4, <3>6
  <2>4. Heard(2 * n)'
    <3>1. Leg(<<>>, Told(mix, pc, n), 2 * n, 2 * n) BY NoLeg
    <3>2. Leg(r2c', Told(mix, pc, n), 2 * n, 2 * n) BY <1>2, <2>3, <3>1
    <3> QED BY <1>1, <1>2, <2>2, <3>2 DEF Heard
  <2>5. CASE pc = "done" BY <1>2, <2>4, <2>5 DEF Steady
  <2>6. CASE pc # "done"
    <3>1. PICK e \in Nat, p \in Nat, a \in Nat, h \in Nat, i \in Nat : Walk(e, p, a, h, i)
      BY <2>6 DEF Steady, InHand
    <3>2. Routes' BY <1>2, <2>6 DEF Steady, InHand, Routes, Quiet
    <3>3. pc \in InCopy BY <2>1, <2>6
    <3>4. /\ befd = "writer" /\ a = p /\ i = p /\ p \in {2 * e, 2 * e + 2} /\ e <= n
          /\ bebuf = <<>> /\ b2r["writer"] = <<>> /\ (up["writer"] => mode["writer"] = "copy")
      BY <1>1, <3>1, <3>3 DEF Walk, Stage
    <3>5. e = n BY <1>1, <2>1, <3>1, <3>4 DEF Walk, Replay
    <3>6. p = 2 * n + 2
      <4>1. Leg(Tail(r2c), Told(mix, pc, n), 2 * n + 2, p) BY <1>a, <2>2, <3>1 DEF Walk
      <4> QED BY <4>1, ToldNoMore
    <3>7. unsent = <<>> /\ c2r = <<>>
      <4>1. i > 2 * Len(reqs) + 1 BY <1>1, <3>4, <3>6
      <4> QED BY <3>1, <4>1, NoneWaiting DEF Walk
    <3>8. c2r' = <<Msg("d", n, "data"), Msg("c", n, "done")>>
      <4>1. FollowUp(m, n) = <<Msg("d", n, "data"), Msg("c", n, "done")>>
        BY <1>7, <1>11, <2>2 DEF FollowUp
      <4> QED BY <1>5, <2>2, <3>7, <4>1
    <3>9. Answers(n, 2 * n, 2 * n)'
      <4>1. 2 * n \in Nat OBVIOUS
      <4>2. Leg(<<>>, Says(mix, befd, up, mode, n), 2 * n, 2 * n) BY NoLeg
      <4> QED BY <1>2, <3>4, <4>1, <4>2 DEF Answers
    <3>10. Handed(n, 2 * n, 2 * n)'
      <4>1. PICK g \in Nat : /\ Leg(bebuf, Says(mix, befd, up, mode, e), a, g)
                             /\ Leg(b2r[befd], Says(mix, befd, up, mode, e), g, h)
        BY <3>1 DEF Walk, Answers
      <4>2. h = 2 * n + 2 BY <3>4, <3>6, <4>1 DEF Leg
      <4>3. up[befd] => Leg(r2b[befd], Given(mix, mode[befd], n), 2 * n + 2, i)
        BY <3>1, <3>5, <4>2 DEF Walk, Handed
      <4>4. up[befd] => r2b[befd] = <<>> BY <4>3, GivenNoMore
      <4>5. Leg(<<>>, Given(mix, mode[befd], n), 2 * n, 2 * n) BY NoLeg
      <4> QED BY <1>2, <2>1, <3>4, <4>4, <4>5 DEF Handed
    <3>11. Waiting(2 * n)'
      <4>1. Leg(<<>>, Due(mix, pc, n), 2 * n, 2 * n) /\ 2 * n \in Nat BY NoLeg
      <4>2. n \in 1..MaxReqs BY <1>1, <1>6, SessionAssumption DEF Typed, ClientTyped
      <4>3. Leg(c2r', Due(mix, pc, n), 2 * n, 2 * n + 2) BY <3>3, <3>8, <4>2, CopyLeg
      <4> QED BY <1>1, <1>2, <3>7, <4>1, <4>3 DEF Waiting
    <3>12. Replay(n, 2 * n)' BY <1>1, <1>2, <3>1, <3>4, <3>5 DEF Walk, Replay
    <3>13. Stage(n, 2 * n, 2 * n, 2 * n)'
      <4>1. pc \in {"copy", "copysend"} BY <3>3 DEF InCopy
      <4>2. 2 * n # 2 * n + 2 /\ n <= n OBVIOUS
      <4>3. /\ pc' = pc /\ ~Reads(mix') /\ befd' = "writer" /\ n <= Len(reqs')
            /\ bebuf' = <<>> /\ b2r'["writer"] = <<>>
            /\ up'["writer"] => mode'["writer"] = "copy"
        BY <1>1, <1>2, <2>1, <3>4, <4>2
      <4> QED BY <4>1, <4>2, <4>3 DEF Stage
    <3>14. Walk(n, 2 * n, 2 * n, 2 * n, 2 * n)'
      BY <2>4, <3>9, <3>10, <3>11, <3>12, <3>13 DEF Walk
    <3>15. InHand'
      <4>1. 2 * n \in Nat OBVIOUS
      <4> QED BY <3>2, <3>14, <4>1 DEF InHand
    <3> QED BY <1>2, <2>6, <3>15 DEF Steady
  <2> QED BY <2>5, <2>6
<1> QED BY <1>10, <1>11
-----------------------------------------------------------------------------
(* The backends of a tame session. *)

\* The replies of a backend, as steps.
LEMMA ReplyLegs ==
    ASSUME NEW e \in 0..MaxReqs, NEW S, S \subseteq Reply
    PROVE  /\ Msg("C", e, "ok") \in S /\ Ready(e) \in S => Leg(Done(e), S, 2 * e, 2 * e + 2)
           /\ \A c : Msg("E", e, c) \in S /\ Ready(e) \in S => Leg(Fail(e, c), S, 2 * e, 2 * e + 2)
           /\ \A c : Msg("E", e, c) \in S => Leg(<<Msg("E", e, c)>>, S, 2 * e, 2 * e + 1)
           /\ Msg("1", e, "ok") \in S => Leg(<<Msg("1", e, "ok")>>, S, 2 * e, 2 * e + 1)
           /\ Msg("G", e, "ok") \in S => Leg(<<Msg("G", e, "ok")>>, S, 2 * e, 2 * e + 2)
           /\ Ready(e) \in S => Leg(<<Ready(e)>>, S, 2 * e + 1, 2 * e + 2)
<1>1. \A t, k : Msg(t, e, k).t = t /\ Msg(t, e, k).id = e BY DEF Msg
<1>2. e \in Nat BY SessionAssumption
<1>3. /\ \A k : From(Msg("C", e, k)) = 2 * e /\ To(Msg("C", e, k)) = 2 * e + 1
      /\ \A k : From(Msg("E", e, k)) = 2 * e /\ To(Msg("E", e, k)) = 2 * e + 1
      /\ \A k : From(Msg("1", e, k)) = 2 * e /\ To(Msg("1", e, k)) = 2 * e + 1
      /\ \A k : From(Msg("G", e, k)) = 2 * e /\ To(Msg("G", e, k)) = 2 * e + 2
      /\ \A k : From(Msg("Z", e, k)) = 2 * e + 1 /\ To(Msg("Z", e, k)) = 2 * e + 2
  BY <1>1, <1>2 DEF From, To
<1>4. From(Ready(e)) = 2 * e + 1 /\ To(Ready(e)) = 2 * e + 2 BY <1>3 DEF Ready
<1>5. ASSUME Msg("C", e, "ok") \in S, Ready(e) \in S PROVE Leg(Done(e), S, 2 * e, 2 * e + 2)
  <2>1. Leg(<<Msg("C", e, "ok"), Ready(e)>>, S, From(Msg("C", e, "ok")), To(Ready(e)))
    BY <1>3, <1>4, <1>5, TwoLegs
  <2> QED BY <1>3, <1>4, <2>1 DEF Done
<1>6. ASSUME NEW c, Msg("E", e, c) \in S, Ready(e) \in S PROVE Leg(Fail(e, c), S, 2 * e, 2 * e + 2)
  <2>1. Leg(<<Msg("E", e, c), Ready(e)>>, S, From(Msg("E", e, c)), To(Ready(e)))
    BY <1>3, <1>4, <1>6, TwoLegs
  <2> QED BY <1>3, <1>4, <2>1 DEF Fail
<1>7. ASSUME NEW m \in S PROVE Leg(<<m>>, S, From(m), To(m)) BY OneLeg
<1>8. ASSUME NEW c, Msg("E", e, c) \in S PROVE Leg(<<Msg("E", e, c)>>, S, 2 * e, 2 * e + 1)
  <2>1. Leg(<<Msg("E", e, c)>>, S, From(Msg("E", e, c)), To(Msg("E", e, c))) BY <1>7, <1>8
  <2> QED BY <1>3, <2>1
<1>9. ASSUME Msg("1", e, "ok") \in S PROVE Leg(<<Msg("1", e, "ok")>>, S, 2 * e, 2 * e + 1)
  <2>1. Leg(<<Msg("1", e, "ok")>>, S, From(Msg("1", e, "ok")), To(Msg("1", e, "ok"))) BY <1>7, <1>9
  <2> QED BY <1>3, <2>1
<1>10. ASSUME Msg("G", e, "ok") \in S PROVE Leg(<<Msg("G", e, "ok")>>, S, 2 * e, 2 * e + 2)
  <2>1. Leg(<<Msg("G", e, "ok")>>, S, From(Msg("G", e, "ok")), To(Msg("G", e, "ok"))) BY <1>7, <1>10
  <2> QED BY <1>3, <2>1
<1>11. ASSUME Ready(e) \in S PROVE Leg(<<Ready(e)>>, S, 2 * e + 1, 2 * e + 2)
  <2>1. Leg(<<Ready(e)>>, S, From(Ready(e)), To(Ready(e))) BY <1>7, <1>11
  <2> QED BY <1>4, <2>1
<1> QED BY <1>5, <1>6, <1>8, <1>9, <1>10, <1>11

\* Backend b answers message m, which leaves it in mode md, with a reply of its
\* own that walks as far as m does.
Satisfies(b, e, m, md) ==
    /\ UNCHANGED up
    /\ \E reply : /\ b2r' = [b2r EXCEPT ![b] = @ \o reply]
                  /\ Leg(reply, Says(mix, b, up, mode', e), From(m), To(m))
    /\ mode' = [mode EXCEPT ![b] = md]
    /\ tx' = [tx EXCEPT ![b] = "none"]

\* A backend that is asked for a read.
LEMMA ReadServed ==
    ASSUME Typed, mix \in Tame, Reads(mix), BackendStep("reader"), tx["reader"] = "none",
           mode["reader"] = "idle", NEW e \in Nat, NEW m \in Given(mix, "idle", e),
           m = Head(r2b["reader"]), m.t # "X"
    PROVE  Satisfies("reader", e, m, "idle")
<1> DEFINE b == "reader"
           S == Says(mix, b, up, mode', e)
<1>1. m \in Plea(mix) /\ m.id = e BY GivenSteps
<1>2. \/ m.t = "Q" /\ m.k \in {"read", "bad", "commit"}
      \/ m.t = "P" /\ m.k = "read"
      \/ m.t = "S"
  BY <1>1 DEF Plea
<1>3. e \in 0..MaxReqs /\ b \in Backend BY <1>1, PleaSteps DEF Ask, Backend
<1>4. S \subseteq Reply BY DEF Says
<1>5. Ready(e) \in S /\ Msg("C", e, "ok") \in S /\ Msg("1", e, "ok") \in S /\ Msg("E", e, "other") \in S
  BY <1>3 DEF Says, Msg, Ready, Reply
<1> HIDE DEF S
<1>6. /\ Leg(Done(e), S, 2 * e, 2 * e + 2) /\ Leg(Fail(e, "other"), S, 2 * e, 2 * e + 2)
      /\ Leg(<<Msg("1", e, "ok")>>, S, 2 * e, 2 * e + 1)
      /\ Leg(<<Ready(e)>>, S, 2 * e + 1, 2 * e + 2)
  BY <1>3, <1>4, <1>5, ReplyLegs
<1>7. UNCHANGED up BY Zenon DEF BackendStep
<1>8. ASSUME NEW reply, NEW ex, Serve(b, m, reply, "idle", "none", ex),
             Leg(reply, S, From(m), To(m))
      PROVE  Satisfies(b, e, m, "idle")
  BY <1>7, <1>8 DEF Serve, Satisfies, S
<1>9. CASE m.t = "Q" /\ m.k \in {"read", "bad", "commit"}
  <2>1. BackendQuery(b, m) BY <1>9, Zenon DEF BackendStep
  <2>2. From(m) = 2 * e /\ To(m) = 2 * e + 2 BY <1>1, <1>9, PleaSteps
  <2>3. \/ Serve(b, m, Done(e), "idle", "none", 0)
        \/ Serve(b, m, Fail(e, "other"), "idle", "none", 0)
    <3>1. CASE m.k = "read" BY <1>1, <2>1, <3>1, Zenon DEF BackendQuery
    <3>2. CASE m.k = "bad" BY <1>1, <2>1, <3>2, Zenon DEF BackendQuery
    <3>3. CASE m.k = "commit" BY <1>1, <2>1, <3>3, Zenon DEF BackendQuery
    <3> QED BY <1>9, <3>1, <3>2, <3>3
  <2> QED BY <1>6, <1>8, <2>2, <2>3
<1>10. CASE m.t = "P" /\ m.k = "read"
  <2>1. \E ex : Serve(b, m, <<Msg("1", e, "ok")>>, "idle", "none", ex)
    BY <1>1, <1>10, Zenon DEF BackendStep
  <2>2. From(m) = 2 * e /\ To(m) = 2 * e + 1 BY <1>1, <1>10, PleaSteps
  <2> QED BY <1>6, <1>8, <2>1, <2>2
<1>11. CASE m.t = "S"
  <2>1. Serve(b, m, <<Ready(e)>>, "idle", "none", 0) BY <1>1, <1>11, Zenon DEF BackendStep
  <2>2. From(m) = 2 * e + 1 /\ To(m) = 2 * e + 2 BY <1>1, <1>11, PleaSteps
  <2> QED BY <1>6, <1>8, <2>1, <2>2
<1> QED BY <1>2, <1>9, <1>10, <1>11

\* The reader, asked for a write.
LEMMA WriteRefused ==
    ASSUME Typed, mix \in Tame, ~Reads(mix), BackendStep("reader"), tx["reader"] = "none",
           NEW e \in Nat, NEW m \in Given(mix, mode["reader"], e),
           m = Head(r2b["reader"]), m.t # "X", mode["reader"] # "copy",
           mode["reader"] = "skip" => From(m) = 2 * e + 1
    PROVE  \E md \in {"idle", "skip"} :
              Satisfies("reader", e, m, md) /\ (md = "skip" => To(m) = 2 * e + 1)
<1> DEFINE b == "reader"
           S == Says(mix, b, up, mode', e)
<1>1. m \in Plea(mix) /\ m.id = e BY GivenSteps
<1>2. \/ m.t = "Q" /\ m.k \in {"write", "copy"}
      \/ m.t = "P" /\ m.k = "write"
      \/ m.t = "S"
  BY <1>1 DEF Plea
<1>3. e \in 0..MaxReqs /\ b \in Backend BY <1>1, PleaSteps DEF Ask, Backend
<1>4. S \subseteq Reply BY DEF Says
<1>5. Ready(e) \in S /\ Msg("E", e, "25006") \in S BY <1>3 DEF Says, Msg, Ready, Reply
<1> HIDE DEF S
<1>6. /\ Leg(Fail(e, "25006"), S, 2 * e, 2 * e + 2)
      /\ Leg(<<Msg("E", e, "25006")>>, S, 2 * e, 2 * e + 1)
      /\ Leg(<<Ready(e)>>, S, 2 * e + 1, 2 * e + 2)
  BY <1>3, <1>4, <1>5, ReplyLegs
<1>7. mode[b] \in {"idle", "skip"} BY <1>3 DEF Typed, ServersTyped
<1>8. UNCHANGED up BY <1>7, Zenon DEF BackendStep
<1>9. ASSUME NEW reply, NEW md, NEW ex, Serve(b, m, reply, md, "none", ex),
             Leg(reply, S, From(m), To(m))
      PROVE  Satisfies(b, e, m, md)
  BY <1>8, <1>9 DEF Serve, Satisfies, S
<1>10. CASE m.t = "S"
  <2>1. Serve(b, m, <<Ready(e)>>, "idle", "none", 0) BY <1>1, <1>7, <1>10, Zenon DEF BackendStep
  <2>2. From(m) = 2 * e + 1 /\ To(m) = 2 * e + 2 BY <1>1, <1>10, PleaSteps
  <2> QED BY <1>6, <1>9, <2>1, <2>2
<1>11. CASE m.t = "Q" /\ m.k \in {"write", "copy"}
  <2>1. From(m) = 2 * e /\ To(m) = 2 * e + 2 BY <1>1, <1>11, PleaSteps
  <2>2. mode[b] = "idle" BY <1>7, <2>1
  <2>3. BackendQuery(b, m) BY <1>11, <2>2, Zenon DEF BackendStep
  <2>4. Serve(b, m, Fail(e, "25006"), "idle", "none", 0)
    <3>1. CASE m.k = "write" BY <1>1, <2>3, <3>1, Zenon DEF BackendQuery, Refused
    <3>2. CASE m.k = "copy" BY <1>1, <2>3, <3>2, Zenon DEF BackendQuery, Refused
    <3> QED BY <1>11, <3>1, <3>2
  <2> QED BY <1>6, <1>9, <2>1, <2>4
<1>12. CASE m.t = "P" /\ m.k = "write"
  <2>1. From(m) = 2 * e /\ To(m) = 2 * e + 1 BY <1>1, <1>12, PleaSteps
  <2>2. mode[b] = "idle" BY <1>7, <2>1
  <2>3. Serve(b, m, <<Msg("E", e, "25006")>>, "skip", "none", 0)
    BY <1>1, <1>12, <2>2, Zenon DEF BackendStep, Refused
  <2>4. Satisfies(b, e, m, "skip") BY <1>6, <1>9, <2>1, <2>3
  <2> QED BY <2>1, <2>4
<1> QED BY <1>2, <1>10, <1>11, <1>12

\* The writer.
LEMMA WriteServed ==
    ASSUME Typed, mix \in Tame, ~Reads(mix), BackendStep("writer"), tx["writer"] = "none",
           NEW e \in Nat, NEW m \in Given(mix, mode["writer"], e),
           m = Head(r2b["writer"]), m.t # "X", mode["writer"] # "skip"
    PROVE  \E md \in {"idle", "copy"} :
              /\ Satisfies("writer", e, m, md)
              /\ md # mode["writer"] => From(m) = 2 * e /\ To(m) = 2 * e + 2
<1> DEFINE b == "writer"
           S == Says(mix, b, up, mode', e)
<1>1. mode[b] \in {"idle", "copy"} /\ b \in Backend /\ mode \in [Backend -> {"idle", "copy", "skip"}]
  BY DEF Typed, ServersTyped, Backend
<1>2. m.id = e /\ m \in Ask BY GivenSteps, PleaSteps, DataSteps
<1>3. e \in 0..MaxReqs BY <1>2 DEF Ask
<1>4. S \subseteq Reply BY DEF Says
<1>5. UNCHANGED up BY <1>1, Zenon DEF BackendStep
<1>6. mode'[b] = "idle" => Ready(e) \in S /\ Msg("C", e, "ok") \in S /\ Msg("1", e, "ok") \in S
  BY <1>3 DEF Says, Msg, Ready, Reply
<1>7. mode'[b] = "copy" => Msg("G", e, "ok") \in S BY <1>3 DEF Says, Msg, Reply
<1> HIDE DEF S
<1>8. /\ mode'[b] = "idle" => /\ Leg(Done(e), S, 2 * e, 2 * e + 2)
                              /\ Leg(<<Msg("1", e, "ok")>>, S, 2 * e, 2 * e + 1)
                              /\ Leg(<<Ready(e)>>, S, 2 * e + 1, 2 * e + 2)
      /\ mode'[b] = "copy" => Leg(<<Msg("G", e, "ok")>>, S, 2 * e, 2 * e + 2)
      /\ Leg(<<>>, S, 2 * e, 2 * e)
  BY <1>3, <1>4, <1>6, <1>7, ReplyLegs, NoLeg
<1>9. ASSUME NEW reply, NEW md, NEW ex, Serve(b, m, reply, md, "none", ex)
      PROVE  mode'[b] = md /\ (Leg(reply, S, From(m), To(m)) => Satisfies(b, e, m, md))
  BY <1>1, <1>5, <1>9 DEF Serve, Satisfies, S
<1>10. CASE mode[b] = "idle"
  <2>1. m \in Plea(mix) BY <1>10, GivenSteps
  <2>2. \/ m.t = "Q" /\ m.k \in {"write", "copy"}
        \/ m.t = "P" /\ m.k = "write"
        \/ m.t = "S"
    BY <2>1 DEF Plea
  <2>3. CASE m.t = "S"
    <3>1. Serve(b, m, <<Ready(e)>>, "idle", "none", 0) BY <1>2, <1>10, <2>3, Zenon DEF BackendStep
    <3>2. From(m) = 2 * e + 1 /\ To(m) = 2 * e + 2 BY <1>2, <2>1, <2>3, PleaSteps
    <3>3. Satisfies(b, e, m, "idle") BY <1>8, <1>9, <3>1, <3>2
    <3> QED BY <1>10, <3>3
  <2>4. CASE m.t = "P" /\ m.k = "write"
    <3>1. \E ex : Serve(b, m, <<Msg("1", e, "ok")>>, "idle", "none", ex)
      BY <1>2, <1>10, <2>4, Zenon DEF BackendStep, Refused
    <3>2. From(m) = 2 * e /\ To(m) = 2 * e + 1 BY <1>2, <2>1, <2>4, PleaSteps
    <3>3. Satisfies(b, e, m, "idle") BY <1>8, <1>9, <3>1, <3>2
    <3> QED BY <1>10, <3>3
  <2>5. CASE m.t = "Q" /\ m.k = "write"
    <3>1. BackendQuery(b, m) BY <1>10, <2>5, Zenon DEF BackendStep
    <3>2. \E ex : Serve(b, m, Done(e), "idle", "none", ex)
      BY <1>2, <2>5, <3>1, Zenon DEF BackendQuery, Refused
    <3>3. From(m) = 2 * e /\ To(m) = 2 * e + 2 BY <1>2, <2>1, <2>5, PleaSteps
    <3>4. Satisfies(b, e, m, "idle") BY <1>8, <1>9, <3>2, <3>3
    <3> QED BY <1>10, <3>4
  <2>6. CASE m.t = "Q" /\ m.k = "copy"
    <3>1. BackendQuery(b, m) BY <1>10, <2>6, Zenon DEF BackendStep
    <3>2. Serve(b, m, <<Msg("G", e, "ok")>>, "copy", "none", 0)
      BY <1>2, <2>6, <3>1, Zenon DEF BackendQuery, Refused
    <3>3. From(m) = 2 * e /\ To(m) = 2 * e + 2 BY <1>2, <2>1, <2>6, PleaSteps
    <3>4. Satisfies(b, e, m, "copy") BY <1>8, <1>9, <3>2, <3>3
    <3> QED BY <3>3, <3>4
  <2> QED BY <2>2, <2>3, <2>4, <2>5, <2>6
<1>11. CASE mode[b] = "copy"
  <2>1. m \in Data BY <1>11, GivenSteps
  <2>2. m.t \in {"d", "c"} BY <2>1 DEF Data
  <2>3. CASE m.t = "d"
    <3>1. Serve(b, m, <<>>, "copy", "none", 0) BY <1>11, <2>3, Zenon DEF BackendStep
    <3>2. From(m) = 2 * e /\ To(m) = 2 * e BY <1>2, <2>1, <2>3, DataSteps
    <3>3. Satisfies(b, e, m, "copy") BY <1>8, <1>9, <3>1, <3>2
    <3> QED BY <1>11, <3>3
  <2>4. CASE m.t = "c"
    <3>1. \E ex : Serve(b, m, Done(e), "idle", "none", ex)
      BY <1>2, <1>11, <2>4, Zenon DEF BackendStep
    <3>2. From(m) = 2 * e /\ To(m) = 2 * e + 2 BY <1>2, <2>1, <2>4, DataSteps
    <3>3. Satisfies(b, e, m, "idle") BY <1>8, <1>9, <3>1, <3>2
    <3> QED BY <3>2, <3>3
  <2> QED BY <2>2, <2>3, <2>4
<1> QED BY <1>1, <1>10, <1>11

LEMMA SameSays ==
    ASSUME NEW x, NEW b, NEW u, NEW md, NEW mm, NEW e,
           Reads(x) \/ b = "reader" \/ md[b] = mm[b]
    PROVE  Says(x, b, u, md, e) \subseteq Says(x, b, u, mm, e)
BY DEF Says

LEMMA SameGiven ==
    ASSUME NEW x, NEW md, NEW mm, NEW e, md = "copy" <=> mm = "copy"
    PROVE  Given(x, md, e) = Given(x, mm, e)
BY DEF Given

LEMMA BackendSteady ==
    ASSUME Typed, Steady, NEW b \in Backend, Same(BackendStep(b)) PROVE Steady'
<1>1. /\ up[b] /\ r2b[b] # <<>> /\ r2b' = [r2b EXCEPT ![b] = Tail(@)]
      /\ UNCHANGED <<mix, worker, c2r, r2c, client>>
      /\ BackendStep(b)
  BY Served DEF Same
<1>2. UNCHANGED <<mix, pc, in_txn, befd, feout, bein, saved, unsent, bebuf, c2r, r2c, reqs, zs>>
  BY <1>1 DEF worker, client
<1>3. /\ r2b \in [Backend -> Seq(Ask)] /\ b2r \in [Backend -> Seq(Reply)] /\ up \in [Peer -> BOOLEAN]
      /\ mode \in [Backend -> {"idle", "copy", "skip"}] /\ tx \in [Backend -> {"none", "open", "failed"}]
      /\ Backend \subseteq Peer /\ "client" \in Peer /\ "client" \notin Backend
  BY DEF Typed, AsksTyped, RepliesTyped, ServersTyped, Peer, Backend
<1>4. CASE pc = "done"
  <2>1. up' = [up EXCEPT ![b] = FALSE] \/ up' = up BY <1>1, Served
  <2>2. up'["client"] = up["client"] BY <1>3, <2>1
  <2> QED BY <1>2, <1>4, <2>2, OverKept
<1>5. CASE pc # "done"
  <2>1. mix \in Tame /\ Routes /\ \E e, p, a, h, i \in Nat : Walk(e, p, a, h, i)
    BY <1>5 DEF Steady, InHand
  <2>2. b = befd /\ (Reads(mix) => b = "reader") /\ tx[b] = "none"
    BY <1>1, <2>1 DEF Routes, Quiet
  <2>3. PICK e \in Nat, p \in Nat, a \in Nat, h \in Nat, i \in Nat : Walk(e, p, a, h, i) BY <2>1
  <2> DEFINE m == Head(r2b[b])
             t == Tail(r2b[b])
  <2>4. Leg(r2b[b], Given(mix, mode[b], e), h, i)
    BY <1>1, <2>2, <2>3 DEF Walk, Handed
  <2>5. m \in Given(mix, mode[b], e) /\ From(m) = h /\ Leg(t, Given(mix, mode[b], e), To(m), i)
    BY <1>1, <2>4, FirstStep
  <2>6. m = Head(r2b[b]) /\ r2b'[b] = t /\ \A c \in Backend : c # b => r2b'[c] = r2b[c]
    BY <1>1, <1>3
  <2> HIDE DEF m, t
  <2>7. ~Quiet(b) BY <1>1 DEF Quiet
  <2>8. pc # "top" /\ pc # "redirect" BY <2>2, <2>3, <2>7 DEF Walk, Stage
  <2>9. Waiting(i)' BY <1>2, <2>3, WaitingKept DEF Walk
  <2>10. Replay(e, i)' BY <1>2, <2>3, ReplayKept DEF Walk
  <2>11. CASE m.t = "X"
    <3>1. up' = [up EXCEPT ![b] = FALSE] /\ UNCHANGED <<b2r, servers>>
      BY <1>1, <2>6, <2>11, Zenon DEF BackendStep
    <3>2. /\ ~up'[b] /\ (\A c \in Backend : c # b => up'[c] = up[c]) /\ up'["client"] = up["client"]
          /\ UNCHANGED <<b2r, mode, tx>>
      BY <1>3, <3>1 DEF servers
    <3>3. Routes'
      <4>1. \A c \in Backend : c # b => Quiet(c)' BY <2>1, <2>2, <2>6, <3>2 DEF Routes, Quiet
      <4> QED BY <1>2, <2>1, <2>2, <3>2, <4>1 DEF Routes
    <3>4. Answers(e, a, h)' BY <1>2, <2>2, <2>3, <3>2, AnswersKept DEF Walk
    <3>5. Handed(e, h, i)' BY <1>2, <2>2, <3>2 DEF Handed
    <3>6. Heard(p)' BY <1>2, <2>3, <3>2, HeardKept DEF Walk
    <3>7. Stage(e, p, a, i)'
      <4>1. Stage(e, p, a, i) BY <2>3 DEF Walk
      <4>2. pc \in InCopy => ~up'["writer"] BY <2>2, <3>2, <4>1 DEF Stage
      <4> QED BY <1>2, <2>8, <3>2, <4>1, <4>2 DEF Stage
    <3>8. Walk(e, p, a, h, i)' BY <2>9, <2>10, <3>4, <3>5, <3>6, <3>7 DEF Walk
    <3> QED BY <1>2, <1>5, <2>1, <3>3, <3>8 DEF Steady, InHand
  <2>12. CASE m.t # "X"
    <3>1. PICK md \in {"idle", "copy", "skip"} :
            /\ Satisfies(b, e, m, md)
            /\ Reads(mix) => md = "idle"
            /\ ~Reads(mix) /\ b = "writer" =>
                  md # "skip" /\ (md # mode[b] => From(m) = 2 * e /\ To(m) = 2 * e + 2)
            /\ ~Reads(mix) /\ b = "reader" =>
                  md # "copy" /\ (md = "skip" => To(m) = 2 * e + 1)
      <4>1. /\ Reads(mix) => mode[b] = "idle"
            /\ ~Reads(mix) /\ b = "writer" => mode[b] # "skip"
            /\ ~Reads(mix) /\ b = "reader" => mode[b] # "copy" /\ (mode[b] = "skip" => h = 2 * e + 1)
        BY <1>1, <2>2, <2>3 DEF Walk, Handed
      <4>2. CASE Reads(mix)
        <5>1. b = "reader" /\ mode[b] = "idle" BY <2>2, <4>1, <4>2
        <5>2. Satisfies("reader", e, m, "idle")
          BY <1>1, <2>1, <2>2, <2>5, <2>6, <2>12, <4>2, <5>1, ReadServed
        <5> QED BY <4>2, <5>1, <5>2
      <4>3. CASE ~Reads(mix) /\ b = "reader"
        <5>1. \E md \in {"idle", "skip"} :
                 Satisfies("reader", e, m, md) /\ (md = "skip" => To(m) = 2 * e + 1)
          BY <1>1, <2>1, <2>2, <2>5, <2>6, <2>12, <4>1, <4>3, WriteRefused
        <5> QED BY <4>3, <5>1
      <4>4. CASE ~Reads(mix) /\ b = "writer"
        <5>1. \E md \in {"idle", "copy"} :
                 /\ Satisfies("writer", e, m, md)
                 /\ md # mode["writer"] => From(m) = 2 * e /\ To(m) = 2 * e + 2
          BY <1>1, <2>1, <2>2, <2>5, <2>6, <2>12, <4>1, <4>4, WriteServed
        <5> QED BY <4>4, <5>1
      <4> QED BY <4>2, <4>3, <4>4 DEF Backend
    <3>2. PICK reply : /\ b2r' = [b2r EXCEPT ![b] = @ \o reply]
                       /\ Leg(reply, Says(mix, b, up, mode', e), From(m), To(m))
      BY <3>1 DEF Satisfies
    <3>3. /\ up' = up /\ mode'[b] = md /\ tx' = tx
          /\ b2r'[b] = b2r[b] \o reply
          /\ \A c \in Backend : c # b => mode'[c] = mode[c] /\ b2r'[c] = b2r[c]
      <4>1. up' = up /\ mode' = [mode EXCEPT ![b] = md] /\ tx' = [tx EXCEPT ![b] = "none"]
        BY <3>1 DEF Satisfies
      <4> QED BY <1>3, <2>2, <3>2, <4>1
    <3>4. Routes'
      <4>1. \A c \in Backend : c # b => Quiet(c)' BY <2>1, <2>2, <2>6, <3>3 DEF Routes, Quiet
      <4> QED BY <1>2, <2>1, <2>2, <3>3, <4>1 DEF Routes
    <3>5. PICK k \in Nat : k = To(m) BY <2>5, GivenSteps
    <3> DEFINE S == Says(mix, b, up, mode, e)
               T == Says(mix, b, up, mode', e)
    <3>6. Answers(e, a, k)'
      <4>1. PICK g \in Nat : Leg(bebuf, S, a, g) /\ Leg(b2r[b], S, g, h)
        BY <2>2, <2>3 DEF Walk, Answers
      <4>2. Leg(bebuf, T, a, g) /\ Leg(b2r[b], T, g, h)
        <5>1. CASE Reads(mix) \/ b = "reader" \/ md = mode[b]
          <6>1. S \subseteq T BY <3>3, <5>1, SameSays
          <6> HIDE DEF S, T
          <6> QED BY <4>1, <6>1, WiderLeg
        <5>2. CASE ~(Reads(mix) \/ b = "reader" \/ md = mode[b])
          <6>1. h = 2 * e BY <2>5, <3>1, <5>2 DEF Backend
          <6>2. b2r[b] = <<>> /\ g = 2 * e BY <4>1, <6>1, SaysNoMore
          <6>3. bebuf = <<>> /\ a = 2 * e BY <4>1, <6>2, SaysNoMore
          <6> QED BY <6>1, <6>2, <6>3, NoLeg
        <5> QED BY <5>1, <5>2
      <4> HIDE DEF S, T
      <4>3. Leg(b2r[b] \o reply, T, g, To(m)) BY <2>5, <3>2, <4>2, NextLeg DEF T
      <4> QED BY <1>2, <2>2, <3>3, <3>5, <4>2, <4>3 DEF Answers, T
    <3>7. Handed(e, k, i)'
      <4>1. Leg(t, Given(mix, md, e), To(m), i)
        <5>1. CASE md = "copy" <=> mode[b] = "copy"
          <6>1. Given(mix, md, e) = Given(mix, mode[b], e) BY <5>1, SameGiven
          <6> QED BY <2>5, <6>1
        <5>2. CASE ~(md = "copy" <=> mode[b] = "copy")
          <6>1. ~Reads(mix) /\ b = "writer"
            <7>1. up[befd] /\ Handed(e, h, i) BY <1>1, <2>2, <2>3 DEF Walk
            <7> QED BY <2>2, <3>1, <5>2, <7>1 DEF Handed, Backend
          <6>2. To(m) = 2 * e + 2 BY <3>1, <5>2, <6>1
          <6>3. t = <<>> /\ i = To(m) BY <2>5, <6>2, GivenNoMore
          <6> QED BY <6>3, NoLeg
        <5> QED BY <5>1, <5>2
      <4> QED BY <1>2, <2>2, <2>6, <3>1, <3>3, <3>5, <4>1 DEF Handed
    <3>8. Heard(p)' BY <1>2, <2>3, <3>3, HeardKept DEF Walk
    <3>9. Stage(e, p, a, i)'
      <4>1. Stage(e, p, a, i) BY <2>3 DEF Walk
      <4>2. CASE pc \in InCopy
        <5>1. /\ ~Reads(mix) /\ b = "writer" /\ a = p /\ i = p /\ p \in {2 * e, 2 * e + 2}
              /\ bebuf = <<>> /\ b2r[b] = <<>> /\ mode[b] = "copy"
          BY <1>1, <2>2, <4>1, <4>2 DEF Stage
        <5>2. h = a
          <6>1. PICK g \in Nat : Leg(bebuf, S, a, g) /\ Leg(b2r[b], S, g, h)
            BY <2>2, <2>3 DEF Walk, Answers
          <6> QED BY <5>1, <6>1 DEF Leg
        <5>3. /\ From(m) \in {2 * e, 2 * e + 1} /\ To(m) \in {2 * e, 2 * e + 1, 2 * e + 2}
              /\ m \in Data /\ m.id = e
          BY <2>5, <5>1, GivenSteps
        <5>4. p = 2 * e /\ i = 2 * e /\ From(m) = 2 * e BY <2>5, <5>1, <5>2, <5>3
        <5>5. To(m) # 2 * e + 2
          <6>1. To(m) = 2 * e + 2 => i = 2 * e + 2 BY <2>5, GivenNoMore
          <6> QED BY <5>4, <6>1
        <5>6. To(m) = 2 * e BY <5>3, <5>5, DataSteps
        <5>7. reply = <<>> BY <3>2, <5>6, SaysNoMore
        <5>8. md = "copy" BY <3>1, <5>1, <5>5
        <5>9. b2r'[b] = <<>> BY <3>3, <5>1, <5>7
        <5> QED BY <1>2, <2>8, <3>3, <4>1, <4>2, <5>1, <5>8, <5>9 DEF Stage, InCopy
      <4>3. CASE pc \notin InCopy BY <1>2, <2>8, <4>1, <4>3 DEF Stage
      <4> QED BY <4>2, <4>3
    <3>10. Walk(e, p, a, k, i)' BY <2>9, <2>10, <3>6, <3>7, <3>8, <3>9 DEF Walk
    <3> QED BY <1>2, <1>5, <2>1, <3>4, <3>5, <3>10 DEF Steady, InHand
  <2> QED BY <2>11, <2>12
<1> QED BY <1>4, <1>5
-----------------------------------------------------------------------------
(* The worker of a tame session. *)

LEMMA TopSteady ==
    ASSUME Typed, Steady, Same(Top) PROVE Steady'
<1>1. /\ pc = "top" /\ pc' = "recvfe" /\ befd' = (IF in_txn THEN befd ELSE "reader")
      /\ feout' = befd' /\ bein' = befd'
      /\ UNCHANGED <<mix, in_txn, saved, unsent, bebuf, c2r, r2c, r2b, b2r, up, reqs, zs, mode, tx>>
  BY DEF Same, Top, client, servers
<1>2. mix \in Tame /\ Routes /\ \E e, p, a, h, i \in Nat : Walk(e, p, a, h, i)
  BY <1>1 DEF Steady, InHand
<1>3. PICK e \in Nat, p \in Nat, a \in Nat, h \in Nat, i \in Nat : Walk(e, p, a, h, i) BY <1>2
<1>4. befd \in Backend /\ befd' = "reader" BY <1>1, <1>2 DEF Routes, Typed, WorkerTyped
<1>5. a = 2 * e /\ p = 2 * e /\ i = 2 * e /\ bebuf = <<>> /\ Quiet(befd)
  BY <1>1, <1>3 DEF Walk, Stage
<1>6. Quiet("reader") /\ Quiet("writer") BY <1>2, <1>4, <1>5 DEF Routes, Backend
<1>7. Routes'
  <2>1. Quiet("writer")' BY <1>1, <1>6 DEF Quiet
  <2> QED BY <1>1, <1>2, <1>4, <2>1 DEF Routes, Backend
<1>8. Answers(e, 2 * e, 2 * e)'
  <2>1. 2 * e \in Nat OBVIOUS
  <2>2. \A S : Leg(<<>>, S, 2 * e, 2 * e) BY NoLeg
  <2>3. bebuf' = <<>> /\ b2r'[befd'] = <<>> BY <1>1, <1>4, <1>5, <1>6 DEF Quiet
  <2> QED BY <2>1, <2>2, <2>3 DEF Answers
<1>9. Handed(e, 2 * e, 2 * e)'
  <2>1. \A S : Leg(<<>>, S, 2 * e, 2 * e) BY NoLeg
  <2>2. up'[befd'] => r2b'[befd'] = <<>> /\ mode'[befd'] = "idle" BY <1>1, <1>4, <1>6 DEF Quiet
  <2> QED BY <1>4, <2>1, <2>2 DEF Handed
<1>10. Waiting(2 * e)' BY <1>1, <1>3, <1>5, WaitingKept DEF Walk, InCopy
<1>11. Replay(e, 2 * e)'
  <2>1. Leg(<<>>, Given(mix, "idle", e), 2 * e, 2 * e) BY NoLeg
  <2>2. Replay(e, 2 * e) BY <1>3, <1>5 DEF Walk
  <2> QED BY <1>1, <1>4, <2>1, <2>2 DEF Replay, Backend
<1>12. Heard(2 * e)' BY <1>1, <1>3, <1>5, HeardKept DEF Walk, InCopy
<1>13. Stage(e, 2 * e, 2 * e, 2 * e)' BY <1>1, <1>4, <1>5 DEF Stage, InCopy
<1>14. Walk(e, 2 * e, 2 * e, 2 * e, 2 * e)' BY <1>8, <1>9, <1>10, <1>11, <1>12, <1>13 DEF Walk
<1>15. InHand'
  <2>1. 2 * e \in Nat OBVIOUS
  <2> QED BY <1>7, <1>14, <2>1 DEF InHand
<1> QED BY <1>1, <1>2, <1>15 DEF Steady

\* pgr_mbuf_recv(fe)
LEMMA RecvFrontendSteady ==
    ASSUME Typed, Steady, NEW from, NEW to,
           (from = "recvfe" /\ to = "send") \/ (from = "copy" /\ to = "copysend"),
           RecvFrontend(from, to), mix' = mix
    PROVE  Steady'
<1>1. /\ pc = from /\ pc' = to
      /\ UNCHANGED <<mix, in_txn, befd, feout, bein, saved, bebuf, r2c, r2b, b2r, up, reqs, zs,
                     mode, tx>>
  BY DEF RecvFrontend, client, servers
<1>2. mix \in Tame /\ Routes /\ \E e, p, a, h, i \in Nat : Walk(e, p, a, h, i)
  BY <1>1 DEF Steady, InHand
<1>3. PICK e \in Nat, p \in Nat, a \in Nat, h \in Nat, i \in Nat : Walk(e, p, a, h, i) BY <1>2
<1>4. Routes' BY <1>1, <1>2 DEF Routes, Quiet
<1>5. pc' \in InCopy <=> pc \in InCopy BY <1>1 DEF InCopy
<1>6. Answers(e, a, h)' BY <1>1, <1>3, AnswersKept DEF Walk
<1>7. Handed(e, h, i)' BY <1>1, <1>3, HandedKept DEF Walk
<1>8. Waiting(i)'
  <2>1. CASE unsent # <<>> /\ UNCHANGED <<unsent, c2r>>
    BY <1>1, <1>3, <1>5, <2>1, WaitingKept DEF Walk
  <2>2. CASE /\ unsent = <<>> /\ c2r # <<>>
             /\ \E n \in Portions(c2r) : /\ unsent' = SubSeq(c2r, 1, n)
                                         /\ c2r' = SubSeq(c2r, n + 1, Len(c2r))
    <3>1. PICK n \in 1..Len(c2r) : /\ unsent' = SubSeq(c2r, 1, n)
                                   /\ c2r' = SubSeq(c2r, n + 1, Len(c2r))
      BY <2>2 DEF Portions
    <3>2. PICK l \in Nat : l = Len(reqs) BY DEF Typed, ClientTyped
    <3> DEFINE D == Due(mix, pc, l)
    <3>3. PICK j \in Nat : Leg(unsent, D, i, j) /\ Leg(c2r, D, j, 2 * l + 2)
      BY <1>3, <3>2 DEF Walk, Waiting
    <3>4. i = j BY <2>2, <3>3 DEF Leg
    <3>5. \A m \in D : To(m) \in Nat BY DueSteps
    <3>6. D = Due(mix, pc', l) BY <1>5, SameDue
    <3> HIDE DEF D
    <3>7. \E c \in Nat : /\ Leg(SubSeq(c2r, 1, n), D, j, c)
                         /\ Leg(SubSeq(c2r, n + 1, Len(c2r)), D, c, 2 * l + 2)
      BY <3>3, <3>5, CutLeg
    <3> QED BY <1>1, <3>1, <3>2, <3>4, <3>6, <3>7 DEF Waiting
  <2> QED BY <2>1, <2>2 DEF RecvFrontend
<1>9. Replay(e, i)' BY <1>1, <1>3, ReplayKept DEF Walk
<1>10. Heard(p)' BY <1>1, <1>3, <1>5, HeardKept DEF Walk
<1>11. Stage(e, p, a, i)'
  <2>1. Stage(e, p, a, i) BY <1>3 DEF Walk
  <2>2. CASE from = "recvfe" /\ to = "send" BY <1>1, <2>1, <2>2 DEF Stage, InCopy
  <2>3. CASE from = "copy" /\ to = "copysend" BY <1>1, <2>1, <2>3 DEF Stage, InCopy
  <2> QED BY <2>2, <2>3
<1>12. Walk(e, p, a, h, i)' BY <1>6, <1>7, <1>8, <1>9, <1>10, <1>11 DEF Walk
<1> QED BY <1>1, <1>2, <1>4, <1>12 DEF Steady, InHand

\* pgr_mbuf_send(fe)
LEMMA SendSteady ==
    ASSUME Typed, Steady, Same(Send) PROVE Steady'
<1>1. PICK n \in Nat : n = Len(reqs) BY DEF Typed, ClientTyped
<1>2. /\ pc = "send" /\ UNCHANGED <<mix, bein, bebuf, c2r, r2c, b2r, up, reqs, zs, mode, tx>>
  BY DEF Same, Send, client, servers
<1>3. mix \in Tame /\ Routes /\ \E e, p, a, h, i \in Nat : Walk(e, p, a, h, i)
  BY <1>2 DEF Steady, InHand
<1>4. PICK e \in Nat, p \in Nat, a \in Nat, h \in Nat, i \in Nat : Walk(e, p, a, h, i) BY <1>3
<1>5. /\ befd = "reader" /\ bebuf = <<>> /\ a = 2 * e /\ p = 2 * e /\ i \in {2 * e, 2 * e + 1}
  BY <1>2, <1>4 DEF Walk, Stage
<1>6. unsent # <<>> BY <1>2 DEF Typed, WorkerTyped
<1> DEFINE m == Head(unsent)
<1>7. PICK j \in Nat : /\ Leg(unsent, Due(mix, pc, n), i, j)
                       /\ Leg(c2r, Due(mix, pc, n), j, 2 * n + 2)
  BY <1>1, <1>4 DEF Walk, Waiting
<1>8. m \in Due(mix, pc, n) /\ From(m) = i /\ Leg(Tail(unsent), Due(mix, pc, n), To(m), j)
  BY <1>6, <1>7, FirstStep
<1>9. m = Head(unsent) OBVIOUS
<1> HIDE DEF m
<1>10. /\ m.id \in Nat /\ m.id <= n /\ From(m) \in {2 * m.id, 2 * m.id + 1} /\ m \in Plea(mix)
  BY <1>2, <1>8, DueSteps DEF InCopy
<1>11. m.id = e
  <2>1. \A d, c \in Nat : {2 * d, 2 * d + 1} \cap {2 * c, 2 * c + 1} # {} => d = c OBVIOUS
  <2>2. i \in {2 * m.id, 2 * m.id + 1} \cap {2 * e, 2 * e + 1} BY <1>5, <1>8, <1>10
  <2> QED BY <1>10, <2>1, <2>2
<1>12. ~IsBegin(m) BY <1>10 DEF Plea, IsBegin
<1>13. /\ in_txn' = FALSE /\ befd' = "reader" /\ feout' = "reader"
       /\ saved' = Append(saved, m) /\ unsent' = Tail(unsent)
  <2>1. /\ befd' = befd /\ feout' = feout /\ saved' = Append(saved, m) /\ unsent' = Tail(unsent)
    BY <1>9, <1>12 DEF Same, Send
  <2>2. in_txn' = FALSE BY <1>3, <1>9, <1>12 DEF Same, Send, Routes
  <2> QED BY <1>3, <1>5, <2>1, <2>2 DEF Routes
<1>14. CASE m.t = "X"
  <2>1. pc' = "done" BY <1>9, <1>14 DEF Same, Send
  <2> QED BY <1>2, <2>1, OverKept
<1>15. CASE m.t # "X"
  <2>1. /\ r2b' = ToBackend(r2b, "reader", <<m>>)
        /\ pc' = IF m.t \in {"Q", "S"} THEN "recvbe" ELSE "recvfe"
    BY <1>9, <1>13, <1>15 DEF Same, Send
  <2>2. /\ up["reader"] => r2b'["reader"] = r2b["reader"] \o <<m>>
        /\ r2b'["writer"] = r2b["writer"]
    BY <2>1 DEF ToBackend, Typed, AsksTyped, Backend
  <2>3. PICK k \in Nat : k = To(m) BY <1>10, PleaSteps
  <2>4. /\ m.t \in {"Q", "S"} => k = 2 * e + 2
        /\ m.t \notin {"Q", "S"} => k = 2 * e + 1
    BY <1>10, <1>11, <1>15, <2>3, PleaSteps
  <2>5. Routes'
    <3>1. Quiet("writer")' BY <1>2, <1>3, <1>5, <2>2 DEF Routes, Quiet, Backend
    <3> QED BY <1>2, <1>3, <1>5, <1>13, <3>1 DEF Routes, Backend
  <2>6. Answers(e, a, h)' BY <1>2, <1>4, <1>5, <1>13, AnswersKept DEF Walk
  <2>7. Handed(e, h, k)'
    <3>1. SUFFICES ASSUME up["reader"] PROVE Handed(e, h, k)' BY <1>2, <1>13 DEF Handed
    <3>2. Handed(e, h, i) BY <1>4 DEF Walk
    <3>3. mode["reader"] # "copy" /\ Leg(r2b["reader"], Given(mix, mode["reader"], e), h, i)
      BY <1>5, <3>1, <3>2 DEF Handed
    <3>4. m \in Given(mix, mode["reader"], e) BY <1>10, <1>11, <3>3 DEF Given
    <3>5. Leg(<<m>>, Given(mix, mode["reader"], e), i, k) BY <1>8, <2>3, <3>4, OneLeg
    <3>6. Leg(r2b["reader"] \o <<m>>, Given(mix, mode["reader"], e), h, k) BY <3>3, <3>5, NextLeg
    <3> QED BY <1>2, <1>5, <1>13, <2>2, <3>1, <3>2, <3>6 DEF Handed
  <2>8. Waiting(k)'
    <3>1. Due(mix, pc, n) = Due(mix, pc', n)
      <4>1. pc \in InCopy <=> pc' \in InCopy BY <1>2, <2>1 DEF InCopy
      <4> QED BY <4>1, SameDue
    <3> QED BY <1>1, <1>2, <1>7, <1>8, <1>13, <2>3, <3>1 DEF Waiting
  <2>9. Replay(e, k)'
    <3>1. SUFFICES ASSUME ~Reads(mix) PROVE Replay(e, k)' BY <1>2 DEF Replay
    <3>2. e \in {n, n + 1} /\ Leg(saved, Given(mix, "idle", e), 2 * e, i)
      BY <1>1, <1>4, <1>5, <3>1 DEF Walk, Replay
    <3>3. m \in Given(mix, "idle", e) BY <1>10, <1>11 DEF Given
    <3>4. Leg(<<m>>, Given(mix, "idle", e), i, k) BY <1>8, <2>3, <3>3, OneLeg
    <3>5. Leg(saved \o <<m>>, Given(mix, "idle", e), 2 * e, k) BY <3>2, <3>4, NextLeg
    <3>6. saved' = saved \o <<m>>
      <4>1. m \in Ask /\ saved \in Seq(Ask) BY <1>10, PleaSteps DEF Typed, AsksTyped
      <4> QED BY <1>13, <4>1
    <3> QED BY <1>1, <1>2, <1>13, <3>2, <3>5, <3>6 DEF Replay
  <2>10. Heard(p)' BY <1>2, <1>4, <2>1, HeardKept DEF Walk, InCopy
  <2>11. Stage(e, p, a, k)'
    <3>1. CASE m.t \in {"Q", "S"}
      <4>1. pc' = "recvbe" /\ k = 2 * e + 2 /\ e <= n BY <1>10, <1>11, <2>1, <2>4, <3>1
      <4> QED BY <1>1, <1>2, <1>5, <1>13, <4>1 DEF Stage, InCopy
    <3>2. CASE m.t \notin {"Q", "S"}
      <4>1. pc' = "recvfe" /\ k = 2 * e + 1 BY <2>1, <2>4, <3>2
      <4> QED BY <1>1, <1>2, <1>5, <1>13, <4>1 DEF Stage, InCopy
    <3> QED BY <3>1, <3>2
  <2>12. Walk(e, p, a, h, k)' BY <2>6, <2>7, <2>8, <2>9, <2>10, <2>11 DEF Walk
  <2>13. pc' # "done" BY <2>1
  <2> QED BY <1>2, <1>3, <2>5, <2>12, <2>13 DEF Steady, InHand
<1> QED BY <1>14, <1>15

\* pgr_mbuf_recv(be)
LEMMA RecvBackendSteady ==
    ASSUME Typed, Steady, NEW from, NEW to,
           (from = "recvbe" /\ to = "dispatch") \/ (from = "drainrecv" /\ to = "drain"),
           RecvBackend(from, to), mix' = mix
    PROVE  Steady'
<1>1. /\ pc = from /\ pc' = to
      /\ UNCHANGED <<mix, in_txn, befd, feout, bein, saved, unsent, c2r, r2c, r2b, up, reqs, zs,
                     mode, tx>>
  BY DEF RecvBackend, client, servers
<1>2. mix \in Tame /\ Routes /\ \E e, p, a, h, i \in Nat : Walk(e, p, a, h, i)
  BY <1>1 DEF Steady, InHand
<1>3. PICK e \in Nat, p \in Nat, a \in Nat, h \in Nat, i \in Nat : Walk(e, p, a, h, i) BY <1>2
<1>4. bein = befd /\ befd \in Backend /\ b2r \in [Backend -> Seq(Reply)]
  BY <1>2 DEF Routes, Typed, WorkerTyped, RepliesTyped
<1>5. pc \notin InCopy \union {"done"} /\ pc' \notin InCopy \union {"done"} BY <1>1 DEF InCopy
<1>6. \A c \in Backend : c # befd => b2r'[c] = b2r[c] BY <1>4 DEF RecvBackend
<1>7. Routes'
  <2>1. \A c \in Backend : c # befd => Quiet(c)' BY <1>1, <1>2, <1>6 DEF Routes, Quiet
  <2> QED BY <1>1, <1>2, <2>1 DEF Routes
<1>8. Answers(e, a, h)'
  <2>1. CASE bebuf # <<>> /\ UNCHANGED <<bebuf, b2r>> BY <1>1, <1>3, <2>1, AnswersKept DEF Walk
  <2>2. CASE /\ bebuf = <<>> /\ b2r[bein] # <<>>
             /\ \E n \in Portions(b2r[bein]) :
                   /\ bebuf' = SubSeq(b2r[bein], 1, n)
                   /\ b2r' = [b2r EXCEPT ![bein] = SubSeq(@, n + 1, Len(@))]
    <3> DEFINE q == b2r[befd]
               S == Says(mix, befd, up, mode, e)
    <3>1. PICK n \in 1..Len(q) : /\ bebuf' = SubSeq(q, 1, n)
                                 /\ b2r'[befd] = SubSeq(q, n + 1, Len(q))
      BY <1>4, <2>2 DEF Portions
    <3>2. PICK g \in Nat : Leg(bebuf, S, a, g) /\ Leg(q, S, g, h) BY <1>3 DEF Walk, Answers
    <3>3. a = g BY <2>2, <3>2 DEF Leg
    <3>4. \A m \in S : To(m) \in Nat BY SaysSteps
    <3> HIDE DEF q, S
    <3>5. \E c \in Nat : /\ Leg(SubSeq(q, 1, n), S, g, c)
                         /\ Leg(SubSeq(q, n + 1, Len(q)), S, c, h)
      BY <3>2, <3>4, CutLeg
    <3> QED BY <1>1, <3>1, <3>3, <3>5 DEF Answers, S
  <2> QED BY <2>1, <2>2 DEF RecvBackend
<1>9. Handed(e, h, i)' BY <1>1, <1>3, HandedKept DEF Walk
<1>10. Waiting(i)' BY <1>1, <1>3, <1>5, WaitingKept DEF Walk
<1>11. Replay(e, i)' BY <1>1, <1>3, ReplayKept DEF Walk
<1>12. Heard(p)' BY <1>1, <1>3, <1>5, HeardKept DEF Walk
<1>13. Stage(e, p, a, i)'
  <2>1. Stage(e, p, a, i) BY <1>3 DEF Walk
  <2>2. CASE from = "recvbe" /\ to = "dispatch" BY <1>1, <2>1, <2>2 DEF Stage, InCopy
  <2>3. CASE from = "drainrecv" /\ to = "drain" BY <1>1, <2>1, <2>3 DEF Stage, InCopy
  <2> QED BY <2>2, <2>3
<1>14. Walk(e, p, a, h, i)' BY <1>8, <1>9, <1>10, <1>11, <1>12, <1>13 DEF Walk
<1>15. pc' # "done" BY <1>1
<1> QED BY <1>1, <1>2, <1>7, <1>14, <1>15 DEF Steady, InHand

\* The answer of a backend that has come to its end leaves it with nothing.
LEMMA AnswerOver ==
    ASSUME Typed, Routes, NEW e \in Nat, NEW a \in Nat, NEW h \in Nat, NEW i \in Nat,
           Answers(e, a, h), Handed(e, h, i), bebuf # <<>>, To(Head(bebuf)) = 2 * e + 2
    PROVE  /\ Tail(bebuf) = <<>> /\ b2r[befd] = <<>> /\ h = 2 * e + 2
           /\ Head(bebuf) \in Says(mix, befd, up, mode, e) /\ From(Head(bebuf)) = a
           /\ up[befd] => r2b[befd] = <<>> /\ (Head(bebuf).t = "Z" => mode[befd] = "idle")
<1> DEFINE S == Says(mix, befd, up, mode, e)
           m == Head(bebuf)
<1>1. PICK g \in Nat : Leg(bebuf, S, a, g) /\ Leg(b2r[befd], S, g, h) BY DEF Answers
<1>2. m \in S /\ From(m) = a /\ Leg(Tail(bebuf), S, 2 * e + 2, g) BY <1>1, FirstStep
<1>3. Tail(bebuf) = <<>> /\ g = 2 * e + 2
  <2>1. PICK t : t = Tail(bebuf) OBVIOUS
  <2>2. Leg(t, S, 2 * e + 2, g) BY <1>2, <2>1
  <2>3. t = <<>> /\ g = 2 * e + 2 BY <2>2, SaysNoMore
  <2> QED BY <2>1, <2>3
<1>4. b2r[befd] = <<>> /\ h = 2 * e + 2 BY <1>1, <1>3, SaysNoMore
<1>5. up[befd] => r2b[befd] = <<>>
  <2>1. up[befd] => Leg(r2b[befd], Given(mix, mode[befd], e), h, i) BY DEF Handed
  <2> QED BY <1>4, <2>1, GivenNoMore
<1>6. ASSUME up[befd], m.t = "Z" PROVE mode[befd] = "idle"
  <2>1. mode[befd] \in {"idle", "copy", "skip"} /\ befd \in Backend
    BY DEF Typed, WorkerTyped, ServersTyped
  <2>2. CASE Reads(mix) BY <1>6, <2>2 DEF Handed
  <2>3. CASE ~Reads(mix) /\ befd = "reader"
    <3>1. h # 2 * e + 1 BY <1>4
    <3> QED BY <1>6, <2>1, <2>3, <3>1 DEF Handed
  <2>4. CASE ~Reads(mix) /\ befd = "writer"
    <3>1. mode[befd] # "skip" BY <1>6, <2>4 DEF Handed
    <3>2. mode[befd] # "copy" BY <1>2, <1>6, <2>4 DEF Says
    <3> QED BY <2>1, <3>1, <3>2
  <2> QED BY <2>1, <2>2, <2>3, <2>4 DEF Backend
<1> QED BY <1>2, <1>3, <1>4, <1>5, <1>6

\* pgr_mbuf_relay(be)
LEMMA RelaySteady ==
    ASSUME Typed, Steady, Same(Relay) PROVE Steady'
<1>1. PICK n \in Nat : n = Len(reqs) BY DEF Typed, ClientTyped
<1> DEFINE m == Head(bebuf)
<1>2. /\ pc = "dispatch" /\ (~Misrouted(m) \/ Split)
      /\ r2c' = (IF up["client"] THEN Append(r2c, m) ELSE r2c)
      /\ bebuf' = Tail(bebuf)
      /\ pc' = (CASE m.t = "G" -> "copy" [] EndsAnswer(m) -> "top" [] OTHER -> "recvbe")
      /\ UNCHANGED <<mix, in_txn, befd, feout, bein, saved, unsent, c2r, r2b, b2r, up, reqs, zs,
                     mode, tx>>
  BY DEF Same, Relay, client, servers
<1>3. mix \in Tame /\ Routes /\ \E e, p, a, h, i \in Nat : Walk(e, p, a, h, i)
  BY <1>2 DEF Steady, InHand
<1>4. PICK e \in Nat, p \in Nat, a \in Nat, h \in Nat, i \in Nat : Walk(e, p, a, h, i) BY <1>3
<1>5. /\ a = p /\ p \in {2 * e, 2 * e + 1} /\ i = 2 * e + 2 /\ e <= n
      /\ ~Reads(mix) /\ befd = "reader" => p = 2 * e
  BY <1>1, <1>2, <1>4 DEF Walk, Stage
<1>6. bebuf # <<>> /\ befd \in Backend BY <1>2 DEF Typed, WorkerTyped
<1> DEFINE S == Says(mix, befd, up, mode, e)
<1>7. PICK g \in Nat : Leg(bebuf, S, a, g) /\ Leg(b2r[befd], S, g, h)
  BY <1>4 DEF Walk, Answers
<1>8. m \in S /\ From(m) = p /\ Leg(Tail(bebuf), S, To(m), g) BY <1>5, <1>6, <1>7, FirstStep
<1>9. /\ m \in Reply /\ m.id = e /\ To(m) \in {2 * e + 1, 2 * e + 2}
      /\ From(m) = 2 * e + 1 <=> m.t = "Z"
      /\ To(m) = 2 * e + 2 <=> m.t \in {"Z", "G"}
  BY <1>8, SaysSteps
<1>10. ~Reads(mix) => befd = "writer"
  <2>1. SUFFICES ASSUME ~Reads(mix), befd = "reader" PROVE FALSE BY <1>6 DEF Backend
  <2>2. m.t # "Z" BY <1>5, <1>8, <1>9, <2>1
  <2>3. m.t = "E" /\ m.k = "25006" BY <1>8, <2>1, <2>2 DEF Says
  <2>4. ~Split BY <1>3, <2>1, TameMix
  <2> QED BY <1>2, <2>1, <2>3, <2>4 DEF Misrouted
<1>11. m.k # "25006" /\ (m.t = "G" => ~Reads(mix)) BY <1>6, <1>8, <1>10 DEF Says, Backend
<1>12. ~Reads(mix) => e = n BY <1>1, <1>4, <1>5 DEF Walk, Replay
<1>13. Routes' BY <1>2, <1>3 DEF Routes, Quiet
<1>14. PICK k \in Nat : k = To(m) BY <1>9
<1>15. r2c \in Seq(Reply) BY DEF Typed, RepliesTyped
<1> HIDE DEF m
<1>16. Heard(k)'
  <2>1. SUFFICES ASSUME up["client"] PROVE Heard(k)' BY <1>2 DEF Heard
  <2>2. PICK o \in {2 * zs + 2, 2 * zs + 3} : Leg(r2c, Told(mix, pc, n), o, p)
    BY <1>1, <1>4, <2>1 DEF Walk, Heard
  <2>3. Told(mix, pc, n) \subseteq Told(mix, pc', n)
    <3>1. pc \notin InCopy \union {"done"} BY <1>2 DEF InCopy
    <3> QED BY <3>1, SameTold
  <2>4. Leg(r2c, Told(mix, pc', n), o, p) BY <2>2, <2>3, WiderLeg
  <2>5. m \in Told(mix, pc', n)
    <3>1. m.t = "G" => pc' \in InCopy BY <1>2 DEF InCopy, EndsAnswer
    <3> QED BY <1>5, <1>9, <1>11, <1>12, <3>1 DEF Told
  <2>6. Leg(<<m>>, Told(mix, pc', n), p, k) BY <1>8, <1>14, <2>5, OneLeg
  <2>7. Leg(r2c \o <<m>>, Told(mix, pc', n), o, k) BY <2>4, <2>6, NextLeg
  <2>8. r2c' = r2c \o <<m>>
    <3>1. Append(r2c, m) = r2c \o <<m>> BY <1>9, <1>15
    <3> QED BY <1>2, <2>1, <3>1
  <2> QED BY <1>1, <1>2, <2>7, <2>8 DEF Heard
<1>17. CASE m.t \notin {"Z", "G"}
  <2>1. pc' = "recvbe" /\ k = 2 * e + 1 BY <1>2, <1>9, <1>14, <1>17 DEF EndsAnswer
  <2>2. Answers(e, k, h)' BY <1>2, <1>7, <1>8, <1>14 DEF Answers
  <2>3. Handed(e, h, i)' BY <1>2, <1>4, HandedKept DEF Walk
  <2>4. Waiting(i)' BY <1>2, <1>4, <2>1, WaitingKept DEF Walk, InCopy
  <2>5. Replay(e, i)' BY <1>2, <1>4, ReplayKept DEF Walk
  <2>6. Stage(e, k, k, i)' BY <1>1, <1>2, <1>5, <1>6, <1>10, <2>1 DEF Stage, InCopy
  <2>7. Walk(e, k, k, h, i)' BY <1>16, <2>2, <2>3, <2>4, <2>5, <2>6 DEF Walk
  <2> QED BY <1>2, <1>3, <1>13, <2>1, <2>7 DEF Steady, InHand
<1>18. m.t \in {"Z", "G"} =>
          /\ k = 2 * e + 2 /\ Tail(bebuf) = <<>> /\ b2r[befd] = <<>>
          /\ up[befd] => r2b[befd] = <<>> /\ (m.t = "Z" => mode[befd] = "idle")
  <2>1. Answers(e, a, h) /\ Handed(e, h, i) BY <1>4 DEF Walk
  <2> QED BY <1>3, <1>6, <1>9, <1>14, <2>1, AnswerOver DEF m
<1>19. k \in Nat /\ \A T : Leg(<<>>, T, k, k) BY NoLeg
<1>20. CASE m.t = "Z"
  <2>1. pc' = "top" BY <1>2, <1>20 DEF EndsAnswer
  <2>2. k = 2 * (e + 1) /\ e + 1 \in Nat /\ i = k BY <1>5, <1>18, <1>20
  <2>3. Answers(e + 1, k, k)' BY <1>2, <1>18, <1>19, <1>20 DEF Answers
  <2>4. Handed(e + 1, k, k)' BY <1>2, <1>18, <1>19, <1>20 DEF Handed
  <2>5. Waiting(k)' BY <1>2, <1>4, <2>1, <2>2, WaitingKept DEF Walk, InCopy
  <2>6. Replay(e + 1, k)' BY <1>1, <1>2, <1>4, <1>10, <1>12 DEF Walk, Replay
  <2>7. Stage(e + 1, k, k, k)'
    <3>1. Quiet(befd)' BY <1>2, <1>18, <1>20 DEF Quiet
    <3> QED BY <1>2, <1>18, <1>20, <2>1, <2>2, <3>1 DEF Stage, InCopy
  <2>8. Walk(e + 1, k, k, k, k)' BY <1>16, <2>3, <2>4, <2>5, <2>6, <2>7 DEF Walk
  <2> QED BY <1>2, <1>3, <1>13, <2>1, <2>2, <2>8 DEF Steady, InHand
<1>21. CASE m.t = "G"
  <2>1. pc' = "copy" /\ ~Reads(mix) /\ befd = "writer" /\ e = n
    BY <1>2, <1>10, <1>11, <1>12, <1>21 DEF EndsAnswer
  <2>2. up["writer"] => mode["writer"] = "copy" BY <1>8, <1>21, <2>1 DEF Says
  <2>3. i = k /\ k = 2 * e + 2 BY <1>5, <1>18, <1>21
  <2>4. p = 2 * n BY <1>5, <1>8, <1>9, <1>21, <2>1
  <2>5. Answers(e, k, k)' BY <1>2, <1>18, <1>19, <1>21 DEF Answers
  <2>6. Handed(e, k, k)' BY <1>2, <1>18, <1>19, <1>21, <2>1, <2>2 DEF Handed
  <2>7. Waiting(k)'
    <3>1. unsent = <<>> /\ c2r = <<>> /\ k = 2 * n + 2
      <4>1. i > 2 * Len(reqs) + 1 BY <1>1, <2>1, <2>3
      <4> QED BY <1>1, <1>4, <2>1, <2>3, <4>1, NoneWaiting DEF Walk
    <3> QED BY <1>1, <1>2, <1>19, <3>1 DEF Waiting
  <2>8. Replay(e, k)' BY <1>2, <1>4, <2>3, ReplayKept DEF Walk
  <2>9. up["client"] => r2c' = <<m>>
    <3>1. SUFFICES ASSUME up["client"] PROVE r2c' = <<m>> OBVIOUS
    <3>2. PICK o \in {2 * zs + 2, 2 * zs + 3} : Leg(r2c, Told(mix, pc, n), o, p)
      BY <1>1, <1>4, <3>1 DEF Walk, Heard
    <3>3. o \in Nat BY <3>2 DEF Typed, ClientTyped
    <3>4. r2c = <<>> BY <2>1, <2>4, <3>2, <3>3, ToldNoMore
    <3> QED BY <1>2, <3>1, <3>4
  <2>10. Stage(e, k, k, k)'
    <3>1. bebuf' = <<>> /\ b2r'["writer"] = <<>> BY <1>2, <1>18, <1>21, <2>1
    <3>2. up'["client"] => Len(r2c') = 1 /\ r2c'[1].t = "G"
      <4>1. Len(<<m>>) = 1 /\ <<m>>[1] = m OBVIOUS
      <4> QED BY <1>2, <1>21, <2>9, <4>1
    <3> QED BY <1>1, <1>2, <2>1, <2>2, <2>3, <3>1, <3>2 DEF Stage, InCopy
  <2>11. Walk(e, k, k, k, k)' BY <1>16, <2>5, <2>6, <2>7, <2>8, <2>10 DEF Walk
  <2> QED BY <1>2, <1>3, <1>13, <2>1, <2>11 DEF Steady, InHand
<1> QED BY <1>17, <1>20, <1>21

\* pgr_mbuf_drain(be, 'Z')
LEMMA DrainSteady ==
    ASSUME Typed, Steady, Same(Drain) PROVE Steady'
<1> DEFINE m == Head(bebuf)
<1>1. /\ (pc = "dispatch" /\ Misrouted(m)) \/ pc = "drain"
      /\ bebuf' = Tail(bebuf) /\ pc' = (IF m.t = "Z" THEN "redirect" ELSE "drainrecv")
      /\ UNCHANGED <<mix, in_txn, befd, feout, bein, saved, unsent, c2r, r2c, r2b, b2r, up, reqs,
                     zs, mode, tx>>
  BY DEF Same, Drain, client, servers
<1>2. mix \in Tame /\ Routes /\ \E e, p, a, h, i \in Nat : Walk(e, p, a, h, i)
  BY <1>1 DEF Steady, InHand
<1>3. PICK e \in Nat, p \in Nat, a \in Nat, h \in Nat, i \in Nat : Walk(e, p, a, h, i) BY <1>2
<1>4. bebuf # <<>> /\ befd \in Backend BY <1>1 DEF Typed, WorkerTyped
<1> DEFINE S == Says(mix, befd, up, mode, e)
<1>5. PICK g \in Nat : Leg(bebuf, S, a, g) /\ Leg(b2r[befd], S, g, h)
  BY <1>3 DEF Walk, Answers
<1>6. m \in S /\ From(m) = a /\ Leg(Tail(bebuf), S, To(m), g) BY <1>4, <1>5, FirstStep
<1>7. /\ m \in Reply /\ m.id = e /\ To(m) \in {2 * e + 1, 2 * e + 2}
      /\ From(m) = 2 * e + 1 <=> m.t = "Z"
      /\ To(m) = 2 * e + 2 <=> m.t \in {"Z", "G"}
  BY <1>6, SaysSteps
<1>8. /\ ~Reads(mix) /\ befd = "reader" /\ p = 2 * e /\ i = 2 * e + 2 /\ e <= Len(reqs)
      /\ pc = "dispatch" => a = 2 * e
      /\ pc = "drain" => a = 2 * e + 1
  <2>1. CASE pc = "dispatch" /\ Misrouted(m)
    <3>1. m.k = "25006" /\ befd = "reader" BY <2>1 DEF Misrouted
    <3>2. ~Reads(mix) BY <1>6, <3>1 DEF Says
    <3> QED BY <1>3, <2>1, <3>1, <3>2 DEF Walk, Stage
  <2>2. CASE pc = "drain" BY <1>3, <2>2 DEF Walk, Stage
  <2> QED BY <1>1, <2>1, <2>2
<1>9. Routes' BY <1>1, <1>2 DEF Routes, Quiet
<1>10. PICK k \in Nat : k = To(m) BY <1>7
<1>11. Answers(e, k, h)' BY <1>1, <1>5, <1>6, <1>10 DEF Answers
<1>12. Handed(e, h, i)' BY <1>1, <1>3, HandedKept DEF Walk
<1>13. pc \notin InCopy \union {"done"} /\ pc' \notin InCopy \union {"done"} BY <1>1 DEF InCopy
<1>14. Waiting(i)' BY <1>1, <1>3, <1>13, WaitingKept DEF Walk
<1>15. Replay(e, i)' BY <1>1, <1>3, ReplayKept DEF Walk
<1>16. Heard(p)' BY <1>1, <1>3, <1>13, HeardKept DEF Walk
<1>17. Stage(e, p, k, i)'
  <2>1. CASE pc = "dispatch"
    <3>1. m.t # "Z" BY <1>6, <1>7, <1>8, <2>1
    <3>2. m.t = "E" BY <1>6, <1>8, <3>1 DEF Says
    <3>3. k = 2 * e + 1 /\ pc' = "drainrecv" BY <1>1, <1>7, <1>10, <3>1, <3>2
    <3> QED BY <1>1, <1>8, <3>3 DEF Stage, InCopy
  <2>2. CASE pc = "drain"
    <3>1. m.t = "Z" BY <1>6, <1>7, <1>8, <2>2
    <3>2. To(m) = 2 * e + 2 /\ pc' = "redirect" BY <1>1, <1>7, <3>1
    <3>3. Answers(e, a, h) /\ Handed(e, h, i) BY <1>3 DEF Walk
    <3>4. /\ Tail(bebuf) = <<>> /\ b2r[befd] = <<>>
          /\ up[befd] => r2b[befd] = <<>> /\ mode[befd] = "idle"
      BY <1>2, <1>4, <3>1, <3>2, <3>3, AnswerOver
    <3>5. Quiet("reader")' /\ bebuf' = <<>> BY <1>1, <1>8, <3>4 DEF Quiet
    <3> QED BY <1>1, <1>8, <3>2, <3>5 DEF Stage, InCopy
  <2> QED BY <1>1, <2>1, <2>2
<1>18. Walk(e, p, k, h, i)' BY <1>11, <1>12, <1>14, <1>15, <1>16, <1>17 DEF Walk
<1>19. pc' # "done" BY <1>1
<1> QED BY <1>1, <1>2, <1>9, <1>18, <1>19 DEF Steady, InHand

\* pgr_mbuf_drain at the end of the stream
LEMMA DrainGoneSteady ==
    ASSUME Typed, Steady, Same(DrainGone) PROVE Steady'
<1>1. /\ pc = "drainrecv" /\ pc' = "redirect" /\ EndOfBackend
      /\ UNCHANGED <<mix, in_txn, befd, feout, bein, saved, unsent, bebuf, c2r, r2c, r2b, b2r,
                     up, reqs, zs, mode, tx>>
  BY DEF Same, DrainGone, client, servers
<1>2. mix \in Tame /\ Routes /\ \E e, p, a, h, i \in Nat : Walk(e, p, a, h, i)
  BY <1>1 DEF Steady, InHand
<1>3. PICK e \in Nat, p \in Nat, a \in Nat, h \in Nat, i \in Nat : Walk(e, p, a, h, i) BY <1>2
<1>4. Routes' BY <1>1, <1>2 DEF Routes, Quiet
<1>5. Answers(e, a, h)' BY <1>1, <1>3, AnswersKept DEF Walk
<1>6. Handed(e, h, i)' BY <1>1, <1>3, HandedKept DEF Walk
<1>7. Waiting(i)' BY <1>1, <1>3, WaitingKept DEF Walk, InCopy
<1>8. Replay(e, i)' BY <1>1, <1>3, ReplayKept DEF Walk
<1>9. Heard(p)' BY <1>1, <1>3, HeardKept DEF Walk, InCopy
<1>10. Stage(e, p, a, i)'
  <2>1. ~Reads(mix) /\ befd = "reader" /\ e <= Len(reqs) /\ p = 2 * e /\ i = 2 * e + 2
    BY <1>1, <1>3 DEF Walk, Stage
  <2>2. bebuf' = <<>> /\ Quiet("reader")' BY <1>1, <1>2, <2>1 DEF EndOfBackend, Routes, Quiet
  <2> QED BY <1>1, <2>1, <2>2 DEF Stage, InCopy
<1>11. Walk(e, p, a, h, i)' BY <1>5, <1>6, <1>7, <1>8, <1>9, <1>10 DEF Walk
<1> QED BY <1>1, <1>2, <1>4, <1>11 DEF Steady, InHand

\* pgr_mbuf_resend and pgr_mbuf_reset
LEMMA RedirectSteady ==
    ASSUME Typed, Steady, Same(Redirect) PROVE Steady'
<1>1. /\ pc = "redirect" /\ pc' = "recvbe" /\ befd' = "writer" /\ feout' = "writer" /\ bein' = "writer"
      /\ r2b' = ToBackend(r2b, "writer", saved) /\ saved' = <<>> /\ unsent' = <<>>
      /\ UNCHANGED <<mix, in_txn, bebuf, c2r, r2c, b2r, up, reqs, zs, mode, tx>>
  BY DEF Same, Redirect, client, servers
<1>2. mix \in Tame /\ Routes /\ \E e, p, a, h, i \in Nat : Walk(e, p, a, h, i)
  BY <1>1 DEF Steady, InHand
<1>3. PICK e \in Nat, p \in Nat, a \in Nat, h \in Nat, i \in Nat : Walk(e, p, a, h, i) BY <1>2
<1>4. PICK n \in Nat : n = Len(reqs) BY DEF Typed, ClientTyped
<1>5. /\ ~Reads(mix) /\ befd = "reader" /\ e <= n /\ p = 2 * e /\ i = 2 * e + 2
      /\ bebuf = <<>> /\ Quiet("reader")
  BY <1>1, <1>3, <1>4 DEF Walk, Stage
<1>6. e = n /\ Leg(saved, Given(mix, "idle", e), 2 * e, 2 * e + 2)
  BY <1>3, <1>4, <1>5 DEF Walk, Replay
<1>7. Quiet("writer") BY <1>2, <1>5 DEF Routes, Backend
<1>8. /\ r2b'["reader"] = r2b["reader"]
      /\ up["writer"] => r2b'["writer"] = saved
  <2>1. /\ r2b'["reader"] = r2b["reader"]
        /\ up["writer"] => r2b'["writer"] = r2b["writer"] \o saved
    BY <1>1 DEF ToBackend, Typed, AsksTyped, Backend
  <2>2. up["writer"] => r2b["writer"] = <<>> BY <1>7 DEF Quiet
  <2>3. saved \in Seq(Ask) BY DEF Typed, AsksTyped
  <2>4. <<>> \o saved = saved BY <2>3
  <2> QED BY <2>1, <2>2, <2>4
<1>9. Routes'
  <2>1. Quiet("reader")' BY <1>1, <1>5, <1>8 DEF Quiet
  <2> QED BY <1>1, <1>2, <1>5, <2>1 DEF Routes, Backend
<1>10. 2 * e \in Nat /\ 2 * e + 2 \in Nat OBVIOUS
<1>11. Answers(e, 2 * e, 2 * e)'
  <2>1. \A S : Leg(<<>>, S, 2 * e, 2 * e) BY NoLeg
  <2>2. bebuf' = <<>> /\ b2r'[befd'] = <<>> BY <1>1, <1>5, <1>7 DEF Quiet
  <2> QED BY <1>10, <2>1, <2>2 DEF Answers
<1>12. Handed(e, 2 * e, 2 * e + 2)'
  <2>1. up["writer"] => mode["writer"] = "idle" BY <1>7 DEF Quiet
  <2> QED BY <1>1, <1>5, <1>6, <1>8, <2>1 DEF Handed
<1>13. Waiting(2 * e + 2)'
  <2>1. c2r = <<>>
    <3>1. i > 2 * Len(reqs) + 1 BY <1>4, <1>5, <1>6
    <3> QED BY <1>3, <3>1, NoneWaiting DEF Walk
  <2>2. \A S : Leg(<<>>, S, 2 * e + 2, 2 * e + 2) BY NoLeg
  <2>3. unsent' = <<>> /\ c2r' = <<>> /\ 2 * Len(reqs') + 2 = 2 * e + 2 BY <1>1, <1>4, <1>6, <2>1
  <2> QED BY <1>10, <2>2, <2>3 DEF Waiting
<1>14. Replay(e, 2 * e + 2)' BY <1>1, <1>4, <1>6 DEF Replay
<1>15. Heard(2 * e)' BY <1>1, <1>3, <1>5, HeardKept DEF Walk, InCopy
<1>16. Stage(e, 2 * e, 2 * e, 2 * e + 2)' BY <1>1, <1>4, <1>5 DEF Stage, InCopy
<1>17. Walk(e, 2 * e, 2 * e, 2 * e, 2 * e + 2)'
  BY <1>11, <1>12, <1>13, <1>14, <1>15, <1>16 DEF Walk
<1> QED BY <1>1, <1>2, <1>9, <1>10, <1>17 DEF Steady, InHand

\* pgr_mbuf_relay(fe)
LEMMA CopyRelaySteady ==
    ASSUME Typed, Steady, Same(CopyRelay) PROVE Steady'
<1> DEFINE m == Head(unsent)
<1>1. /\ pc = "copysend" /\ r2b' = ToBackend(r2b, feout, <<m>>) /\ unsent' = Tail(unsent)
      /\ pc' = (IF m.t \in {"c", "F"} THEN "recvbe" ELSE "copy")
      /\ UNCHANGED <<mix, in_txn, befd, feout, bein, saved, bebuf, c2r, r2c, b2r, up, reqs, zs,
                     mode, tx>>
  BY DEF Same, CopyRelay, client, servers
<1>2. mix \in Tame /\ Routes /\ \E e, p, a, h, i \in Nat : Walk(e, p, a, h, i)
  BY <1>1 DEF Steady, InHand
<1>3. PICK e \in Nat, p \in Nat, a \in Nat, h \in Nat, i \in Nat : Walk(e, p, a, h, i) BY <1>2
<1>4. PICK n \in Nat : n = Len(reqs) BY DEF Typed, ClientTyped
<1>5. /\ ~Reads(mix) /\ befd = "writer" /\ e <= n /\ a = p /\ i = p /\ p \in {2 * e, 2 * e + 2}
      /\ bebuf = <<>> /\ b2r["writer"] = <<>> /\ (up["writer"] => mode["writer"] = "copy")
  BY <1>1, <1>3, <1>4 DEF Walk, Stage, InCopy
<1>6. e = n BY <1>3, <1>4, <1>5 DEF Walk, Replay
<1>7. unsent # <<>> BY <1>1 DEF Typed, WorkerTyped
<1>8. PICK j \in Nat : /\ Leg(unsent, Due(mix, pc, n), i, j)
                       /\ Leg(c2r, Due(mix, pc, n), j, 2 * n + 2)
  BY <1>3, <1>4 DEF Walk, Waiting
<1>9. m \in Due(mix, pc, n) /\ From(m) = i /\ Leg(Tail(unsent), Due(mix, pc, n), To(m), j)
  BY <1>7, <1>8, FirstStep
<1>10. p = 2 * e /\ i = 2 * e
  <2>1. ~(i > 2 * Len(reqs) + 1) BY <1>3, <1>7, NoneWaiting DEF Walk
  <2> QED BY <1>4, <1>5, <1>6, <2>1
<1> HIDE DEF m
<1>11. m \in Data /\ m.id \in Nat /\ m.id <= n BY <1>1, <1>9, DueSteps DEF InCopy
<1>12. m.id = e /\ From(m) = 2 * e
  <2>1. From(m) = 2 * m.id BY <1>11, DataSteps
  <2> QED BY <1>9, <1>10, <1>11, <2>1
<1>13. PICK k \in Nat : k = To(m) BY <1>11, <1>12, DataSteps
<1>14. /\ m.t \in {"d", "c"}
       /\ m.t = "d" => k = 2 * e
       /\ m.t = "c" => k = 2 * e + 2
  BY <1>11, <1>12, <1>13, DataSteps
<1>15. h = 2 * e
  <2>1. PICK g \in Nat : /\ Leg(bebuf, Says(mix, befd, up, mode, e), a, g)
                         /\ Leg(b2r[befd], Says(mix, befd, up, mode, e), g, h)
    BY <1>3 DEF Walk, Answers
  <2> QED BY <1>5, <1>10, <2>1 DEF Leg
<1>16. /\ r2b'["reader"] = r2b["reader"]
       /\ up["writer"] => r2b'["writer"] = r2b["writer"] \o <<m>>
  <2>1. feout = "writer" BY <1>2, <1>5 DEF Routes
  <2> QED BY <1>1, <2>1 DEF ToBackend, Typed, AsksTyped, Backend
<1>17. Routes'
  <2>1. Quiet("reader")' BY <1>1, <1>2, <1>5, <1>16 DEF Routes, Quiet, Backend
  <2> QED BY <1>1, <1>2, <1>5, <2>1 DEF Routes, Backend
<1>18. Answers(e, 2 * e, 2 * e)'
  <2>1. Answers(e, a, h) BY <1>3 DEF Walk
  <2>2. Answers(e, 2 * e, 2 * e) BY <1>5, <1>10, <1>15, <2>1
  <2> QED BY <1>1, <2>2, AnswersKept
<1>19. Handed(e, 2 * e, k)'
  <2>1. SUFFICES ASSUME up["writer"] PROVE Handed(e, 2 * e, k)' BY <1>1, <1>5 DEF Handed
  <2> DEFINE G == Given(mix, mode["writer"], e)
  <2>2. Leg(r2b["writer"], G, 2 * e, 2 * e) BY <1>3, <1>5, <1>10, <1>15, <2>1 DEF Walk, Handed
  <2>3. m \in G BY <1>5, <1>11, <1>12, <2>1 DEF Given
  <2>4. Leg(<<m>>, G, 2 * e, k) BY <1>12, <1>13, <2>3, OneLeg
  <2> HIDE DEF G
  <2>5. Leg(r2b["writer"] \o <<m>>, G, 2 * e, k) BY <2>2, <2>4, NextLeg
  <2> QED BY <1>1, <1>5, <1>16, <2>1, <2>5 DEF Handed, G
<1>20. Heard(2 * e)'
  <2>1. CASE up["client"]
    <3>1. PICK o \in {2 * zs + 2, 2 * zs + 3} : Leg(r2c, Told(mix, pc, n), o, 2 * n)
      BY <1>3, <1>4, <1>6, <1>10, <2>1 DEF Walk, Heard
    <3>2. o \in Nat BY <3>1 DEF Typed, ClientTyped
    <3>3. r2c = <<>> /\ o = 2 * n BY <1>5, <3>1, <3>2, ToldNoMore
    <3>4. \A S : Leg(<<>>, S, o, 2 * e) BY <1>6, <3>3, NoLeg
    <3> QED BY <1>1, <3>1, <3>3, <3>4 DEF Heard
  <2>2. CASE ~up["client"] BY <1>1, <2>2 DEF Heard
  <2> QED BY <2>1, <2>2
<1>21. Replay(e, k)' BY <1>1, <1>3, <1>5 DEF Walk, Replay
<1>22. 2 * e \in Nat OBVIOUS
<1>23. CASE m.t = "d"
  <2>1. pc' = "copy" /\ k = 2 * e BY <1>1, <1>14, <1>23
  <2>2. Waiting(k)'
    <3>1. pc \in InCopy /\ pc' \in InCopy BY <1>1, <2>1 DEF InCopy
    <3>2. Due(mix, pc, n) = Due(mix, pc', n) BY <3>1, SameDue
    <3> QED BY <1>1, <1>4, <1>8, <1>9, <1>13, <3>2 DEF Waiting
  <2>3. Stage(e, 2 * e, 2 * e, k)'
    <3>1. 2 * e # 2 * e + 2 OBVIOUS
    <3> QED BY <1>1, <1>4, <1>5, <2>1, <3>1 DEF Stage, InCopy
  <2>4. Walk(e, 2 * e, 2 * e, 2 * e, k)' BY <1>18, <1>19, <1>20, <1>21, <2>2, <2>3 DEF Walk
  <2> QED BY <1>1, <1>2, <1>17, <1>22, <2>1, <2>4 DEF Steady, InHand
<1>24. CASE m.t = "c"
  <2>1. pc' = "recvbe" /\ k = 2 * e + 2 BY <1>1, <1>14, <1>24
  <2>2. Waiting(k)'
    <3>1. k > 2 * n + 1 /\ k = 2 * n + 2 BY <1>6, <2>1
    <3>2. PICK t : t = Tail(unsent) OBVIOUS
    <3>3. Leg(t, Due(mix, pc, n), k, j) BY <1>9, <1>13, <3>2
    <3>4. t = <<>> /\ j = k BY <3>1, <3>3, DueNoMore
    <3>5. c2r = <<>> BY <1>8, <3>1, <3>4, DueNoMore
    <3>6. \A S : Leg(<<>>, S, k, k) BY NoLeg
    <3>7. unsent' = <<>> /\ c2r' = <<>> /\ 2 * Len(reqs') + 2 = k BY <1>1, <1>4, <3>1, <3>2,
                      <3>4, <3>5
    <3> QED BY <3>6, <3>7 DEF Waiting
  <2>3. Stage(e, 2 * e, 2 * e, k)' BY <1>1, <1>4, <1>5, <2>1 DEF Stage, InCopy
  <2>4. Walk(e, 2 * e, 2 * e, 2 * e, k)' BY <1>18, <1>19, <1>20, <1>21, <2>2, <2>3 DEF Walk
  <2> QED BY <1>1, <1>2, <1>17, <1>22, <2>1, <2>4 DEF Steady, InHand
<1> QED BY <1>14, <1>23, <1>24

-----------------------------------------------------------------------------
(* The session as a whole. *)

LEMMA WorkerSteady ==
    ASSUME Typed, Steady, Same(Worker) PROVE Steady'
<1>1. Worker /\ mix' = mix BY DEF Same
<1>2. UNCHANGED <<up, reqs, zs>> BY <1>1, WorkerFrame DEF client
<1>3. CASE Top BY <1>1, <1>3, TopSteady DEF Same
<1>4. CASE RecvFe BY <1>1, <1>4, RecvFrontendSteady DEF RecvFe
<1>5. CASE Send BY <1>1, <1>5, SendSteady DEF Same
<1>6. CASE RecvBe BY <1>1, <1>6, RecvBackendSteady DEF RecvBe
<1>7. CASE Relay BY <1>1, <1>7, RelaySteady DEF Same
<1>8. CASE Drain BY <1>1, <1>8, DrainSteady DEF Same
<1>9. CASE DrainRecv BY <1>1, <1>9, RecvBackendSteady DEF DrainRecv
<1>10. CASE DrainGone BY <1>1, <1>10, DrainGoneSteady DEF Same
<1>11. CASE Redirect BY <1>1, <1>11, RedirectSteady DEF Same
<1>12. CASE CopyRecv BY <1>1, <1>12, RecvFrontendSteady DEF CopyRecv
<1>13. CASE CopyRelay BY <1>1, <1>13, CopyRelaySteady DEF Same
<1>14. CASE FrontendGone \/ SendFails \/ BackendGone \/ RelayFails
  <2>1. pc' = "done" /\ r2c' = r2c
    BY <1>14 DEF FrontendGone, SendFails, BackendGone, RelayFails, Shutdown
  <2> QED BY <1>1, <1>2, <2>1, OverKept
<1> QED BY <1>1, <1>3, <1>4, <1>5, <1>6, <1>7, <1>8, <1>9, <1>10, <1>11, <1>12, <1>13, <1>14
        DEF Worker

LEMMA SteadyNext ==
    ASSUME Typed, Steady, [Next]_vars PROVE Steady'
<1>1. CASE \E k \in Kinds : Same(ClientSend(k)) BY <1>1, ClientSendSteady
<1>2. CASE Same(ClientRecv) BY <1>2, ClientRecvSteady
<1>3. CASE \E q \in Peer : Same(Vanish(q))
  <2>1. PICK q \in Peer : Same(Vanish(q)) BY <1>3
  <2>2. \A o \in Peer : up'[o] => up[o]
    BY <2>1 DEF Same, Vanish, Typed, ServersTyped
  <2>3. UNCHANGED <<mix, worker, c2r, r2c, r2b, b2r, client, servers>> BY <2>1 DEF Same, Vanish
  <2> QED BY <2>2, <2>3, FewerWalk
<1>4. CASE \E b \in Backend : Same(BackendStep(b)) BY <1>4, BackendSteady
<1>5. CASE Same(Worker) BY <1>5, WorkerSteady
<1>6. CASE UNCHANGED vars
  <2>1. UNCHANGED <<mix, worker, c2r, r2c, r2b, b2r, client, servers>> /\ up' = up
    BY <1>6 DEF vars
  <2> QED BY <2>1, FewerWalk
<1> QED BY <1>1, <1>2, <1>3, <1>4, <1>5, <1>6 DEF Next

\* Before its first request a session is at position 2, where that one starts.
LEMMA SteadyInit == Init /\ mix \in Tame => Steady
<1> SUFFICES ASSUME Init, mix \in Tame PROVE Steady OBVIOUS
<1>1. /\ pc = "top" /\ in_txn = FALSE /\ befd = "reader" /\ feout = "reader" /\ bein = "reader"
      /\ saved = <<>> /\ unsent = <<>> /\ bebuf = <<>> /\ c2r = <<>> /\ r2c = <<>>
      /\ tx = [b \in Backend |-> "none"] /\ reqs = <<>> /\ zs = 0
  BY DEF Init
<1>2. \A b \in Backend : r2b[b] = <<>> /\ b2r[b] = <<>> /\ mode[b] = "idle" BY DEF Init
<1>3. "reader" \in Backend /\ "writer" \in Backend BY DEF Backend
<1>4. \A b \in Backend : Quiet(b) BY <1>2 DEF Quiet
<1>5. Routes BY <1>1, <1>4, <1>3, Zenon DEF Routes
<1>6. Len(reqs) = 0 BY <1>1
<1>7. Answers(1, 2, 2)
  <2>1. Leg(bebuf, Says(mix, befd, up, mode, 1), 2, 2) BY <1>1, NoLeg
  <2>2. Leg(b2r[befd], Says(mix, befd, up, mode, 1), 2, 2) BY <1>1, <1>2, <1>3, NoLeg
  <2> QED BY <2>1, <2>2 DEF Answers
<1>8. Handed(1, 2, 2)
  <2>1. Leg(r2b[befd], Given(mix, mode[befd], 1), 2, 2) BY <1>1, <1>2, <1>3, NoLeg
  <2>2. mode[befd] = "idle" BY <1>1, <1>2, <1>3
  <2> QED BY <2>1, <2>2 DEF Handed
<1>9. Waiting(2)
  <2>1. Leg(unsent, Due(mix, pc, Len(reqs)), 2, 2) BY <1>1, NoLeg
  <2>2. Leg(c2r, Due(mix, pc, Len(reqs)), 2, 2) BY <1>1, NoLeg
  <2>3. 2 * Len(reqs) + 2 = 2 BY <1>6
  <2>4. Leg(c2r, Due(mix, pc, Len(reqs)), 2, 2 * Len(reqs) + 2) BY <2>2, <2>3
  <2> QED BY <2>1, <2>4 DEF Waiting
<1>10. Replay(1, 2)
  <2>1. Leg(saved, Given(mix, "idle", 1), 2, 2) BY <1>1, NoLeg
  <2>2. Leg(saved, Given(mix, "idle", 1), 2 * 1, 2) BY <2>1
  <2> QED BY <1>1, <1>6, <2>2 DEF Replay
<1>11. Heard(2)
  <2>1. Leg(r2c, Told(mix, pc, Len(reqs)), 2, 2) BY <1>1, NoLeg
  <2>2. 2 * zs + 2 = 2 BY <1>1
  <2> QED BY <2>1, <2>2 DEF Heard
<1>12. Stage(1, 2, 2, 2) BY <1>1, <1>3, <1>4 DEF Stage, InCopy
<1>13. Walk(1, 2, 2, 2, 2) BY <1>7, <1>8, <1>9, <1>10, <1>11, <1>12 DEF Walk
<1> QED BY <1>1, <1>5, <1>13 DEF Steady, InHand

LEMMA StaysSteady == Spec /\ mix \in Tame => [](Typed /\ Steady)
<1>1. Init /\ mix \in Tame => Typed /\ Steady BY TypedInit, SteadyInit
<1>2. Typed /\ Steady /\ [Next]_vars => (Typed /\ Steady)' BY TypedNext, SteadyNext
<1> QED BY <1>1, <1>2, PTL DEF Spec

\* A session of nothing but reads, pipelined and cut into pieces as they may be,
\* and one of nothing but single writes: whoever vanishes in it, whenever
\* handle_client is back at the top of its loop no message of an earlier request
\* is left in be, on its way or with a backend, so that every refusal was drained
\* and every COPY followed to its end.
THEOREM TameSessionsSettle == Spec /\ mix \in Tame => []SessionInv
<1>1. ASSUME Typed, Steady PROVE SessionInv
  <2>1. TypeOK BY <1>1, TypedIsTypeOK
  <2>2. ASSUME pc = "top", up["reader"], up["writer"]
        PROVE  /\ bebuf = <<>>
               /\ \A b \in Backend : r2b[b] = <<>> /\ b2r[b] = <<>> /\ mode[b] = "idle"
    <3>1. Routes /\ \E e, p, a, h, i \in Nat : Walk(e, p, a, h, i) BY <1>1, <2>2 DEF Steady, InHand
    <3>2. bebuf = <<>> /\ Quiet(befd) BY <2>2, <3>1 DEF Walk, Stage
    <3>3. \A b \in Backend : Quiet(b) BY <3>1, <3>2 DEF Routes
    <3> QED BY <2>2, <3>2, <3>3 DEF Quiet, Backend
  <2> QED BY <2>1, <2>2 DEF SessionInv, Settled
<1> QED BY <1>1, StaysSteady, PTL

\* What the client sees of one step is what one node may do.
LEMMA NodeStep ==
    ASSUME Typed, Steady, [Next]_vars PROVE [Node!Next]_(Node!vars)
<1>1. CASE \E k \in Kinds : Same(ClientSend(k))
  <2>1. PICK k \in Kinds : Same(ClientSend(k)) BY <1>1
  <2>2. k \in AllKinds BY TameMix DEF Steady
  <2>3. Node!Ask(k) BY <2>1 DEF Same, ClientSend, Node!Ask
  <2> QED BY <2>2, <2>3 DEF Node!Next
<1>2. CASE Same(ClientRecv)
  <2> DEFINE m == Head(r2c)
             c == m.k
             last == (m.t = "Z")
  <2>1. \E p \in Nat : Heard(p) BY DEF Steady, InHand, Walk
  <2>2. Awaiting(zs + 1) /\ m.id = zs + 1 /\ m.k \in {"ok", "other"}
    BY <1>2, <2>1, RecvIsOwn DEF Steady
  <2>3. /\ ans' = [ans EXCEPT ![zs + 1] = @ \union {[id |-> m.id, k |-> m.k]}]
        /\ zs' = (IF m.t = "Z" THEN zs + 1 ELSE zs)
        /\ UNCHANGED <<reqs, noise>>
    BY <1>2, <2>2 DEF Same, ClientRecv
  <2>4. zs + 1 <= Len(reqs) BY <2>2 DEF Awaiting
  <2>5. ans' = [ans EXCEPT ![zs + 1] = @ \union {[id |-> zs + 1, k |-> c]}] BY <2>2, <2>3
  <2>6. zs' = (IF last THEN zs + 1 ELSE zs) BY <2>3
  <2>7. c \in Node!Codes /\ last \in BOOLEAN BY <2>2 DEF Node!Codes
  <2> HIDE DEF c, last
  <2>8. Node!Answer(c, last) BY <2>3, <2>4, <2>5, <2>6 DEF Node!Answer
  <2> QED BY <2>7, <2>8 DEF Node!Next
<1>3. CASE \E q \in Peer : Same(Vanish(q)) BY <1>3 DEF Same, Vanish, client, Node!vars
<1>4. CASE \E b \in Backend : Same(BackendStep(b))
  BY <1>4 DEF Same, BackendStep, client, Node!vars
<1>5. CASE Same(Worker) BY <1>5, WorkerFrame DEF Same, client, Node!vars
<1>6. CASE UNCHANGED vars BY <1>6 DEF vars, client, Node!vars
<1> QED BY <1>1, <1>2, <1>3, <1>4, <1>5, <1>6 DEF Next

\* Such a session implements one regular PostgreSQL node: its requests are
\* answered in order, every message that reaches the client belongs to the
\* request it waits for, none arrives that nobody asked for, and the 25006 of the
\* reader is never among them, however the relay, the drain and the replay of
\* handle_client interleave with the client and the backends.
THEOREM TameSessionsLookLikeOneNode == Spec /\ mix \in Tame => LooksLikeOneNode
<1>1. Init => Node!Init BY DEF Init, Node!Init
<1>2. Typed /\ Steady /\ [Next]_vars => [Node!Next]_(Node!vars) BY NodeStep
<1> QED BY <1>1, <1>2, StaysSteady, PTL DEF Spec, LooksLikeOneNode, Node!Spec

\* What one node does is to answer each request with its own answer, which is not
\* a refusal to write.
LEMMA NodeAnswers ==
    ASSUME Typed, OwnAnswer, RefusalMaskedAlways, [Node!Next]_(Node!vars)
    PROVE  OwnAnswer' /\ RefusalMaskedAlways'
<1>1. CASE \E k \in AllKinds : Node!Ask(k)
  BY <1>1 DEF Node!Ask, OwnAnswer, RefusalMaskedAlways
<1>2. CASE \E c \in Node!Codes, last \in BOOLEAN : Node!Answer(c, last)
  <2>1. PICK c \in Node!Codes, last \in BOOLEAN : Node!Answer(c, last) BY <1>2
  <2>2. PICK n : n = zs + 1 OBVIOUS
  <2>3. ans' = [ans EXCEPT ![n] = @ \union {[id |-> n, k |-> c]}] /\ noise' = noise
    BY <2>1, <2>2 DEF Node!Answer
  <2>4. c # "25006" BY DEF Node!Codes
  <2>5. \A i \in 1..MaxReqs : \A x \in ans'[i] : x \in ans[i] \/ (i = n /\ x = [id |-> n, k |-> c])
    BY <2>3 DEF Typed, ClientTyped
  <2>6. OwnAnswer' BY <2>3, <2>5 DEF OwnAnswer
  <2>7. RefusalMaskedAlways' BY <2>4, <2>5 DEF RefusalMaskedAlways
  <2> QED BY <2>6, <2>7
<1>3. CASE UNCHANGED Node!vars BY <1>3 DEF Node!vars, OwnAnswer, RefusalMaskedAlways
<1> QED BY <1>1, <1>2, <1>3 DEF Node!Next

\* The client of such a session is told nothing of another request, nothing it
\* did not ask for, and never that the node is read-only: response loop, drain
\* and replay keep every 25006 of the reader to themselves.
THEOREM TameSessionsMaskRefusals == Spec /\ mix \in Tame => [](OwnAnswer /\ RefusalMasked)
<1>1. Init => OwnAnswer /\ RefusalMaskedAlways BY DEF Init, OwnAnswer, RefusalMaskedAlways
<1>2. Typed /\ Steady /\ OwnAnswer /\ RefusalMaskedAlways /\ [Next]_vars
          => (OwnAnswer /\ RefusalMaskedAlways)'
  BY NodeStep, NodeAnswers
<1>3. RefusalMaskedAlways => RefusalMasked BY DEF RefusalMaskedAlways, RefusalMasked
<1> QED BY <1>1, <1>2, <1>3, StaysSteady, PTL DEF Spec
=============================================================================
