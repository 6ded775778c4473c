------------------------------ MODULE Session ------------------------------
(***************************************************************************)
(* One client session of a pgrouter worker: the message loop of            *)
(* handle_client (src/worker.c), between a client, the worker thread and   *)
(* the two backends the session is connected to, the reader and the        *)
(* writer.                                                                 *)
(*                                                                         *)
(* The unit of communication is one protocol message; that the rest of a   *)
(* message may arrive after its header matters only where the worker looks *)
(* at more than the header, see Split.  A request is one                   *)
(* round of the protocol (everything up to the ReadyForQuery that ends     *)
(* it); its identity is its number.  What a message says is reduced to its *)
(* type octet, the number of the request it belongs to and, where the code *)
(* or a backend tells them apart, a kind:                                  *)
(*   "read"      a query that any backend executes                         *)
(*   "write"     a query that a read-only replica refuses with 25006       *)
(*   "bad"       a query that every backend refuses, not with 25006        *)
(*   "begin"     BEGIN              "start"    START TRANSACTION           *)
(*   "commit"    COMMIT             "quit"     Terminate                   *)
(*   "copy"      COPY ... FROM STDIN that the client completes             *)
(*   "copyfail"  COPY ... FROM STDIN that the client aborts with CopyFail  *)
(*   "xread", "xwrite"   the same as read and write, extended protocol     *)
(*   "flush"     an extended read whose client waits for the reply to a    *)
(*               Flush before it sends Sync                                *)
(* The client and the two PostgreSQL backends are external; they do what   *)
(* the message loop relies on.                                             *)
(***************************************************************************)
EXTENDS Naturals, Sequences

CONSTANTS Mixes,     \* the sorts of session, see Mix
          MaxReqs,   \* bound: requests in one session
          Mortal     \* which of the client and the backends may go away

Backend == {"reader", "writer"}
Peer    == Backend \union {"client"}

AllKinds == {"read", "write", "bad", "begin", "start", "commit", "quit",
             "copy", "copyfail", "xread", "xwrite", "flush"}

\* A sort of session: the kinds of request the client issues, how many of them
\* it may have unanswered (1: no pipelining), and whether the header of a message
\* may arrive before the rest of it.
Mix == [kinds : SUBSET AllKinds, window : 1..MaxReqs, split : BOOLEAN]

ASSUME SessionAssumption ==
    /\ Mixes \subseteq Mix
    /\ MaxReqs \in Nat
    /\ Mortal \subseteq Peer

VARIABLES
    \* the worker
    pc,       \* the point of handle_client the worker has reached
    in_txn,   \* the in_txn flag
    befd,     \* the backend befd names
    feout,    \* fe->outfd
    bein,     \* be->infd
    saved,    \* messages in fe (buffer and cache) that were sent since its reset
    unsent,   \* messages in fe that were received and not sent yet
    bebuf,    \* messages in be
    \* the sockets
    c2r, r2c, \* messages under way from and to the client
    r2b, b2r, \* messages under way to and from each backend
    up,       \* which peers still have their end of the connection open
    \* the client
    mix,      \* the sort of session it makes of this one
    reqs,     \* the kinds of the requests sent so far
    zs,       \* how many ReadyForQuery messages the client has seen
    ans,      \* for each request, what the client took for its answer
    noise,    \* has the client received a message it did not wait for?
    \* the backends
    mode,     \* "idle", "copy" (COPY sub-protocol), "skip" (until Sync)
    tx,       \* "none", "open", "failed"
    copying,  \* the COPY a backend is taking the data of (0: none)
    execs     \* the writes each backend has executed, by request number

worker  == <<pc, in_txn, befd, feout, bein, saved, unsent, bebuf>>
client  == <<reqs, zs, ans, noise>>
servers == <<mode, tx, copying, execs>>
vars    == <<mix, worker, c2r, r2c, r2b, b2r, up, client, servers>>

Kinds  == mix.kinds
Window == mix.window
Split  == mix.split

Msg(t, n, k) == [t |-> t, id |-> n, k |-> k]

-----------------------------------------------------------------------------
(* The client (external). *)

\* The messages that open request n of kind k.
Opening(k, n) ==
    CASE k = "xread"  -> <<Msg("P", n, "read"),  Msg("S", n, "sync")>>
      [] k = "xwrite" -> <<Msg("P", n, "write"), Msg("S", n, "sync")>>
      [] k = "flush"  -> <<Msg("P", n, "read"),  Msg("H", n, "flush")>>
      [] k = "quit"   -> <<Msg("X", n, "quit")>>
      [] OTHER        -> <<Msg("Q", n, k)>>

\* What the client sends when m arrives as part of the answer to request n.
FollowUp(m, n) ==
    CASE m.t = "G" /\ reqs[n] = "copyfail" -> <<Msg("d", n, "data"), Msg("f", n, "fail")>>
      [] m.t = "G" /\ reqs[n] # "copyfail" -> <<Msg("d", n, "data"), Msg("c", n, "done")>>
      [] m.t = "1" /\ reqs[n] = "flush"    -> <<Msg("S", n, "sync")>>
      [] OTHER                             -> <<>>

\* Request n is waiting for its answer.
Awaiting(n) == zs < n /\ n <= Len(reqs)

\* The client issues a request.
ClientSend(k) ==
    /\ up["client"] /\ pc # "done"
    /\ Len(reqs) < MaxReqs
    /\ Len(reqs) - zs < Window
    /\ \A n \in 1..Len(reqs) : reqs[n] # "quit"
    /\ reqs' = Append(reqs, k)
    /\ c2r' = c2r \o Opening(k, Len(reqs) + 1)
    /\ UNCHANGED <<worker, r2c, r2b, b2r, up, zs, ans, noise, servers>>

\* The client takes the next message for part of the answer to its oldest
\* unanswered request; a message that arrives while it waits for none is
\* dropped.
ClientRecv ==
    /\ up["client"] /\ r2c # <<>>
    /\ r2c' = Tail(r2c)
    /\ LET m == Head(r2c)
           n == zs + 1
       IN IF Awaiting(n)
          THEN /\ ans' = [ans EXCEPT ![n] = @ \union {[id |-> m.id, k |-> m.k]}]
               /\ zs' = IF m.t = "Z" THEN n ELSE zs
               /\ c2r' = c2r \o FollowUp(m, n)
               /\ UNCHANGED noise
          ELSE noise' = TRUE /\ UNCHANGED <<ans, zs, c2r>>
    /\ UNCHANGED <<worker, r2b, b2r, up, reqs, servers>>

\* A peer goes away: its end of the socket is closed, what it sent before can
\* still be read.
Vanish(p) ==
    /\ p \in Mortal /\ up[p]
    /\ up' = [up EXCEPT ![p] = FALSE]
    /\ UNCHANGED <<worker, c2r, r2c, r2b, b2r, client, servers>>

-----------------------------------------------------------------------------
(* A PostgreSQL backend (external): the reader is a read-only replica. *)

Ready(n)   == Msg("Z", n, "ok")
Done(n)    == <<Msg("C", n, "ok"), Ready(n)>>
Fail(n, c) == <<Msg("E", n, c), Ready(n)>>

\* Backend b takes one message: the reply, the state it is left in, and the
\* request whose write that executes (0: none).
Serve(b, m, reply, md, t, ex) ==
    /\ b2r' = [b2r EXCEPT ![b] = @ \o reply]
    /\ mode' = [mode EXCEPT ![b] = md]
    /\ tx' = [tx EXCEPT ![b] = t]
    /\ copying' = [copying EXCEPT ![b] = IF md # "copy" THEN 0
                                         ELSE IF mode[b] = "copy" THEN @ ELSE m.id]
    /\ execs' = [execs EXCEPT ![b] = IF ex # 0 THEN Append(@, ex) ELSE @]

Refused(b) == b = "reader"

BackendQuery(b, m) ==
    LET broken == IF tx[b] = "none" THEN "none" ELSE "failed"
    IN CASE m.k = "commit"
              -> Serve(b, m, Done(m.id), "idle", "none", 0)
         [] m.k # "commit" /\ tx[b] = "failed"
              -> Serve(b, m, Fail(m.id, "other"), "idle", "failed", 0)
         [] m.k \in {"begin", "start"} /\ tx[b] # "failed"
              -> Serve(b, m, Done(m.id), "idle", "open", 0)
         [] m.k = "read" /\ tx[b] # "failed"
              -> Serve(b, m, Done(m.id), "idle", tx[b], 0)
         [] m.k = "bad" /\ tx[b] # "failed"
              -> Serve(b, m, Fail(m.id, "other"), "idle", broken, 0)
         [] m.k \in {"write", "copy", "copyfail"} /\ Refused(b) /\ tx[b] # "failed"
              -> Serve(b, m, Fail(m.id, "25006"), "idle", broken, 0)
         [] m.k = "write" /\ ~Refused(b) /\ tx[b] # "failed"
              -> Serve(b, m, Done(m.id), "idle", tx[b], m.id)
         [] m.k \in {"copy", "copyfail"} /\ ~Refused(b) /\ tx[b] # "failed"
              -> Serve(b, m, <<Msg("G", m.id, "ok")>>, "copy", tx[b], 0)

BackendStep(b) ==
    /\ up[b] /\ r2b[b] # <<>>
    /\ r2b' = [r2b EXCEPT ![b] = Tail(@)]
    /\ LET m == Head(r2b[b])
       IN CASE m.t = "X"
                 -> up' = [up EXCEPT ![b] = FALSE] /\ UNCHANGED <<b2r, servers>>
            [] m.t # "X" /\ mode[b] = "copy"
                 -> /\ UNCHANGED up
                    /\ CASE m.t = "d" -> Serve(b, m, <<>>, "copy", tx[b], 0)
                         [] m.t = "c" -> Serve(b, m, Done(m.id), "idle", tx[b], copying[b])
                         [] OTHER     -> Serve(b, m, Fail(m.id, "other"), "idle", tx[b], 0)
            [] m.t # "X" /\ mode[b] = "skip"
                 -> /\ UNCHANGED up
                    /\ IF m.t = "S" THEN Serve(b, m, <<Ready(m.id)>>, "idle", tx[b], 0)
                                    ELSE Serve(b, m, <<>>, "skip", tx[b], 0)
            [] m.t # "X" /\ mode[b] = "idle"
                 -> /\ UNCHANGED up
                    /\ CASE m.t = "Q" -> BackendQuery(b, m)
                         [] m.t = "P" /\ m.k = "write" /\ Refused(b)
                              -> Serve(b, m, <<Msg("E", m.id, "25006")>>, "skip", tx[b], 0)
                         [] m.t = "P" /\ ~(m.k = "write" /\ Refused(b))
                              -> Serve(b, m, <<Msg("1", m.id, "ok")>>, "idle", tx[b],
                                       IF m.k = "write" THEN m.id ELSE 0)
                         [] m.t = "S" -> Serve(b, m, <<Ready(m.id)>>, "idle", tx[b], 0)
                         [] OTHER     -> Serve(b, m, <<>>, "idle", tx[b], 0)
    /\ UNCHANGED <<worker, c2r, r2c, client>>

-----------------------------------------------------------------------------
(* The worker: handle_client once both backends are connected. *)

\* The messages ms written to backend b: lost if it has gone.
ToBackend(q, b, ms) == [q EXCEPT ![b] = IF up[b] THEN @ \o ms ELSE @]

\* The label shutdown: all three connections are closed.
Shutdown ==
    /\ pc' = "done"
    /\ UNCHANGED <<in_txn, befd, feout, bein, saved, unsent, bebuf>>

\* Mutant: be keeps reading from the writer.
TopReadsWriter ==
    /\ pc = "top"
    /\ befd' = IF in_txn THEN befd ELSE "reader"
    /\ feout' = befd' /\ bein' = "writer"
    /\ pc' = "recvfe"
    /\ UNCHANGED <<in_txn, saved, unsent, bebuf, c2r, r2c, r2b, b2r, up, client, servers>>

\* Top of the outer loop: outside a transaction the reader is used again, and
\* both buffers are pointed at the backend in use.
Top ==
    /\ pc = "top"
    /\ befd' = IF in_txn THEN befd ELSE "reader"
    /\ feout' = befd' /\ bein' = befd'
    /\ pc' = "recvfe"
    /\ UNCHANGED <<in_txn, saved, unsent, bebuf, c2r, r2c, r2b, b2r, up, client, servers>>

\* What one read may take of the messages that have arrived: at least one.
Portions(q) == 1..Len(q)

\* pgr_mbuf_recv(fe): nothing to do while a message is buffered, else whatever
\* has arrived, at least one message, is read.
RecvFrontend(from, to) ==
    /\ pc = from
    /\ pc' = to
    /\ \/ unsent # <<>> /\ UNCHANGED <<unsent, c2r>>
       \/ /\ unsent = <<>> /\ c2r # <<>>
          /\ \E n \in Portions(c2r) : /\ unsent' = SubSeq(c2r, 1, n)
                                    /\ c2r' = SubSeq(c2r, n + 1, Len(c2r))
    /\ UNCHANGED <<in_txn, befd, feout, bein, saved, bebuf, r2c, r2b, b2r, up, client, servers>>

RecvFe == RecvFrontend("recvfe", "send")

\* The client has gone: recv returns 0, and the send (or relay) that follows
\* finds no message and fails.
FrontendGone ==
    /\ pc \in {"recvfe", "copy"}
    /\ unsent = <<>> /\ c2r = <<>> /\ ~up["client"]
    /\ Shutdown
    /\ UNCHANGED <<c2r, r2c, r2b, b2r, up, client, servers>>

\* The queries handle_client recognises by their first letters, if those have
\* arrived: recv is content with the header, and pgr_mbuf_data then returns NULL.
IsBegin(m)  == m.t = "Q" /\ m.k = "begin"
IsCommit(m) == m.t = "Q" /\ m.k = "commit"
Arrived     == IF Split THEN BOOLEAN ELSE {TRUE}

\* A BEGIN sends this and the following messages to the writer; only fe is
\* given the new descriptor.  pgr_mbuf_send then passes the message on, and
\* keeps it in the buffer.  A Terminate goes to both backends and ends the
\* session; Query and Sync end the reading of the request.
Send ==
    /\ pc = "send"
    /\ \E arrived \in Arrived :
          LET m      == Head(unsent)
              begin  == arrived /\ IsBegin(m)
              commit == arrived /\ IsCommit(m)
          IN /\ in_txn' = ((in_txn \/ begin) /\ ~commit)
             /\ befd'   = (IF begin THEN "writer" ELSE befd)
             /\ feout'  = (IF begin THEN "writer" ELSE feout)
             /\ saved'  = Append(saved, m)
             /\ unsent' = Tail(unsent)
             /\ IF m.t = "X"
                THEN /\ r2b' = ToBackend(ToBackend(ToBackend(r2b, feout', <<m>>),
                                   "reader", <<Msg("X", 0, "quit")>>),
                                   "writer", <<Msg("X", 0, "quit")>>)
                     /\ pc' = "done"
                ELSE /\ r2b' = ToBackend(r2b, feout', <<m>>)
                     /\ pc' = IF m.t \in {"Q", "S"} THEN "recvbe" ELSE "recvfe"
    /\ UNCHANGED <<bein, bebuf, c2r, r2c, b2r, up, client, servers>>

\* The write of pgr_mbuf_send, or of pgr_mbuf_relay during a COPY, fails.
SendFails ==
    /\ pc \in {"send", "copysend"}
    /\ \E arrived \in Arrived :
          LET begin == pc = "send" /\ arrived /\ IsBegin(Head(unsent))
          IN ~up[IF begin THEN "writer" ELSE feout]
    /\ Shutdown
    /\ UNCHANGED <<c2r, r2c, r2b, b2r, up, client, servers>>

EndOfBackend == bebuf = <<>> /\ b2r[bein] = <<>> /\ ~up[bein]

\* pgr_mbuf_recv(be), also inside pgr_mbuf_drain.
RecvBackend(from, to) ==
    /\ pc = from
    /\ pc' = to
    /\ \/ bebuf # <<>> /\ UNCHANGED <<bebuf, b2r>>
       \/ /\ bebuf = <<>> /\ b2r[bein] # <<>>
          /\ \E n \in Portions(b2r[bein]) :
                /\ bebuf' = SubSeq(b2r[bein], 1, n)
                /\ b2r' = [b2r EXCEPT ![bein] = SubSeq(@, n + 1, Len(@))]
    /\ UNCHANGED <<in_txn, befd, feout, bein, saved, unsent, c2r, r2c, r2b, up, client, servers>>

RecvBe == RecvBackend("recvbe", "dispatch")

\* The backend in use has gone: recv returns 0 and the relay that follows fails.
BackendGone ==
    /\ pc = "recvbe" /\ EndOfBackend
    /\ Shutdown
    /\ UNCHANGED <<c2r, r2c, r2b, b2r, up, client, servers>>

\* Mutant: the descriptor is compared with the wrong backend.
MisroutedWriter(m) == m.t = "E" /\ m.k = "25006" /\ befd = "writer"

\* pgr_mbuf_iserror(be, "25006") == 0 && befd == reader.fd
Misrouted(m) == m.t = "E" /\ m.k = "25006" /\ befd = "reader"

\* while (type != 'Z')
EndsAnswer(m) == m.t = "Z"

\* Mutant: the ReadyForQuery is passed on and not taken out of the buffer.
RelayKeepsReady ==
    /\ pc = "dispatch"
    /\ LET m == Head(bebuf)
       IN /\ ~Misrouted(m) \/ Split
          /\ r2c' = IF up["client"] THEN Append(r2c, m) ELSE r2c
          /\ bebuf' = IF EndsAnswer(m) THEN bebuf ELSE Tail(bebuf)
          /\ pc' = CASE m.t = "G"     -> "copy"
                     [] EndsAnswer(m) -> "top"
                     [] OTHER         -> "recvbe"
    /\ UNCHANGED <<in_txn, befd, feout, bein, saved, unsent, c2r, r2b, b2r, up, client, servers>>

\* pgr_mbuf_relay(be): the message goes to the client; a CopyInResponse starts
\* the COPY sub-protocol, a ReadyForQuery ends the answer.  A refusal whose
\* SQLSTATE has not arrived is not recognised.
Relay ==
    /\ pc = "dispatch"
    /\ LET m == Head(bebuf)
       IN /\ ~Misrouted(m) \/ Split
          /\ r2c' = IF up["client"] THEN Append(r2c, m) ELSE r2c
          /\ bebuf' = Tail(bebuf)
          /\ pc' = CASE m.t = "G"     -> "copy"
                     [] EndsAnswer(m) -> "top"
                     [] OTHER         -> "recvbe"
    /\ UNCHANGED <<in_txn, befd, feout, bein, saved, unsent, c2r, r2b, b2r, up, client, servers>>

\* The write of that relay fails.
RelayFails ==
    /\ pc = "dispatch" /\ ~up["client"]
    /\ ~Misrouted(Head(bebuf)) \/ Split
    /\ Shutdown
    /\ UNCHANGED <<c2r, r2c, r2b, b2r, up, client, servers>>

\* Mutant: only the refusal itself is thrown away.
DrainOne ==
    /\ \/ pc = "dispatch" /\ Misrouted(Head(bebuf))
       \/ pc = "drain"
    /\ bebuf' = Tail(bebuf)
    /\ pc' = "redirect"
    /\ UNCHANGED <<in_txn, befd, feout, bein, saved, unsent, c2r, r2c, r2b, b2r, up, client, servers>>

\* The reader refused to write: pgr_mbuf_drain(be, 'Z') throws its messages
\* away, the refusal first, up to and including the next ReadyForQuery.
Drain ==
    /\ \/ pc = "dispatch" /\ Misrouted(Head(bebuf))
       \/ pc = "drain"
    /\ bebuf' = Tail(bebuf)
    /\ pc' = IF Head(bebuf).t = "Z" THEN "redirect" ELSE "drainrecv"
    /\ UNCHANGED <<in_txn, befd, feout, bein, saved, unsent, c2r, r2c, r2b, b2r, up, client, servers>>

DrainRecv == RecvBackend("drainrecv", "drain")

\* Nothing left to drain: pgr_mbuf_drain returns -1, which is not looked at.
DrainGone ==
    /\ pc = "drainrecv" /\ EndOfBackend
    /\ pc' = "redirect"
    /\ UNCHANGED <<in_txn, befd, feout, bein, saved, unsent, bebuf,
                   c2r, r2c, r2b, b2r, up, client, servers>>

\* Mutant: fe is not reset.
RedirectNoReset ==
    /\ pc = "redirect"
    /\ befd' = "writer" /\ feout' = "writer" /\ bein' = "writer"
    /\ r2b' = ToBackend(r2b, "writer", saved)
    /\ pc' = "recvbe"
    /\ UNCHANGED <<in_txn, saved, unsent, bebuf, c2r, r2c, b2r, up, client, servers>>

\* Everything fe still holds of what it has sent is sent to the writer, then
\* fe is reset, which also drops what it had not sent.
Redirect ==
    /\ pc = "redirect"
    /\ befd' = "writer" /\ feout' = "writer" /\ bein' = "writer"
    /\ r2b' = ToBackend(r2b, "writer", saved)
    /\ saved' = <<>> /\ unsent' = <<>>
    /\ pc' = "recvbe"
    /\ UNCHANGED <<in_txn, bebuf, c2r, r2c, b2r, up, client, servers>>

\* The COPY sub-protocol: pgr_mbuf_recv(fe), then pgr_mbuf_relay(fe), which
\* keeps nothing, until the type octet is 'c' or 'F'.
CopyRecv == RecvFrontend("copy", "copysend")

CopyRelay ==
    /\ pc = "copysend"
    /\ LET m == Head(unsent)
       IN /\ r2b' = ToBackend(r2b, feout, <<m>>)
          /\ unsent' = Tail(unsent)
          /\ pc' = IF m.t \in {"c", "F"} THEN "recvbe" ELSE "copy"
    /\ UNCHANGED <<in_txn, befd, feout, bein, saved, bebuf, c2r, r2c, b2r, up, client, servers>>

Worker ==
    \/ Top \/ RecvFe \/ FrontendGone \/ Send \/ SendFails
    \/ RecvBe \/ BackendGone \/ Relay \/ RelayFails
    \/ Drain \/ DrainRecv \/ DrainGone \/ Redirect
    \/ CopyRecv \/ CopyRelay

-----------------------------------------------------------------------------
Init ==
    /\ mix \in Mixes
    /\ pc = "top" /\ in_txn = FALSE
    /\ befd = "reader" /\ feout = "reader" /\ bein = "reader"
    /\ saved = <<>> /\ unsent = <<>> /\ bebuf = <<>>
    /\ c2r = <<>> /\ r2c = <<>>
    /\ r2b = [b \in Backend |-> <<>>] /\ b2r = [b \in Backend |-> <<>>]
    /\ up = [p \in Peer |-> TRUE]
    /\ reqs = <<>> /\ zs = 0 /\ ans = [n \in 1..MaxReqs |-> {}] /\ noise = FALSE
    /\ mode = [b \in Backend |-> "idle"]
    /\ tx = [b \in Backend |-> "none"]
    /\ copying = [b \in Backend |-> 0]
    /\ execs = [b \in Backend |-> <<>>]

\* No step changes the sort of a session.
Same(A) == A /\ UNCHANGED mix

Next ==
    \/ \E k \in Kinds : Same(ClientSend(k))
    \/ Same(ClientRecv)
    \/ \E p \in Peer : Same(Vanish(p))
    \/ \E b \in Backend : Same(BackendStep(b))
    \/ Same(Worker)

Spec == Init /\ [][Next]_vars

\* The worker thread runs while it can, PostgreSQL answers what it receives
\* and the client reads what it is sent.  Nothing makes the client send a
\* request or anyone go away.
Fairness ==
    /\ WF_vars(Same(Worker))
    /\ WF_vars(Same(ClientRecv))
    /\ \A b \in Backend : WF_vars(Same(BackendStep(b)))

FairSpec == Spec /\ Fairness

-----------------------------------------------------------------------------
(* Properties. *)

Message == [t : {"Q", "P", "H", "S", "X", "d", "c", "f", "C", "Z", "E", "G", "1"},
            id : 0..MaxReqs,
            k : AllKinds \union {"sync", "data", "fail", "done", "ok", "25006", "other"}]

Step == {"top", "recvfe", "send", "recvbe", "dispatch", "drain", "drainrecv",
         "redirect", "copy", "copysend", "done"}

\* The variables of handle_client and of its surroundings hold values of their
\* types; at the three points that look at the first buffered message there is
\* one.
TypeOK ==
    /\ mix \in Mixes /\ pc \in Step /\ in_txn \in BOOLEAN
    /\ befd \in Backend /\ feout \in Backend /\ bein \in Backend
    /\ saved \in Seq(Message) /\ unsent \in Seq(Message) /\ bebuf \in Seq(Message)
    /\ c2r \in Seq(Message) /\ r2c \in Seq(Message)
    /\ r2b \in [Backend -> Seq(Message)] /\ b2r \in [Backend -> Seq(Message)]
    /\ up \in [Peer -> BOOLEAN]
    /\ reqs \in Seq(Kinds) /\ Len(reqs) <= MaxReqs /\ zs \in 0..Len(reqs)
    /\ ans \in [1..MaxReqs -> SUBSET [id : 0..MaxReqs, k : {"ok", "25006", "other"}]]
    /\ noise \in BOOLEAN
    /\ mode \in [Backend -> {"idle", "copy", "skip"}]
    /\ tx \in [Backend -> {"none", "open", "failed"}]
    /\ copying \in [Backend -> 0..MaxReqs]
    /\ execs \in [Backend -> Seq(1..MaxReqs)]
    /\ pc \in {"send", "copysend"} => unsent # <<>>
    /\ pc \in {"dispatch", "drain"} => bebuf # <<>>

\* Each request is answered by its own answer: the response loop of
\* handle_client hands the client no message of another request, and none that
\* no request is waiting for.
OwnAnswer ==
    /\ ~noise
    /\ \A n \in 1..MaxReqs : \A a \in ans[n] : a.id = n

\* The refusal of the reader stays inside the router: a client whose answers
\* have been its own so far is not shown SQLSTATE 25006, whatever was pipelined,
\* copied or redirected before, and whoever vanished.
RefusalMasked ==
    \A n \in 1..MaxReqs :
        (\E a \in ans[n] : a.k = "25006")
            => noise \/ \E m \in 1..(n - 1) : \E a \in ans[m] : a.id # m

\* The client is never shown SQLSTATE 25006.
RefusalMaskedAlways == \A n \in 1..MaxReqs : \A a \in ans[n] : a.k # "25006"

\* The writer executes the writes of a session in the order the client issued
\* them and none of them twice, BEGIN or not.
WritesInOrderAlways ==
    \A i, j \in 1..Len(execs["writer"]) :
        i < j => execs["writer"][i] < execs["writer"][j]

\* The writer executes the writes of a session in the order the client issued
\* them, and none of them twice, however often fe's replay follows a refusal and
\* whatever was saved with it, in a session that has not used BEGIN (which sends
\* to the writer what fe keeps for a replay).
WritesInOrder ==
    (\A n \in 1..Len(reqs) : reqs[n] # "begin") => WritesInOrderAlways

\* A session that is back at the top of its loop has consumed the whole
\* exchange: neither backend owes it, or still holds for it, any message of an
\* earlier request (what a later request would take for its own answer).
Settled ==
    pc = "top" /\ up["reader"] /\ up["writer"] =>
        /\ bebuf = <<>>
        /\ \A b \in Backend : r2b[b] = <<>> /\ b2r[b] = <<>> /\ mode[b] = "idle"

\* A session is typed, looks at a message only when it has one, and is settled
\* whenever handle_client is back at the top of its loop.
SessionInv == TypeOK /\ Settled

\* A transaction is forwarded to the writer without bothering the reader: no
\* statement that opens one is ever on its way to the reader.
TransactionsToWriter ==
    \A i \in 1..Len(r2b["reader"]) : r2b["reader"][i].k \notin {"begin", "start"}

\* Every request is eventually answered, or the session ends.
Answered ==
    \A n \in 1..MaxReqs :
        Len(reqs) >= n ~> zs >= n \/ pc = "done" \/ ~up["client"]

\* What the client sees of the session is what it would see of a single node.
Node == INSTANCE PgNode WITH Kinds <- AllKinds, MaxReqs <- MaxReqs,
                             reqs <- reqs, zs <- zs, ans <- ans, noise <- noise
LooksLikeOneNode == Node!Spec
=============================================================================
