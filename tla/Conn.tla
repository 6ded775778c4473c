-------------------------------- MODULE Conn --------------------------------
(***************************************************************************)
(* The handshake of a session, src/conn.c: pgr_conn_accept authenticates   *)
(* the client, then pgr_conn_connect opens and authenticates a connection  *)
(* to the reader and one to the writer, in the client's name.  This is     *)
(* what handle_client (src/worker.c) does before the message loop that     *)
(* module Session describes.                                               *)
(*                                                                         *)
(* The unit of communication is one protocol message.  Each call has a     *)
(* message buffer of its own, into which it receives and through which it  *)
(* replies: a reply is appended to whatever the buffer still holds, and    *)
(* relay sends the first message in the buffer.  The client may send       *)
(* anything in any order, with or without waiting for answers.             *)
(*                                                                         *)
(* A password is identified with the user it belongs to, and so is its     *)
(* hash in the authdb; a PasswordMessage proves one password for one salt. *)
(* Every backend knows the passwords of the authdb.                        *)
(***************************************************************************)
EXTENDS Naturals, Sequences

CONSTANTS User,      \* names that a client may use
          Known,     \* the users in the authdb
          Brief,     \* users whose StartupMessage has a payload of 12 octets
          Fits,      \* how many parameters always fit into a StartupMessage of ours
          MaxMsgs,   \* bound: messages sent by the client
          Mortal,    \* which peers may go away
          Split,     \* may the header of a message arrive before the rest of it?
          Notices    \* may a backend send a NoticeResponse during the handshake?

Backend == {"reader", "writer"}
Peer    == Backend \union {"client"}
None    == "none"      \* no user, a NULL hash
Wrong   == "wrong"     \* a password that is nobody's

ASSUME ConnAssumption ==
    /\ {None, Wrong, ""} \intersect User = {}
    /\ Known \subseteq User /\ Brief \subseteq User
    /\ Fits \in Nat /\ MaxMsgs \in Nat
    /\ Mortal \subseteq Peer
    /\ Split \in BOOLEAN /\ Notices \in BOOLEAN

VARIABLES
    \* the worker
    pc,      \* the point of the handshake it has reached
    at,      \* the peer it is talking to
    buf,     \* the messages in the buffer of the call
    params,  \* the user parameters in c->params, of each connection
    pwhash,  \* whose hash c->pwhash is, of each connection
    salt,    \* whose salt c->salt is, of each connection
    \* the sockets
    in,      \* messages under way from each peer
    out,     \* messages under way to each backend
    up,      \* which peers have their end of the connection open
    \* the client
    asked,   \* its messages that wait for an answer
    sent,    \* how many messages it has sent
    hasty,   \* has it sent one without waiting for the answer to another?
    heard,   \* what it has received of AuthenticationOk, ReadyForQuery, ErrorResponse
    \* the backends
    st,      \* "none", "new", "md5", "idle", "refused", "denied"
    who,     \* the user each backend serves
    \* for the properties
    proved,  \* whose password the client has proved
    lost     \* messages of each backend that were read and never looked at

worker  == <<pc, at, buf, params, pwhash, salt>>
client  == <<asked, sent, hasty, heard>>
servers == <<st, who>>
ghosts  == <<proved, lost>>
vars    == <<worker, in, out, up, client, servers, ghosts>>

Bare(t)        == [t |-> t, u |-> None, s |-> None]
Startup(u)     == [t |-> "startup", u |-> u, s |-> None]
Password(u, s) == [t |-> "p", u |-> u, s |-> s]

\* The handshake has ended: the session begins, or the connections are closed.
Over == pc \in {"session", "done", "crashed"}

-----------------------------------------------------------------------------
(* The client (external). *)

ClientMsg ==
    {Bare("ssl"), Bare("cancel"), Bare("Q")}
        \union {Startup(u) : u \in User \union {""}}
        \union {Password(u, "client") : u \in Known \union {Wrong}}

\* A CancelRequest is not answered, nor is a message out of place.
Answerable(m) == m.t \in {"ssl", "startup", "p"}

\* A client that is told ReadyForQuery goes on to its session.
ClientSend(m) ==
    /\ ~Over /\ up["client"] /\ sent < MaxMsgs
    /\ "Z" \notin {heard[i] : i \in DOMAIN heard}
    /\ sent' = sent + 1
    /\ hasty' = (hasty \/ asked # <<>>)
    /\ asked' = IF Answerable(m) THEN Append(asked, m) ELSE asked
    /\ in' = [in EXCEPT !["client"] = Append(@, m)]
    /\ UNCHANGED <<worker, out, up, heard, servers, ghosts>>

\* m reaches the client; AuthenticationOk is only the first half of an answer,
\* and an ErrorResponse whose last octet is missing is none yet.
Hear(m) ==
    IF up["client"]
    THEN /\ heard' = IF m.t \in {"R0", "Z", "E"} THEN Append(heard, m.t) ELSE heard
         /\ asked' = IF asked = <<>> \/ m.t \in {"R0", "E"} THEN asked ELSE Tail(asked)
         /\ UNCHANGED <<sent, hasty>>
    ELSE UNCHANGED client

\* A peer goes away: what it sent before can still be read.
Vanish(p) ==
    /\ ~Over /\ p \in Mortal /\ up[p]
    /\ up' = [up EXCEPT ![p] = FALSE]
    /\ UNCHANGED <<worker, in, out, client, servers, ghosts>>

-----------------------------------------------------------------------------
(* A PostgreSQL backend (external). *)

\* What follows a successful authentication.
Welcome == <<Bare("R0"), Bare("S"), Bare("K"), Bare("Z")>>

Reply(b, ms, state, open) ==
    /\ in' = [in EXCEPT ![b] = @ \o ms]
    /\ st' = [st EXCEPT ![b] = state]
    /\ up' = [up EXCEPT ![b] = open]

\* The backend reads a StartupMessage: the last user named counts.  It may
\* refuse it, trust the client, ask for a hashed password or for another form
\* of authentication.
BackendStartup(b) ==
    /\ ~Over /\ up[b] /\ st[b] = "new" /\ out[b] # <<>> /\ Head(out[b]).t = "startup"
    /\ LET users == Head(out[b]).u
           user  == IF users = <<>> THEN None ELSE users[Len(users)]
       IN /\ who' = [who EXCEPT ![b] = user]
          /\ \/ Reply(b, <<Bare("E")>>, "refused", FALSE)
             \/ user # None /\ Reply(b, Welcome, "idle", TRUE)
             \/ user # None /\ Reply(b, <<Bare("R5")>>, "md5", TRUE)
             \/ user # None /\ Reply(b, <<Bare("R3")>>, "refused", TRUE)
    /\ out' = [out EXCEPT ![b] = Tail(@)]
    /\ UNCHANGED <<worker, client, ghosts>>

\* The backend checks the password; it has no use for any other message.
BackendPassword(b) ==
    /\ ~Over /\ up[b] /\ st[b] = "md5" /\ out[b] # <<>>
    /\ CASE Head(out[b]) = Password(who[b], b) -> Reply(b, Welcome, "idle", TRUE)
         [] Head(out[b]).t # "p"               -> Reply(b, <<Bare("E")>>, "refused", FALSE)
         [] OTHER                              -> Reply(b, <<Bare("E")>>, "denied", FALSE)
    /\ out' = [out EXCEPT ![b] = Tail(@)]
    /\ UNCHANGED <<worker, who, client, ghosts>>

\* The backend does not wait for ever for a StartupMessage to be complete.
BackendTimeout(b) ==
    /\ ~Over /\ up[b] /\ st[b] = "new" /\ out[b] # <<>> /\ Head(out[b]).t = "partial"
    /\ Reply(b, <<>>, "refused", FALSE)
    /\ UNCHANGED <<worker, out, who, client, ghosts>>

BackendNotice(b) ==
    /\ Notices
    /\ ~Over /\ up[b] /\ st[b] \in {"md5", "idle"} /\ Bare("N") \notin {in[b][i] : i \in DOMAIN in[b]}
    /\ Reply(b, <<Bare("N")>>, st[b], TRUE)
    /\ UNCHANGED <<worker, out, who, client, ghosts>>

-----------------------------------------------------------------------------
(* The worker: what the two calls share. *)

\* handle_client's label shutdown, or its equivalent after a fault.
Leave(how) ==
    /\ pc' = how
    /\ UNCHANGED <<at, buf, params, pwhash, salt, in, out, up, client, servers, ghosts>>

\* What one read may take of the messages that have arrived: at least one.
Portions(q) == 1..Len(q)

\* pgr_mbuf_recv: nothing to do while a message is buffered.
Recv ==
    /\ pc = "recv"
    /\ pc' = "handle"
    /\ \/ buf # <<>> /\ UNCHANGED <<buf, in>>
       \/ /\ buf = <<>> /\ in[at] # <<>>
          /\ \E n \in Portions(in[at]) :
                /\ buf' = SubSeq(in[at], 1, n)
                /\ in' = [in EXCEPT ![at] = SubSeq(@, n + 1, Len(@))]
    /\ UNCHANGED <<at, params, pwhash, salt, out, up, client, servers, ghosts>>

\* The peer has closed the connection: recv returns 0, and the message type of
\* an empty buffer is -1.
Gone ==
    /\ pc = "recv" /\ buf = <<>> /\ in[at] = <<>> /\ ~up[at]
    /\ Leave("done")

\* recv is content with the header of a message: has the rest of the first one
\* arrived as well?
Arrived == IF Split /\ Len(buf) = 1 THEN BOOLEAN ELSE {TRUE}

\* pgr_mbuf_msgtype: untyped messages are told apart by the length of their
\* payload, an SSLRequest by its payload too.
MsgType(m, arrived) ==
    CASE m.t = "startup" /\ m.u \in Brief -> "cancel"
      [] m.t = "ssl" /\ ~arrived          -> "invalid"
      [] OTHER                            -> m.t

-----------------------------------------------------------------------------
(* The worker: pgr_conn_accept. *)

\* The first message in the buffer is one of the given type.
Accepting(type, arrived) ==
    /\ pc = "handle" /\ at = "client"
    /\ MsgType(Head(buf), arrived) = type

\* The first message is discarded, a reply appended to what is left in the
\* buffer, and the first message of that is relayed to the client.
RelayToClient(q) == Hear(Head(q)) /\ buf' = Tail(q)

\* Mutant: the SSLRequest is discarded and not answered.
SslSilent == UNCHANGED client

\* write(c->fd, "N", 1)
SslReply == Hear(Bare("N"))

AcceptSsl ==
    /\ Accepting("ssl", TRUE)
    /\ buf' = Tail(buf)
    /\ SslReply
    /\ pc' = "recv"
    /\ UNCHANGED <<at, params, pwhash, salt, in, out, up, servers, ghosts>>

AcceptCancel ==
    /\ Accepting("cancel", TRUE)
    /\ buf' = Tail(buf)
    /\ pc' = "recv"
    /\ UNCHANGED <<at, params, pwhash, salt, in, out, up, client, servers, ghosts>>

\* pgr_auth_find
Lookup(u) == IF u \in Known THEN u ELSE None

\* Mutant: a user who is not found leaves the hash of the one before.
ExtractKeepsHash(u) ==
    /\ params' = [params EXCEPT !["client"] = Append(@, u)]
    /\ pwhash' = [pwhash EXCEPT !["client"] = IF u \in Known THEN u ELSE @]

\* extract_params: the parameter is appended to the list, and the hash is that
\* of the user named last.
Extract(u) ==
    /\ params' = [params EXCEPT !["client"] = Append(@, u)]
    /\ pwhash' = [pwhash EXCEPT !["client"] = Lookup(u)]

\* The name of the user is whatever the buffer holds behind the header if the
\* parameters have not arrived.
AcceptStartup ==
    /\ Accepting("startup", TRUE)
    /\ \E arrived \in Arrived :
       \E u \in IF arrived THEN {Head(buf).u} ELSE User \union {None} :
          /\ u # ""
          /\ IF u = None THEN UNCHANGED <<params, pwhash>> ELSE Extract(u)
    /\ RelayToClient(Append(Tail(buf), Bare("R5")))
    /\ pc' = "recv"
    /\ UNCHANGED <<at, salt, in, out, up, servers, ghosts>>

\* extract_params finds a parameter without a value.
AcceptNoValue ==
    /\ Accepting("startup", TRUE)
    /\ FALSE \in Arrived \/ Head(buf).u = ""
    /\ Leave("done")

\* check_auth, for a password that has arrived
CheckAuth(m) == pwhash["client"] # None /\ m = Password(pwhash["client"], salt["client"])

AcceptPassword ==
    /\ Accepting("p", TRUE) /\ TRUE \in Arrived /\ CheckAuth(Head(buf))
    /\ proved' = pwhash["client"]
    /\ RelayToClient(Append(Tail(buf), Bare("R0")))
    /\ pc' = "greet"
    /\ UNCHANGED <<at, params, pwhash, salt, in, out, up, servers, lost>>

\* ReadyForQuery follows, before any backend is connected.  The buffer of the
\* call is given up with whatever is left in it.
Greet ==
    /\ pc = "greet"
    /\ Hear(Head(Append(buf, Bare("Z"))))
    /\ buf' = <<>>
    /\ pc' = "choose"
    /\ UNCHANGED <<at, params, pwhash, salt, in, out, up, servers, ghosts>>

\* The password is wrong or its user unknown.  The length of the ErrorResponse
\* counts its type octet, so relay has one octet too few to send.
AcceptRefuse ==
    /\ Accepting("p", TRUE) /\ ~CheckAuth(Head(buf))
    /\ pwhash["client"] # None => TRUE \in Arrived
    /\ RelayToClient(Append(Tail(buf), Bare("E")))
    /\ pc' = IF Len(buf) = 1 THEN "refuse" ELSE "done"
    /\ UNCHANGED <<at, params, pwhash, salt, in, out, up, servers, ghosts>>

\* relay gets the missing octet from the client, or the end of the stream.
Refused ==
    /\ pc = "refuse" /\ (in["client"] # <<>> \/ ~up["client"])
    /\ Leave("done")

\* memcmp is called with NULL if the password has not arrived.
AcceptFault ==
    /\ Accepting("p", TRUE) /\ FALSE \in Arrived /\ pwhash["client"] # None
    /\ Leave("crashed")

AcceptInvalid ==
    /\ pc = "handle" /\ at = "client"
    /\ \E arrived \in Arrived :
          MsgType(Head(buf), arrived) \notin {"ssl", "cancel", "startup", "p"}
    /\ Leave("done")

\* A write to a client that has gone fails, or a reply does not fit behind
\* what is left in the buffer.
AcceptFails ==
    /\ pc \in {"handle", "greet"} /\ at = "client"
    /\ pc = "handle" => Head(buf).t \in {"ssl", "startup", "p"}
    /\ ~up["client"] \/ (pc = "handle" /\ Head(buf).t # "ssl" /\ Len(buf) > 1)
                     \/ (pc = "greet" /\ buf # <<>>)
    /\ Leave("done")

Accept == \/ AcceptSsl \/ AcceptCancel \/ AcceptStartup \/ AcceptNoValue
          \/ AcceptPassword \/ Greet \/ AcceptRefuse \/ Refused \/ AcceptFault
          \/ AcceptInvalid \/ AcceptFails

-----------------------------------------------------------------------------
(* The worker: the choice of backends, and pgr_conn_connect. *)

\* determine_backends (module Context) finds none.
NoBackends == pc = "choose" /\ Leave("done")

\* pgr_conn_copy for the reader and the writer
Choose ==
    /\ pc = "choose"
    /\ params' = [p \in Peer |-> params["client"]]
    /\ pwhash' = [p \in Peer |-> pwhash["client"]]
    /\ pc' = "connect" /\ at' = "reader"
    /\ UNCHANGED <<buf, salt, in, out, up, client, servers, ghosts>>

ConnectFails == pc = "connect" /\ Leave("done")

\* pgr_connect, then startup_message and its relay.  If the buffer is too
\* small for all parameters, the pieces that do not fit are left out, and relay
\* waits for them.
Connect ==
    /\ pc = "connect"
    /\ buf' = <<>>
    /\ up' = [up EXCEPT ![at] = TRUE]
    /\ st' = [st EXCEPT ![at] = "new"]
    /\ \/ /\ out' = [out EXCEPT ![at] = <<Startup(params[at])>>]
          /\ pc' = "recv"
       \/ /\ Len(params[at]) > Fits
          /\ out' = [out EXCEPT ![at] = <<Bare("partial")>>]
          /\ pc' = "starved"
    /\ UNCHANGED <<at, params, pwhash, salt, in, client, who, ghosts>>

\* The backend gives up, and relay and recv find the end of the stream.
Starved == pc = "starved" /\ ~up[at] /\ Leave("done")

Connecting(type) == pc = "handle" /\ at \in Backend /\ Head(buf).t = type

ConnectError == Connecting("E") /\ Leave("done")

\* A NoticeResponse is logged, and stays where it is.
ConnectNotice ==
    /\ Connecting("N")
    /\ pc' = "recv"
    /\ UNCHANGED <<at, buf, params, pwhash, salt, in, out, up, client, servers, ghosts>>

\* Mutant: ParameterStatus is not discarded either.
SkippedNotStatus(m) == IF m.t = "S" THEN buf ELSE Tail(buf)

\* pgr_mbuf_discard
Skipped(m) == Tail(buf)

\* AuthenticationOk, BackendKeyData and ParameterStatus are skipped.
ConnectSkip ==
    /\ \/ Connecting("R0") /\ TRUE \in Arrived
       \/ Connecting("K")
       \/ Connecting("S")
    /\ buf' = Skipped(Head(buf))
    /\ pc' = "recv"
    /\ UNCHANGED <<at, params, pwhash, salt, in, out, up, client, servers, ghosts>>

\* memcpy(c->salt, pgr_mbuf_data(m, 4, 4), 4)
NewSalt == [salt EXCEPT ![at] = at]

\* AuthenticationMD5Password is answered with the hash of the hash.
ConnectMd5 ==
    /\ Connecting("R5") /\ TRUE \in Arrived
    /\ salt' = NewSalt
    /\ LET q == Append(Tail(buf), Password(pwhash[at], salt'[at]))
       IN /\ out' = [out EXCEPT ![at] = IF up[at] THEN Append(@, Head(q)) ELSE @]
          /\ buf' = Tail(q)
    /\ pc' = "recv"
    /\ UNCHANGED <<at, params, pwhash, in, up, client, servers, ghosts>>

\* The kind of authentication, or the salt, has not arrived.
ConnectCut ==
    /\ Connecting("R0") \/ Connecting("R5") \/ Connecting("R3")
    /\ FALSE \in Arrived
    /\ \/ Leave("done")
       \/ Connecting("R5") /\ Leave("crashed")

\* Another kind of authentication, or a message that has no place here.
ConnectOther ==
    /\ pc = "handle" /\ at \in Backend
    /\ Head(buf).t \notin {"E", "N", "R0", "R5", "K", "S", "Z"}
    /\ Leave("done")

\* Mutant: the handshake is taken to end with BackendKeyData.
EndsWithKey(m) == m.t = "K"

\* case 'Z'
EndsHandshake(m) == m.t = "Z"

\* ReadyForQuery: on to the writer, or to the session.
ConnectReady ==
    /\ pc = "handle" /\ at \in Backend
    /\ EndsHandshake(Head(buf))
    /\ lost' = [lost EXCEPT ![at] = Tail(buf)]
    /\ buf' = <<>>
    /\ at' = "writer"
    /\ pc' = IF at = "reader" THEN "connect" ELSE "session"
    /\ UNCHANGED <<params, pwhash, salt, in, out, up, client, servers, proved>>

ConnectPhase ==
    \/ NoBackends \/ Choose \/ ConnectFails \/ Connect \/ Starved
    \/ ConnectError \/ ConnectNotice \/ ConnectSkip \/ ConnectMd5
    \/ ConnectCut \/ ConnectOther \/ ConnectReady

-----------------------------------------------------------------------------

Init ==
    /\ pc = "recv" /\ at = "client" /\ buf = <<>>
    /\ params = [p \in Peer |-> <<>>]
    /\ pwhash = [p \in Peer |-> None]
    /\ salt = [p \in Peer |-> IF p = "client" THEN "client" ELSE "own"]
    /\ in = [p \in Peer |-> <<>>]
    /\ out = [b \in Backend |-> <<>>]
    /\ up = [p \in Peer |-> p = "client"]
    /\ asked = <<>> /\ sent = 0 /\ hasty = FALSE /\ heard = <<>>
    /\ st = [b \in Backend |-> "none"]
    /\ who = [b \in Backend |-> None]
    /\ proved = None
    /\ lost = [b \in Backend |-> <<>>]

Worker == Recv \/ Gone \/ Accept \/ ConnectPhase

BackendStep(b) == BackendStartup(b) \/ BackendPassword(b) \/ BackendTimeout(b)

Next ==
    \/ \E m \in ClientMsg : ClientSend(m)
    \/ Worker
    \/ \E b \in Backend : BackendStep(b) \/ BackendNotice(b)
    \/ \E p \in Peer : Vanish(p)

Spec == Init /\ [][Next]_vars

\* The worker runs on and so do the backends; the client and the network owe
\* nothing.
FairSpec == Spec /\ WF_vars(Worker) /\ \A b \in Backend : WF_vars(BackendStep(b))

-----------------------------------------------------------------------------
(* Properties. *)

PC == {"recv", "handle", "greet", "refuse", "choose", "connect", "starved",
       "session", "done", "crashed"}

Elements(q) == {q[i] : i \in DOMAIN q}

\* Types; a message is looked at only when there is one (pgr_mbuf_msgtype of
\* an empty buffer is handled by Gone).
TypeOK ==
    /\ pc \in PC /\ at \in Peer
    /\ pc = "handle" => buf # <<>>
    /\ params \in [Peer -> Seq(User \union {""})]
    /\ pwhash \in [Peer -> Known \union {None}]
    /\ salt \in [Peer -> Peer \union {"own"}]
    /\ up \in [Peer -> BOOLEAN]
    /\ sent \in 0..MaxMsgs /\ hasty \in BOOLEAN
    /\ st \in [Backend -> {"none", "new", "md5", "idle", "refused", "denied"}]
    /\ who \in [Backend -> User \union {None}]
    /\ proved \in Known \union {None}

\* A backend is only ever asked to serve the user whose password the client
\* has proved, however many StartupMessages and passwords the client sent, in
\* whatever order (extract_params, check_auth, pgr_conn_copy, startup_message).
IdentityKept == \A b \in Backend : who[b] # None => who[b] = proved

\* The password message sent to a backend is the one this backend expects: the
\* hash is that of the user it was told, the salt its own.
NotDenied == \A b \in Backend : st[b] # "denied"

\* The identity of a client on its way through check_auth, pgr_conn_copy and
\* pgr_conn_connect: typed, the one proved, and with the hash and the salt that
\* go with it.
ConnInv == TypeOK /\ IdentityKept /\ NotDenied

\* When the message loop starts, both backends are idle and everything they
\* sent in the handshake has been dealt with, so that the loop's first read
\* finds the answer to its first request; only a NoticeResponse may be lost or
\* left.  A client that waits for its answers was told so exactly once.
HandOver ==
    pc = "session" =>
        /\ \A b \in Backend : /\ st[b] = "idle" /\ out[b] = <<>>
                              /\ Elements(in[b]) \union Elements(lost[b]) \subseteq {Bare("N")}
        /\ up["client"] /\ ~hasty => heard = <<"R0", "Z">>

\* A client that waits for its answers gets them, or the connection ends;
\* except that a StartupMessage of the length of a CancelRequest is ignored,
\* and that a refusal lacks its last octet.
ClientHears ==
    (asked # <<>> /\ ~hasty) ~>
        \/ asked = <<>> \/ hasty \/ Over \/ ~up["client"]
        \/ pc = "refuse"
        \/ \E m \in Elements(asked) : m.t = "startup" /\ m.u \in Brief

\* A client that has named its user and waits for an answer hears it, or the
\* connection ends.
RefusalHeard ==
    (asked # <<>> /\ ~hasty /\ params["client"] # <<>>) ~>
        \/ asked = <<>> \/ hasty \/ Over \/ ~up["client"]
        \/ \E m \in Elements(asked) : m.t = "startup" /\ m.u \in Brief

\* Once the client is authenticated the handshake comes to an end, whatever
\* the backends ask for and however they fail; except that a NoticeResponse is
\* looked at for ever.
HandshakeEnds ==
    (pc = "choose") ~> (Over \/ (at \in Backend /\ buf # <<>> /\ Head(buf) = Bare("N")))

\* The same without that exception.
HandshakeEndsAlways == (pc = "choose") ~> Over
=============================================================================
