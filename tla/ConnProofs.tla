----------------------------- MODULE ConnProofs -----------------------------
(***************************************************************************)
(* Proofs about the handshake, for any users, any number of messages from  *)
(* the client in any order, and peers that vanish at any time: a backend   *)
(* serves only the user whose password the client has proved and is sent   *)
(* the password it expects, and the message loop starts from two idle      *)
(* backends with nothing pending.                                          *)
(***************************************************************************)
EXTENDS Conn, TLAPS

Tag == {"ssl", "cancel", "Q", "startup", "p", "partial",
        "R0", "R3", "R5", "S", "K", "Z", "E", "N"}

Msg == [t : Tag, u : User \union {None, Wrong, ""} \union Seq(User), s : Peer \union {None}]

\* What a backend sends.
FromBackend == {Bare(t) : t \in {"R0", "R3", "R5", "S", "K", "Z", "E", "N"}}

Queues ==
    /\ params \in [Peer -> Seq(User)]
    /\ buf \in Seq(Msg) /\ out \in [Backend -> Seq(Msg)]
    /\ in \in [Peer -> Seq(Msg)] /\ lost \in [Backend -> Seq(Msg)]
    /\ \A b \in Backend : in[b] \in Seq(FromBackend)
    /\ asked \in Seq(Msg) /\ heard \in Seq({"R0", "Z", "E"})

Typed == TypeOK /\ Queues

\* The user named last is the last one of the list.
NamedLast(q, u) == q # <<>> /\ q[Len(q)] = u

\* The hash of the client's connection is that of the user named last.
Named ==
    /\ params["client"] = <<>> => pwhash["client"] = None
    /\ \A u \in User : NamedLast(params["client"], u) => pwhash["client"] = Lookup(u)

\* A user is proved from AuthenticationOk on, and stays the one that the client
\* and both backends' connections are about.
Proved ==
    /\ at = "client" /\ pc \in {"recv", "handle"} => proved = None
    /\ at \in Backend \/ pc \in {"greet", "choose", "connect", "starved", "session"}
          => proved # None
    /\ proved # None => proved \in Known /\ NamedLast(params["client"], proved)
    /\ at \in Backend => \A p \in Peer : /\ params[p] = params["client"]
                                         /\ pwhash[p] = pwhash["client"]

\* No message of q is about another user than the one proved.
About(q, b) ==
    \A i \in 1..Len(q) :
        /\ q[i].t = "startup" => NamedLast(q[i].u, proved)
        /\ q[i].t = "p" => q[i] = Password(proved, b)

\* A StartupMessage of the client names a user, one of ours has a list of them.
Names(q) == \A i \in 1..Len(q) : q[i].t = "startup" => q[i].u \in User \union {""}

Lists ==
    /\ Names(in["client"]) /\ (at = "client" => Names(buf))
    /\ \A b \in Backend : \A i \in 1..Len(out[b]) :
          out[b][i].t = "startup" => out[b][i].u \in Seq(User)
    /\ at \in Backend => \A i \in 1..Len(buf) : buf[i].t # "startup"

Told ==
    /\ \A b \in Backend : /\ About(out[b], b)
                          /\ who[b] \in {None, proved}
                          /\ st[b] = "md5" => who[b] = proved
                          /\ st[b] # "denied"
    /\ at \in Backend => About(buf, at)

\* A backend that has not been connected to.
Unused(b) ==
    /\ st[b] = "none" /\ who[b] = None
    /\ out[b] = <<>> /\ in[b] = <<>> /\ lost[b] = <<>>

Only(q, t) == \A i \in 1..Len(q) : q[i] = Bare(t)
No(q, t)   == \A i \in 1..Len(q) : q[i].t # t

\* A backend whose handshake is over.
Greeted(b) == st[b] = "idle" /\ out[b] = <<>> /\ Only(in[b], "N") /\ Only(lost[b], "N")

\* A backend in the middle of the handshake: a request for a password is the
\* first thing it says and goes unanswered before it has been read, and after
\* ReadyForQuery it only sends notices.
InGreeting(s, o, q, held) ==
    /\ s # "none"
    /\ s = "new" => held = <<>> /\ q = <<>> /\ Len(o) = 1
    /\ s = "idle" => o = <<>>
    /\ s # "idle" => No(held, "Z") /\ No(q, "Z")
    /\ s # "md5" \/ o # <<>> => No(held, "R5") /\ No(q, "R5")
    /\ Len(o) <= 1
    /\ \A i \in 1..Len(held) : held[i].t = "R5" => i = 1
    /\ \A i \in 1..Len(q) : q[i].t = "R5" => i = 1 /\ held = <<>>
    /\ \A i, j \in 1..Len(held) : i < j /\ held[i].t = "Z" => held[j] = Bare("N")
    /\ ~No(held, "Z") => Only(q, "N")
    /\ \A i, j \in 1..Len(q) : i < j /\ q[i].t = "Z" => q[j] = Bare("N")

Greeting(b) == InGreeting(st[b], out[b], in[b], buf)

Phases ==
    /\ pc \in {"greet", "refuse", "choose"} => at = "client"
    /\ pc \in {"connect", "starved"} => at \in Backend
    /\ pc = "session" => at = "writer" /\ Greeted("writer")
    /\ at = "client" => Unused("reader")
    /\ at \in {"client", "reader"} => Unused("writer")
    /\ at = "writer" => Greeted("reader")
    /\ pc = "connect" => Unused(at)
    /\ pc \in {"choose", "connect"} => buf = <<>>
    /\ at \in Backend /\ pc \in {"recv", "handle", "starved"} => Greeting(at) /\ lost[at] = <<>>

\* A client that waits for its answers: what needs one is the last message it
\* has sent.
Patient ==
    up["client"] /\ ~hasty =>
        /\ at = "client" /\ pc \in {"recv", "handle"} =>
              /\ heard = <<>> /\ Len(asked) <= 1
              /\ \A i \in 1..Len(buf) :
                    Answerable(buf[i]) => i = Len(buf) /\ in["client"] = <<>> /\ asked # <<>>
              /\ \A i \in 1..Len(in["client"]) :
                    Answerable(in["client"][i]) => i = Len(in["client"]) /\ asked # <<>>
        /\ pc = "greet" => buf = <<>> /\ heard = <<"R0">> /\ Len(asked) = 1
        /\ pc = "choose" \/ (at \in Backend /\ pc \notin {"done", "crashed"}) => heard = <<"R0", "Z">>

IInv == Typed /\ Named /\ Proved /\ Lists /\ Told /\ Phases /\ Patient
-----------------------------------------------------------------------------
(* Messages and sequences of them. *)

LEMMA Messages ==
    /\ \A t \in Tag : /\ Bare(t) \in Msg /\ Bare(t).t = t
    /\ \A q \in Seq(User) : Startup(q) \in Msg /\ Startup(q).t = "startup" /\ Startup(q).u = q
    /\ \A u \in Known \union {None}, p \in Peer :
          /\ Password(u, p) \in Msg /\ Password(u, p).t = "p"
    /\ ClientMsg \subseteq Msg /\ FromBackend \subseteq Msg
    /\ \A m \in FromBackend : m.t \notin {"p", "startup"}
    /\ \A m \in FromBackend : m = Bare(m.t)
    /\ \A m \in ClientMsg : m.t = "startup" => m.u \in User \union {""}
    /\ \A m \in ClientMsg : m.t \in {"ssl", "cancel", "Q", "startup", "p"}
<1>1. \A t \in Tag : Bare(t) \in Msg /\ Bare(t).t = t BY DEF Bare, Msg
<1>2. \A q \in Seq(User) : Startup(q) \in Msg /\ Startup(q).t = "startup" /\ Startup(q).u = q
  BY DEF Startup, Msg, Tag
<1>3. \A u \in User \union {None, Wrong}, p \in Peer : /\ Password(u, p) \in Msg
                                                       /\ Password(u, p).t = "p"
  BY DEF Password, Msg, Tag
<1>4. \A u \in User \union {""} : /\ Startup(u) \in Msg /\ Startup(u).t = "startup"
                                  /\ Startup(u).u = u
  BY DEF Startup, Msg, Tag
<1>5. Known \subseteq User /\ "client" \in Peer BY ConnAssumption DEF Peer
<1>6. {"ssl", "cancel", "Q"} \subseteq Tag /\ {"R0", "R3", "R5", "S", "K", "Z", "E", "N"} \subseteq Tag
  BY DEF Tag
<1>a. ASSUME NEW m \in ClientMsg
      PROVE  \/ \E t \in {"ssl", "cancel", "Q"} : m = Bare(t)
             \/ \E u \in User \union {""} : m = Startup(u)
             \/ \E u \in Known \union {Wrong} : m = Password(u, "client")
  BY DEF ClientMsg
<1>7. ClientMsg \subseteq Msg
  <2> SUFFICES ASSUME NEW m \in ClientMsg PROVE m \in Msg OBVIOUS
  <2>1. CASE \E t \in {"ssl", "cancel", "Q"} : m = Bare(t) BY <1>1, <1>6, <2>1
  <2>2. CASE \E u \in User \union {""} : m = Startup(u) BY <1>4, <2>2
  <2>3. CASE \E u \in Known \union {Wrong} : m = Password(u, "client") BY <1>3, <1>5, <2>3
  <2> QED BY <1>a, <2>1, <2>2, <2>3
<1>8. FromBackend \subseteq Msg BY <1>1, <1>6 DEF FromBackend
<1>9. \A m \in FromBackend : m.t \notin {"p", "startup"} /\ m = Bare(m.t) BY DEF FromBackend, Bare
<1>10. \A m \in ClientMsg : /\ m.t = "startup" => m.u \in User \union {""}
                            /\ m.t \in {"ssl", "cancel", "Q", "startup", "p"}
  <2> SUFFICES ASSUME NEW m \in ClientMsg
               PROVE  /\ m.t = "startup" => m.u \in User \union {""}
                      /\ m.t \in {"ssl", "cancel", "Q", "startup", "p"}
    OBVIOUS
  <2>1. CASE \E t \in {"ssl", "cancel", "Q"} : m = Bare(t)
    <3>1. m.t \in {"ssl", "cancel", "Q"} BY <1>1, <1>6, <2>1
    <3> QED BY <3>1
  <2>2. CASE \E u \in User \union {""} : m = Startup(u) BY <1>4, <2>2
  <2>3. CASE \E u \in Known \union {Wrong} : m = Password(u, "client") BY <1>3, <1>5, <2>3
  <2> QED BY <1>a, <2>1, <2>2, <2>3
<1> QED BY <1>1, <1>2, <1>3, <1>5, <1>7, <1>8, <1>9, <1>10

LEMMA WiderSeq == \A S, T : S \subseteq T => Seq(S) \subseteq Seq(T)
OBVIOUS

LEMMA FirstTaken ==
    ASSUME NEW S, NEW q \in Seq(S), q # <<>>
    PROVE  /\ Head(q) \in S /\ Tail(q) \in Seq(S) /\ Len(q) \in Nat \ {0}
           /\ Head(q) = q[1] /\ Len(Tail(q)) = Len(q) - 1 /\ 1 \in 1..Len(q)
           /\ \A i \in 1..Len(Tail(q)) : Tail(q)[i] = q[i + 1] /\ i + 1 \in 1..Len(q)
OBVIOUS

LEMMA Added ==
    ASSUME NEW S, NEW q \in Seq(S), NEW x \in S
    PROVE  /\ Append(q, x) \in Seq(S) /\ Append(q, x) # <<>>
           /\ Len(q) \in Nat /\ Len(Append(q, x)) = Len(q) + 1
           /\ \A i \in 1..Len(Append(q, x)) : Append(q, x)[i] = IF i <= Len(q) THEN q[i] ELSE x
OBVIOUS

LEMMA Glued ==
    ASSUME NEW S, NEW p \in Seq(S), NEW q \in Seq(S)
    PROVE  /\ p \o q \in Seq(S) /\ Len(p \o q) = Len(p) + Len(q)
           /\ \A i \in 1..Len(p \o q) :
                 (p \o q)[i] = IF i <= Len(p) THEN p[i] ELSE q[i - Len(p)]
           /\ Len(p) \in Nat /\ Len(q) \in Nat
OBVIOUS

LEMMA Cut ==
    ASSUME NEW S, NEW q \in Seq(S), NEW n \in 1..Len(q)
    PROVE  /\ SubSeq(q, 1, n) \in Seq(S) /\ SubSeq(q, n + 1, Len(q)) \in Seq(S)
           /\ Len(SubSeq(q, 1, n)) = n /\ Len(SubSeq(q, n + 1, Len(q))) = Len(q) - n
           /\ \A i \in 1..n : SubSeq(q, 1, n)[i] = q[i]
           /\ \A i \in 1..(Len(q) - n) : SubSeq(q, n + 1, Len(q))[i] = q[n + i]
           /\ SubSeq(q, 1, n) # <<>> /\ Len(q) \in Nat
<1>1. Len(q) \in Nat /\ n \in Nat /\ n >= 1 /\ n <= Len(q) OBVIOUS
<1>2. /\ SubSeq(q, 1, n) \in Seq(S) /\ Len(SubSeq(q, 1, n)) = n
      /\ \A i \in 1..n : SubSeq(q, 1, n)[i] = q[i]
  BY <1>1
<1>3. /\ SubSeq(q, n + 1, Len(q)) \in Seq(S) /\ Len(SubSeq(q, n + 1, Len(q))) = Len(q) - n
      /\ \A i \in 1..(Len(q) - n) : SubSeq(q, n + 1, Len(q))[i] = q[n + i]
  BY <1>1
<1> QED BY <1>1, <1>2, <1>3

\* A reply goes behind what is left in the buffer, and the first message of
\* that is relayed.
LEMMA Relayed ==
    ASSUME NEW q \in Seq(Msg), q # <<>>, NEW x \in Msg, NEW r, r = Append(Tail(q), x)
    PROVE  /\ Head(r) \in Msg /\ Tail(r) \in Seq(Msg) /\ Len(q) \in Nat \ {0}
           /\ Len(Tail(r)) = Len(q) - 1
           /\ Len(q) = 1 => Head(r) = x /\ Tail(r) = <<>>
           /\ Len(q) # 1 => 2 \in 1..Len(q) /\ Head(r) = q[2]
           /\ \A i \in 1..Len(Tail(r)) :
                 Tail(r)[i] = x \/ (i + 2 \in 1..Len(q) /\ Tail(r)[i] = q[i + 2])
<1>0. PICK p, n : p = Tail(q) /\ n = Len(q) OBVIOUS
<1>1. /\ p \in Seq(Msg) /\ n \in Nat /\ n >= 1 /\ Len(p) = n - 1
      /\ \A i \in 1..Len(p) : p[i] = q[i + 1] /\ i + 1 \in 1..n
  BY <1>0, FirstTaken
<1>2. /\ r \in Seq(Msg) /\ r # <<>> /\ Len(r) = n
      /\ \A i \in 1..Len(r) : r[i] = IF i <= Len(p) THEN p[i] ELSE x
  <2>1. /\ r \in Seq(Msg) /\ r # <<>> /\ Len(r) = Len(p) + 1
        /\ \A i \in 1..Len(r) : r[i] = IF i <= Len(p) THEN p[i] ELSE x
    BY <1>0, <1>1, Added
  <2>2. Len(p) + 1 = n BY <1>1
  <2> QED BY <2>1, <2>2
<1>3. PICK h, t : h = Head(r) /\ t = Tail(r) OBVIOUS
<1>4. /\ h \in Msg /\ t \in Seq(Msg) /\ h = r[1]
      /\ Len(t) = n - 1 /\ 1 \in 1..n
      /\ \A i \in 1..Len(t) : t[i] = r[i + 1] /\ i + 1 \in 1..n
  BY <1>2, <1>3, FirstTaken
<1>5. n = 1 => h = x /\ t = <<>> BY <1>1, <1>2, <1>4
<1>6. n # 1 => 2 \in 1..n /\ h = q[2]
  <2> SUFFICES ASSUME n # 1 PROVE 2 \in 1..n /\ h = q[2] OBVIOUS
  <2>1. n >= 2 /\ 1 <= Len(p) /\ 1 \in 1..Len(p) BY <1>1
  <2>2. h = p[1] BY <1>2, <1>4, <2>1
  <2>3. p[1] = q[1 + 1] BY <1>1, <2>1
  <2> QED BY <1>1, <2>1, <2>2, <2>3
<1>7. \A i \in 1..Len(t) : t[i] = x \/ (i + 2 \in 1..n /\ t[i] = q[i + 2])
  <2> SUFFICES ASSUME NEW i \in 1..Len(t), t[i] # x
               PROVE  i + 2 \in 1..n /\ t[i] = q[i + 2]
    OBVIOUS
  <2>0. Len(t) \in Nat BY <1>4
  <2>a. i \in Nat /\ i >= 1 BY <2>0
  <2>b. i + 1 \in 1..n /\ t[i] = r[i + 1] BY <1>4
  <2>1. i \in Nat /\ i >= 1 /\ i + 1 \in 1..n /\ t[i] = r[i + 1] BY <2>a, <2>b
  <2>2. i + 1 \in 1..Len(p) /\ t[i] = p[i + 1] BY <1>1, <1>2, <2>1
  <2>3. (i + 1) + 1 = i + 2 BY <2>1
  <2> QED BY <1>1, <2>2, <2>3
<1> QED BY <1>0, <1>1, <1>3, <1>4, <1>5, <1>6, <1>7

\* What follows a successful authentication ends with ReadyForQuery.
LEMMA WelcomeIs ==
    /\ Welcome \in Seq(FromBackend) /\ Len(Welcome) = 4
    /\ \A i \in 1..4 : Welcome[i].t # "R5" /\ (Welcome[i].t = "Z" => i = 4)
<1>1. /\ Bare("R0") \in FromBackend /\ Bare("S") \in FromBackend
      /\ Bare("K") \in FromBackend /\ Bare("Z") \in FromBackend
  BY DEF FromBackend
<1>2. \A t : Bare(t).t = t BY DEF Bare
<1>3. /\ Welcome[1] = Bare("R0") /\ Welcome[2] = Bare("S")
      /\ Welcome[3] = Bare("K") /\ Welcome[4] = Bare("Z") /\ Len(Welcome) = 4
  BY DEF Welcome
<1>4. Welcome \in Seq(FromBackend) BY <1>1 DEF Welcome
<1> QED BY <1>2, <1>3, <1>4
-----------------------------------------------------------------------------
(* Types. *)

LEMMA HearTyped ==
    ASSUME Typed, NEW m \in Msg, Hear(m)
    PROVE  /\ UNCHANGED <<sent, hasty>>
           /\ asked' \in Seq(Msg) /\ heard' \in Seq({"R0", "Z", "E"})
<1>1. CASE ~up["client"] BY <1>1 DEF Hear, client, Typed, Queues
<1>2. CASE up["client"]
  <2>1. /\ heard' = (IF m.t \in {"R0", "Z", "E"} THEN Append(heard, m.t) ELSE heard)
        /\ asked' = (IF asked = <<>> \/ m.t \in {"R0", "E"} THEN asked ELSE Tail(asked))
        /\ UNCHANGED <<sent, hasty>>
    BY <1>2 DEF Hear
  <2>2. asked' \in Seq(Msg) BY <2>1, FirstTaken DEF Typed, Queues
  <2>3. heard' \in Seq({"R0", "Z", "E"}) BY <2>1, Added DEF Typed, Queues
  <2> QED BY <2>1, <2>2, <2>3
<1> QED BY <1>1, <1>2

LEMMA ClientSendTyped ==
    ASSUME Typed, NEW m \in ClientMsg, ClientSend(m) PROVE Typed'
<1>1. m \in Msg BY Messages
<1>2. TypeOK'
  <2>1. sent' \in 0..MaxMsgs
    <3>1. sent \in 0..MaxMsgs /\ sent < MaxMsgs /\ sent' = sent + 1 BY DEF Typed, TypeOK, ClientSend
    <3>2. MaxMsgs \in Nat BY ConnAssumption
    <3> QED BY <3>1, <3>2
  <2>2. hasty' \in BOOLEAN BY DEF ClientSend
  <2> QED BY <2>1, <2>2 DEF Typed, TypeOK, ClientSend, worker, servers, ghosts
<1>3. asked' \in Seq(Msg) BY <1>1, Added DEF Typed, Queues, ClientSend
<1>4. in' \in [Peer -> Seq(Msg)] /\ \A b \in Backend : in'[b] = in[b]
  <2>1. in \in [Peer -> Seq(Msg)] /\ "client" \in Peer /\ "client" \notin Backend
    BY DEF Typed, Queues, Peer, Backend
  <2>2. in' = [in EXCEPT !["client"] = Append(in["client"], m)] BY DEF ClientSend
  <2>3. Append(in["client"], m) \in Seq(Msg) BY <1>1, <2>1, Added
  <2>4. Backend \subseteq Peer BY DEF Peer
  <2> QED BY <2>1, <2>2, <2>3, <2>4
<1>5. Queues' BY <1>3, <1>4 DEF Typed, Queues, ClientSend, worker, servers, ghosts
<1> QED BY <1>2, <1>5 DEF Typed

LEMMA VanishTyped ==
    ASSUME Typed, NEW p \in Peer, Vanish(p) PROVE Typed'
<1>1. TypeOK' BY DEF Typed, TypeOK, Vanish, worker, client, servers, ghosts
<1>2. Queues' BY DEF Typed, Queues, Vanish, worker, client, servers, ghosts
<1> QED BY <1>1, <1>2 DEF Typed

LEMMA ReplyTyped ==
    ASSUME Typed, NEW b \in Backend, NEW ms \in Seq(FromBackend),
           NEW state \in {"none", "new", "md5", "idle", "refused", "denied"}, NEW open \in BOOLEAN,
           Reply(b, ms, state, open)
    PROVE  /\ in' \in [Peer -> Seq(Msg)] /\ \A c \in Backend : in'[c] \in Seq(FromBackend)
           /\ st' \in [Backend -> {"none", "new", "md5", "idle", "refused", "denied"}]
           /\ up' \in [Peer -> BOOLEAN]
<1>1. in \in [Peer -> Seq(Msg)] /\ (\A c \in Backend : in[c] \in Seq(FromBackend))
  BY DEF Typed, Queues
<1>2. Backend \subseteq Peer BY DEF Peer
<1>3. in' = [in EXCEPT ![b] = in[b] \o ms] BY DEF Reply
<1>4. in[b] \o ms \in Seq(FromBackend) BY <1>1, Glued
<1>5. Seq(FromBackend) \subseteq Seq(Msg)
  BY WiderSeq, Messages
<1>6. in' \in [Peer -> Seq(Msg)] /\ \A c \in Backend : in'[c] \in Seq(FromBackend)
  BY <1>1, <1>2, <1>3, <1>4, <1>5
<1> QED BY <1>2, <1>6 DEF Typed, TypeOK, Reply

\* The replies of a backend.
LEMMA Replies ==
    /\ <<>> \in Seq(FromBackend)
    /\ \A t \in {"E", "R5", "R3", "N"} : /\ <<Bare(t)>> \in Seq(FromBackend)
                                         /\ Len(<<Bare(t)>>) = 1 /\ <<Bare(t)>>[1] = Bare(t)
<1>1. \A t \in {"E", "R5", "R3", "N"} : Bare(t) \in FromBackend BY DEF FromBackend
<1>2. \A x \in FromBackend : <<x>> \in Seq(FromBackend) /\ Len(<<x>>) = 1 /\ <<x>>[1] = x OBVIOUS
<1> QED BY <1>1, <1>2

\* What a step of a backend is.
BackendDoes(b) ==
    /\ ~Over /\ up[b] /\ UNCHANGED <<worker, client, ghosts>>
    /\ \/ /\ st[b] = "new" /\ out[b] # <<>> /\ Head(out[b]).t = "startup"
          /\ out' = [out EXCEPT ![b] = Tail(@)]
          /\ \E user \in User \union {None} :
                /\ user # None => NamedLast(Head(out[b]).u, user)
                /\ who' = [who EXCEPT ![b] = user]
                /\ \/ Reply(b, <<Bare("E")>>, "refused", FALSE)
                   \/ user # None /\ Reply(b, Welcome, "idle", TRUE)
                   \/ user # None /\ Reply(b, <<Bare("R5")>>, "md5", TRUE)
                   \/ user # None /\ Reply(b, <<Bare("R3")>>, "refused", TRUE)
       \/ /\ st[b] = "md5" /\ out[b] # <<>> /\ UNCHANGED who
          /\ out' = [out EXCEPT ![b] = Tail(@)]
          /\ \/ Reply(b, Welcome, "idle", TRUE)
             \/ Reply(b, <<Bare("E")>>, "refused", FALSE)
             \/ /\ Head(out[b]).t = "p" /\ Head(out[b]) # Password(who[b], b)
                /\ Reply(b, <<Bare("E")>>, "denied", FALSE)
       \/ /\ st[b] = "new" /\ UNCHANGED <<out, who>>
          /\ Reply(b, <<>>, "refused", FALSE)
       \/ /\ st[b] \in {"md5", "idle"} /\ UNCHANGED <<out, who>>
          /\ Reply(b, <<Bare("N")>>, st[b], TRUE)

LEMMA BackendSteps ==
    ASSUME Typed, Lists, NEW b \in Backend, BackendStep(b) \/ BackendNotice(b)
    PROVE  BackendDoes(b)
<1>1. CASE BackendStartup(b)
  <2> DEFINE users == Head(out[b]).u
             user  == IF users = <<>> THEN None ELSE users[Len(users)]
  <2>1. /\ ~Over /\ up[b] /\ UNCHANGED <<worker, client, ghosts>>
        /\ st[b] = "new" /\ out[b] # <<>> /\ Head(out[b]).t = "startup"
        /\ out' = [out EXCEPT ![b] = Tail(@)]
        /\ who' = [who EXCEPT ![b] = user]
        /\ \/ Reply(b, <<Bare("E")>>, "refused", FALSE)
           \/ user # None /\ Reply(b, Welcome, "idle", TRUE)
           \/ user # None /\ Reply(b, <<Bare("R5")>>, "md5", TRUE)
           \/ user # None /\ Reply(b, <<Bare("R3")>>, "refused", TRUE)
    BY <1>1, Zenon DEF BackendStartup
  <2>2. users \in Seq(User)
    <3>1. out[b] \in Seq(Msg) BY DEF Typed, Queues
    <3> QED BY <2>1, <3>1, FirstTaken DEF Lists
  <2>3. user \in User \union {None} /\ (user # None => NamedLast(users, user))
    <3> HIDE DEF users
    <3>1. users # <<>> => users[Len(users)] \in User BY <2>2
    <3> QED BY <3>1 DEF NamedLast
  <2> HIDE DEF user
  <2> QED BY <2>1, <2>3 DEF BackendDoes
<1>2. CASE BackendPassword(b)
  <2>1. /\ ~Over /\ up[b] /\ UNCHANGED <<worker, who, client, ghosts>>
        /\ st[b] = "md5" /\ out[b] # <<>> /\ out' = [out EXCEPT ![b] = Tail(@)]
    BY <1>2 DEF BackendPassword
  <2>2. \/ Reply(b, Welcome, "idle", TRUE)
        \/ Reply(b, <<Bare("E")>>, "refused", FALSE)
        \/ /\ Head(out[b]).t = "p" /\ Head(out[b]) # Password(who[b], b)
           /\ Reply(b, <<Bare("E")>>, "denied", FALSE)
    BY <1>2, Zenon DEF BackendPassword
  <2> QED BY <2>1, <2>2 DEF BackendDoes
<1>3. CASE BackendTimeout(b) BY <1>3 DEF BackendTimeout, BackendDoes
<1>4. CASE BackendNotice(b) BY <1>4 DEF BackendNotice, BackendDoes
<1> QED BY <1>1, <1>2, <1>3, <1>4 DEF BackendStep

LEMMA BackendTyped ==
    ASSUME Typed, NEW b \in Backend, BackendDoes(b) PROVE Typed'
<1>1. /\ in' \in [Peer -> Seq(Msg)] /\ \A c \in Backend : in'[c] \in Seq(FromBackend)
      /\ st' \in [Backend -> {"none", "new", "md5", "idle", "refused", "denied"}]
      /\ up' \in [Peer -> BOOLEAN]
  <2>1. \E ms \in Seq(FromBackend), state \in {"none", "new", "md5", "idle", "refused", "denied"},
           open \in BOOLEAN : Reply(b, ms, state, open)
    BY Replies, WelcomeIs DEF BackendDoes
  <2> QED BY <2>1, ReplyTyped
<1>2. who' \in [Backend -> User \union {None}] BY DEF BackendDoes, Typed, TypeOK
<1>3. out' \in [Backend -> Seq(Msg)]
  <2>1. UNCHANGED out \/ (out[b] # <<>> /\ out' = [out EXCEPT ![b] = Tail(out[b])])
    BY DEF BackendDoes
  <2>2. out \in [Backend -> Seq(Msg)] /\ out[b] \in Seq(Msg) BY DEF Typed, Queues
  <2>3. out[b] # <<>> => Tail(out[b]) \in Seq(Msg) BY <2>2, FirstTaken
  <2> QED BY <2>1, <2>2, <2>3
<1>4. UNCHANGED <<worker, client, ghosts>> BY DEF BackendDoes
<1>5. TypeOK' BY <1>1, <1>2, <1>4 DEF Typed, TypeOK, worker, client, ghosts
<1>6. Queues' BY <1>1, <1>3, <1>4 DEF Typed, Queues, worker, client, ghosts
<1> QED BY <1>5, <1>6 DEF Typed

\* The ends of the handshake that change nothing but the point it has reached.
Quits ==
    \/ Gone \/ AcceptNoValue \/ Refused \/ AcceptFault \/ AcceptInvalid \/ AcceptFails
    \/ NoBackends \/ ConnectFails \/ Starved \/ ConnectError \/ ConnectCut \/ ConnectOther

Leaves ==
    /\ pc' \in {"done", "crashed"}
    /\ UNCHANGED <<at, buf, params, pwhash, salt, in, out, up, client, servers, ghosts>>

LEMMA QuitsLeaves == Quits => Leaves
BY DEF Quits, Leaves, Leave, Gone, AcceptNoValue, Refused, AcceptFault, AcceptInvalid, AcceptFails,
       NoBackends, ConnectFails, Starved, ConnectError, ConnectCut, ConnectOther

LEMMA LeavesTyped == ASSUME Typed, Leaves PROVE Typed'
<1>1. TypeOK' BY DEF Typed, TypeOK, Leaves, client, servers, ghosts, PC
<1>2. Queues' BY DEF Typed, Queues, Leaves, client, servers, ghosts
<1> QED BY <1>1, <1>2 DEF Typed

LEMMA RecvTyped ==
    ASSUME Typed, Recv PROVE Typed'
<1>1. /\ in \in [Peer -> Seq(Msg)] /\ \A b \in Backend : in[b] \in Seq(FromBackend)
      /\ at \in Peer /\ in[at] \in Seq(Msg) /\ buf \in Seq(Msg)
  BY DEF Typed, TypeOK, Queues
<1>2. /\ buf' \in Seq(Msg) /\ buf' # <<>> /\ in' \in [Peer -> Seq(Msg)]
      /\ \A b \in Backend : in'[b] \in Seq(FromBackend)
  <2>1. CASE buf # <<>> /\ UNCHANGED <<buf, in>> BY <1>1, <2>1
  <2>2. CASE \E n \in Portions(in[at]) :
                /\ buf' = SubSeq(in[at], 1, n)
                /\ in' = [in EXCEPT ![at] = SubSeq(@, n + 1, Len(@))]
    <3>1. PICK n \in 1..Len(in[at]) :
                /\ buf' = SubSeq(in[at], 1, n)
                /\ in' = [in EXCEPT ![at] = SubSeq(in[at], n + 1, Len(in[at]))]
      BY <2>2 DEF Portions
    <3>2. /\ SubSeq(in[at], 1, n) \in Seq(Msg) /\ SubSeq(in[at], 1, n) # <<>>
          /\ SubSeq(in[at], n + 1, Len(in[at])) \in Seq(Msg)
      <4>1. PICK q : q = in[at] OBVIOUS
      <4>2. q \in Seq(Msg) /\ n \in 1..Len(q) BY <1>1, <4>1
      <4>3. /\ SubSeq(q, 1, n) \in Seq(Msg) /\ SubSeq(q, 1, n) # <<>>
            /\ SubSeq(q, n + 1, Len(q)) \in Seq(Msg)
        BY <4>2, Cut
      <4> QED BY <4>1, <4>3
    <3>3. at \in Backend => SubSeq(in[at], n + 1, Len(in[at])) \in Seq(FromBackend)
      <4>1. PICK q : q = in[at] OBVIOUS
      <4>2. at \in Backend => q \in Seq(FromBackend) /\ n \in 1..Len(q) BY <1>1, <4>1
      <4>3. at \in Backend => SubSeq(q, n + 1, Len(q)) \in Seq(FromBackend) BY <4>2, Cut
      <4> QED BY <4>1, <4>3
    <3>4. Backend \subseteq Peer BY DEF Peer
    <3> QED BY <1>1, <3>1, <3>2, <3>3, <3>4
  <2> QED BY <2>1, <2>2 DEF Recv
<1>3. TypeOK' BY <1>2 DEF Typed, TypeOK, Recv, PC, client, servers, ghosts
<1>4. Queues' BY <1>2 DEF Typed, Queues, Recv, client, servers, ghosts
<1> QED BY <1>3, <1>4 DEF Typed

\* A reply is relayed to the client.
LEMMA RelayToClientTyped ==
    ASSUME Typed, buf # <<>>, NEW t \in {"R0", "R5", "E"},
           RelayToClient(Append(Tail(buf), Bare(t)))
    PROVE  /\ UNCHANGED <<sent, hasty>> /\ buf' \in Seq(Msg)
           /\ asked' \in Seq(Msg) /\ heard' \in Seq({"R0", "Z", "E"})
<1>1. buf \in Seq(Msg) /\ Bare(t) \in Msg BY Messages DEF Typed, Queues, Tag
<1>2. PICK r : r = Append(Tail(buf), Bare(t)) OBVIOUS
<1>3. Head(r) \in Msg /\ Tail(r) \in Seq(Msg) BY <1>1, <1>2, Relayed
<1> QED BY <1>2, <1>3, HearTyped DEF RelayToClient

LEMMA AcceptSslTyped ==
    ASSUME Typed, AcceptSsl PROVE Typed'
<1>1. Bare("N") \in Msg BY Messages DEF Tag
<1>2. UNCHANGED <<sent, hasty>> /\ asked' \in Seq(Msg) /\ heard' \in Seq({"R0", "Z", "E"})
  BY <1>1, HearTyped DEF AcceptSsl, SslReply
<1>3. buf # <<>> BY DEF AcceptSsl, Accepting, Typed, TypeOK
<1>4. buf' \in Seq(Msg) BY <1>3, FirstTaken DEF AcceptSsl, Typed, Queues
<1>5. TypeOK' BY <1>2 DEF Typed, TypeOK, AcceptSsl, PC, servers, ghosts
<1>6. Queues' BY <1>2, <1>4 DEF Typed, Queues, AcceptSsl, servers, ghosts
<1> QED BY <1>5, <1>6 DEF Typed

LEMMA AcceptCancelTyped ==
    ASSUME Typed, AcceptCancel PROVE Typed'
<1>1. buf # <<>> BY DEF AcceptCancel, Accepting, Typed, TypeOK
<1>2. buf' \in Seq(Msg) BY <1>1, FirstTaken DEF AcceptCancel, Typed, Queues
<1>3. TypeOK' BY DEF Typed, TypeOK, AcceptCancel, PC, client, servers, ghosts
<1>4. Queues' BY <1>2 DEF Typed, Queues, AcceptCancel, client, servers, ghosts
<1> QED BY <1>3, <1>4 DEF Typed

LEMMA AcceptStartupTyped ==
    ASSUME Typed, Lists, AcceptStartup PROVE Typed'
<1>1. buf # <<>> /\ buf \in Seq(Msg) /\ at = "client" /\ Head(buf).t = "startup"
  BY DEF AcceptStartup, Accepting, MsgType, Typed, TypeOK, Queues
<1>2. /\ UNCHANGED <<sent, hasty>> /\ buf' \in Seq(Msg)
      /\ asked' \in Seq(Msg) /\ heard' \in Seq({"R0", "Z", "E"})
  BY <1>1, RelayToClientTyped DEF AcceptStartup
<1>3. Head(buf).u \in User \union {""} BY <1>1, FirstTaken DEF Lists, Names
<1>4. \/ UNCHANGED <<params, pwhash>>
      \/ \E u \in User : Extract(u)
  BY <1>3 DEF AcceptStartup
<1>5. params' \in [Peer -> Seq(User)] /\ pwhash' \in [Peer -> Known \union {None}]
  <2>1. params \in [Peer -> Seq(User)] /\ pwhash \in [Peer -> Known \union {None}]
    BY DEF Typed, TypeOK, Queues
  <2>2. CASE UNCHANGED <<params, pwhash>> BY <2>1, <2>2
  <2>3. ASSUME NEW u \in User, Extract(u)
        PROVE  params' \in [Peer -> Seq(User)] /\ pwhash' \in [Peer -> Known \union {None}]
    BY <2>1, <2>3, Added DEF Extract, Lookup, Peer
  <2> QED BY <1>4, <2>2, <2>3
<1>6. Seq(User) \subseteq Seq(User \union {""}) BY WiderSeq
<1>7. TypeOK' BY <1>2, <1>5, <1>6 DEF Typed, TypeOK, AcceptStartup, PC, servers, ghosts
<1>8. Queues' BY <1>2, <1>5 DEF Typed, Queues, AcceptStartup, servers, ghosts
<1> QED BY <1>7, <1>8 DEF Typed

LEMMA AcceptPasswordTyped ==
    ASSUME Typed, AcceptPassword PROVE Typed'
<1>1. buf # <<>> BY DEF AcceptPassword, Accepting, Typed, TypeOK
<1>2. /\ UNCHANGED <<sent, hasty>> /\ buf' \in Seq(Msg)
      /\ asked' \in Seq(Msg) /\ heard' \in Seq({"R0", "Z", "E"})
  BY <1>1, RelayToClientTyped DEF AcceptPassword
<1>3. proved' \in Known \union {None} BY DEF AcceptPassword, Typed, TypeOK, Peer
<1>4. TypeOK' BY <1>2, <1>3 DEF Typed, TypeOK, AcceptPassword, PC, servers
<1>5. Queues' BY <1>2 DEF Typed, Queues, AcceptPassword, servers
<1> QED BY <1>4, <1>5 DEF Typed

LEMMA AcceptRefuseTyped ==
    ASSUME Typed, AcceptRefuse PROVE Typed'
<1>1. buf # <<>> BY DEF AcceptRefuse, Accepting, Typed, TypeOK
<1>2. /\ UNCHANGED <<sent, hasty>> /\ buf' \in Seq(Msg)
      /\ asked' \in Seq(Msg) /\ heard' \in Seq({"R0", "Z", "E"})
  BY <1>1, RelayToClientTyped DEF AcceptRefuse
<1>3. TypeOK' BY <1>2 DEF Typed, TypeOK, AcceptRefuse, PC, servers, ghosts
<1>4. Queues' BY <1>2 DEF Typed, Queues, AcceptRefuse, servers, ghosts
<1> QED BY <1>3, <1>4 DEF Typed

LEMMA GreetTyped ==
    ASSUME Typed, Greet PROVE Typed'
<1>1. PICK r : r = Append(buf, Bare("Z")) OBVIOUS
<1>2. buf \in Seq(Msg) /\ Bare("Z") \in Msg BY Messages DEF Typed, Queues, Tag
<1>3. r \in Seq(Msg) /\ r # <<>> BY <1>1, <1>2, Added
<1>4. Head(r) \in Msg BY <1>3, FirstTaken
<1>5. UNCHANGED <<sent, hasty>> /\ asked' \in Seq(Msg) /\ heard' \in Seq({"R0", "Z", "E"})
  BY <1>1, <1>4, HearTyped DEF Greet
<1>6. TypeOK' BY <1>5 DEF Typed, TypeOK, Greet, PC, servers, ghosts
<1>7. Queues' BY <1>5 DEF Typed, Queues, Greet, servers, ghosts
<1> QED BY <1>6, <1>7 DEF Typed

LEMMA ChooseTyped ==
    ASSUME Typed, Choose PROVE Typed'
<1>1. params["client"] \in Seq(User) /\ pwhash["client"] \in Known \union {None}
  BY DEF Typed, TypeOK, Queues, Peer
<1>2. Seq(User) \subseteq Seq(User \union {""}) BY WiderSeq
<1>3. TypeOK' BY <1>1, <1>2 DEF Typed, TypeOK, Choose, PC, Peer, Backend, client, servers, ghosts
<1>4. Queues' BY <1>1 DEF Typed, Queues, Choose, client, servers, ghosts
<1> QED BY <1>3, <1>4 DEF Typed

LEMMA ConnectTyped ==
    ASSUME Typed, at \in Backend, Connect PROVE Typed'
<1>1. <<Startup(params[at])>> \in Seq(Msg) /\ <<Bare("partial")>> \in Seq(Msg)
  <2>1. params[at] \in Seq(User) BY DEF Typed, Queues, Peer
  <2>2. Startup(params[at]) \in Msg /\ Bare("partial") \in Msg BY <2>1, Messages DEF Tag
  <2>3. \A x \in Msg : <<x>> \in Seq(Msg) OBVIOUS
  <2> QED BY <2>2, <2>3
<1>2. out' \in [Backend -> Seq(Msg)] BY <1>1 DEF Connect, Typed, Queues
<1>3. TypeOK' BY DEF Typed, TypeOK, Connect, PC, client, ghosts
<1>4. Queues' BY <1>2 DEF Typed, Queues, Connect, client, ghosts
<1> QED BY <1>3, <1>4 DEF Typed

LEMMA ConnectNoticeTyped ==
    ASSUME Typed, ConnectNotice PROVE Typed'
<1>1. TypeOK' BY DEF Typed, TypeOK, ConnectNotice, PC, client, servers, ghosts
<1>2. Queues' BY DEF Typed, Queues, ConnectNotice, client, servers, ghosts
<1> QED BY <1>1, <1>2 DEF Typed

LEMMA ConnectSkipTyped ==
    ASSUME Typed, ConnectSkip PROVE Typed'
<1>1. buf # <<>> BY DEF ConnectSkip, Connecting, Typed, TypeOK
<1>2. buf' \in Seq(Msg) BY <1>1, FirstTaken DEF ConnectSkip, Skipped, Typed, Queues
<1>3. TypeOK' BY DEF Typed, TypeOK, ConnectSkip, PC, client, servers, ghosts
<1>4. Queues' BY <1>2 DEF Typed, Queues, ConnectSkip, client, servers, ghosts
<1> QED BY <1>3, <1>4 DEF Typed

\* The password that answers a request for one.
LEMMA Md5Is ==
    ASSUME Typed, ConnectMd5
    PROVE  /\ at \in Backend /\ pc = "handle" /\ buf # <<>> /\ buf[1].t = "R5"
           /\ Password(pwhash[at], at) \in Msg
           /\ salt' = [salt EXCEPT ![at] = at]
           /\ \E r : /\ r = Append(Tail(buf), Password(pwhash[at], at))
                     /\ out' = [out EXCEPT ![at] = IF up[at] THEN Append(@, Head(r)) ELSE @]
                     /\ buf' = Tail(r)
           /\ pc' = "recv"
           /\ UNCHANGED <<at, params, pwhash, in, up, client, servers, ghosts>>
<1>1. /\ at \in Backend /\ pc = "handle" /\ buf # <<>> /\ buf \in Seq(Msg)
      /\ Head(buf).t = "R5"
  BY DEF ConnectMd5, Connecting, Typed, TypeOK, Queues
<1>2. salt' = [salt EXCEPT ![at] = at] /\ salt'[at] = at
  BY DEF ConnectMd5, NewSalt, Typed, TypeOK
<1>3. pwhash[at] \in Known \union {None} /\ at \in Peer BY DEF Typed, TypeOK
<1>4. Password(pwhash[at], at) \in Msg BY <1>3, Messages
<1>5. buf[1].t = "R5" BY <1>1, FirstTaken
<1> QED BY <1>1, <1>2, <1>4, <1>5 DEF ConnectMd5

LEMMA ConnectMd5Typed ==
    ASSUME Typed, ConnectMd5 PROVE Typed'
<1>1. /\ at \in Backend /\ pc = "handle" /\ buf # <<>> /\ Password(pwhash[at], at) \in Msg
      /\ salt' = [salt EXCEPT ![at] = at] /\ pc' = "recv"
      /\ UNCHANGED <<at, params, pwhash, in, up, client, servers, ghosts>>
  BY Md5Is
<1>2. PICK r : /\ r = Append(Tail(buf), Password(pwhash[at], at))
               /\ out' = [out EXCEPT ![at] = IF up[at] THEN Append(@, Head(r)) ELSE @]
               /\ buf' = Tail(r)
  BY Md5Is
<1>3. Head(r) \in Msg /\ Tail(r) \in Seq(Msg) BY <1>1, <1>2, Relayed DEF Typed, Queues
<1>4. out' \in [Backend -> Seq(Msg)]
  <2>1. out \in [Backend -> Seq(Msg)] BY DEF Typed, Queues
  <2>2. Append(out[at], Head(r)) \in Seq(Msg) BY <1>1, <1>3, <2>1, Added
  <2> QED BY <1>2, <2>1, <2>2
<1>5. TypeOK' BY <1>1 DEF Typed, TypeOK, PC, client, servers, ghosts
<1>6. Queues' BY <1>1, <1>2, <1>3, <1>4 DEF Typed, Queues, client, servers, ghosts
<1> QED BY <1>5, <1>6 DEF Typed

LEMMA ConnectReadyTyped ==
    ASSUME Typed, ConnectReady PROVE Typed'
<1>1. buf # <<>> BY DEF ConnectReady, Typed, TypeOK
<1>2. Tail(buf) \in Seq(Msg) BY <1>1, FirstTaken DEF Typed, Queues
<1>3. TypeOK' BY DEF Typed, TypeOK, ConnectReady, PC, Peer, Backend, client, servers
<1>4. Queues' BY <1>2 DEF Typed, Queues, ConnectReady, client, servers
<1> QED BY <1>3, <1>4 DEF Typed
-----------------------------------------------------------------------------
(* The invariant, one lemma for each kind of step. *)

Steady == Named /\ Proved /\ Lists /\ Told /\ Phases /\ Patient

LEMMA SeqFacts ==
    ASSUME Typed
    PROVE  /\ buf \in Seq(Msg) /\ Len(buf) \in Nat /\ asked \in Seq(Msg) /\ Len(asked) \in Nat
           /\ in["client"] \in Seq(Msg) /\ Len(in["client"]) \in Nat
           /\ \A b \in Backend : /\ out[b] \in Seq(Msg) /\ Len(out[b]) \in Nat
                                 /\ in[b] \in Seq(FromBackend) /\ Len(in[b]) \in Nat
BY DEF Typed, Queues, Peer, Backend

LEMMA ClientSendSteady ==
    ASSUME Typed, Steady, NEW m \in ClientMsg, ClientSend(m) PROVE Steady'
<1>1. /\ UNCHANGED <<pc, at, buf, params, pwhash, out, up, heard, st, who, proved, lost>>
      /\ ~Over /\ up["client"] /\ "Z" \notin {heard[i] : i \in DOMAIN heard}
      /\ hasty' = (hasty \/ asked # <<>>)
      /\ asked' = (IF Answerable(m) THEN Append(asked, m) ELSE asked)
      /\ in' = [in EXCEPT !["client"] = Append(in["client"], m)]
  BY DEF ClientSend, worker, servers, ghosts
<1>2. /\ in \in [Peer -> Seq(Msg)] /\ "client" \in Peer /\ "client" \notin Backend /\ m \in Msg
      /\ Backend \subseteq Peer
  BY Messages DEF Typed, Queues, Peer, Backend
<1>3. in'["client"] = Append(in["client"], m) /\ \A b \in Backend : in'[b] = in[b] BY <1>1, <1>2
<1>4. /\ in["client"] \in Seq(Msg) /\ Len(in["client"]) \in Nat
      /\ Len(in'["client"]) = Len(in["client"]) + 1
      /\ \A i \in 1..Len(in'["client"]) :
            in'["client"][i] = IF i <= Len(in["client"]) THEN in["client"][i] ELSE m
  BY <1>2, <1>3, Added
<1>5. Named' BY <1>1 DEF Steady, Named
<1>6. Proved' BY <1>1 DEF Steady, Proved
<1>7. Lists'
  <2>1. m.t = "startup" => m.u \in User \union {""} BY Messages
  <2>2. \A i \in 1..Len(in'["client"]) :
           in'["client"][i] = m \/ \E j \in 1..Len(in["client"]) : in'["client"][i] = in["client"][j]
    BY <1>4
  <2>3. Names(in["client"]) BY DEF Steady, Lists
  <2>4. Names(in'["client"]) BY <2>1, <2>2, <2>3 DEF Names
  <2> QED BY <1>1, <2>4 DEF Steady, Lists, Names
<1>8. Told' BY <1>1 DEF Steady, Told, About
<1>9. Phases' BY <1>1, <1>3 DEF Steady, Phases, Unused, Greeted, Greeting, InGreeting, Only, No, Backend
<1>10. Patient'
  <2> SUFFICES ASSUME up'["client"], ~hasty'
               PROVE  Patient'
    BY DEF Patient
  <2>1. ~hasty /\ asked = <<>> /\ up["client"] BY <1>1
  <2>2. pc # "greet" BY <2>1 DEF Steady, Patient
  <2>3. ~(pc = "choose" \/ (at \in Backend /\ pc \notin {"done", "crashed"}))
    <3>1. ASSUME heard = <<"R0", "Z">> PROVE FALSE
      <4>1. 2 \in DOMAIN heard /\ heard[2] = "Z" BY <3>1
      <4> QED BY <1>1, <4>1
    <3> QED BY <2>1, <3>1 DEF Steady, Patient
  <2>4. CASE at = "client" /\ pc \in {"recv", "handle"}
    <3>1. /\ heard = <<>>
          /\ \A i \in 1..Len(buf) : ~Answerable(buf[i])
          /\ \A i \in 1..Len(in["client"]) : ~Answerable(in["client"][i])
      BY <2>1, <2>4 DEF Steady, Patient
    <3>2. Answerable(m) => asked' # <<>> /\ Len(asked') = 1
      BY <1>1, <1>2, <2>1
    <3>3. Len(asked') <= 1 BY <1>1, <2>1, <3>2
    <3>4. \A i \in 1..Len(in'["client"]) :
             Answerable(in'["client"][i]) => i = Len(in'["client"]) /\ asked' # <<>>
      BY <1>4, <3>1, <3>2
    <3> QED BY <1>1, <2>4, <3>1, <3>3, <3>4 DEF Patient, Backend, Answerable
  <2>5. CASE ~(at = "client" /\ pc \in {"recv", "handle"})
    BY <1>1, <2>2, <2>3, <2>5 DEF Patient
  <2> QED BY <2>4, <2>5
<1> QED BY <1>5, <1>6, <1>7, <1>8, <1>9, <1>10 DEF Steady

LEMMA VanishSteady ==
    ASSUME Typed, Steady, NEW p \in Peer, Vanish(p) PROVE Steady'
<1>1. /\ UNCHANGED <<pc, at, buf, params, pwhash, in, out, asked, hasty, heard, st, who, proved, lost>>
      /\ up'["client"] => up["client"]
  BY DEF Vanish, worker, client, servers, ghosts, Typed, TypeOK, Peer
<1>2. Named' /\ Proved' BY <1>1 DEF Steady, Named, Proved
<1>3. Lists' /\ Told' BY <1>1 DEF Steady, Lists, Names, Told, About
<1>4. Phases' BY <1>1 DEF Steady, Phases, Unused, Greeted, Greeting, InGreeting, Only, No
<1>5. Patient' BY <1>1 DEF Steady, Patient, Answerable
<1> QED BY <1>2, <1>3, <1>4, <1>5 DEF Steady

LEMMA LeavesSteady ==
    ASSUME Typed, Steady, Leaves PROVE Steady'
<1>1. /\ UNCHANGED <<at, buf, params, pwhash, in, out, up, asked, hasty, heard, st, who, proved, lost>>
      /\ pc' \in {"done", "crashed"}
  BY DEF Leaves, client, servers, ghosts
<1>2. Named' /\ Lists' BY <1>1 DEF Steady, Named, Lists, Names
<1>3. Proved' BY <1>1 DEF Steady, Proved
<1>4. Told' BY <1>1 DEF Steady, Told, About
<1>5. Phases' BY <1>1 DEF Steady, Phases, Unused, Greeted, Only
<1>6. Patient' BY <1>1 DEF Steady, Patient, Answerable, Phases
<1> QED BY <1>2, <1>3, <1>4, <1>5, <1>6 DEF Steady

\* What the reply of a backend leaves behind.
Replied(b, ms, state) ==
    /\ st'[b] = state /\ \A c \in Backend : c # b => st'[c] = st[c] /\ in'[c] = in[c]
    /\ in'["client"] = in["client"] /\ up'["client"] = up["client"]
    /\ Len(in'[b]) = Len(in[b]) + Len(ms) /\ Len(in[b]) \in Nat /\ Len(ms) \in Nat
    /\ \A i \in 1..Len(in'[b]) :
          in'[b][i] = IF i <= Len(in[b]) THEN in[b][i] ELSE ms[i - Len(in[b])]

\* A message that a backend sends.
LEMMA Sent ==
    ASSUME Typed, NEW b \in Backend, NEW ms \in Seq(FromBackend), NEW state, NEW open,
           Reply(b, ms, state, open)
    PROVE  Replied(b, ms, state)
<1>1. /\ in \in [Peer -> Seq(Msg)] /\ in[b] \in Seq(FromBackend) /\ Backend \subseteq Peer
      /\ "client" \in Peer /\ "client" \notin Backend /\ up \in [Peer -> BOOLEAN]
      /\ st \in [Backend -> {"none", "new", "md5", "idle", "refused", "denied"}]
  BY DEF Typed, TypeOK, Queues, Peer, Backend
<1>2. in'[b] = in[b] \o ms BY <1>1 DEF Reply
<1>3. /\ Len(in'[b]) = Len(in[b]) + Len(ms) /\ Len(in[b]) \in Nat /\ Len(ms) \in Nat
      /\ \A i \in 1..Len(in'[b]) :
            in'[b][i] = IF i <= Len(in[b]) THEN in[b][i] ELSE ms[i - Len(in[b])]
  BY <1>1, <1>2, Glued
<1> QED BY <1>1, <1>3 DEF Reply, Replied

\* The four things a backend may do, with what it does to its own queue.
BackendEffect(b) ==
    \/ /\ st[b] = "new" /\ out[b] # <<>> /\ Head(out[b]).t = "startup"
       /\ out' = [out EXCEPT ![b] = Tail(@)]
       /\ \E user \in User \union {None} :
             /\ user # None => NamedLast(Head(out[b]).u, user)
             /\ who' = [who EXCEPT ![b] = user]
             /\ \/ \E t \in {"E", "R3"} : Replied(b, <<Bare(t)>>, "refused")
                \/ user # None /\ Replied(b, Welcome, "idle")
                \/ user # None /\ Replied(b, <<Bare("R5")>>, "md5")
    \/ /\ st[b] = "md5" /\ out[b] # <<>> /\ UNCHANGED who
       /\ out' = [out EXCEPT ![b] = Tail(@)]
       /\ \/ Replied(b, Welcome, "idle")
          \/ Replied(b, <<Bare("E")>>, "refused")
          \/ Head(out[b]).t = "p" /\ Head(out[b]) # Password(who[b], b)
    \/ st[b] = "new" /\ UNCHANGED <<out, who>> /\ Replied(b, <<>>, "refused")
    \/ st[b] \in {"md5", "idle"} /\ UNCHANGED <<out, who>> /\ Replied(b, <<Bare("N")>>, st[b])

LEMMA BackendEffects ==
    ASSUME Typed, NEW b \in Backend, BackendDoes(b)
    PROVE  BackendEffect(b)
<1>1. \A ms \in Seq(FromBackend) : \A state, open : Reply(b, ms, state, open) => Replied(b, ms, state)
  BY Sent
<1>2. /\ <<>> \in Seq(FromBackend) /\ Welcome \in Seq(FromBackend)
      /\ \A t \in {"E", "R5", "R3", "N"} : <<Bare(t)>> \in Seq(FromBackend)
  BY Replies, WelcomeIs
<1> QED BY <1>1, <1>2 DEF BackendDoes, BackendEffect

\* q2 is q with ms behind it.
Longer(q, ms, q2) ==
    /\ Len(q2) = Len(q) + Len(ms) /\ Len(q) \in Nat /\ Len(ms) \in Nat
    /\ \A i \in 1..Len(q2) : q2[i] = IF i <= Len(q) THEN q[i] ELSE ms[i - Len(q)]

LEMMA Either ==
    ASSUME NEW q, NEW ms, NEW q2, Longer(q, ms, q2), NEW i \in 1..Len(q2)
    PROVE  \/ i \in 1..Len(q) /\ q2[i] = q[i]
           \/ i > Len(q) /\ i - Len(q) \in 1..Len(ms) /\ q2[i] = ms[i - Len(q)]
BY DEF Longer

LEMMA NoIndex == 1..0 = {}
OBVIOUS

LEMMA Empty == \A S : \A q \in Seq(S) : Len(q) = 0 => q = <<>>
OBVIOUS

\* What a backend sends keeps the handshake in order.
LEMMA Answers ==
    ASSUME NEW s, NEW o \in Seq(Msg), NEW q \in Seq(FromBackend), NEW held \in Seq(Msg),
           InGreeting(s, o, q, held), NEW q2, NEW s2, NEW o2, NEW ms \in Seq(FromBackend),
           Longer(q, ms, q2),
           \/ /\ s = "new" /\ o2 = Tail(o)
              /\ \/ s2 = "refused" /\ ms \in {<<Bare("E")>>, <<Bare("R3")>>}
                 \/ s2 = "idle" /\ ms = Welcome
                 \/ s2 = "md5" /\ ms = <<Bare("R5")>>
           \/ /\ s = "md5" /\ o # <<>> /\ o2 = Tail(o)
              /\ \/ s2 = "refused" /\ ms = <<Bare("E")>>
                 \/ s2 = "idle" /\ ms = Welcome
           \/ s = "new" /\ o2 = o /\ s2 = "refused" /\ ms = <<>>
           \/ s \in {"md5", "idle"} /\ o2 = o /\ s2 = s /\ ms = <<Bare("N")>>
    PROVE  InGreeting(s2, o2, q2, held)
<1>1. /\ \A t : Bare(t).t = t /\ Len(<<Bare(t)>>) = 1 /\ <<Bare(t)>>[1] = Bare(t)
      /\ Len(held) \in Nat /\ Len(o) \in Nat /\ (o # <<>> => Len(Tail(o)) = Len(o) - 1)
      /\ (Len(o) = 0 <=> o = <<>>) /\ (Len(held) = 0 <=> held = <<>>) /\ (Len(q) = 0 <=> q = <<>>)
      /\ (o # <<>> => Tail(o) \in Seq(Msg))
      /\ Len(q) \in Nat /\ Len(ms) \in Nat
  BY FirstTaken DEF Bare, Longer
<1>2. Len(o) <= 1 BY DEF InGreeting
<1>3. o2 = o \/ (o # <<>> /\ o2 = <<>>)
  <2>1. o # <<>> /\ o2 = Tail(o) => o2 = <<>>
    <3>1. ASSUME o # <<>> PROVE Tail(o) = <<>>
      <4>1. Tail(o) \in Seq(Msg) /\ Len(Tail(o)) = Len(o) - 1 /\ Len(o) \in Nat /\ Len(o) # 0
        BY <3>1, FirstTaken
      <4>2. Len(Tail(o)) = 0 BY <1>2, <4>1
      <4> QED BY <4>1, <4>2, Empty
    <3> QED BY <3>1
  <2>2. s = "new" => o # <<>> BY <1>1 DEF InGreeting
  <2> QED BY <2>1, <2>2
<1>4. CASE s = "new" /\ o2 = o /\ s2 = "refused" /\ ms = <<>>
  <2>1. held = <<>> /\ q = <<>> /\ Len(q2) = 0 BY <1>1, <1>4 DEF InGreeting, Longer
  <2>2. Len(held) = 0 BY <2>1
  <2> QED BY <1>2, <1>4, <2>1, <2>2 DEF InGreeting, No, Only
<1>5. CASE s = "new" /\ o2 = Tail(o)
  <2>1. held = <<>> /\ q = <<>> /\ Len(q) = 0 /\ Len(held) = 0 /\ o2 = <<>> /\ Len(o2) = 0
    <3>1. held = <<>> /\ q = <<>> /\ Len(o) = 1 BY <1>5 DEF InGreeting
    <3> QED BY <1>1, <1>3, <1>5, <3>1
  <2>2. Len(q2) = Len(ms) /\ \A i \in 1..Len(q2) : q2[i] = ms[i] BY <1>1, <2>1 DEF Longer
  <2>3. CASE s2 = "refused" /\ ms \in {<<Bare("E")>>, <<Bare("R3")>>}
    <3>1. Len(q2) = 1 /\ q2[1].t \in {"E", "R3"} BY <1>1, <2>2, <2>3
    <3> QED BY <2>1, <2>3, <3>1 DEF InGreeting, No, Only
  <2>4. CASE s2 = "idle" /\ ms = Welcome
    <3>1. Len(q2) = 4 /\ \A i \in 1..4 : q2[i].t # "R5" /\ (q2[i].t = "Z" => i = 4)
      BY <2>2, <2>4, WelcomeIs
    <3> QED BY <2>1, <2>4, <3>1 DEF InGreeting, No, Only
  <2>5. CASE s2 = "md5" /\ ms = <<Bare("R5")>>
    <3>1. Len(q2) = 1 /\ q2[1].t = "R5" BY <1>1, <2>2, <2>5
    <3> QED BY <2>1, <2>5, <3>1 DEF InGreeting, No, Only
  <2> QED BY <1>4, <1>5, <2>3, <2>4, <2>5
<1>6. CASE s = "md5" /\ o # <<>> /\ o2 = Tail(o)
  <2>1. o2 = <<>> /\ Len(o2) = 0 /\ No(held, "Z") /\ No(q, "Z") /\ No(held, "R5") /\ No(q, "R5")
    <3>1. Tail(o) = <<>> BY <1>1, <1>2, <1>6
    <3> QED BY <1>6, <3>1 DEF InGreeting
  <2>2. CASE s2 = "refused" /\ ms = <<Bare("E")>>
    <3>1. ASSUME NEW i \in 1..Len(q2) PROVE q2[i].t # "Z" /\ q2[i].t # "R5"
      <4>1. \A j \in 1..Len(ms) : ms[j].t = "E" BY <1>1, <2>2
      <4> QED BY <2>1, <4>1, Either DEF No
    <3> QED BY <2>1, <2>2, <3>1 DEF InGreeting, No
  <2>3. CASE s2 = "idle" /\ ms = Welcome
    <3>1. Len(ms) = 4 /\ \A i \in 1..4 : ms[i].t # "R5" /\ (ms[i].t = "Z" => i = 4)
      BY <2>3, WelcomeIs
    <3>2. Len(q2) = Len(q) + 4 BY <3>1 DEF Longer
    <3>3. ASSUME NEW i \in 1..Len(q2)
          PROVE  q2[i].t # "R5" /\ (q2[i].t = "Z" => i = Len(q2))
      <4>1. CASE i \in 1..Len(q) /\ q2[i] = q[i] BY <2>1, <4>1 DEF No
      <4>2. CASE i - Len(q) \in 1..Len(ms) /\ q2[i] = ms[i - Len(q)]
        <5>1. q2[i].t # "R5" /\ (q2[i].t = "Z" => i - Len(q) = 4) BY <3>1, <4>2
        <5> QED BY <1>1, <3>2, <5>1
      <4> QED BY <4>1, <4>2, Either
    <3> QED BY <1>1, <2>1, <2>3, <3>2, <3>3 DEF InGreeting, No
  <2> QED BY <1>6, <2>2, <2>3
<1>7. CASE s \in {"md5", "idle"} /\ o2 = o /\ s2 = s /\ ms = <<Bare("N")>>
  <2>1. Len(q2) = Len(q) + 1 /\ \A i \in 1..Len(q2) : q2[i] = IF i <= Len(q) THEN q[i] ELSE Bare("N")
    BY <1>1, <1>7 DEF Longer
  <2>2. /\ No(q, "Z") => No(q2, "Z")
        /\ No(q, "R5") => No(q2, "R5")
        /\ Only(q, "N") => Only(q2, "N")
    <3>1. \A i \in 1..Len(q2) : (i \in 1..Len(q) /\ q2[i] = q[i]) \/ q2[i] = Bare("N")
      BY <1>1, <2>1
    <3>2. Bare("N").t = "N" BY <1>1
    <3> QED BY <3>1, <3>2 DEF No, Only
  <2>3. \A i \in 1..Len(q2) : q2[i].t = "R5" => i = 1 /\ held = <<>>
    <3>1. \A i \in 1..Len(q2) : q2[i].t = "R5" => i \in 1..Len(q) /\ q[i].t = "R5"
      BY <1>1, <2>1
    <3> QED BY <3>1 DEF InGreeting
  <2>4. \A i, j \in 1..Len(q2) : i < j /\ q2[i].t = "Z" => q2[j] = Bare("N")
    <3> SUFFICES ASSUME NEW i \in 1..Len(q2), NEW j \in 1..Len(q2), i < j, q2[i].t = "Z"
                 PROVE  q2[j] = Bare("N")
      OBVIOUS
    <3>1. i \in 1..Len(q) /\ q[i].t = "Z" BY <1>1, <2>1
    <3>2. j \in 1..Len(q) => q[j] = Bare("N") BY <3>1 DEF InGreeting
    <3> QED BY <1>1, <2>1, <3>2
  <2> QED BY <1>1, <1>7, <2>2, <2>3, <2>4 DEF InGreeting
<1> QED BY <1>4, <1>5, <1>6, <1>7

LEMMA BackendSteady ==
    ASSUME Typed, Steady, NEW b \in Backend, BackendDoes(b) PROVE Steady'
<1>1. /\ UNCHANGED <<pc, at, buf, params, pwhash, asked, hasty, heard, proved, lost>>
      /\ BackendEffect(b) /\ ~Over
  BY BackendEffects DEF BackendDoes, worker, client, ghosts
<1>2. /\ in'["client"] = in["client"] /\ up'["client"] = up["client"]
  <2>1. \A state, open : \A ms : Reply(b, ms, state, open)
            => in'["client"] = in["client"] /\ up'["client"] = up["client"]
    BY DEF Reply, Typed, TypeOK, Queues, Peer, Backend
  <2> QED BY <2>1 DEF BackendDoes
<1>3. Named' /\ Proved' BY <1>1 DEF Steady, Named, Proved
<1>4. Patient' BY <1>1, <1>2 DEF Steady, Patient, Answerable
<1>5. /\ out \in [Backend -> Seq(Msg)] /\ out[b] \in Seq(Msg)
      /\ who \in [Backend -> User \union {None}]
  BY DEF Typed, TypeOK, Queues
<1>6. /\ \A c \in Backend : c # b => out'[c] = out[c] /\ who'[c] = who[c]
      /\ out'[b] = out[b] \/ (out[b] # <<>> /\ out'[b] = Tail(out[b]))
  BY <1>1, <1>5 DEF BackendEffect
<1>7. \A i \in 1..Len(out'[b]) : \E j \in 1..Len(out[b]) : out'[b][i] = out[b][j]
  <2>1. CASE out'[b] = out[b] BY <2>1
  <2>2. CASE out[b] # <<>> /\ out'[b] = Tail(out[b])
    <3>1. \A i \in 1..Len(Tail(out[b])) : Tail(out[b])[i] = out[b][i + 1] /\ i + 1 \in 1..Len(out[b])
      BY <1>5, <2>2, FirstTaken
    <3> QED BY <2>2, <3>1
  <2> QED BY <1>6, <2>1, <2>2
<1>8. Lists'
  <2>1. \A c \in Backend : \A i \in 1..Len(out'[c]) :
           out'[c][i].t = "startup" => out'[c][i].u \in Seq(User)
    <3>1. \A i \in 1..Len(out'[b]) : out'[b][i].t = "startup" => out'[b][i].u \in Seq(User)
      BY <1>7 DEF Steady, Lists
    <3> QED BY <1>6, <3>1 DEF Steady, Lists
  <2> QED BY <1>1, <1>2, <2>1 DEF Steady, Lists, Names
<1>9. \A c \in Backend : About(out'[c], c)
  <2>1. About(out'[b], b) BY <1>7 DEF Steady, Told, About
  <2> QED BY <1>6, <2>1 DEF Steady, Told
<1>10. About(out[b], b) /\ (out[b] # <<>> => Head(out[b]) = out[b][1] /\ 1 \in 1..Len(out[b]))
  BY <1>5, FirstTaken DEF Steady, Told
<1>11. /\ who'[b] \in {None, proved} /\ st'[b] # "denied" /\ (st'[b] = "md5" => who'[b] = proved)
       /\ \A c \in Backend : c # b => st'[c] = st[c] /\ in'[c] = in[c]
       /\ \/ /\ st[b] = "new" /\ out[b] # <<>> /\ out' = [out EXCEPT ![b] = Tail(@)]
             /\ \/ \E t \in {"E", "R3"} : Replied(b, <<Bare(t)>>, "refused")
                \/ Replied(b, Welcome, "idle")
                \/ Replied(b, <<Bare("R5")>>, "md5")
          \/ /\ st[b] = "md5" /\ out[b] # <<>> /\ out' = [out EXCEPT ![b] = Tail(@)]
             /\ \/ Replied(b, Welcome, "idle")
                \/ Replied(b, <<Bare("E")>>, "refused")
          \/ st[b] = "new" /\ UNCHANGED out /\ Replied(b, <<>>, "refused")
          \/ st[b] \in {"md5", "idle"} /\ UNCHANGED out /\ Replied(b, <<Bare("N")>>, st[b])
  <2>1. CASE /\ st[b] = "new" /\ out[b] # <<>> /\ Head(out[b]).t = "startup"
             /\ out' = [out EXCEPT ![b] = Tail(@)]
             /\ \E user \in User \union {None} :
                   /\ user # None => NamedLast(Head(out[b]).u, user)
                   /\ who' = [who EXCEPT ![b] = user]
                   /\ \/ \E t \in {"E", "R3"} : Replied(b, <<Bare(t)>>, "refused")
                      \/ user # None /\ Replied(b, Welcome, "idle")
                      \/ user # None /\ Replied(b, <<Bare("R5")>>, "md5")
    <3>1. PICK user \in User \union {None} :
                   /\ user # None => NamedLast(Head(out[b]).u, user)
                   /\ who' = [who EXCEPT ![b] = user]
                   /\ \/ \E t \in {"E", "R3"} : Replied(b, <<Bare(t)>>, "refused")
                      \/ user # None /\ Replied(b, Welcome, "idle")
                      \/ user # None /\ Replied(b, <<Bare("R5")>>, "md5")
      BY <2>1
    <3>2. user # None => user = proved BY <1>10, <2>1, <3>1 DEF About, NamedLast
    <3>3. who'[b] = user BY <1>5, <3>1
    <3>4. st'[b] \in {"refused", "idle", "md5"} /\ (st'[b] = "md5" => user # None)
      BY <3>1 DEF Replied
    <3>5. \A c \in Backend : c # b => st'[c] = st[c] /\ in'[c] = in[c] BY <3>1 DEF Replied
    <3> QED BY <2>1, <3>1, <3>2, <3>3, <3>4, <3>5
  <2>2. CASE /\ st[b] = "md5" /\ out[b] # <<>> /\ UNCHANGED who
             /\ out' = [out EXCEPT ![b] = Tail(@)]
             /\ \/ Replied(b, Welcome, "idle")
                \/ Replied(b, <<Bare("E")>>, "refused")
                \/ Head(out[b]).t = "p" /\ Head(out[b]) # Password(who[b], b)
    <3>1. who[b] = proved BY <2>2 DEF Steady, Told
    <3>2. Head(out[b]).t = "p" => Head(out[b]) = Password(who[b], b)
      BY <1>10, <2>2, <3>1 DEF About
    <3> QED BY <2>2, <3>1, <3>2 DEF Replied
  <2>3. CASE st[b] = "new" /\ UNCHANGED <<out, who>> /\ Replied(b, <<>>, "refused")
    BY <2>3 DEF Replied, Steady, Told
  <2>4. CASE st[b] \in {"md5", "idle"} /\ UNCHANGED <<out, who>> /\ Replied(b, <<Bare("N")>>, st[b])
    BY <2>4 DEF Replied, Steady, Told
  <2> QED BY <1>1, <2>1, <2>2, <2>3, <2>4 DEF BackendEffect
<1>12. Told'
  <2>1. \A c \in Backend : c # b => /\ who'[c] \in {None, proved} /\ st'[c] # "denied"
                                    /\ st'[c] = "md5" => who'[c] = proved
    BY <1>6, <1>11 DEF Steady, Told
  <2> QED BY <1>1, <1>9, <1>11, <2>1 DEF Steady, Told, About
<1>13. \A ms, state : Replied(b, ms, state) => st'[b] = state /\ Longer(in[b], ms, in'[b])
  BY DEF Replied, Longer
<1>14. /\ Welcome \in Seq(FromBackend) /\ <<>> \in Seq(FromBackend)
       /\ \A t \in {"E", "R3", "R5", "N"} : <<Bare(t)>> \in Seq(FromBackend)
  BY Replies, WelcomeIs
<1>15. ASSUME Greeting(b) PROVE Greeting(b)'
  <2>1. PICK ms \in Seq(FromBackend) :
           /\ Longer(in[b], ms, in'[b])
           /\ \/ /\ st[b] = "new" /\ out'[b] = Tail(out[b])
                 /\ \/ st'[b] = "refused" /\ ms \in {<<Bare("E")>>, <<Bare("R3")>>}
                    \/ st'[b] = "idle" /\ ms = Welcome
                    \/ st'[b] = "md5" /\ ms = <<Bare("R5")>>
              \/ /\ st[b] = "md5" /\ out[b] # <<>> /\ out'[b] = Tail(out[b])
                 /\ \/ st'[b] = "refused" /\ ms = <<Bare("E")>>
                    \/ st'[b] = "idle" /\ ms = Welcome
              \/ st[b] = "new" /\ out'[b] = out[b] /\ st'[b] = "refused" /\ ms = <<>>
              \/ st[b] \in {"md5", "idle"} /\ out'[b] = out[b] /\ st'[b] = st[b] /\ ms = <<Bare("N")>>
    <3>1. out' = [out EXCEPT ![b] = Tail(@)] => out'[b] = Tail(out[b]) BY <1>5
    <3> QED BY <1>11, <1>13, <1>14, <3>1
  <2>2. InGreeting(st[b], out[b], in[b], buf) BY <1>15 DEF Greeting
  <2>3. in[b] \in Seq(FromBackend) /\ buf \in Seq(Msg) BY DEF Typed, Queues
  <2>4. InGreeting(st'[b], out'[b], in'[b], buf) BY <1>5, <2>1, <2>2, <2>3, Answers
  <2> QED BY <1>1, <2>4 DEF Greeting
<1>16. /\ b = "reader" /\ Unused("writer") => Unused("writer")'
       /\ b = "writer" /\ Greeted("reader") => Greeted("reader")'
  BY <1>1, <1>6, <1>11 DEF Unused, Greeted, Only, Backend
<1>17. st[b] \in {"new", "md5", "idle"} /\ ~Unused(b) BY <1>11 DEF Unused
<1>18. pc \notin {"session", "done", "crashed"} BY <1>1 DEF Over
<1>19. at \in Backend /\ pc \notin {"greet", "refuse", "choose"}
  BY <1>17 DEF Steady, Phases, Backend, Typed, TypeOK, Peer
<1>20. CASE at = b
  <2>1. pc # "connect" BY <1>17, <1>20 DEF Steady, Phases
  <2>2. Greeting(b) /\ lost[b] = <<>>
    BY <1>18, <1>19, <1>20, <2>1 DEF Steady, Phases, Typed, TypeOK, PC
  <2>3. Greeting(b)' BY <1>15, <2>2
  <2>4. b = "reader" => Unused("writer")' BY <1>16, <1>20 DEF Steady, Phases, Backend
  <2>5. b = "writer" => Greeted("reader")' BY <1>16, <1>20 DEF Steady, Phases, Backend
  <2>6. Phases' BY <1>1, <1>18, <1>19, <1>20, <2>1, <2>2, <2>3, <2>4, <2>5 DEF Phases, Backend
  <2> QED BY <1>3, <1>4, <1>8, <1>12, <2>6 DEF Steady
<1>21. CASE at # b
  <2>1. at = "writer" /\ b = "reader" /\ Greeted(b)
    BY <1>17, <1>19, <1>21 DEF Steady, Phases, Backend
  <2>2. out[b] = <<>> /\ st[b] = "idle" /\ Only(in[b], "N") /\ Only(lost[b], "N")
    BY <2>1 DEF Greeted
  <2>3. UNCHANGED out /\ Replied(b, <<Bare("N")>>, "idle") BY <1>11, <2>2
  <2>4. Only(in'[b], "N")
    <3>1. PICK ms : ms = <<Bare("N")>> OBVIOUS
    <3>2. Longer(in[b], ms, in'[b]) BY <1>13, <2>3, <3>1
    <3>3. \A j \in 1..Len(ms) : ms[j] = Bare("N") BY <3>1
    <3>4. ASSUME NEW i \in 1..Len(in'[b]) PROVE in'[b][i] = Bare("N")
      BY <2>2, <3>2, <3>3, Either DEF Only
    <3> QED BY <3>4 DEF Only
  <2>5. Greeted(b)'
    <3>1. st'[b] = "idle" BY <1>13, <2>3
    <3> QED BY <1>1, <2>2, <2>3, <2>4, <3>1 DEF Greeted, Only
  <2>6. in'["writer"] = in["writer"] /\ st'["writer"] = st["writer"] /\ who'["writer"] = who["writer"]
    BY <1>6, <1>11, <2>1 DEF Backend
  <2>7. /\ Unused("writer") => Unused("writer")'
        /\ Greeting("writer") => Greeting("writer")'
    BY <1>1, <2>3, <2>6 DEF Unused, Greeting
  <2>8. Phases' BY <1>1, <1>18, <1>19, <2>1, <2>5, <2>7 DEF Steady, Phases, Backend
  <2> QED BY <1>3, <1>4, <1>8, <1>12, <2>8 DEF Steady
<1> QED BY <1>20, <1>21

\* A step of pgr_conn_accept leaves the backends alone, and they are unused.
LEMMA Talking ==
    ASSUME Typed, Steady, at = "client", UNCHANGED <<at, in, out, st, who, lost>>,
           pc' \in {"recv", "greet", "refuse", "choose", "done"}, pc' = "choose" => buf' = <<>>,
           \A i \in 1..Len(buf') : buf'[i].t = "startup" => buf'[i].u \in User \union {""}
    PROVE  Lists' /\ Told' /\ Phases'
<1>1. Unused("reader") /\ Unused("writer") BY DEF Steady, Phases
<1>2. \A b \in Backend : st[b] = "none" /\ who[b] = None /\ out[b] = <<>>
  BY <1>1 DEF Unused, Backend
<1>3. "client" \notin Backend BY DEF Backend
<1>4. Lists' BY <1>2, <1>3 DEF Steady, Lists, Names
<1>5. Told'
  <2>1. Len(<<>>) = 0 OBVIOUS
  <2>2. \A b \in Backend : out'[b] = <<>> BY <1>2
  <2>3. \A b \in Backend : Len(out'[b]) = 0 BY <2>1, <2>2
  <2>4. \A b \in Backend : About(out[b], b)' BY <2>3, NoIndex DEF About
  <2> QED BY <1>2, <1>3, <2>4 DEF Told
<1>6. Phases' BY <1>1, <1>3 DEF Phases, Unused
<1> QED BY <1>4, <1>5, <1>6

\* What a client that waits for its answers has sent when the first message in
\* the buffer needs one.
LEMMA OneAsked ==
    ASSUME Typed, Steady, at = "client", pc = "handle", up["client"], ~hasty, Answerable(Head(buf))
    PROVE  /\ Len(buf) = 1 /\ in["client"] = <<>> /\ heard = <<>> /\ Tail(buf) = <<>>
           /\ Len(asked) = 1 /\ asked # <<>> /\ Len(Tail(asked)) = 0
<1>1. buf # <<>> /\ buf \in Seq(Msg) /\ Len(asked) \in Nat /\ asked \in Seq(Msg)
  BY SeqFacts DEF Typed, TypeOK
<1>2. Head(buf) = buf[1] /\ 1 \in 1..Len(buf) /\ Tail(buf) \in Seq(Msg) /\ Len(Tail(buf)) = Len(buf) - 1
  BY <1>1, FirstTaken
<1>3. 1 = Len(buf) /\ in["client"] = <<>> /\ asked # <<>> /\ heard = <<>> /\ Len(asked) <= 1
  BY <1>2 DEF Steady, Patient
<1>4. Len(asked) # 0 BY <1>1, <1>3, Empty
<1>5. Len(Tail(buf)) = 0
  <2>1. \A n : n = 1 => n - 1 = 0 OBVIOUS
  <2> QED BY <1>2, <1>3, <2>1
<1>6. Len(asked) = 1 BY <1>1, <1>3, <1>4
<1>7. Len(Tail(asked)) = Len(asked) - 1 BY <1>1, <1>3, FirstTaken
<1>8. Len(Tail(asked)) = 0 BY <1>6, <1>7
<1>9. Tail(buf) = <<>> BY <1>2, <1>5, Empty
<1> QED BY <1>3, <1>6, <1>8, <1>9

LEMMA AcceptSslSteady ==
    ASSUME Typed, Steady, AcceptSsl PROVE Steady'
<1>1. /\ pc = "handle" /\ at = "client" /\ buf # <<>> /\ buf \in Seq(Msg) /\ Head(buf).t = "ssl"
      /\ buf' = Tail(buf) /\ pc' = "recv" /\ Hear(Bare("N"))
      /\ UNCHANGED <<at, params, pwhash, in, out, up, st, who, proved, lost>>
  BY DEF AcceptSsl, Accepting, MsgType, SslReply, servers, ghosts, Typed, TypeOK, Queues
<1>2. \A i \in 1..Len(buf') : i + 1 \in 1..Len(buf) /\ buf'[i] = buf[i + 1] BY <1>1, FirstTaken
<1>3. Lists' /\ Told' /\ Phases'
  <2>1. \A i \in 1..Len(buf') : buf'[i].t = "startup" => buf'[i].u \in User \union {""}
    BY <1>1, <1>2 DEF Steady, Lists, Names
  <2> QED BY <1>1, <2>1, Talking
<1>4. Named' /\ Proved' BY <1>1 DEF Steady, Named, Proved, Backend
<1>5. Patient'
  <2> SUFFICES ASSUME up["client"], ~hasty'
               PROVE  Patient'
    BY <1>1 DEF Patient
  <2>1. ~hasty /\ heard' = heard /\ asked' \in {asked, Tail(asked)}
    BY <1>1 DEF Hear, client, Bare
  <2>2. heard = <<>> /\ in["client"] = <<>> /\ Len(asked) = 1 /\ Len(Tail(asked)) = 0 /\ buf' = <<>>
    BY <1>1, <2>1, OneAsked DEF Answerable
  <2>3. Len(asked') <= 1
    <3>1. Len(asked) = 1 /\ Len(Tail(asked)) = 0 BY <2>2
    <3>2. \A n \in {0, 1} : n <= 1 OBVIOUS
    <3>3. CASE asked' = asked BY <3>1, <3>2, <3>3
    <3>4. CASE asked' = Tail(asked) BY <3>1, <3>2, <3>4
    <3> QED BY <2>1, <3>3, <3>4
  <2>4. Len(buf') = 0 /\ Len(in'["client"]) = 0 BY <1>1, <2>2
  <2> QED BY <1>1, <2>1, <2>2, <2>3, <2>4 DEF Patient, Backend
<1> QED BY <1>3, <1>4, <1>5 DEF Steady

LEMMA AcceptCancelSteady ==
    ASSUME Typed, Steady, AcceptCancel PROVE Steady'
<1>1. /\ pc = "handle" /\ at = "client" /\ buf # <<>> /\ buf \in Seq(Msg)
      /\ buf' = Tail(buf) /\ pc' = "recv"
      /\ UNCHANGED <<at, params, pwhash, in, out, up, asked, hasty, heard, st, who, proved, lost>>
  BY DEF AcceptCancel, Accepting, client, servers, ghosts, Typed, TypeOK, Queues
<1>2. /\ \A i \in 1..Len(buf') : i + 1 \in 1..Len(buf) /\ buf'[i] = buf[i + 1]
      /\ Len(buf') = Len(buf) - 1 /\ Len(buf) \in Nat
  BY <1>1, FirstTaken
<1>3. Lists' /\ Told' /\ Phases'
  <2>1. \A i \in 1..Len(buf') : buf'[i].t = "startup" => buf'[i].u \in User \union {""}
    BY <1>1, <1>2 DEF Steady, Lists, Names
  <2> QED BY <1>1, <2>1, Talking
<1>4. Named' /\ Proved' BY <1>1 DEF Steady, Named, Proved, Backend
<1>5. Patient'
  <2> SUFFICES ASSUME up["client"], ~hasty
               PROVE  Patient'
    BY <1>1 DEF Patient
  <2>1. /\ heard = <<>> /\ Len(asked) <= 1
        /\ \A i \in 1..Len(buf) :
              Answerable(buf[i]) => i = Len(buf) /\ in["client"] = <<>> /\ asked # <<>>
        /\ \A i \in 1..Len(in["client"]) :
              Answerable(in["client"][i]) => i = Len(in["client"]) /\ asked # <<>>
    BY <1>1 DEF Steady, Patient
  <2>2. ASSUME NEW i \in 1..Len(buf'), Answerable(buf'[i])
        PROVE  i = Len(buf') /\ in["client"] = <<>> /\ asked # <<>>
    <3>1. i + 1 = Len(buf) /\ in["client"] = <<>> /\ asked # <<>> BY <1>2, <2>1, <2>2
    <3>2. i \in Nat BY <1>2
    <3> QED BY <1>2, <3>1, <3>2
  <2> QED BY <1>1, <2>1, <2>2 DEF Patient, Backend, Answerable
<1> QED BY <1>3, <1>4, <1>5 DEF Steady

\* What is left in the buffer after a reply has been relayed.
LEMMA RelayedToClient ==
    ASSUME Typed, Steady, at = "client", pc = "handle", NEW t \in {"R0", "R5", "E"},
           RelayToClient(Append(Tail(buf), Bare(t)))
    PROVE  /\ \A i \in 1..Len(buf') : buf'[i].t = "startup" => buf'[i].u \in User \union {""}
           /\ Len(buf) = 1 => Hear(Bare(t)) /\ buf' = <<>>
<1>1. buf # <<>> /\ buf \in Seq(Msg) /\ Bare(t) \in Msg /\ Bare(t).t = t
  BY Messages DEF Typed, TypeOK, Queues, Tag
<1>2. PICK r : r = Append(Tail(buf), Bare(t)) OBVIOUS
<1>3. Hear(Head(r)) /\ buf' = Tail(r) BY <1>2 DEF RelayToClient
<1>4. /\ Len(buf) = 1 => Head(r) = Bare(t) /\ Tail(r) = <<>>
      /\ \A i \in 1..Len(Tail(r)) :
            Tail(r)[i] = Bare(t) \/ (i + 2 \in 1..Len(buf) /\ Tail(r)[i] = buf[i + 2])
  BY <1>1, <1>2, Relayed
<1>5. \A i \in 1..Len(buf) : buf[i].t = "startup" => buf[i].u \in User \union {""}
  BY DEF Steady, Lists, Names
<1>6. ASSUME NEW i \in 1..Len(buf'), buf'[i].t = "startup" PROVE buf'[i].u \in User \union {""}
  BY <1>1, <1>3, <1>4, <1>5, <1>6
<1> QED BY <1>3, <1>4, <1>6

LEMMA AcceptStartupSteady ==
    ASSUME Typed, Steady, AcceptStartup PROVE Steady'
<1>1. /\ pc = "handle" /\ at = "client" /\ buf # <<>> /\ buf \in Seq(Msg) /\ Head(buf).t = "startup"
      /\ RelayToClient(Append(Tail(buf), Bare("R5"))) /\ pc' = "recv"
      /\ UNCHANGED <<at, in, out, up, st, who, proved, lost>>
  BY DEF AcceptStartup, Accepting, MsgType, servers, ghosts, Typed, TypeOK, Queues
<1>2. /\ \A i \in 1..Len(buf') : buf'[i].t = "startup" => buf'[i].u \in User \union {""}
      /\ Len(buf) = 1 => Hear(Bare("R5")) /\ buf' = <<>>
  BY <1>1, RelayedToClient
<1>3. Lists' /\ Told' /\ Phases' BY <1>1, <1>2, Talking
<1>4. Named'
  <2>1. Head(buf).u \in User \union {""} BY <1>1, FirstTaken DEF Steady, Lists, Names
  <2>2. UNCHANGED <<params, pwhash>> \/ \E u \in User : Extract(u) BY <2>1 DEF AcceptStartup
  <2>3. CASE UNCHANGED <<params, pwhash>> BY <2>3 DEF Steady, Named
  <2>4. ASSUME NEW u \in User, Extract(u) PROVE Named'
    <3>1. params["client"] \in Seq(User) /\ params \in [Peer -> Seq(User)] /\ "client" \in Peer
          /\ pwhash \in [Peer -> Known \union {None}]
      BY DEF Typed, TypeOK, Queues, Peer
    <3>2. params'["client"] = Append(params["client"], u) /\ pwhash'["client"] = Lookup(u)
      BY <2>4, <3>1 DEF Extract
    <3>3. NamedLast(params'["client"], u) /\ params'["client"] # <<>> BY <3>1, <3>2, Added DEF NamedLast
    <3> QED BY <3>2, <3>3 DEF Named, NamedLast
  <2> QED BY <2>2, <2>3, <2>4
<1>5. Proved' BY <1>1 DEF Steady, Proved, Backend
<1>6. Patient'
  <2> SUFFICES ASSUME up["client"], ~hasty'
               PROVE  Patient'
    BY <1>1 DEF Patient
  <2>0. UNCHANGED <<sent, hasty>> BY <1>1, RelayToClientTyped
  <2>1. /\ heard = <<>> /\ in["client"] = <<>> /\ Len(asked) = 1 /\ Len(Tail(asked)) = 0
        /\ Hear(Bare("R5")) /\ buf' = <<>>
    BY <1>1, <1>2, <2>0, OneAsked DEF Answerable
  <2>2. heard' = heard /\ asked' \in {asked, Tail(asked)}
    BY <2>1 DEF Hear, Bare
  <2>3. Len(asked') <= 1
    <3>1. Len(asked) = 1 /\ Len(Tail(asked)) = 0 BY <2>1
    <3>2. \A n \in {0, 1} : n <= 1 OBVIOUS
    <3>3. CASE asked' = asked BY <3>1, <3>2, <3>3
    <3>4. CASE asked' = Tail(asked) BY <3>1, <3>2, <3>4
    <3> QED BY <2>2, <3>3, <3>4
  <2>4. Len(buf') = 0 /\ Len(in'["client"]) = 0 BY <1>1, <2>1
  <2> QED BY <1>1, <2>1, <2>2, <2>3, <2>4 DEF Patient, Backend
<1> QED BY <1>3, <1>4, <1>5, <1>6 DEF Steady

LEMMA AcceptPasswordSteady ==
    ASSUME Typed, Steady, AcceptPassword PROVE Steady'
<1>1. /\ pc = "handle" /\ at = "client" /\ buf # <<>> /\ buf \in Seq(Msg) /\ Head(buf).t = "p"
      /\ pwhash["client"] # None /\ proved' = pwhash["client"]
      /\ RelayToClient(Append(Tail(buf), Bare("R0"))) /\ pc' = "greet"
      /\ UNCHANGED <<at, params, pwhash, in, out, up, st, who, lost>>
  BY DEF AcceptPassword, Accepting, CheckAuth, MsgType, servers, Typed, TypeOK, Queues
<1>2. /\ \A i \in 1..Len(buf') : buf'[i].t = "startup" => buf'[i].u \in User \union {""}
      /\ Len(buf) = 1 => Hear(Bare("R0")) /\ buf' = <<>>
  BY <1>1, RelayedToClient
<1>3. Lists' /\ Told' /\ Phases' BY <1>1, <1>2, Talking
<1>4. Named' BY <1>1 DEF Steady, Named
<1>5. Proved'
  <2>1. params["client"] \in Seq(User) /\ params["client"] # <<>>
    BY <1>1 DEF Typed, Queues, Peer, Steady, Named
  <2>2. PICK u \in User : NamedLast(params["client"], u)
    <3>1. PICK n : n = Len(params["client"]) OBVIOUS
    <3>2. n \in 1..n /\ params["client"][n] \in User BY <2>1, <3>1, FirstTaken
    <3> QED BY <2>1, <3>1, <3>2 DEF NamedLast
  <2>3. pwhash["client"] = u /\ u \in Known /\ u # None BY <1>1, <2>2 DEF Steady, Named, Lookup
  <2> QED BY <1>1, <2>2, <2>3 DEF Proved, Backend
<1>6. Patient'
  <2> SUFFICES ASSUME up["client"], ~hasty'
               PROVE  Patient'
    BY <1>1 DEF Patient
  <2>0. UNCHANGED <<sent, hasty>> BY <1>1, RelayToClientTyped
  <2>1. heard = <<>> /\ Len(asked) = 1 /\ Hear(Bare("R0")) /\ buf' = <<>>
    BY <1>1, <1>2, <2>0, OneAsked DEF Answerable
  <2>2. heard' = Append(heard, "R0") /\ asked' = asked BY <2>1 DEF Hear, Bare
  <2>3. heard' = <<"R0">> BY <2>1, <2>2
  <2> QED BY <1>1, <2>1, <2>2, <2>3 DEF Patient, Backend
<1> QED BY <1>3, <1>4, <1>5, <1>6 DEF Steady

LEMMA AcceptRefuseSteady ==
    ASSUME Typed, Steady, AcceptRefuse PROVE Steady'
<1>1. /\ pc = "handle" /\ at = "client" /\ pc' \in {"refuse", "done"}
      /\ RelayToClient(Append(Tail(buf), Bare("E")))
      /\ UNCHANGED <<at, params, pwhash, in, out, up, st, who, proved, lost>>
  BY DEF AcceptRefuse, Accepting, servers, ghosts
<1>2. \A i \in 1..Len(buf') : buf'[i].t = "startup" => buf'[i].u \in User \union {""}
  BY <1>1, RelayedToClient
<1>3. Lists' /\ Told' /\ Phases' BY <1>1, <1>2, Talking
<1>4. Named' /\ Proved' BY <1>1 DEF Steady, Named, Proved, Backend
<1>5. Patient' BY <1>1 DEF Patient, Backend
<1> QED BY <1>3, <1>4, <1>5 DEF Steady

LEMMA OkThenReady == Append(<<"R0">>, "Z") = <<"R0", "Z">>
<1>1. PICK a, r, s : a = <<"R0">> /\ r = Append(a, "Z") /\ s = <<"R0", "Z">> OBVIOUS
<1>2. a \in Seq({"R0", "Z"}) /\ Len(a) = 1 /\ a[1] = "R0" BY <1>1
<1>3. r \in Seq({"R0", "Z"}) /\ Len(r) = 2 /\ r[1] = "R0" /\ r[2] = "Z"
  <2>1. /\ r \in Seq({"R0", "Z"}) /\ Len(r) = Len(a) + 1
        /\ \A i \in 1..Len(r) : r[i] = IF i <= Len(a) THEN a[i] ELSE "Z"
    BY <1>1, <1>2, Added
  <2>2. Len(r) = 2 BY <1>2, <2>1
  <2> QED BY <1>2, <2>1, <2>2
<1>4. s \in Seq({"R0", "Z"}) /\ Len(s) = 2 /\ s[1] = "R0" /\ s[2] = "Z" BY <1>1
<1>5. \A i \in 1..Len(r) : r[i] = s[i] BY <1>3, <1>4
<1>6. \A S : \A p, q \in Seq(S) : Len(p) = Len(q) /\ (\A i \in 1..Len(p) : p[i] = q[i]) => p = q
  OBVIOUS
<1>7. r = s BY <1>3, <1>4, <1>5, <1>6
<1> QED BY <1>1, <1>7

LEMMA GreetSteady ==
    ASSUME Typed, Steady, Greet PROVE Steady'
<1>1. /\ pc = "greet" /\ at = "client" /\ pc' = "choose" /\ buf' = <<>>
      /\ Hear(Head(Append(buf, Bare("Z"))))
      /\ UNCHANGED <<at, params, pwhash, in, out, up, st, who, proved, lost>>
  BY DEF Greet, servers, ghosts, Steady, Phases
<1>2. Lists' /\ Told' /\ Phases'
  <2>1. Len(buf') = 0 BY <1>1
  <2> QED BY <1>1, <2>1, Talking
<1>3. Named' /\ Proved' BY <1>1 DEF Steady, Named, Proved, Backend
<1>4. Patient'
  <2> SUFFICES ASSUME up["client"], ~hasty'
               PROVE  Patient'
    BY <1>1 DEF Patient
  <2>1. UNCHANGED hasty BY <1>1 DEF Hear, client
  <2>2. buf = <<>> /\ heard = <<"R0">> BY <1>1, <2>1 DEF Steady, Patient
  <2>3. Head(Append(buf, Bare("Z"))) = Bare("Z") BY <2>2
  <2>4. heard' = Append(heard, "Z") BY <1>1, <2>3 DEF Hear, Bare
  <2>5. heard' = <<"R0", "Z">> BY <2>2, <2>4, OkThenReady
  <2> QED BY <1>1, <2>5 DEF Patient, Backend
<1> QED BY <1>2, <1>3, <1>4 DEF Steady

\* A read takes the first n messages of q into an empty buffer.
LEMMA Reading ==
    ASSUME NEW s, NEW o, NEW q \in Seq(FromBackend), NEW n \in 1..Len(q), q # <<>>,
           InGreeting(s, o, q, <<>>), NEW held, held = SubSeq(q, 1, n),
           NEW rest, rest = SubSeq(q, n + 1, Len(q))
    PROVE  InGreeting(s, o, rest, held)
<1>1. /\ Len(held) = n /\ Len(rest) = Len(q) - n /\ Len(q) \in Nat
      /\ \A i \in 1..n : held[i] = q[i]
      /\ \A i \in 1..(Len(q) - n) : rest[i] = q[n + i]
  BY Cut
<1>2. n \in Nat /\ n >= 1 /\ n <= Len(q) BY <1>1
<1>3. \A i \in 1..Len(held) : i \in 1..Len(q) /\ held[i] = q[i] BY <1>1, <1>2
<1>4. \A i \in 1..Len(rest) : i \in Nat /\ i >= 1 /\ n + i \in 1..Len(q) /\ rest[i] = q[n + i] BY <1>1, <1>2
<1>5. /\ s # "none" /\ s # "new" /\ (s = "idle" => o = <<>>) /\ Len(o) <= 1
      /\ s # "idle" => No(q, "Z")
      /\ s # "md5" \/ o # <<>> => No(q, "R5")
      /\ \A i \in 1..Len(q) : q[i].t = "R5" => i = 1
      /\ \A i, j \in 1..Len(q) : i < j /\ q[i].t = "Z" => q[j] = Bare("N")
  BY DEF InGreeting
<1>6. /\ s # "idle" => No(held, "Z") /\ No(rest, "Z")
      /\ s # "md5" \/ o # <<>> => No(held, "R5") /\ No(rest, "R5")
  <2>1. ASSUME NEW t, No(q, t) PROVE No(held, t) BY <1>3, <2>1 DEF No
  <2>2. ASSUME NEW t, No(q, t) PROVE No(rest, t) BY <1>4, <2>2 DEF No
  <2> QED BY <1>5, <2>1, <2>2
<1>7. \A i \in 1..Len(held) : held[i].t = "R5" => i = 1 BY <1>3, <1>5
<1>8. ASSUME NEW i \in 1..Len(rest), rest[i].t = "R5" PROVE FALSE
  <2>1. n + i = 1 BY <1>4, <1>5, <1>8
  <2>2. i \in Nat /\ i >= 1 BY <1>4
  <2> QED BY <1>2, <2>1, <2>2
<1>9. \A i, j \in 1..Len(held) : i < j /\ held[i].t = "Z" => held[j] = Bare("N") BY <1>3, <1>5
<1>10. ~No(held, "Z") => Only(rest, "N")
  <2> SUFFICES ASSUME NEW i \in 1..Len(held), held[i].t = "Z", NEW j \in 1..Len(rest)
               PROVE  rest[j] = Bare("N")
    BY DEF No, Only
  <2>1. i \in 1..Len(q) /\ q[i].t = "Z" /\ i <= n /\ i \in Nat BY <1>1, <1>2, <1>3
  <2>2. j \in Nat /\ j >= 1 /\ n + j \in 1..Len(q) /\ rest[j] = q[n + j] BY <1>4
  <2>3. i < n + j BY <1>2, <2>1, <2>2
  <2> QED BY <1>5, <2>1, <2>2, <2>3
<1>11. ASSUME NEW i \in 1..Len(rest), NEW j \in 1..Len(rest), i < j, rest[i].t = "Z"
       PROVE  rest[j] = Bare("N")
  <2>1. i \in Nat /\ j \in Nat /\ n + i < n + j BY <1>2, <1>4, <1>11
  <2> QED BY <1>4, <1>5, <1>11, <2>1
<1> QED BY <1>5, <1>6, <1>7, <1>8, <1>9, <1>10, <1>11 DEF InGreeting

LEMMA RecvSteady ==
    ASSUME Typed, Steady, Recv PROVE Steady'
<1>1. /\ pc = "recv" /\ pc' = "handle"
      /\ UNCHANGED <<at, params, pwhash, out, up, asked, hasty, heard, st, who, proved, lost>>
  BY DEF Recv, client, servers, ghosts
<1>2. Named' /\ Proved' BY <1>1 DEF Steady, Named, Proved
<1>3. CASE UNCHANGED <<buf, in>>
  <2>1. Lists' /\ Told' BY <1>1, <1>3 DEF Steady, Lists, Names, Told, About
  <2>2. Phases' BY <1>1, <1>3 DEF Steady, Phases, Unused, Greeted, Greeting, Only
  <2>3. Patient' BY <1>1, <1>3 DEF Steady, Patient, Answerable
  <2> QED BY <1>2, <2>1, <2>2, <2>3 DEF Steady
<1>4. CASE /\ buf = <<>> /\ in[at] # <<>>
           /\ \E n \in Portions(in[at]) :
                 /\ buf' = SubSeq(in[at], 1, n)
                 /\ in' = [in EXCEPT ![at] = SubSeq(@, n + 1, Len(@))]
  <2>1. PICK n \in 1..Len(in[at]) :
                 /\ buf' = SubSeq(in[at], 1, n)
                 /\ in' = [in EXCEPT ![at] = SubSeq(in[at], n + 1, Len(in[at]))]
    BY <1>4 DEF Portions
  <2>2. /\ in \in [Peer -> Seq(Msg)] /\ at \in Peer /\ in[at] \in Seq(Msg)
        /\ \A b \in Backend : in[b] \in Seq(FromBackend)
    BY DEF Typed, TypeOK, Queues
  <2>3. in'[at] = SubSeq(in[at], n + 1, Len(in[at])) /\ \A p \in Peer : p # at => in'[p] = in[p]
    BY <2>1, <2>2
  <2>4. /\ Len(buf') = n /\ Len(in'[at]) = Len(in[at]) - n /\ Len(in[at]) \in Nat
        /\ \A i \in 1..n : buf'[i] = in[at][i]
        /\ \A i \in 1..(Len(in[at]) - n) : in'[at][i] = in[at][n + i]
    BY <2>1, <2>2, <2>3, Cut
  <2>5. n \in Nat /\ n >= 1 /\ n <= Len(in[at]) BY <2>4
  <2>6. \A i \in 1..Len(buf') : i \in 1..Len(in[at]) /\ buf'[i] = in[at][i] BY <2>4, <2>5
  <2>7. \A i \in 1..Len(in'[at]) : /\ i \in Nat /\ i >= 1 /\ n + i \in 1..Len(in[at])
                                   /\ in'[at][i] = in[at][n + i]
    BY <2>4, <2>5
  <2>8. CASE at = "client"
    <3>1. /\ \A i \in 1..Len(buf') : buf'[i].t = "startup" => buf'[i].u \in User \union {""}
          /\ \A i \in 1..Len(in'["client"]) :
                in'["client"][i].t = "startup" => in'["client"][i].u \in User \union {""}
      BY <2>6, <2>7, <2>8 DEF Steady, Lists, Names
    <3>2. "client" \notin Backend /\ \A b \in Backend : in'[b] = in[b]
      BY <2>3, <2>8 DEF Peer, Backend
    <3>3. Lists' BY <1>1, <2>8, <3>1, <3>2 DEF Steady, Lists, Names
    <3>4. Told' BY <1>1, <2>8, <3>2 DEF Steady, Told, About
    <3>5. Phases' BY <1>1, <2>8, <3>2 DEF Steady, Phases, Unused, Backend
    <3>6. Patient'
      <4> SUFFICES ASSUME up["client"], ~hasty
                   PROVE  Patient'
        BY <1>1 DEF Patient
      <4>1. /\ heard = <<>> /\ Len(asked) <= 1
            /\ \A i \in 1..Len(in["client"]) :
                  Answerable(in["client"][i]) => i = Len(in["client"]) /\ asked # <<>>
        BY <1>1, <2>8 DEF Steady, Patient
      <4>2. ASSUME NEW i \in 1..Len(buf'), Answerable(buf'[i])
            PROVE  i = Len(buf') /\ in'["client"] = <<>> /\ asked # <<>>
        <5>1. i = Len(in["client"]) /\ asked # <<>> BY <2>6, <2>8, <4>1, <4>2
        <5>2. i <= n BY <2>4, <2>5
        <5>3. n = Len(in["client"]) BY <2>5, <2>8, <5>1, <5>2
        <5>4. Len(in'["client"]) = 0 BY <2>4, <2>5, <2>8, <5>3
        <5>5. in'["client"] \in Seq(Msg) BY <2>1, <2>2, <2>3, <2>8, Cut
        <5>6. in'["client"] = <<>> BY <5>4, <5>5, Empty
        <5> QED BY <2>4, <5>1, <5>3, <5>6
      <4>3. ASSUME NEW i \in 1..Len(in'["client"]), Answerable(in'["client"][i])
            PROVE  i = Len(in'["client"]) /\ asked # <<>>
        <5>1. n + i = Len(in["client"]) /\ asked # <<>> /\ i \in Nat BY <2>7, <2>8, <4>1, <4>3
        <5> QED BY <2>4, <2>5, <2>8, <5>1
      <4> QED BY <1>1, <2>8, <3>2, <4>1, <4>2, <4>3 DEF Patient, Answerable
    <3> QED BY <1>2, <3>3, <3>4, <3>5, <3>6 DEF Steady
  <2>9. CASE at \in Backend
    <3>1. in[at] \in Seq(FromBackend) /\ at # "client" /\ in'["client"] = in["client"]
      BY <2>2, <2>3, <2>9 DEF Peer, Backend
    <3>2. \A i \in 1..Len(buf') : buf'[i] \in FromBackend BY <2>6, <3>1
    <3>3. \A i \in 1..Len(buf') : buf'[i].t \notin {"p", "startup"} BY <3>2, Messages
    <3>4. Lists' BY <1>1, <2>9, <3>1, <3>3 DEF Steady, Lists, Names
    <3>5. Told' BY <1>1, <2>9, <3>3 DEF Steady, Told, About
    <3>6. Patient' BY <1>1, <2>9, <3>1 DEF Steady, Patient
    <3>7. Greeting(at) /\ lost[at] = <<>> BY <1>1, <2>9 DEF Steady, Phases
    <3>8. InGreeting(st[at], out[at], in'[at], buf')
      <4>1. InGreeting(st[at], out[at], in[at], <<>>) BY <1>4, <3>7 DEF Greeting
      <4> QED BY <1>4, <2>1, <2>3, <3>1, <4>1, Reading
    <3>9. /\ Greeting(at)' /\ (lost[at] = <<>>)' BY <1>1, <3>7, <3>8 DEF Greeting
    <3>10. /\ at = "reader" => Unused("writer")'
           /\ at = "writer" => Greeted("reader")'
      BY <1>1, <2>3 DEF Steady, Phases, Unused, Greeted, Only, Peer, Backend
    <3>11. Phases' BY <1>1, <2>9, <3>9, <3>10 DEF Phases, Backend
    <3> QED BY <1>2, <3>4, <3>5, <3>6, <3>11 DEF Steady
  <2> QED BY <2>2, <2>8, <2>9 DEF Peer
<1> QED BY <1>3, <1>4 DEF Recv

LEMMA ChooseSteady ==
    ASSUME Typed, Steady, Choose PROVE Steady'
<1>1. /\ pc = "choose" /\ at = "client" /\ buf = <<>> /\ pc' = "connect" /\ at' = "reader"
      /\ params' = [p \in Peer |-> params["client"]] /\ pwhash' = [p \in Peer |-> pwhash["client"]]
      /\ UNCHANGED <<buf, in, out, up, asked, hasty, heard, st, who, proved, lost>>
  BY DEF Choose, client, servers, ghosts, Steady, Phases
<1>2. /\ "client" \in Peer /\ params'["client"] = params["client"] /\ pwhash'["client"] = pwhash["client"]
      /\ \A p \in Peer : params'[p] = params["client"] /\ pwhash'[p] = pwhash["client"]
  BY <1>1 DEF Peer
<1>3. Unused("reader") /\ Unused("writer") BY <1>1 DEF Steady, Phases
<1>4. Len(buf') = 0 /\ 1..0 = {} BY <1>1, NoIndex
<1>5. Named' BY <1>2 DEF Steady, Named
<1>6. Proved' BY <1>1, <1>2 DEF Steady, Proved
<1>7. Lists' BY <1>1, <1>4 DEF Steady, Lists, Names
<1>8. Told'
  <2>1. \A b : About(buf, b)' BY <1>4 DEF About
  <2> QED BY <1>1, <2>1 DEF Steady, Told, About
<1>9. Phases' BY <1>1, <1>3 DEF Phases, Unused, Backend
<1>10. Patient' BY <1>1 DEF Steady, Patient
<1> QED BY <1>5, <1>6, <1>7, <1>8, <1>9, <1>10 DEF Steady

LEMMA ConnectSteady ==
    ASSUME Typed, Steady, Connect PROVE Steady'
<1>1. /\ pc = "connect" /\ at \in Backend /\ buf' = <<>> /\ pc' \in {"recv", "starved"}
      /\ up' = [up EXCEPT ![at] = TRUE] /\ st' = [st EXCEPT ![at] = "new"]
      /\ \/ out' = [out EXCEPT ![at] = <<Startup(params[at])>>]
         \/ out' = [out EXCEPT ![at] = <<Bare("partial")>>]
      /\ UNCHANGED <<at, params, pwhash, in, asked, hasty, heard, who, proved, lost>>
  BY DEF Connect, client, ghosts, Steady, Phases
<1>2. /\ out \in [Backend -> Seq(Msg)] /\ up \in [Peer -> BOOLEAN] /\ at # "client"
      /\ st \in [Backend -> {"none", "new", "md5", "idle", "refused", "denied"}]
      /\ params[at] \in Seq(User)
  BY <1>1 DEF Typed, TypeOK, Queues, Backend, Peer
<1>3. /\ up'["client"] = up["client"] /\ st'[at] = "new"
      /\ \A b \in Backend : b # at => out'[b] = out[b] /\ st'[b] = st[b]
  BY <1>1, <1>2 DEF Peer
<1>4. PICK m \in {Startup(params[at]), Bare("partial")} : out'[at] = <<m>> BY <1>1, <1>2
<1>5. Len(out'[at]) = 1 /\ \A i \in 1..Len(out'[at]) : out'[at][i] = m BY <1>4
<1>6. Unused(at) BY <1>1 DEF Steady, Phases
<1>7. Len(buf') = 0 /\ 1..0 = {} BY <1>1, NoIndex
<1>8. Named' /\ Proved'
  <2>1. UNCHANGED <<at, params, pwhash, proved>> /\ at \in Backend /\ at # "client" BY <1>1, <1>2
  <2> QED BY <2>1 DEF Steady, Named, Proved
<1>9. m.t = "startup" => m.u = params[at] BY <1>4 DEF Startup, Bare
<1>10. m.t # "p" BY <1>4 DEF Startup, Bare
<1>11. Lists'
  <2>1. \A b \in Backend : \A i \in 1..Len(out'[b]) :
          out'[b][i].t = "startup" => out'[b][i].u \in Seq(User)
    <3>1. \A i \in 1..Len(out'[at]) : out'[at][i].t = "startup" => out'[at][i].u \in Seq(User)
      BY <1>2, <1>5, <1>9
    <3> QED BY <1>3, <3>1 DEF Steady, Lists
  <2> QED BY <1>1, <1>7, <2>1 DEF Steady, Lists, Names
<1>12. Told'
  <2>1. NamedLast(params[at], proved) BY <1>1 DEF Steady, Proved, Typed, TypeOK
  <2>2. About(out'[at], at) BY <1>5, <1>9, <1>10, <2>1 DEF About
  <2>3. \A b \in Backend : About(out'[b], b) BY <1>3, <2>2 DEF Steady, Told
  <2>4. \A b \in Backend : st'[b] = "md5" => who[b] = proved BY <1>3 DEF Steady, Told
  <2>5. \A b \in Backend : st'[b] # "denied" BY <1>3 DEF Steady, Told
  <2>6. \A b : About(buf, b)' BY <1>7 DEF About
  <2> QED BY <1>1, <2>3, <2>4, <2>5, <2>6 DEF Steady, Told, About
<1>13. Phases'
  <2>1. in[at] = <<>> /\ lost[at] = <<>> /\ Len(in[at]) = 0 BY <1>6 DEF Unused
  <2>2. Greeting(at)'
    <3>1. \A i : i \notin 1..Len(buf') /\ i \notin 1..Len(in'[at]) BY <1>1, <1>7, <2>1
    <3> QED BY <1>1, <1>3, <1>5, <2>1, <3>1 DEF Greeting, InGreeting, No, Only
  <2>3. /\ at = "reader" => Unused("writer")'
        /\ at = "writer" => Greeted("reader")'
    BY <1>1, <1>3 DEF Steady, Phases, Unused, Greeted, Only, Backend
  <2> QED BY <1>1, <2>1, <2>2, <2>3 DEF Phases, Backend
<1>14. Patient' BY <1>1, <1>2, <1>3 DEF Steady, Patient
<1> QED BY <1>8, <1>11, <1>12, <1>13, <1>14 DEF Steady

LEMMA ConnectNoticeSteady ==
    ASSUME Typed, Steady, ConnectNotice PROVE Steady'
<1>1. /\ pc = "handle" /\ pc' = "recv" /\ at \in Backend
      /\ UNCHANGED <<at, buf, params, pwhash, in, out, up, asked, hasty, heard, st, who, proved, lost>>
  BY DEF ConnectNotice, Connecting, client, servers, ghosts
<1>2. Named' /\ Proved' BY <1>1 DEF Steady, Named, Proved
<1>3. Lists' /\ Told' BY <1>1 DEF Steady, Lists, Names, Told, About
<1>4. Phases' BY <1>1 DEF Steady, Phases, Unused, Greeted, Greeting, Only
<1>5. Patient' BY <1>1 DEF Steady, Patient, Answerable
<1> QED BY <1>2, <1>3, <1>4, <1>5 DEF Steady

\* A step of pgr_conn_connect that handles the first message of the buffer.
LEMMA Handling ==
    ASSUME Typed, Steady, at \in Backend, pc = "handle", pc' = "recv",
           UNCHANGED <<at, params, pwhash, in, up, asked, hasty, heard, st, who, proved, lost>>,
           \A b \in Backend : b # at => out'[b] = out[b],
           InGreeting(st[at], out'[at], in[at], buf')
    PROVE  Named' /\ Proved' /\ Phases' /\ Patient'
<1>1. Named' /\ Proved' BY DEF Steady, Named, Proved
<1>2. Greeting(at)' /\ lost[at] = <<>> BY DEF Greeting, Steady, Phases
<1>3. /\ at = "reader" => Unused("writer")'
      /\ at = "writer" => Greeted("reader")'
  BY DEF Steady, Phases, Unused, Greeted, Only, Backend
<1>4. Phases' BY <1>2, <1>3 DEF Phases, Backend
<1>5. Patient' BY DEF Steady, Patient, Backend
<1> QED BY <1>1, <1>4, <1>5

LEMMA ConnectSkipSteady ==
    ASSUME Typed, Steady, ConnectSkip PROVE Steady'
<1>1. /\ pc = "handle" /\ pc' = "recv" /\ at \in Backend /\ buf # <<>> /\ buf \in Seq(Msg)
      /\ buf' = Tail(buf)
      /\ UNCHANGED <<at, params, pwhash, in, out, up, asked, hasty, heard, st, who, proved, lost>>
  BY DEF ConnectSkip, Connecting, Skipped, client, servers, ghosts, Typed, TypeOK, Queues
<1>2. /\ \A i \in 1..Len(buf') : i \in Nat /\ i >= 1 /\ i + 1 \in 1..Len(buf) /\ buf'[i] = buf[i + 1]
      /\ Len(buf) \in Nat
  BY <1>1, FirstTaken
<1>3. InGreeting(st[at], out[at], in[at], buf) BY <1>1 DEF Steady, Phases, Greeting
<1>4. InGreeting(st[at], out[at], in[at], buf')
  <2>1. \A t : No(buf, t) => No(buf', t) BY <1>2 DEF No
  <2>2. No(in[at], "R5") BY <1>1, <1>3 DEF InGreeting, No
  <2>3. No(buf', "R5")
    <3>1. \A i \in 1..Len(buf) : buf[i].t = "R5" => i = 1 BY <1>3 DEF InGreeting
    <3>2. \A i \in Nat : i >= 1 => i + 1 # 1 OBVIOUS
    <3> QED BY <1>2, <3>1, <3>2 DEF No
  <2>4. ASSUME NEW i \in 1..Len(buf'), NEW j \in 1..Len(buf'), i < j, buf'[i].t = "Z"
        PROVE  buf'[j] = Bare("N")
    <3>1. i + 1 < j + 1 BY <1>2, <2>4
    <3> QED BY <1>2, <1>3, <2>4, <3>1 DEF InGreeting
  <2> QED BY <1>1, <1>3, <2>1, <2>2, <2>3, <2>4 DEF InGreeting, No
<1>5. Named' /\ Proved' /\ Phases' /\ Patient' BY <1>1, <1>4, Handling
<1>6. Lists' BY <1>1, <1>2 DEF Steady, Lists, Names, Backend
<1>7. Told' BY <1>1, <1>2 DEF Steady, Told, About
<1> QED BY <1>5, <1>6, <1>7 DEF Steady

LEMMA ConnectMd5Steady ==
    ASSUME Typed, Steady, ConnectMd5 PROVE Steady'
<1>1. /\ at \in Backend /\ pc = "handle" /\ buf # <<>> /\ buf[1].t = "R5" /\ pc' = "recv"
      /\ UNCHANGED <<at, params, pwhash, in, up, asked, hasty, heard, st, who, proved, lost>>
  BY Md5Is DEF client, servers, ghosts
<1>2. PICK x : x = Password(pwhash[at], at) OBVIOUS
<1>3. x \in Msg /\ x.t = "p" BY <1>2, Md5Is DEF Password
<1>4. PICK r : /\ r = Append(Tail(buf), x)
               /\ out' = [out EXCEPT ![at] = IF up[at] THEN Append(@, Head(r)) ELSE @]
               /\ buf' = Tail(r)
  BY <1>2, Md5Is
<1>5. buf \in Seq(Msg) /\ out \in [Backend -> Seq(Msg)] BY DEF Typed, Queues
<1>6. /\ Head(r) \in Msg /\ buf' \in Seq(Msg) /\ Len(buf) \in Nat \ {0}
      /\ Head(r) = x \/ \E i \in 1..Len(buf) : Head(r) = buf[i]
      /\ \A i \in 1..Len(buf') : buf'[i] = x \/ (i + 2 \in 1..Len(buf) /\ buf'[i] = buf[i + 2])
  <2>0. r = Append(Tail(buf), x) /\ buf \in Seq(Msg) /\ buf # <<>> /\ x \in Msg
    BY <1>1, <1>3, <1>4, <1>5
  <2>1. Head(r) \in Msg /\ Tail(r) \in Seq(Msg) /\ Len(buf) \in Nat \ {0} BY <2>0, Relayed
  <2>2. /\ Len(buf) = 1 => Head(r) = x
        /\ Len(buf) # 1 => 2 \in 1..Len(buf) /\ Head(r) = buf[2]
    BY <2>0, Relayed
  <2>3. \A i \in 1..Len(Tail(r)) :
           Tail(r)[i] = x \/ (i + 2 \in 1..Len(buf) /\ Tail(r)[i] = buf[i + 2])
    BY <2>0, Relayed
  <2> QED BY <1>4, <2>1, <2>2, <2>3
<1>7. InGreeting(st[at], out[at], in[at], buf) BY <1>1 DEF Steady, Phases, Greeting
<1>8. /\ st[at] = "md5" /\ out[at] = <<>> /\ No(buf, "Z") /\ No(in[at], "Z") /\ No(in[at], "R5")
      /\ \A i \in 1..Len(buf) : buf[i].t = "R5" => i = 1
  <2>1. ~No(buf, "R5") BY <1>1, <1>6 DEF No
  <2> QED BY <1>1, <1>7, <2>1 DEF InGreeting, No
<1>9. out'[at] \in {<<>>, <<Head(r)>>} /\ \A b \in Backend : b # at => out'[b] = out[b]
  <2>1. Append(<<>>, Head(r)) = <<Head(r)>> OBVIOUS
  <2> QED BY <1>1, <1>4, <1>5, <1>8, <2>1
<1>10. Len(out'[at]) <= 1 /\ \A i \in 1..Len(out'[at]) : out'[at][i] = Head(r)
  <2>1. CASE out'[at] = <<>> BY <2>1
  <2>2. CASE out'[at] = <<Head(r)>> BY <2>2
  <2> QED BY <1>9, <2>1, <2>2
<1>11. No(buf', "Z") /\ No(buf', "R5")
  <2> SUFFICES ASSUME NEW i \in 1..Len(buf') PROVE buf'[i].t # "Z" /\ buf'[i].t # "R5" BY DEF No
  <2>1. CASE buf'[i] = x BY <1>3, <2>1
  <2>2. CASE i + 2 \in 1..Len(buf) /\ buf'[i] = buf[i + 2]
    <3>1. i \in Nat /\ i >= 1 BY <1>6
    <3>2. i + 2 # 1 BY <3>1
    <3> QED BY <1>8, <2>2, <3>2 DEF No
  <2> QED BY <1>6, <2>1, <2>2
<1>12. InGreeting(st[at], out'[at], in[at], buf')
  BY <1>7, <1>8, <1>10, <1>11 DEF InGreeting, No
<1>13. Named' /\ Proved' /\ Phases' /\ Patient' BY <1>1, <1>9, <1>12, Handling
<1>14. /\ \A i \in 1..Len(buf) : buf[i].t # "startup" /\ (buf[i].t = "p" => buf[i] = Password(proved, at))
       /\ x = Password(proved, at)
  <2>1. proved # None /\ proved \in Known /\ NamedLast(params["client"], proved)
        /\ pwhash[at] = pwhash["client"]
    BY <1>1 DEF Steady, Proved, Typed, TypeOK
  <2>2. proved \in User BY <2>1, ConnAssumption
  <2>3. pwhash[at] = proved BY <2>1, <2>2 DEF Steady, Named, Lookup
  <2> QED BY <1>1, <1>2, <2>3 DEF Steady, Lists, Told, About
<1>15. /\ Head(r).t # "startup" /\ (Head(r).t = "p" => Head(r) = Password(proved, at))
       /\ \A i \in 1..Len(buf') : /\ buf'[i].t # "startup"
                                  /\ buf'[i].t = "p" => buf'[i] = Password(proved, at)
  BY <1>3, <1>6, <1>14
<1>16. Lists'
  <2>1. \A b \in Backend : \A i \in 1..Len(out'[b]) :
          out'[b][i].t = "startup" => out'[b][i].u \in Seq(User)
    BY <1>9, <1>10, <1>15 DEF Steady, Lists
  <2>2. at # "client" BY <1>1 DEF Backend
  <2> QED BY <1>1, <1>15, <2>1, <2>2 DEF Steady, Lists, Names
<1>17. Told'
  <2>1. About(out'[at], at) BY <1>10, <1>15 DEF About
  <2>2. \A b \in Backend : About(out'[b], b) BY <1>9, <2>1 DEF Steady, Told
  <2>3. About(buf', at) BY <1>15 DEF About
  <2> QED BY <1>1, <2>2, <2>3 DEF Steady, Told, About
<1> QED BY <1>13, <1>16, <1>17 DEF Steady

LEMMA ConnectReadySteady ==
    ASSUME Typed, Steady, ConnectReady PROVE Steady'
<1>1. /\ pc = "handle" /\ at \in Backend /\ Head(buf).t = "Z" /\ buf # <<>>
      /\ lost' = [lost EXCEPT ![at] = Tail(buf)] /\ buf' = <<>> /\ at' = "writer"
      /\ pc' = (IF at = "reader" THEN "connect" ELSE "session")
      /\ UNCHANGED <<params, pwhash, in, out, up, asked, hasty, heard, st, who, proved>>
  BY DEF ConnectReady, EndsHandshake, client, servers, Typed, TypeOK
<1>2. buf \in Seq(Msg) /\ lost \in [Backend -> Seq(Msg)] BY DEF Typed, Queues
<1>3. /\ buf[1].t = "Z" /\ 1 \in 1..Len(buf) /\ Len(buf) \in Nat
      /\ \A i \in 1..Len(Tail(buf)) : i \in Nat /\ i >= 1 /\ Tail(buf)[i] = buf[i + 1] /\ i + 1 \in 1..Len(buf)
  BY <1>1, <1>2, FirstTaken
<1>4. InGreeting(st[at], out[at], in[at], buf) BY <1>1 DEF Steady, Phases, Greeting
<1>5. /\ st[at] = "idle" /\ out[at] = <<>> /\ Only(in[at], "N")
      /\ \A i, j \in 1..Len(buf) : i < j /\ buf[i].t = "Z" => buf[j] = Bare("N")
  <2>1. ~No(buf, "Z") BY <1>3 DEF No
  <2> QED BY <1>4, <2>1 DEF InGreeting
<1>6. Only(Tail(buf), "N")
  <2>1. \A i \in Nat : i >= 1 => 1 < i + 1 OBVIOUS
  <2> QED BY <1>3, <1>5, <2>1 DEF Only
<1>7. lost'[at] = Tail(buf) /\ \A b \in Backend : b # at => lost'[b] = lost[b] BY <1>1, <1>2
<1>8. /\ st'[at] = "idle" /\ out'[at] = <<>> /\ Only(in'[at], "N") /\ Only(lost'[at], "N")
  BY <1>1, <1>5, <1>6, <1>7
<1>9. Greeted("reader")'
  <2>1. CASE at = "reader" BY <1>8, <2>1 DEF Greeted, Only
  <2>2. CASE at = "writer" BY <1>1, <1>7, <2>2 DEF Steady, Phases, Greeted, Only, Backend
  <2> QED BY <1>1, <2>1, <2>2 DEF Backend
<1>10. /\ at = "reader" => Unused("writer")'
       /\ at = "writer" => Greeted("writer")'
  <2>1. at = "reader" => Unused("writer")' BY <1>1, <1>7 DEF Steady, Phases, Unused, Backend
  <2>2. at = "writer" => Greeted("writer")' BY <1>8 DEF Greeted, Only
  <2> QED BY <2>1, <2>2
<1>11. Phases' BY <1>1, <1>9, <1>10 DEF Phases, Backend
<1>12. Named' BY <1>1 DEF Steady, Named
<1>13. Proved' BY <1>1 DEF Steady, Proved, Backend
<1>14. Len(buf') = 0 /\ 1..0 = {} BY <1>1, NoIndex
<1>15. Lists' BY <1>1, <1>14 DEF Steady, Lists, Names
<1>16. Told'
  <2>1. \A b : About(buf, b)' BY <1>14 DEF About
  <2> QED BY <1>1, <2>1 DEF Steady, Told, About
<1>17. Patient' BY <1>1 DEF Steady, Patient, Backend
<1> QED BY <1>11, <1>12, <1>13, <1>15, <1>16, <1>17 DEF Steady
-----------------------------------------------------------------------------
(* The theorems. *)

LEMMA InitHolds == Init => IInv
<1> SUFFICES ASSUME Init PROVE IInv OBVIOUS
<1>1. /\ Peer = {"reader", "writer", "client"} /\ Backend = {"reader", "writer"}
      /\ <<>> \in Seq(User) /\ <<>> \in Seq(User \union {""}) /\ <<>> \in Seq(Msg)
      /\ <<>> \in Seq(FromBackend) /\ <<>> \in Seq({"R0", "Z", "E"}) /\ Len(<<>>) = 0
  BY DEF Peer, Backend
<1>2. 0 \in 0..MaxMsgs /\ 1..0 = {}
  <2>1. MaxMsgs \in Nat BY ConnAssumption
  <2>2. 0 \in 0..MaxMsgs BY <2>1
  <2> QED BY <2>2, NoIndex
<1>3. TypeOK BY <1>1, <1>2 DEF Init, TypeOK, PC
<1>4. Queues BY <1>1 DEF Init, Queues
<1>5. Named BY <1>1 DEF Init, Named, NamedLast
<1>6. Proved BY <1>1 DEF Init, Proved
<1>7. Lists BY <1>1, <1>2 DEF Init, Lists, Names
<1>8. Told
  <2>1. \A b \in Backend : Len(out[b]) = 0 BY <1>1 DEF Init
  <2>2. \A b \in Backend : About(out[b], b) BY <1>2, <2>1 DEF About
  <2> QED BY <1>1, <2>2 DEF Init, Told
<1>9. Phases BY <1>1 DEF Init, Phases, Unused
<1>10. Patient BY <1>1, <1>2 DEF Init, Patient
<1> QED BY <1>3, <1>4, <1>5, <1>6, <1>7, <1>8, <1>9, <1>10 DEF IInv, Typed

LEMMA WorkerKeeps == ASSUME Typed, Steady, Worker PROVE Typed' /\ Steady'
<1>0. Lists BY DEF Steady
<1>1. CASE Recv BY <1>1, RecvTyped, RecvSteady
<1>2. CASE Quits BY <1>2, QuitsLeaves, LeavesTyped, LeavesSteady
<1>3. CASE AcceptSsl BY <1>3, AcceptSslTyped, AcceptSslSteady
<1>4. CASE AcceptCancel BY <1>4, AcceptCancelTyped, AcceptCancelSteady
<1>5. CASE AcceptStartup BY <1>0, <1>5, AcceptStartupTyped, AcceptStartupSteady
<1>6. CASE AcceptPassword BY <1>6, AcceptPasswordTyped, AcceptPasswordSteady
<1>7. CASE AcceptRefuse BY <1>7, AcceptRefuseTyped, AcceptRefuseSteady
<1>8. CASE Greet BY <1>8, GreetTyped, GreetSteady
<1>9. CASE Choose BY <1>9, ChooseTyped, ChooseSteady
<1>10. CASE Connect
  <2>1. at \in Backend BY <1>10 DEF Connect, Steady, Phases
  <2> QED BY <1>10, <2>1, ConnectTyped, ConnectSteady
<1>11. CASE ConnectNotice BY <1>11, ConnectNoticeTyped, ConnectNoticeSteady
<1>12. CASE ConnectSkip BY <1>12, ConnectSkipTyped, ConnectSkipSteady
<1>13. CASE ConnectMd5 BY <1>13, ConnectMd5Typed, ConnectMd5Steady
<1>14. CASE ConnectReady BY <1>14, ConnectReadyTyped, ConnectReadySteady
<1> QED
  BY <1>1, <1>2, <1>3, <1>4, <1>5, <1>6, <1>7, <1>8, <1>9, <1>10, <1>11, <1>12, <1>13, <1>14
  DEF Worker, Accept, ConnectPhase, Quits

LEMMA StutterKeeps == ASSUME IInv, UNCHANGED vars PROVE IInv'
<1> USE DEF vars, worker, client, servers, ghosts
<1>1. TypeOK' BY DEF IInv, Typed, TypeOK
<1>2. Queues' BY DEF IInv, Typed, Queues
<1>3. Named' /\ Proved' BY DEF IInv, Named, Proved
<1>4. Lists' /\ Told' BY DEF IInv, Lists, Names, Told, About
<1>5. Phases' BY DEF IInv, Phases, Unused, Greeted, Greeting, Only
<1>6. Patient' BY DEF IInv, Patient, Answerable
<1> QED BY <1>1, <1>2, <1>3, <1>4, <1>5, <1>6 DEF IInv, Typed

LEMMA NextKeeps == IInv /\ [Next]_vars => IInv'
<1> SUFFICES ASSUME IInv, [Next]_vars PROVE IInv' OBVIOUS
<1>1. Typed /\ Steady BY DEF IInv, Steady
<1>2. CASE UNCHANGED vars BY <1>2, StutterKeeps
<1>3. CASE Worker BY <1>1, <1>3, WorkerKeeps DEF IInv, Steady
<1>4. ASSUME NEW m \in ClientMsg, ClientSend(m) PROVE IInv'
  BY <1>1, <1>4, ClientSendTyped, ClientSendSteady DEF IInv, Steady
<1>5. ASSUME NEW b \in Backend, BackendStep(b) \/ BackendNotice(b) PROVE IInv'
  <2>1. BackendDoes(b) BY <1>1, <1>5, BackendSteps DEF Steady
  <2> QED BY <1>1, <2>1, BackendTyped, BackendSteady DEF IInv, Steady
<1>6. ASSUME NEW p \in Peer, Vanish(p) PROVE IInv'
  BY <1>1, <1>6, VanishTyped, VanishSteady DEF IInv, Steady
<1> QED BY <1>2, <1>3, <1>4, <1>5, <1>6 DEF Next

LEMMA Inductive == Spec => []IInv
BY InitHolds, NextKeeps, PTL DEF Spec

\* Whatever a client sends and in whatever order, a backend is only asked to
\* serve the user whose password pgr_conn_accept has checked, and the password
\* that pgr_conn_connect sends it is the one it expects; for any users, any
\* number of messages, and peers that vanish at any time.
THEOREM IdentityProved == Spec => []ConnInv
<1>1. IInv => ConnInv
  <2> SUFFICES ASSUME IInv PROVE ConnInv OBVIOUS
  <2>1. TypeOK BY DEF IInv, Typed
  <2>2. IdentityKept BY DEF IInv, Told, IdentityKept
  <2>3. NotDenied BY DEF IInv, Told, NotDenied
  <2> QED BY <2>1, <2>2, <2>3 DEF ConnInv
<1> QED BY <1>1, Inductive, PTL

\* The message loop of handle_client starts with two idle backends that have
\* nothing pending but notices, and a client that waits for its answers has been
\* told AuthenticationOk and ReadyForQuery once each.
THEOREM SessionStartsClean == Spec => []HandOver
<1>1. IInv => HandOver
  <2> SUFFICES ASSUME IInv, pc = "session" PROVE HandOver BY DEF HandOver
  <2>1. at = "writer" /\ Greeted("reader") /\ Greeted("writer") BY DEF IInv, Phases
  <2>2. ASSUME NEW b \in Backend
        PROVE  /\ st[b] = "idle" /\ out[b] = <<>>
               /\ Elements(in[b]) \union Elements(lost[b]) \subseteq {Bare("N")}
    <3>1. Greeted(b) BY <2>1 DEF Backend
    <3>2. in[b] \in Seq(FromBackend) /\ lost[b] \in Seq(Msg) BY DEF IInv, Typed, Queues
    <3>3. DOMAIN in[b] = 1..Len(in[b]) /\ DOMAIN lost[b] = 1..Len(lost[b]) BY <3>2
    <3> QED BY <3>1, <3>3 DEF Greeted, Only, Elements
  <2>3. up["client"] /\ ~hasty => heard = <<"R0", "Z">> BY <2>1 DEF IInv, Patient, Backend
  <2> QED BY <2>2, <2>3 DEF HandOver
<1> QED BY <1>1, Inductive, PTL
=====
