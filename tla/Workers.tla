------------------------------ MODULE Workers ------------------------------
(***************************************************************************)
(* The sockets of the router: how main and src/net.c open the listening    *)
(* ones, how the workers (do_worker, src/worker.c) and the monitor take    *)
(* connections from them, and which descriptors a session opens and        *)
(* closes.  All threads share the descriptors of the process; a new one is *)
(* the lowest number that is free.  The watcher's connections to backends  *)
(* and the file a reload reads are in the same table.                      *)
(*                                                                         *)
(* What a session says on its connections is left to Conn and Session, and *)
(* the locks and the counter of clients to Context.  A step is one system  *)
(* call, with the code up to the next one.                                 *)
(***************************************************************************)
EXTENDS Integers, Sequences, FiniteSets

CONSTANTS Worker,     \* the worker threads
          Other,      \* the threads with one descriptor at a time: the monitor,
                      \* the watcher and the supervisor that reloads
          Client,     \* the clients, each of which connects once
          Endpoints,  \* what the listen statement may say
          MaxFd,      \* descriptors the process may have open
          MaxCache    \* bound: cache files at a time

None == -1
Fd   == 0..(MaxFd - 1)

Host == {"any", "v4", "v6", "name"}

ASSUME WorkersAssumption ==
    /\ MaxFd \in Nat /\ MaxFd >= 3 /\ MaxCache \in Nat
    /\ Endpoints \subseteq [host : Host, port : {"number", "text", "missing"}]

VARIABLES
    up,       \* "boot", "run" or "aborted"
    watch,    \* the listening sockets of the frontend, in the order of watch[]
    fds,      \* what each descriptor number stands for
    queue,    \* connections that wait to be accepted, for each socket
    pc,       \* what each worker is doing
    todo,     \* the sockets select found ready that it has not dealt with
    connfd,   \* its local connfd
    back,     \* the descriptors of reader and writer
    cl,       \* the client it has accepted
    cachefd,  \* the file of its fe
    closing,  \* the descriptors it is about to close
    held,     \* the descriptor of each thread that is not a worker
    accepted  \* history: the clients that were accepted

socks   == <<watch, fds, queue>>
locals  == <<pc, todo, connfd, back, cl, cachefd, closing>>
vars    == <<up, socks, locals, held, accepted>>

Free      == <<"free">>
Listen(s) == <<"listen", s>>
Conn(c)   == <<"client", c>>
Cache     == <<"cache">>
Link      == <<"backend">>
Own(t)    == <<"own", t>>

\* The number a system call that opens a descriptor returns: the lowest one
\* that is free, or -1 if there is none.
Lowest ==
    IF \A n \in Fd : fds[n] # Free THEN None
    ELSE CHOOSE n \in Fd : fds[n] = Free /\ \A k \in Fd : k < n => fds[k] # Free

\* close(n) does nothing to a number that is not open.
Closed(n) == [fds EXCEPT ![n] = Free]
Opened(n, o) == [fds EXCEPT ![n] = o]

\* The element x of a list that is there only if ok.
Given(x, ok) == IF ok THEN <<x>> ELSE <<>>

\* The listening sockets of the frontend.
Watched == {watch[i] : i \in 1..Len(watch)}

-----------------------------------------------------------------------------
(* The listening sockets. *)

\* getport(): what follows the first colon has to be digits; an IPv6 address has
\* more colons.
HasPort(ep) == ep.port = "number" /\ ep.host # "v6"

\* ipv4_endpoint(), and ipv6_endpoint(), which does not look at what
\* ipv6_hostport returns; the address is then still zero, which is any.  Without
\* a colon gethost runs over the end of the string: there is no address, or no
\* process.
Address4(ep) == IF HasPort(ep) /\ ep.host \in {"any", "v4"} THEN {<<"4", ep.host>>} ELSE {}
Address6(ep) == IF HasPort(ep) THEN {<<"6", "any">>} ELSE {}

\* main(): pgr_listen4 and pgr_listen6 for the frontend, of which one has to
\* succeed, and the same for the monitor, whose sockets count as one here.  Each
\* may fail in socket, bind or listen.
Boot(ep, fails) ==
    /\ up = "boot"
    /\ LET bound == {a[1] : a \in Address4(ep) \union Address6(ep)} \ fails
           front == Given("4", "4" \in bound) \o Given("6", "6" \in bound)
           all   == Append(front, "m")
       IN IF front = <<>> \/ "m" \in fails
          THEN up' = "aborted" /\ UNCHANGED <<watch, fds>>
          ELSE /\ up' = "run"
               /\ watch' = front
               /\ fds' = [n \in Fd |-> IF n < Len(all) THEN Listen(all[n + 1]) ELSE Free]
    /\ UNCHANGED <<queue, locals, held, accepted>>

\* Client c is connected and not accepted yet.
Waits(c) == \E s \in {"4", "6"} : \E i \in 1..Len(queue[s]) : queue[s][i] = c

\* A client connects to one of the sockets.
Arrive(c, s) ==
    /\ up = "run" /\ s \in Watched
    /\ c \notin accepted /\ ~Waits(c)
    /\ queue' = [queue EXCEPT ![s] = Append(@, c)]
    /\ UNCHANGED <<up, watch, fds, locals, held, accepted>>

-----------------------------------------------------------------------------
(* A worker. *)

Goto(w, p) == pc' = [pc EXCEPT ![w] = p]

\* The loop over watch[] goes on with the sockets that are left.
Resume(rest) == IF rest = <<>> THEN "select" ELSE "accept"

\* Mutant: only the first socket is looked at.
ReadyFirst == IF watch # <<>> /\ queue[watch[1]] # <<>> THEN <<watch[1]>> ELSE <<>>

\* The sockets select reports, in the order in which they are then visited, that
\* of watch[].
Readable(s) == s \in Watched /\ queue[s] # <<>>
Ready == Given("4", Readable("4")) \o Given("6", Readable("6"))

Select(w) ==
    /\ up = "run" /\ pc[w] = "select" /\ Ready # <<>>
    /\ todo' = [todo EXCEPT ![w] = Ready]
    /\ Goto(w, "accept")
    /\ UNCHANGED <<up, socks, connfd, back, cl, cachefd, closing, held, accepted>>

\* accept() of the next socket that was ready: waits if another worker has taken
\* the connection meanwhile.
Accept(w) ==
    /\ pc[w] = "accept" /\ Lowest # None
    /\ LET s == Head(todo[w])
       IN /\ queue[s] # <<>>
          /\ queue' = [queue EXCEPT ![s] = Tail(@)]
          /\ fds' = Opened(Lowest, Conn(Head(queue[s])))
          /\ connfd' = [connfd EXCEPT ![w] = Lowest]
          /\ cl' = [cl EXCEPT ![w] = {Head(queue[s])}]
          /\ accepted' = accepted \union {Head(queue[s])}
    /\ todo' = [todo EXCEPT ![w] = Tail(@)]
    /\ Goto(w, "greet")
    /\ UNCHANGED <<up, watch, back, cachefd, closing, held>>

\* accept() fails for want of a descriptor: connfd is -1, handle_client gives up
\* at its first read, and the closes of -1 have no effect.
AcceptFails(w) ==
    /\ pc[w] = "accept" /\ Lowest = None
    /\ todo' = [todo EXCEPT ![w] = Tail(@)]
    /\ Goto(w, Resume(Tail(todo[w])))
    /\ UNCHANGED <<up, socks, connfd, back, cl, cachefd, closing, held, accepted>>

\* Mutant: the second close of do_worker is given the listening socket.
ToCloseListener(b, n) ==
    Given(b[1], b[1] # None) \o Given(b[2], b[2] # None) \o <<n, 0>>

\* What is closed at the end of a session with backends b and client n:
\* handle_client closes reader, writer and frontend, and do_worker the frontend
\* again.
ToClose(b, n) ==
    Given(b[1], b[1] # None) \o Given(b[2], b[2] # None) \o <<n, n>>

\* A session that has the client's connection, and those that follow from it.
InSession(w) == pc[w] \in {"greet", "reader", "writer", "warm", "loop"}

\* handle_client goes to its label shutdown: the handshake with the client or a
\* backend fails, or the message loop ends.  Nobody closes the file of fe, whose
\* number is forgotten.
Leave(w) ==
    /\ InSession(w)
    /\ closing' = [closing EXCEPT ![w] = ToClose(back[w], connfd[w])]
    /\ cachefd' = [cachefd EXCEPT ![w] = None]
    /\ Goto(w, "close")
    /\ UNCHANGED <<up, socks, todo, connfd, back, cl, held, accepted>>

\* pgr_connect() makes a socket: for the reader, when the handshake with the
\* client has succeeded, and for the writer, when the one with the reader has.
Dial(w) ==
    /\ pc[w] \in {"greet", "reader"} /\ Lowest # None
    /\ fds' = Opened(Lowest, Link)
    /\ back' = [back EXCEPT ![w][IF pc[w] = "greet" THEN 1 ELSE 2] = Lowest]
    /\ Goto(w, IF pc[w] = "greet" THEN "reader" ELSE "writer")
    /\ UNCHANGED <<up, watch, queue, todo, connfd, cl, cachefd, closing, held, accepted>>

\* Mutant: the socket is left open.
LeftOpen(n) == fds

\* pgr_connect closes the socket it has made when connect fails.
HungUp(n) == Closed(n)

\* connect() fails, and pgr_connect returns -1.
DialFails(w) ==
    /\ pc[w] \in {"reader", "writer"}
    /\ LET k == IF pc[w] = "reader" THEN 1 ELSE 2
       IN /\ fds' = HungUp(back[w][k])
          /\ back' = [back EXCEPT ![w][k] = None]
          /\ closing' = [closing EXCEPT ![w] = ToClose(back'[w], connfd[w])]
    /\ Goto(w, "close")
    /\ UNCHANGED <<up, watch, queue, todo, connfd, cl, cachefd, held, accepted>>

\* pgr_mbuf_send warms up the cache of fe for a message it cannot hold.
WarmUp(w) ==
    /\ Cardinality({n \in Fd : fds[n] = Cache}) < MaxCache
    /\ pc[w] \in {"writer", "loop"} /\ Lowest # None
    /\ fds' = Opened(Lowest, Cache)
    /\ cachefd' = [cachefd EXCEPT ![w] = Lowest]
    /\ Goto(w, "warm")
    /\ UNCHANGED <<up, watch, queue, todo, connfd, back, cl, closing, held, accepted>>

\* pgr_mbuf_reset(fe), after a redirect, closes the file by its number.
Reset(w) ==
    /\ pc[w] = "warm"
    /\ fds' = Closed(cachefd[w])
    /\ cachefd' = [cachefd EXCEPT ![w] = None]
    /\ Goto(w, "loop")
    /\ UNCHANGED <<up, watch, queue, todo, connfd, back, cl, closing, held, accepted>>

\* One close() after the other; after the last, the next socket that was ready,
\* or select.
Close(w) ==
    /\ pc[w] = "close"
    /\ fds' = Closed(Head(closing[w]))
    /\ closing' = [closing EXCEPT ![w] = Tail(@)]
    /\ IF Len(closing[w]) > 1
       THEN UNCHANGED <<pc, connfd, back, cl>>
       ELSE /\ connfd' = [connfd EXCEPT ![w] = None]
            /\ back' = [back EXCEPT ![w] = <<None, None>>]
            /\ cl' = [cl EXCEPT ![w] = {}]
            /\ Goto(w, Resume(todo[w]))
    /\ UNCHANGED <<up, watch, queue, todo, cachefd, held, accepted>>

-----------------------------------------------------------------------------
(* The other threads. *)

\* The monitor accepts a connection (do_monitor), the watcher connects to one
\* backend after the other (PQconnectdb), and a reload opens the configuration
\* (pgr_configure).  Without a free number they go on without one.
Open(t) ==
    /\ up = "run" /\ held[t] = None /\ Lowest # None
    /\ fds' = Opened(Lowest, Own(t))
    /\ held' = [held EXCEPT ![t] = Lowest]
    /\ UNCHANGED <<up, watch, queue, locals, accepted>>

\* Each closes what it has opened before it opens the next one: close, PQfinish,
\* fclose.
Done(t) ==
    /\ held[t] # None
    /\ fds' = Closed(held[t])
    /\ held' = [held EXCEPT ![t] = None]
    /\ UNCHANGED <<up, watch, queue, locals, accepted>>

-----------------------------------------------------------------------------
Init ==
    /\ up = "boot" /\ watch = <<>> /\ fds = [n \in Fd |-> Free]
    /\ queue = [s \in {"4", "6"} |-> <<>>]
    /\ pc = [w \in Worker |-> "select"] /\ todo = [w \in Worker |-> <<>>]
    /\ connfd = [w \in Worker |-> None] /\ back = [w \in Worker |-> <<None, None>>]
    /\ cl = [w \in Worker |-> {}] /\ closing = [w \in Worker |-> <<>>]
    /\ cachefd = [w \in Worker |-> None]
    /\ held = [t \in Other |-> None] /\ accepted = {}

\* What a worker does without anybody's help, and what its session may do.
Work(w) == Select(w) \/ Accept(w) \/ AcceptFails(w) \/ Close(w)
Serve(w) == Dial(w) \/ DialFails(w) \/ WarmUp(w) \/ Reset(w) \/ Leave(w)

Next ==
    \/ \E ep \in Endpoints, fails \in SUBSET {"4", "6", "m"} : Boot(ep, fails)
    \/ \E c \in Client, s \in {"4", "6"} : Arrive(c, s)
    \/ \E w \in Worker : Work(w) \/ Serve(w)
    \/ \E t \in Other : Open(t) \/ Done(t)

\* Threads run; how long a session lasts is up to its client.
Fairness == \A w \in Worker : WF_vars(Work(w))
Spec     == Init /\ [][Next]_vars /\ Fairness

-----------------------------------------------------------------------------
(* Properties. *)

Object == {Free, Cache, Link} \union {Own(t) : t \in Other}
            \union {Listen(s) : s \in {"4", "6", "m"}} \union {Conn(c) : c \in Client}

\* Descriptors are numbers the process may have, and what the workers remember
\* of them is consistent with where they are.
TypeOK ==
    /\ up \in {"boot", "run", "aborted"}
    /\ fds \in [Fd -> Object]
    /\ \A w \in Worker :
          /\ connfd[w] \in Fd \union {None} /\ back[w][1] \in Fd \union {None}
          /\ back[w][2] \in Fd \union {None}
          /\ pc[w] = "select" => todo[w] = <<>> /\ cl[w] = {}
          /\ pc[w] = "accept" => todo[w] # <<>>
          /\ pc[w] \in {"reader", "writer", "warm", "loop"} => back[w][1] # None
          /\ cachefd[w] \in IF pc[w] = "warm" THEN Fd ELSE {None}
    /\ held \in [Other -> Fd \union {None}]

\* Whatever numbers are closed twice or reused: no thread ever closes a
\* listening socket.
ListenersStay ==
    up = "run" =>
        \A s \in Watched \union {"m"} : \E n \in Fd : fds[n] = Listen(s)

\* The descriptors of the workers are typed, agree with where the workers are,
\* and are never those of a listening socket.
WorkersInv == TypeOK /\ ListenersStay

AtRest ==
    /\ \A t \in Other : held[t] = None
    /\ \A w \in Worker : pc[w] \in {"select", "accept"}

\* When no session is going on, the descriptors of all sessions, of the watcher,
\* the monitor and the reload are closed, on every path through the handshake and
\* however numbers were reused, except the cache files.
NothingLeaks ==
    AtRest => \A n \in Fd : fds[n][1] \in {"free", "listen", "cache"}

\* The same without that exception.
NoCacheLeaks == AtRest => \A n \in Fd : fds[n] # Cache

\* A worker that waits in accept for a connection another worker has taken.
Misled(w) == pc[w] = "accept" /\ queue[Head(todo[w])] = <<>>

\* A connection is accepted, unless every worker has a session or was misled, or
\* the process has no descriptor left.
Served ==
    \A c \in Client :
        Waits(c)
            ~> \/ c \in accepted \/ Lowest = None
               \/ \A w \in Worker : Misled(w) \/ InSession(w)

\* No worker is misled while a client waits at the other socket.
NeverMisled ==
    \A w \in Worker : Misled(w) => \A s \in {"4", "6"} : queue[s] = <<>>

\* A session talks to the client it has accepted and to nobody else.
OwnDescriptor ==
    \A w \in Worker :
        InSession(w) => \A c \in cl[w] : fds[connfd[w]] = Conn(c)

\* The frontend listens on no address but the one the configuration names.
BindsAsAsked ==
    \A ep \in Endpoints : \A a \in Address4(ep) \union Address6(ep) : a[2] = ep.host
=============================================================================
