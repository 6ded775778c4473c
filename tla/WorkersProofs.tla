---------------------------- MODULE WorkersProofs ----------------------------
(***************************************************************************)
(* Proofs about the descriptors of the router, for any number of workers   *)
(* and clients and a table of any size: no thread closes a listening       *)
(* socket, and the sessions leave no socket open, although the client's    *)
(* descriptor is closed twice and its number may be in use again.          *)
(***************************************************************************)
EXTENDS Workers, WellFoundedInduction, TLAPS

Port  == {"4", "6"}
MayFd == Fd \union {None}
Place == {"select", "accept", "greet", "reader", "writer", "warm", "loop", "close"}

Typed ==
    /\ up \in {"boot", "run", "aborted"} /\ fds \in [Fd -> Object]
    /\ queue \in [Port -> Seq(Client)]
    /\ pc \in [Worker -> Place] /\ todo \in [Worker -> Seq(Port)]
    /\ connfd \in [Worker -> MayFd] /\ back \in [Worker -> MayFd \X MayFd]
    /\ cl \in [Worker -> SUBSET Client] /\ closing \in [Worker -> Seq(Fd)]
    /\ cachefd \in [Worker -> MayFd] /\ held \in [Other -> MayFd]

\* What a worker knows at each place.
Placed ==
    \A w \in Worker :
        /\ pc[w] = "select" => todo[w] = <<>>
        /\ pc[w] \in {"select", "accept"} => cl[w] = {}
        /\ pc[w] = "accept" => todo[w] # <<>>
        /\ pc[w] \in {"select", "accept", "greet"} => back[w][1] = None
        /\ pc[w] \in {"select", "accept", "greet", "reader"} => back[w][2] = None
        /\ pc[w] \in {"reader", "writer", "warm", "loop"} => back[w][1] \in Fd
        /\ pc[w] \in {"writer", "warm", "loop"} => back[w][2] \in Fd
        /\ pc[w] = "warm" => cachefd[w] \in Fd
        /\ pc[w] # "warm" => cachefd[w] = None
        /\ InSession(w) => connfd[w] \in Fd
        /\ pc[w] = "close" => closing[w] # <<>>

\* k is in the list s.
In(k, s) == \E i \in 1..Len(s) : s[i] = k

\* A number that worker w will yet close.
Holds(w, n) ==
    \/ InSession(w) /\ n \in {connfd[w], back[w][1], back[w][2]}
    \/ pc[w] = "close" /\ In(n, closing[w])

\* Nobody has anything to close before the sockets are bound.
Unborn ==
    up = "boot" =>
        (\A t \in Other : held[t] = None) /\ (\A w \in Worker : pc[w] = "select")

\* The numbers that will be closed are not those of the listening sockets.
Apart ==
    /\ \A w \in Worker, n \in Fd : Holds(w, n) => fds[n][1] # "listen"
    /\ \A w \in Worker : cachefd[w] # None => fds[cachefd[w]][1] # "listen"
    /\ \A t \in Other : held[t] # None => fds[held[t]][1] # "listen"

\* Every socket of a session or another thread is going to be closed by somebody,
\* if not by the one that opened it.
Owned ==
    \A n \in Fd :
        fds[n][1] \in {"client", "backend", "own"} =>
            (\E t \in Other : held[t] = n) \/ (\E w \in Worker : Holds(w, n))

IInv == Typed /\ Placed /\ Unborn /\ ListenersStay /\ Apart /\ Owned
-----------------------------------------------------------------------------
(* The system calls. *)

\* A nonempty set of natural numbers has a least element.
LEMMA Least ==
    ASSUME NEW T \in SUBSET Nat, T # {}
    PROVE  \E x \in T : \A y \in T : ~(y < x)
<1>1. \E x \in T : \A y \in T : ~(<<y, x>> \in OpToRel(<, Nat))
  BY NatLessThanWellFounded, WFMin
<1> QED BY <1>1 DEF OpToRel

\* A system call that opens a descriptor returns one that is free.
LEMMA LowestIsFree ==
    ASSUME Lowest # None
    PROVE  Lowest \in Fd /\ fds[Lowest] = Free
<1> DEFINE T == {n \in Fd : fds[n] = Free}
<1>1. T # {} /\ T \in SUBSET Nat BY WorkersAssumption DEF Lowest, Fd
<1>2. PICK x \in T : \A y \in T : ~(y < x) BY <1>1, Least
<1>3. x \in Fd /\ fds[x] = Free /\ \A k \in Fd : k < x => fds[k] # Free BY <1>2
<1> HIDE DEF T
<1> QED BY <1>3 DEF Lowest

\* The kinds of descriptors.
LEMMA Kinds ==
    /\ Free[1] = "free" /\ Cache[1] = "cache" /\ Link[1] = "backend"
    /\ \A t : Own(t)[1] = "own"
    /\ \A s : Listen(s)[1] = "listen"
    /\ \A c : Conn(c)[1] = "client"
    /\ {Free, Cache, Link} \subseteq Object
    /\ \A t \in Other : Own(t) \in Object
    /\ \A c \in Client : Conn(c) \in Object
    /\ \A s \in {"4", "6", "m"} : Listen(s) \in Object
BY DEF Free, Cache, Link, Own, Listen, Conn, Object

\* The listening sockets outlive a change of a descriptor that is none of them.
LEMMA OneChanged ==
    ASSUME IInv, NEW n \in Fd, NEW o \in Object, o[1] # "listen", fds[n][1] # "listen",
           fds' = [fds EXCEPT ![n] = o], UNCHANGED <<up, watch>>
    PROVE  /\ fds' \in [Fd -> Object] /\ ListenersStay'
           /\ \A k \in Fd : fds'[k] = IF k = n THEN o ELSE fds[k]
<1>1. fds \in [Fd -> Object] BY DEF IInv, Typed
<1>2. \A k \in Fd : fds'[k] = IF k = n THEN o ELSE fds[k] BY <1>1
<1>3. Watched' = Watched BY DEF Watched
<1>4. ASSUME up = "run", NEW s \in Watched \union {"m"}
      PROVE  \E k \in Fd : fds'[k] = Listen(s)
  <2>1. PICK k \in Fd : fds[k] = Listen(s) BY <1>4 DEF IInv, ListenersStay
  <2>2. k # n BY <2>1, Kinds
  <2> QED BY <1>2, <2>1, <2>2
<1> QED BY <1>1, <1>2, <1>3, <1>4 DEF ListenersStay

\* The elements of two lists, one after the other.
LEMMA Glued ==
    ASSUME NEW S, NEW p \in Seq(S), NEW q \in Seq(S)
    PROVE  /\ p \o q \in Seq(S) /\ Len(p \o q) = Len(p) + Len(q)
           /\ \A k : In(k, p \o q) <=> In(k, p) \/ In(k, q)
<1>1. /\ p \o q \in Seq(S) /\ Len(p \o q) = Len(p) + Len(q)
      /\ \A i \in 1..Len(p \o q) :
            (p \o q)[i] = IF i <= Len(p) THEN p[i] ELSE q[i - Len(p)]
  OBVIOUS
<1>2. Len(p) \in Nat /\ Len(q) \in Nat OBVIOUS
<1>3. ASSUME NEW k, In(k, q) PROVE In(k, p \o q)
  <2>1. PICK i \in 1..Len(q) : q[i] = k BY <1>3 DEF In
  <2>2. Len(p) + i \in 1..Len(p \o q) /\ (p \o q)[Len(p) + i] = q[i] BY <1>1, <1>2
  <2> QED BY <2>1, <2>2 DEF In
<1>4. ASSUME NEW k, In(k, p) PROVE In(k, p \o q) BY <1>1, <1>2, <1>4 DEF In
<1>5. ASSUME NEW k, In(k, p \o q) PROVE In(k, p) \/ In(k, q)
  <2>1. PICK i \in 1..Len(p \o q) : (p \o q)[i] = k BY <1>5 DEF In
  <2>2. CASE i <= Len(p) BY <1>1, <1>2, <2>1, <2>2 DEF In
  <2>3. CASE ~(i <= Len(p))
    <3>1. i - Len(p) \in 1..Len(q) /\ q[i - Len(p)] = k BY <1>1, <1>2, <2>1, <2>3
    <3> QED BY <3>1 DEF In
  <2> QED BY <2>2, <2>3
<1> QED BY <1>1, <1>3, <1>4, <1>5

\* What remains to be closed at the end of a session.
LEMMA ToCloseIs ==
    ASSUME NEW b \in MayFd \X MayFd, NEW n \in Fd
    PROVE  /\ ToClose(b, n) \in Seq(Fd) /\ ToClose(b, n) # <<>>
           /\ \A k \in Fd : In(k, ToClose(b, n)) <=> k \in {b[1], b[2], n}
<1> DEFINE p == Given(b[1], b[1] # None)
           q == Given(b[2], b[2] # None)
           r == <<n, n>>
<1>1. None \notin Fd BY WorkersAssumption DEF None, Fd
<1>2. p \in Seq(Fd) /\ \A k \in Fd : In(k, p) <=> k = b[1] BY <1>1 DEF Given, MayFd, In
<1>3. q \in Seq(Fd) /\ \A k \in Fd : In(k, q) <=> k = b[2] BY <1>1 DEF Given, MayFd, In
<1>4. r \in Seq(Fd) /\ Len(r) = 2 /\ \A k \in Fd : In(k, r) <=> k = n BY DEF In
<1>5. ToClose(b, n) = (p \o q) \o r BY DEF ToClose
<1> HIDE DEF p, q, r
<1>6. p \o q \in Seq(Fd) /\ \A k : In(k, p \o q) <=> In(k, p) \/ In(k, q)
  BY <1>2, <1>3, Glued
<1>7. /\ (p \o q) \o r \in Seq(Fd) /\ Len((p \o q) \o r) = Len(p \o q) + 2
      /\ \A k : In(k, (p \o q) \o r) <=> In(k, p \o q) \/ In(k, r)
  BY <1>4, <1>6, Glued
<1>8. ToClose(b, n) # <<>> BY <1>5, <1>6, <1>7
<1> QED BY <1>2, <1>3, <1>4, <1>5, <1>6, <1>7, <1>8

LEMMA GivenIs ==
    ASSUME NEW S, NEW x \in S, NEW ok
    PROVE  Given(x, ok) \in Seq(S) /\ Len(Given(x, ok)) <= 1
<1>1. CASE ok
  <2>1. Given(x, ok) = <<x>> BY <1>1 DEF Given
  <2> QED BY <2>1
<1>2. CASE ~ok
  <2>1. Given(x, ok) = <<>> BY <1>2 DEF Given
  <2> QED BY <2>1
<1> QED BY <1>1, <1>2

LEMMA ReadyIs == Ready \in Seq(Port)
<1> DEFINE p == Given("4", Readable("4"))
           q == Given("6", Readable("6"))
<1>1. p \in Seq(Port) /\ q \in Seq(Port) BY GivenIs DEF Port
<1> HIDE DEF p, q
<1>2. p \o q \in Seq(Port) BY <1>1, Glued
<1> QED BY <1>2 DEF Ready, p, q

\* Taking the first element of a list.
LEMMA FirstTaken ==
    ASSUME NEW S, NEW s \in Seq(S), s # <<>>
    PROVE  /\ Head(s) \in S /\ Tail(s) \in Seq(S) /\ Len(Tail(s)) = Len(s) - 1
           /\ Len(s) \in Nat \ {0}
           /\ \A k : In(k, s) <=> k = Head(s) \/ In(k, Tail(s))
<1>1. /\ Head(s) \in S /\ Tail(s) \in Seq(S) /\ Len(Tail(s)) = Len(s) - 1
      /\ Len(s) \in Nat \ {0} /\ Head(s) = s[1]
      /\ \A i \in 1..Len(Tail(s)) : Tail(s)[i] = s[i + 1]
  OBVIOUS
<1>2. ASSUME NEW k, In(k, s) PROVE k = Head(s) \/ In(k, Tail(s))
  <2>1. PICK i \in 1..Len(s) : s[i] = k BY <1>2 DEF In
  <2>2. CASE i = 1 BY <1>1, <2>1, <2>2
  <2>3. CASE i # 1
    <3>1. i - 1 \in 1..Len(Tail(s)) /\ Tail(s)[i - 1] = k BY <1>1, <2>1, <2>3
    <3> QED BY <3>1 DEF In
  <2> QED BY <2>2, <2>3
<1>3. ASSUME NEW k, In(k, Tail(s)) PROVE In(k, s)
  <2>1. PICK i \in 1..Len(Tail(s)) : Tail(s)[i] = k BY <1>3 DEF In
  <2>2. i + 1 \in 1..Len(s) /\ s[i + 1] = k BY <1>1, <2>1
  <2> QED BY <2>2 DEF In
<1>4. In(Head(s), s) BY <1>1 DEF In
<1> QED BY <1>1, <1>2, <1>3, <1>4
-----------------------------------------------------------------------------
(* One step. *)

\* A number that worker w will close, after a step of another worker.
LEMMA OthersHold ==
    ASSUME NEW v \in Worker, pc'[v] = pc[v], connfd'[v] = connfd[v], back'[v] = back[v],
           closing'[v] = closing[v], NEW n
    PROVE  Holds(v, n)' <=> Holds(v, n)
BY DEF Holds, InSession

LEMMA Preserved ==
    ASSUME IInv, [Next]_vars
    PROVE  IInv'
<1>0. None \notin Fd BY WorkersAssumption DEF None, Fd
<1> USE DEF socks, locals
<1>1. ASSUME NEW ep \in Endpoints, NEW fails \in SUBSET {"4", "6", "m"}, Boot(ep, fails)
      PROVE  IInv'
  <2>1. CASE up' = "aborted"
    <3>1. up = "boot" /\ UNCHANGED <<watch, fds, queue, locals, held>>
      BY <1>1, <2>1 DEF Boot
    <3>2. Typed' /\ Placed' BY <2>1, <3>1 DEF IInv, Typed, Placed, InSession
    <3>3. Unborn' /\ ListenersStay' BY <2>1 DEF Unborn, ListenersStay
    <3>4. \A w \in Worker : \A n : Holds(w, n)' <=> Holds(w, n) BY <3>1, OthersHold
    <3>5. Apart' /\ Owned' BY <3>1, <3>4 DEF IInv, Apart, Owned
    <3> QED BY <3>2, <3>3, <3>5 DEF IInv
  <2>2. CASE up' # "aborted"
    <3> DEFINE bound == {a[1] : a \in Address4(ep) \union Address6(ep)} \ fails
               p == Given("4", "4" \in bound)
               q == Given("6", "6" \in bound)
               all == Append(p \o q, "m")
               S == {"4", "6", "m"}
    <3>1. /\ up = "boot" /\ up' = "run" /\ watch' = p \o q
          /\ fds' = [n \in Fd |-> IF n < Len(all) THEN Listen(all[n + 1]) ELSE Free]
          /\ UNCHANGED <<queue, locals, held>>
      BY <1>1, <2>2 DEF Boot
    <3>2. p \in Seq(S) /\ q \in Seq(S) /\ Len(p) <= 1 /\ Len(q) <= 1
      BY GivenIs
    <3> HIDE DEF p, q
    <3>3. p \o q \in Seq(S) /\ Len(p \o q) = Len(p) + Len(q) BY <3>2, Glued
    <3>4. /\ all \in Seq(S) /\ Len(all) = Len(p \o q) + 1 /\ Len(all) \in 1..3
          /\ all[Len(all)] = "m" /\ \A i \in 1..Len(p \o q) : all[i] = (p \o q)[i]
      BY <3>2, <3>3
    <3> HIDE DEF all
    <3>5. \A i \in 1..Len(all) : all[i] \in S BY <3>4
    <3> HIDE DEF S
    <3>6. /\ fds' \in [Fd -> Object]
          /\ \A n \in Fd : fds'[n][1] \in {"listen", "free"}
      <4>1. ASSUME NEW n \in Fd
            PROVE  fds'[n] \in Object /\ fds'[n][1] \in {"listen", "free"}
        <5>1. CASE n < Len(all)
          <6>1. n + 1 \in 1..Len(all) BY <3>4, <5>1 DEF Fd
          <6>2. all[n + 1] \in S BY <3>5, <6>1
          <6> QED BY <3>1, <5>1, <6>2, Kinds DEF S
        <5>2. CASE ~(n < Len(all)) BY <3>1, <5>2, Kinds
        <5> QED BY <5>1, <5>2
      <4> QED BY <3>1, <4>1
    <3>7. \A i \in 1..Len(all) : i - 1 \in Fd /\ fds'[i - 1] = Listen(all[i])
      <4>1. TAKE i \in 1..Len(all)
      <4>2. i - 1 \in Fd /\ i - 1 < Len(all) /\ (i - 1) + 1 = i
        BY <3>4, WorkersAssumption DEF Fd
      <4> QED BY <3>1, <4>2
    <3>8. ListenersStay'
      <4>1. Len(p \o q) \in Nat BY <3>3
      <4>2. \A t \in Watched' \union {"m"} : \E i \in 1..Len(all) : all[i] = t
        BY <3>1, <3>4, <4>1 DEF Watched
      <4> QED BY <3>7, <4>2 DEF ListenersStay
    <3>9. Typed' /\ Placed' BY <3>1, <3>6 DEF IInv, Typed, Placed, InSession
    <3>10. Unborn' BY <3>1 DEF Unborn
    <3>11. /\ \A t \in Other : held'[t] = None
           /\ \A w \in Worker : cachefd'[w] = None /\ \A n : ~Holds(w, n)'
      BY <3>1 DEF IInv, Placed, Unborn, Holds, InSession
    <3>12. Apart' /\ Owned' BY <3>6, <3>11 DEF Apart, Owned
    <3> QED BY <3>8, <3>9, <3>10, <3>12 DEF IInv
  <2> QED BY <2>1, <2>2
<1>2. ASSUME NEW c \in Client, NEW s \in Port, Arrive(c, s) PROVE IInv'
  <2>1. Typed' BY <1>2 DEF IInv, Typed, Arrive
  <2>2. Placed' BY <1>2 DEF IInv, Placed, Arrive, InSession
  <2>3. Unborn' BY <1>2 DEF IInv, Unborn, Arrive
  <2>4. ListenersStay' BY <1>2 DEF IInv, ListenersStay, Watched, Arrive
  <2>5. \A w \in Worker : \A n : Holds(w, n)' <=> Holds(w, n) BY <1>2, OthersHold DEF Arrive
  <2>6. Apart' BY <1>2, <2>5 DEF IInv, Apart, Arrive
  <2>7. Owned' BY <1>2, <2>5 DEF IInv, Owned, Arrive
  <2> QED BY <2>1, <2>2, <2>3, <2>4, <2>6, <2>7 DEF IInv
<1>3. ASSUME NEW w \in Worker, Work(w) \/ Serve(w) PROVE IInv'
  <2>1. CASE Select(w)
    <3>1. Typed' BY <2>1, ReadyIs DEF IInv, Typed, Select, Goto, Place
    <3>2. Placed' BY <2>1 DEF IInv, Typed, Placed, Select, Goto, InSession
    <3>3. Unborn' BY <2>1 DEF IInv, Unborn, Select
    <3>4. ListenersStay' BY <2>1 DEF IInv, ListenersStay, Watched, Select
    <3>5. \A v \in Worker : \A n : Holds(v, n)' <=> Holds(v, n)
      BY <2>1 DEF IInv, Typed, Select, Goto, Holds, InSession
    <3>6. Apart' BY <2>1, <3>5 DEF IInv, Apart, Select
    <3>7. Owned' BY <2>1, <3>5 DEF IInv, Owned, Select
    <3> QED BY <3>1, <3>2, <3>3, <3>4, <3>6, <3>7 DEF IInv
  <2>2. CASE Accept(w)
    <3> DEFINE n == Lowest
               s == Head(todo[w])
               c == Head(queue[s])
    <3>1. n \in Fd /\ fds[n] = Free BY <2>2, LowestIsFree DEF Accept
    <3>2. todo[w] # <<>> /\ todo[w] \in Seq(Port) BY <2>2 DEF IInv, Typed, Placed, Accept
    <3>3. s \in Port /\ Tail(todo[w]) \in Seq(Port) BY <3>2, FirstTaken
    <3>4. queue[s] \in Seq(Client) /\ queue[s] # <<>> BY <2>2, <3>3 DEF IInv, Typed, Accept
    <3>5. c \in Client /\ Tail(queue[s]) \in Seq(Client) BY <3>4, FirstTaken
    <3>6. fds' = [fds EXCEPT ![n] = Conn(c)] /\ UNCHANGED <<up, watch>>
      BY <2>2 DEF Accept, Opened
    <3>7. /\ fds' \in [Fd -> Object] /\ ListenersStay'
          /\ \A k \in Fd : fds'[k] = IF k = n THEN Conn(c) ELSE fds[k]
      BY <3>1, <3>5, <3>6, Kinds, OneChanged
    <3>8. /\ queue' = [queue EXCEPT ![s] = Tail(@)] /\ connfd' = [connfd EXCEPT ![w] = n]
          /\ cl' = [cl EXCEPT ![w] = {c}] /\ todo' = [todo EXCEPT ![w] = Tail(@)]
          /\ pc[w] = "accept" /\ pc' = [pc EXCEPT ![w] = "greet"]
          /\ UNCHANGED <<up, watch, back, cachefd, closing, held>>
      BY <2>2 DEF Accept, Goto
    <3> HIDE DEF n, s, c
    <3>9. Typed' BY <3>1, <3>3, <3>5, <3>7, <3>8 DEF IInv, Typed, Place, MayFd
    <3>10. Placed' BY <3>1, <3>8 DEF IInv, Typed, Placed, InSession
    <3>11. Unborn' BY <3>8 DEF IInv, Unborn
    <3>12. /\ \A v \in Worker \ {w} : \A k : Holds(v, k)' <=> Holds(v, k)
           /\ \A k \in Fd : Holds(w, k)' <=> k = n
           /\ \A k : ~Holds(w, k)
      BY <1>0, <3>1, <3>8 DEF IInv, Typed, Placed, Holds, InSession
    <3>13. Apart' BY <3>1, <3>7, <3>8, <3>12, Kinds DEF IInv, Apart, Typed, MayFd
    <3>14. Owned' BY <3>1, <3>7, <3>8, <3>12 DEF IInv, Owned
    <3> QED BY <3>7, <3>9, <3>10, <3>11, <3>13, <3>14 DEF IInv
  <2>3. CASE AcceptFails(w)
    <3>1. todo[w] # <<>> /\ todo[w] \in Seq(Port) BY <2>3 DEF IInv, Typed, Placed, AcceptFails
    <3>2. Tail(todo[w]) \in Seq(Port) BY <3>1, FirstTaken
    <3>3. Typed' BY <2>3, <3>2 DEF IInv, Typed, AcceptFails, Goto, Resume, Place
    <3>4. Placed' BY <2>3, <3>2 DEF IInv, Typed, Placed, AcceptFails, Goto, Resume, InSession
    <3>5. Unborn' BY <2>3 DEF IInv, Unborn, AcceptFails
    <3>6. ListenersStay' BY <2>3 DEF IInv, ListenersStay, Watched, AcceptFails
    <3>7. \A v \in Worker : \A n : Holds(v, n)' <=> Holds(v, n)
      BY <2>3 DEF IInv, Typed, AcceptFails, Goto, Resume, Holds, InSession
    <3>8. Apart' BY <2>3, <3>7 DEF IInv, Apart, AcceptFails
    <3>9. Owned' BY <2>3, <3>7 DEF IInv, Owned, AcceptFails
    <3> QED BY <3>3, <3>4, <3>5, <3>6, <3>8, <3>9 DEF IInv
  <2>4. CASE Leave(w)
    <3>1. back[w] \in MayFd \X MayFd /\ connfd[w] \in Fd /\ pc[w] \in Place
      BY <2>4 DEF IInv, Typed, Placed, Leave
    <3> DEFINE z == ToClose(back[w], connfd[w])
    <3>2. /\ z \in Seq(Fd) /\ z # <<>>
          /\ \A k \in Fd : In(k, z) <=> k \in {back[w][1], back[w][2], connfd[w]}
      BY <3>1, ToCloseIs
    <3>3. /\ closing' = [closing EXCEPT ![w] = z] /\ pc' = [pc EXCEPT ![w] = "close"]
          /\ cachefd' = [cachefd EXCEPT ![w] = None]
          /\ InSession(w) /\ UNCHANGED <<up, watch, fds, queue, todo, connfd, back, cl, held>>
      BY <2>4 DEF Leave, Goto
    <3> HIDE DEF z
    <3>4. Typed' BY <3>2, <3>3 DEF IInv, Typed, Place, MayFd
    <3>5. Placed' BY <3>2, <3>3 DEF IInv, Typed, Placed, InSession
    <3>6. Unborn' BY <3>3 DEF IInv, Unborn, InSession
    <3>7. ListenersStay' BY <3>3 DEF IInv, ListenersStay, Watched
    <3>8. \A v \in Worker, n \in Fd : Holds(v, n)' <=> Holds(v, n)
      <4>1. \A n \in Fd : Holds(w, n)' <=> Holds(w, n)
        BY <3>2, <3>3 DEF IInv, Typed, Holds, InSession
      <4>2. \A v \in Worker \ {w}, n \in Fd : Holds(v, n)' <=> Holds(v, n)
        BY <3>3, OthersHold DEF IInv, Typed
      <4> QED BY <4>1, <4>2
    <3>9. Apart' BY <3>3, <3>8 DEF IInv, Apart, Typed
    <3>10. Owned' BY <3>3, <3>8 DEF IInv, Owned
    <3> QED BY <3>4, <3>5, <3>6, <3>7, <3>9, <3>10 DEF IInv
  <2>5. CASE Dial(w)
    <3> DEFINE n == Lowest
               i == IF pc[w] = "greet" THEN 1 ELSE 2
    <3>1. n \in Fd /\ fds[n] = Free BY <2>5, LowestIsFree DEF Dial
    <3>2. fds' = [fds EXCEPT ![n] = Link] /\ UNCHANGED <<up, watch>> BY <2>5 DEF Dial, Opened
    <3>3. /\ fds' \in [Fd -> Object] /\ ListenersStay'
          /\ \A k \in Fd : fds'[k] = IF k = n THEN Link ELSE fds[k]
      BY <3>1, <3>2, Kinds, OneChanged
    <3>4. /\ back' = [back EXCEPT ![w] = [back[w] EXCEPT ![i] = n]]
          /\ pc[w] \in {"greet", "reader"}
          /\ pc' = [pc EXCEPT ![w] = IF pc[w] = "greet" THEN "reader" ELSE "writer"]
          /\ UNCHANGED <<up, watch, queue, todo, connfd, cl, cachefd, closing, held>>
      BY <2>5 DEF Dial, Goto
    <3> HIDE DEF n
    <3>5. /\ back' \in [Worker -> MayFd \X MayFd]
          /\ \A v \in Worker \ {w} : back'[v] = back[v]
          /\ pc[w] = "greet" => back'[w][1] = n /\ back'[w][2] = None /\ back[w][1] = None
                                /\ back[w][2] = None
          /\ pc[w] = "reader" => back'[w][1] = back[w][1] /\ back'[w][2] = n /\ back[w][2] = None
      <4>1. /\ back \in [Worker -> MayFd \X MayFd] /\ n \in MayFd
            /\ pc[w] = "greet" => back[w][1] = None /\ back[w][2] = None
            /\ pc[w] = "reader" => back[w][2] = None
        BY <3>1 DEF IInv, Typed, Placed, MayFd
      <4> QED BY <3>4, <4>1
    <3> HIDE DEF i
    <3>6. Typed' BY <3>3, <3>4, <3>5 DEF IInv, Typed, Place
    <3>7. Placed' BY <3>1, <3>4, <3>5 DEF IInv, Typed, Placed, InSession
    <3>8. Unborn' BY <3>4 DEF IInv, Unborn
    <3>9. /\ \A v \in Worker \ {w} : \A k : Holds(v, k)' <=> Holds(v, k)
          /\ \A k \in Fd : Holds(w, k)' <=> Holds(w, k) \/ k = n
      <4>1. \A v \in Worker \ {w} : \A k : Holds(v, k)' <=> Holds(v, k)
        BY <3>4, <3>5, OthersHold DEF IInv, Typed
      <4>2. \A k \in Fd : Holds(w, k)' <=> Holds(w, k) \/ k = n
        BY <1>0, <3>1, <3>4, <3>5 DEF IInv, Typed, Holds, InSession
      <4> QED BY <4>1, <4>2
    <3>10. Apart' BY <3>1, <3>3, <3>4, <3>9, Kinds DEF IInv, Apart, Typed, MayFd
    <3>11. Owned' BY <3>1, <3>3, <3>4, <3>9 DEF IInv, Owned
    <3> QED BY <3>3, <3>6, <3>7, <3>8, <3>10, <3>11 DEF IInv
  <2>6. CASE WarmUp(w)
    <3> DEFINE n == Lowest
    <3>1. n \in Fd /\ fds[n] = Free BY <2>6, LowestIsFree DEF WarmUp
    <3>2. fds' = [fds EXCEPT ![n] = Cache] /\ UNCHANGED <<up, watch>>
      BY <2>6 DEF WarmUp, Opened
    <3>3. /\ fds' \in [Fd -> Object] /\ ListenersStay'
          /\ \A k \in Fd : fds'[k] = IF k = n THEN Cache ELSE fds[k]
      BY <3>1, <3>2, Kinds, OneChanged
    <3>4. /\ pc[w] \in {"writer", "loop"} /\ pc' = [pc EXCEPT ![w] = "warm"]
          /\ cachefd' = [cachefd EXCEPT ![w] = n]
          /\ UNCHANGED <<up, watch, queue, todo, connfd, back, cl, closing, held>>
      BY <2>6 DEF WarmUp, Goto
    <3> HIDE DEF n
    <3>5. Typed' BY <3>1, <3>3, <3>4 DEF IInv, Typed, Place, MayFd
    <3>6. Placed' BY <3>1, <3>4 DEF IInv, Typed, Placed, InSession
    <3>7. Unborn' BY <3>4 DEF IInv, Unborn
    <3>8. \A v \in Worker : \A k : Holds(v, k)' <=> Holds(v, k)
      BY <3>4 DEF IInv, Typed, Holds, InSession
    <3>9. Apart' BY <3>1, <3>3, <3>4, <3>8, Kinds DEF IInv, Apart, Typed, MayFd
    <3>10. Owned' BY <3>1, <3>3, <3>4, <3>8, Kinds DEF IInv, Owned
    <3> QED BY <3>3, <3>5, <3>6, <3>7, <3>9, <3>10 DEF IInv
  <2>9. CASE Reset(w)
    <3> DEFINE n == cachefd[w]
    <3>1. pc[w] = "warm" /\ n \in Fd BY <2>9 DEF IInv, Placed, Reset
    <3>2. /\ fds' = [fds EXCEPT ![n] = Free] /\ cachefd' = [cachefd EXCEPT ![w] = None]
          /\ pc' = [pc EXCEPT ![w] = "loop"]
          /\ UNCHANGED <<up, watch, queue, todo, connfd, back, cl, closing, held>>
      BY <2>9 DEF Reset, Closed, Goto
    <3>3. fds[n][1] # "listen" BY <1>0, <3>1 DEF IInv, Apart
    <3>4. /\ fds' \in [Fd -> Object] /\ ListenersStay'
          /\ \A k \in Fd : fds'[k] = IF k = n THEN Free ELSE fds[k]
      BY <3>1, <3>2, <3>3, Kinds, OneChanged
    <3> HIDE DEF n
    <3>5. Typed' BY <3>2, <3>4 DEF IInv, Typed, Place, MayFd
    <3>6. Placed' BY <3>1, <3>2 DEF IInv, Typed, Placed, InSession
    <3>7. Unborn' BY <3>1, <3>2 DEF IInv, Unborn
    <3>8. \A v \in Worker : \A k : Holds(v, k)' <=> Holds(v, k)
      BY <3>1, <3>2 DEF IInv, Typed, Holds, InSession
    <3>9. Apart' BY <3>2, <3>4, <3>8, Kinds DEF IInv, Apart, Typed, MayFd
    <3>10. Owned' BY <3>2, <3>4, <3>8, Kinds DEF IInv, Owned
    <3> QED BY <3>4, <3>5, <3>6, <3>7, <3>9, <3>10 DEF IInv
  <2>7. CASE DialFails(w)
    <3> DEFINE i == IF pc[w] = "reader" THEN 1 ELSE 2
               n == back[w][i]
               b == [back[w] EXCEPT ![i] = None]
               z == ToClose(b, connfd[w])
    <3>1. pc[w] \in {"reader", "writer"} /\ n \in Fd /\ connfd[w] \in Fd
      BY <2>7 DEF IInv, Placed, InSession, DialFails
    <3>2. /\ fds' = [fds EXCEPT ![n] = Free] /\ back' = [back EXCEPT ![w] = b]
          /\ closing' = [closing EXCEPT ![w] = z] /\ pc' = [pc EXCEPT ![w] = "close"]
          /\ UNCHANGED <<up, watch, queue, todo, connfd, cl, cachefd, held>>
      BY <2>7 DEF DialFails, HungUp, Closed, Goto, IInv, Typed
    <3>3. Holds(w, n) BY <3>1 DEF Holds, InSession
    <3>4. fds[n][1] # "listen" BY <3>1, <3>3 DEF IInv, Apart
    <3>5. /\ fds' \in [Fd -> Object] /\ ListenersStay'
          /\ \A k \in Fd : fds'[k] = IF k = n THEN Free ELSE fds[k]
      BY <3>1, <3>2, <3>4, Kinds, OneChanged
    <3>6. b \in MayFd \X MayFd /\ \A k \in Fd : k \in {back[w][1], back[w][2]} =>
                                                    k = n \/ k \in {b[1], b[2]}
      <4>1. back[w] \in MayFd \X MayFd /\ None \in MayFd BY DEF IInv, Typed, MayFd
      <4>2. CASE pc[w] = "reader" BY <4>1, <4>2
      <4>3. CASE pc[w] # "reader" BY <4>1, <4>3
      <4> QED BY <4>2, <4>3
    <3>7. \A k \in Fd : k \in {b[1], b[2]} => k \in {back[w][1], back[w][2]}
      BY <1>0 DEF IInv, Typed, MayFd
    <3> HIDE DEF n, b
    <3>8. /\ z \in Seq(Fd) /\ z # <<>>
          /\ \A k \in Fd : In(k, z) <=> k \in {b[1], b[2], connfd[w]}
      BY <3>1, <3>6, ToCloseIs
    <3> HIDE DEF z, i
    <3>9. Typed' BY <3>2, <3>5, <3>6, <3>8 DEF IInv, Typed, Place
    <3>10. Placed' BY <3>1, <3>2, <3>8 DEF IInv, Typed, Placed, InSession
    <3>11. Unborn' BY <3>1, <3>2 DEF IInv, Unborn
    <3>12. /\ \A v \in Worker \ {w} : \A k : Holds(v, k)' <=> Holds(v, k)
           /\ \A k \in Fd : Holds(w, k)' => Holds(w, k)
           /\ \A k \in Fd \ {n} : Holds(w, k) => Holds(w, k)'
      <4>1. \A v \in Worker \ {w} : \A k : Holds(v, k)' <=> Holds(v, k)
        BY <3>2, OthersHold DEF IInv, Typed
      <4>2. \A k : Holds(w, k)' <=> In(k, z) BY <3>2 DEF IInv, Typed, Holds, InSession
      <4>3. \A k : Holds(w, k) <=> k \in {connfd[w], back[w][1], back[w][2]}
        BY <3>1 DEF Holds, InSession
      <4> QED BY <3>6, <3>7, <3>8, <4>1, <4>2, <4>3
    <3>13. Apart' BY <3>2, <3>5, <3>12, Kinds DEF IInv, Apart, Typed, MayFd
    <3>14. Owned' BY <3>2, <3>5, <3>12, Kinds DEF IInv, Owned
    <3> QED BY <3>5, <3>9, <3>10, <3>11, <3>13, <3>14 DEF IInv
  <2>8. CASE Close(w)
    <3> DEFINE n == Head(closing[w])
               z == Tail(closing[w])
    <3>1. pc[w] = "close" /\ closing[w] \in Seq(Fd) /\ closing[w] # <<>>
      BY <2>8 DEF IInv, Typed, Placed, Close
    <3>2. /\ n \in Fd /\ z \in Seq(Fd) /\ Len(z) = Len(closing[w]) - 1
          /\ Len(closing[w]) \in Nat \ {0}
          /\ \A k : In(k, closing[w]) <=> k = n \/ In(k, z)
      BY <3>1, FirstTaken
    <3>3. /\ fds' = [fds EXCEPT ![n] = Free] /\ closing' = [closing EXCEPT ![w] = z]
          /\ UNCHANGED <<up, watch, queue, todo, cachefd, held>>
      BY <2>8 DEF Close, Closed
    <3>4. \/ z # <<>> /\ UNCHANGED <<pc, connfd, back, cl>>
          \/ /\ z = <<>> /\ connfd' = [connfd EXCEPT ![w] = None]
             /\ back' = [back EXCEPT ![w] = <<None, None>>]
             /\ cl' = [cl EXCEPT ![w] = {}] /\ pc' = [pc EXCEPT ![w] = Resume(todo[w])]
      <4> HIDE DEF z
      <4>1. z = <<>> => Len(z) = 0 OBVIOUS
      <4>2. z # <<>> => Len(z) # 0 BY <3>2, FirstTaken
      <4> QED BY <2>8, <3>2, <4>1, <4>2 DEF Close, Goto
    <3> HIDE DEF n, z
    <3>5. Holds(w, n) BY <3>1, <3>2 DEF Holds
    <3>6. fds[n][1] # "listen" BY <3>2, <3>5 DEF IInv, Apart
    <3>7. /\ fds' \in [Fd -> Object] /\ ListenersStay'
          /\ \A k \in Fd : fds'[k] = IF k = n THEN Free ELSE fds[k]
      BY <3>2, <3>3, <3>6, Kinds, OneChanged
    <3>8. Typed'
      <4>1. closing' \in [Worker -> Seq(Fd)] BY <3>2, <3>3 DEF IInv, Typed
      <4>2. pc' \in [Worker -> Place] BY <3>4 DEF IInv, Typed, Place, Resume
      <4>3. connfd' \in [Worker -> MayFd] BY <3>4 DEF IInv, Typed, MayFd
      <4>4. cl' \in [Worker -> SUBSET Client] BY <3>4 DEF IInv, Typed
      <4>5. back' \in [Worker -> MayFd \X MayFd]
        <5>1. <<None, None>> \in MayFd \X MayFd BY DEF MayFd
        <5> QED BY <3>4, <5>1 DEF IInv, Typed
      <4> QED BY <3>3, <3>7, <4>1, <4>2, <4>3, <4>4, <4>5 DEF IInv, Typed
    <3>9. Placed' BY <3>1, <3>3, <3>4 DEF IInv, Typed, Placed, InSession, Resume
    <3>10. Unborn' BY <3>1, <3>3 DEF IInv, Unborn
    <3>11. /\ \A v \in Worker \ {w} : \A k : Holds(v, k)' <=> Holds(v, k)
           /\ \A k \in Fd : Holds(w, k)' => Holds(w, k)
           /\ \A k \in Fd \ {n} : Holds(w, k) => Holds(w, k)'
      <4>1. \A v \in Worker \ {w} : \A k : Holds(v, k)' <=> Holds(v, k)
        BY <3>3, <3>4, OthersHold DEF IInv, Typed
      <4>2. \A k : Holds(w, k) <=> k = n \/ In(k, z) BY <3>1, <3>2 DEF Holds, InSession
      <4>3. CASE z # <<>> /\ UNCHANGED <<pc, connfd, back, cl>>
        <5>1. \A k : Holds(w, k)' <=> In(k, z)
          BY <3>1, <3>3, <4>3 DEF IInv, Typed, Holds, InSession
        <5> QED BY <4>1, <4>2, <5>1
      <4>4. CASE z = <<>> /\ pc' = [pc EXCEPT ![w] = Resume(todo[w])]
        <5>1. \A k : ~Holds(w, k)' BY <4>4 DEF IInv, Typed, Holds, InSession, Resume
        <5>2. \A k : ~In(k, z) BY <4>4 DEF In
        <5> QED BY <4>1, <4>2, <5>1, <5>2
      <4> QED BY <3>4, <4>3, <4>4
    <3>12. Apart' BY <3>3, <3>7, <3>11, Kinds DEF IInv, Apart, Typed, MayFd
    <3>13. Owned' BY <3>3, <3>7, <3>11, Kinds DEF IInv, Owned
    <3> QED BY <3>7, <3>8, <3>9, <3>10, <3>12, <3>13 DEF IInv
  <2> QED BY <1>3, <2>1, <2>2, <2>3, <2>4, <2>5, <2>6, <2>7, <2>8, <2>9 DEF Work, Serve
<1>4. ASSUME NEW t \in Other, Open(t) PROVE IInv'
  <2> DEFINE n == Lowest
  <2>1. n \in Fd /\ fds[n] = Free BY <1>4, LowestIsFree DEF Open
  <2>2. /\ fds' = [fds EXCEPT ![n] = Own(t)] /\ held' = [held EXCEPT ![t] = n]
        /\ held[t] = None /\ up = "run" /\ UNCHANGED <<up, watch, queue, locals>>
    BY <1>4 DEF Open, Opened
  <2> HIDE DEF n
  <2>3. /\ fds' \in [Fd -> Object] /\ ListenersStay'
        /\ \A k \in Fd : fds'[k] = IF k = n THEN Own(t) ELSE fds[k]
    BY <2>1, <2>2, Kinds, OneChanged
  <2>4. Typed' /\ Placed' BY <2>1, <2>2, <2>3 DEF IInv, Typed, Placed, MayFd, InSession
  <2>5. Unborn' BY <2>2 DEF Unborn
  <2>6. \A v \in Worker : \A k : Holds(v, k)' <=> Holds(v, k) BY <2>2, OthersHold
  <2>7. Apart' BY <2>1, <2>2, <2>3, <2>6, Kinds DEF IInv, Apart, Typed, MayFd
  <2>8. Owned' BY <1>0, <2>1, <2>2, <2>3, <2>6 DEF IInv, Owned, Typed
  <2> QED BY <2>3, <2>4, <2>5, <2>7, <2>8 DEF IInv
<1>5. ASSUME NEW t \in Other, Done(t) PROVE IInv'
  <2> DEFINE n == held[t]
  <2>1. /\ fds' = [fds EXCEPT ![n] = Free] /\ held' = [held EXCEPT ![t] = None] /\ n # None
        /\ UNCHANGED <<up, watch, queue, locals>>
    BY <1>5 DEF Done, Closed
  <2>2. n \in Fd /\ fds[n][1] # "listen" BY <2>1 DEF IInv, Typed, MayFd, Apart
  <2>3. /\ fds' \in [Fd -> Object] /\ ListenersStay'
        /\ \A k \in Fd : fds'[k] = IF k = n THEN Free ELSE fds[k]
    BY <2>1, <2>2, Kinds, OneChanged
  <2>4. \A u \in Other : held'[u] = IF u = t THEN None ELSE held[u] BY <2>1 DEF IInv, Typed
  <2>5. \A u \in Other : held[u] = n \/ held'[u] = held[u] BY <2>4
  <2> HIDE DEF n
  <2>6. Typed' /\ Placed' BY <2>1, <2>3 DEF IInv, Typed, Placed, MayFd, InSession
  <2>7. Unborn' BY <2>1, <2>4 DEF IInv, Unborn
  <2>8. \A v \in Worker : \A k : Holds(v, k)' <=> Holds(v, k) BY <2>1, OthersHold
  <2>9. Apart' BY <2>1, <2>3, <2>4, <2>8, Kinds DEF IInv, Apart, Typed, MayFd
  <2>10. Owned' BY <2>2, <2>3, <2>5, <2>8, Kinds DEF IInv, Owned
  <2> QED BY <2>3, <2>6, <2>7, <2>9, <2>10 DEF IInv
<1>6. CASE UNCHANGED vars
  <2>1. Typed' /\ Placed' /\ Unborn' /\ ListenersStay'
    BY <1>6 DEF vars, IInv, Typed, Placed, Unborn, ListenersStay, Watched, InSession
  <2>2. \A v \in Worker : \A k : Holds(v, k)' <=> Holds(v, k) BY <1>6, OthersHold DEF vars
  <2>3. Apart' /\ Owned' BY <1>6, <2>2 DEF vars, IInv, Apart, Owned
  <2> QED BY <2>1, <2>3 DEF IInv
<1> QED BY <1>1, <1>2, <1>3, <1>4, <1>5, <1>6 DEF Next, Port

LEMMA Initially == Init => IInv
<1> SUFFICES ASSUME Init PROVE IInv OBVIOUS
<1>1. None \in MayFd BY DEF MayFd
<1>2. Typed BY <1>1, Kinds DEF Init, Typed, Place, Port
<1>3. Placed BY DEF Init, Placed, InSession
<1>4. Unborn /\ ListenersStay BY DEF Init, Unborn, ListenersStay
<1>5. \A w \in Worker : \A n : ~Holds(w, n) BY DEF Init, Holds, InSession
<1>6. Apart /\ Owned BY <1>5, Kinds DEF Init, Apart, Owned
<1> QED BY <1>2, <1>3, <1>4, <1>6 DEF IInv

LEMMA Invariant == Spec => []IInv
<1>1. IInv /\ [Next]_vars => IInv' BY Preserved
<1> QED BY Initially, <1>1, PTL DEF Spec

LEMMA Implied == IInv => WorkersInv /\ NothingLeaks
<1> SUFFICES ASSUME IInv PROVE WorkersInv /\ NothingLeaks OBVIOUS
<1>0. None \notin Fd BY WorkersAssumption DEF None, Fd
<1>1. TypeOK BY <1>0 DEF IInv, Typed, Placed, TypeOK, MayFd
<1>2. ASSUME AtRest, NEW n \in Fd PROVE fds[n][1] \in {"free", "listen", "cache"}
  <2>1. \A w \in Worker : ~Holds(w, n) BY <1>2 DEF AtRest, Holds, InSession
  <2>2. \A t \in Other : held[t] # n BY <1>0, <1>2 DEF AtRest
  <2>3. fds[n][1] \notin {"client", "backend", "own"} BY <2>1, <2>2 DEF IInv, Owned
  <2>4. fds[n] \in Object BY DEF IInv, Typed
  <2>5. fds[n][1] \in {"free", "cache", "backend", "own", "listen", "client"}
    BY <2>4, Kinds DEF Object
  <2> QED BY <2>3, <2>5
<1> QED BY <1>1, <1>2 DEF IInv, WorkersInv, NothingLeaks

\* However the threads interleave, and although do_worker closes a descriptor
\* that handle_client has closed before, no thread ever closes a listening
\* socket, and what the workers remember of their descriptors is right.
THEOREM ListenersSafe == Spec => []WorkersInv
BY Invariant, Implied, PTL

\* When no session is going on, no socket of a session is open: every path
\* through handle_client, pgr_connect and do_monitor closes what it opened, or
\* another thread has closed it by its number.
THEOREM SocketsClosed == Spec => []NothingLeaks
BY Invariant, Implied, PTL
=============================================================================
