------------------------------- MODULE Daemon -------------------------------
(***************************************************************************)
(* Starting pgrouter: main (src/main.c) from its options to the supervisor *)
(* loop, with daemonize, for several instances of one configuration, which *)
(* share the pid file and the addresses they listen on.  An instance that  *)
(* daemonizes is two processes, the parent, which the user waits for, and  *)
(* the child.                                                              *)
(*                                                                         *)
(* A step is one system call with the code up to the next one.  A file is  *)
(* named after the instance that created it, a process by its instance.    *)
(* Reading the configuration comes first and is left to Config, the        *)
(* sockets to Workers, the signals to Context.                             *)
(***************************************************************************)
EXTENDS Integers, Sequences

CONSTANTS Inst,      \* the instances that are started
          Commands,  \* how they are started
          Faulty     \* the system calls that may fail

None == "none"

ASSUME DaemonAssumption ==
    /\ None \notin Inst
    /\ Commands \subseteq [fg : BOOLEAN, pidfile : BOOLEAN, root : BOOLEAN, abs : BOOLEAN]
    /\ Faulty \subseteq {"open", "fork", "setsid", "write", "chown", "setgid", "setuid",
                         "bind", "monitor"}

VARIABLES
    pc,       \* the next system call of the instance (of its child, after fork)
    cmd,      \* foreground? a pid file? started by root? are the paths absolute?
    path,     \* the file pidfile names, or None
    fd,       \* the file each instance has open
    pid,      \* the instance whose pid each file begins with
    holder,   \* the instance that has locked each file
    writers,  \* the processes that have the writing end of the pipe open
    said,     \* has the child written to the pipe?
    heard,    \* has the parent printed it?
    parent,   \* "none", "forked", "reads" or "gone"
    ids,      \* "root" or "user", for the group and for the user
    port,     \* the instance that has bound each address
    turn,     \* the address an instance binds next, of those of Address
    end,      \* why an instance has ended
    spoilt    \* history: was a pid file unlinked, or could not be written?

files == <<path, fd, pid, holder>>
pipe  == <<writers, said, heard, parent>>
vars  == <<pc, cmd, files, pipe, ids, port, turn, end, spoilt>>

\* Frontend and monitor, for IPv4 and for IPv6 alone.
Address == <<"frontend4", "frontend6", "monitor4", "monitor6">>

Alive(i) == pc[i] \notin {"off", "end"}

\* The system calls of main in their order, those that are skipped left out:
\* open and lock without a pid file, chown without one or without root, setgid
\* and setuid without root.
Does(c, p) ==
    CASE p \in {"open", "lock", "write"} -> ~c.fg /\ c.pidfile
      [] p = "chown"                     -> ~c.fg /\ c.pidfile /\ c.root
      [] p \in {"setgid", "setuid"}      -> ~c.fg /\ c.root
      [] p \in {"fork", "setsid", "detach"} -> ~c.fg
      [] OTHER                           -> TRUE

Calls == <<"open", "fork", "lock", "setsid", "write", "chown", "setgid", "setuid",
           "detach", "listen", "monitor", "run">>

\* The next call from the n-th on.
From(c, n) ==
    Calls[CHOOSE k \in n..Len(Calls) :
              Does(c, Calls[k]) /\ \A j \in n..(k - 1) : ~Does(c, Calls[j])]
Goto(i, n) == pc' = [pc EXCEPT ![i] = From(cmd[i], n)]

\* The process ends: its locks, its sockets and its end of the pipe are gone.
End(i, why) ==
    /\ pc' = [pc EXCEPT ![i] = "end"]
    /\ end' = [end EXCEPT ![i] = why]
    /\ holder' = [f \in Inst |-> IF holder[f] = i THEN None ELSE holder[f]]
    /\ writers' = [writers EXCEPT ![i] = @ \ {"child"}]
    /\ port' = [a \in DOMAIN port |-> IF port[a] = i THEN None ELSE port[a]]
    /\ turn' = [turn EXCEPT ![i] = 1]

-----------------------------------------------------------------------------
(* The instance. *)

Start(i, c) ==
    /\ pc[i] = "off"
    /\ cmd' = [cmd EXCEPT ![i] = c]
    /\ ids' = [ids EXCEPT ![i] = IF c.root THEN <<"root", "root">> ELSE <<"user", "user">>]
    /\ pc' = [pc EXCEPT ![i] = From(c, 1)]
    /\ UNCHANGED <<files, pipe, port, turn, end, spoilt>>

\* Mutant: the file is emptied when it is opened.
Emptied(f) == None

\* open() with O_CREAT and without O_TRUNC: what a file says is kept.
Kept(f) == pid[f]

Open(i) ==
    /\ pc[i] = "open"
    /\ LET f == IF path = None THEN i ELSE path
       IN /\ fd' = [fd EXCEPT ![i] = f]
          /\ path' = f
          /\ pid' = [pid EXCEPT ![f] = Kept(f)]
    /\ Goto(i, 2)
    /\ UNCHANGED <<cmd, holder, pipe, ids, port, turn, end, spoilt>>

\* Before the fork a failure ends the process the user has started.
FailsEarly(i) ==
    /\ pc[i] \in {"open", "fork"} \intersect Faulty
    /\ End(i, "early")
    /\ UNCHANGED <<cmd, path, fd, pid, said, heard, parent, ids, spoilt>>

\* The look-ups of user and group, chdir, pipe and fork.
Fork(i) ==
    /\ pc[i] = "fork"
    /\ writers' = [writers EXCEPT ![i] = {"parent", "child"}]
    /\ parent' = [parent EXCEPT ![i] = "forked"]
    /\ Goto(i, 3)
    /\ UNCHANGED <<cmd, files, said, heard, ids, port, turn, end, spoilt>>

\* fcntl(F_SETLK) of the file the instance has opened, wherever its name now
\* leads.
Lockable(i) == holder[fd[i]] \in {None, i}

Lock(i) ==
    /\ pc[i] = "lock" /\ Lockable(i)
    /\ holder' = [holder EXCEPT ![fd[i]] = i]
    /\ Goto(i, 4)
    /\ UNCHANGED <<cmd, path, fd, pid, pipe, ids, port, turn, end, spoilt>>

\* Mutant: nobody is told that the lock is taken.
UntoldLock(i, p) == said' = [said EXCEPT ![i] = p # "lock"]

\* inform_parent()
Inform(i, p) == said' = [said EXCEPT ![i] = TRUE]

\* unlink(pidfile), which after chdir("/") finds it only by an absolute path.
Unlink(i) ==
    /\ path' = IF cmd[i].pidfile /\ cmd[i].abs THEN None ELSE path
    /\ spoilt' = (spoilt \/ path' # path)

\* A call of the child fails: the parent is told, and from chown on the pid file
\* is unlinked.
ChildFails(i) ==
    /\ \/ pc[i] = "lock" /\ ~Lockable(i)
       \/ pc[i] \in {"setsid", "chown", "setgid", "setuid"} \intersect Faulty
    /\ Inform(i, pc[i])
    /\ IF pc[i] \in {"chown", "setgid", "setuid"} THEN Unlink(i) ELSE UNCHANGED <<path, spoilt>>
    /\ End(i, "told")
    /\ UNCHANGED <<cmd, fd, pid, heard, parent, ids>>

Setsid(i) ==
    /\ pc[i] = "setsid" /\ Goto(i, 5)
    /\ UNCHANGED <<cmd, files, pipe, ids, port, turn, end, spoilt>>

\* The pid is written over what the file begins with; a failure is ignored.
WritePid(i, ok) ==
    /\ pc[i] = "write" /\ (ok \/ "write" \in Faulty)
    /\ pid' = IF ok THEN [pid EXCEPT ![fd[i]] = i] ELSE pid
    /\ spoilt' = (spoilt \/ ~ok)
    /\ Goto(i, 6)
    /\ UNCHANGED <<cmd, path, fd, holder, pipe, ids, port, turn, end>>

Chown(i) ==
    /\ pc[i] = "chown" /\ Goto(i, 7)
    /\ UNCHANGED <<cmd, files, pipe, ids, port, turn, end, spoilt>>

\* setgid() and setuid(), in this order.
Changed(i, p) == [ids EXCEPT ![i] = IF p = "setgid" THEN <<"user", @[2]>> ELSE <<@[1], "user">>]

SetId(i) ==
    /\ pc[i] \in {"setgid", "setuid"}
    /\ ids' = Changed(i, pc[i])
    /\ Goto(i, IF pc[i] = "setgid" THEN 8 ELSE 9)
    /\ UNCHANGED <<cmd, files, pipe, port, turn, end, spoilt>>

\* The standard streams are redirected, and the pipe is closed.
Detach(i) ==
    /\ pc[i] = "detach"
    /\ writers' = [writers EXCEPT ![i] = @ \ {"child"}]
    /\ Goto(i, 10)
    /\ UNCHANGED <<cmd, files, said, heard, parent, ids, port, turn, end, spoilt>>

\* The other address of the pair, which was tried before this one, is bound.
HasPair(i) == port[Address[turn[i] - 1]] = i

\* pgr_listen4 and pgr_listen6, which fail if the address is in use; of the two
\* one has to succeed.
Listen(i, ok) ==
    /\ pc[i] = "listen"
    /\ LET a == Address[turn[i]]
       IN /\ IF ok THEN port[a] = None ELSE port[a] # None \/ "bind" \in Faulty
          /\ port' = IF ok THEN [port EXCEPT ![a] = i] ELSE port
    /\ turn[i] \in {2, 4} => ok \/ HasPair(i)
    /\ turn' = [turn EXCEPT ![i] = IF @ = 4 THEN 1 ELSE @ + 1]
    /\ Goto(i, IF turn[i] = 4 THEN 11 ELSE 10)
    /\ UNCHANGED <<cmd, files, pipe, ids, end, spoilt>>

\* Neither can be bound: pgr_abort, with a message to standard error.
ListenFails(i) ==
    /\ pc[i] = "listen" /\ turn[i] \in {2, 4} /\ ~HasPair(i)
    /\ port[Address[turn[i]]] # None \/ "bind" \in Faulty
    /\ End(i, "aborted")
    /\ UNCHANGED <<cmd, path, fd, pid, said, heard, parent, ids, spoilt>>

\* The threads.  pgr_monitor returns no value; if what main then finds is not 0,
\* it ends.
Spawn(i) ==
    /\ pc[i] = "monitor" /\ Goto(i, 12)
    /\ UNCHANGED <<cmd, files, pipe, ids, port, turn, end, spoilt>>

SpawnFails(i) ==
    /\ pc[i] = "monitor" /\ "monitor" \in Faulty
    /\ End(i, "aborted")
    /\ UNCHANGED <<cmd, path, fd, pid, said, heard, parent, ids, spoilt>>

\* A signal ends the process, at any point; the pid file stays.
Kill(i) ==
    /\ Alive(i)
    /\ End(i, "killed")
    /\ UNCHANGED <<cmd, path, fd, pid, said, heard, parent, ids, spoilt>>

-----------------------------------------------------------------------------
(* The parent: closes its writing end, copies what it reads to standard     *)
(* error, and exits with 0 at the end of the file.                          *)

\* Mutant: the parent keeps its writing end.
ParentKeeps(i) == writers[i]

ParentClosed(i) == writers[i] \ {"parent"}

ParentCloses(i) ==
    /\ parent[i] = "forked"
    /\ writers' = [writers EXCEPT ![i] = ParentClosed(i)]
    /\ parent' = [parent EXCEPT ![i] = "reads"]
    /\ UNCHANGED <<pc, cmd, files, said, heard, ids, port, turn, end, spoilt>>

ParentReads(i) ==
    /\ parent[i] = "reads" /\ said[i] /\ ~heard[i]
    /\ heard' = [heard EXCEPT ![i] = TRUE]
    /\ UNCHANGED <<pc, cmd, files, writers, said, parent, ids, port, turn, end, spoilt>>

ParentExits(i) ==
    /\ parent[i] = "reads" /\ (said[i] => heard[i]) /\ writers[i] = {}
    /\ parent' = [parent EXCEPT ![i] = "gone"]
    /\ UNCHANGED <<pc, cmd, files, writers, said, heard, ids, port, turn, end, spoilt>>

Parent(i) == ParentCloses(i) \/ ParentReads(i) \/ ParentExits(i)

-----------------------------------------------------------------------------
Init ==
    /\ pc = [i \in Inst |-> "off"]
    /\ cmd = [i \in Inst |-> [fg |-> TRUE, pidfile |-> FALSE, root |-> FALSE, abs |-> TRUE]]
    /\ path = None /\ fd = [i \in Inst |-> None]
    /\ pid = [f \in Inst |-> None] /\ holder = [f \in Inst |-> None]
    /\ writers = [i \in Inst |-> {}] /\ said = [i \in Inst |-> FALSE]
    /\ heard = [i \in Inst |-> FALSE] /\ parent = [i \in Inst |-> "none"]
    /\ ids = [i \in Inst |-> <<"user", "user">>]
    /\ port = [a \in {Address[k] : k \in 1..4} |-> None] /\ turn = [i \in Inst |-> 1]
    /\ end = [i \in Inst |-> "no"] /\ spoilt = FALSE

Proceed(i) ==
    \/ Open(i) \/ Fork(i) \/ Lock(i) \/ Setsid(i) \/ (\E ok \in BOOLEAN : WritePid(i, ok))
    \/ Chown(i) \/ SetId(i) \/ Detach(i) \/ (\E ok \in BOOLEAN : Listen(i, ok)) \/ Spawn(i)
    \/ FailsEarly(i) \/ ChildFails(i) \/ ListenFails(i) \/ SpawnFails(i)

Next ==
    \E i \in Inst :
        (\E c \in Commands : Start(i, c)) \/ Proceed(i) \/ Kill(i) \/ Parent(i)

\* Processes run; nobody has to start or to kill one.
Fairness == \A i \in Inst : WF_vars(Proceed(i)) /\ WF_vars(Parent(i))
Spec     == Init /\ [][Next]_vars /\ Fairness

-----------------------------------------------------------------------------
(* Properties. *)

\* The variables hold values of their types, and an instance has in its hands
\* what its point of daemonize says.
TypeOK ==
    /\ pc \in [Inst -> {Calls[k] : k \in 1..Len(Calls)} \union {"off", "end"}]
    /\ cmd \in [Inst -> [fg : BOOLEAN, pidfile : BOOLEAN, root : BOOLEAN, abs : BOOLEAN]]
    /\ path \in Inst \union {None} /\ fd \in [Inst -> Inst \union {None}]
    /\ pid \in [Inst -> Inst \union {None}] /\ holder \in [Inst -> Inst \union {None}]
    /\ writers \in [Inst -> SUBSET {"parent", "child"}]
    /\ said \in [Inst -> BOOLEAN] /\ heard \in [Inst -> BOOLEAN]
    /\ parent \in [Inst -> {"none", "forked", "reads", "gone"}]
    /\ port \in [{Address[k] : k \in 1..4} -> Inst \union {None}]
    /\ turn \in [Inst -> 1..4] /\ spoilt \in BOOLEAN
    /\ \A i \in Inst :
          /\ pc[i] = "lock" => fd[i] # None
          /\ pc[i] \in {"write", "chown"} => holder[fd[i]] = i

\* A pid file can be trusted: whoever else starts, fails or is killed at any
\* point, the file at the path is the one a running daemon has locked and names
\* that daemon, unless a pid file was unlinked or could not be written.
PidFileTrue ==
    \A i \in Inst :
        pc[i] \in {"listen", "monitor", "run"} /\ ~cmd[i].fg /\ cmd[i].pidfile /\ ~spoilt
            => path = fd[i] /\ pid[path] = i /\ holder[path] = i

\* The same without that exception.
PidFileAlways ==
    \A i \in Inst :
        pc[i] = "run" /\ ~cmd[i].fg /\ cmd[i].pidfile => path = fd[i] /\ pid[fd[i]] = i

\* The user hears of every failure of daemonize: the parent does not exit before
\* it has printed what the child has to say.
FailureTold ==
    \A i \in Inst : parent[i] = "gone" /\ end[i] = "told" => heard[i]

\* The user hears of every failure to start.
StartupTold ==
    \A i \in Inst : parent[i] = "gone" /\ end[i] \in {"told", "aborted"} => heard[i]

\* What root starts in the background binds its sockets as the user and the group
\* of the configuration, however the calls of daemonize fail.
Dropped ==
    \A i \in Inst :
        pc[i] \in {"listen", "monitor", "run"} /\ ~cmd[i].fg => ids[i] = <<"user", "user">>

\* Start-up in the background: typed, with a pid file that can be trusted and
\* without the privileges it was started with.
DaemonInv == TypeOK /\ PidFileTrue /\ Dropped

\* A command that daemonizes returns: the parent sees the end of the pipe,
\* whatever becomes of the child.
ParentEnds ==
    \A i \in Inst : parent[i] = "forked" ~> parent[i] = "gone"
=============================================================================
