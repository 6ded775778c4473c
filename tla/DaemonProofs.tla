---------------------------- MODULE DaemonProofs ----------------------------
(***************************************************************************)
(* Proofs about start-up, for any number of instances, started in any way, *)
(* with any system calls failing: the pid file, the dropped privileges,    *)
(* and the failures of the child that the parent reports.                  *)
(***************************************************************************)
EXTENDS Daemon, TLAPS

Command == [fg : BOOLEAN, pidfile : BOOLEAN, root : BOOLEAN, abs : BOOLEAN]

\* The addresses, without an order.
Socket == {Address[k] : k \in 1..4}

\* Where an instance is, by what it has done so far.
Unforked  == {"off", "open", "fork"}
Attached  == {"lock", "setsid", "write", "chown", "setgid", "setuid", "detach"}
Serving   == {"listen", "monitor", "run"}
Step      == Unforked \union Attached \union Serving \union {"end"}

\* An instance with a pid file has opened it, has locked it, has written to it.
HasFile(i)    == ~cmd[i].fg /\ cmd[i].pidfile
HasOpened(i)  == HasFile(i) /\ pc[i] \in {"fork"} \union Attached \union Serving
HasLocked(i)  == HasFile(i) /\ pc[i] \in (Attached \ {"lock"}) \union Serving
HasWritten(i) == HasFile(i) /\ pc[i] \in {"chown", "setgid", "setuid", "detach"} \union Serving

Typed ==
    /\ pc \in [Inst -> Step] /\ cmd \in [Inst -> Command]
    /\ path \in Inst \union {None} /\ fd \in [Inst -> Inst \union {None}]
    /\ pid \in [Inst -> Inst \union {None}] /\ holder \in [Inst -> Inst \union {None}]
    /\ writers \in [Inst -> SUBSET {"parent", "child"}]
    /\ said \in [Inst -> BOOLEAN] /\ heard \in [Inst -> BOOLEAN]
    /\ parent \in [Inst -> {"none", "forked", "reads", "gone"}]
    /\ ids \in [Inst -> {"root", "user"} \X {"root", "user"}]
    /\ port \in [Socket -> Inst \union {None}] /\ turn \in [Inst -> 1..4]
    /\ spoilt \in BOOLEAN
    /\ end \in [Inst -> {"no", "early", "told", "aborted", "killed"}]

\* An instance is only at calls that its command makes.
OnPath ==
    \A i \in Inst :
        /\ pc[i] \in {"open", "lock", "write", "chown"} => HasFile(i)
        /\ pc[i] \in {"chown", "setgid", "setuid"} => cmd[i].root
        /\ pc[i] \in {"fork"} \union Attached => ~cmd[i].fg

\* What an instance with a pid file knows of it.
Files ==
    \A i \in Inst :
        /\ HasOpened(i) => fd[i] \in Inst
        /\ HasLocked(i) => holder[fd[i]] = i
        /\ HasOpened(i) /\ ~spoilt => path = fd[i]
        /\ HasWritten(i) /\ ~spoilt => pid[fd[i]] = i

\* setgid comes before setuid, and both before the standard streams are gone.
Privileges ==
    \A i \in Inst :
        /\ ~cmd[i].root => ids[i] = <<"user", "user">>
        /\ pc[i] = "setuid" => ids[i][1] = "user"
        /\ pc[i] \in {"detach"} \union Serving /\ ~cmd[i].fg => ids[i] = <<"user", "user">>

\* The child holds the pipe open for as long as it may have to report a failure.
Pipes ==
    \A i \in Inst :
        /\ pc[i] \in Unforked => parent[i] = "none"
        /\ pc[i] \in Attached => "child" \in writers[i]
        /\ parent[i] = "gone" => writers[i] = {} /\ (said[i] => heard[i])
        /\ end[i] = "told" => said[i]

IInv == Typed /\ OnPath /\ Files /\ Privileges /\ Pipes
-----------------------------------------------------------------------------
(* The order of the system calls. *)

\* The first call from the n-th on that the command makes is the next one.
LEMMA FromAt ==
    ASSUME NEW c, NEW n \in 1..12, NEW k \in n..12,
           Does(c, Calls[k]), \A j \in n..(k - 1) : ~Does(c, Calls[j])
    PROVE  From(c, n) = Calls[k]
<1> DEFINE P(m) == Does(c, Calls[m]) /\ \A j \in n..(m - 1) : ~Does(c, Calls[j])
<1> HIDE DEF P
<1>1. Len(Calls) = 12 BY DEF Calls
<1>2. P(k) BY DEF P
<1>3. ASSUME NEW m \in n..12, P(m) PROVE m = k BY <1>2, <1>3 DEF P
<1>4. (CHOOSE m \in n..12 : P(m)) = k BY <1>2, <1>3
<1> QED BY <1>1, <1>4 DEF From, P

\* A call that the command does not make is skipped.
Reached(c, n) ==
    \E k \in n..12 : Does(c, Calls[k]) /\ \A j \in n..(k - 1) : ~Does(c, Calls[j])

LEMMA FromStep ==
    ASSUME NEW c, NEW n \in 1..11, Reached(c, n + 1)
    PROVE  /\ Reached(c, n)
           /\ Does(c, Calls[n]) => From(c, n) = Calls[n]
           /\ ~Does(c, Calls[n]) => From(c, n) = From(c, n + 1)
<1>1. CASE Does(c, Calls[n])
  <2>1. From(c, n) = Calls[n] BY <1>1, FromAt
  <2> QED BY <1>1, <2>1 DEF Reached
<1>2. CASE ~Does(c, Calls[n])
  <2>1. PICK k \in (n + 1)..12 :
            Does(c, Calls[k]) /\ \A j \in (n + 1)..(k - 1) : ~Does(c, Calls[j])
    BY DEF Reached
  <2>2. \A j \in n..(k - 1) : ~Does(c, Calls[j]) BY <1>2, <2>1
  <2>3. From(c, n) = Calls[k] BY <2>1, <2>2, FromAt
  <2>4. From(c, n + 1) = Calls[k] BY <2>1, FromAt
  <2> QED BY <1>2, <2>1, <2>2, <2>3, <2>4 DEF Reached
<1> QED BY <1>1, <1>2

\* The calls of main and daemonize, one by one.
LEMMA NextCall ==
    ASSUME NEW c \in Command
    PROVE  /\ From(c, 1) = IF c.fg THEN "listen" ELSE IF c.pidfile THEN "open" ELSE "fork"
           /\ ~c.fg =>
                 /\ From(c, 2) = "fork"
                 /\ From(c, 3) = IF c.pidfile THEN "lock" ELSE "setsid"
                 /\ From(c, 4) = "setsid"
                 /\ From(c, 5) = IF c.pidfile THEN "write" ELSE IF c.root THEN "setgid" ELSE "detach"
                 /\ From(c, 6) = IF ~c.root THEN "detach" ELSE IF c.pidfile THEN "chown" ELSE "setgid"
                 /\ From(c, 7) = IF c.root THEN "setgid" ELSE "detach"
                 /\ From(c, 8) = IF c.root THEN "setuid" ELSE "detach"
                 /\ From(c, 9) = "detach"
           /\ From(c, 10) = "listen" /\ From(c, 11) = "monitor" /\ From(c, 12) = "run"
<1>1. /\ Calls[1] = "open" /\ Calls[2] = "fork" /\ Calls[3] = "lock" /\ Calls[4] = "setsid"
      /\ Calls[5] = "write" /\ Calls[6] = "chown" /\ Calls[7] = "setgid" /\ Calls[8] = "setuid"
      /\ Calls[9] = "detach" /\ Calls[10] = "listen" /\ Calls[11] = "monitor"
      /\ Calls[12] = "run"
  BY DEF Calls
<1>2. /\ Does(c, "open") <=> ~c.fg /\ c.pidfile
      /\ Does(c, "lock") <=> ~c.fg /\ c.pidfile
      /\ Does(c, "write") <=> ~c.fg /\ c.pidfile
      /\ Does(c, "chown") <=> ~c.fg /\ c.pidfile /\ c.root
      /\ Does(c, "setgid") <=> ~c.fg /\ c.root
      /\ Does(c, "setuid") <=> ~c.fg /\ c.root
      /\ Does(c, "fork") <=> ~c.fg
      /\ Does(c, "setsid") <=> ~c.fg
      /\ Does(c, "detach") <=> ~c.fg
      /\ Does(c, "listen") /\ Does(c, "monitor") /\ Does(c, "run")
  BY DEF Does
<1>3. Reached(c, 12) /\ From(c, 12) = "run" BY <1>1, <1>2, FromAt DEF Reached
<1>4. Reached(c, 11) /\ From(c, 11) = "monitor" BY <1>1, <1>2, <1>3, FromStep
<1>5. Reached(c, 10) /\ From(c, 10) = "listen" BY <1>1, <1>2, <1>4, FromStep
<1>6. Reached(c, 9) /\ From(c, 9) = IF c.fg THEN "listen" ELSE "detach"
  BY <1>1, <1>2, <1>5, FromStep
<1>7. /\ Reached(c, 8)
      /\ From(c, 8) = IF c.fg THEN "listen" ELSE IF c.root THEN "setuid" ELSE "detach"
  BY <1>1, <1>2, <1>6, FromStep
<1>8. /\ Reached(c, 7)
      /\ From(c, 7) = IF c.fg THEN "listen" ELSE IF c.root THEN "setgid" ELSE "detach"
  BY <1>1, <1>2, <1>7, FromStep
<1>9. /\ Reached(c, 6)
      /\ From(c, 6) = IF c.fg THEN "listen" ELSE IF ~c.root THEN "detach"
                      ELSE IF c.pidfile THEN "chown" ELSE "setgid"
  BY <1>1, <1>2, <1>8, FromStep
<1>10. /\ Reached(c, 5)
       /\ From(c, 5) = IF c.fg THEN "listen" ELSE IF c.pidfile THEN "write"
                       ELSE IF c.root THEN "setgid" ELSE "detach"
  BY <1>1, <1>2, <1>9, FromStep
<1>11. Reached(c, 4) /\ From(c, 4) = IF c.fg THEN "listen" ELSE "setsid"
  BY <1>1, <1>2, <1>10, FromStep
<1>12. /\ Reached(c, 3)
       /\ From(c, 3) = IF c.fg THEN "listen" ELSE IF c.pidfile THEN "lock" ELSE "setsid"
  BY <1>1, <1>2, <1>11, FromStep
<1>13. Reached(c, 2) /\ From(c, 2) = IF c.fg THEN "listen" ELSE "fork"
  BY <1>1, <1>2, <1>12, FromStep
<1>14. From(c, 1) = IF c.fg THEN "listen" ELSE IF c.pidfile THEN "open" ELSE "fork"
  BY <1>1, <1>2, <1>13, FromStep
<1> QED
  BY <1>3, <1>4, <1>5, <1>6, <1>7, <1>8, <1>9, <1>10, <1>11, <1>12, <1>13, <1>14
-----------------------------------------------------------------------------
(* One step. *)

LEMMA Preserved ==
    ASSUME IInv, [Next]_vars
    PROVE  IInv'
<1> USE DaemonAssumption DEF IInv, Typed, files, pipe, Goto,
        Unforked, Attached, Serving, Step, HasFile, HasOpened, HasLocked, HasWritten
<1>1. ASSUME NEW i \in Inst, \/ \E c \in Commands : Start(i, c)
                             \/ Proceed(i) \/ Kill(i) \/ Parent(i)
      PROVE  IInv'
  <2>1. CASE \E c \in Commands : Start(i, c)
    <3> PICK c \in Commands : Start(i, c) BY <2>1
    <3>1. Typed' BY NextCall DEF Start, OnPath, Command
    <3>2. OnPath' BY NextCall DEF Start, OnPath, Command
    <3>3. Files' BY NextCall DEF Start, OnPath, Files, Command
    <3>4. Privileges'
      <4>1. cmd'[i] = c /\ c \in Command /\ pc'[i] = From(c, 1) BY DEF Start, Command
      <4>2. ids'[i] = IF c.root THEN <<"root", "root">> ELSE <<"user", "user">> BY DEF Start
      <4>3. \A j \in Inst \ {i} : cmd'[j] = cmd[j] /\ pc'[j] = pc[j] /\ ids'[j] = ids[j]
        BY DEF Start
      <4>4. From(c, 1) \in {"listen", "open", "fork"} /\ (From(c, 1) = "listen" => c.fg)
        BY <4>1, NextCall
      <4> QED BY <4>1, <4>2, <4>3, <4>4 DEF Privileges
    <3>5. Pipes' BY NextCall DEF Start, OnPath, Pipes, Command
    <3> QED BY <3>1, <3>2, <3>3, <3>4, <3>5
  <2>2. CASE Open(i)
    <3>1. Typed' BY <2>2, NextCall DEF Open, Kept, OnPath, Command
    <3>2. OnPath' BY <2>2, NextCall DEF Open, Kept, OnPath, Command
    <3>3. Files' BY <2>2, NextCall DEF Open, Kept, OnPath, Files, Command
    <3>4. Privileges' BY <2>2, NextCall DEF Open, Kept, OnPath, Privileges, Command
    <3>5. Pipes' BY <2>2, NextCall DEF Open, Kept, OnPath, Pipes, Command
    <3> QED BY <3>1, <3>2, <3>3, <3>4, <3>5
  <2>3. CASE FailsEarly(i)
    <3>1. Typed' BY <2>3 DEF FailsEarly, End
    <3>2. OnPath' BY <2>3 DEF FailsEarly, End, OnPath
    <3>3. Files' BY <2>3 DEF FailsEarly, End, Files
    <3>4. Privileges' BY <2>3 DEF FailsEarly, End, Privileges
    <3>5. Pipes' BY <2>3 DEF FailsEarly, End, Pipes
    <3> QED BY <3>1, <3>2, <3>3, <3>4, <3>5
  <2>4. CASE Fork(i)
    <3>1. Typed' BY <2>4, NextCall DEF Fork, OnPath, Command
    <3>2. OnPath' BY <2>4, NextCall DEF Fork, OnPath, Command
    <3>3. Files' BY <2>4, NextCall DEF Fork, OnPath, Files, Command
    <3>4. Privileges' BY <2>4, NextCall DEF Fork, OnPath, Privileges, Command
    <3>5. Pipes' BY <2>4, NextCall DEF Fork, OnPath, Pipes, Command
    <3> QED BY <3>1, <3>2, <3>3, <3>4, <3>5
  <2>5. CASE Lock(i)
    <3>1. Typed' BY <2>5, NextCall DEF Lock, Lockable, OnPath, Command
    <3>2. OnPath' BY <2>5, NextCall DEF Lock, Lockable, OnPath, Command
    <3>3. Files' BY <2>5, NextCall DEF Lock, Lockable, OnPath, Files, Command
    <3>4. Privileges' BY <2>5, NextCall DEF Lock, Lockable, OnPath, Privileges, Command
    <3>5. Pipes' BY <2>5, NextCall DEF Lock, Lockable, OnPath, Pipes, Command
    <3> QED BY <3>1, <3>2, <3>3, <3>4, <3>5
  <2>6. CASE ChildFails(i)
    <3>1. Typed'
      <4>1. /\ port' \in [Socket -> Inst \union {None}] /\ turn' \in [Inst -> 1..4]
            /\ holder' \in [Inst -> Inst \union {None}] /\ pc' \in [Inst -> Step]
        BY <2>6 DEF ChildFails, End
      <4>2. /\ end' \in [Inst -> {"no", "early", "told", "aborted", "killed"}]
            /\ writers' \in [Inst -> SUBSET {"parent", "child"}]
        BY <2>6 DEF ChildFails, End
      <4>3. path' \in Inst \union {None} /\ spoilt' \in BOOLEAN /\ said' \in [Inst -> BOOLEAN]
        BY <2>6 DEF ChildFails, Inform, Unlink
      <4> QED BY <2>6, <4>1, <4>2, <4>3 DEF ChildFails
    <3>2. OnPath' BY <2>6 DEF ChildFails, End, Inform, Unlink, Lockable, OnPath
    <3>3. Files' BY <2>6 DEF ChildFails, End, Inform, Unlink, Lockable, Files
    <3>4. Privileges' BY <2>6 DEF ChildFails, End, Inform, Unlink, Lockable, Privileges
    <3>5. Pipes' BY <2>6 DEF ChildFails, End, Inform, Unlink, Lockable, Pipes
    <3> QED BY <3>1, <3>2, <3>3, <3>4, <3>5
  <2>7. CASE Setsid(i)
    <3>1. Typed' BY <2>7, NextCall DEF Setsid, OnPath, Command
    <3>2. OnPath' BY <2>7, NextCall DEF Setsid, OnPath, Command
    <3>3. Files' BY <2>7, NextCall DEF Setsid, OnPath, Files, Command
    <3>4. Privileges' BY <2>7, NextCall DEF Setsid, OnPath, Privileges, Command
    <3>5. Pipes' BY <2>7, NextCall DEF Setsid, OnPath, Pipes, Command
    <3> QED BY <3>1, <3>2, <3>3, <3>4, <3>5
  <2>8. CASE \E ok \in BOOLEAN : WritePid(i, ok)
    <3>1. Typed' BY <2>8, NextCall DEF WritePid, OnPath, Files, Command
    <3>2. OnPath' BY <2>8, NextCall DEF WritePid, OnPath, Command
    <3>3. Files' BY <2>8, NextCall DEF WritePid, OnPath, Files, Command
    <3>4. Privileges' BY <2>8, NextCall DEF WritePid, OnPath, Privileges, Command
    <3>5. Pipes' BY <2>8, NextCall DEF WritePid, OnPath, Pipes, Command
    <3> QED BY <3>1, <3>2, <3>3, <3>4, <3>5
  <2>9. CASE Chown(i)
    <3>1. Typed' BY <2>9, NextCall DEF Chown, OnPath, Command
    <3>2. OnPath' BY <2>9, NextCall DEF Chown, OnPath, Command
    <3>3. Files' BY <2>9, NextCall DEF Chown, OnPath, Files, Command
    <3>4. Privileges' BY <2>9, NextCall DEF Chown, OnPath, Privileges, Command
    <3>5. Pipes' BY <2>9, NextCall DEF Chown, OnPath, Pipes, Command
    <3> QED BY <3>1, <3>2, <3>3, <3>4, <3>5
  <2>10. CASE SetId(i)
    <3>1. Typed' BY <2>10, NextCall DEF SetId, Changed, OnPath, Command
    <3>2. OnPath' BY <2>10, NextCall DEF SetId, Changed, OnPath, Command
    <3>3. Files' BY <2>10, NextCall DEF SetId, Changed, OnPath, Files, Command
    <3>4. Privileges' BY <2>10, NextCall DEF SetId, Changed, OnPath, Privileges, Command
    <3>5. Pipes' BY <2>10, NextCall DEF SetId, Changed, OnPath, Pipes, Command
    <3> QED BY <3>1, <3>2, <3>3, <3>4, <3>5
  <2>11. CASE Detach(i)
    <3>1. Typed' BY <2>11, NextCall DEF Detach, OnPath, Command
    <3>2. OnPath' BY <2>11, NextCall DEF Detach, OnPath, Command
    <3>3. Files' BY <2>11, NextCall DEF Detach, OnPath, Files, Command
    <3>4. Privileges' BY <2>11, NextCall DEF Detach, OnPath, Privileges, Command
    <3>5. Pipes' BY <2>11, NextCall DEF Detach, OnPath, Pipes, Command
    <3> QED BY <3>1, <3>2, <3>3, <3>4, <3>5
  <2>12. CASE \E ok \in BOOLEAN : Listen(i, ok)
    <3> PICK ok \in BOOLEAN : Listen(i, ok) BY <2>12
    <3>1. /\ pc[i] = "listen" /\ UNCHANGED <<cmd, files, pipe, ids, end, spoilt>>
          /\ pc' = [pc EXCEPT ![i] = From(cmd[i], IF turn[i] = 4 THEN 11 ELSE 10)]
      BY DEF Listen
    <3>2. From(cmd[i], IF turn[i] = 4 THEN 11 ELSE 10) \in {"listen", "monitor"}
      BY NextCall DEF Command
    <3>3. pc'[i] \in {"listen", "monitor"} /\ \A j \in Inst \ {i} : pc'[j] = pc[j]
      BY <3>1, <3>2
    <3>4. Address[turn[i]] \in Socket BY DEF Socket
    <3>5. port' \in [Socket -> Inst \union {None}] BY <3>4 DEF Listen
    <3>6. turn' \in [Inst -> 1..4] BY DEF Listen
    <3>7. pc' \in [Inst -> Step] BY <3>1, <3>2
    <3>8. Typed' BY <3>1, <3>5, <3>6, <3>7
    <3>9. OnPath' BY <3>1, <3>3 DEF OnPath
    <3>10. Files' BY <3>1, <3>3 DEF Files
    <3>11. Privileges' BY <3>1, <3>3 DEF Privileges
    <3>12. Pipes' BY <3>1, <3>3 DEF Pipes
    <3> QED BY <3>8, <3>9, <3>10, <3>11, <3>12
  <2>13. CASE ListenFails(i)
    <3>1. Typed' BY <2>13 DEF ListenFails, End
    <3>2. OnPath' BY <2>13 DEF ListenFails, End, OnPath
    <3>3. Files' BY <2>13 DEF ListenFails, End, Files
    <3>4. Privileges' BY <2>13 DEF ListenFails, End, Privileges
    <3>5. Pipes' BY <2>13 DEF ListenFails, End, Pipes
    <3> QED BY <3>1, <3>2, <3>3, <3>4, <3>5
  <2>14. CASE Spawn(i)
    <3>1. Typed' BY <2>14, NextCall DEF Spawn, OnPath, Command
    <3>2. OnPath' BY <2>14, NextCall DEF Spawn, OnPath, Command
    <3>3. Files' BY <2>14, NextCall DEF Spawn, OnPath, Files, Command
    <3>4. Privileges' BY <2>14, NextCall DEF Spawn, OnPath, Privileges, Command
    <3>5. Pipes' BY <2>14, NextCall DEF Spawn, OnPath, Pipes, Command
    <3> QED BY <3>1, <3>2, <3>3, <3>4, <3>5
  <2>15. CASE SpawnFails(i)
    <3>1. Typed' BY <2>15 DEF SpawnFails, End
    <3>2. OnPath' BY <2>15 DEF SpawnFails, End, OnPath
    <3>3. Files' BY <2>15 DEF SpawnFails, End, Files
    <3>4. Privileges' BY <2>15 DEF SpawnFails, End, Privileges
    <3>5. Pipes' BY <2>15 DEF SpawnFails, End, Pipes
    <3> QED BY <3>1, <3>2, <3>3, <3>4, <3>5
  <2>16. CASE Kill(i)
    <3>1. Typed' BY <2>16 DEF Kill, Alive, End
    <3>2. OnPath' BY <2>16 DEF Kill, Alive, End, OnPath
    <3>3. Files' BY <2>16 DEF Kill, Alive, End, Files
    <3>4. Privileges' BY <2>16 DEF Kill, Alive, End, Privileges
    <3>5. Pipes' BY <2>16 DEF Kill, Alive, End, Pipes
    <3> QED BY <3>1, <3>2, <3>3, <3>4, <3>5
  <2>17. CASE ParentCloses(i)
    <3>1. Typed' BY <2>17 DEF ParentCloses, ParentClosed
    <3>2. OnPath' BY <2>17 DEF ParentCloses, ParentClosed, OnPath
    <3>3. Files' BY <2>17 DEF ParentCloses, ParentClosed, Files
    <3>4. Privileges' BY <2>17 DEF ParentCloses, ParentClosed, Privileges
    <3>5. Pipes' BY <2>17 DEF ParentCloses, ParentClosed, Pipes
    <3> QED BY <3>1, <3>2, <3>3, <3>4, <3>5
  <2>18. CASE ParentReads(i)
    <3>1. Typed' BY <2>18 DEF ParentReads
    <3>2. OnPath' BY <2>18 DEF ParentReads, OnPath
    <3>3. Files' BY <2>18 DEF ParentReads, Files
    <3>4. Privileges' BY <2>18 DEF ParentReads, Privileges
    <3>5. Pipes' BY <2>18 DEF ParentReads, Pipes
    <3> QED BY <3>1, <3>2, <3>3, <3>4, <3>5
  <2>19. CASE ParentExits(i)
    <3>1. Typed' BY <2>19 DEF ParentExits
    <3>2. OnPath' BY <2>19 DEF ParentExits, OnPath
    <3>3. Files' BY <2>19 DEF ParentExits, Files
    <3>4. Privileges' BY <2>19 DEF ParentExits, Privileges
    <3>5. Pipes' BY <2>19 DEF ParentExits, Pipes
    <3> QED BY <3>1, <3>2, <3>3, <3>4, <3>5
  <2> QED BY <1>1, <2>1, <2>2, <2>3, <2>4, <2>5, <2>6, <2>7, <2>8, <2>9, <2>10,
            <2>11, <2>12, <2>13, <2>14, <2>15, <2>16, <2>17, <2>18, <2>19
         DEF Proceed, Parent
<1>2. CASE UNCHANGED vars BY <1>2 DEF vars, OnPath, Files, Privileges, Pipes
<1> QED BY <1>1, <1>2 DEF Next

-----------------------------------------------------------------------------
(* What follows. *)

LEMMA Initially == Init => IInv
<1> SUFFICES ASSUME Init PROVE IInv OBVIOUS
<1> USE DaemonAssumption DEF Init
<1>1. Typed
  <2>1. port \in [Socket -> Inst \union {None}] /\ turn \in [Inst -> 1..4] BY DEF Socket
  <2>2. cmd \in [Inst -> Command] /\ pc \in [Inst -> Step] BY DEF Command, Step, Unforked
  <2> QED BY <2>1, <2>2 DEF Typed
<1>2. /\ \A i \in Inst : pc[i] = "off" /\ cmd[i].fg /\ ~cmd[i].root
      /\ \A i \in Inst : ids[i] = <<"user", "user">> /\ parent[i] = "none" /\ end[i] = "no"
  OBVIOUS
<1>3. OnPath /\ Files BY <1>2 DEF OnPath, Files, HasFile, HasOpened, HasLocked, HasWritten,
                            Attached, Serving
<1>4. Privileges BY <1>2 DEF Privileges, Serving
<1>5. Pipes BY <1>2 DEF Pipes, Attached
<1> QED BY <1>1, <1>3, <1>4, <1>5 DEF IInv

LEMMA Invariant == Spec => []IInv
<1>1. IInv /\ [Next]_vars => IInv' BY Preserved
<1> QED BY Initially, <1>1, PTL DEF Spec

LEMMA Implied == IInv => DaemonInv /\ FailureTold
<1> SUFFICES ASSUME IInv PROVE DaemonInv /\ FailureTold OBVIOUS
<1> USE DEF IInv, Typed, OnPath, Files, Unforked, Attached, Serving, Step,
        HasFile, HasOpened, HasLocked, HasWritten
<1>1. {Calls[k] : k \in 1..Len(Calls)} = Step \ {"off", "end"}
  <2>1. Len(Calls) = 12 BY DEF Calls
  <2>2. /\ Calls[1] = "open" /\ Calls[2] = "fork" /\ Calls[3] = "lock" /\ Calls[4] = "setsid"
        /\ Calls[5] = "write" /\ Calls[6] = "chown" /\ Calls[7] = "setgid"
        /\ Calls[8] = "setuid" /\ Calls[9] = "detach" /\ Calls[10] = "listen"
        /\ Calls[11] = "monitor" /\ Calls[12] = "run"
    BY DEF Calls
  <2>3. \A k \in 1..12 : \/ k = 1 \/ k = 2 \/ k = 3 \/ k = 4 \/ k = 5 \/ k = 6 \/ k = 7
                          \/ k = 8 \/ k = 9 \/ k = 10 \/ k = 11 \/ k = 12
    OBVIOUS
  <2> QED BY <2>1, <2>2, <2>3
<1>2. TypeOK
  <2>1. pc \in [Inst -> {Calls[k] : k \in 1..Len(Calls)} \union {"off", "end"}] BY <1>1
  <2> QED BY <2>1, DaemonAssumption DEF TypeOK, Command, Socket
<1>3. PidFileTrue BY DEF PidFileTrue
<1>4. Dropped BY DEF Dropped, Privileges
<1>5. FailureTold BY DEF FailureTold, Pipes
<1> QED BY <1>2, <1>3, <1>4, <1>5 DEF DaemonInv

\* Type correctness; the pid file names, and is locked by, the daemon that has
\* got as far as its sockets, unless one was unlinked or could not be written; and
\* that daemon has given up its privileges (daemonize).
THEOREM StartUpSafe == Spec => []DaemonInv
<1>1. IInv => DaemonInv BY Implied
<1> QED BY Invariant, <1>1, PTL

\* The parent does not exit before it has printed the failure its child has
\* written to the pipe (inform_parent).
THEOREM FailuresTold == Spec => []FailureTold
<1>1. IInv => FailureTold BY Implied
<1> QED BY Invariant, <1>1, PTL
=============================================================================
