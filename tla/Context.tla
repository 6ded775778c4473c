------------------------------ MODULE Context ------------------------------
(***************************************************************************)
(* The shared dataset of pgrouter, the CONTEXT of src/pgrouter.h, and the  *)
(* threads that read and write it under its read/write locks:              *)
(*   - the watcher (src/watcher.c) probes the backends and publishes their *)
(*     status, role and replication lag;                                   *)
(*   - the workers (src/worker.c) count their client in and out, look it   *)
(*     up in the authdb, and choose a reader and a writer for it;          *)
(*   - the monitor (src/monitor.c) reports the dataset to its clients;     *)
(*   - the supervisor (src/main.c) reloads the configuration on SIGHUP and *)
(*     cancels and joins all threads on SIGTERM.                           *)
(*                                                                         *)
(* A step runs from one lock operation or blocking call to the next.  The  *)
(* locks are pthread_rwlocks that prefer readers.  Lock 0 is the lock of   *)
(* the context, lock i in 1..N that of the i-th backend.  The session that *)
(* follows a choice of backends is the subject of module Session; here it  *)
(* is one step.                                                            *)
(***************************************************************************)
EXTENDS Integers, FiniteSets, Sequences

CONSTANTS N,           \* c->num_backends
          Worker,      \* the worker threads
          Weight,      \* weight of each backend
          Threshold,   \* lag threshold of each backend
          Probes,      \* what a health check may find, see Check
          Garbage,     \* values an uninitialised master_pos may have
          IntHalf,     \* an int holds -IntHalf .. IntHalf - 1: 2^31
          LagMod,      \* a lag_t is taken modulo this: 2^64
          HiUnit,      \* the weight of the first half of a WAL location: 2^32
          MaxArrivals, \* bound: connections to the worker and monitor ports, and signals
          Signals      \* the signals that may arrive, from {"hup", "term"}

Backend == 1..N
Lock    == 0..N
Thread  == Worker \union {"watcher", "monitor", "super"}

Status == {"OK", "STARTING", "FAILED", "HALFUP"}
Role   == {"UNKNOWN", "MASTER", "SLAVE"}

ASSUME ContextAssumption ==
    /\ N \in Nat \ {0}
    /\ IsFiniteSet(Worker)
    /\ {"watcher", "monitor", "super"} \intersect Worker = {}
    /\ Weight \in [Backend -> Nat] /\ Threshold \in [Backend -> Nat]
    /\ \A p \in Probes :
          /\ p.ok \in Status /\ p.role \in Role \union {"kept"}
          /\ p.pos.hi \in Seq(0..15) /\ p.pos.lo \in Seq(0..15)
    /\ Garbage # {} /\ Garbage \subseteq Int
    /\ IntHalf \in Nat \ {0} /\ LagMod \in Nat \ {0} /\ HiUnit \in Nat \ {0}
    /\ MaxArrivals \in Nat
    /\ Signals \subseteq {"hup", "term"}

VARIABLES
    \* the dataset
    status, role, lag,   \* of each backend, as published
    ok_backends,         \* c->ok_backends
    fe_conns,            \* c->fe_conns
    workers,             \* c->workers
    \* the locks
    rd, wr,              \* which threads hold each lock for reading, writing
    \* the watcher
    wpc, wi,             \* its step and loop index
    h,                   \* BACKENDS[], its private health records
    master_pos,
    \* the workers
    pc, ix,              \* step and loop index of each
    weights, cumulative, \* locals of determine_backends
    r,                   \* the random value drawn
    reader, writer,      \* the backends chosen, 0 for none
    \* the monitor
    mpc, mi,
    repOk, repLines,     \* the report: the count sent, the lines that say OK
    \* the supervisor and the process
    spc,
    cancelled,           \* threads with a pending cancellation
    crashed,             \* has the process died of a fault?
    arrivals             \* connections and signals so far

data   == <<status, role, lag, ok_backends, fe_conns, workers>>
locks  == <<rd, wr>>
wvars  == <<wpc, wi, h, master_pos>>
kvars  == <<pc, ix, weights, cumulative, r, reader, writer>>
mvars  == <<mpc, mi, repOk, repLines>>
svars  == <<spc, cancelled, crashed, arrivals>>
vars   == <<data, locks, wvars, kvars, mvars, svars>>

-----------------------------------------------------------------------------
(* src/locks.inc.c over pthread_rwlock *)

rdlock(l, t) ==
    /\ wr[l] = {}
    /\ rd' = [rd EXCEPT ![l] = @ \union {t}]
    /\ UNCHANGED wr

wrlock(l, t) ==
    /\ wr[l] = {} /\ rd[l] = {}
    /\ wr' = [wr EXCEPT ![l] = {t}]
    /\ UNCHANGED rd

\* unlock of every lock of the set ls.
unlock(ls, t) ==
    /\ rd' = [l \in Lock |-> IF l \in ls THEN rd[l] \ {t} ELSE rd[l]]
    /\ wr' = [l \in Lock |-> IF l \in ls THEN wr[l] \ {t} ELSE wr[l]]

-----------------------------------------------------------------------------
(* The watcher: do_watcher *)

W == "watcher"

WatchRdlock ==
    /\ wpc = "rdlock"
    /\ rdlock(0, W)
    /\ wpc' = "refresh" /\ wi' = 1
    /\ UNCHANGED <<data, h, master_pos, kvars, mvars, svars>>

\* Under the read lock of backend wi: a record that is older than the backend's
\* configuration (its serial is 1 from the start) is filled in.
WatchRefresh ==
    /\ wpc = "refresh" /\ wi \in Backend
    /\ rdlock(wi, W)
    /\ h' = IF h[wi].serial # 1
            THEN [h EXCEPT ![wi].serial = 1, ![wi].role = role[wi]] ELSE h
    /\ wpc' = "refreshed"
    /\ UNCHANGED <<data, wi, master_pos, kvars, mvars, svars>>

WatchRefreshed ==
    /\ wpc = "refreshed"
    /\ unlock({wi}, W)
    /\ wpc' = "refresh" /\ wi' = wi + 1
    /\ UNCHANGED <<data, h, master_pos, kvars, mvars, svars>>

\* The context is unlocked, and the probing begins with a master_pos that has
\* not been assigned: what the last round left in its place, or anything else.
WatchUnlock ==
    /\ wpc = "refresh" /\ wi = N + 1
    /\ unlock({0}, W)
    /\ wpc' = "check" /\ wi' = 1
    /\ master_pos' \in Garbage \union {master_pos}
    /\ UNCHANGED <<data, h, kvars, mvars, svars>>

\* The assignment of an unsigned 64-bit position to an int.
ToInt(p) == ((p + IntHalf) % (2 * IntHalf)) - IntHalf

\* The number that digits of these values stand for, in a base.
Number(s, base) ==
    LET v[n \in 0..Len(s)] == IF n = 0 THEN 0 ELSE (v[n - 1] * base + s[n]) % LagMod
    IN v[Len(s)]

\* xlog(): the tests for a letter are never reached, so every octet counts as its
\* distance from '0', which for 'A' is 17; and 0xf is taken for the base.
Distance(s) == [i \in DOMAIN s |-> IF s[i] < 10 THEN s[i] ELSE s[i] + 7]
xlog(p) == (Number(Distance(p.hi), 15) * HiUnit + Number(Distance(p.lo), 15)) % LagMod

\* One health check.  The result p says how far it got: p.role is "kept" if it
\* ended before pg_is_in_recovery() was known, p.pos has no digits if there was no
\* position.
WatchCheck ==
    /\ wpc = "check" /\ wi \in Backend
    /\ \E p \in Probes :
          LET newrole == IF p.role = "kept" THEN h[wi].role ELSE p.role
          IN /\ h' = [h EXCEPT ![wi].ok = p.ok, ![wi].role = newrole, ![wi].pos = xlog(p.pos)]
             /\ master_pos' = IF p.ok = "OK" /\ newrole = "MASTER"
                              THEN ToInt(xlog(p.pos)) ELSE master_pos
    /\ wi' = wi + 1
    /\ UNCHANGED <<data, locks, wpc, kvars, mvars, svars>>

\* Mutant: the findings are published under the read lock.
WatchWrlockShared ==
    /\ wpc = "check" /\ wi = N + 1
    /\ rdlock(0, W)
    /\ ok_backends' = 0
    /\ wpc' = "publish" /\ wi' = 1
    /\ UNCHANGED <<status, role, lag, fe_conns, workers, h, master_pos, kvars, mvars, svars>>

WatchWrlock ==
    /\ wpc = "check" /\ wi = N + 1
    /\ wrlock(0, W)
    /\ ok_backends' = 0
    /\ wpc' = "publish" /\ wi' = 1
    /\ UNCHANGED <<status, role, lag, fe_conns, workers, h, master_pos, kvars, mvars, svars>>

\* The lag of a backend, unsigned.
LagOf(i) == (master_pos - h[i].pos) % LagMod

\* Under the write lock of backend wi, if its serial is the one that was
\* checked: the findings become visible.
WatchPublish ==
    /\ wpc = "publish" /\ wi \in Backend
    /\ wrlock(wi, W)
    /\ IF h[wi].serial = 1
       THEN /\ ok_backends' = IF h[wi].ok = "OK" THEN ok_backends + 1 ELSE ok_backends
            /\ status' = [status EXCEPT ![wi] = h[wi].ok]
            /\ role' = [role EXCEPT ![wi] = h[wi].role]
            /\ lag' = [lag EXCEPT ![wi] = LagOf(wi)]
       ELSE UNCHANGED <<ok_backends, status, role, lag>>
    /\ wpc' = "published"
    /\ UNCHANGED <<fe_conns, workers, wi, h, master_pos, kvars, mvars, svars>>

WatchPublished ==
    /\ wpc = "published"
    /\ unlock({wi}, W)
    /\ wpc' = "publish" /\ wi' = wi + 1
    /\ UNCHANGED <<data, h, master_pos, kvars, mvars, svars>>

WatchDone ==
    /\ wpc = "publish" /\ wi = N + 1
    /\ unlock({0}, W)
    /\ wpc' = "sleep" /\ wi' = 1
    /\ UNCHANGED <<data, h, master_pos, kvars, mvars, svars>>

WatchWake ==
    /\ wpc = "sleep"
    /\ wpc' = "rdlock"
    /\ UNCHANGED <<data, locks, wi, h, master_pos, kvars, mvars, svars>>

Watcher ==
    \/ WatchRdlock \/ WatchRefresh \/ WatchRefreshed \/ WatchUnlock \/ WatchCheck
    \/ WatchWrlock \/ WatchPublish \/ WatchPublished \/ WatchDone \/ WatchWake

-----------------------------------------------------------------------------
(* A worker: do_worker, handle_client up to the session, determine_backends *)

Goto(w, l) == pc' = [pc EXCEPT ![w] = l]

\* accept() returns a client.
WorkAccept(w) ==
    /\ pc[w] = "idle" /\ arrivals < MaxArrivals
    /\ arrivals' = arrivals + 1
    /\ Goto(w, "count")
    /\ UNCHANGED <<data, locks, wvars, ix, weights, cumulative, r, reader, writer,
                   mvars, spc, cancelled, crashed>>

WorkCount(w) ==
    /\ pc[w] = "count"
    /\ wrlock(0, w)
    /\ fe_conns' = fe_conns + 1
    /\ Goto(w, "counted")
    /\ UNCHANGED <<status, role, lag, ok_backends, workers, wvars, ix, weights, cumulative,
                   r, reader, writer, mvars, svars>>

WorkCounted(w) ==
    /\ pc[w] = "counted"
    /\ unlock({0}, w)
    /\ Goto(w, "greet")
    /\ UNCHANGED <<data, wvars, ix, weights, cumulative, r, reader, writer, mvars, svars>>

\* pgr_conn_accept: the exchange with the client fails, or reaches the lookup
\* of the user (pgr_auth_find); after that the password is right or not.
WorkGreet(w) ==
    /\ pc[w] = "greet"
    /\ \E l \in {"lookup", "leave"} : Goto(w, l)
    /\ UNCHANGED <<data, locks, wvars, ix, weights, cumulative, r, reader, writer, mvars, svars>>

WorkLookup(w) ==
    /\ pc[w] = "lookup"
    /\ rdlock(0, w)
    /\ Goto(w, "found")
    /\ UNCHANGED <<data, wvars, ix, weights, cumulative, r, reader, writer, mvars, svars>>

\* Mutant: a client that is refused is not counted out.
WorkFoundForgets(w) ==
    /\ pc[w] = "found"
    /\ unlock({0}, w)
    /\ \E l \in {"determine", "idle"} : Goto(w, l)
    /\ UNCHANGED <<data, wvars, ix, weights, cumulative, r, reader, writer, mvars, svars>>

WorkFound(w) ==
    /\ pc[w] = "found"
    /\ unlock({0}, w)
    /\ \E l \in {"determine", "leave"} : Goto(w, l)
    /\ UNCHANGED <<data, wvars, ix, weights, cumulative, r, reader, writer, mvars, svars>>

\* The locals of determine_backends, as calloc and the assignment leave them.
ClearLocals(w) ==
    /\ ix' = [ix EXCEPT ![w] = 1]
    /\ weights' = [weights EXCEPT ![w] = [i \in Backend |-> 0]]
    /\ cumulative' = [cumulative EXCEPT ![w] = 0]

\* Mutant: the context is not locked while the backends are scanned.
WorkDetermineUnlocked(w) ==
    /\ pc[w] = "determine"
    /\ UNCHANGED locks
    /\ Goto(w, "scan")
    /\ ClearLocals(w)
    /\ UNCHANGED <<data, wvars, r, reader, writer, mvars, svars>>

WorkDetermine(w) ==
    /\ pc[w] = "determine"
    /\ rdlock(0, w)
    /\ Goto(w, "scan")
    /\ ClearLocals(w)
    /\ UNCHANGED <<data, wvars, r, reader, writer, mvars, svars>>

Viable(i) == role[i] # "MASTER" /\ status[i] = "OK" /\ lag[i] < Threshold[i]

\* Under the read lock of the backend: a master becomes the writer, a viable
\* backend adds its weight.
WorkScan(w) ==
    /\ pc[w] = "scan" /\ ix[w] \in Backend
    /\ rdlock(ix[w], w)
    /\ LET i == ix[w]
       IN /\ writer' = IF role[i] = "MASTER" THEN [writer EXCEPT ![w] = i] ELSE writer
          /\ IF Viable(i)
             THEN /\ cumulative' = [cumulative EXCEPT ![w] = @ + Weight[i]]
                  /\ weights' = [weights EXCEPT ![w][i] = cumulative[w] + Weight[i]]
             ELSE UNCHANGED <<cumulative, weights>>
    /\ Goto(w, "scanned")
    /\ UNCHANGED <<data, wvars, ix, r, reader, mvars, svars>>

WorkScanned(w) ==
    /\ pc[w] = "scanned"
    /\ unlock({ix[w]}, w)
    /\ Goto(w, "scan")
    /\ ix' = [ix EXCEPT ![w] = @ + 1]
    /\ UNCHANGED <<data, wvars, weights, cumulative, r, reader, writer, mvars, svars>>

\* Mutant: the early return leaves the context locked.
WorkNoneViableKeeps(w) ==
    /\ pc[w] = "scan" /\ ix[w] = N + 1 /\ cumulative[w] = 0
    /\ UNCHANGED locks
    /\ Goto(w, "leave")
    /\ ClearLocals(w)
    /\ UNCHANGED <<data, wvars, r, reader, writer, mvars, svars>>

WorkNoneViable(w) ==
    /\ pc[w] = "scan" /\ ix[w] = N + 1 /\ cumulative[w] = 0
    /\ unlock({0}, w)
    /\ Goto(w, "leave")
    /\ ClearLocals(w)
    /\ UNCHANGED <<data, wvars, r, reader, writer, mvars, svars>>

\* pgr_rand(0, cumulative): both ends included.
Draws(w) == 0..cumulative[w]

\* Mutant: the comparison is strict.
PickedByStrict(w, x) == {i \in Backend : x < weights[w][i]
                                         /\ \A j \in 1..(i - 1) : ~(x < weights[w][j])}

\* The first backend whose cumulative weight reaches the value drawn.
PickedBy(w, x) == {i \in Backend : x <= weights[w][i]
                                   /\ \A j \in 1..(i - 1) : ~(x <= weights[w][j])}

\* A value is drawn; under the read lock of the backend it picks, that backend
\* becomes the reader.  (If it picked none, determine_backends would give up.)
WorkPick(w) ==
    /\ pc[w] = "scan" /\ ix[w] = N + 1 /\ cumulative[w] # 0
    /\ \E x \in Draws(w) :
          IF PickedBy(w, x) = {}
          THEN unlock({0}, w) /\ Goto(w, "fellthrough") /\ UNCHANGED <<r, reader>>
          ELSE \E i \in PickedBy(w, x) :
                  /\ rdlock(i, w)
                  /\ r' = [r EXCEPT ![w] = x]
                  /\ reader' = [reader EXCEPT ![w] = i]
                  /\ Goto(w, "picked")
    /\ UNCHANGED <<data, wvars, ix, weights, cumulative, writer, mvars, svars>>

WorkPicked(w) ==
    /\ pc[w] = "picked"
    /\ unlock({0, reader[w]}, w)
    /\ Goto(w, "connect")
    /\ ClearLocals(w)
    /\ UNCHANGED <<data, wvars, r, reader, writer, mvars, svars>>

\* pgr_conn_connect to the reader, then to the writer; either may fail.
WorkConnect(w) ==
    /\ pc[w] = "connect"
    /\ \/ Goto(w, "leave")
       \/ writer[w] # 0 /\ Goto(w, "serve")
    /\ UNCHANGED <<data, locks, wvars, ix, weights, cumulative, r, reader, writer, mvars, svars>>

\* To connect to a writer that was never set dereferences its NULL hostname,
\* and the whole process dies.
WorkCrash(w) ==
    /\ pc[w] = "connect" /\ writer[w] = 0
    /\ crashed' = TRUE
    /\ pc' = [v \in Worker |-> "dead"]
    /\ wpc' = "dead" /\ mpc' = "dead" /\ spc' = "dead"
    /\ UNCHANGED <<data, locks, wi, h, master_pos, ix, weights, cumulative, r, reader, writer,
                   mi, repOk, repLines, cancelled, arrivals>>

\* The session ends.
WorkServed(w) ==
    /\ pc[w] = "serve"
    /\ Goto(w, "leave")
    /\ UNCHANGED <<data, locks, wvars, ix, weights, cumulative, r, reader, writer, mvars, svars>>

\* handle_client has closed and cleared its connections; the client is counted
\* out.
WorkLeave(w) ==
    /\ pc[w] \in {"leave", "fellthrough"}
    /\ wrlock(0, w)
    /\ fe_conns' = fe_conns - 1
    /\ r' = [r EXCEPT ![w] = 0]
    /\ reader' = [reader EXCEPT ![w] = 0]
    /\ writer' = [writer EXCEPT ![w] = 0]
    /\ Goto(w, "left")
    /\ UNCHANGED <<status, role, lag, ok_backends, workers, wvars, ix, weights, cumulative,
                   mvars, svars>>

WorkLeft(w) ==
    /\ pc[w] = "left"
    /\ unlock({0}, w)
    /\ Goto(w, "idle")
    /\ UNCHANGED <<data, wvars, ix, weights, cumulative, r, reader, writer, mvars, svars>>

\* What a worker does by itself once it has a client.
Work(w) ==
    \/ WorkCount(w) \/ WorkCounted(w) \/ WorkGreet(w) \/ WorkLookup(w) \/ WorkFound(w)
    \/ WorkDetermine(w) \/ WorkScan(w) \/ WorkScanned(w) \/ WorkNoneViable(w)
    \/ WorkPick(w) \/ WorkPicked(w) \/ WorkConnect(w) \/ WorkCrash(w) \/ WorkServed(w)
    \/ WorkLeave(w) \/ WorkLeft(w)

-----------------------------------------------------------------------------
(* The monitor: do_monitor and its handle_client *)

M == "monitor"

MonAccept ==
    /\ mpc = "idle" /\ arrivals < MaxArrivals
    /\ arrivals' = arrivals + 1
    /\ mpc' = "rdlock"
    /\ UNCHANGED <<data, locks, wvars, kvars, mi, repOk, repLines, spc, cancelled, crashed>>

MonRdlock ==
    /\ mpc = "rdlock"
    /\ rdlock(0, M)
    /\ mpc' = "head" /\ repLines' = 0
    /\ UNCHANGED <<data, wvars, kvars, mi, repOk, svars>>

\* The lines about the context are written to the client.
MonHead ==
    /\ mpc = "head"
    /\ repOk' = ok_backends
    /\ mpc' = "lines" /\ mi' = 1
    /\ UNCHANGED <<data, locks, wvars, kvars, repLines, svars>>

MonLock ==
    /\ mpc = "lines" /\ mi \in Backend
    /\ rdlock(mi, M)
    /\ mpc' = "line"
    /\ UNCHANGED <<data, wvars, kvars, mi, repOk, repLines, svars>>

\* The line of backend mi is written to the client, and the backend unlocked.
MonLine ==
    /\ mpc = "line"
    /\ repLines' = IF status[mi] = "OK" THEN repLines + 1 ELSE repLines
    /\ unlock({mi}, M)
    /\ mpc' = "lines" /\ mi' = mi + 1
    /\ UNCHANGED <<data, wvars, kvars, repOk, svars>>

\* Mutant: the context stays locked.
MonUnlockKeeps ==
    /\ mpc = "lines" /\ mi = N + 1
    /\ UNCHANGED locks
    /\ mpc' = "reported"
    /\ UNCHANGED <<data, wvars, kvars, mi, repOk, repLines, svars>>

MonUnlock ==
    /\ mpc = "lines" /\ mi = N + 1
    /\ unlock({0}, M)
    /\ mpc' = "reported"
    /\ UNCHANGED <<data, wvars, kvars, mi, repOk, repLines, svars>>

\* close(connfd)
MonClose ==
    /\ mpc = "reported"
    /\ mpc' = "idle" /\ mi' = 1 /\ repOk' = 0 /\ repLines' = 0
    /\ UNCHANGED <<data, locks, wvars, kvars, svars>>

Monitor == MonRdlock \/ MonHead \/ MonLock \/ MonLine \/ MonUnlock \/ MonClose

-----------------------------------------------------------------------------
(* The supervisor: the signal loop of main, and do_shutdown *)

S == "super"

\* sigwait returns.  A reload may set any number of workers; a shutdown first
\* cancels every other thread.
Signal(sig) ==
    /\ spc = "wait" /\ sig \in Signals /\ arrivals < MaxArrivals
    /\ arrivals' = arrivals + 1
    /\ IF sig = "hup" THEN spc' = "hup" /\ UNCHANGED cancelled
                      ELSE spc' = "join" /\ cancelled' = Thread \ {S}
    /\ UNCHANGED <<data, locks, wvars, kvars, mvars, crashed>>

\* pgr_configure(c, config, 1): `workers` is updated, the backends are not.
Reload ==
    /\ spc = "hup"
    /\ wrlock(0, S)
    /\ workers' \in {Cardinality(Worker), Cardinality(Worker) + 1}
    /\ spc' = "reloaded"
    /\ UNCHANGED <<status, role, lag, ok_backends, fe_conns, wvars, kvars, mvars,
                   cancelled, crashed, arrivals>>

Reloaded ==
    /\ spc = "reloaded"
    /\ unlock({0}, S)
    /\ spc' = "wait"
    /\ UNCHANGED <<data, wvars, kvars, mvars, cancelled, crashed, arrivals>>

\* All joins have returned; pgr_deconfigure frees the dataset and main returns.
Exit ==
    /\ spc = "join"
    /\ wpc = "dead" /\ mpc = "dead" /\ \A w \in Worker : pc[w] = "dead"
    /\ spc' = "exit"
    /\ UNCHANGED <<data, locks, wvars, kvars, mvars, cancelled, crashed, arrivals>>

\* A cancelled thread ends at its next cancellation point: a wait for input, a
\* read or a write, a sleep.  Acquiring a pthread_rwlock is none, and the locks
\* that the thread holds stay locked.
WatchDie ==
    /\ W \in cancelled /\ wpc \in {"check", "sleep"}
    /\ wpc' = "dead"
    /\ UNCHANGED <<data, locks, wi, h, master_pos, kvars, mvars, svars>>

MonDie ==
    /\ M \in cancelled /\ mpc \in {"idle", "head", "line"}
    /\ mpc' = "dead"
    /\ UNCHANGED <<data, locks, wvars, kvars, mi, repOk, repLines, svars>>

WorkDie(w) ==
    /\ w \in cancelled /\ pc[w] \in {"idle", "greet", "connect", "serve"}
    /\ Goto(w, "dead")
    /\ UNCHANGED <<data, locks, wvars, ix, weights, cumulative, r, reader, writer, mvars, svars>>

-----------------------------------------------------------------------------
\* The state when main has started the threads: pgr_context has marked every
\* backend as starting, its role is not known.
Init ==
    /\ status = [i \in Backend |-> "STARTING"]
    /\ role = [i \in Backend |-> "UNKNOWN"]
    /\ lag = [i \in Backend |-> 0]
    /\ ok_backends = 0 /\ fe_conns = 0 /\ workers = Cardinality(Worker)
    /\ rd = [l \in Lock |-> {}] /\ wr = [l \in Lock |-> {}]
    /\ wpc = "rdlock" /\ wi = 1
    /\ h = [i \in Backend |-> [serial |-> 0, ok |-> "OK", role |-> "UNKNOWN", pos |-> 0]]
    /\ master_pos \in Garbage
    /\ pc = [w \in Worker |-> "idle"] /\ ix = [w \in Worker |-> 1]
    /\ weights = [w \in Worker |-> [i \in Backend |-> 0]]
    /\ cumulative = [w \in Worker |-> 0] /\ r = [w \in Worker |-> 0]
    /\ reader = [w \in Worker |-> 0] /\ writer = [w \in Worker |-> 0]
    /\ mpc = "idle" /\ mi = 1 /\ repOk = 0 /\ repLines = 0
    /\ spc = "wait" /\ cancelled = {} /\ crashed = FALSE /\ arrivals = 0

Next ==
    \/ Watcher \/ WatchDie
    \/ \E w \in Worker : WorkAccept(w) \/ Work(w) \/ WorkDie(w)
    \/ MonAccept \/ Monitor \/ MonDie
    \/ \E sig \in Signals : Signal(sig)
    \/ Reload \/ Reloaded \/ Exit

Spec == Init /\ [][Next]_vars

\* Every thread runs when it can (the clients, the backends and the sessions it
\* waits for make progress), and a cancellation is acted upon.  A thread that
\* waits for the context's lock gets it if the lock is free again and again:
\* once connections have stopped only the watcher still takes it, and it sleeps
\* for seconds without it.  Nothing makes a client connect or a signal arrive.
Fairness ==
    /\ WF_vars(Watcher) /\ WF_vars(WatchDie)
    /\ \A w \in Worker :
          /\ WF_vars(Work(w)) /\ WF_vars(WorkDie(w))
          /\ SF_vars(WorkCount(w)) /\ SF_vars(WorkLookup(w))
          /\ SF_vars(WorkDetermine(w)) /\ SF_vars(WorkLeave(w))
    /\ WF_vars(Monitor) /\ WF_vars(MonDie)
    /\ WF_vars(Reloaded \/ Exit) /\ SF_vars(Reload)

FairSpec == Spec /\ Fairness

-----------------------------------------------------------------------------
(* Properties. *)

WatchSteps == {"rdlock", "refresh", "refreshed", "check", "publish", "published", "sleep", "dead"}
WorkSteps  == {"idle", "count", "counted", "greet", "lookup", "found", "determine", "scan",
               "scanned", "picked", "connect", "serve", "leave", "fellthrough", "left", "dead"}
MonSteps   == {"idle", "rdlock", "head", "lines", "line", "reported", "dead"}
SuperSteps == {"wait", "hup", "reloaded", "join", "exit", "dead"}

\* The dataset, the locks and the threads' locals hold values of their types.
TypeOK ==
    /\ status \in [Backend -> Status] /\ role \in [Backend -> Role]
    /\ lag \in [Backend -> Nat]
    /\ ok_backends \in Nat /\ fe_conns \in Int /\ workers \in Nat
    /\ rd \in [Lock -> SUBSET Thread] /\ wr \in [Lock -> SUBSET Thread]
    /\ wpc \in WatchSteps /\ wi \in 1..(N + 1) /\ master_pos \in Int
    /\ h \in [Backend -> [serial : {0, 1}, ok : Status, role : Role, pos : Nat]]
    /\ pc \in [Worker -> WorkSteps] /\ ix \in [Worker -> 1..(N + 1)]
    /\ weights \in [Worker -> [Backend -> Nat]]
    /\ cumulative \in [Worker -> Nat] /\ r \in [Worker -> Nat]
    /\ reader \in [Worker -> 0..N] /\ writer \in [Worker -> 0..N]
    /\ mpc \in MonSteps /\ mi \in 1..(N + 1) /\ repOk \in Nat /\ repLines \in Nat
    /\ spc \in SuperSteps /\ cancelled \subseteq Thread
    /\ crashed \in BOOLEAN /\ arrivals \in 0..MaxArrivals

\* While determine_backends works through the backends, nobody can change them:
\* what its two loops see is one state of the dataset.  The weights computed so
\* far still agree with it, and so does the writer.
ScanIsSnapshot ==
    \A w \in Worker : pc[w] \in {"scan", "scanned", "picked"} =>
        LET seen == {i \in Backend : i < ix[w] \/ (i = ix[w] /\ pc[w] = "scanned")}
        IN /\ \A i \in seen : weights[w][i] > 0 => Viable(i)
           /\ \A i \in seen : role[i] = "MASTER" => writer[w] \in Backend
           /\ writer[w] # 0 => role[writer[w]] = "MASTER"

\* A reader that was picked by a value above 0 is, when it is picked, up, not a
\* master, within its lag threshold and of positive weight; and every value
\* that can be drawn picks one.
PickSound ==
    \A w \in Worker :
        /\ pc[w] = "picked" /\ r[w] > 0 =>
               Viable(reader[w]) /\ Weight[reader[w]] > 0
        /\ pc[w] # "fellthrough"

\* A client is sent to a reader that is viable when it is picked.
ReaderViable == \A w \in Worker : pc[w] = "picked" => Viable(reader[w])

\* No thread reads a backend, or the context's counters, while another is
\* changing them.
NoRace ==
    /\ wpc = "published" =>
           /\ \A w \in Worker : /\ ~(pc[w] = "scanned" /\ ix[w] = wi)
                                /\ ~(pc[w] = "picked" /\ reader[w] = wi)
           /\ ~(mpc = "line" /\ mi = wi)
    /\ mpc = "head" =>
           /\ wpc \notin {"publish", "published"}
           /\ \A w \in Worker : pc[w] \notin {"counted", "left"}
           /\ spc # "reloaded"
    /\ \A w \in Worker : pc[w] \in {"counted", "left"} =>
           /\ wpc \notin {"publish", "published"} /\ spc # "reloaded"
           /\ \A v \in Worker \ {w} : pc[v] \notin {"counted", "left"}

\* A report of the monitor agrees with itself: the count in its first line is
\* the number of backends it goes on to list as OK.
ReportConsistent == mpc = "reported" => repOk = repLines

\* The locks protect the dataset: it is typed, nobody reads what another thread
\* is changing, and what the monitor reads in several steps is of one state.
ContextInv == TypeOK /\ NoRace /\ ReportConsistent

\* The workers between their two updates of fe_conns.
Counted == {"counted", "greet", "lookup", "found", "determine", "scan", "scanned",
            "picked", "connect", "serve", "leave", "fellthrough"}

\* Whatever the outcome of the sessions, fe_conns is the number of clients being
\* served: no path through handle_client counts one twice, or not at all.
ClientsCounted ==
    cancelled = {} /\ ~crashed => fe_conns = Cardinality({w \in Worker : pc[w] \in Counted})

\* No thread waits for a lock for ever: whoever wants one gets it, as long as
\* connections and signals stop coming.
LocksGranted ==
    /\ \A w \in Worker :
          pc[w] \in {"count", "lookup", "determine", "leave"} ~>
              pc[w] \notin {"count", "lookup", "determine", "leave"} \/ crashed
    /\ wpc = "rdlock" ~> wpc # "rdlock" \/ crashed
    /\ wpc = "check" ~> wpc # "check" \/ crashed

\* The watcher keeps publishing, as long as it is not cancelled.
KeepsPublishing == []<>(wpc = "sleep" \/ crashed \/ cancelled # {})

\* The writer a client is connected to is known.
WriterKnown == ~crashed

\* A client is not sent to a writer that is known to have failed while another
\* backend is known to be a working master.
WriterPromoted ==
    \A w \in Worker : pc[w] = "picked" /\ writer[w] # 0
        /\ (\E i \in Backend : role[i] = "MASTER" /\ status[i] = "OK") =>
            status[writer[w]] = "OK"

\* The lag published for a master that is up is 0.
MasterLagZero ==
    wpc = "sleep" => \A i \in Backend : role[i] = "MASTER" /\ status[i] = "OK" => lag[i] = 0

\* Of two positions in the log, xlog gives the later one the larger number.
OrderKept ==
    LET Place(p) == Number(p.hi, 16) * HiUnit + Number(p.lo, 16)
    IN \A p, q \in Probes : Place(p.pos) < Place(q.pos) => xlog(p.pos) < xlog(q.pos)

\* The number of workers reported is the number of worker threads.
WorkersTrue == workers = Cardinality(Worker)

\* A shutdown that was requested ends the process.
ShutdownCompletes == spc = "join" ~> spc = "exit" \/ crashed
=============================================================================
