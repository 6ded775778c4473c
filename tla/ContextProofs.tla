---------------------------- MODULE ContextProofs ----------------------------
(***************************************************************************)
(* Proofs about the shared dataset and its locks, for any number of        *)
(* backends and workers, any weights, thresholds and findings of the       *)
(* health checks: no data is read while it is changed, the report of the   *)
(* monitor agrees with itself, clients are counted, and a choice of        *)
(* backends is made in one state of the dataset and is sound in it.        *)
(***************************************************************************)
EXTENDS Context, FiniteSetTheorems, WellFoundedInduction, TLAPS

\* A lock has one writer or any readers, and a thread that has come to a step
\* between a lock and an unlock has the lock.  (The converse does not hold: the
\* monitor may be cancelled with locks held, and a crash releases nothing.)
Exclusive ==
    \A l \in Lock : wr[l] # {} => rd[l] = {} /\ \A t, u \in wr[l] : t = u

WatcherHolds ==
    /\ wpc \in {"refresh", "refreshed"} => W \in rd[0]
    /\ wpc = "refreshed" => wi \in Backend
    /\ wpc \in {"publish", "published"} => W \in wr[0]
    /\ wpc = "published" => wi \in Backend /\ W \in wr[wi]

WorkerHolds(w) ==
    /\ pc[w] \in {"counted", "left"} => w \in wr[0]
    /\ pc[w] \in {"found", "scan", "scanned", "picked"} => w \in rd[0]
    /\ pc[w] = "scanned" => ix[w] \in Backend /\ w \in rd[ix[w]]
    /\ pc[w] = "picked" => reader[w] \in Backend /\ w \in rd[reader[w]]

MonitorHolds ==
    /\ mpc \in {"head", "lines", "line"} => M \in rd[0]
    /\ mpc = "line" => mi \in Backend /\ M \in rd[mi]

SuperHolds == spc = "reloaded" => S \in wr[0]

Locked ==
    /\ Exclusive /\ WatcherHolds /\ MonitorHolds /\ SuperHolds
    /\ \A w \in Worker : WorkerHolds(w)

\* The records of the watcher are those of the configured backends by the time
\* they are published.
Refreshed ==
    \A i \in Backend :
        \/ h[i].serial = 1
        \/ wpc \in {"rdlock", "sleep", "dead"}
        \/ wpc = "refresh" /\ i >= wi
        \/ wpc = "refreshed" /\ i > wi

\* The number of backends below k that are OK in st.
OkBelow(st, k) == Cardinality({i \in Backend : i < k /\ st[i] = "OK"})

\* While the watcher publishes, ok_backends counts the backends it has dealt
\* with, and at other times all of them.  (A crash may come in between, and
\* leaves nobody who could tell.)
Tallied ==
    /\ wpc = "publish" => ok_backends = OkBelow(status, wi)
    /\ wpc = "published" => ok_backends = OkBelow(status, wi + 1)
    /\ wpc \notin {"publish", "published"} =>
           \/ ok_backends = OkBelow(status, N + 1)
           \/ wpc = "dead" /\ mpc = "dead"

\* A report in the making is one of the present state of the dataset.
Reported ==
    /\ mpc = "head" => repLines = 0
    /\ mpc \in {"lines", "line"} =>
           repOk = ok_backends /\ repLines = OkBelow(status, mi)
    /\ ReportConsistent

\* The backends a worker has looked at.
Seen(w) == {i \in Backend : i < ix[w] \/ (i = ix[w] /\ pc[w] = "scanned")}

Scans(w) == pc[w] \in {"scan", "scanned", "picked"}

\* The weights are cumulative: the last viable backend seen has the sum, and a
\* backend of weight 0 has what the one before it has.
Weighed(w) ==
    Scans(w) =>
        /\ \A i \in Backend \ Seen(w) : weights[w][i] = 0
        /\ \/ cumulative[w] = 0
           \/ \E j \in Seen(w) : weights[w][j] = cumulative[w]
        /\ \A i \in Seen(w) : weights[w][i] > 0 /\ Weight[i] = 0 =>
               \E j \in Backend : j < i /\ weights[w][j] = weights[w][i]

\* What a worker has seen is still so.
Current(w) ==
    Scans(w) =>
        /\ \A i \in Seen(w) : weights[w][i] > 0 => Viable(i)
        /\ \A i \in Seen(w) : role[i] = "MASTER" => writer[w] \in Backend
        /\ writer[w] # 0 => role[writer[w]] = "MASTER"

\* What a worker has chosen.
Chosen(w) ==
    /\ pc[w] \in {"idle", "count", "counted", "greet", "lookup", "found", "determine", "left"}
           => writer[w] = 0
    /\ pc[w] = "picked" => ix[w] = N + 1 /\ reader[w] \in PickedBy(w, r[w])
    /\ pc[w] # "fellthrough"

Choice(w) == Weighed(w) /\ Current(w) /\ Chosen(w)

IInv ==
    /\ TypeOK /\ Locked /\ Refreshed /\ Tallied /\ Reported /\ ClientsCounted
    /\ \A w \in Worker : Choice(w)
-----------------------------------------------------------------------------
(* Positions in the log. *)

\* A nonempty set of natural numbers has a least element.
LEMMA Least ==
    ASSUME NEW T \in SUBSET Nat, T # {}
    PROVE  \E x \in T : \A y \in T : ~(y < x)
<1>1. \E x \in T : \A y \in T : ~(<<y, x>> \in OpToRel(<, Nat))
  BY NatLessThanWellFounded, WFMin
<1> QED BY <1>1 DEF OpToRel

LEMMA Remainder ==
    ASSUME NEW a \in Int, NEW m \in Nat \ {0}
    PROVE  a % m \in Nat
OBVIOUS

\* What xlog makes of a row of digits is a number.
LEMMA NumberIsNat ==
    ASSUME NEW s \in Seq(Nat), NEW base \in Nat
    PROVE  Number(s, base) \in Nat
<1> DEFINE L == Len(s)
           Value(f, n) == IF n = 0 THEN 0 ELSE (f[n - 1] * base + s[n]) % LagMod
           Fits(g, m) == g \in [0..m -> Nat] /\ \A n \in 0..m : g[n] = Value(g, n)
           Bad == {m \in 0..L : ~\E g : Fits(g, m)}
<1>1. L \in Nat /\ \A n \in 1..L : s[n] \in Nat OBVIOUS
<1> HIDE DEF L
<1>2. \A a, n : a \in Nat /\ n \in 1..L => (a * base + s[n]) % LagMod \in Nat
  <2> SUFFICES ASSUME NEW a \in Nat, NEW n \in 1..L
               PROVE  (a * base + s[n]) % LagMod \in Nat
    OBVIOUS
  <2>1. s[n] \in Nat BY <1>1
  <2>2. a * base \in Nat OBVIOUS
  <2>3. a * base + s[n] \in Int BY <2>1, <2>2
  <2> QED BY <2>3, Remainder, ContextAssumption
<1>3. \E g : Fits(g, L)
  <2> HIDE DEF Fits
  <2> SUFFICES ASSUME Bad # {} PROVE FALSE
    <3>1. L \in 0..L BY <1>1
    <3> QED BY <3>1
  <2>0. Bad \in SUBSET Nat BY <1>1
  <2>1. PICK m \in Bad : \A k \in Bad : ~(k < m)
    <3> HIDE DEF Bad
    <3> QED BY <2>0, Least
  <2> USE DEF Fits
  <2>2. CASE m = 0
    <3>1. Fits([n \in 0..0 |-> 0], 0) OBVIOUS
    <3> QED BY <2>1, <2>2, <3>1
  <2>3. CASE m # 0
    <3>1. m - 1 \in 0..L /\ m - 1 \in Nat BY <1>1, <2>1, <2>3
    <3>2. PICK g : Fits(g, m - 1) BY <2>1, <3>1
    <3> DEFINE f == [n \in 0..m |-> IF n = m THEN (g[m - 1] * base + s[m]) % LagMod ELSE g[n]]
    <3>3. g[m - 1] \in Nat /\ m \in 1..L BY <3>1, <3>2, <2>1, <2>3
    <3>4. (g[m - 1] * base + s[m]) % LagMod \in Nat BY <1>2, <3>3
    <3>5. f \in [0..m -> Nat] BY <3>1, <3>2, <3>4
    <3>6. ASSUME NEW n \in 0..m PROVE f[n] = Value(f, n)
      <4>1. CASE n = m BY <2>3, <3>3, <4>1
      <4>2. CASE n # m
        <5>1. n \in 0..(m - 1) /\ f[n] = g[n] /\ g[n] = Value(g, n) BY <3>1, <3>2, <4>2
        <5>2. n # 0 => n - 1 \in 0..m /\ n - 1 # m BY <3>1, <5>1
        <5>3. n # 0 => f[n - 1] = g[n - 1] BY <5>2
        <5> QED BY <5>1, <5>3
      <4> QED BY <4>1, <4>2
    <3>7. Fits(f, m) BY <3>5, <3>6
    <3> QED BY <2>1, <3>7
  <2> QED BY <2>2, <2>3
<1>4. PICK g : Fits(g, L) BY <1>3
<1> DEFINE v == CHOOSE f : f = [n \in 0..L |-> Value(f, n)]
<1>5. g = [n \in 0..L |-> Value(g, n)] BY <1>4
<1>6. v = [n \in 0..L |-> Value(v, n)] BY <1>5
<1>7. \A n \in 0..L : v[n] \in Nat
  <2> DEFINE Odd == {n \in 0..L : v[n] \notin Nat}
  <2> SUFFICES ASSUME Odd # {} PROVE FALSE OBVIOUS
  <2>0. Odd \in SUBSET Nat BY <1>1
  <2>1. PICK n \in Odd : \A k \in Odd : ~(k < n)
    <3> HIDE DEF Odd
    <3> QED BY <2>0, Least
  <2> HIDE DEF v
  <2>2. v[n] = Value(v, n) BY <1>6, <2>1
  <2>3. n # 0 BY <2>1, <2>2
  <2>4. n \in 1..L /\ n - 1 \in 0..L /\ n - 1 < n BY <1>1, <2>1, <2>3
  <2>5. v[n - 1] \in Nat BY <2>1, <2>4
  <2>6. Value(v, n) \in Nat BY <1>2, <2>3, <2>4, <2>5
  <2> QED BY <2>1, <2>2, <2>6
<1>8. Number(s, base) = v[L] BY DEF Number, L
<1> QED BY <1>1, <1>7, <1>8

LEMMA PositionIsNat ==
    ASSUME NEW p \in Probes
    PROVE  xlog(p.pos) \in Nat /\ ToInt(xlog(p.pos)) \in Int
<1>1. \A s \in Seq(0..15) : Distance(s) \in Seq(Nat)
  <2> TAKE s \in Seq(0..15)
  <2>1. DOMAIN s = 1..Len(s) /\ Len(s) \in Nat /\ \A i \in 1..Len(s) : s[i] \in 0..15 OBVIOUS
  <2>2. Distance(s) \in [1..Len(s) -> Nat] BY <2>1 DEF Distance
  <2> QED BY <2>1, <2>2
<1>2. Number(Distance(p.pos.hi), 15) \in Nat /\ Number(Distance(p.pos.lo), 15) \in Nat
  BY <1>1, NumberIsNat, ContextAssumption
<1>3. Number(Distance(p.pos.hi), 15) * HiUnit + Number(Distance(p.pos.lo), 15) \in Int
  BY <1>2, ContextAssumption
<1>4. xlog(p.pos) \in Nat BY <1>3, Remainder, ContextAssumption DEF xlog
<1>5. xlog(p.pos) + IntHalf \in Int /\ 2 * IntHalf \in Nat \ {0} BY <1>4, ContextAssumption
<1>6. (xlog(p.pos) + IntHalf) % (2 * IntHalf) \in Nat BY <1>5, Remainder
<1> QED BY <1>4, <1>6, ContextAssumption DEF ToInt
-----------------------------------------------------------------------------
(* Who changes what. *)

\* The steps of a worker.
Works(w) == WorkAccept(w) \/ Work(w) \/ WorkDie(w)

LEMMA WhoWrites ==
    ASSUME [Next]_vars
    PROVE  /\ \/ UNCHANGED data \/ WatchWrlock \/ WatchPublish
              \/ \E w \in Worker : WorkCount(w) \/ WorkLeave(w)
              \/ Reload
           /\ UNCHANGED wvars \/ Watcher \/ WatchDie \/ \E w \in Worker : WorkCrash(w)
           /\ UNCHANGED mvars \/ MonAccept \/ Monitor \/ MonDie \/ \E w \in Worker : WorkCrash(w)
           /\ UNCHANGED kvars \/ \E w \in Worker : Works(w)
<1> USE DEF data, wvars, mvars, kvars, svars
<1>1. CASE Watcher \/ WatchDie BY <1>1 DEF Watcher, WatchRdlock, WatchRefresh,
  WatchRefreshed, WatchUnlock, WatchCheck, WatchWrlock, WatchPublish, WatchPublished,
  WatchDone, WatchWake, WatchDie
<1>2. CASE \E w \in Worker : Works(w)
  BY <1>2 DEF Works, Work, WorkAccept, WorkCount, WorkCounted, WorkGreet, WorkLookup,
    WorkFound, WorkDetermine, WorkScan, WorkScanned, WorkNoneViable, WorkPick, WorkPicked,
    WorkConnect, WorkCrash, WorkServed, WorkLeave, WorkLeft, WorkDie
<1>3. CASE MonAccept \/ Monitor \/ MonDie BY <1>3 DEF Monitor, MonAccept, MonRdlock,
  MonHead, MonLock, MonLine, MonUnlock, MonClose, MonDie
<1>4. CASE (\E sig \in Signals : Signal(sig)) \/ Reload \/ Reloaded \/ Exit
  BY <1>4 DEF Signal, Reload, Reloaded, Exit
<1>5. CASE UNCHANGED vars BY <1>5 DEF vars
<1> QED BY <1>1, <1>2, <1>3, <1>4, <1>5 DEF Next, Works

\* A step of a worker that is no crash leaves the other workers alone.
LEMMA OwnLocals ==
    ASSUME TypeOK, NEW w \in Worker, Works(w), ~WorkCrash(w), NEW v \in Worker \ {w}
    PROVE  /\ pc'[v] = pc[v] /\ ix'[v] = ix[v] /\ weights'[v] = weights[v]
           /\ cumulative'[v] = cumulative[v] /\ r'[v] = r[v]
           /\ reader'[v] = reader[v] /\ writer'[v] = writer[v]
<1> USE DEF TypeOK, Goto, ClearLocals
<1>1. CASE WorkAccept(w) BY <1>1 DEF WorkAccept
<1>2. CASE WorkCount(w) BY <1>2 DEF WorkCount
<1>3. CASE WorkCounted(w) BY <1>3 DEF WorkCounted
<1>4. CASE WorkGreet(w) BY <1>4 DEF WorkGreet
<1>5. CASE WorkLookup(w) BY <1>5 DEF WorkLookup
<1>6. CASE WorkFound(w) BY <1>6 DEF WorkFound
<1>7. CASE WorkDetermine(w) BY <1>7 DEF WorkDetermine
<1>8. CASE WorkScan(w) BY <1>8 DEF WorkScan
<1>9. CASE WorkScanned(w) BY <1>9 DEF WorkScanned
<1>10. CASE WorkNoneViable(w) BY <1>10 DEF WorkNoneViable
<1>11. CASE WorkPick(w) BY <1>11 DEF WorkPick
<1>12. CASE WorkPicked(w) BY <1>12 DEF WorkPicked
<1>13. CASE WorkConnect(w) BY <1>13 DEF WorkConnect
<1>14. CASE WorkServed(w) BY <1>14 DEF WorkServed
<1>15. CASE WorkLeave(w) BY <1>15 DEF WorkLeave
<1>16. CASE WorkLeft(w) BY <1>16 DEF WorkLeft
<1>17. CASE WorkDie(w) BY <1>17 DEF WorkDie
<1> QED BY <1>1, <1>2, <1>3, <1>4, <1>5, <1>6, <1>7, <1>8, <1>9, <1>10, <1>11, <1>12, <1>13,
  <1>14, <1>15, <1>16, <1>17 DEF Works, Work
-----------------------------------------------------------------------------
(* Types. *)

DataTypes ==
    /\ status \in [Backend -> Status] /\ role \in [Backend -> Role]
    /\ lag \in [Backend -> Nat]
    /\ ok_backends \in Nat /\ fe_conns \in Int /\ workers \in Nat

LockTypes == rd \in [Lock -> SUBSET Thread] /\ wr \in [Lock -> SUBSET Thread]

WatcherTypes ==
    /\ wpc \in WatchSteps /\ wi \in 1..(N + 1) /\ master_pos \in Int
    /\ h \in [Backend -> [serial : {0, 1}, ok : Status, role : Role, pos : Nat]]

WorkerTypes ==
    /\ pc \in [Worker -> WorkSteps] /\ ix \in [Worker -> 1..(N + 1)]
    /\ weights \in [Worker -> [Backend -> Nat]]
    /\ cumulative \in [Worker -> Nat] /\ r \in [Worker -> Nat]
    /\ reader \in [Worker -> 0..N] /\ writer \in [Worker -> 0..N]

MonitorTypes ==
    mpc \in MonSteps /\ mi \in 1..(N + 1) /\ repOk \in Nat /\ repLines \in Nat

SuperTypes ==
    /\ spc \in SuperSteps /\ cancelled \subseteq Thread
    /\ crashed \in BOOLEAN /\ arrivals \in 0..MaxArrivals

LEMMA TypeParts ==
    TypeOK <=> /\ DataTypes /\ LockTypes /\ WatcherTypes /\ WorkerTypes /\ MonitorTypes
               /\ SuperTypes
BY DEF TypeOK, DataTypes, LockTypes, WatcherTypes, WorkerTypes, MonitorTypes, SuperTypes

LEMMA DataTypesKept ==
    ASSUME TypeOK, [Next]_vars
    PROVE  DataTypes'
<1>0. DataTypes BY TypeParts
<1>1. CASE UNCHANGED data BY <1>0, <1>1 DEF DataTypes, data
<1>2. CASE WatchWrlock BY <1>0, <1>2 DEF DataTypes, WatchWrlock
<1>3. CASE WatchPublish
  <2>1. wi \in Backend /\ h[wi].ok \in Status /\ h[wi].role \in Role /\ h[wi].pos \in Nat
    BY <1>3 DEF TypeOK, WatchPublish
  <2>2. LagOf(wi) \in Nat
    <3>1. master_pos - h[wi].pos \in Int BY <2>1 DEF TypeOK
    <3> QED BY <3>1, Remainder, ContextAssumption DEF LagOf
  <2>3. fe_conns' = fe_conns /\ workers' = workers BY <1>3 DEF WatchPublish
  <2>4. CASE h[wi].serial = 1 BY <1>0, <1>3, <2>1, <2>2, <2>3, <2>4 DEF DataTypes, WatchPublish
  <2>5. CASE h[wi].serial # 1 BY <1>0, <1>3, <2>3, <2>5 DEF DataTypes, WatchPublish
  <2> QED BY <2>4, <2>5
<1>4. ASSUME NEW w \in Worker, WorkCount(w) \/ WorkLeave(w) PROVE DataTypes'
  BY <1>0, <1>4 DEF DataTypes, WorkCount, WorkLeave
<1>5. CASE Reload
  <2>1. Cardinality(Worker) \in Nat BY ContextAssumption, FS_CardinalityType
  <2> QED BY <1>0, <1>5, <2>1 DEF DataTypes, Reload
<1> QED BY <1>1, <1>2, <1>3, <1>4, <1>5, WhoWrites

LEMMA WatcherTypesKept ==
    ASSUME TypeOK, Locked, [Next]_vars
    PROVE  WatcherTypes'
<1>0. WatcherTypes BY TypeParts
<1> USE DEF WatcherTypes, WatchSteps, Backend
<1>1. CASE WatchRdlock BY <1>0, <1>1, ContextAssumption DEF WatchRdlock
<1>2. CASE WatchRefreshed BY <1>0, <1>2, ContextAssumption DEF WatchRefreshed, Locked, WatcherHolds
<1>3. CASE WatchUnlock BY <1>0, <1>3, ContextAssumption DEF WatchUnlock
<1>4. CASE WatchWrlock BY <1>0, <1>4, ContextAssumption DEF WatchWrlock
<1>5. CASE WatchPublish BY <1>0, <1>5 DEF WatchPublish
<1>6. CASE WatchPublished BY <1>0, <1>6, ContextAssumption DEF WatchPublished, Locked, WatcherHolds
<1>7. CASE WatchDone BY <1>0, <1>7, ContextAssumption DEF WatchDone
<1>8. CASE WatchWake BY <1>0, <1>8 DEF WatchWake
<1>9. CASE WatchDie BY <1>0, <1>9 DEF WatchDie
<1>10. CASE WatchRefresh
  <2>1. role[wi] \in Role BY <1>10 DEF TypeOK, WatchRefresh
  <2>2. h' = h \/ h' = [h EXCEPT ![wi].serial = 1, ![wi].role = role[wi]]
    BY <1>10 DEF WatchRefresh
  <2>3. h' \in [Backend -> [serial : {0, 1}, ok : Status, role : Role, pos : Nat]]
    BY <1>0, <2>1, <2>2
  <2> QED BY <1>0, <1>10, <2>3 DEF WatchRefresh
<1>11. CASE WatchCheck
  <2>0. wi \in Backend /\ wi' = wi + 1 /\ wpc' = wpc BY <1>11 DEF WatchCheck
  <2> DEFINE newrole(p) == IF p.role = "kept" THEN h[wi].role ELSE p.role
  <2>1. PICK p \in Probes :
            /\ h' = [h EXCEPT ![wi].ok = p.ok, ![wi].role = newrole(p),
                              ![wi].pos = xlog(p.pos)]
            /\ master_pos' = IF p.ok = "OK" /\ newrole(p) = "MASTER"
                             THEN ToInt(xlog(p.pos)) ELSE master_pos
    BY <1>11 DEF WatchCheck
  <2>2. xlog(p.pos) \in Nat /\ ToInt(xlog(p.pos)) \in Int BY PositionIsNat
  <2>3. p.ok \in Status /\ newrole(p) \in Role BY <1>0, <2>0, ContextAssumption DEF Role
  <2> HIDE DEF newrole
  <2>4. h' \in [Backend -> [serial : {0, 1}, ok : Status, role : Role, pos : Nat]]
    BY <1>0, <2>1, <2>2, <2>3
  <2>5. master_pos' \in Int BY <1>0, <2>1, <2>2
  <2> QED BY <1>0, <2>0, <2>4, <2>5, ContextAssumption
<1>12. ASSUME NEW w \in Worker, WorkCrash(w) PROVE WatcherTypes' BY <1>0, <1>12 DEF WorkCrash
<1>13. CASE UNCHANGED wvars BY <1>0, <1>13 DEF wvars
<1> QED BY <1>1, <1>2, <1>3, <1>4, <1>5, <1>6, <1>7, <1>8, <1>9, <1>10, <1>11, <1>12, <1>13,
  WhoWrites DEF Watcher

LEMMA WorkerTypesKept ==
    ASSUME TypeOK, Locked, [Next]_vars
    PROVE  WorkerTypes'
<1>0. WorkerTypes BY TypeParts
<1> USE DEF WorkerTypes, WorkSteps, Goto
<1>1. ASSUME NEW w \in Worker, Works(w) PROVE WorkerTypes'
  <2>1. CASE WorkAccept(w) BY <1>0, <2>1 DEF WorkAccept
  <2>2. CASE WorkCount(w) BY <1>0, <2>2 DEF WorkCount
  <2>3. CASE WorkCounted(w) BY <1>0, <2>3 DEF WorkCounted
  <2>4. CASE WorkGreet(w) BY <1>0, <2>4 DEF WorkGreet
  <2>5. CASE WorkLookup(w) BY <1>0, <2>5 DEF WorkLookup
  <2>6. CASE WorkFound(w) BY <1>0, <2>6 DEF WorkFound
  <2>7. CASE WorkDetermine(w) BY <1>0, <2>7, ContextAssumption DEF WorkDetermine, ClearLocals
  <2>8. CASE WorkScan(w)
    <3> DEFINE i == ix[w]
    <3>1. i \in Backend /\ i \in 0..N /\ Weight[i] \in Nat
      BY <2>8, ContextAssumption DEF WorkScan, Backend
    <3>2. cumulative[w] + Weight[i] \in Nat BY <1>0, <3>1
    <3>3. writer' \in [Worker -> 0..N] BY <1>0, <2>8, <3>1 DEF WorkScan
    <3>4. cumulative' \in [Worker -> Nat] BY <1>0, <2>8, <3>2 DEF WorkScan
    <3>5. weights' \in [Worker -> [Backend -> Nat]]
      <4>1. \/ weights' = weights
            \/ weights' = [weights EXCEPT ![w] = [weights[w] EXCEPT ![i] = cumulative[w] + Weight[i]]]
        BY <2>8 DEF WorkScan
      <4> HIDE DEF i
      <4> QED BY <1>0, <3>1, <3>2, <4>1
    <3> QED BY <1>0, <2>8, <3>3, <3>4, <3>5 DEF WorkScan
  <2>9. CASE WorkScanned(w)
    <3>1. ix[w] \in 1..N BY <2>9 DEF WorkScanned, Locked, WorkerHolds, Backend
    <3>2. ix[w] + 1 \in 1..(N + 1) BY <3>1, ContextAssumption
    <3> QED BY <1>0, <2>9, <3>2 DEF WorkScanned
  <2>10. CASE WorkNoneViable(w) BY <1>0, <2>10, ContextAssumption DEF WorkNoneViable, ClearLocals
  <2>11. CASE WorkPick(w)
    <3>1. PICK x \in Draws(w) :
              \/ r' = r /\ reader' = reader /\ Goto(w, "fellthrough")
              \/ \E i \in PickedBy(w, x) : /\ r' = [r EXCEPT ![w] = x]
                                           /\ reader' = [reader EXCEPT ![w] = i]
                                           /\ Goto(w, "picked")
      BY <2>11 DEF WorkPick
    <3>2. x \in Nat BY <1>0 DEF Draws
    <3>3. PickedBy(w, x) \subseteq 0..N BY ContextAssumption DEF PickedBy, Backend
    <3>4. reader' \in [Worker -> 0..N] /\ r' \in [Worker -> Nat] BY <1>0, <3>1, <3>2, <3>3
    <3>5. pc' \in [Worker -> WorkSteps] BY <1>0, <3>1
    <3> QED BY <1>0, <2>11, <3>4, <3>5 DEF WorkPick
  <2>12. CASE WorkPicked(w) BY <1>0, <2>12, ContextAssumption DEF WorkPicked, ClearLocals
  <2>13. CASE WorkConnect(w) BY <1>0, <2>13 DEF WorkConnect
  <2>14. CASE WorkCrash(w) BY <1>0, <2>14 DEF WorkCrash
  <2>15. CASE WorkServed(w) BY <1>0, <2>15 DEF WorkServed
  <2>16. CASE WorkLeave(w) BY <1>0, <2>16, ContextAssumption DEF WorkLeave
  <2>17. CASE WorkLeft(w) BY <1>0, <2>17 DEF WorkLeft
  <2>18. CASE WorkDie(w) BY <1>0, <2>18 DEF WorkDie
  <2> QED BY <1>1, <2>1, <2>2, <2>3, <2>4, <2>5, <2>6, <2>7, <2>8, <2>9, <2>10, <2>11,
    <2>12, <2>13, <2>14, <2>15, <2>16, <2>17, <2>18 DEF Works, Work
<1>2. CASE UNCHANGED kvars BY <1>0, <1>2 DEF kvars
<1> QED BY <1>1, <1>2, WhoWrites

LEMMA MonitorTypesKept ==
    ASSUME TypeOK, Locked, [Next]_vars
    PROVE  MonitorTypes'
<1>0. MonitorTypes /\ ok_backends \in Nat BY TypeParts DEF DataTypes
<1> USE ContextAssumption DEF MonitorTypes, MonSteps
<1>1. CASE MonAccept BY <1>0, <1>1 DEF MonAccept
<1>2. CASE MonRdlock BY <1>0, <1>2 DEF MonRdlock
<1>3. CASE MonHead BY <1>0, <1>3 DEF MonHead
<1>4. CASE MonLock BY <1>0, <1>4 DEF MonLock
<1>5. CASE MonLine BY <1>0, <1>5 DEF MonLine, Locked, MonitorHolds, Backend
<1>6. CASE MonUnlock BY <1>0, <1>6 DEF MonUnlock
<1>7. CASE MonClose BY <1>0, <1>7 DEF MonClose
<1>8. CASE MonDie BY <1>0, <1>8 DEF MonDie
<1>9. ASSUME NEW w \in Worker, WorkCrash(w) PROVE MonitorTypes' BY <1>0, <1>9 DEF WorkCrash
<1>10. CASE UNCHANGED mvars BY <1>0, <1>10 DEF mvars
<1> QED BY <1>1, <1>2, <1>3, <1>4, <1>5, <1>6, <1>7, <1>8, <1>9, <1>10, WhoWrites DEF
  Monitor

LEMMA SuperTypesKept ==
    ASSUME TypeOK, [Next]_vars
    PROVE  SuperTypes'
<1>0. SuperTypes BY TypeParts
<1> USE DEF SuperTypes, SuperSteps
<1>1. ASSUME NEW sig \in Signals, Signal(sig) PROVE SuperTypes'
  BY <1>0, <1>1, ContextAssumption DEF Signal
<1>2. CASE Reload \/ Reloaded \/ Exit BY <1>0, <1>2 DEF Reload, Reloaded, Exit
<1>3. ASSUME NEW w \in Worker, WorkAccept(w) PROVE SuperTypes'
  BY <1>0, <1>3, ContextAssumption DEF WorkAccept
<1>4. ASSUME NEW w \in Worker, WorkCrash(w) PROVE SuperTypes' BY <1>0, <1>4 DEF WorkCrash
<1>5. CASE MonAccept BY <1>0, <1>5, ContextAssumption DEF MonAccept
<1>6. CASE Watcher \/ WatchDie
  BY <1>0, <1>6 DEF svars, Watcher, WatchRdlock, WatchRefresh, WatchRefreshed, WatchUnlock,
    WatchCheck, WatchWrlock, WatchPublish, WatchPublished, WatchDone, WatchWake, WatchDie
<1>7. ASSUME NEW w \in Worker, Work(w) \/ WorkDie(w), ~WorkCrash(w) PROVE SuperTypes'
  BY <1>0, <1>7 DEF svars, Work, WorkCount, WorkCounted, WorkGreet, WorkLookup, WorkFound,
    WorkDetermine, WorkScan, WorkScanned, WorkNoneViable, WorkPick, WorkPicked, WorkConnect,
    WorkServed, WorkLeave, WorkLeft, WorkDie
<1>8. CASE Monitor \/ MonDie
  BY <1>0, <1>8 DEF svars, Monitor, MonRdlock, MonHead, MonLock, MonLine, MonUnlock,
    MonClose, MonDie
<1>9. CASE UNCHANGED vars BY <1>0, <1>9 DEF vars, svars
<1> QED BY <1>1, <1>2, <1>3, <1>4, <1>5, <1>6, <1>7, <1>8, <1>9 DEF Next
-----------------------------------------------------------------------------
(* Locks. *)

\* The threads of T keep the locks they have.
Kept(T) ==
    \A k \in Lock : \A u \in T : (u \in rd[k] => u \in rd'[k]) /\ (u \in wr[k] => u \in wr'[k])

\* Taking a lock, for reading or writing.
LEMMA Taking ==
    ASSUME LockTypes, Exclusive, NEW t \in Thread, NEW l \in Lock, rdlock(l, t) \/ wrlock(l, t)
    PROVE  /\ LockTypes' /\ Exclusive' /\ Kept(Thread)
           /\ rdlock(l, t) => t \in rd'[l]
           /\ wrlock(l, t) => t \in wr'[l]
BY DEF LockTypes, Exclusive, Kept, rdlock, wrlock

\* Releasing some locks.
LEMMA Releasing ==
    ASSUME LockTypes, Exclusive, NEW t \in Thread, NEW ls, unlock(ls, t)
    PROVE  /\ LockTypes' /\ Exclusive' /\ Kept(Thread \ {t})
           /\ \A k \in Lock \ ls : (t \in rd[k] => t \in rd'[k]) /\ (t \in wr[k] => t \in wr'[k])
BY DEF LockTypes, Exclusive, Kept, unlock

LEMMA NoLock ==
    ASSUME LockTypes, Exclusive, UNCHANGED locks
    PROVE  LockTypes' /\ Exclusive' /\ Kept(Thread)
BY DEF LockTypes, Exclusive, Kept, locks

LEMMA LockNames ==
    /\ W \in Thread /\ M \in Thread /\ S \in Thread /\ W # M /\ W # S /\ M # S
    /\ \A w \in Worker : w \in Thread /\ w # W /\ w # M /\ w # S
    /\ 0 \in Lock /\ 0 \notin Backend /\ \A i \in Backend : i \in Lock
BY ContextAssumption DEF W, M, S, Thread, Lock, Backend

LEMMA WatcherLocks ==
    ASSUME TypeOK, Locked, Watcher \/ WatchDie
    PROVE  LockTypes' /\ Exclusive' /\ Kept(Thread \ {W}) /\ WatcherHolds'
<1>0. LockTypes /\ Exclusive /\ WatcherHolds BY TypeParts DEF Locked
<1> USE LockNames DEF Kept, WatcherHolds
<1>1. CASE WatchRdlock BY <1>0, <1>1, Taking DEF WatchRdlock
<1>2. CASE WatchRefresh BY <1>0, <1>2, Taking DEF WatchRefresh
<1>3. CASE WatchRefreshed BY <1>0, <1>3, Releasing DEF WatchRefreshed
<1>4. CASE WatchUnlock BY <1>0, <1>4, Releasing DEF WatchUnlock
<1>5. CASE WatchCheck BY <1>0, <1>5, NoLock DEF WatchCheck
<1>6. CASE WatchWrlock BY <1>0, <1>6, Taking DEF WatchWrlock
<1>7. CASE WatchPublish BY <1>0, <1>7, Taking DEF WatchPublish
<1>8. CASE WatchPublished BY <1>0, <1>8, Releasing DEF WatchPublished
<1>9. CASE WatchDone BY <1>0, <1>9, Releasing DEF WatchDone
<1>10. CASE WatchWake BY <1>0, <1>10, NoLock DEF WatchWake
<1>11. CASE WatchDie BY <1>0, <1>11, NoLock DEF WatchDie
<1> QED BY <1>1, <1>2, <1>3, <1>4, <1>5, <1>6, <1>7, <1>8, <1>9, <1>10, <1>11 DEF Watcher

LEMMA WorkerLocks ==
    ASSUME TypeOK, Locked, NEW w \in Worker, Works(w)
    PROVE  LockTypes' /\ Exclusive' /\ Kept(Thread \ {w}) /\ WorkerHolds(w)'
<1>0. LockTypes /\ Exclusive /\ WorkerHolds(w) /\ WorkerTypes BY TypeParts DEF Locked
<1> USE LockNames DEF Kept, WorkerHolds, Goto, ClearLocals, WorkerTypes
<1>1. CASE WorkAccept(w) BY <1>0, <1>1, NoLock DEF WorkAccept
<1>2. CASE WorkCount(w) BY <1>0, <1>2, Taking DEF WorkCount
<1>3. CASE WorkCounted(w) BY <1>0, <1>3, Releasing DEF WorkCounted
<1>4. CASE WorkGreet(w) BY <1>0, <1>4, NoLock DEF WorkGreet
<1>5. CASE WorkLookup(w) BY <1>0, <1>5, Taking DEF WorkLookup
<1>6. CASE WorkFound(w) BY <1>0, <1>6, Releasing DEF WorkFound
<1>7. CASE WorkDetermine(w) BY <1>0, <1>7, Taking DEF WorkDetermine
<1>8. CASE WorkScan(w) BY <1>0, <1>8, Taking DEF WorkScan
<1>9. CASE WorkScanned(w) BY <1>0, <1>9, Releasing DEF WorkScanned
<1>10. CASE WorkNoneViable(w) BY <1>0, <1>10, Releasing DEF WorkNoneViable
<1>11. CASE WorkPick(w)
  <2>1. PICK x \in Draws(w) :
            \/ unlock({0}, w) /\ Goto(w, "fellthrough")
            \/ \E i \in PickedBy(w, x) :
                  rdlock(i, w) /\ reader' = [reader EXCEPT ![w] = i] /\ Goto(w, "picked")
    BY <1>11 DEF WorkPick
  <2>2. pc[w] = "scan" BY <1>11 DEF WorkPick
  <2>3. CASE unlock({0}, w) /\ Goto(w, "fellthrough") BY <1>0, <2>3, Releasing
  <2>4. ASSUME NEW i \in PickedBy(w, x), rdlock(i, w), reader' = [reader EXCEPT ![w] = i],
               Goto(w, "picked")
        PROVE  LockTypes' /\ Exclusive' /\ Kept(Thread \ {w}) /\ WorkerHolds(w)'
    <3>1. i \in Backend BY DEF PickedBy
    <3> QED BY <1>0, <2>2, <2>4, <3>1, Taking
  <2> QED BY <2>1, <2>3, <2>4
<1>12. CASE WorkPicked(w) BY <1>0, <1>12, Releasing DEF WorkPicked
<1>13. CASE WorkConnect(w) BY <1>0, <1>13, NoLock DEF WorkConnect
<1>14. CASE WorkCrash(w) BY <1>0, <1>14, NoLock DEF WorkCrash
<1>15. CASE WorkServed(w) BY <1>0, <1>15, NoLock DEF WorkServed
<1>16. CASE WorkLeave(w) BY <1>0, <1>16, Taking DEF WorkLeave
<1>17. CASE WorkLeft(w) BY <1>0, <1>17, Releasing DEF WorkLeft
<1>18. CASE WorkDie(w) BY <1>0, <1>18, NoLock DEF WorkDie
<1> QED BY <1>1, <1>2, <1>3, <1>4, <1>5, <1>6, <1>7, <1>8, <1>9, <1>10, <1>11, <1>12, <1>13,
  <1>14, <1>15, <1>16, <1>17, <1>18 DEF Works, Work

LEMMA MonitorLocks ==
    ASSUME TypeOK, Locked, MonAccept \/ Monitor \/ MonDie
    PROVE  LockTypes' /\ Exclusive' /\ Kept(Thread \ {M}) /\ MonitorHolds'
<1>0. LockTypes /\ Exclusive /\ MonitorHolds BY TypeParts DEF Locked
<1> USE LockNames DEF Kept, MonitorHolds
<1>1. CASE MonAccept BY <1>0, <1>1, NoLock DEF MonAccept
<1>2. CASE MonRdlock BY <1>0, <1>2, Taking DEF MonRdlock
<1>3. CASE MonHead BY <1>0, <1>3, NoLock DEF MonHead
<1>4. CASE MonLock BY <1>0, <1>4, Taking DEF MonLock
<1>5. CASE MonLine BY <1>0, <1>5, Releasing DEF MonLine
<1>6. CASE MonUnlock BY <1>0, <1>6, Releasing DEF MonUnlock
<1>7. CASE MonClose BY <1>0, <1>7, NoLock DEF MonClose
<1>8. CASE MonDie BY <1>0, <1>8, NoLock DEF MonDie
<1> QED BY <1>1, <1>2, <1>3, <1>4, <1>5, <1>6, <1>7, <1>8 DEF Monitor

LEMMA LocksKept ==
    ASSUME TypeOK, Locked, [Next]_vars
    PROVE  LockTypes' /\ Locked'
<1>0. LockTypes /\ Locked BY TypeParts
<1> USE LockNames DEF Kept
<1>1. CASE Watcher \/ WatchDie
  <2>1. UNCHANGED <<kvars, mvars, svars>>
    BY <1>1 DEF Watcher, WatchRdlock, WatchRefresh, WatchRefreshed, WatchUnlock, WatchCheck,
      WatchWrlock, WatchPublish, WatchPublished, WatchDone, WatchWake, WatchDie
  <2>2. LockTypes' /\ Exclusive' /\ Kept(Thread \ {W}) /\ WatcherHolds' BY <1>1, WatcherLocks
  <2>3. ASSUME NEW v \in Worker PROVE WorkerHolds(v)'
    BY <1>0, <2>1, <2>2 DEF Locked, WorkerHolds, kvars
  <2>4. MonitorHolds' /\ SuperHolds'
    BY <1>0, <2>1, <2>2 DEF Locked, MonitorHolds, SuperHolds, mvars, svars
  <2> QED BY <2>2, <2>3, <2>4 DEF Locked
<1>2. ASSUME NEW w \in Worker, WorkCrash(w) PROVE LockTypes' /\ Locked'
  <2>1. /\ wpc' = "dead" /\ mpc' = "dead" /\ spc' = "dead" /\ UNCHANGED locks
        /\ \A v \in Worker : pc'[v] = "dead"
    BY <1>2 DEF WorkCrash
  <2>2. LockTypes' /\ Exclusive' BY <1>0, <2>1, NoLock DEF Locked
  <2> QED BY <2>1, <2>2 DEF Locked, WatcherHolds, MonitorHolds, SuperHolds, WorkerHolds
<1>3. ASSUME NEW w \in Worker, Works(w), ~WorkCrash(w) PROVE LockTypes' /\ Locked'
  <2>1. UNCHANGED <<wvars, mvars, spc>>
    BY <1>3 DEF Works, Work, svars, WorkAccept, WorkCount, WorkCounted, WorkGreet,
      WorkLookup, WorkFound, WorkDetermine, WorkScan, WorkScanned, WorkNoneViable, WorkPick,
      WorkPicked, WorkConnect, WorkServed, WorkLeave, WorkLeft, WorkDie
  <2>2. LockTypes' /\ Exclusive' /\ Kept(Thread \ {w}) /\ WorkerHolds(w)' BY <1>3, WorkerLocks
  <2>3. ASSUME NEW v \in Worker \ {w} PROVE WorkerHolds(v)'
    BY <1>0, <1>3, <2>2, OwnLocals DEF Locked, WorkerHolds
  <2>4. WatcherHolds' /\ MonitorHolds' /\ SuperHolds'
    BY <1>0, <2>1, <2>2 DEF Locked, WatcherHolds, MonitorHolds, SuperHolds, wvars, mvars
  <2> QED BY <2>2, <2>3, <2>4 DEF Locked
<1>4. CASE MonAccept \/ Monitor \/ MonDie
  <2>1. UNCHANGED <<wvars, kvars, spc>>
    BY <1>4 DEF Monitor, svars, MonAccept, MonRdlock, MonHead, MonLock, MonLine, MonUnlock,
      MonClose, MonDie
  <2>2. LockTypes' /\ Exclusive' /\ Kept(Thread \ {M}) /\ MonitorHolds' BY <1>4, MonitorLocks
  <2>3. ASSUME NEW v \in Worker PROVE WorkerHolds(v)'
    BY <1>0, <2>1, <2>2 DEF Locked, WorkerHolds, kvars
  <2>4. WatcherHolds' /\ SuperHolds'
    BY <1>0, <2>1, <2>2 DEF Locked, WatcherHolds, SuperHolds, wvars
  <2> QED BY <2>2, <2>3, <2>4 DEF Locked
<1>5. CASE (\E sig \in Signals : Signal(sig)) \/ Reload \/ Reloaded \/ Exit
  <2>1. UNCHANGED <<wvars, kvars, mvars>> BY <1>5 DEF Signal, Reload, Reloaded, Exit
  <2>2. LockTypes' /\ Exclusive' /\ Kept(Thread \ {S}) /\ SuperHolds'
    <3>1. ASSUME NEW sig \in Signals, Signal(sig)
          PROVE  LockTypes' /\ Exclusive' /\ Kept(Thread \ {S}) /\ SuperHolds'
      BY <1>0, <3>1, NoLock DEF Locked, Signal, SuperHolds
    <3>2. CASE Reload BY <1>0, <3>2, Taking DEF Locked, Reload, SuperHolds
    <3>3. CASE Reloaded BY <1>0, <3>3, Releasing DEF Locked, Reloaded, SuperHolds
    <3>4. CASE Exit BY <1>0, <3>4, NoLock DEF Locked, Exit, SuperHolds
    <3> QED BY <1>5, <3>1, <3>2, <3>3, <3>4
  <2>3. ASSUME NEW v \in Worker PROVE WorkerHolds(v)'
    BY <1>0, <2>1, <2>2 DEF Locked, WorkerHolds, kvars
  <2>4. WatcherHolds' /\ MonitorHolds'
    BY <1>0, <2>1, <2>2 DEF Locked, WatcherHolds, MonitorHolds, wvars, mvars
  <2> QED BY <2>2, <2>3, <2>4 DEF Locked
<1>6. CASE UNCHANGED vars
  BY <1>0, <1>6 DEF vars, locks, wvars, kvars, mvars, svars, LockTypes, Locked, Exclusive,
     WatcherHolds, WorkerHolds, MonitorHolds, SuperHolds
<1> QED BY <1>1, <1>2, <1>3, <1>4, <1>5, <1>6 DEF Next, Works

LEMMA TypesKept ==
    ASSUME TypeOK, Locked, [Next]_vars
    PROVE  TypeOK'
<1>1. DataTypes' /\ LockTypes' /\ SuperTypes' BY DataTypesKept, LocksKept, SuperTypesKept
<1>2. WatcherTypes' /\ WorkerTypes' /\ MonitorTypes'
  BY WatcherTypesKept, WorkerTypesKept, MonitorTypesKept
<1> QED BY <1>1, <1>2 DEF TypeOK, DataTypes, LockTypes, WatcherTypes, WorkerTypes,
           MonitorTypes, SuperTypes

\* The locks exclude the races.
LEMMA LockedMeansNoRace == TypeOK /\ Locked => NoRace
<1> SUFFICES ASSUME TypeOK, Locked PROVE NoRace OBVIOUS
<1> USE LockNames DEF Locked, Exclusive, WatcherHolds, MonitorHolds, SuperHolds, WorkerHolds
<1>1. ASSUME wpc = "published"
      PROVE  /\ \A w \in Worker : /\ ~(pc[w] = "scanned" /\ ix[w] = wi)
                                  /\ ~(pc[w] = "picked" /\ reader[w] = wi)
             /\ ~(mpc = "line" /\ mi = wi)
  BY <1>1
<1>2. ASSUME mpc = "head"
      PROVE  /\ wpc \notin {"publish", "published"}
             /\ \A w \in Worker : pc[w] \notin {"counted", "left"}
             /\ spc # "reloaded"
  BY <1>2
<1>3. ASSUME NEW w \in Worker, pc[w] \in {"counted", "left"}
      PROVE  /\ wpc \notin {"publish", "published"} /\ spc # "reloaded"
             /\ \A v \in Worker \ {w} : pc[v] \notin {"counted", "left"}
  BY <1>3
<1> QED BY <1>1, <1>2, <1>3 DEF NoRace

\* While somebody has the lock of the context for reading, what is published
\* about the backends does not change.
LEMMA Quiet ==
    ASSUME TypeOK, Locked, [Next]_vars, rd[0] # {}
    PROVE  UNCHANGED <<status, role, lag, ok_backends>>
<1>1. ~WatchWrlock BY DEF WatchWrlock, wrlock
<1>2. ~WatchPublish BY LockNames DEF WatchPublish, Locked, Exclusive, WatcherHolds
<1>3. CASE UNCHANGED data BY <1>3 DEF data
<1>4. ASSUME NEW w \in Worker, WorkCount(w) \/ WorkLeave(w)
      PROVE  UNCHANGED <<status, role, lag, ok_backends>>
  BY <1>4 DEF WorkCount, WorkLeave
<1>5. CASE Reload BY <1>5 DEF Reload
<1> QED BY <1>1, <1>2, <1>3, <1>4, <1>5, WhoWrites
-----------------------------------------------------------------------------
(* The count of the backends that are up, and the monitor's report of them. *)

LEMMA RefreshedKept ==
    ASSUME TypeOK, Locked, Refreshed, [Next]_vars
    PROVE  Refreshed'
<1> USE DEF Refreshed, Backend
<1>0. WatcherTypes BY TypeParts
<1>1. CASE UNCHANGED wvars BY <1>1 DEF wvars
<1>2. ASSUME NEW w \in Worker, WorkCrash(w) PROVE Refreshed' BY <1>2 DEF WorkCrash
<1>3. CASE WatchRdlock BY <1>0, <1>3, ContextAssumption DEF WatchRdlock, WatcherTypes
<1>4. CASE WatchRefresh
  <2>1. /\ wpc = "refresh" /\ wpc' = "refreshed" /\ wi' = wi /\ wi \in Backend
        /\ h' = IF h[wi].serial # 1
                THEN [h EXCEPT ![wi].serial = 1, ![wi].role = role[wi]] ELSE h
    BY <1>4 DEF WatchRefresh
  <2>2. h'[wi].serial = 1 BY <1>0, <2>1 DEF WatcherTypes
  <2>3. \A i \in Backend \ {wi} : h'[i] = h[i] BY <1>0, <2>1 DEF WatcherTypes
  <2> QED BY <1>0, <2>1, <2>2, <2>3 DEF WatcherTypes
<1>5. CASE WatchRefreshed BY <1>0, <1>5, ContextAssumption DEF WatchRefreshed, WatcherTypes
<1>6. CASE WatchUnlock BY <1>0, <1>6, ContextAssumption DEF WatchUnlock, WatcherTypes
<1>7. CASE WatchCheck
  <2>1. wpc = "check" /\ wpc' = "check" BY <1>7 DEF WatchCheck
  <2>2. \A i \in Backend : h'[i].serial = h[i].serial
    BY <1>0, <1>7 DEF WatchCheck, WatcherTypes
  <2> QED BY <2>1, <2>2
<1>8. CASE WatchWrlock BY <1>0, <1>8, ContextAssumption DEF WatchWrlock, WatcherTypes
<1>9. CASE WatchPublish BY <1>0, <1>9, ContextAssumption DEF WatchPublish, WatcherTypes
<1>10. CASE WatchPublished BY <1>0, <1>10, ContextAssumption DEF WatchPublished, WatcherTypes
<1>11. CASE WatchDone BY <1>0, <1>11, ContextAssumption DEF WatchDone, WatcherTypes
<1>12. CASE WatchWake BY <1>0, <1>12, ContextAssumption DEF WatchWake, WatcherTypes
<1>13. CASE WatchDie BY <1>0, <1>13, ContextAssumption DEF WatchDie, WatcherTypes
<1> QED BY <1>1, <1>2, <1>3, <1>4, <1>5, <1>6, <1>7, <1>8, <1>9, <1>10, <1>11, <1>12, <1>13,
  WhoWrites DEF Watcher

\* Counting one backend more.
LEMMA OneMore ==
    ASSUME NEW st, NEW k \in Backend
    PROVE  /\ OkBelow(st, 1) = 0 /\ OkBelow(st, k) \in Nat
           /\ OkBelow(st, k + 1) = IF st[k] = "OK" THEN OkBelow(st, k) + 1 ELSE OkBelow(st, k)
<1> DEFINE Below(j) == {i \in Backend : i < j /\ st[i] = "OK"}
<1>1. IsFiniteSet(Backend) BY FS_Interval, ContextAssumption DEF Backend
<1>2. Below(k) \subseteq Backend OBVIOUS
<1>3. IsFiniteSet(Below(k)) BY <1>1, <1>2, FS_Subset
<1>4. Below(1) = {} BY DEF Backend
<1>5. k \notin Below(k) BY DEF Backend
<1>6. Below(k + 1) = IF st[k] = "OK" THEN Below(k) \union {k} ELSE Below(k) BY DEF Backend
<1> HIDE DEF Below
<1>7. Cardinality(Below(1)) = 0 BY <1>4, FS_EmptySet
<1>8. Cardinality(Below(k) \union {k}) = Cardinality(Below(k)) + 1
  BY <1>3, <1>5, FS_AddElement
<1>9. Cardinality(Below(k)) \in Nat BY <1>3, FS_CardinalityType
<1>10. Cardinality(Below(k + 1)) = IF st[k] = "OK" THEN Cardinality(Below(k)) + 1
                                                   ELSE Cardinality(Below(k))
  BY <1>6, <1>8
<1> QED BY <1>7, <1>9, <1>10 DEF OkBelow, Below

LEMMA TalliedKept ==
    ASSUME TypeOK, Locked, Refreshed, Tallied, [Next]_vars
    PROVE  Tallied'
<1>0. WatcherTypes /\ WatcherHolds BY TypeParts DEF Locked
<1> USE DEF Tallied
<1>1. ASSUME NEW w \in Worker, WorkCrash(w) PROVE Tallied' BY <1>1 DEF WorkCrash
<1>2. CASE WatchWrlock
  <2>1. wpc' = "publish" /\ wi' = 1 /\ ok_backends' = 0 BY <1>2 DEF WatchWrlock
  <2>2. 1 \in Backend BY ContextAssumption DEF Backend
  <2>3. OkBelow(status', 1) = 0 BY <2>2, OneMore
  <2> QED BY <2>1, <2>3
<1>3. CASE WatchPublish
  <2>1. /\ wi \in Backend /\ wpc = "publish" /\ wpc' = "published" /\ wi' = wi
        /\ h[wi].serial = 1
    BY <1>3 DEF WatchPublish, Refreshed
  <2>2. /\ ok_backends' = IF h[wi].ok = "OK" THEN ok_backends + 1 ELSE ok_backends
        /\ status' = [status EXCEPT ![wi] = h[wi].ok]
    BY <1>3, <2>1 DEF WatchPublish
  <2>3. status'[wi] = h[wi].ok /\ \A i \in Backend \ {wi} : status'[i] = status[i]
    BY <2>1, <2>2 DEF TypeOK
  <2>4. {i \in Backend : i < wi /\ status'[i] = "OK"} = {i \in Backend : i < wi /\ status[i] = "OK"}
    BY <2>1, <2>3 DEF Backend
  <2>5. OkBelow(status', wi) = OkBelow(status, wi) BY <2>4 DEF OkBelow
  <2>6. OkBelow(status', wi + 1) = IF status'[wi] = "OK" THEN OkBelow(status', wi) + 1
                                                         ELSE OkBelow(status', wi)
    BY <2>1, OneMore
  <2> QED BY <2>1, <2>2, <2>3, <2>5, <2>6
<1>4. CASE UNCHANGED <<status, ok_backends>>
  <2>1. CASE UNCHANGED wvars /\ (mpc = "dead" => mpc' = "dead") BY <1>4, <2>1 DEF wvars
  <2>2. CASE Watcher \/ WatchDie
    <3>1. UNCHANGED mvars
      BY <2>2 DEF Watcher, WatchRdlock, WatchRefresh, WatchRefreshed, WatchUnlock,
        WatchCheck, WatchWrlock, WatchPublish, WatchPublished, WatchDone, WatchWake,
        WatchDie
    <3>2. CASE WatchPublished BY <1>0, <1>4, <3>1, <3>2 DEF WatchPublished, WatcherHolds
    <3>3. CASE WatchDone BY <1>4, <3>3 DEF WatchDone
    <3>4. CASE wpc \notin {"publish", "published"} /\ wpc' \notin {"publish", "published"}
               /\ (wpc' = "dead" \/ wpc # "dead")
      BY <1>4, <3>1, <3>4 DEF mvars
    <3>5. CASE WatchWrlock BY <1>2, <3>5
    <3>6. CASE WatchPublish BY <1>3, <3>6
    <3> QED
      BY <2>2, <3>2, <3>3, <3>4, <3>5, <3>6 DEF Watcher, WatchRdlock, WatchRefresh,
         WatchRefreshed, WatchUnlock, WatchCheck, WatchWake, WatchDie
  <2>3. mpc = "dead" => mpc' = "dead"
    BY WhoWrites DEF mvars, MonAccept, Monitor, MonRdlock, MonHead, MonLock, MonLine,
       MonUnlock, MonClose, MonDie, WorkCrash
  <2> QED BY <1>1, <2>1, <2>2, <2>3, WhoWrites
<1>5. \/ UNCHANGED <<status, ok_backends>> \/ WatchWrlock \/ WatchPublish
  BY WhoWrites DEF data, WorkCount, WorkLeave, Reload
<1> QED BY <1>2, <1>3, <1>4, <1>5

LEMMA ReportedKept ==
    ASSUME TypeOK, Locked, Tallied, Reported, [Next]_vars
    PROVE  Reported'
<1>0. MonitorHolds BY DEF Locked
<1>1. CASE UNCHANGED mvars
  <2>1. CASE mpc \in {"lines", "line"}
    <3>1. rd[0] # {} BY <1>0, <2>1 DEF MonitorHolds
    <3>2. UNCHANGED <<status, ok_backends>> BY <3>1, Quiet
    <3> QED BY <1>1, <3>2 DEF mvars, Reported, ReportConsistent
  <2>2. CASE mpc \notin {"lines", "line"} BY <1>1, <2>2 DEF mvars, Reported, ReportConsistent
  <2> QED BY <2>1, <2>2
<1>2. ASSUME NEW w \in Worker, WorkCrash(w) PROVE Reported'
  BY <1>2 DEF WorkCrash, Reported, ReportConsistent
<1>3. CASE MonAccept \/ MonRdlock \/ MonClose \/ MonDie
  BY <1>3 DEF MonAccept, MonRdlock, MonClose, MonDie, Reported, ReportConsistent
<1>4. CASE MonHead
  <2>1. 1 \in Backend BY ContextAssumption DEF Backend
  <2>2. OkBelow(status, 1) = 0 BY <2>1, OneMore
  <2> QED BY <1>4, <2>2 DEF MonHead, Reported, ReportConsistent, data
<1>5. CASE MonLock BY <1>5 DEF MonLock, Reported, ReportConsistent, data
<1>6. CASE MonLine
  <2>1. mi \in Backend BY <1>0, <1>6 DEF MonLine, MonitorHolds
  <2>2. OkBelow(status, mi + 1) = IF status[mi] = "OK" THEN OkBelow(status, mi) + 1
                                                       ELSE OkBelow(status, mi)
    BY <2>1, OneMore
  <2> QED BY <1>6, <2>2 DEF MonLine, Reported, ReportConsistent, data
<1>7. CASE MonUnlock
  <2>1. rd[0] # {} BY <1>0, <1>7 DEF MonUnlock, MonitorHolds
  <2>2. wr[0] = {} BY <2>1, LockNames DEF Locked, Exclusive
  <2>3. wpc \notin {"publish", "published"} BY <2>2 DEF Locked, WatcherHolds
  <2>4. ok_backends = OkBelow(status, N + 1) BY <1>7, <2>3 DEF MonUnlock, Tallied
  <2> QED BY <1>7, <2>4 DEF MonUnlock, Reported, ReportConsistent
<1> QED BY <1>1, <1>2, <1>3, <1>4, <1>5, <1>6, <1>7, WhoWrites DEF Monitor
-----------------------------------------------------------------------------
(* The choice of backends. *)

\* A worker whose locals stay as they are keeps a choice of the present state.
LEMMA ChoiceStays ==
    ASSUME TypeOK, Locked, [Next]_vars, NEW w \in Worker, Choice(w),
           pc'[w] = pc[w], ix'[w] = ix[w], weights'[w] = weights[w],
           cumulative'[w] = cumulative[w], r'[w] = r[w],
           reader'[w] = reader[w], writer'[w] = writer[w]
    PROVE  Choice(w)'
<1>1. Weighed(w)' /\ Chosen(w)' BY DEF Choice, Weighed, Chosen, Scans, Seen, PickedBy
<1>2. CASE Scans(w)
  <2>1. rd[0] # {} BY <1>2 DEF Locked, WorkerHolds, Scans
  <2>2. UNCHANGED <<status, role, lag>> BY <2>1, Quiet
  <2>3. Current(w)' BY <2>2 DEF Choice, Current, Scans, Seen, Viable
  <2> QED BY <1>1, <2>3 DEF Choice
<1>3. CASE ~Scans(w) BY <1>1, <1>3 DEF Choice, Current, Scans
<1> QED BY <1>2, <1>3

\* Every value that can be drawn picks a backend.
LEMMA DrawPicks ==
    ASSUME TypeOK, NEW w \in Worker, Choice(w), pc[w] = "scan", cumulative[w] # 0,
           NEW x \in Draws(w)
    PROVE  PickedBy(w, x) # {}
<1> DEFINE T == {i \in Backend : x <= weights[w][i]}
<1>1. PICK j \in Backend : weights[w][j] = cumulative[w]
  BY DEF Choice, Weighed, Scans, Seen
<1>2. x \in Nat /\ x <= cumulative[w] BY DEF Draws, TypeOK
<1>3. T \in SUBSET Nat /\ j \in T BY <1>1, <1>2 DEF Backend
<1>4. PICK i \in T : \A k \in T : ~(k < i)
  <2> HIDE DEF T
  <2> QED BY <1>3, Least
<1>5. i \in Backend /\ x <= weights[w][i] BY <1>4
<1>6. ASSUME NEW k \in 1..(i - 1) PROVE ~(x <= weights[w][k])
  <2>1. k \in Backend /\ k < i BY <1>5, ContextAssumption DEF Backend
  <2> QED BY <1>4, <2>1
<1>7. i \in PickedBy(w, x) BY <1>5, <1>6 DEF PickedBy
<1> QED BY <1>7

\* A backend is scanned.
LEMMA ScanChoice ==
    ASSUME TypeOK, Locked, NEW w \in Worker, Choice(w), WorkScan(w)
    PROVE  Choice(w)'
<1> DEFINE i == ix[w]
<1>1. /\ i \in Backend /\ Weight[i] \in Nat /\ pc[w] = "scan" /\ ix' = ix
      /\ UNCHANGED <<status, role, lag>> /\ pc' = [pc EXCEPT ![w] = "scanned"]
  BY ContextAssumption DEF WorkScan, Goto, data
<1>2. writer'[w] = IF role[i] = "MASTER" THEN i ELSE writer[w]
  BY DEF WorkScan, TypeOK
<1>3. Viable(i) =>
         /\ cumulative'[w] = cumulative[w] + Weight[i]
         /\ weights'[w][i] = cumulative[w] + Weight[i]
         /\ \A j \in Backend \ {i} : weights'[w][j] = weights[w][j]
  BY <1>1 DEF WorkScan, TypeOK
<1>4. ~Viable(i) => cumulative' = cumulative /\ weights' = weights BY DEF WorkScan
<1>5. pc'[w] = "scanned" BY <1>1 DEF TypeOK
<1>6. Seen(w)' = Seen(w) \union {i} /\ i \notin Seen(w) /\ \A j \in Seen(w) : j < i
  BY <1>1, <1>5 DEF Seen, Backend
<1>7. weights[w][i] = 0 BY <1>1, <1>6 DEF Choice, Weighed, Scans
<1>8. cumulative[w] \in Nat /\ \A j \in Backend : weights[w][j] \in Nat BY DEF TypeOK
<1> HIDE DEF i
<1>9. Weighed(w)'
  <2>1. \A j \in Backend \ Seen(w)' : weights'[w][j] = 0
    BY <1>1, <1>3, <1>4, <1>6 DEF Choice, Weighed, Scans
  <2>2. cumulative'[w] = 0 \/ \E j \in Seen(w)' : weights'[w][j] = cumulative'[w]
    <3>1. CASE Viable(i) BY <1>3, <1>6, <3>1
    <3>2. CASE ~Viable(i) BY <1>1, <1>4, <1>6, <3>2 DEF Choice, Weighed, Scans
    <3> QED BY <3>1, <3>2
  <2>3. ASSUME NEW j \in Seen(w)', weights'[w][j] > 0, Weight[j] = 0
        PROVE  \E k \in Backend : k < j /\ weights'[w][k] = weights'[w][j]
    <3>1. CASE j = i
      <4>1. Viable(i) BY <1>4, <1>7, <2>3, <3>1
      <4>2. weights'[w][i] = cumulative[w] /\ cumulative[w] # 0
        BY <1>3, <1>8, <2>3, <3>1, <4>1
      <4>3. PICK k \in Seen(w) : weights[w][k] = cumulative[w]
        BY <1>1, <4>2 DEF Choice, Weighed, Scans
      <4>4. k \in Backend /\ k < i /\ k # i BY <1>6, <4>3 DEF Seen
      <4> QED BY <1>3, <3>1, <4>1, <4>2, <4>3, <4>4
    <3>2. CASE j # i
      <4>1. j \in Seen(w) /\ j \in Backend /\ j < i BY <1>6, <3>2 DEF Seen
      <4>2. weights'[w][j] = weights[w][j] BY <1>3, <1>4, <3>2, <4>1
      <4>3. PICK k \in Backend : k < j /\ weights[w][k] = weights[w][j]
        BY <1>1, <2>3, <4>1, <4>2 DEF Choice, Weighed, Scans
      <4>4. k # i BY <1>1, <4>1, <4>3 DEF Backend
      <4> QED BY <1>3, <1>4, <4>2, <4>3, <4>4
    <3> QED BY <3>1, <3>2
  <2> QED BY <2>1, <2>2, <2>3 DEF Weighed
<1>10. Current(w)'
  <2>1. \A j \in Backend : Viable(j)' <=> Viable(j) BY <1>1 DEF Viable
  <2>2. \A j \in Seen(w) : j \in Backend /\ j # i BY <1>6 DEF Seen
  <2>3. ASSUME NEW j \in Seen(w)', weights'[w][j] > 0 PROVE Viable(j)'
    <3>1. CASE j = i BY <1>1, <1>4, <1>7, <2>1, <2>3, <3>1
    <3>2. CASE j # i
      <4>1. j \in Seen(w) BY <1>6, <3>2
      <4>2. weights[w][j] > 0 BY <1>3, <1>4, <2>2, <2>3, <4>1
      <4> QED BY <1>1, <2>1, <2>2, <4>1, <4>2 DEF Choice, Current, Scans
    <3> QED BY <3>1, <3>2
  <2>4. ASSUME NEW j \in Seen(w)', role'[j] = "MASTER" PROVE writer'[w] \in Backend
    <3>1. CASE j = i BY <1>1, <1>2, <2>4, <3>1
    <3>2. CASE j # i BY <1>1, <1>2, <1>6, <2>4, <3>2 DEF Choice, Current, Scans
    <3> QED BY <3>1, <3>2
  <2>5. writer'[w] # 0 => role'[writer'[w]] = "MASTER"
    BY <1>1, <1>2 DEF Choice, Current, Scans
  <2> QED BY <2>3, <2>4, <2>5 DEF Current
<1>11. Chosen(w)' BY <1>5 DEF Chosen
<1> QED BY <1>9, <1>10, <1>11 DEF Choice

\* The end of the scan, and a value that is drawn.
LEMMA PickChoice ==
    ASSUME TypeOK, Locked, NEW w \in Worker, Choice(w), WorkPick(w)
    PROVE  Choice(w)'
<1>1. /\ pc[w] = "scan" /\ ix[w] = N + 1 /\ cumulative[w] # 0
      /\ UNCHANGED <<status, role, lag, ix, weights, cumulative, writer>>
  BY DEF WorkPick, data
<1>2. PICK x \in Draws(w) : \E i \in PickedBy(w, x) :
          /\ r' = [r EXCEPT ![w] = x] /\ reader' = [reader EXCEPT ![w] = i]
          /\ pc' = [pc EXCEPT ![w] = "picked"]
  BY <1>1, DrawPicks DEF WorkPick, Goto
<1>3. pc'[w] = "picked" /\ r'[w] = x /\ reader'[w] \in PickedBy(w, x) BY <1>2 DEF TypeOK
<1>4. Seen(w)' = Seen(w) BY <1>1, <1>3 DEF Seen, Backend
<1>5. Weighed(w)' BY <1>1, <1>4 DEF Choice, Weighed, Scans
<1>6. Current(w)' BY <1>1, <1>4 DEF Choice, Current, Scans, Viable
<1>7. Chosen(w)' BY <1>1, <1>3 DEF Chosen, PickedBy
<1> QED BY <1>5, <1>6, <1>7 DEF Choice

LEMMA ChoiceKept ==
    ASSUME TypeOK, Locked, [Next]_vars, \A w \in Worker : Choice(w)
    PROVE  \A w \in Worker : Choice(w)'
<1>1. CASE UNCHANGED kvars BY <1>1, ChoiceStays DEF kvars
<1>2. ASSUME NEW w \in Worker, WorkCrash(w) PROVE \A v \in Worker : Choice(v)'
  BY <1>2 DEF WorkCrash, Choice, Weighed, Current, Chosen, Scans
<1>3. ASSUME NEW w \in Worker, Works(w), ~WorkCrash(w) PROVE \A v \in Worker : Choice(v)'
  <2>0. /\ Choice(w) /\ WorkerTypes
        /\ \A v \in Worker \ {w} : Choice(v)'
    BY <1>3, OwnLocals, ChoiceStays, TypeParts
  <2> USE DEF Choice, Weighed, Current, Chosen, Scans, Goto
  <2>1. CASE WorkAccept(w) BY <2>0, <2>1 DEF WorkAccept, WorkerTypes
  <2>2. CASE WorkCount(w) BY <2>0, <2>2 DEF WorkCount, WorkerTypes
  <2>3. CASE WorkCounted(w) BY <2>0, <2>3 DEF WorkCounted, WorkerTypes
  <2>4. CASE WorkGreet(w) BY <2>0, <2>4 DEF WorkGreet, WorkerTypes
  <2>5. CASE WorkLookup(w) BY <2>0, <2>5 DEF WorkLookup, WorkerTypes
  <2>6. CASE WorkFound(w) BY <2>0, <2>6 DEF WorkFound, WorkerTypes
  <2>7. CASE WorkDetermine(w)
    <3>1. /\ pc[w] = "determine" /\ pc'[w] = "scan" /\ ix'[w] = 1 /\ writer' = writer
          /\ weights'[w] = [i \in Backend |-> 0] /\ cumulative'[w] = 0
      BY <2>0, <2>7 DEF WorkDetermine, ClearLocals, WorkerTypes
    <3>2. Seen(w)' = {} BY <3>1 DEF Seen, Backend
    <3>3. Choice(w)' BY <2>0, <3>1, <3>2
    <3> QED BY <2>0, <3>3
  <2>8. CASE WorkScan(w) BY <2>0, <2>8, ScanChoice
  <2>9. CASE WorkScanned(w)
    <3>1. /\ pc[w] = "scanned" /\ pc'[w] = "scan" /\ ix'[w] = ix[w] + 1
          /\ UNCHANGED <<status, role, lag, weights, cumulative, r, reader, writer>>
      BY <2>0, <2>9 DEF WorkScanned, WorkerTypes, data
    <3>2. Seen(w)' = Seen(w) BY <2>0, <3>1 DEF Seen, Backend, WorkerTypes
    <3>3. Choice(w)' BY <2>0, <3>1, <3>2 DEF Viable
    <3> QED BY <2>0, <3>3
  <2>10. CASE WorkNoneViable(w) BY <2>0, <2>10 DEF WorkNoneViable, WorkerTypes
  <2>11. CASE WorkPick(w) BY <2>0, <2>11, PickChoice
  <2>12. CASE WorkPicked(w) BY <2>0, <2>12 DEF WorkPicked, WorkerTypes
  <2>13. CASE WorkConnect(w) BY <2>0, <2>13 DEF WorkConnect, WorkerTypes
  <2>14. CASE WorkServed(w) BY <2>0, <2>14 DEF WorkServed, WorkerTypes
  <2>15. CASE WorkLeave(w) BY <2>0, <2>15 DEF WorkLeave, WorkerTypes
  <2>16. CASE WorkLeft(w) BY <2>0, <2>16 DEF WorkLeft, WorkerTypes
  <2>17. CASE WorkDie(w) BY <2>0, <2>17 DEF WorkDie, WorkerTypes
  <2> QED BY <1>3, <2>1, <2>2, <2>3, <2>4, <2>5, <2>6, <2>7, <2>8, <2>9, <2>10, <2>11,
    <2>12, <2>13, <2>14, <2>15, <2>16, <2>17 DEF Works, Work
<1> QED BY <1>1, <1>2, <1>3, WhoWrites
-----------------------------------------------------------------------------
(* The count of clients. *)

LEMMA ClientsKept ==
    ASSUME TypeOK, Locked, ClientsCounted, [Next]_vars
    PROVE  ClientsCounted'
<1> DEFINE C == {w \in Worker : pc[w] \in Counted}
<1> SUFFICES ASSUME cancelled' = {}, ~crashed' PROVE fe_conns' = Cardinality(C')
  BY DEF ClientsCounted
<1>0. IsFiniteSet(C) /\ Cardinality(C) \in Nat
  <2>1. C \subseteq Worker OBVIOUS
  <2>2. IsFiniteSet(C) BY <2>1, ContextAssumption, FS_Subset
  <2> QED BY <2>2, FS_CardinalityType
<1>1. cancelled = {} /\ ~crashed
  <2>1. CASE UNCHANGED svars BY <2>1 DEF svars
  <2>2. ASSUME NEW w \in Worker, WorkAccept(w) \/ WorkCrash(w) PROVE cancelled = {} /\ ~crashed
    BY <2>2 DEF WorkAccept, WorkCrash
  <2>3. CASE MonAccept BY <2>3 DEF MonAccept
  <2>4. ASSUME NEW sig \in Signals, Signal(sig) PROVE cancelled = {} /\ ~crashed
    BY <2>4, LockNames DEF Signal
  <2>5. CASE Reload \/ Reloaded \/ Exit BY <2>5 DEF Reload, Reloaded, Exit
  <2>6. CASE Watcher \/ WatchDie
    <3>1. UNCHANGED svars
      BY <2>6 DEF Watcher, WatchRdlock, WatchRefresh, WatchRefreshed, WatchUnlock,
        WatchCheck, WatchWrlock, WatchPublish, WatchPublished, WatchDone, WatchWake,
        WatchDie
    <3> QED BY <2>1, <3>1
  <2>7. ASSUME NEW w \in Worker, Work(w) \/ WorkDie(w), ~WorkCrash(w)
        PROVE  cancelled = {} /\ ~crashed
    <3>1. UNCHANGED svars
      BY <2>7 DEF Work, WorkCount, WorkCounted, WorkGreet, WorkLookup, WorkFound,
        WorkDetermine, WorkScan, WorkScanned, WorkNoneViable, WorkPick, WorkPicked,
        WorkConnect, WorkServed, WorkLeave, WorkLeft, WorkDie
    <3> QED BY <2>1, <3>1
  <2>8. CASE Monitor \/ MonDie
    <3>1. UNCHANGED svars
      BY <2>8 DEF Monitor, MonRdlock, MonHead, MonLock, MonLine, MonUnlock, MonClose, MonDie
    <3> QED BY <2>1, <3>1
  <2>9. CASE UNCHANGED vars BY <2>1, <2>9 DEF vars
  <2> QED BY <2>2, <2>3, <2>4, <2>5, <2>6, <2>7, <2>8, <2>9 DEF Next
<1>2. fe_conns = Cardinality(C) BY <1>1 DEF ClientsCounted
<1>3. ASSUME NEW w \in Worker, WorkCount(w) PROVE fe_conns' = Cardinality(C')
  <2>1. fe_conns' = fe_conns + 1 BY <1>3 DEF WorkCount
  <2>2. w \notin C /\ C' = C \union {w} BY <1>3 DEF WorkCount, Goto, Counted, TypeOK
  <2> HIDE DEF C
  <2>3. Cardinality(C \union {w}) = Cardinality(C) + 1 BY <1>0, <2>2, FS_AddElement
  <2> QED BY <1>2, <2>1, <2>2, <2>3
<1>4. ASSUME NEW w \in Worker, WorkLeave(w) PROVE fe_conns' = Cardinality(C')
  <2>1. fe_conns' = fe_conns - 1 BY <1>4 DEF WorkLeave
  <2>2. w \in C /\ C' = C \ {w} BY <1>4 DEF WorkLeave, Goto, Counted, TypeOK
  <2> HIDE DEF C
  <2>3. Cardinality(C \ {w}) = Cardinality(C) - 1 BY <1>0, <2>2, FS_RemoveElement
  <2> QED BY <1>2, <2>1, <2>2, <2>3
<1>5. ASSUME \A w \in Worker : ~WorkCount(w) /\ ~WorkLeave(w)
      PROVE  fe_conns' = Cardinality(C')
  <2>1. fe_conns' = fe_conns BY <1>5, WhoWrites DEF data, WatchWrlock, WatchPublish, Reload
  <2>2. C' = C
    <3>1. CASE UNCHANGED kvars BY <3>1 DEF kvars
    <3>2. ASSUME NEW w \in Worker, WorkDie(w) \/ WorkCrash(w) PROVE FALSE
      BY <1>1, <3>2 DEF WorkDie, WorkCrash
    <3>3. ASSUME NEW w \in Worker, WorkAccept(w) \/ Work(w)
          PROVE  \A v \in Worker : pc'[v] \in Counted <=> pc[v] \in Counted
      <4> USE DEF Counted, Goto, TypeOK
      <4>1. CASE WorkAccept(w) BY <4>1 DEF WorkAccept
      <4>2. CASE WorkCounted(w) BY <4>2 DEF WorkCounted
      <4>3. CASE WorkGreet(w) BY <4>3 DEF WorkGreet
      <4>4. CASE WorkLookup(w) BY <4>4 DEF WorkLookup
      <4>5. CASE WorkFound(w) BY <4>5 DEF WorkFound
      <4>6. CASE WorkDetermine(w) BY <4>6 DEF WorkDetermine
      <4>7. CASE WorkScan(w) BY <4>7 DEF WorkScan
      <4>8. CASE WorkScanned(w) BY <4>8 DEF WorkScanned
      <4>9. CASE WorkNoneViable(w) BY <4>9 DEF WorkNoneViable
      <4>10. CASE WorkPick(w) BY <4>10 DEF WorkPick
      <4>11. CASE WorkPicked(w) BY <4>11 DEF WorkPicked
      <4>12. CASE WorkConnect(w) BY <4>12 DEF WorkConnect
      <4>13. CASE WorkServed(w) BY <4>13 DEF WorkServed
      <4>14. CASE WorkLeft(w) BY <4>14 DEF WorkLeft
      <4> QED BY <1>5, <3>2, <3>3, <4>1, <4>2, <4>3, <4>4, <4>5, <4>6, <4>7, <4>8, <4>9,
        <4>10, <4>11, <4>12, <4>13, <4>14 DEF Work
    <3> QED BY <3>1, <3>2, <3>3, WhoWrites DEF Works
  <2> QED BY <1>2, <2>1, <2>2
<1> QED BY <1>3, <1>4, <1>5
-----------------------------------------------------------------------------
(* The theorems. *)

LEMMA Initially == Init => IInv
<1> SUFFICES ASSUME Init PROVE IInv OBVIOUS
<1> USE DEF Init
<1>1. TypeOK
  <2>1. Cardinality(Worker) \in Nat BY ContextAssumption, FS_CardinalityType
  <2>2. DataTypes BY <2>1 DEF DataTypes, Status, Role
  <2>3. LockTypes BY DEF LockTypes
  <2>4. WatcherTypes BY ContextAssumption DEF WatcherTypes, WatchSteps, Status, Role
  <2>5. WorkerTypes BY ContextAssumption DEF WorkerTypes, WorkSteps
  <2>6. MonitorTypes BY ContextAssumption DEF MonitorTypes, MonSteps
  <2>7. SuperTypes
    <3>1. arrivals \in 0..MaxArrivals BY ContextAssumption
    <3> QED BY <3>1 DEF SuperTypes, SuperSteps
  <2> QED BY <2>2, <2>3, <2>4, <2>5, <2>6, <2>7, TypeParts
<1>2. Locked
  BY DEF Locked, Exclusive, WatcherHolds, WorkerHolds, MonitorHolds, SuperHolds
<1>3. Refreshed BY DEF Refreshed
<1>4. Tallied
  <2>1. {i \in Backend : i < N + 1 /\ status[i] = "OK"} = {} OBVIOUS
  <2>2. OkBelow(status, N + 1) = 0 BY <2>1, FS_EmptySet DEF OkBelow
  <2> QED BY <2>2 DEF Tallied
<1>5. Reported BY DEF Reported, ReportConsistent
<1>6. ClientsCounted
  <2>1. {w \in Worker : pc[w] \in Counted} = {} BY DEF Counted
  <2> QED BY <2>1, FS_EmptySet DEF ClientsCounted
<1>7. \A w \in Worker : Choice(w) BY DEF Choice, Weighed, Current, Chosen, Scans
<1> QED BY <1>1, <1>2, <1>3, <1>4, <1>5, <1>6, <1>7 DEF IInv

LEMMA Invariant == Spec => []IInv
<1>1. IInv /\ [Next]_vars => IInv'
  <2> SUFFICES ASSUME IInv, [Next]_vars PROVE IInv' OBVIOUS
  <2>1. TypeOK' /\ Locked' BY TypesKept, LocksKept DEF IInv
  <2>2. Refreshed' /\ Tallied' /\ Reported'
    BY RefreshedKept, TalliedKept, ReportedKept DEF IInv
  <2>3. ClientsCounted' /\ \A w \in Worker : Choice(w)' BY ClientsKept, ChoiceKept DEF IInv
  <2> QED BY <2>1, <2>2, <2>3 DEF IInv
<1> QED BY Initially, <1>1, PTL DEF Spec

LEMMA SoundPicks == IInv => PickSound
<1> SUFFICES ASSUME IInv, NEW w \in Worker
             PROVE  /\ pc[w] = "picked" /\ r[w] > 0 =>
                           Viable(reader[w]) /\ Weight[reader[w]] > 0
                    /\ pc[w] # "fellthrough"
  BY DEF PickSound
<1>1. Choice(w) /\ TypeOK BY DEF IInv
<1>2. ASSUME pc[w] = "picked", r[w] > 0 PROVE Viable(reader[w]) /\ Weight[reader[w]] > 0
  <2> DEFINE i == reader[w]
  <2>1. /\ i \in Backend /\ r[w] <= weights[w][i]
        /\ \A j \in 1..(i - 1) : ~(r[w] <= weights[w][j])
    BY <1>1, <1>2 DEF Choice, Chosen, PickedBy
  <2>2. i \in Seen(w) BY <1>1, <1>2, <2>1, ContextAssumption DEF Choice, Chosen, Seen, Backend
  <2>3. r[w] \in Nat /\ \A j \in Backend : weights[w][j] \in Nat BY <1>1 DEF TypeOK
  <2>4. weights[w][i] > 0 BY <1>2, <2>1, <2>3
  <2>5. Viable(i) BY <1>1, <1>2, <2>2, <2>4 DEF Choice, Current, Scans
  <2>6. Weight[i] # 0
    <3> SUFFICES ASSUME Weight[i] = 0 PROVE FALSE OBVIOUS
    <3>1. PICK j \in Backend : j < i /\ weights[w][j] = weights[w][i]
      BY <1>1, <1>2, <2>2, <2>4 DEF Choice, Weighed, Scans
    <3>2. j \in 1..(i - 1) BY <2>1, <3>1, ContextAssumption DEF Backend
    <3> QED BY <2>1, <3>1, <3>2
  <2>7. Weight[i] \in Nat BY <2>1, ContextAssumption
  <2> QED BY <2>5, <2>6, <2>7
<1> QED BY <1>1, <1>2 DEF Choice, Chosen

\* The locks of the context and of the backends are enough: no thread reads what
\* another is changing, and the lines of one report of the monitor, which it
\* writes to a client in many steps, add up to the count in its head, although
\* the watcher resets that count and counts again.
THEOREM DatasetSafe == Spec => []ContextInv
<1>1. IInv => ContextInv
  BY LockedMeansNoRace DEF IInv, ContextInv, Reported
<1> QED BY <1>1, Invariant, PTL

\* fe_conns is the number of clients being served, whichever way do_worker and
\* handle_client are left.
THEOREM ClientsAreCounted == Spec => []ClientsCounted
<1>1. IInv => ClientsCounted BY DEF IInv
<1> QED BY <1>1, Invariant, PTL

\* What determine_backends collects in its first loop still holds in its second:
\* it works on one state of the dataset.
THEOREM ScansAreSnapshots == Spec => []ScanIsSnapshot
<1>1. IInv => ScanIsSnapshot BY DEF IInv, ScanIsSnapshot, Choice, Current, Scans, Seen
<1> QED BY <1>1, Invariant, PTL

\* For any weights: a value above 0 picks a backend that is viable and has a
\* weight, and no value picks none.
THEOREM PicksAreSound == Spec => []PickSound
BY SoundPicks, Invariant, PTL
=============================================================================
