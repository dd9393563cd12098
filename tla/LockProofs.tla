------------------------------ MODULE LockProofs ------------------------------
(***************************************************************************)
(* Proofs about the two components that several processes share on disk    *)
(* under a lock that may be left behind: ScanQueue, whose worker takes the *)
(* single-instance lockfile, and CliCache, whose runs take .lock when they *)
(* can and go on without it when they cannot.                              *)
(*                                                                         *)
(* The first part is about ScanQueue, for any number of requests, projects *)
(* and boots.  The second is about CliCache, for any runs, cells and       *)
(* bounds.  What is promised there is what happens to runs of one version  *)
(* that never hold the lock together and whose cache nobody deletes; then  *)
(*                                                                         *)
(*   - the holder of the lock is the only run that writes, and the rows it *)
(*     writes are, cell by cell, no older than those they replace;         *)
(*   - what it will stamp is true already, or is once the item is done;    *)
(*   - everybody else keeps what it was told: a stamp of its own           *)
(*     normalizer stays one, and rows only get newer.                      *)
(*                                                                         *)
(* CacheInv says so, and the properties follow from it.                    *)
(***************************************************************************)
EXTENDS ScanQueue, CliCache, FiniteSetTheorems, SequenceTheorems, TLAPS

-----------------------------------------------------------------------------
(* Type correctness. *)

\* The initial table, lock and process states have their types.
LEMMA InitType == Init => TypeOK
<1> SUFFICES ASSUME Init PROVE TypeOK
  OBVIOUS
<1>1. /\ status \in [Requests -> Statuses]
      /\ scope \in [Requests -> Scopes \cup {NoScope}]
      /\ at \in [Requests -> Nat] /\ now \in Nat
  BY DEF Init, Statuses
<1>2. /\ fresh \in SUBSET Requests
      /\ tasks \in [Workers -> SUBSET Requests]
  BY DEF Init
<1>3. /\ phase \in [Workers -> Phases]
      /\ lock \in Workers \cup {NoWorker}
      /\ rebuilds \in Nat /\ rebuilding \in BOOLEAN
      /\ portal \in Scopes \cup {NoScope}
  BY DEF Init, Phases
<1> QED
  BY <1>1, <1>2, <1>3 DEF TypeOK

\* Inserting a row keeps the table's types.
LEMMA EnqueueType ==
  ASSUME NEW s \in Scopes, TypeOK, Enqueue(s)
  PROVE  /\ status' \in [Requests -> Statuses]
         /\ scope' \in [Requests -> Scopes \cup {NoScope}]
         /\ at' \in [Requests -> Nat]
         /\ now' \in Nat
  BY DEF TypeOK, Enqueue, Statuses

\* Every step of the portal, the worker and the clock keeps the types.
LEMMA NextType == TypeOK /\ [Next]_vars => TypeOK'
<1> SUFFICES ASSUME TypeOK, [Next]_vars PROVE TypeOK'
  OBVIOUS
<1>1. ASSUME NEW s \in Scopes, PortalCheck(s) PROVE TypeOK'
  BY <1>1 DEF TypeOK, PortalCheck, rows
<1>2. CASE PortalInsert
  <2>1. portal \in Scopes
    BY <1>2 DEF PortalInsert, TypeOK
  <2>2. Enqueue(portal)
    BY <1>2 DEF PortalInsert
  <2> QED
    BY <1>2, <2>1, <2>2, EnqueueType DEF PortalInsert, TypeOK
<1>3. ASSUME NEW w \in Workers, EnqueueRescan(w) PROVE TypeOK'
  <2>1. Sweep \in Scopes /\ Enqueue(Sweep)
    BY <1>3 DEF EnqueueRescan, Scopes
  <2> QED
    BY <1>3, <2>1, EnqueueType DEF EnqueueRescan, TypeOK
<1>4. ASSUME NEW w \in Workers, WatcherEnqueue(w) PROVE TypeOK'
  <2>1. PICK s \in Projects \cup {Sweep} : Enqueue(s)
    BY <1>4 DEF WatcherEnqueue
  <2>2. s \in Scopes
    BY DEF Scopes
  <2> QED
    BY <1>4, <2>1, <2>2, EnqueueType DEF WatcherEnqueue, TypeOK
<1>5. ASSUME NEW w \in Workers, RebuildStarts(w) PROVE TypeOK'
  BY <1>5 DEF TypeOK, RebuildStarts, rows
<1>6. CASE RebuildSettles
  BY <1>6 DEF TypeOK, RebuildSettles, rows
<1>7. ASSUME NEW w \in Workers, Poll(w) PROVE TypeOK'
  BY <1>7 DEF TypeOK, Poll, Statuses
<1>8. ASSUME NEW w \in Workers, NEW r \in Requests, Settle(w, r) PROVE TypeOK'
  BY <1>8 DEF TypeOK, Settle, Statuses, Finished
<1>9. ASSUME NEW w \in Workers, NEW r \in Requests, Ping(w, r) PROVE TypeOK'
  BY <1>9 DEF TypeOK, Ping, rows
<1>10. ASSUME NEW r \in Requests, HeartbeatLapses(r) PROVE TypeOK'
  BY <1>10 DEF TypeOK, HeartbeatLapses, rows
<1>11. ASSUME NEW w \in Workers, Boot(w) PROVE TypeOK'
  BY <1>11 DEF TypeOK, Boot, ResetOrphans, Statuses, Phases
<1>12. ASSUME NEW w \in Workers, Crash(w) PROVE TypeOK'
  BY <1>12 DEF TypeOK, Crash, rows, Phases
<1>13. CASE LockGoesStale
  BY <1>13 DEF TypeOK, LockGoesStale, rows
<1>14. ASSUME NEW w \in Workers, Shutdown(w) PROVE TypeOK'
  BY <1>14 DEF TypeOK, Shutdown, rows, Phases
<1>15. ASSUME NEW w \in Workers, Release(w) PROVE TypeOK'
  BY <1>15 DEF TypeOK, Release, rows, Phases
<1>16. ASSUME NEW w \in Workers, Exit(w) PROVE TypeOK'
  BY <1>16 DEF TypeOK, Exit, rows, Phases
<1>17. CASE UNCHANGED vars
  BY <1>17 DEF TypeOK, vars
<1> QED
  BY <1>1, <1>2, <1>3, <1>4, <1>5, <1>6, <1>7, <1>8, <1>9, <1>10, <1>11, <1>12,
     <1>13, <1>14, <1>15, <1>16, <1>17 DEF Next, WorkerStep

\* The table, the lock and the processes keep their types in every behaviour.
THEOREM TypeCorrect == Spec => []TypeOK
  BY InitType, NextType, PTL DEF Spec

-----------------------------------------------------------------------------
(* A serving worker owns exactly the running rows. *)

\* An inserted row was in no task set and is not running.
LEMMA EnqueueRunning ==
  ASSUME NEW s, TypeOK, Enqueue(s)
  PROVE  /\ Running' = Running
         /\ \A r \in Requests : status[r] \notin {"none", "pending"} => status'[r] = status[r]
  BY DEF TypeOK, Enqueue, Running

\* A step that inserts at most one row and leaves the processes alone is harmless.
LEMMA EnqueueKeepsInv ==
  ASSUME NEW s, TypeOK, QueueInv, Enqueue(s), UNCHANGED <<phase, lock, tasks>>
  PROVE  QueueInv'
<1>1. LockInv'
  BY DEF QueueInv, LockInv, Serving
<1>2. /\ Running' = Running
      /\ \A r \in Requests : status[r] \notin {"none", "pending"} => status'[r] = status[r]
  BY EnqueueRunning
<1>3. \A w \in Workers : tasks[w] \subseteq Requests
  BY DEF TypeOK
<1>4. WorkInv'
  BY <1>2, <1>3 DEF QueueInv, WorkInv, Serving, Alive
<1> QED
  BY <1>1, <1>4 DEF QueueInv

\* At the start no worker is alive and no row exists.
LEMMA InitInv == Init => QueueInv
  BY DEF Init, QueueInv, LockInv, WorkInv, Serving, Alive

\* The ownership invariant is inductive.
LEMMA NextInv == TypeOK /\ QueueInv /\ [Next]_vars => QueueInv'
<1> SUFFICES ASSUME TypeOK, QueueInv, [Next]_vars PROVE QueueInv'
  OBVIOUS
<1> USE DEF QueueInv
<1>1. CASE UNCHANGED <<status, phase, lock, tasks>>
  BY <1>1 DEF LockInv, WorkInv, Serving, Alive, Running
<1>2. ASSUME NEW s, Enqueue(s), UNCHANGED <<phase, lock, tasks>> PROVE QueueInv'
  BY <1>2, EnqueueKeepsInv
<1>3. ASSUME NEW w \in Workers, Poll(w) PROVE QueueInv'
  <2>1. PICK r \in Requests :
           /\ status[r] = "pending"
           /\ status' = [status EXCEPT ![r] = "running"]
           /\ tasks' = [tasks EXCEPT ![w] = @ \cup {r}]
    BY <1>3 DEF Poll, Claimable
  <2>2. Running' = Running \cup {r}
    BY <2>1 DEF Running, TypeOK
  <2>3. phase[w] = "up" /\ UNCHANGED <<phase, lock>>
    BY <1>3 DEF Poll
  <2>4. LockInv'
    BY <2>3 DEF LockInv, Serving
  <2>5. \A v \in Workers : r \notin tasks[v]
    BY <2>1 DEF WorkInv
  <2>6. \A v \in Workers : Serving(v) => v = w
    BY <2>3 DEF LockInv, Serving
  <2>7. WorkInv'
    BY <2>1, <2>2, <2>3, <2>5, <2>6 DEF WorkInv, Serving, Alive, TypeOK
  <2> QED
    BY <2>4, <2>7
<1>4. ASSUME NEW w \in Workers, NEW r \in Requests, Settle(w, r) PROVE QueueInv'
  <2>1. PICK result \in Finished : status' = [status EXCEPT ![r] = result]
    BY <1>4 DEF Settle
  <2>2. /\ Alive(w) /\ r \in tasks[w]
        /\ tasks' = [tasks EXCEPT ![w] = @ \ {r}]
        /\ UNCHANGED <<phase, lock>>
    BY <1>4 DEF Settle
  <2>3. Running' = Running \ {r}
    BY <2>1 DEF Running, Finished, TypeOK
  <2>4. LockInv'
    BY <2>2 DEF LockInv, Serving
  <2>5. \A v \in Workers : v # w /\ Serving(v) => r \notin Running
    BY <2>2 DEF WorkInv
  <2>6. \A v \in Workers : tasks'[v] \subseteq tasks[v] /\ (v # w => tasks'[v] = tasks[v])
    BY <2>2 DEF TypeOK
  <2>7. \A v \in Workers : Serving(v)' => tasks'[v] = Running'
    BY <2>2, <2>3, <2>5, <2>6 DEF WorkInv, Serving, TypeOK
  <2>8. \A v \in Workers : tasks'[v] # {} => Alive(v)'
    BY <2>2, <2>6 DEF WorkInv, Alive
  <2>9. \A u, v \in Workers : u # v => tasks'[u] \cap tasks'[v] = {}
    BY <2>6 DEF WorkInv
  <2>10. \A v \in Workers : \A q \in tasks'[v] : status'[q] \notin {"none", "pending"}
    BY <2>1, <2>6 DEF WorkInv, Finished, TypeOK
  <2> QED
    BY <2>4, <2>7, <2>8, <2>9, <2>10 DEF WorkInv
<1>5. ASSUME NEW w \in Workers, Boot(w) PROVE QueueInv'
  <2>1. /\ phase[w] = "off" /\ lock = NoWorker /\ lock' = w
        /\ phase' = [phase EXCEPT ![w] = "up"]
        /\ tasks' = tasks
        /\ status' = [r \in Requests |-> IF status[r] = "running" THEN "failed" ELSE status[r]]
    BY <1>5 DEF Boot, ResetOrphans
  <2>2. \A v \in Workers : ~Serving(v)
    BY <2>1 DEF LockInv, Workers, NoWorker
  <2>3. \A v \in Workers : Serving(v)' => v = w
    BY <2>1, <2>2 DEF Serving, TypeOK
  <2>4. Running' = {} /\ tasks[w] = {}
    BY <2>1 DEF Running, WorkInv, Alive
  <2>5. LockInv'
    BY <2>1, <2>3 DEF LockInv
  <2>6. WorkInv'
    BY <2>1, <2>3, <2>4 DEF WorkInv, Alive, TypeOK
  <2> QED
    BY <2>5, <2>6
<1>6. ASSUME NEW w \in Workers, Crash(w) \/ Exit(w) PROVE QueueInv'
  <2>1. /\ phase' = [phase EXCEPT ![w] = "gone"]
        /\ tasks' = [tasks EXCEPT ![w] = {}]
        /\ UNCHANGED <<status, lock>>
    BY <1>6 DEF Crash, Exit, rows
  <2>2. \A v \in Workers : /\ v # w => phase'[v] = phase[v] /\ tasks'[v] = tasks[v]
                           /\ v = w => phase'[v] = "gone" /\ tasks'[v] = {}
    BY <2>1 DEF TypeOK
  <2>3. LockInv'
    BY <2>1, <2>2 DEF LockInv, Serving
  <2>4. WorkInv'
    BY <2>1, <2>2 DEF WorkInv, Serving, Alive, Running
  <2> QED
    BY <2>3, <2>4
<1>7. CASE LockGoesStale
  <2>1. /\ phase[lock] = "gone" /\ lock' = NoWorker
        /\ UNCHANGED <<status, phase, tasks>>
    BY <1>7 DEF LockGoesStale, rows
  <2>2. \A v \in Workers : ~Serving(v)
    BY <2>1 DEF LockInv, Serving
  <2> QED
    BY <2>1, <2>2 DEF LockInv, WorkInv, Serving, Alive
<1>8. ASSUME NEW w \in Workers, Shutdown(w) PROVE QueueInv'
  <2>1. phase[w] = "up" /\ phase' = [phase EXCEPT ![w] = "draining"]
        /\ UNCHANGED <<status, lock, tasks>>
    BY <1>8 DEF Shutdown, rows
  <2>2. \A v \in Workers : (Serving(v)' <=> Serving(v)) /\ (Alive(v)' <=> Alive(v))
    BY <2>1 DEF Serving, Alive, TypeOK
  <2> QED
    BY <2>1, <2>2 DEF LockInv, WorkInv, Running
<1>9. ASSUME NEW w \in Workers, Release(w) PROVE QueueInv'
  <2>1. /\ phase[w] = "draining" /\ phase' = [phase EXCEPT ![w] = "released"]
        /\ UNCHANGED <<status, tasks>>
    BY <1>9 DEF Release, rows
  <2>2. lock = w
    BY <2>1 DEF LockInv, Serving
  <2>3. \A v \in Workers : ~Serving(v)' /\ (Alive(v)' <=> Alive(v))
    BY <2>1, <2>2 DEF LockInv, Serving, Alive, TypeOK
  <2> QED
    BY <2>1, <2>3 DEF LockInv, WorkInv
<1>10. ASSUME NEW s \in Scopes, PortalCheck(s) PROVE QueueInv'
  BY <1>10, <1>1 DEF PortalCheck, rows
<1>11. CASE PortalInsert
  BY <1>11, <1>2 DEF PortalInsert
<1>12. ASSUME NEW w \in Workers, EnqueueRescan(w) PROVE QueueInv'
  BY <1>12, <1>2 DEF EnqueueRescan
<1>13. ASSUME NEW w \in Workers, WatcherEnqueue(w) PROVE QueueInv'
  BY <1>13, <1>2 DEF WatcherEnqueue
<1>14. ASSUME NEW w \in Workers, RebuildStarts(w) PROVE QueueInv'
  BY <1>14, <1>1 DEF RebuildStarts, rows
<1>15. CASE RebuildSettles
  BY <1>15, <1>1 DEF RebuildSettles, rows
<1>16. ASSUME NEW w \in Workers, NEW r \in Requests, Ping(w, r) PROVE QueueInv'
  BY <1>16, <1>1 DEF Ping, rows
<1>17. ASSUME NEW r \in Requests, HeartbeatLapses(r) PROVE QueueInv'
  BY <1>17, <1>1 DEF HeartbeatLapses, rows
<1>18. CASE UNCHANGED vars
  BY <1>18, <1>1 DEF vars
<1> QED
  BY <1>3, <1>4, <1>5, <1>6, <1>7, <1>8, <1>9, <1>10, <1>11, <1>12, <1>13,
     <1>14, <1>15, <1>16, <1>17, <1>18 DEF Next, WorkerStep

\* The lock, the tasks and the rows agree in every reachable state.
THEOREM QueueInvariant == Spec => []QueueInv
<1>1. Init => TypeOK /\ QueueInv
  BY InitType, InitInv
<1>2. TypeOK /\ QueueInv /\ [Next]_vars => TypeOK' /\ QueueInv'
  BY NextType, NextInv
<1> QED
  BY <1>1, <1>2, PTL DEF Spec

\* A serving worker's tasks are exactly the running rows, whether or not an
\* earlier worker outlived its grace period.
THEOREM RunningOwned == Spec => []RunningIsOwned
<1>1. QueueInv => RunningIsOwned
  BY DEF QueueInv, WorkInv, RunningIsOwned, Serving
<1> QED
  BY <1>1, QueueInvariant, PTL

-----------------------------------------------------------------------------
(* Work that settles within the grace period. *)

\* A worker that has released the lock has nothing in flight.
ReleasedIdle == \A w \in Workers : phase[w] = "released" => tasks[w] = {}

\* With no work outlasting the grace period, releasing waits for every task.
LEMMA NextReleasedIdle ==
  ASSUME ~MayExceedGrace, TypeOK, ReleasedIdle, [Next]_vars
  PROVE  ReleasedIdle'
<1> USE DEF ReleasedIdle, TypeOK
<1>1. CASE UNCHANGED <<phase, tasks>>
  BY <1>1
<1>2. ASSUME NEW w \in Workers, Poll(w) PROVE ReleasedIdle'
  BY <1>2 DEF Poll
<1>3. ASSUME NEW w \in Workers, NEW r \in Requests, Settle(w, r) PROVE ReleasedIdle'
  BY <1>3 DEF Settle
<1>4. ASSUME NEW w \in Workers, Boot(w) PROVE ReleasedIdle'
  BY <1>4 DEF Boot
<1>5. ASSUME NEW w \in Workers, Crash(w) \/ Exit(w) \/ Shutdown(w) PROVE ReleasedIdle'
  BY <1>5 DEF Crash, Exit, Shutdown
<1>6. ASSUME NEW w \in Workers, Release(w) PROVE ReleasedIdle'
  BY <1>6 DEF Release, Drained
<1>7. ASSUME NEW s \in Scopes, PortalCheck(s) PROVE ReleasedIdle'
  BY <1>1, <1>7 DEF PortalCheck
<1>8. CASE PortalInsert
  BY <1>1, <1>8 DEF PortalInsert
<1>9. ASSUME NEW w \in Workers, EnqueueRescan(w) \/ WatcherEnqueue(w) \/ RebuildStarts(w)
      PROVE ReleasedIdle'
  BY <1>1, <1>9 DEF EnqueueRescan, WatcherEnqueue, RebuildStarts
<1>10. CASE RebuildSettles \/ LockGoesStale
  BY <1>1, <1>10 DEF RebuildSettles, LockGoesStale
<1>11. ASSUME NEW w \in Workers, NEW r \in Requests, Ping(w, r) PROVE ReleasedIdle'
  BY <1>1, <1>11 DEF Ping
<1>12. ASSUME NEW r \in Requests, HeartbeatLapses(r) PROVE ReleasedIdle'
  BY <1>1, <1>12 DEF HeartbeatLapses
<1>13. CASE UNCHANGED vars
  BY <1>1, <1>13 DEF vars
<1> QED
  BY <1>2, <1>3, <1>4, <1>5, <1>6, <1>7, <1>8, <1>9, <1>10, <1>11, <1>12, <1>13
     DEF Next, WorkerStep

\* The three invariants together, when no work outlasts the grace period.
LEMMA GracefulInv ==
  ASSUME ~MayExceedGrace
  PROVE  Spec => [](TypeOK /\ QueueInv /\ ReleasedIdle)
<1>1. Init => TypeOK /\ QueueInv /\ ReleasedIdle
  BY InitType, InitInv DEF Init, ReleasedIdle
<1>2. TypeOK /\ QueueInv /\ ReleasedIdle /\ [Next]_vars
        => TypeOK' /\ QueueInv' /\ ReleasedIdle'
  BY NextType, NextInv, NextReleasedIdle
<1> QED
  BY <1>1, <1>2, PTL DEF Spec

\* The boot-time reset meets no live task of an earlier worker, provided no
\* work outlasts the shutdown grace period (the run grace shows it can fail
\* otherwise).
THEOREM BootResetsOnlyOrphans == ~MayExceedGrace => (Spec => ResetOnlyOrphans)
<1> SUFFICES ASSUME ~MayExceedGrace PROVE Spec => ResetOnlyOrphans
  OBVIOUS
<1>1. ASSUME TypeOK, QueueInv, ReleasedIdle, NEW w \in Workers, Boot(w), NEW v \in Workers, Alive(v)
      PROVE  tasks[v] = {}
  <2>1. lock = NoWorker
    BY <1>1 DEF Boot
  <2>2. ~Serving(v)
    BY <1>1, <2>1 DEF QueueInv, LockInv, Workers, NoWorker
  <2>3. phase[v] = "released"
    BY <1>1, <2>2 DEF Alive, Serving
  <2> QED
    BY <1>1, <2>3 DEF ReleasedIdle
<1>2. TypeOK /\ QueueInv /\ ReleasedIdle /\ [Next]_vars
        => [\A w \in Workers : Boot(w) => \A v \in Workers : Alive(v) => tasks[v] = {}]_vars
  BY <1>1
<1> QED
  BY <1>2, GracefulInv, PTL DEF Spec, ResetOnlyOrphans

\* What one step may do to the status of one row.
Advances(r) ==
    /\ status[r] = "pending" => status'[r] \in {"pending", "running"}
    /\ status[r] = "running" => status'[r] \in {"running", "done", "failed"}
    /\ status[r] \in Finished => status'[r] = status[r]

\* A late verdict can only come from a task whose row is still running.
LEMMA StepAdvances ==
  ASSUME TypeOK, QueueInv, ReleasedIdle, [Next]_vars, NEW r \in Requests
  PROVE  Advances(r)
<1> USE DEF Advances, Finished
<1>1. CASE UNCHANGED status
  BY <1>1
<1>2. ASSUME NEW s, Enqueue(s) PROVE Advances(r)
  BY <1>2 DEF Enqueue, TypeOK
<1>3. ASSUME NEW w \in Workers, Poll(w) PROVE Advances(r)
  BY <1>3 DEF Poll, Claimable, TypeOK
<1>4. ASSUME NEW w \in Workers, NEW q \in Requests, Settle(w, q) PROVE Advances(r)
  <2>1. Serving(w)
    BY <1>4 DEF Settle, Alive, Serving, ReleasedIdle
  <2>2. status[q] = "running"
    BY <1>4, <2>1 DEF Settle, QueueInv, WorkInv, Running
  <2> QED
    BY <1>4, <2>2 DEF Settle, TypeOK
<1>5. ASSUME NEW w \in Workers, Boot(w) PROVE Advances(r)
  BY <1>5 DEF Boot, ResetOrphans
<1>6. ASSUME NEW w \in Workers, Crash(w) \/ Exit(w) \/ Shutdown(w) \/ Release(w) PROVE Advances(r)
  BY <1>1, <1>6 DEF Crash, Exit, Shutdown, Release, rows
<1>7. ASSUME NEW s \in Scopes, PortalCheck(s) PROVE Advances(r)
  BY <1>1, <1>7 DEF PortalCheck, rows
<1>8. CASE PortalInsert
  BY <1>2, <1>8 DEF PortalInsert
<1>9. ASSUME NEW w \in Workers, EnqueueRescan(w) \/ WatcherEnqueue(w) PROVE Advances(r)
  BY <1>2, <1>9 DEF EnqueueRescan, WatcherEnqueue
<1>10. ASSUME NEW w \in Workers, RebuildStarts(w) PROVE Advances(r)
  BY <1>1, <1>10 DEF RebuildStarts, rows
<1>11. CASE RebuildSettles \/ LockGoesStale
  BY <1>1, <1>11 DEF RebuildSettles, LockGoesStale, rows
<1>12. ASSUME NEW w \in Workers, NEW q \in Requests, Ping(w, q) PROVE Advances(r)
  BY <1>1, <1>12 DEF Ping, rows
<1>13. ASSUME NEW q \in Requests, HeartbeatLapses(q) PROVE Advances(r)
  BY <1>1, <1>13 DEF HeartbeatLapses, rows
<1>14. CASE UNCHANGED vars
  BY <1>1, <1>14 DEF vars
<1> QED
  BY <1>3, <1>4, <1>5, <1>6, <1>7, <1>8, <1>9, <1>10, <1>11, <1>12, <1>13, <1>14
     DEF Next, WorkerStep

\* No verdict is ever replaced, although the writes that record it name only
\* the row's id, provided no work outlasts the shutdown grace period.
THEOREM StatusAdvances == ~MayExceedGrace => (Spec => StatusOnlyAdvances)
<1> SUFFICES ASSUME ~MayExceedGrace PROVE Spec => StatusOnlyAdvances
  OBVIOUS
<1>1. TypeOK /\ QueueInv /\ ReleasedIdle /\ [Next]_vars
        => [\A r \in Requests :
             /\ status[r] = "pending" => status'[r] \in {"pending", "running"}
             /\ status[r] = "running" => status'[r] \in {"running", "done", "failed"}
             /\ status[r] \in Finished => status'[r] = status[r]]_vars
  BY StepAdvances DEF Advances
<1> QED
  BY <1>1, GracefulInv, PTL DEF Spec, StatusOnlyAdvances

-----------------------------------------------------------------------------
(* The cache of the command-line scanner: its inductive invariant. *)

\* What a stamp says of the rows under it: they are there, of its normalizer or a
\* newer one, and miss nothing behind its cursor.
Backs(held, stamp) ==
    /\ held # None /\ held.norm >= stamp.norm
    /\ stamp.at # None => held.at >= stamp.at

MetaFiles == [Cells -> States \cup {None}]
Reading == {"load", "report", "savelock", "savereclaim"}
Planning == {"lock", "reclaim", "release", "ask", "read"}
Reported == Reading \ {"load"}

\* A run's record: the tree, the plan and the items it is made of.
RunType(r) ==
    /\ run[r].norm \in Versions
    /\ DOMAIN run[r].plan \subseteq SUBSET Cells
    /\ run[r].todo \in Seq(DOMAIN run[r].plan)
    /\ run[r].failed \subseteq DOMAIN run[r].plan /\ IsFiniteSet(run[r].failed)
    /\ run[r].tree \subseteq Cells
    /\ run[r].floor \in [run[r].tree -> Nat]
    /\ run[r].pass \in Passes \cup {None}
    /\ run[r].pass # None => run[r].pc = "sync" /\ run[r].todo # <<>>
    /\ run[r].pc \in Reading \cup {"sync"} => run[r].mm \in MetaFiles
    /\ run[r].pc \in Reported => run[r].got \in [run[r].tree -> Rows \cup {None}]

\* The stamps of this run's normalizer.
Ours(stamp, r) == stamp # None /\ stamp.norm = run[r].norm

\* An item planned for a refresh was seeded by this run's normalizer, and is.
PlanInv(r) ==
    run[r].pc # "idle" => \A i \in DOMAIN run[r].plan : run[r].plan[i] # "seed" => \A c \in i : Ours(meta[c], r)

\* What a syncing run will stamp is true already, and its own where it is new.
StampInv(r) ==
    run[r].pc = "sync" => \A c \in Cells :
        /\ run[r].mm[c] # None => Backs(file[c], run[r].mm[c])
        /\ run[r].mm[c] = meta[c] \/ Ours(run[r].mm[c], r)

\* Cells of the item at hand, put in place or left alone, are up to the pass.
PassInv(r) ==
    run[r].pass # None =>
        /\ run[r].pass.to <= head
        /\ run[r].pass.left \subseteq Head(run[r].todo)
        /\ \A c \in Cells : file[c] # None => file[c].at <= run[r].pass.to
        /\ \A c \in Head(run[r].todo) \ run[r].pass.left :
               file[c] # None /\ file[c].norm = run[r].norm /\ file[c].at >= run[r].pass.to
        /\ run[r].pass.kind = "refresh" =>
               /\ run[r].pass.sha
               /\ \A c \in Head(run[r].todo) : Ours(run[r].mm[c], r)
               /\ \A c \in run[r].pass.left : run[r].mm[c].at # None

\* The cell is stamped by the run's normalizer, and its rows go back to the floor.
Reached(r, stamp, c) == Ours(stamp, r) /\ file[c] # None /\ file[c].at >= run[r].floor[c]

FloorInv(r) ==
    \A c \in run[r].tree : run[r].floor[c] > 0 =>
        /\ run[r].pc = "sync" =>
               \/ Reached(r, run[r].mm[c], c)
               \/ run[r].pass # None /\ c \in Head(run[r].todo) /\ run[r].floor[c] <= run[r].pass.to
        /\ run[r].pc \in Planning => Reached(r, meta[c], c)
        /\ run[r].pc = "load" => Reached(r, run[r].mm[c], c)
        /\ run[r].pc \in Reported => Ours(run[r].mm[c], r) /\ run[r].got[c].at >= run[r].floor[c]

\* The rows of a cell the run will answer for, and those it has read.
ReadInv(r) ==
    \A c \in run[r].tree :
        /\ run[r].pc = "load" /\ Ours(run[r].mm[c], r) => file[c] # None /\ file[c].norm = run[r].norm
        /\ run[r].pc \in Reported /\ Ours(run[r].mm[c], r) =>
               run[r].got[c] # None /\ run[r].got[c].norm = run[r].norm

RunInv(r) == RunType(r) /\ PlanInv(r) /\ StampInv(r) /\ PassInv(r) /\ FloorInv(r) /\ ReadInv(r)

\* Runs are of one version, which wrote the newest rows there are.
VersionInv ==
    /\ version \in Versions
    /\ \A r \in Active : /\ run[r].norm <= version
                         /\ \A s \in Active : run[s].norm = run[r].norm
                         /\ \A c \in Cells : file[c] # None => file[c].norm <= run[r].norm

DiskInv ==
    /\ head \in 0..MaxHead /\ exported = head
    /\ file \in [Cells -> Rows \cup {None}] /\ meta \in MetaFiles
    /\ \A c \in Cells : file[c] # None => file[c].at <= head /\ file[c].norm <= version
    /\ \A c \in Cells : meta[c] # None => Backs(file[c], meta[c])

HolderInv ==
    /\ cacheLock \in Locks \cup {None}
    /\ \A r \in Runs : run[r].pc \in Holding => cacheLock # None /\ cacheLock.by = r

\* A run is a record of these fields, whatever they hold.
Shaped(x) ==
    x = [pc |-> x.pc, norm |-> x.norm, tree |-> x.tree, plan |-> x.plan, todo |-> x.todo, mm |-> x.mm,
         pass |-> x.pass, failed |-> x.failed, floor |-> x.floor, got |-> x.got, mine |-> x.mine]

Shape == run = [r \in Runs |-> run[r]] /\ \A r \in Runs : Shaped(run[r])

CacheInv == Shape /\ VersionInv /\ DiskInv /\ HolderInv /\ \A r \in Runs : RunInv(r)

-----------------------------------------------------------------------------
(* Sequences of items, and the larger of two numbers. *)

\* SetToSeq lists members of a finite set.
LEMMA Listed ==
  ASSUME NEW S, IsFiniteSet(S)
  PROVE  /\ SetToSeq(S) \in Seq(S) /\ ToSet(SetToSeq(S)) \subseteq S
         /\ SetToSeq(S) \in Seq(ToSet(SetToSeq(S)))
<1> DEFINE n == Cardinality(S)
           l == SetToSeq(S)
<1>1. n \in Nat /\ ExistsBijection(1..n, S)
  BY FS_CardinalityType
<1>2. PICK f \in Bijection(1..n, S) : TRUE
  BY <1>1 DEF ExistsBijection
<1>3. \E g \in [1..n -> S] : IsInjective(g)
  BY <1>2 DEF Bijection, Injection
<1>4. l \in [1..n -> S]
  BY <1>3 DEF SetToSeq
<1> HIDE DEF n, l
<1>5. l \in [1..n -> ToSet(l)] /\ ToSet(l) \subseteq S
  BY <1>4 DEF ToSet
<1>6. l \in Seq(S) /\ l \in Seq(ToSet(l))
  BY <1>1, <1>4, <1>5, SeqDef
<1> QED
  BY <1>5, <1>6 DEF l

\* Max of a pair.
LEMMA MaxOfTwo ==
  ASSUME NEW a \in Nat, NEW b \in Nat
  PROVE  Max({a, b}) \in {a, b} /\ Max({a, b}) >= a /\ Max({a, b}) >= b
<1>1. \E x \in {a, b} : \A y \in {a, b} : x >= y
  OBVIOUS
<1> QED
  BY <1>1 DEF Max

\* The items of a tree are sets of cells, and there are finitely many.
LEMMA ItemsListed ==
  ASSUME NEW tree \in Trees
  PROVE  /\ ToSet(ItemsOf(tree)) \subseteq SUBSET Cells
         /\ ItemsOf(tree) \in Seq(ToSet(ItemsOf(tree)))
<1> DEFINE S == {{c} : c \in tree \cap OsvCells} \cup ({tree \cap GemCells} \ {{}})
<1>1. S \subseteq SUBSET Cells
  BY DEF Cells
<1>2. IsFiniteSet(SUBSET Cells)
  BY CellsAssumption, FS_SUBSET
<1>3. IsFiniteSet(S)
  BY <1>1, <1>2, FS_Subset
<1> HIDE DEF S
<1>4. ToSet(SetToSeq(S)) \subseteq SUBSET Cells /\ SetToSeq(S) \in Seq(ToSet(SetToSeq(S)))
  BY <1>1, <1>3, Listed
<1> QED
  BY <1>4 DEF S, ItemsOf

\* The head and the tail of a list of items.
LEMMA HeadTail ==
  ASSUME NEW S, NEW s \in Seq(S), s # <<>>
  PROVE  Head(s) \in S /\ Tail(s) \in Seq(S)
OBVIOUS

-----------------------------------------------------------------------------
(* A step seen by the runs that do not take it. *)

\* Rows only get newer: what backed a stamp still does.
Newer(held, renewed) ==
    held # None => renewed # None /\ renewed.at >= held.at /\ renewed.norm >= held.norm

\* Numbers in rows and stamps.
LEMMA RowNumbers ==
  ASSUME NEW x \in Rows
  PROVE  x # None /\ x.at \in Nat /\ x.norm \in Nat
BY NamesAssumption, BoundsAssumption DEF Rows, Versions, Mixed

LEMMA StampNumbers ==
  ASSUME NEW x \in States
  PROVE  x # None /\ x.norm \in Nat \ {0} /\ (x.at # None => x.at \in Nat /\ x.at <= MaxHead)
BY NamesAssumption, BoundsAssumption DEF States, Versions

LEMMA StillBacks ==
  ASSUME NEW x \in Rows \cup {None}, NEW y \in Rows \cup {None}, NEW stamp \in States,
         Newer(x, y), Backs(x, stamp)
  PROVE  Backs(y, stamp)
<1>1. x # None /\ y # None /\ x \in Rows /\ y \in Rows
  BY DEF Newer, Backs
<1> QED
  BY <1>1, RowNumbers, StampNumbers DEF Newer, Backs

\* A run that is not running makes no claim.
LEMMA IdleKept ==
  ASSUME NEW r \in Runs, run'[r].pc = "idle", RunType(r)'
  PROVE  RunInv(r)'
<1>1. run'[r].pass = None
  BY DEF RunType
<1> QED
  BY <1>1 DEF RunInv, PlanInv, StampInv, PassInv, FloorInv, ReadInv, Reading, Planning, Reported

\* What a step may do to the files under a run that does not take it.
Gentle(r) ==
    /\ head' \in Nat /\ head' >= head
    /\ file' \in [Cells -> Rows \cup {None}] /\ meta' \in MetaFiles
    /\ \A c \in Cells : Newer(file[c], file'[c])
    /\ \A c \in Cells : file'[c] # None => file'[c].norm <= run[r].norm
    /\ \A c \in Cells : meta'[c] = meta[c] \/ Ours(meta'[c], r)
    /\ run[r].pc = "sync" => file' = file /\ meta' = meta

\* Such a step leaves the run's claims true.
LEMMA RunKept ==
  ASSUME NEW r \in Runs, DiskInv, RunInv(r), run'[r] = run[r], run[r].pc # "idle", Gentle(r)
  PROVE  RunInv(r)'
<1>1. RunType(r)'
  BY DEF RunInv, RunType
<1>2. PlanInv(r)'
  BY DEF RunInv, RunType, PlanInv, Gentle, Ours
<1>3. StampInv(r)'
  BY DEF RunInv, StampInv, Gentle, Ours
<1>4. PassInv(r)'
  <2> SUFFICES ASSUME run[r].pass # None PROVE PassInv(r)'
    BY DEF PassInv
  <2>1. run[r].pc = "sync" /\ run[r].pass \in Passes
    BY DEF RunInv, RunType
  <2>2. run[r].pass.to \in Nat
    BY <2>1, BoundsAssumption DEF Passes
  <2>3. head \in Nat
    BY BoundsAssumption DEF DiskInv
  <2>4. run[r].pass.to <= head'
    BY <2>2, <2>3 DEF Gentle, RunInv, PassInv
  <2> QED
    BY <2>1, <2>4 DEF RunInv, PassInv, Gentle, Ours
<1>5. \A c \in Cells : file[c] # None => /\ file[c].at \in Nat /\ file'[c].at \in Nat /\ file'[c].at >= file[c].at
                                         /\ file[c].norm \in Nat /\ file'[c].norm \in Nat /\ file'[c].norm >= file[c].norm
                                         /\ file'[c].norm <= run[r].norm /\ file'[c] # None
  BY RowNumbers DEF DiskInv, Gentle, Newer
<1>6. FloorInv(r)'
  <2> SUFFICES ASSUME NEW c \in run[r].tree, run[r].floor[c] > 0
               PROVE  /\ run[r].pc = "sync" =>
                           \/ Reached(r, run[r].mm[c], c)'
                           \/ run[r].pass # None /\ c \in Head(run[r].todo) /\ run[r].floor[c] <= run[r].pass.to
                      /\ run[r].pc \in Planning => Reached(r, meta[c], c)'
                      /\ run[r].pc = "load" => Reached(r, run[r].mm[c], c)'
                      /\ run[r].pc \in Reported => Ours(run[r].mm[c], r) /\ run[r].got[c].at >= run[r].floor[c]
    BY DEF FloorInv, Ours
  <2>1. c \in Cells /\ run[r].floor[c] \in Nat
    BY DEF RunInv, RunType
  <2>2. ASSUME NEW stamp, Reached(r, stamp, c)
        PROVE  /\ Ours(stamp, r)' /\ file'[c] # None /\ file'[c].at >= run'[r].floor[c]
    BY <2>1, <2>2, <1>5 DEF Reached, Ours
  <2>3. run[r].pc = "sync" /\ ~ Reached(r, run[r].mm[c], c) =>
            run[r].pass # None /\ c \in Head(run[r].todo) /\ run[r].floor[c] <= run[r].pass.to
    BY DEF RunInv, FloorInv
  <2>4. run[r].pc = "sync" /\ Reached(r, run[r].mm[c], c) => Reached(r, run[r].mm[c], c)'
    BY <2>2 DEF Reached
  <2>5. run[r].pc = "load" => Reached(r, run[r].mm[c], c)'
    BY <2>2 DEF Reached, RunInv, FloorInv
  <2>6. run[r].pc \in Planning => Reached(r, meta[c], c)'
    <3> SUFFICES ASSUME run[r].pc \in Planning PROVE Reached(r, meta[c], c)'
      OBVIOUS
    <3>1. Reached(r, meta[c], c)
      BY DEF RunInv, FloorInv
    <3>2. file'[c] # None /\ file'[c].at >= run'[r].floor[c]
      BY <2>2, <3>1
    <3>3. Ours(meta'[c], r)
      BY <2>1, <3>1 DEF Gentle, Reached
    <3> QED
      BY <3>2, <3>3 DEF Reached, Ours
  <2>7. run[r].pc \in Reported => Ours(run[r].mm[c], r) /\ run[r].got[c].at >= run[r].floor[c]
    BY DEF RunInv, FloorInv
  <2> QED
    BY <2>3, <2>4, <2>5, <2>6, <2>7
<1>7. ReadInv(r)'
  <2> SUFFICES ASSUME NEW c \in run[r].tree
               PROVE  /\ run[r].pc = "load" /\ Ours(run[r].mm[c], r) => file'[c] # None /\ file'[c].norm = run[r].norm
                      /\ run[r].pc \in Reported /\ Ours(run[r].mm[c], r) =>
                             run[r].got[c] # None /\ run[r].got[c].norm = run[r].norm
    BY DEF ReadInv, Ours
  <2>1. c \in Cells /\ run[r].norm \in Nat
    BY DEF RunInv, RunType, Versions
  <2> QED
    BY <2>1, <1>5 DEF RunInv, ReadInv
<1> QED
  BY <1>1, <1>2, <1>3, <1>4, <1>6, <1>7 DEF RunInv

-----------------------------------------------------------------------------
(* The parts of the invariant a step of one run leaves to be shown. *)

\* Only r's record changes.
Steps(r) == run' = [run EXCEPT ![r] = run'[r]]

LEMMA OthersKept ==
  ASSUME CacheInv, NEW r \in Runs, Steps(r),
         \A s \in Active \ {r} : Gentle(s)
  PROVE  \A s \in Runs \ {r} : run'[s] = run[s] /\ RunInv(s)'
<1> SUFFICES ASSUME NEW s \in Runs \ {r} PROVE run'[s] = run[s] /\ RunInv(s)'
  OBVIOUS
<1>1. run'[s] = run[s]
  BY DEF Steps, CacheInv, Shape
<1>2. CASE run[s].pc = "idle"
  <2>1. RunType(s)'
    BY <1>1 DEF CacheInv, RunInv, RunType
  <2> QED
    BY <1>1, <1>2, <2>1, IdleKept
<1>3. CASE run[s].pc # "idle"
  BY <1>1, <1>3, RunKept DEF CacheInv, Active
<1> QED
  BY <1>1, <1>2, <1>3

\* A run that goes on with its norm, or ends, leaves the versions in order when the
\* rows are still no newer.
LEMMA VersionsKept ==
  ASSUME CacheInv, NEW r \in Runs, Steps(r), version' = version,
         run'[r].pc # "idle" => run[r].pc # "idle" /\ run'[r].norm = run[r].norm,
         \A c \in Cells : file'[c] = file[c] \/ file'[c] = None \/ \A s \in Active : file'[c].norm <= run[s].norm
  PROVE  VersionInv'
<1>1. \A s \in Runs \ {r} : run'[s] = run[s]
  BY DEF Steps, CacheInv, Shape
<1>2. \A s \in Active' : s \in Active /\ run'[s].norm = run[s].norm
  BY <1>1 DEF Active
<1> QED
  BY <1>2 DEF VersionInv, CacheInv

\* The lock stays with its holder.
LEMMA LockKept ==
  ASSUME CacheInv, NEW r \in Runs, Steps(r), cacheLock' = cacheLock,
         run'[r].pc \in Holding => run[r].pc \in Holding
  PROVE  HolderInv'
<1>1. \A s \in Runs \ {r} : run'[s] = run[s]
  BY DEF Steps, CacheInv, Shape
<1> QED
  BY <1>1 DEF CacheInv, HolderInv

\* It goes back when its holder lets go.
LEMMA LockFreed ==
  ASSUME CacheInv, NEW r \in Runs, Steps(r), run[r].pc \in Holding, run'[r].pc \notin Holding
  PROVE  \A s \in Runs : run'[s].pc \notin Holding
<1>1. \A s \in Runs \ {r} : run'[s] = run[s]
  BY DEF Steps, CacheInv, Shape
<1> QED
  BY <1>1 DEF CacheInv, HolderInv

LEMMA DiskKept ==
  ASSUME DiskInv, version' = version, UNCHANGED <<upstream, file, meta>>
  PROVE  DiskInv'
BY DEF DiskInv, upstream, Backs

\* A step that touches nothing of the others' is gentle on them.
LEMMA GentleStep ==
  ASSUME CacheInv, UNCHANGED <<upstream, file, meta>>
  PROVE  \A s \in Active : Gentle(s)
<1>1. \A c \in Cells : file[c] # None => file[c].at \in Nat /\ file[c].norm \in Nat
  BY RowNumbers DEF CacheInv, DiskInv
<1>2. head \in Nat
  BY BoundsAssumption DEF CacheInv, DiskInv
<1> QED
  BY <1>1, <1>2 DEF CacheInv, DiskInv, VersionInv, Gentle, Newer, upstream

\* A step of one run that leaves the shared files alone.
LEMMA PrivateStep ==
  ASSUME CacheInv, NEW r \in Runs, Steps(r), version' = version, UNCHANGED <<upstream, file, meta>>,
         run'[r].pc # "idle" => run[r].pc # "idle" /\ run'[r].norm = run[r].norm,
         Shaped(run'[r]), RunInv(r)', HolderInv'
  PROVE  CacheInv'
<1>1. \A s \in Runs \ {r} : run'[s] = run[s] /\ RunInv(s)'
  BY OthersKept, GentleStep
<1>2. VersionInv'
  BY VersionsKept
<1>3. DiskInv'
  BY DiskKept DEF CacheInv
<1>4. Shape'
  BY <1>1 DEF CacheInv, Shape, Steps
<1> QED
  BY <1>1, <1>2, <1>3, <1>4 DEF CacheInv

\* A run that ends.
LEMMA Ends ==
  ASSUME CacheInv, NEW r \in Runs, run' = [run EXCEPT ![r] = Gone]
  PROVE  /\ Steps(r) /\ run'[r] = Gone /\ Shaped(run'[r]) /\ run'[r].pc = "idle" /\ RunInv(r)'
         /\ \A s \in Runs \ {r} : run'[s] = run[s]
<1>1. run'[r] = Gone /\ Steps(r) /\ \A s \in Runs \ {r} : run'[s] = run[s]
  BY DEF CacheInv, Shape, Steps
<1>2. Shaped(Gone) /\ Gone.pc = "idle"
  BY DEF Gone, Shaped
<1>3. RunType(r)'
  <2>1. IsFiniteSet({})
    BY FS_EmptySet
  <2>2. <<>> \in Seq({}) /\ 1 \in Versions
    BY BoundsAssumption DEF Versions
  <2>3. DOMAIN Gone.plan = {} /\ Gone.todo = <<>> /\ Gone.failed = {} /\ Gone.tree = {} /\ Gone.pass = None
        /\ Gone.norm = 1
    BY DEF Gone
  <2>4. Gone.floor \in [{} -> Nat]
    BY DEF Gone
  <2> QED
    BY <1>1, <1>2, <2>1, <2>2, <2>3, <2>4 DEF RunType, Reading, Reported
<1> QED
  BY <1>1, <1>2, <1>3, IdleKept

-----------------------------------------------------------------------------
(* Steps that move a run along. *)

\* Goes changes where a run is and nothing else.
LEMMA GoesOn ==
  ASSUME CacheInv, NEW r \in Runs, NEW pc, Goes(r, pc)
  PROVE  /\ Steps(r) /\ Shaped(run'[r]) /\ \A s \in Runs \ {r} : run'[s] = run[s]
         /\ run'[r].pc = pc /\ run'[r].norm = run[r].norm /\ run'[r].tree = run[r].tree
         /\ run'[r].plan = run[r].plan /\ run'[r].todo = run[r].todo /\ run'[r].mm = run[r].mm
         /\ run'[r].pass = run[r].pass /\ run'[r].failed = run[r].failed /\ run'[r].floor = run[r].floor
         /\ run'[r].got = run[r].got /\ run'[r].mine = run[r].mine
<1>1. run'[r] = [run[r] EXCEPT !.pc = pc] /\ Steps(r) /\ \A s \in Runs \ {r} : run'[s] = run[s]
  BY DEF CacheInv, Shape, Goes, Steps
<1>2. Shaped(run[r])
  BY DEF CacheInv, Shape
<1> QED
  BY <1>1, <1>2 DEF Shaped

LEMMA DeclineKeeps ==
  ASSUME CacheInv, NEW r \in Runs, Decline(r)
  PROVE  CacheInv'
<1>1. run' = [run EXCEPT ![r] = Gone] /\ version' = version /\ UNCHANGED <<upstream, file, meta>>
      /\ cacheLock' = cacheLock
  BY DEF Decline, disk
<1>2. HolderInv'
  BY <1>1, Ends, LockKept DEF Holding
<1> QED
  BY <1>1, <1>2, Ends, PrivateStep

LEMMA ReportKeeps ==
  ASSUME CacheInv, NEW r \in Runs, Report(r)
  PROVE  CacheInv'
<1>1. run' = [run EXCEPT ![r] = Gone] /\ version' = version /\ UNCHANGED <<upstream, file, meta>>
      /\ cacheLock' = cacheLock
  BY DEF Report, disk
<1>2. HolderInv'
  BY <1>1, Ends, LockKept DEF Holding
<1> QED
  BY <1>1, <1>2, Ends, PrivateStep

\* A killed run's lock is nobody's.
LEMMA KillKeeps ==
  ASSUME CacheInv, NEW r \in Runs, Kill(r)
  PROVE  CacheInv'
<1>1. run' = [run EXCEPT ![r] = Gone] /\ version' = version /\ UNCHANGED <<upstream, file, meta>>
  BY DEF Kill
<1>2. run'[r].pc \notin Holding /\ Steps(r) /\ \A s \in Runs \ {r} : run'[s] = run[s]
  BY <1>1, Ends DEF Holding
<1>3. HolderInv'
  <2>1. CASE cacheLock # None /\ cacheLock.by = r
    <3>1. cacheLock \in Locks
      BY <2>1 DEF CacheInv, HolderInv
    <3>2. cacheLock' \in Locks
      BY <3>1, <2>1 DEF Kill, Locks
    <3>3. \A s \in Runs : run'[s].pc \notin Holding
      BY <2>1, <1>2 DEF CacheInv, HolderInv
    <3> QED
      BY <3>2, <3>3 DEF HolderInv
  <2>2. CASE ~ (cacheLock # None /\ cacheLock.by = r)
    <3>1. cacheLock' = cacheLock
      BY <2>2 DEF Kill
    <3> QED
      BY <3>1, <1>2, LockKept
  <2> QED
    BY <2>1, <2>2
<1> QED
  BY <1>1, <1>3, Ends, PrivateStep

\* A run whose record and files are as before still makes its claims, wherever it
\* goes while it plans.
LEMMA PlanningKept ==
  ASSUME CacheInv, NEW r \in Runs, UNCHANGED <<upstream, file, meta>>,
         run[r].pc \in Planning, run'[r].pc \in Planning, Shaped(run'[r]),
         run'[r].norm = run[r].norm, run'[r].tree = run[r].tree, run'[r].plan = run[r].plan,
         run'[r].todo \in Seq(DOMAIN run[r].plan), run'[r].pass = run[r].pass,
         run'[r].failed \subseteq run[r].failed, run'[r].floor = run[r].floor
  PROVE  RunInv(r)'
<1>1. RunInv(r) /\ run[r].pass = None
  BY DEF CacheInv, RunInv, RunType, Planning
<1>2. IsFiniteSet(run'[r].failed)
  BY <1>1, FS_Subset DEF RunInv, RunType
<1>3. RunType(r)'
  BY <1>1, <1>2 DEF RunInv, RunType, Planning, Reading, Reported
<1>4. PlanInv(r)' /\ StampInv(r)' /\ PassInv(r)' /\ ReadInv(r)'
  BY <1>1 DEF RunInv, PlanInv, StampInv, PassInv, ReadInv, Planning, Reported, Reading, Ours
<1>5. FloorInv(r)'
  BY <1>1 DEF RunInv, FloorInv, Planning, Reported, Reading, Ours, Reached
<1> QED
  BY <1>3, <1>4, <1>5 DEF RunInv

LEMMA RetryKeeps ==
  ASSUME CacheInv, NEW r \in Runs, Retry(r)
  PROVE  CacheInv'
<1>1. version' = version /\ UNCHANGED <<upstream, file, meta>> /\ cacheLock' = cacheLock /\ run[r].pc = "ask"
  BY DEF Retry, disk
<1>2. CASE Goes(r, "read")
  <2>1. RunInv(r)'
    BY <1>1, <1>2, GoesOn, PlanningKept DEF Planning, CacheInv, RunInv, RunType
  <2>2. HolderInv'
    BY <1>1, <1>2, GoesOn, LockKept DEF Holding
  <2> QED
    BY <1>1, <1>2, <2>1, <2>2, GoesOn, PrivateStep
<1>3. CASE run' = [run EXCEPT ![r].pc = "lock", ![r].todo = SetToSeq(run[r].failed)]
  <2> DEFINE x == run[r]
             y == run'[r]
  <2>1. y = [x EXCEPT !.pc = "lock", !.todo = SetToSeq(x.failed)] /\ Steps(r)
    BY <1>3 DEF CacheInv, Shape, Steps
  <2>2. Shaped(x)
    BY DEF CacheInv, Shape
  <2> HIDE DEF x, y
  <2>3. /\ Shaped(y) /\ y.pc = "lock" /\ y.norm = x.norm /\ y.tree = x.tree /\ y.plan = x.plan
        /\ y.todo = SetToSeq(x.failed) /\ y.pass = x.pass /\ y.failed = x.failed /\ y.floor = x.floor
    BY <2>1, <2>2 DEF Shaped
  <2>4. IsFiniteSet(x.failed) /\ x.failed \subseteq DOMAIN x.plan
    BY DEF CacheInv, RunInv, RunType, x
  <2>5. SetToSeq(x.failed) \in Seq(x.failed)
    BY <2>4, Listed
  <2>6. SetToSeq(x.failed) \in Seq(DOMAIN x.plan)
    BY <2>4, <2>5, SeqMonotonic
  <2>7. RunInv(r)'
    BY <1>1, <2>3, <2>6, PlanningKept DEF Planning, x, y
  <2>8. HolderInv'
    BY <1>1, <2>1, <2>3, LockKept DEF Holding, x, y
  <2> QED
    BY <1>1, <2>1, <2>3, <2>7, <2>8, PrivateStep DEF x, y
<1> QED
  BY <1>2, <1>3 DEF Retry

\* A reclaim that nobody excuses took a dead run's lock, or none.
LEMMA ReclaimKeeps ==
  ASSUME CacheInv, NEW r \in Runs, Reclaim(r), excuse' = {}
  PROVE  CacheInv'
<1> DEFINE pc == IF run[r].pc = "reclaim" THEN "lock" ELSE "savelock"
<1>1. /\ version' = version /\ UNCHANGED <<upstream, file, meta>> /\ cacheLock' = None
      /\ run[r].pc \in {"reclaim", "savereclaim"} /\ Goes(r, pc)
  BY DEF Reclaim
<1>2. cacheLock = None \/ cacheLock.by = "dead"
  BY DEF Reclaim
<1>3. \A s \in Runs : run[s].pc \notin Holding
  BY <1>2, NamesAssumption DEF CacheInv, HolderInv
<1>4. HolderInv'
  <2>1. \A s \in Runs : run'[s].pc \notin Holding
    BY <1>1, <1>3, GoesOn DEF Holding
  <2> QED
    BY <1>1, <2>1 DEF HolderInv
<1>5. RunInv(r)'
  <2>1. CASE run[r].pc = "reclaim"
    BY <1>1, <2>1, GoesOn, PlanningKept DEF Planning, CacheInv, RunInv, RunType
  <2>2. CASE run[r].pc = "savereclaim"
    <3>1. RunInv(r) /\ run'[r].pc = "savelock" /\ run[r].pass = None
      BY <1>1, <2>2, GoesOn DEF CacheInv, RunInv, RunType
    <3>2. RunType(r)'
      BY <3>1, <2>2, <1>1, GoesOn DEF RunInv, RunType, Reading, Reported
    <3>3. PlanInv(r)' /\ StampInv(r)' /\ PassInv(r)' /\ ReadInv(r)'
      BY <3>1, <2>2, <1>1, GoesOn DEF RunInv, PlanInv, StampInv, PassInv, ReadInv, Reading, Reported, Ours
    <3>4. FloorInv(r)'
      BY <3>1, <2>2, <1>1, GoesOn DEF RunInv, FloorInv, Planning, Reading, Reported, Ours
    <3> QED
      BY <3>2, <3>3, <3>4 DEF RunInv
  <2> QED
    BY <1>1, <2>1, <2>2
<1> QED
  BY <1>1, <1>4, <1>5, GoesOn, PrivateStep

\* The lock is let go, and a run that failed in part asks what to do.
LEMMA ReleaseLockKeeps ==
  ASSUME CacheInv, NEW r \in Runs, ReleaseLock(r)
  PROVE  CacheInv'
<1>1. /\ version' = version /\ UNCHANGED <<upstream, file, meta>> /\ cacheLock' = None
      /\ run[r].pc \in {"release", "saved"}
  BY DEF ReleaseLock
<1>2. CASE run[r].pc = "saved"
  <2>1. run' = [run EXCEPT ![r] = Gone]
    BY <1>2 DEF ReleaseLock
  <2>2. HolderInv'
    BY <1>1, <2>1, Ends, LockFreed DEF Holding, HolderInv
  <2> QED
    BY <1>1, <2>1, <2>2, Ends, PrivateStep
<1>3. CASE run[r].pc = "release"
  <2> DEFINE pc == IF run[r].failed = {} THEN "read" ELSE "ask"
  <2>1. Goes(r, pc)
    BY <1>3 DEF ReleaseLock, Goes, CacheInv, Shape
  <2>2. HolderInv'
    BY <1>1, <2>1, GoesOn, LockFreed DEF Holding, HolderInv
  <2>3. RunInv(r)'
    BY <1>1, <1>3, <2>1, GoesOn, PlanningKept DEF Planning, CacheInv, RunInv, RunType
  <2> QED
    BY <1>1, <2>1, <2>2, <2>3, GoesOn, PrivateStep
<1> QED
  BY <1>1, <1>2, <1>3

\* What the meta file says of a cell is what its rows are.
LEMMA OursIsBacked ==
  ASSUME CacheInv, NEW r \in Active, NEW c \in Cells, NEW stamp \in States,
         Backs(file[c], stamp), Ours(stamp, r)
  PROVE  file[c] # None /\ file[c].norm = run[r].norm
<1>1. file[c] \in Rows
  BY DEF Backs, CacheInv, DiskInv
<1>2. file[c].norm <= run[r].norm /\ file[c].norm >= run[r].norm
  BY <1>1 DEF CacheInv, VersionInv, Backs, Ours
<1>3. run[r].norm \in Nat
  BY DEF CacheInv, VersionInv, RunInv, RunType, Active, Versions
<1> QED
  BY <1>1, <1>2, <1>3, RowNumbers

LEMMA ReadMetaKeeps ==
  ASSUME CacheInv, NEW r \in Runs, ReadMeta(r)
  PROVE  CacheInv'
<1> DEFINE x == run[r]
           y == run'[r]
<1>1. /\ version' = version /\ UNCHANGED <<upstream, file, meta>> /\ cacheLock' = cacheLock
      /\ x.pc = "read" /\ x.pass = None
  BY DEF ReadMeta, disk, CacheInv, RunInv, RunType
<1>2. y = [x EXCEPT !.pc = "load", !.mm = meta] /\ Steps(r) /\ Shaped(x)
  BY DEF CacheInv, Shape, Steps, ReadMeta
<1> HIDE DEF x, y
<1>3. /\ Shaped(y) /\ y.pc = "load" /\ y.mm = meta /\ y.norm = x.norm /\ y.tree = x.tree /\ y.plan = x.plan /\ y.todo = x.todo
      /\ y.pass = x.pass /\ y.failed = x.failed /\ y.floor = x.floor
  BY <1>2 DEF Shaped
<1>4. RunInv(r) /\ r \in Active
  BY <1>1 DEF CacheInv, Active, x
<1>5. RunType(r)'
  BY <1>1, <1>3, <1>4 DEF RunInv, RunType, Reading, Reported, x, y, CacheInv, DiskInv
<1>6. PlanInv(r)' /\ StampInv(r)' /\ PassInv(r)'
  BY <1>1, <1>3, <1>4 DEF RunInv, PlanInv, StampInv, PassInv, Ours, x, y
<1>7. FloorInv(r)'
  BY <1>1, <1>3, <1>4 DEF RunInv, FloorInv, Planning, Reading, Reported, Ours, Reached, x, y
<1>8. ReadInv(r)'
  <2>1. \A c \in x.tree : Ours(meta[c], r) => file[c] # None /\ file[c].norm = x.norm
    BY <1>4, OursIsBacked DEF Ours, CacheInv, DiskInv, MetaFiles, RunInv, RunType, x
  <2> QED
    BY <1>1, <1>3, <2>1 DEF ReadInv, Reading, Reported, Ours, x, y
<1>9. HolderInv'
  BY <1>1, <1>2, <1>3, LockKept DEF Holding, x, y
<1> QED
  BY <1>1, <1>2, <1>3, <1>5, <1>6, <1>7, <1>8, <1>9, PrivateStep DEF RunInv, x, y

\* A held lock sends a run on without it.
LEMMA AcquireKeeps ==
  ASSUME CacheInv, NEW r \in Runs, Acquire(r)
  PROVE  CacheInv'
<1> DEFINE x == run[r]
           y == run'[r]
           sync == x.pc = "lock"
<1>1. /\ version' = version /\ UNCHANGED <<upstream, file, meta>>
      /\ x.pc \in {"lock", "savelock"}
  BY DEF Acquire
<1>2. RunInv(r) /\ x.pass = None /\ r \in Active /\ Shaped(x)
  BY <1>1 DEF CacheInv, Shape, Active, RunInv, RunType
<1>3. CASE /\ cacheLock = None /\ cacheLock' = [by |-> r, old |-> FALSE]
           /\ run' = [run EXCEPT ![r].pc = IF sync THEN "sync" ELSE "save", ![r].mm = meta, ![r].failed = {}]
  <2> DEFINE pc == IF sync THEN "sync" ELSE "save"
  <2>1. y = [x EXCEPT !.pc = pc, !.mm = meta, !.failed = {}] /\ Steps(r) /\ \A s \in Runs \ {r} : run'[s] = run[s]
    BY <1>3 DEF CacheInv, Shape, Steps
  <2> HIDE DEF x, y, pc
  <2>2. /\ Shaped(y) /\ y.pc = pc /\ y.mm = meta /\ y.norm = x.norm /\ y.tree = x.tree /\ y.plan = x.plan /\ y.todo = x.todo
        /\ y.pass = x.pass /\ y.failed = {} /\ y.floor = x.floor
    BY <1>2, <2>1 DEF Shaped
  <2>3. RunType(r)'
    BY <1>1, <1>2, <2>2, FS_EmptySet DEF RunInv, RunType, Reading, Reported, CacheInv, DiskInv, x, y, pc
  <2>4. PlanInv(r)' /\ PassInv(r)' /\ ReadInv(r)'
    BY <1>1, <1>2, <2>2 DEF RunInv, PlanInv, PassInv, ReadInv, Ours, Reported, Reading, x, y, pc
  <2>5. StampInv(r)'
    BY <1>1, <2>2 DEF CacheInv, DiskInv, StampInv, x, y
  <2>6. FloorInv(r)'
    BY <1>1, <1>2, <2>2 DEF RunInv, FloorInv, Planning, Reading, Reported, Ours, Reached, x, y, pc
  <2>7. HolderInv'
    <3>1. \A s \in Runs : run[s].pc \notin Holding
      BY <1>3 DEF CacheInv, HolderInv
    <3>2. cacheLock' \in Locks /\ cacheLock'.by = r
      BY <1>3 DEF Locks
    <3>3. cacheLock' # None
      BY <3>2, NamesAssumption
    <3> QED
      BY <2>1, <3>1, <3>2, <3>3 DEF HolderInv
  <2> QED
    BY <1>1, <1>2, <2>1, <2>2, <2>3, <2>4, <2>5, <2>6, <2>7, PrivateStep DEF RunInv, x, y
<1>4. CASE /\ Goes(r, IF sync THEN "reclaim" ELSE "savereclaim") /\ cacheLock' = cacheLock
  <2>1. RunInv(r)'
    <3>1. CASE sync
      BY <1>1, <1>4, <3>1, GoesOn, PlanningKept DEF Planning, CacheInv, RunInv, RunType
    <3>2. CASE ~sync
      <4>1. x.pc = "savelock" /\ y.pc = "savereclaim"
        BY <1>1, <1>4, <3>2, GoesOn
      <4>2. RunType(r)'
        BY <4>1, <1>2, <1>4, GoesOn DEF RunInv, RunType, Reading, Reported
      <4>3. PlanInv(r)' /\ StampInv(r)' /\ PassInv(r)' /\ ReadInv(r)'
        BY <4>1, <1>1, <1>2, <1>4, GoesOn DEF RunInv, PlanInv, StampInv, PassInv, ReadInv, Reading, Reported, Ours
      <4>4. FloorInv(r)'
        BY <4>1, <1>1, <1>2, <1>4, GoesOn DEF RunInv, FloorInv, Planning, Reading, Reported, Ours
      <4> QED
        BY <4>2, <4>3, <4>4 DEF RunInv
    <3> QED
      BY <3>1, <3>2
  <2>2. HolderInv'
    BY <1>1, <1>4, GoesOn, LockKept DEF Holding
  <2> QED
    BY <1>1, <1>2, <1>4, <2>1, <2>2, GoesOn, PrivateStep
<1>5. CASE /\ run' = [run EXCEPT ![r] = IF sync THEN [@ EXCEPT !.pc = "read", !.failed = {}] ELSE Gone]
           /\ cacheLock' = cacheLock
  <2>1. CASE sync
    <3>1. y = [x EXCEPT !.pc = "read", !.failed = {}] /\ Steps(r)
      BY <1>5, <2>1 DEF CacheInv, Shape, Steps
    <3> HIDE DEF x, y
    <3>2. /\ Shaped(y) /\ y.pc = "read" /\ y.norm = x.norm /\ y.tree = x.tree /\ y.plan = x.plan /\ y.todo = x.todo
          /\ y.pass = x.pass /\ y.failed = {} /\ y.floor = x.floor
      BY <1>2, <3>1 DEF Shaped
    <3>3. RunInv(r)'
      BY <1>1, <1>2, <2>1, <3>2, PlanningKept DEF Planning, RunInv, RunType, x, y
    <3>4. HolderInv'
      BY <1>5, <3>1, <3>2, LockKept DEF Holding, x, y
    <3> QED
      BY <1>1, <1>2, <3>1, <3>2, <3>3, <3>4, PrivateStep DEF x, y
  <2>2. CASE ~sync
    <3>1. run' = [run EXCEPT ![r] = Gone]
      BY <1>5, <2>2
    <3>2. HolderInv'
      BY <1>5, <3>1, Ends, LockKept DEF Holding
    <3> QED
      BY <1>1, <3>1, <3>2, Ends, PrivateStep
  <2> QED
    BY <2>1, <2>2
<1> QED
  BY <1>3, <1>4, <1>5 DEF Acquire

\* The rows a run loads are its own normalizer's where it will answer.
LEMMA LoadKeeps ==
  ASSUME CacheInv, NEW r \in Runs, Load(r)
  PROVE  CacheInv'
<1> DEFINE x == run[r]
           y == run'[r]
<1>1. /\ version' = version /\ UNCHANGED <<upstream, file, meta>> /\ cacheLock' = cacheLock
      /\ x.pc = "load" /\ x.pass = None
  BY DEF Load, disk, CacheInv, RunInv, RunType
<1>2. PICK half \in SUBSET {"answer", "count"} :
        run' = [run EXCEPT ![r].pc = IF half = {} THEN "report" ELSE "savelock",
                           ![r].got = [c \in run[r].tree |-> file[c]],
                           ![r].mine = [h \in {"answer", "count"} |-> IF h \in half THEN fetches + 1 ELSE registry[h]]]
  BY DEF Load
<1> DEFINE pc == IF half = {} THEN "report" ELSE "savelock"
           mine == [h \in {"answer", "count"} |-> IF h \in half THEN fetches + 1 ELSE registry[h]]
           got == [c \in x.tree |-> file[c]]
<1>3. y = [x EXCEPT !.pc = pc, !.got = got, !.mine = mine] /\ Steps(r) /\ Shaped(x)
  BY <1>2 DEF CacheInv, Shape, Steps
<1> HIDE DEF x, y, pc, got, mine
<1>4. /\ Shaped(y) /\ y.pc = pc /\ y.mm = x.mm /\ y.norm = x.norm /\ y.tree = x.tree /\ y.plan = x.plan /\ y.todo = x.todo
      /\ y.pass = x.pass /\ y.failed = x.failed /\ y.floor = x.floor /\ y.got = got
  BY <1>3 DEF Shaped
<1>5. RunInv(r) /\ r \in Active /\ pc \in {"report", "savelock"}
  BY <1>1 DEF CacheInv, Active, x, pc
<1>6. got \in [x.tree -> Rows \cup {None}] /\ \A c \in x.tree : got[c] = file[c]
  BY DEF got, CacheInv, DiskInv, RunInv, RunType, x
<1>7. RunType(r)'
  BY <1>1, <1>4, <1>5, <1>6 DEF RunInv, RunType, Reading, Reported, x, y
<1>8. PlanInv(r)' /\ StampInv(r)' /\ PassInv(r)'
  BY <1>1, <1>4, <1>5 DEF RunInv, PlanInv, StampInv, PassInv, Ours, x, y
<1>9. FloorInv(r)'
  BY <1>1, <1>4, <1>5, <1>6 DEF RunInv, FloorInv, Planning, Reading, Reported, Ours, Reached, x, y
<1>10. ReadInv(r)'
  BY <1>1, <1>4, <1>5, <1>6 DEF RunInv, ReadInv, Reading, Reported, Ours, x, y
<1>11. HolderInv'
  BY <1>1, <1>3, <1>4, <1>5, LockKept DEF Holding, x, y
<1> QED
  BY <1>1, <1>3, <1>4, <1>7, <1>8, <1>9, <1>10, <1>11, PrivateStep DEF RunInv, x, y

LEMMA SaveKeeps ==
  ASSUME CacheInv, NEW r \in Runs, Save(r)
  PROVE  CacheInv'
<1>1. /\ version' = version /\ UNCHANGED <<upstream, file, meta>> /\ cacheLock' = cacheLock
      /\ run[r].pc = "save" /\ Goes(r, "saved")
  BY DEF Save
<1>2. RunInv(r) /\ run[r].pass = None /\ run'[r].pc = "saved"
  BY <1>1, GoesOn DEF CacheInv, RunInv, RunType
<1>3. RunType(r)'
  BY <1>2, <1>1, GoesOn DEF RunInv, RunType, Reading, Reported
<1>4. PlanInv(r)' /\ StampInv(r)' /\ PassInv(r)' /\ ReadInv(r)' /\ FloorInv(r)'
  BY <1>2, <1>1, GoesOn DEF RunInv, PlanInv, StampInv, PassInv, ReadInv, FloorInv, Planning, Reading, Reported, Ours
<1>5. HolderInv'
  BY <1>1, GoesOn, LockKept DEF Holding
<1> QED
  BY <1>1, <1>3, <1>4, <1>5, GoesOn, PrivateStep DEF RunInv

-----------------------------------------------------------------------------
(* Steps of a sync. *)

\* The item at hand is one of the plan's, and a set of cells.
LEMMA ItemAtHand ==
  ASSUME NEW r \in Runs, RunType(r), run[r].todo # <<>>
  PROVE  /\ Head(run[r].todo) \in DOMAIN run[r].plan /\ Head(run[r].todo) \subseteq Cells
         /\ Tail(run[r].todo) \in Seq(DOMAIN run[r].plan)
<1>1. run[r].todo \in Seq(DOMAIN run[r].plan) /\ DOMAIN run[r].plan \subseteq SUBSET Cells
  BY DEF RunType
<1>2. Head(run[r].todo) \in DOMAIN run[r].plan /\ Tail(run[r].todo) \in Seq(DOMAIN run[r].plan)
  BY <1>1, HeadTail
<1> QED
  BY <1>1, <1>2

\* A run that syncs knows what it holds.
LEMMA Syncing ==
  ASSUME CacheInv, NEW r \in Runs, run[r].pc = "sync"
  PROVE  /\ RunInv(r) /\ r \in Active /\ Shaped(run[r]) /\ run[r].mm \in MetaFiles
         /\ \A s \in Runs \ {r} : run[s].pc # "sync"
         /\ head \in Nat /\ exported = head /\ run[r].norm \in Nat
BY BoundsAssumption DEF CacheInv, Shape, Active, RunInv, RunType, HolderInv, Holding, DiskInv, Versions

\* The cells a failed item leaves are not promised anything.
LEMMA ItemFailsKeeps ==
  ASSUME CacheInv, NEW r \in Runs, ItemFails(r)
  PROVE  CacheInv'
<1> DEFINE x == run[r]
           y == run'[r]
           i == Head(x.todo)
           floor == [c \in DOMAIN x.floor |-> IF c \in i THEN 0 ELSE x.floor[c]]
<1>1. /\ version' = version /\ UNCHANGED <<upstream, file, meta>> /\ cacheLock' = cacheLock
      /\ x.pc = "sync" /\ x.todo # <<>>
  BY DEF ItemFails, disk
<1>2. y = [x EXCEPT !.todo = Tail(@), !.pass = None, !.failed = @ \cup {i}, !.floor = floor] /\ Steps(r)
  BY DEF CacheInv, Shape, Steps, ItemFails
<1>3. RunInv(r) /\ Shaped(x)
  BY <1>1, Syncing
<1>4. i \in DOMAIN x.plan /\ i \subseteq Cells /\ Tail(x.todo) \in Seq(DOMAIN x.plan)
  BY <1>1, <1>3, ItemAtHand DEF RunInv
<1>5. /\ floor \in [x.tree -> Nat]
      /\ \A c \in x.tree : floor[c] > 0 => floor[c] = x.floor[c] /\ c \notin i
  BY <1>3 DEF RunInv, RunType
<1> HIDE DEF x, y, i, floor
<1>6. /\ Shaped(y) /\ y.pc = x.pc /\ y.mm = x.mm /\ y.norm = x.norm /\ y.tree = x.tree /\ y.plan = x.plan
      /\ y.todo = Tail(x.todo) /\ y.pass = None /\ y.failed = x.failed \cup {i} /\ y.floor = floor
  BY <1>2, <1>3 DEF Shaped, x
<1>7. RunType(r)'
  <2>1. IsFiniteSet(x.failed \cup {i})
    BY <1>3, FS_AddElement DEF RunInv, RunType, x
  <2>2. /\ y.norm \in Versions /\ DOMAIN y.plan \subseteq SUBSET Cells /\ y.todo \in Seq(DOMAIN y.plan)
        /\ y.failed \subseteq DOMAIN y.plan /\ IsFiniteSet(y.failed) /\ y.tree \subseteq Cells /\ y.mm \in MetaFiles
    BY <1>1, <1>3, <1>4, <1>6, <2>1 DEF RunInv, RunType, x
  <2> QED
    BY <1>1, <1>5, <1>6, <2>2 DEF RunType, Reading, Reported, y
<1>8. PlanInv(r)' /\ StampInv(r)' /\ PassInv(r)' /\ ReadInv(r)'
  BY <1>1, <1>3, <1>6 DEF RunInv, PlanInv, StampInv, PassInv, ReadInv, Reading, Reported, Ours, x, y
<1>9. FloorInv(r)'
  <2>1. \A c \in x.tree : floor[c] > 0 => Reached(r, x.mm[c], c)
    BY <1>1, <1>3, <1>5 DEF RunInv, FloorInv, x, i
  <2> QED
    BY <1>1, <1>5, <1>6, <2>1 DEF FloorInv, Planning, Reading, Reported, Reached, Ours, x, y
<1>10. HolderInv'
  BY <1>1, <1>2, <1>6, LockKept DEF x, y
<1> QED
  BY <1>1, <1>2, <1>6, <1>7, <1>8, <1>9, <1>10, PrivateStep DEF RunInv, x, y

\* A seed stamps its cells together when all are in place.
LEMMA ItemDoneKeeps ==
  ASSUME CacheInv, NEW r \in Runs, ItemDone(r)
  PROVE  CacheInv'
<1> DEFINE x == run[r]
           y == run'[r]
           i == Head(x.todo)
           mm == [c \in DOMAIN x.mm |-> IF c \in i /\ x.pass.kind = "seed" THEN Stamped(x.pass, x.norm) ELSE x.mm[c]]
<1>1. /\ version' = version /\ UNCHANGED <<upstream, file, meta>> /\ cacheLock' = cacheLock
      /\ x.pc = "sync" /\ x.pass # None /\ x.pass.left = {}
  BY DEF ItemDone, disk
<1>2. y = [x EXCEPT !.todo = Tail(@), !.pass = None, !.mm = mm] /\ Steps(r)
  BY DEF CacheInv, Shape, Steps, ItemDone
<1>3. /\ RunInv(r) /\ r \in Active /\ Shaped(x) /\ x.mm \in MetaFiles /\ x.pass \in Passes /\ x.todo # <<>> /\ x.norm \in Versions
      /\ x.norm \in Nat
  BY <1>1, Syncing DEF RunInv, RunType
<1>4. i \in DOMAIN x.plan /\ i \subseteq Cells /\ Tail(x.todo) \in Seq(DOMAIN x.plan)
  BY <1>3, ItemAtHand DEF RunInv
<1>5. Stamped(x.pass, x.norm) \in States /\ Stamped(x.pass, x.norm).norm = x.norm
      /\ (Stamped(x.pass, x.norm).at # None => Stamped(x.pass, x.norm).at = x.pass.to)
  BY <1>3 DEF Stamped, States, Passes
<1>6. /\ mm \in MetaFiles
      /\ \A c \in Cells : mm[c] = IF c \in i /\ x.pass.kind = "seed" THEN Stamped(x.pass, x.norm) ELSE x.mm[c]
  BY <1>3, <1>5 DEF MetaFiles
<1>7. \A c \in i : file[c] # None /\ file[c].norm = x.norm /\ file[c].at >= x.pass.to
  BY <1>1, <1>3 DEF RunInv, PassInv
<1>8. \A c \in i : x.pass.kind # "seed" => Ours(x.mm[c], r)
  <2>1. x.pass.kind \in {"seed", "refresh"}
    BY <1>3 DEF Passes
  <2>2. x.pass.kind = "refresh" => \A c \in i : Ours(x.mm[c], r)
    BY <1>1, <1>3 DEF RunInv, PassInv
  <2> QED
    BY <2>1, <2>2
<1>9. \A c \in i : Ours(mm[c], r)
  BY <1>4, <1>5, <1>6, <1>8, StampNumbers DEF Ours
<1> HIDE DEF x, y, i, mm
<1>10. /\ Shaped(y) /\ y.pc = x.pc /\ y.mm = mm /\ y.norm = x.norm /\ y.tree = x.tree /\ y.plan = x.plan
      /\ y.todo = Tail(x.todo) /\ y.pass = None /\ y.failed = x.failed /\ y.floor = x.floor
  BY <1>2, <1>3 DEF Shaped, x
<1>11. RunType(r)'
  BY <1>1, <1>3, <1>4, <1>6, <1>10 DEF RunInv, RunType, Reading, Reported, x, y
<1>12. PlanInv(r)' /\ PassInv(r)' /\ ReadInv(r)'
  BY <1>1, <1>3, <1>10 DEF RunInv, PlanInv, PassInv, ReadInv, Reading, Reported, Ours, x, y
<1>13. StampInv(r)'
  <2> SUFFICES ASSUME NEW c \in Cells
               PROVE  /\ mm[c] # None => Backs(file[c], mm[c])
                      /\ mm[c] = meta[c] \/ Ours(mm[c], r)
    BY <1>1, <1>10 DEF StampInv, Ours, Backs, x, y
  <2>1. CASE c \in i /\ x.pass.kind = "seed"
    <3>1. file[c] # None /\ file[c].norm = x.norm /\ file[c].at >= x.pass.to
      BY <1>7, <2>1
    <3>2. Backs(file[c], mm[c])
      BY <1>3, <1>5, <1>6, <2>1, <3>1 DEF Backs
    <3> QED
      BY <1>9, <2>1, <3>2
  <2>2. CASE ~ (c \in i /\ x.pass.kind = "seed")
    BY <1>1, <1>3, <1>6, <2>2 DEF RunInv, StampInv, x
  <2> QED
    BY <2>1, <2>2
<1>14. FloorInv(r)'
  <2> SUFFICES ASSUME NEW c \in x.tree, x.floor[c] > 0
               PROVE  Reached(r, mm[c], c)
    BY <1>1, <1>10 DEF FloorInv, Planning, Reading, Reported, Reached, Ours, x, y
  <2>1. c \in Cells /\ x.floor[c] \in Nat /\ x.pass.to \in Nat
    BY <1>3, BoundsAssumption DEF RunInv, RunType, Passes, x
  <2>2. CASE c \in i /\ x.floor[c] <= x.pass.to
    <3>1. file[c] \in Rows
      BY <1>7, <2>1, <2>2 DEF CacheInv, DiskInv
    <3>2. file[c].at >= x.floor[c]
      BY <1>7, <2>1, <2>2, <3>1, RowNumbers
    <3> QED
      BY <1>7, <1>9, <2>2, <3>2 DEF Reached, x
  <2>3. CASE Reached(r, x.mm[c], c)
    <3>1. Ours(mm[c], r)
      BY <1>6, <1>9, <2>1, <2>3 DEF Reached
    <3> QED
      BY <2>3, <3>1 DEF Reached
  <2> QED
    BY <1>1, <1>3, <2>2, <2>3 DEF RunInv, FloorInv, x, i
<1>15. HolderInv'
  BY <1>1, <1>2, <1>10, LockKept DEF x, y
<1> QED
  BY <1>1, <1>2, <1>10, <1>11, <1>12, <1>13, <1>14, <1>15, PrivateStep DEF RunInv, x, y

\* A pass covers the item up to the head; what it leaves alone is there already.
LEMMA PassChosen ==
  ASSUME CacheInv, NEW r \in Runs, run[r].pc = "sync", run[r].todo # <<>>,
         NEW p \in IF run[r].plan[Head(run[r].todo)] = "seed" THEN SeedPass(Head(run[r].todo))
                   ELSE RefreshPass(Head(run[r].todo), run[r].mm)
  PROVE  /\ p \in Passes /\ p.to = head /\ p.left \subseteq Head(run[r].todo)
         /\ \A c \in Head(run[r].todo) \ p.left :
                file[c] # None /\ file[c].norm = run[r].norm /\ file[c].at >= p.to
         /\ p.kind = "refresh" =>
                /\ p.sha
                /\ \A c \in Head(run[r].todo) : Ours(run[r].mm[c], r)
                /\ \A c \in p.left : run[r].mm[c].at # None
<1> DEFINE x == run[r]
           i == Head(x.todo)
<1>1. /\ RunInv(r) /\ r \in Active /\ x.mm \in MetaFiles /\ head \in Nat /\ exported = head
  BY Syncing
<1>2. i \in DOMAIN x.plan /\ i \subseteq Cells
  BY <1>1, ItemAtHand DEF RunInv
<1>3. head \in 0..MaxHead
  BY DEF CacheInv, DiskInv
<1>4. CASE p \in SeedPass(i)
  <2>1. p.kind = "seed" /\ p.left = i /\ p.to = head /\ p \in Passes
    <3>1. PICK known \in BOOLEAN :
            p = [kind |-> "seed", left |-> i, to |-> IF i \subseteq OsvCells THEN exported ELSE head, sha |-> known]
      BY <1>4 DEF SeedPass
    <3>2. p = [kind |-> "seed", left |-> i, to |-> head, sha |-> known]
      BY <1>1, <3>1
    <3> QED
      BY <1>2, <1>3, <3>2 DEF Passes
  <2> QED
    BY <2>1
<1>5. CASE /\ x.plan[i] # "seed" /\ \A c \in i : x.mm[c] # None /\ x.mm[c].at # None
           /\ p = [kind |-> "refresh", left |-> {c \in i : x.mm[c].at # head}, to |-> head, sha |-> TRUE]
  <2>1. p.kind = "refresh" /\ p.left \subseteq i /\ p.to = head /\ p.sha /\ p \in Passes
    BY <1>2, <1>3, <1>5 DEF Passes
  <2>2. \A c \in i : Ours(x.mm[c], r)
    BY <1>1, <1>2, <1>5 DEF RunInv, PlanInv, StampInv, Ours, Active
  <2>3. ASSUME NEW c \in i \ p.left
        PROVE  file[c] # None /\ file[c].norm = x.norm /\ file[c].at >= p.to
    <3>1. c \in Cells /\ x.mm[c] # None /\ x.mm[c] \in States /\ x.mm[c].at = head /\ x.mm[c].at # None
      BY <1>1, <1>2, <1>5 DEF MetaFiles
    <3>2. Backs(file[c], x.mm[c])
      BY <1>1, <3>1 DEF RunInv, StampInv
    <3>3. file[c] # None /\ file[c].norm = x.norm
      BY <1>1, <2>2, <3>1, <3>2, OursIsBacked
    <3> QED
      BY <2>1, <3>1, <3>2, <3>3 DEF Backs
  <2> QED
    BY <2>1, <2>2, <2>3, <1>5
<1> QED
  BY <1>4, <1>5 DEF RefreshPass

LEMMA RequestKeeps ==
  ASSUME CacheInv, NEW r \in Runs, Request(r)
  PROVE  CacheInv'
<1> DEFINE x == run[r]
           y == run'[r]
           i == Head(x.todo)
           floor == [c \in DOMAIN x.floor |-> IF c \in i THEN Floor(c) ELSE x.floor[c]]
<1>1. /\ version' = version /\ UNCHANGED <<upstream, file, meta>> /\ cacheLock' = cacheLock
      /\ x.pc = "sync" /\ x.todo # <<>> /\ x.pass = None
  BY DEF Request, disk
<1>2. PICK p \in IF x.plan[i] = "seed" THEN SeedPass(i) ELSE RefreshPass(i, x.mm) :
        run' = [run EXCEPT ![r].pass = p,
                           ![r].floor = [c \in DOMAIN @ |-> IF c \in i THEN Floor(c) ELSE @[c]]]
  BY DEF Request
<1>3. y = [x EXCEPT !.pass = p, !.floor = floor] /\ Steps(r)
  BY <1>2 DEF CacheInv, Shape, Steps
<1>4. RunInv(r) /\ Shaped(x) /\ head \in Nat /\ exported = head
  BY <1>1, Syncing
<1>5. /\ floor \in [x.tree -> Nat]
      /\ \A c \in x.tree : floor[c] = IF c \in i THEN head ELSE x.floor[c]
  BY <1>4 DEF RunInv, RunType, Floor
<1>6. /\ p \in Passes /\ p.to = head /\ p.left \subseteq i
      /\ \A c \in i \ p.left : file[c] # None /\ file[c].norm = x.norm /\ file[c].at >= p.to
      /\ p.kind = "refresh" => p.sha /\ (\A c \in i : Ours(x.mm[c], r)) /\ \A c \in p.left : x.mm[c].at # None
  BY <1>1, PassChosen
<1>7. p # None
  BY <1>6, NamesAssumption
<1> HIDE DEF x, y, i, floor
<1>8. /\ Shaped(y) /\ y.pc = x.pc /\ y.mm = x.mm /\ y.norm = x.norm /\ y.tree = x.tree /\ y.plan = x.plan
      /\ y.todo = x.todo /\ y.pass = p /\ y.failed = x.failed /\ y.floor = floor
  BY <1>3, <1>4 DEF Shaped, x
<1>9. RunType(r)'
  BY <1>1, <1>4, <1>5, <1>6, <1>8 DEF RunInv, RunType, Reading, Reported, x, y
<1>10. PlanInv(r)' /\ StampInv(r)' /\ ReadInv(r)'
  BY <1>1, <1>4, <1>8 DEF RunInv, PlanInv, StampInv, ReadInv, Reading, Reported, Ours, x, y
<1>11. PassInv(r)'
  <2>1. \A c \in Cells : file[c] # None => file[c].at <= p.to
    BY <1>6 DEF CacheInv, DiskInv
  <2>2. p.to <= head' /\ p.left \subseteq i
    BY <1>1, <1>4, <1>6 DEF upstream
  <2> QED
    BY <1>1, <1>6, <1>8, <2>1, <2>2 DEF PassInv, Ours, x, y, i
<1>12. FloorInv(r)'
  <2> SUFFICES ASSUME NEW c \in x.tree, floor[c] > 0
               PROVE  \/ Ours(x.mm[c], r) /\ file[c] # None /\ file[c].at >= floor[c]
                      \/ c \in i /\ floor[c] <= p.to
    BY <1>1, <1>7, <1>8 DEF FloorInv, Planning, Reading, Reported, Reached, Ours, x, y, i
  <2>1. CASE c \in i
    BY <1>4, <1>5, <1>6, <2>1
  <2>2. CASE c \notin i
    BY <1>1, <1>4, <1>5, <2>2 DEF RunInv, FloorInv, Reached, x, i
  <2> QED
    BY <2>1, <2>2
<1>13. HolderInv'
  BY <1>1, <1>3, <1>8, LockKept DEF x, y
<1> QED
  BY <1>1, <1>3, <1>8, <1>9, <1>10, <1>11, <1>12, <1>13, PrivateStep DEF RunInv, x, y

\* The rows a pass puts in place are there, the run's own, and up to the pass; and
\* they are no older than what they replace.
LEMMA StagedRows ==
  ASSUME CacheInv, NEW r \in Runs, run[r].pc = "sync", run[r].pass # None, NEW c \in run[r].pass.left
  PROVE  /\ c \in Cells
         /\ Staged(file[c], run[r].mm[c], run[r].pass, run[r].norm) \in Rows
         /\ Staged(file[c], run[r].mm[c], run[r].pass, run[r].norm).norm = run[r].norm
         /\ Staged(file[c], run[r].mm[c], run[r].pass, run[r].norm).at = run[r].pass.to
         /\ Newer(file[c], Staged(file[c], run[r].mm[c], run[r].pass, run[r].norm))
<1> DEFINE x == run[r]
           i == Head(x.todo)
           new == Staged(file[c], x.mm[c], x.pass, x.norm)
<1>1. /\ RunInv(r) /\ r \in Active /\ x.mm \in MetaFiles /\ x.pass \in Passes /\ x.todo # <<>> /\ x.norm \in Versions
      /\ x.norm \in Nat
  BY Syncing DEF RunInv, RunType
<1>2. c \in i /\ c \in Cells
  BY <1>1, ItemAtHand DEF RunInv, PassInv
<1>3. x.pass.to \in 0..MaxHead /\ x.pass.to \in Nat /\ x.pass.kind \in {"seed", "refresh"}
  BY <1>1, BoundsAssumption DEF Passes
<1>4. file[c] # None => /\ file[c] \in Rows /\ file[c].at \in Nat /\ file[c].norm \in Nat
                        /\ file[c].at <= x.pass.to /\ file[c].norm <= x.norm
  BY <1>1, <1>2, RowNumbers DEF CacheInv, DiskInv, VersionInv, RunInv, PassInv
<1>5. new = [norm |-> x.norm, at |-> x.pass.to]
  <2>1. CASE x.pass.kind = "seed"
    BY <2>1 DEF Staged
  <2>2. CASE x.pass.kind = "refresh"
    <3>1. x.mm[c] \in States /\ Ours(x.mm[c], r) /\ x.mm[c].at # None
      BY <1>1, <1>2, <2>2 DEF RunInv, PassInv, Ours, MetaFiles
    <3>2. Backs(file[c], x.mm[c])
      BY <1>1, <1>2, <3>1 DEF RunInv, StampInv, Ours
    <3>3. file[c] # None /\ file[c].norm = x.norm
      BY <1>1, <1>2, <3>1, <3>2, OursIsBacked
    <3>4. file[c].at >= x.mm[c].at
      BY <3>1, <3>2 DEF Backs
    <3>5. Max({file[c].at, x.pass.to}) = x.pass.to
      <4>1. file[c].at \in Nat /\ x.pass.to \in Nat /\ file[c].at <= x.pass.to
        BY <1>3, <1>4, <3>3
      <4>2. Max({file[c].at, x.pass.to}) \in {file[c].at, x.pass.to} /\ Max({file[c].at, x.pass.to}) >= x.pass.to
        BY <4>1, MaxOfTwo
      <4> QED
        BY <4>1, <4>2
    <3> QED
      BY <2>2, <3>3, <3>4, <3>5 DEF Staged
  <2> QED
    BY <1>3, <2>1, <2>2
<1>6. new \in Rows /\ new.norm = x.norm /\ new.at = x.pass.to
  BY <1>1, <1>3, <1>5 DEF Rows
<1>7. Newer(file[c], new)
  BY <1>3, <1>4, <1>6, RowNumbers DEF Newer
<1> QED
  BY <1>2, <1>6, <1>7

\* One file is replaced: what was true of the old rows is true of the new.
LEMMA CommitKeeps ==
  ASSUME CacheInv, NEW r \in Runs, Commit(r)
  PROVE  CacheInv'
<1> DEFINE x == run[r]
           y == run'[r]
           i == Head(x.todo)
<1>1. /\ version' = version /\ UNCHANGED <<upstream, meta>> /\ cacheLock' = cacheLock
      /\ x.pc = "sync" /\ x.pass # None
  BY DEF Commit
<1>2. PICK c \in x.pass.left :
        /\ file' = [file EXCEPT ![c] = Staged(@, x.mm[c], x.pass, x.norm)]
        /\ run' = [run EXCEPT ![r].pass.left = @ \ {c},
                              ![r].mm[c] = IF x.pass.kind = "seed" THEN @ ELSE Stamped(x.pass, x.norm)]
  BY DEF Commit
<1> DEFINE new == Staged(file[c], x.mm[c], x.pass, x.norm)
           pass == [x.pass EXCEPT !.left = @ \ {c}]
           mm == [x.mm EXCEPT ![c] = IF x.pass.kind = "seed" THEN @ ELSE Stamped(x.pass, x.norm)]
<1>3. /\ RunInv(r) /\ r \in Active /\ Shaped(x) /\ x.mm \in MetaFiles /\ x.pass \in Passes /\ x.todo # <<>> /\ x.norm \in Versions
      /\ x.norm \in Nat /\ head \in Nat /\ \A s \in Runs \ {r} : run[s].pc # "sync"
  BY <1>1, Syncing DEF RunInv, RunType
<1>4. c \in Cells /\ new \in Rows /\ new.norm = x.norm /\ new.at = x.pass.to /\ Newer(file[c], new)
  BY <1>1, StagedRows
<1>5. c \in i /\ i \subseteq Cells
  BY <1>1, <1>3, ItemAtHand DEF RunInv, PassInv
<1>6. new # None /\ new.at \in Nat /\ x.pass.to \in Nat /\ x.pass.to <= head
  BY <1>1, <1>3, <1>4, RowNumbers, BoundsAssumption DEF RunInv, PassInv, Passes
<1>7. y = [x EXCEPT !.pass = pass, !.mm = mm] /\ Steps(r)
  BY <1>2, <1>3 DEF CacheInv, Shape, Steps
<1>8. /\ pass \in Passes /\ pass.left = x.pass.left \ {c} /\ pass.kind = x.pass.kind /\ pass.to = x.pass.to /\ pass.sha = x.pass.sha
      /\ x.pass.kind \in {"seed", "refresh"}
  BY <1>3 DEF Passes
<1>9. pass # None
  BY <1>8, NamesAssumption
<1>10. /\ file' \in [Cells -> Rows \cup {None}] /\ file'[c] = new
       /\ \A d \in Cells \ {c} : file'[d] = file[d]
  BY <1>2, <1>4 DEF CacheInv, DiskInv
<1>11. x.pass.kind = "refresh" => /\ Stamped(x.pass, x.norm) = [norm |-> x.norm, at |-> x.pass.to]
                                 /\ Ours(Stamped(x.pass, x.norm), r)
  <2>1. Stamped(x.pass, x.norm) \in States /\ Stamped(x.pass, x.norm).norm = x.norm
    BY <1>3 DEF Stamped, States, Passes
  <2>2. Stamped(x.pass, x.norm) # None
    BY <2>1, StampNumbers
  <2> QED
    BY <1>1, <1>3, <2>1, <2>2 DEF RunInv, PassInv, Stamped, Ours
<1>12. /\ mm \in MetaFiles /\ \A d \in Cells \ {c} : mm[d] = x.mm[d]
       /\ mm[c] = IF x.pass.kind = "seed" THEN x.mm[c] ELSE Stamped(x.pass, x.norm)
  <2>1. Stamped(x.pass, x.norm) \in States
    BY <1>3 DEF Stamped, States, Passes
  <2> QED
    BY <1>3, <1>4, <2>1 DEF MetaFiles
<1> HIDE DEF x, y, i, new, pass, mm
<1>13. /\ Shaped(y) /\ y.pc = x.pc /\ y.mm = mm /\ y.norm = x.norm /\ y.tree = x.tree /\ y.plan = x.plan
      /\ y.todo = x.todo /\ y.pass = pass /\ y.failed = x.failed /\ y.floor = x.floor
  BY <1>3, <1>7 DEF Shaped, x
<1>14. \A d \in Cells : Newer(file[d], file'[d])
  <2>1. \A d \in Cells : file[d] # None => file[d].at \in Nat /\ file[d].norm \in Nat
    BY RowNumbers DEF CacheInv, DiskInv
  <2> QED
    BY <1>4, <1>10, <2>1 DEF Newer
<1>15. \A s \in Active : \A d \in Cells : file'[d] # None => file'[d].norm <= run[s].norm
  BY <1>3, <1>4, <1>10 DEF CacheInv, VersionInv, x
<1>16. \A s \in Active \ {r} : Gentle(s)
  BY <1>1, <1>3, <1>10, <1>14, <1>15 DEF Gentle, CacheInv, DiskInv, Active, upstream
<1>17. RunType(r)'
  BY <1>1, <1>3, <1>8, <1>12, <1>13 DEF RunInv, RunType, Reading, Reported, x, y
<1>18. PlanInv(r)' /\ ReadInv(r)'
  BY <1>1, <1>3, <1>13 DEF RunInv, PlanInv, ReadInv, Reading, Reported, Ours, x, y
<1>19. StampInv(r)'
  <2> SUFFICES ASSUME NEW d \in Cells
               PROVE  /\ mm[d] # None => Backs(file'[d], mm[d])
                      /\ mm[d] = meta[d] \/ Ours(mm[d], r)
    BY <1>1, <1>13 DEF StampInv, Ours, Backs, x, y
  <2>1. CASE d = c /\ x.pass.kind = "refresh"
    <3>1. mm[d] = [norm |-> x.norm, at |-> x.pass.to]
      BY <1>11, <1>12, <2>1
    <3>2. Backs(file'[d], mm[d])
      BY <1>3, <1>4, <1>6, <1>10, <2>1, <3>1 DEF Backs
    <3> QED
      BY <1>11, <1>12, <2>1, <3>2
  <2>2. CASE d # c \/ x.pass.kind # "refresh"
    <3>1. mm[d] = x.mm[d]
      BY <1>8, <1>12, <2>2
    <3>2. ASSUME mm[d] # None PROVE Backs(file'[d], mm[d])
      <4>1. mm[d] \in States /\ Backs(file[d], mm[d])
        BY <1>1, <1>3, <3>1, <3>2 DEF RunInv, StampInv, MetaFiles, x
      <4>2. file[d] \in Rows \cup {None} /\ file'[d] \in Rows \cup {None}
        BY <1>10 DEF CacheInv, DiskInv
      <4> QED
        BY <1>14, <4>1, <4>2, StillBacks
    <3> QED
      BY <1>1, <1>3, <3>1, <3>2 DEF RunInv, StampInv, x
  <2> QED
    BY <2>1, <2>2
<1>20. PassInv(r)'
  <2>1. \A d \in Cells : file'[d] # None => file'[d].at <= x.pass.to
    BY <1>1, <1>3, <1>4, <1>6, <1>10 DEF RunInv, PassInv, x
  <2>2. x.pass.to <= head' /\ pass.left \subseteq i
    BY <1>1, <1>3, <1>6, <1>8 DEF RunInv, PassInv, upstream, x, i
  <2>3. \A d \in i \ pass.left : file'[d] # None /\ file'[d].norm = x.norm /\ file'[d].at >= x.pass.to
    BY <1>1, <1>3, <1>4, <1>5, <1>6, <1>8, <1>10 DEF RunInv, PassInv, x, i
  <2>4. ASSUME x.pass.kind = "refresh"
        PROVE  x.pass.sha /\ (\A d \in i : Ours(mm[d], r)) /\ \A d \in pass.left : mm[d].at # None
    <3>1. /\ x.pass.sha /\ (\A d \in i : Ours(x.mm[d], r)) /\ \A d \in x.pass.left : x.mm[d].at # None
          /\ x.pass.left \subseteq Cells
      BY <1>1, <1>3, <2>4 DEF RunInv, PassInv, Passes, x, i
    <3>2. Ours(mm[c], r)
      BY <1>11, <1>12, <2>4
    <3> QED
      BY <1>5, <1>8, <1>12, <3>1, <3>2 DEF i
  <2> QED
    BY <1>1, <1>8, <1>13, <2>1, <2>2, <2>3, <2>4 DEF PassInv, Ours, x, y, i
<1>21. FloorInv(r)'
  <2> SUFFICES ASSUME NEW d \in x.tree, x.floor[d] > 0
               PROVE  \/ Ours(mm[d], r) /\ file'[d] # None /\ file'[d].at >= x.floor[d]
                      \/ d \in i /\ x.floor[d] <= x.pass.to
    BY <1>1, <1>8, <1>9, <1>13 DEF FloorInv, Planning, Reading, Reported, Reached, Ours, x, y, i
  <2>1. d \in Cells /\ x.floor[d] \in Nat
    BY <1>3 DEF RunInv, RunType, x
  <2>2. CASE d \in i /\ x.floor[d] <= x.pass.to
    BY <2>2
  <2>3. CASE Reached(r, x.mm[d], d)
    <3>1. /\ Ours(x.mm[d], r) /\ file[d] \in Rows /\ file[d] # None /\ file[d].at >= x.floor[d]
          /\ file'[d] \in Rows /\ file'[d] # None /\ file'[d].at >= file[d].at
      BY <1>10, <1>14, <2>1, <2>3 DEF Reached, Newer, CacheInv, DiskInv, x
    <3>2. file'[d].at >= x.floor[d]
      BY <2>1, <3>1, RowNumbers
    <3>3. Ours(mm[d], r)
      <4>1. CASE d = c /\ x.pass.kind = "refresh"
        BY <1>11, <1>12, <4>1
      <4>2. CASE d # c \/ x.pass.kind # "refresh"
        BY <1>8, <1>12, <2>1, <3>1, <4>2
      <4> QED
        BY <4>1, <4>2
    <3> QED
      BY <3>1, <3>2, <3>3
  <2> QED
    BY <1>1, <1>3, <2>2, <2>3 DEF RunInv, FloorInv, x, i
<1>22. HolderInv'
  BY <1>1, <1>7, <1>13, LockKept DEF x, y
<1>23. DiskInv'
  <2>1. \A d \in Cells : file'[d] # None => file'[d].at <= head /\ file'[d].norm <= version
    BY <1>3, <1>4, <1>6, <1>10 DEF CacheInv, DiskInv, VersionInv, x
  <2>2. \A d \in Cells : meta[d] # None => Backs(file'[d], meta[d])
    BY <1>10, <1>14, StillBacks DEF CacheInv, DiskInv, MetaFiles
  <2> QED
    BY <1>1, <1>10, <2>1, <2>2 DEF CacheInv, DiskInv, upstream, Backs
<1>24. VersionInv'
  BY <1>1, <1>3, <1>7, <1>13, <1>15, VersionsKept DEF x, y
<1>25. \A s \in Runs \ {r} : run'[s] = run[s] /\ RunInv(s)'
  BY <1>7, <1>16, OthersKept
<1>26. RunInv(r)'
  BY <1>17, <1>18, <1>19, <1>20, <1>21 DEF RunInv
<1>27. Shape'
  BY <1>7, <1>13, <1>25 DEF CacheInv, Shape, Steps, y
<1> QED
  BY <1>22, <1>23, <1>24, <1>25, <1>26, <1>27 DEF CacheInv

\* One stamp for all the items: each cell keeps its stamp or gets this run's.
LEMMA StampMetaKeeps ==
  ASSUME CacheInv, NEW r \in Runs, StampMeta(r)
  PROVE  CacheInv'
<1>1. /\ version' = version /\ UNCHANGED <<upstream, file>> /\ cacheLock' = cacheLock
      /\ run[r].pc = "sync" /\ run[r].todo = <<>> /\ meta' = run[r].mm /\ Goes(r, "release")
  BY DEF StampMeta
<1>2. /\ RunInv(r) /\ r \in Active /\ run[r].mm \in MetaFiles /\ head \in Nat
      /\ \A s \in Runs \ {r} : run[s].pc # "sync"
  BY <1>1, Syncing
<1>3. run[r].pass = None
  BY <1>1, <1>2 DEF RunInv, RunType
<1>4. \A c \in Cells : meta'[c] = meta[c] \/ Ours(meta'[c], r)
  BY <1>1, <1>2 DEF RunInv, StampInv
<1>5. ASSUME NEW s \in Active \ {r} PROVE Gentle(s)
  <2>1. run[s].norm = run[r].norm /\ run[s].pc # "sync"
    BY <1>2 DEF CacheInv, VersionInv, Active
  <2>2. \A c \in Cells : Newer(file[c], file'[c])
    BY <1>1, RowNumbers DEF Newer, CacheInv, DiskInv
  <2>3. \A c \in Cells : meta'[c] = meta[c] \/ Ours(meta'[c], s)
    BY <1>4, <2>1 DEF Ours
  <2> QED
    BY <1>1, <1>2, <2>1, <2>2, <2>3 DEF Gentle, CacheInv, DiskInv, VersionInv, upstream
<1>6. \A s \in Runs \ {r} : run'[s] = run[s] /\ RunInv(s)'
  BY <1>1, <1>5, GoesOn, OthersKept
<1>7. RunType(r)'
  BY <1>1, <1>2, GoesOn DEF RunInv, RunType, Reading, Reported
<1>8. PlanInv(r)'
  BY <1>1, <1>2, <1>4, GoesOn DEF RunInv, RunType, PlanInv, Ours
<1>9. StampInv(r)' /\ PassInv(r)' /\ ReadInv(r)'
  BY <1>1, <1>3, GoesOn DEF StampInv, PassInv, ReadInv, Reading, Reported
<1>10. FloorInv(r)'
  BY <1>1, <1>2, <1>3, GoesOn DEF RunInv, FloorInv, Planning, Reading, Reported, Reached, Ours
<1>11. HolderInv'
  BY <1>1, GoesOn, LockKept DEF Holding
<1>12. VersionInv'
  BY <1>1, GoesOn, VersionsKept
<1>13. DiskInv'
  BY <1>1, <1>2 DEF CacheInv, DiskInv, RunInv, StampInv, Backs, upstream
<1>14. Shape'
  BY <1>1, <1>6, GoesOn DEF CacheInv, Shape, Steps
<1> QED
  BY <1>6, <1>7, <1>8, <1>9, <1>10, <1>11, <1>12, <1>13, <1>14 DEF CacheInv, RunInv

-----------------------------------------------------------------------------
(* Runs that start, and what goes on around them. *)

\* A run that nobody excuses is of the version of those that are running.
LEMMA StartKeeps ==
  ASSUME CacheInv, NEW r \in Runs, Start(r), excuse' = {}
  PROVE  CacheInv'
<1>1. /\ version' = version /\ UNCHANGED <<upstream, file, meta>> /\ cacheLock' = cacheLock
      /\ run[r].pc = "idle" /\ \A s \in Active : run[s].norm = version
  BY DEF Start, disk
<1>2. PICK tree \in Trees, offline \in BOOLEAN :
        run' = [run EXCEPT ![r] = [Gone EXCEPT !.pc = IF offline THEN "read" ELSE "lock", !.norm = version, !.tree = tree,
                                               !.plan = IF offline THEN @ ELSE PlanOf(tree, version),
                                               !.todo = IF offline THEN <<>> ELSE ItemsOf(tree),
                                               !.floor = [c \in tree |-> 0]]]
  BY DEF Start
<1> DEFINE y == run'[r]
           items == ItemsOf(tree)
           plan == IF offline THEN Gone.plan ELSE PlanOf(tree, version)
           floor == [c \in tree |-> 0]
<1>3. Steps(r) /\ \A s \in Runs \ {r} : run'[s] = run[s]
  BY <1>2 DEF CacheInv, Shape, Steps
<1>4. /\ Shaped(y) /\ y.pc = (IF offline THEN "read" ELSE "lock") /\ y.norm = version /\ y.tree = tree
      /\ y.plan = plan /\ y.todo = (IF offline THEN <<>> ELSE items)
      /\ y.pass = None /\ y.failed = {} /\ y.floor = floor
  <2>1. y = [Gone EXCEPT !.pc = IF offline THEN "read" ELSE "lock", !.norm = version, !.tree = tree,
                         !.plan = plan, !.todo = IF offline THEN <<>> ELSE items, !.floor = floor]
    BY <1>2 DEF CacheInv, Shape
  <2> HIDE DEF plan, items, floor
  <2> QED
    BY <2>1 DEF Gone, Shaped
<1>5. /\ offline => DOMAIN plan = {}
      /\ ~offline => /\ DOMAIN plan = ToSet(items)
                     /\ \A i \in ToSet(items) : plan[i] # "seed" => \A c \in i : Seeded(meta, c, version)
  <2>1. CASE offline
    BY <2>1 DEF Gone
  <2>2. CASE ~offline
    BY <2>2 DEF PlanOf
  <2> QED
    BY <2>1, <2>2
<1>6. tree \subseteq Cells /\ version \in Versions /\ floor \in [tree -> Nat] /\ \A c \in tree : floor[c] = 0
  BY CellsAssumption DEF CacheInv, VersionInv
<1>7. DOMAIN plan \subseteq SUBSET Cells /\ y.todo \in Seq(DOMAIN plan)
  <2>1. CASE offline
    BY <1>4, <1>5, <2>1
  <2>2. CASE ~offline
    BY <1>4, <1>5, <2>2, ItemsListed
  <2> QED
    BY <2>1, <2>2
<1> HIDE DEF y, items, plan, floor
<1>8. RunType(r)'
  BY <1>4, <1>6, <1>7, FS_EmptySet DEF RunType, Reading, Reported, y
<1>9. PlanInv(r)'
  BY <1>1, <1>4, <1>5 DEF PlanInv, Ours, Seeded, y
<1>10. StampInv(r)' /\ PassInv(r)' /\ ReadInv(r)' /\ FloorInv(r)'
  BY <1>4, <1>6 DEF StampInv, PassInv, ReadInv, FloorInv, Reading, Reported, y
<1>11. HolderInv'
  BY <1>1, <1>3, <1>4, LockKept DEF Holding, y
<1>12. \A s \in Runs \ {r} : RunInv(s)'
  BY <1>1, <1>3, OthersKept, GentleStep
<1>13. VersionInv'
  <2>1. \A s \in Active' : run'[s].norm = version
    BY <1>1, <1>3, <1>4 DEF Active, y
  <2>2. \A c \in Cells : file[c] # None => file[c].norm <= version
    BY DEF CacheInv, DiskInv
  <2> QED
    BY <1>1, <1>6, <2>1, <2>2 DEF VersionInv, Versions
<1>14. DiskInv'
  BY <1>1, DiskKept DEF CacheInv
<1>15. Shape'
  BY <1>3, <1>4 DEF CacheInv, Shape, Steps, y
<1> QED
  BY <1>8, <1>9, <1>10, <1>11, <1>12, <1>13, <1>14, <1>15 DEF CacheInv, RunInv

\* What happens around the runs, and gently.
LEMMA AroundKept ==
  ASSUME CacheInv, run' = run, \A s \in Active : Gentle(s)
  PROVE  Shape' /\ \A s \in Runs : RunInv(s)'
<1>1. Shape'
  BY DEF CacheInv, Shape
<1>2. ASSUME NEW s \in Runs PROVE RunInv(s)'
  <2>1. CASE run[s].pc = "idle"
    <3>1. RunType(s)'
      BY DEF CacheInv, RunInv, RunType
    <3> QED
      BY <2>1, <3>1, IdleKept
  <2>2. CASE run[s].pc # "idle"
    BY <2>2, RunKept DEF CacheInv, Active
  <2> QED
    BY <2>1, <2>2
<1> QED
  BY <1>1, <1>2

\* The export follows the list of changes at once.
LEMMA PublishKeeps ==
  ASSUME CacheInv, ~ExportLags, Publish
  PROVE  CacheInv'
<1>1. /\ version' = version /\ UNCHANGED <<file, meta>> /\ cacheLock' = cacheLock /\ run' = run
  BY DEF Publish, disk
<1>2. head \in Nat /\ exported = head
  BY BoundsAssumption DEF CacheInv, DiskInv
<1>3. head < MaxHead /\ head' = head + 1 /\ exported' = head'
  BY <1>2 DEF Publish
<1>4. \A c \in Cells : file[c] # None => file[c].at \in Nat /\ file[c].norm \in Nat
  BY RowNumbers DEF CacheInv, DiskInv
<1>5. \A s \in Active : Gentle(s)
  BY <1>1, <1>2, <1>3, <1>4 DEF CacheInv, DiskInv, VersionInv, Gentle, Newer
<1>6. DiskInv'
  BY <1>1, <1>2, <1>3, <1>4, BoundsAssumption DEF CacheInv, DiskInv, Backs
<1>7. VersionInv' /\ HolderInv'
  BY <1>1 DEF CacheInv, VersionInv, HolderInv, Active
<1> QED
  BY <1>1, <1>5, <1>6, <1>7, AroundKept DEF CacheInv

LEMMA UpgradeKeeps ==
  ASSUME CacheInv, Upgrade
  PROVE  CacheInv'
<1>1. /\ version' = version + 1 /\ version < MaxVersion /\ UNCHANGED <<upstream, file, meta>>
      /\ cacheLock' = cacheLock /\ run' = run
  BY DEF Upgrade, disk
<1>2. version' \in Versions /\ version \in Nat
  BY <1>1, BoundsAssumption DEF CacheInv, VersionInv, Versions
<1>3. \A c \in Cells : file[c] # None => file[c].norm \in Nat
  BY RowNumbers DEF CacheInv, DiskInv
<1>4. \A s \in Runs : run[s].norm \in Nat
  BY DEF CacheInv, RunInv, RunType, Versions
<1>5. VersionInv'
  BY <1>1, <1>2, <1>4 DEF CacheInv, VersionInv, Active
<1>6. DiskInv'
  BY <1>1, <1>2, <1>3 DEF CacheInv, DiskInv, Backs, upstream
<1>7. HolderInv'
  BY <1>1 DEF CacheInv, HolderInv
<1> QED
  BY <1>1, <1>5, <1>6, <1>7, AroundKept, GentleStep DEF CacheInv

LEMMA LockAgesKeeps ==
  ASSUME CacheInv, LockAges
  PROVE  CacheInv'
<1>1. /\ version' = version /\ UNCHANGED <<upstream, file, meta>> /\ run' = run
      /\ cacheLock # None /\ cacheLock' = [cacheLock EXCEPT !.old = TRUE]
  BY DEF LockAges
<1>2. cacheLock \in Locks
  BY <1>1 DEF CacheInv, HolderInv
<1>3. cacheLock' \in Locks /\ cacheLock'.by = cacheLock.by
  BY <1>1, <1>2 DEF Locks
<1>4. cacheLock' # None
  BY <1>3, NamesAssumption
<1>5. HolderInv'
  BY <1>1, <1>3, <1>4 DEF CacheInv, HolderInv
<1>6. VersionInv' /\ DiskInv'
  BY <1>1, DiskKept DEF CacheInv, VersionInv, Active
<1> QED
  BY <1>1, <1>5, <1>6, AroundKept, GentleStep DEF CacheInv

\* A deletion that nobody excuses had no run to harm.
LEMMA DeleteCacheKeeps ==
  ASSUME CacheInv, DeleteCache, excuse' = {}
  PROVE  CacheInv'
<1>1. /\ version' = version /\ UNCHANGED upstream /\ run' = run /\ cacheLock' = None
      /\ file' = [c \in Cells |-> None] /\ meta' = [c \in Cells |-> None] /\ Active = {}
  BY DEF DeleteCache
<1>2. \A s \in Runs : run[s].pc = "idle"
  BY <1>1 DEF Active
<1>3. ASSUME NEW s \in Runs PROVE RunInv(s)'
  <2>1. RunType(s)'
    BY <1>1, <1>2 DEF CacheInv, RunInv, RunType, Reading, Reported
  <2> QED
    BY <1>1, <1>2, <2>1, IdleKept
<1>4. VersionInv' /\ HolderInv' /\ Shape'
  BY <1>1, <1>2 DEF CacheInv, VersionInv, HolderInv, Shape, Active, Holding
<1>5. DiskInv'
  BY <1>1 DEF CacheInv, DiskInv, MetaFiles, upstream
<1> QED
  BY <1>3, <1>4, <1>5 DEF CacheInv

-----------------------------------------------------------------------------
(* The invariant, while nothing excuses the runs. *)

LEMMA CacheInvInit ==
  ASSUME CliInit
  PROVE  CacheInv /\ excuse = {}
<1>1. /\ version = 1 /\ head = 1 /\ exported = 1 /\ cacheLock = None
      /\ file = [c \in Cells |-> None] /\ meta = [c \in Cells |-> None]
      /\ run = [r \in Runs |-> Gone]
  BY DEF CliInit
<1>2. Active = {} /\ \A r \in Runs : run[r].pc = "idle" /\ run[r] = Gone
  BY <1>1 DEF Active, Gone
<1>3. Shape
  BY <1>1 DEF Shape, Shaped, Gone
<1>4. VersionInv /\ HolderInv
  BY <1>1, <1>2, BoundsAssumption DEF VersionInv, HolderInv, Versions, Holding
<1>5. DiskInv
  BY <1>1, BoundsAssumption DEF DiskInv, MetaFiles
<1>6. ASSUME NEW r \in Runs PROVE RunInv(r)
  <2>1. RunType(r)
    <3>1. run[r].pc = "idle" /\ run[r].plan = [i \in {} |-> "seed"] /\ run[r].todo = <<>> /\ run[r].failed = {}
          /\ run[r].tree = {} /\ run[r].pass = None /\ run[r].norm = 1 /\ run[r].floor = [c \in {} |-> 0]
      BY <1>2 DEF Gone
    <3>2. 1 \in Versions
      BY BoundsAssumption DEF Versions
    <3> QED
      BY <3>1, <3>2, FS_EmptySet DEF RunType, Reading, Reported
  <2>2. run[r].pass = None
    BY <1>2 DEF Gone
  <2> QED
    BY <1>2, <2>1, <2>2 DEF RunInv, PlanInv, StampInv, PassInv, FloorInv, ReadInv, Reading, Planning, Reported
<1> QED
  BY <1>3, <1>4, <1>5, <1>6 DEF CacheInv, CliInit

\* A step keeps the invariant unless it gives an excuse.
LEMMA CacheInvStep ==
  ASSUME CacheInv, ~ExportLags, [CliNext]_cliVars, excuse' = {}
  PROVE  CacheInv'
<1>1. CASE \E r \in Runs : \/ Start(r) \/ Decline(r) \/ Kill(r)
                           \/ Acquire(r) \/ Reclaim(r) \/ ReleaseLock(r) \/ Retry(r)
                           \/ Sync(r) \/ Scan(r)
  <2>1. PICK r \in Runs : \/ Start(r) \/ Decline(r) \/ Kill(r)
                          \/ Acquire(r) \/ Reclaim(r) \/ ReleaseLock(r) \/ Retry(r)
                          \/ Sync(r) \/ Scan(r)
    BY <1>1
  <2>2. CASE Start(r) \/ Decline(r) \/ Kill(r)
    BY <2>2, StartKeeps, DeclineKeeps, KillKeeps
  <2>3. CASE Acquire(r) \/ Reclaim(r) \/ ReleaseLock(r) \/ Retry(r)
    BY <2>3, AcquireKeeps, ReclaimKeeps, ReleaseLockKeeps, RetryKeeps
  <2>4. CASE Sync(r)
    BY <2>4, RequestKeeps, CommitKeeps, ItemDoneKeeps, ItemFailsKeeps, StampMetaKeeps DEF Sync
  <2>5. CASE Scan(r)
    BY <2>5, ReadMetaKeeps, LoadKeeps, ReportKeeps, SaveKeeps DEF Scan
  <2> QED
    BY <2>1, <2>2, <2>3, <2>4, <2>5
<1>2. CASE Publish \/ Upgrade \/ LockAges \/ DeleteCache
  BY <1>2, PublishKeeps, UpgradeKeeps, LockAgesKeeps, DeleteCacheKeeps
<1>3. CASE UNCHANGED cliVars
  <2>1. /\ version' = version /\ UNCHANGED <<upstream, file, meta>> /\ run' = run /\ cacheLock' = cacheLock
    BY <1>3 DEF cliVars, disk
  <2>2. VersionInv' /\ HolderInv' /\ DiskInv'
    BY <2>1, DiskKept DEF CacheInv, VersionInv, HolderInv, Active
  <2> QED
    BY <2>1, <2>2, AroundKept, GentleStep DEF CacheInv
<1> QED
  BY <1>1, <1>2, <1>3 DEF CliNext

\* An excuse is one of three, and is not taken back.
Excuses == excuse \subseteq {"doubled", "deleted", "crossed"}

LEMMA ExcusesStep ==
  ASSUME Excuses, [CliNext]_cliVars
  PROVE  Excuses' /\ (excuse' = {} => excuse = {})
<1> DEFINE Grows == excuse' = excuse \/ \E e \in {"doubled", "deleted", "crossed"} : excuse' = excuse \cup {e}
<1>1. ASSUME NEW r \in Runs, Start(r) \/ Decline(r) \/ Kill(r) \/ Acquire(r) \/ Reclaim(r) \/ ReleaseLock(r) \/ Retry(r)
      PROVE  Grows
  BY <1>1 DEF Start, Decline, Kill, Acquire, Reclaim, ReleaseLock, Retry
<1>2. ASSUME NEW r \in Runs, Sync(r) \/ Scan(r)
      PROVE  Grows
  BY <1>2 DEF Sync, Request, Commit, ItemDone, ItemFails, StampMeta, Scan, ReadMeta, Load, Report, Save
<1>3. Publish \/ Upgrade \/ LockAges \/ DeleteCache \/ UNCHANGED cliVars => Grows
  <2>1. Publish \/ Upgrade \/ LockAges \/ UNCHANGED cliVars => excuse' = excuse
    BY DEF Publish, Upgrade, LockAges, cliVars
  <2>2. DeleteCache => excuse' = excuse \/ excuse' = excuse \cup {"deleted"}
    BY DEF DeleteCache
  <2> QED
    BY <2>1, <2>2
<1> HIDE DEF Grows
<1>4. Grows
  BY <1>1, <1>2, <1>3 DEF CliNext
<1> QED
  BY <1>4 DEF Excuses, Grows

\* The invariant of the behaviours: nothing is said once there is an excuse.
CliInv == Excuses /\ (excuse = {} => CacheInv)

LEMMA CliInvStep ==
  ASSUME ~ExportLags
  PROVE  (CliInit => CliInv) /\ (CliInv /\ [CliNext]_cliVars => CliInv')
<1>1. CliInit => CliInv
  BY CacheInvInit DEF CliInv, Excuses
<1>2. CliInv /\ [CliNext]_cliVars => CliInv'
  BY ExcusesStep, CacheInvStep DEF CliInv
<1> QED
  BY <1>1, <1>2

LEMMA StampsFollow ==
  ASSUME Excused = {"doubled", "deleted", "crossed"}, CliInv
  PROVE  StampsAreTrue
<1> SUFFICES ASSUME Promised, NEW c \in Cells, meta[c] # None
             PROVE  /\ file[c] # None
                    /\ meta[c].at # None => file[c].at >= meta[c].at
                    /\ meta[c].norm = version => file[c].norm = version
  BY DEF StampsAreTrue
<1>1. CacheInv
  BY DEF CliInv, Excuses, Promised
<1>2. Backs(file[c], meta[c]) /\ file[c].norm <= version /\ file[c] \in Rows /\ version \in Nat
  BY <1>1 DEF CacheInv, DiskInv, VersionInv, Versions, Backs
<1> QED
  BY <1>2, RowNumbers DEF Backs

LEMMA AnswersFollow ==
  ASSUME Excused = {"doubled", "deleted", "crossed"}, CliInv
  PROVE  AnswersAreRead
<1> SUFFICES ASSUME Promised, NEW r \in Runs, run[r].pc \in {"report", "savelock"}
             PROVE  /\ \A c \in Answered(r) : run[r].got[c] # None /\ run[r].got[c].norm = run[r].norm
                    /\ \A c \in run[r].tree : run[r].floor[c] > 0 =>
                           c \in Answered(r) /\ run[r].got[c].at >= run[r].floor[c]
  BY DEF AnswersAreRead
<1>1. CacheInv
  BY DEF CliInv, Excuses, Promised
<1>2. FloorInv(r) /\ ReadInv(r)
  BY <1>1 DEF CacheInv, RunInv
<1> QED
  BY <1>2 DEF FloorInv, ReadInv, Reading, Reported, Answered, Seeded, Ours

\* What the meta file says of the rows is true, however runs overlap, fail and are
\* killed between the renames (runSync, writeCacheMeta), when an export is as new as
\* the list of changes.
THEOREM StampsAlwaysTrue ==
  ASSUME ~ExportLags, Excused = {"doubled", "deleted", "crossed"}
  PROVE  CliSpec => []StampsAreTrue
<1>1. CliInit => CliInv
  BY CliInvStep
<1>2. CliInv /\ [CliNext]_cliVars => CliInv'
  BY CliInvStep
<1>3. CliInv => StampsAreTrue
  BY StampsFollow
<1> QED
  BY <1>1, <1>2, <1>3, PTL DEF CliSpec

\* The cells a run answers for it read from rows of its own normalizer, and what it
\* synced it reads (loadEcosystemCache, isSeeded).
THEOREM AnswersAlwaysRead ==
  ASSUME ~ExportLags, Excused = {"doubled", "deleted", "crossed"}
  PROVE  CliSpec => []AnswersAreRead
<1>1. CliInit => CliInv
  BY CliInvStep
<1>2. CliInv /\ [CliNext]_cliVars => CliInv'
  BY CliInvStep
<1>3. CliInv => AnswersAreRead
  BY AnswersFollow
<1> QED
  BY <1>1, <1>2, <1>3, PTL DEF CliSpec

-----------------------------------------------------------------------------
(* The registry cache: nothing here depends on what is promised. *)

\* Every half of every answer carries the number of its fetch.
AnswersInv ==
    /\ Shape /\ fetches \in Nat
    /\ \A h \in {"answer", "count"} : registry[h] \in Nat /\ \A r \in Runs : run[r].mine[h] \in Nat

\* Saving is taking the later half of each.
LEMMA SaveMerges ==
  ASSUME AnswersInv, NEW r \in Runs, Save(r), NEW h \in {"answer", "count"}
  PROVE  registry'[h] \in Nat /\ registry'[h] >= registry[h]
<1>1. registry'[h] = Max({registry[h], run[r].mine[h]})
  BY DEF Save, MergeRow
<1>2. registry[h] \in Nat /\ run[r].mine[h] \in Nat
  BY DEF AnswersInv
<1> QED
  BY <1>1, <1>2, MaxOfTwo

\* A run's own record moves on.
LEMMA MineKept ==
  ASSUME AnswersInv, NEW r \in Runs,
         run' = [run EXCEPT ![r] = run'[r]], Shaped(run'[r]),
         run'[r].mine = run[r].mine \/ run'[r].mine = NoAnswers
  PROVE  Shape' /\ \A s \in Runs, h \in {"answer", "count"} : run'[s].mine[h] \in Nat
<1>1. \A s \in Runs \ {r} : run'[s] = run[s]
  BY DEF AnswersInv, Shape
<1>2. \A h \in {"answer", "count"} : NoAnswers[h] = 0
  BY DEF NoAnswers
<1>3. Shape'
  BY <1>1 DEF AnswersInv, Shape
<1> QED
  BY <1>1, <1>2, <1>3 DEF AnswersInv

\* y is a run's record, and carries the answers of x.
Carries(y, x) == Shaped(y) /\ y.mine = x.mine

\* The edits the steps make to a run's record.
LEMMA Edits ==
  ASSUME NEW x, Shaped(x), NEW pc, NEW todo, NEW mm, NEW pass, NEW failed, NEW floor
  PROVE  /\ Carries([x EXCEPT !.pc = pc], x)
         /\ Carries([x EXCEPT !.pc = pc, !.mm = mm, !.failed = failed], x)
         /\ Carries([x EXCEPT !.pc = pc, !.failed = failed], x)
         /\ Carries([x EXCEPT !.pc = pc, !.todo = todo], x)
         /\ Carries([x EXCEPT !.pc = pc, !.mm = mm], x)
         /\ Carries([x EXCEPT !.pass = pass, !.floor = floor], x)
         /\ Carries([x EXCEPT !.pass = pass, !.mm = mm], x)
         /\ Carries([x EXCEPT !.todo = todo, !.pass = pass, !.mm = mm], x)
         /\ Carries([x EXCEPT !.todo = todo, !.pass = pass, !.failed = failed, !.floor = floor], x)
<1>1. ASSUME NEW y, y = [x EXCEPT !.pc = pc] PROVE Carries(y, x)
  BY <1>1 DEF Shaped, Carries
<1>2. ASSUME NEW y, y = [x EXCEPT !.pc = pc, !.mm = mm, !.failed = failed] PROVE Carries(y, x)
  BY <1>2 DEF Shaped, Carries
<1>3. ASSUME NEW y, y = [x EXCEPT !.pc = pc, !.failed = failed] PROVE Carries(y, x)
  BY <1>3 DEF Shaped, Carries
<1>4. ASSUME NEW y, y = [x EXCEPT !.pc = pc, !.todo = todo] PROVE Carries(y, x)
  BY <1>4 DEF Shaped, Carries
<1>5. ASSUME NEW y, y = [x EXCEPT !.pc = pc, !.mm = mm] PROVE Carries(y, x)
  BY <1>5 DEF Shaped, Carries
<1>6. ASSUME NEW y, y = [x EXCEPT !.pass = pass, !.floor = floor] PROVE Carries(y, x)
  BY <1>6 DEF Shaped, Carries
<1>7. ASSUME NEW y, y = [x EXCEPT !.pass = pass, !.mm = mm] PROVE Carries(y, x)
  BY <1>7 DEF Shaped, Carries
<1>8. ASSUME NEW y, y = [x EXCEPT !.todo = todo, !.pass = pass, !.mm = mm] PROVE Carries(y, x)
  BY <1>8 DEF Shaped, Carries
<1>9. ASSUME NEW y, y = [x EXCEPT !.todo = todo, !.pass = pass, !.failed = failed, !.floor = floor] PROVE Carries(y, x)
  BY <1>9 DEF Shaped, Carries
<1> QED
  BY <1>1, <1>2, <1>3, <1>4, <1>5, <1>6, <1>7, <1>8, <1>9

\* Fetches and answers are as they were, and so is what the runs carry.
SameAnswers == fetches' = fetches /\ registry' = registry /\ Shape' /\ \A s \in Runs, h \in {"answer", "count"} : run'[s].mine[h] \in Nat

LEMMA CarriedOn ==
  ASSUME AnswersInv, NEW r \in Runs, NEW y, run' = [run EXCEPT ![r] = y], Carries(y, run[r]) \/ Carries(y, Gone),
         fetches' = fetches, registry' = registry
  PROVE  SameAnswers
<1>1. run' = [run EXCEPT ![r] = run'[r]] /\ run'[r] = y
  BY DEF AnswersInv, Shape
<1>2. Gone.mine = NoAnswers
  BY DEF Gone
<1> QED
  BY <1>1, <1>2, MineKept DEF SameAnswers, Carries

\* Where a run may go without looking at its answers.
LEMMA MovesCarry ==
  ASSUME AnswersInv, NEW r \in Runs,
         \/ Start(r) \/ Decline(r) \/ Kill(r) \/ Report(r) \/ ReadMeta(r)
         \/ Acquire(r) \/ Reclaim(r) \/ ReleaseLock(r) \/ Retry(r)
  PROVE  SameAnswers
<1>1. fetches' = fetches /\ registry' = registry
  BY DEF Start, Decline, Kill, Report, ReadMeta, Acquire, Reclaim, ReleaseLock, Retry, disk, bounds
<1>2. Shaped(run[r]) /\ run = [s \in Runs |-> run[s]] /\ Carries(Gone, Gone)
  BY DEF AnswersInv, Shape, Carries, Gone, Shaped
<1>3. ASSUME NEW pc, Goes(r, pc) PROVE SameAnswers
  <2>1. run' = [run EXCEPT ![r] = [run[r] EXCEPT !.pc = pc]]
    BY <1>2, <1>3 DEF Goes
  <2> QED
    BY <1>1, <1>2, <2>1, Edits, CarriedOn, Zenon
<1>4. CASE run' = [run EXCEPT ![r] = Gone]
  BY <1>1, <1>2, <1>4, CarriedOn
<1>5. CASE Start(r)
  <2>1. PICK tree \in Trees, offline \in BOOLEAN :
          run' = [run EXCEPT ![r] = [Gone EXCEPT !.pc = IF offline THEN "read" ELSE "lock", !.norm = version, !.tree = tree,
                                                 !.plan = IF offline THEN @ ELSE PlanOf(tree, version),
                                                 !.todo = IF offline THEN <<>> ELSE ItemsOf(tree),
                                                 !.floor = [c \in tree |-> 0]]]
    BY <1>5 DEF Start
  <2> DEFINE pc == IF offline THEN "read" ELSE "lock"
             plan == IF offline THEN Gone.plan ELSE PlanOf(tree, version)
             todo == IF offline THEN <<>> ELSE ItemsOf(tree)
             floor == [c \in tree |-> 0]
             y == [Gone EXCEPT !.pc = pc, !.norm = version, !.tree = tree, !.plan = plan, !.todo = todo, !.floor = floor]
  <2>2. run' = [run EXCEPT ![r] = y]
    BY <2>1
  <2> HIDE DEF pc, plan, todo, floor
  <2>3. ASSUME NEW z, z = y PROVE Carries(z, Gone)
    BY <2>3 DEF Carries, Gone, Shaped
  <2>4. Carries(y, Gone)
    BY <2>3
  <2> HIDE DEF y
  <2> QED
    BY <1>1, <2>2, <2>4, CarriedOn
<1>6. CASE Decline(r) \/ Kill(r) \/ Report(r)
  BY <1>4, <1>6 DEF Decline, Kill, Report
<1>7. CASE ReadMeta(r)
  <2>1. run' = [run EXCEPT ![r] = [run[r] EXCEPT !.pc = "load", !.mm = meta]]
    BY <1>2, <1>7 DEF ReadMeta
  <2> QED
    BY <1>1, <1>2, <2>1, Edits, CarriedOn, Zenon
<1>8. CASE Acquire(r)
  <2>1. CASE run' = [run EXCEPT ![r].pc = IF run[r].pc = "lock" THEN "sync" ELSE "save", ![r].mm = meta, ![r].failed = {}]
    <3> DEFINE pc == IF run[r].pc = "lock" THEN "sync" ELSE "save"
    <3>1. run' = [run EXCEPT ![r] = [run[r] EXCEPT !.pc = pc, !.mm = meta, !.failed = {}]]
      BY <1>2, <2>1
    <3> HIDE DEF pc
    <3> QED
      BY <1>1, <1>2, <3>1, Edits, CarriedOn, Zenon
  <2>2. CASE Goes(r, IF run[r].pc = "lock" THEN "reclaim" ELSE "savereclaim")
    BY <1>3, <2>2
  <2>3. CASE run' = [run EXCEPT ![r] = IF run[r].pc = "lock" THEN [@ EXCEPT !.pc = "read", !.failed = {}] ELSE Gone]
    <3>1. \/ run' = [run EXCEPT ![r] = [run[r] EXCEPT !.pc = "read", !.failed = {}]]
          \/ run' = [run EXCEPT ![r] = Gone]
      BY <1>2, <2>3
    <3> QED
      BY <1>1, <1>2, <1>4, <3>1, Edits, CarriedOn, Zenon
  <2> QED
    BY <1>8, <2>1, <2>2, <2>3 DEF Acquire
<1>9. CASE Reclaim(r)
  BY <1>3, <1>9 DEF Reclaim
<1>10. CASE ReleaseLock(r)
  <2>1. \/ run' = [run EXCEPT ![r] = [run[r] EXCEPT !.pc = IF run[r].failed = {} THEN "read" ELSE "ask"]]
        \/ run' = [run EXCEPT ![r] = Gone]
    BY <1>2, <1>10 DEF ReleaseLock
  <2> DEFINE pc == IF run[r].failed = {} THEN "read" ELSE "ask"
  <2>2. run' = [run EXCEPT ![r] = [run[r] EXCEPT !.pc = pc]] \/ run' = [run EXCEPT ![r] = Gone]
    BY <2>1
  <2> HIDE DEF pc
  <2> QED
    BY <1>1, <1>2, <1>4, <2>2, Edits, CarriedOn, Zenon
<1>11. CASE Retry(r)
  <2>1. CASE run' = [run EXCEPT ![r].pc = "lock", ![r].todo = SetToSeq(run[r].failed)]
    <3>1. run' = [run EXCEPT ![r] = [run[r] EXCEPT !.pc = "lock", !.todo = SetToSeq(run[r].failed)]]
      BY <1>2, <2>1
    <3> QED
      BY <1>1, <1>2, <3>1, Edits, CarriedOn, Zenon
  <2> QED
    BY <1>3, <1>11, <2>1 DEF Retry
<1> QED
  BY <1>5, <1>6, <1>7, <1>8, <1>9, <1>10, <1>11

\* A sync does not touch the registry's answers.
LEMMA SyncCarries ==
  ASSUME AnswersInv, NEW r \in Runs, Sync(r)
  PROVE  SameAnswers
<1>1. fetches' = fetches /\ registry' = registry
  BY DEF Sync, Request, Commit, ItemDone, ItemFails, StampMeta, disk, bounds
<1>2. Shaped(run[r]) /\ run = [s \in Runs |-> run[s]]
  BY DEF AnswersInv, Shape
<1>3. CASE Request(r)
  <2>1. \E pass, floor : run' = [run EXCEPT ![r].pass = pass, ![r].floor = floor]
    BY <1>2, <1>3 DEF Request
  <2>2. PICK pass, floor : run' = [run EXCEPT ![r].pass = pass, ![r].floor = floor]
    BY <2>1
  <2>3. run' = [run EXCEPT ![r] = [run[r] EXCEPT !.pass = pass, !.floor = floor]]
    BY <1>2, <2>2
  <2> QED
    BY <1>1, <1>2, <2>3, Edits, CarriedOn, Zenon
<1>4. CASE Commit(r)
  <2>1. PICK c \in run[r].pass.left :
          run' = [run EXCEPT ![r].pass.left = @ \ {c},
                             ![r].mm[c] = IF run[r].pass.kind = "seed" THEN @ ELSE Stamped(run[r].pass, run[r].norm)]
    BY <1>4 DEF Commit
  <2> DEFINE pass == [run[r].pass EXCEPT !.left = @ \ {c}]
             mm == [run[r].mm EXCEPT ![c] = IF run[r].pass.kind = "seed" THEN @ ELSE Stamped(run[r].pass, run[r].norm)]
  <2>2. run' = [run EXCEPT ![r] = [run[r] EXCEPT !.pass = pass, !.mm = mm]]
    BY <1>2, <2>1
  <2> HIDE DEF pass, mm
  <2> QED
    BY <1>1, <1>2, <2>2, Edits, CarriedOn, Zenon
<1>5. CASE ItemDone(r)
  <2> DEFINE i == Head(run[r].todo)
             mm == [c \in DOMAIN run[r].mm |-> IF c \in i /\ run[r].pass.kind = "seed"
                                               THEN Stamped(run[r].pass, run[r].norm) ELSE run[r].mm[c]]
  <2>1. run' = [run EXCEPT ![r] = [run[r] EXCEPT !.todo = Tail(run[r].todo), !.pass = None, !.mm = mm]]
    BY <1>2, <1>5 DEF ItemDone
  <2> HIDE DEF mm
  <2> QED
    BY <1>1, <1>2, <2>1, Edits, CarriedOn, Zenon
<1>6. CASE ItemFails(r)
  <2> DEFINE i == Head(run[r].todo)
             floor == [c \in DOMAIN run[r].floor |-> IF c \in i THEN 0 ELSE run[r].floor[c]]
  <2>1. run' = [run EXCEPT ![r] = [run[r] EXCEPT !.todo = Tail(run[r].todo), !.pass = None,
                                                 !.failed = run[r].failed \cup {i}, !.floor = floor]]
    BY <1>2, <1>6 DEF ItemFails
  <2> HIDE DEF floor, i
  <2> QED
    BY <1>1, <1>2, <2>1, Edits, CarriedOn, Zenon
<1>7. CASE StampMeta(r)
  <2>1. run' = [run EXCEPT ![r] = [run[r] EXCEPT !.pc = "release"]]
    BY <1>2, <1>7 DEF StampMeta, Goes
  <2> QED
    BY <1>1, <1>2, <2>1, Edits, CarriedOn, Zenon
<1> QED
  BY <1>3, <1>4, <1>5, <1>6, <1>7 DEF Sync

\* A load numbers what it fetched, and carries what it found.
LEMMA LoadCarries ==
  ASSUME AnswersInv, NEW r \in Runs, Load(r)
  PROVE  AnswersInv' /\ registry' = registry
<1>1. PICK half \in SUBSET {"answer", "count"} :
        /\ fetches' = IF half = {} THEN fetches ELSE fetches + 1
        /\ run' = [run EXCEPT ![r].pc = IF half = {} THEN "report" ELSE "savelock",
                              ![r].got = [c \in run[r].tree |-> file[c]],
                              ![r].mine = [h \in {"answer", "count"} |-> IF h \in half THEN fetches + 1 ELSE registry[h]]]
  BY DEF Load
<1> DEFINE pc == IF half = {} THEN "report" ELSE "savelock"
           got == [c \in run[r].tree |-> file[c]]
           mine == [h \in {"answer", "count"} |-> IF h \in half THEN fetches + 1 ELSE registry[h]]
<1>2. registry' = registry /\ fetches' \in Nat /\ Shaped(run[r]) /\ run = [s \in Runs |-> run[s]]
  <2>1. registry' = registry
    BY DEF Load, disk
  <2>2. fetches' \in Nat
    <3>1. fetches' = fetches \/ fetches' = fetches + 1
      BY DEF Load
    <3> QED
      BY <3>1 DEF AnswersInv
  <2>3. Shaped(run[r]) /\ run = [s \in Runs |-> run[s]]
    BY DEF AnswersInv, Shape
  <2> QED
    BY <2>1, <2>2, <2>3
<1>3. /\ run'[r] = [run[r] EXCEPT !.pc = pc, !.got = got, !.mine = mine]
      /\ run' = [run EXCEPT ![r] = run'[r]] /\ \A s \in Runs \ {r} : run'[s] = run[s]
  BY <1>1, <1>2
<1>4. \A h \in {"answer", "count"} : mine[h] \in Nat
  BY DEF AnswersInv
<1> HIDE DEF pc, got, mine
<1>5. ASSUME NEW x, NEW y, Shaped(x), y = [x EXCEPT !.pc = pc, !.got = got, !.mine = mine]
      PROVE  Shaped(y) /\ y.mine = mine
  BY <1>5 DEF Shaped
<1>6. Shaped(run'[r]) /\ run'[r].mine = mine
  BY <1>2, <1>3, <1>5
<1>7. Shape'
  BY <1>2, <1>3, <1>6 DEF Shape, AnswersInv
<1> QED
  BY <1>2, <1>3, <1>4, <1>6, <1>7 DEF AnswersInv

\* No step writes an older answer, and none loses the numbers.
LEMMA AnswersInvStep ==
  ASSUME AnswersInv, [CliNext]_cliVars
  PROVE  /\ AnswersInv'
         /\ \/ registry' = registry \/ registry' = NoAnswers
            \/ \A h \in {"answer", "count"} : registry'[h] >= registry[h]
<1>1. SameAnswers => AnswersInv'
  BY DEF SameAnswers, AnswersInv
<1>2. CASE Publish \/ Upgrade \/ LockAges \/ DeleteCache \/ UNCHANGED cliVars
  <2>1. run' = run /\ fetches' = fetches /\ (registry' = registry \/ registry' = NoAnswers)
    BY <1>2 DEF Publish, Upgrade, LockAges, DeleteCache, disk, bounds, cliVars
  <2>2. \A h \in {"answer", "count"} : registry'[h] \in Nat
    BY <2>1 DEF AnswersInv, NoAnswers
  <2> QED
    BY <2>1, <2>2 DEF AnswersInv, Shape
<1>3. ASSUME NEW r \in Runs, Save(r)
      PROVE  AnswersInv' /\ \A h \in {"answer", "count"} : registry'[h] >= registry[h]
  <2>1. run' = [run EXCEPT ![r] = [run[r] EXCEPT !.pc = "saved"]] /\ fetches' = fetches /\ Shaped(run[r])
    BY <1>3 DEF Save, Goes, bounds, AnswersInv, Shape
  <2> DEFINE y == [run[r] EXCEPT !.pc = "saved"]
  <2>2. Carries(y, run[r])
    BY <2>1, Edits, Zenon
  <2> HIDE DEF y
  <2>3. run'[r] = y /\ run' = [run EXCEPT ![r] = run'[r]]
    BY <2>1 DEF AnswersInv, Shape, y
  <2>4. Shape' /\ \A s \in Runs, h \in {"answer", "count"} : run'[s].mine[h] \in Nat
    BY <2>2, <2>3, MineKept DEF Carries
  <2> QED
    BY <1>3, <2>1, <2>4, SaveMerges DEF AnswersInv
<1>4. CASE \E r \in Runs : \/ Start(r) \/ Decline(r) \/ Kill(r)
                           \/ Acquire(r) \/ Reclaim(r) \/ ReleaseLock(r) \/ Retry(r)
                           \/ Sync(r) \/ Scan(r)
  <2>1. PICK r \in Runs : \/ Start(r) \/ Decline(r) \/ Kill(r) \/ Report(r) \/ ReadMeta(r)
                          \/ Acquire(r) \/ Reclaim(r) \/ ReleaseLock(r) \/ Retry(r)
                          \/ Sync(r) \/ Load(r) \/ Save(r)
    BY <1>4 DEF Scan
  <2>2. CASE \/ Start(r) \/ Decline(r) \/ Kill(r) \/ Report(r) \/ ReadMeta(r)
             \/ Acquire(r) \/ Reclaim(r) \/ ReleaseLock(r) \/ Retry(r)
    <3>1. SameAnswers
      BY <2>2, MovesCarry
    <3> QED
      BY <1>1, <3>1 DEF SameAnswers
  <2>3. CASE Sync(r)
    <3>1. SameAnswers
      BY <2>3, SyncCarries
    <3> QED
      BY <1>1, <3>1 DEF SameAnswers
  <2>4. CASE Load(r)
    BY <2>4, LoadCarries
  <2>5. CASE Save(r)
    BY <2>5, <1>3
  <2> QED
    BY <2>1, <2>2, <2>3, <2>4, <2>5
<1> QED
  BY <1>2, <1>4 DEF CliNext

\* A save never rolls back the half of a row another run fetched later (mergeRow,
\* saveRegistryStores), whatever happened before.
THEOREM RegistryNeverGoesBack == CliSpec => RegistryKeepsNewest
<1>1. CliInit => AnswersInv
  <2> SUFFICES ASSUME CliInit PROVE AnswersInv
    OBVIOUS
  <2>1. Shape /\ \A r \in Runs : run[r].mine = NoAnswers
    BY DEF CliInit, Shape, Shaped, Gone
  <2> QED
    BY <2>1 DEF CliInit, AnswersInv, NoAnswers
<1>2. AnswersInv /\ [CliNext]_cliVars => AnswersInv'
  BY AnswersInvStep
<1>3. AnswersInv /\ [CliNext]_cliVars =>
        [Promised' /\ registry' # NoAnswers => \A h \in {"answer", "count"} : registry'[h] >= registry[h]]_registry
  BY AnswersInvStep
<1> QED
  BY <1>1, <1>2, <1>3, PTL DEF CliSpec, RegistryKeepsNewest
=============================================================================
