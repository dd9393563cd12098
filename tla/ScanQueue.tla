------------------------------ MODULE ScanQueue ------------------------------
(***************************************************************************)
(* The scan_requests table, the processes that write to it, and the life   *)
(* of the worker process that serves it.                                   *)
(*                                                                         *)
(* The portal and the worker share one SQLite file.  better-sqlite3 calls  *)
(* are synchronous, so a stretch of worker code between two awaits is one  *)
(* step; the portal is another process, so its in-flight check and its     *)
(* insert are two.                                                         *)
(*                                                                         *)
(* A worker is modelled by its incarnations 1..MaxBoots: a crashed or      *)
(* stopped process never comes back, the next one boots in its place.      *)
(***************************************************************************)
EXTENDS Naturals, FiniteSets

CONSTANTS
    Requests,        \* ids of scan_requests rows (bounds how many are queued)
    Projects,        \* projects a request can name
    Roots,           \* roots a request can name
    RootOf,          \* the root each project lives under
    Sweep,           \* the scope of a request naming neither
    NoScope,         \* no scope: the row does not exist, or the portal is idle
    MaxBoots,        \* worker incarnations (bounds crashes and restarts)
    MaxRebuilds,     \* advisory-cache rebuilds (bounds how often sweeps are held)
    MayExceedGrace   \* in-flight work may outlast the 30s shutdown grace

ASSUME BootsAssumption == MaxBoots \in Nat \ {0}
ASSUME RebuildsAssumption == MaxRebuilds \in Nat
ASSUME GraceAssumption == MayExceedGrace \in BOOLEAN
ASSUME ScopesAssumption ==
    /\ RootOf \in [Projects -> Roots]
    /\ Projects \cap Roots = {}
    /\ Sweep \notin Projects \cup Roots
    /\ NoScope \notin Projects \cup Roots \cup {Sweep}

Workers == 1..MaxBoots
NoWorker == 0
Scopes == Projects \cup Roots \cup {Sweep}

VARIABLES
    status,      \* status[r]: the row's status, "none" before it is inserted
    scope,       \* scope[r]: what the row asks to scan
    at,          \* at[r]: requestedAt
    now,         \* the newest requestedAt handed out (ties within it are possible)
    fresh,       \* running rows whose heartbeat is younger than SCAN_HEARTBEAT_STALE_MS
    phase,       \* phase[w]: where the worker process is in its life
    lock,        \* the incarnation holding the single-instance lockfile
    tasks,       \* tasks[w]: the requests pollOnce of w has claimed and not settled
    rebuilds,    \* how many rebuilds have started
    rebuilding,  \* runtime.rebuilds.active()
    portal       \* the scope whose in-flight check the portal has just passed

rows == <<status, scope, at, now>>
vars == <<status, scope, at, now, fresh, phase, lock, tasks, rebuilds, rebuilding, portal>>

Statuses == {"none", "pending", "running", "done", "failed"}
Finished == {"done", "failed"}
Phases == {"off", "up", "draining", "released", "gone"}

\* The process exists: its callbacks can still run and its database is open.
Alive(w) == phase[w] \in {"up", "draining", "released"}

Running == {r \in Requests : status[r] = "running"}
Pending == {r \in Requests : status[r] = "pending"}

TypeOK ==
    /\ status \in [Requests -> Statuses]
    /\ scope \in [Requests -> Scopes \cup {NoScope}]
    /\ at \in [Requests -> Nat]
    /\ now \in Nat
    /\ fresh \in SUBSET Requests
    /\ phase \in [Workers -> Phases]
    /\ lock \in Workers \cup {NoWorker}
    /\ tasks \in [Workers -> SUBSET Requests]
    /\ rebuilds \in Nat
    /\ rebuilding \in BOOLEAN
    /\ portal \in Scopes \cup {NoScope}

Init ==
    /\ status = [r \in Requests |-> "none"]
    /\ scope = [r \in Requests |-> NoScope]
    /\ at = [r \in Requests |-> 0]
    /\ now = 0
    /\ fresh = {}
    /\ phase = [w \in Workers |-> "off"]
    /\ lock = NoWorker
    /\ tasks = [w \in Workers |-> {}]
    /\ rebuilds = 0
    /\ rebuilding = FALSE
    /\ portal = NoScope

-----------------------------------------------------------------------------
(* Writing and reading the table. *)

\* INSERT one pending row.  Two rows may share a millisecond.
Enqueue(s) ==
    \E r \in Requests, t \in {now, now + 1} :
        /\ status[r] = "none"
        /\ status' = [status EXCEPT ![r] = "pending"]
        /\ scope' = [scope EXCEPT ![r] = s]
        /\ at' = [at EXCEPT ![r] = t]
        /\ now' = t

\* Rows the portal counts as in flight: waiting, or running with a fresh heartbeat.
InFlight == Pending \cup (Running \cap fresh)

\* A request for c already does what a request for s would.
Covers(c, s) ==
    \/ c = s
    \/ c = Sweep
    \/ s \in Projects /\ c = RootOf[s]

\* isScanInFlightForProject / ForRoot look for a covering row; a full sweep is
\* refused while anything at all is in flight (isAnyScanInFlight).
ScanInFlight(s) ==
    IF s = Sweep THEN InFlight # {}
                 ELSE \E r \in InFlight : Covers(scope[r], s)

SweepPending == \E r \in Pending : scope[r] = Sweep

-----------------------------------------------------------------------------
(* The portal: one check, then one insert, with the worker free to act between. *)

PortalCheck(s) ==
    /\ portal = NoScope
    /\ ~ScanInFlight(s)
    /\ portal' = s
    /\ UNCHANGED <<rows, fresh, phase, lock, tasks, rebuilds, rebuilding>>

PortalInsert ==
    /\ portal # NoScope
    /\ Enqueue(portal)
    /\ portal' = NoScope
    /\ UNCHANGED <<fresh, phase, lock, tasks, rebuilds, rebuilding>>

-----------------------------------------------------------------------------
(* The worker's other writers. *)

\* A cache landed, or boot found stale verdicts: queue a sweep unless one waits.
EnqueueRescan(w) ==
    /\ phase[w] = "up"
    /\ ~SweepPending
    /\ Enqueue(Sweep)
    /\ UNCHANGED <<fresh, phase, lock, tasks, rebuilds, rebuilding, portal>>

\* A lockfile changed: queue its project, or a sweep when no project owns it.
\* The watcher asks nothing about what is already in flight.
WatcherEnqueue(w) ==
    /\ phase[w] = "up"
    /\ \E s \in Projects \cup {Sweep} : Enqueue(s)
    /\ UNCHANGED <<fresh, phase, lock, tasks, rebuilds, rebuilding, portal>>

RebuildStarts(w) ==
    /\ phase[w] = "up"
    /\ ~rebuilding
    /\ rebuilds < MaxRebuilds
    /\ rebuilding' = TRUE
    /\ rebuilds' = rebuilds + 1
    /\ UNCHANGED <<rows, fresh, phase, lock, tasks, portal>>

RebuildSettles ==
    /\ rebuilding
    /\ rebuilding' = FALSE
    /\ UNCHANGED <<rows, fresh, phase, lock, tasks, rebuilds, portal>>

-----------------------------------------------------------------------------
(* The poller. *)

\* Mutant: the hold outlives the rebuild.
Claimable_held(r) == status[r] = "pending" /\ (rebuilds > 0 => scope[r] # Sweep)

\* While a cache rebuilds, full sweeps wait and everything else may be claimed.
Claimable(r) ==
    /\ status[r] = "pending"
    /\ rebuilding => scope[r] # Sweep

\* One tick: claim the oldest claimable row and start its task.  setInterval
\* fires whether or not the previous tick's promise has settled, so nothing
\* here asks for tasks[w] to be empty.
Poll(w) ==
    /\ phase[w] = "up"
    /\ \E r \in Requests :
        /\ Claimable(r)
        /\ \A q \in Requests : Claimable(q) => at[r] <= at[q]
        /\ status' = [status EXCEPT ![r] = "running"]
        /\ fresh' = fresh \cup {r}
        /\ tasks' = [tasks EXCEPT ![w] = @ \cup {r}]
    /\ UNCHANGED <<scope, at, now, phase, lock, rebuilds, rebuilding, portal>>

\* The task ends.  Its UPDATE names only the id: no status guard.
Settle(w, r) ==
    /\ Alive(w)
    /\ r \in tasks[w]
    /\ \E result \in Finished : status' = [status EXCEPT ![r] = result]
    /\ tasks' = [tasks EXCEPT ![w] = @ \ {r}]
    /\ fresh' = fresh \ {r}
    /\ UNCHANGED <<scope, at, now, phase, lock, rebuilds, rebuilding, portal>>

\* The heartbeat's UPDATE is guarded by status = 'running'.
Ping(w, r) ==
    /\ Alive(w)
    /\ r \in tasks[w]
    /\ status[r] = "running"
    /\ r \notin fresh
    /\ fresh' = fresh \cup {r}
    /\ UNCHANGED <<rows, phase, lock, tasks, rebuilds, rebuilding, portal>>

\* A minute passes without a ping: the owner is gone, or its loop was blocked.
HeartbeatLapses(r) ==
    /\ r \in fresh
    /\ fresh' = fresh \ {r}
    /\ UNCHANGED <<rows, phase, lock, tasks, rebuilds, rebuilding, portal>>

-----------------------------------------------------------------------------
(* The worker process. *)

\* Mutants: orphans are forgotten; put back in the queue.
ResetOrphans_none == UNCHANGED <<status, fresh>>
ResetOrphans_requeue ==
    /\ status' = [r \in Requests |-> IF status[r] = "running" THEN "pending" ELSE status[r]]
    /\ fresh' = fresh \ Running

\* Every row still running is failed: whoever ran it is taken to be dead.
ResetOrphans ==
    /\ status' = [r \in Requests |-> IF status[r] = "running" THEN "failed" ELSE status[r]]
    /\ fresh' = fresh \ Running

\* Take the lock, then migrate and reset in one synchronous stretch.
Boot(w) ==
    /\ phase[w] = "off"
    /\ \A v \in Workers : v < w => phase[v] # "off"
    /\ lock = NoWorker
    /\ lock' = w
    /\ phase' = [phase EXCEPT ![w] = "up"]
    /\ ResetOrphans
    /\ rebuilding' = FALSE
    /\ UNCHANGED <<scope, at, now, tasks, rebuilds, portal>>

\* The process dies with the lock in its hands.
Crash(w) ==
    /\ Alive(w)
    /\ w < MaxBoots
    /\ phase' = [phase EXCEPT ![w] = "gone"]
    /\ tasks' = [tasks EXCEPT ![w] = {}]
    /\ UNCHANGED <<rows, fresh, lock, rebuilds, rebuilding, portal>>

\* Nobody refreshes the lockfile of a dead process; after 30s it is stale.
LockGoesStale ==
    /\ lock # NoWorker
    /\ phase[lock] = "gone"
    /\ lock' = NoWorker
    /\ UNCHANGED <<rows, fresh, phase, tasks, rebuilds, rebuilding, portal>>

\* SIGTERM: timers stop, the abort signal is raised, in-flight work goes on.
Shutdown(w) ==
    /\ phase[w] = "up"
    /\ w < MaxBoots
    /\ phase' = [phase EXCEPT ![w] = "draining"]
    /\ UNCHANGED <<rows, fresh, lock, tasks, rebuilds, rebuilding, portal>>

\* Mutant: the lock goes without waiting for the work.
Drained_early(w) == TRUE

\* waitForInFlight resolved: everything settled, or the grace ran out.
Drained(w) == tasks[w] = {} \/ MayExceedGrace

\* Release the lock; a failed release is only logged and leaves it held.
Release(w) ==
    /\ phase[w] = "draining"
    /\ Drained(w)
    /\ phase' = [phase EXCEPT ![w] = "released"]
    /\ lock' \in {NoWorker, lock}
    /\ UNCHANGED <<rows, fresh, tasks, rebuilds, rebuilding, portal>>

\* Close the database and exit, in the turn of the event loop after the release.
Exit(w) ==
    /\ phase[w] = "released"
    /\ phase' = [phase EXCEPT ![w] = "gone"]
    /\ tasks' = [tasks EXCEPT ![w] = {}]
    /\ UNCHANGED <<rows, fresh, lock, rebuilds, rebuilding, portal>>

-----------------------------------------------------------------------------

WorkerStep(w) ==
    \/ Boot(w)
    \/ Crash(w)
    \/ Shutdown(w)
    \/ Release(w)
    \/ Exit(w)
    \/ EnqueueRescan(w)
    \/ WatcherEnqueue(w)
    \/ RebuildStarts(w)
    \/ Poll(w)
    \/ \E r \in Requests : Settle(w, r) \/ Ping(w, r)

Next ==
    \/ \E w \in Workers : WorkerStep(w)
    \/ \E s \in Scopes : PortalCheck(s)
    \/ PortalInsert
    \/ RebuildSettles
    \/ LockGoesStale
    \/ \E r \in Requests : HeartbeatLapses(r)

Spec == Init /\ [][Next]_vars

\* Timers keep firing, every scanner has a timeout, a supervisor restarts the
\* worker, an abandoned lock goes stale and a rebuild ends in success or error.
Fairness ==
    /\ \A w \in Workers : WF_vars(Boot(w)) /\ WF_vars(Poll(w)) /\ WF_vars(Release(w)) /\ WF_vars(Exit(w))
    /\ \A w \in Workers, r \in Requests : WF_vars(Settle(w, r))
    /\ WF_vars(LockGoesStale)
    /\ WF_vars(RebuildSettles)

FairSpec == Spec /\ Fairness

-----------------------------------------------------------------------------
(* Properties. *)

\* Up or draining: the worker believes it holds the lockfile.
Serving(w) == phase[w] \in {"up", "draining"}

\* The inductive strengthening of RunningIsOwned: a serving worker holds the
\* lock, works on exactly the running rows, and shares none with a predecessor
\* that released the lock before its work settled.
LockInv == \A w \in Workers : Serving(w) => lock = w
WorkInv ==
    /\ \A w \in Workers : Serving(w) => tasks[w] = Running
    /\ \A w \in Workers : tasks[w] # {} => Alive(w)
    /\ \A v, w \in Workers : v # w => tasks[v] \cap tasks[w] = {}
    /\ \A w \in Workers : \A r \in tasks[w] : status[r] \notin {"none", "pending"}
QueueInv == LockInv /\ WorkInv

\* The worker that is serving the queue owns exactly the rows marked running:
\* no row is stuck running with nobody behind it, and no task works for a row
\* the portal shows as waiting or finished (claimNextPendingRequest, the
\* unguarded markScanRequestDone/Failed, resetOrphanedRunningRequests).
RunningIsOwned ==
    \A w \in Workers : phase[w] = "up" => tasks[w] = Running

\* A row only moves forward: pending, running, then one final verdict that no
\* late write replaces, although markScanRequestDone and markScanRequestFailed
\* update by id with no guard on the status they overwrite.
StatusOnlyAdvances ==
    [][\A r \in Requests :
         /\ status[r] = "pending" => status'[r] \in {"pending", "running"}
         /\ status[r] = "running" => status'[r] \in {"running", "done", "failed"}
         /\ status[r] \in Finished => status'[r] = status[r]]_vars

\* The boot-time reset fails only rows whose process is really gone: "the
\* single-instance lockfile guarantees no other worker is alive right now"
\* (worker.ts, above the call to resetOrphanedRunningRequests).
ResetOnlyOrphans ==
    [][\A w \in Workers : Boot(w) => \A v \in Workers : Alive(v) => tasks[v] = {}]_vars

\* What enqueueRescan's comment counts on when it queues a sweep behind one in
\* progress: the poller runs one request at a time, "never concurrency".  No run
\* checks it: the poller's interval does not wait (README, section 4).
OneRequestAtATime ==
    \A w \in Workers : \A q, r \in tasks[w] : q = r

\* Every request ends with a verdict, whatever crashes, restarts, held sweeps
\* and later requests come in between.
EveryRequestSettles ==
    \A r \in Requests : status[r] = "pending" ~> status[r] \in Finished
=============================================================================
