--------------------------- MODULE RescanPipeline ---------------------------
(***************************************************************************)
(* From a cache that lands to the verdicts it makes obsolete.              *)
(*                                                                         *)
(* A scan made while a cache is unusable records "not downloaded yet" for  *)
(* the cell, and nothing else revisits that row: whoever sees the cache    *)
(* become usable queues a full sweep.  The source runtimes start and stop  *)
(* with the operator's switches, told by signals; their syncs run in       *)
(* loops over the ecosystems, are shared by whoever needs the same cache,  *)
(* outlive their runtime, fail, throw, or die with the process.            *)
(*                                                                         *)
(* One project stands for all: projects share only the sweeps.  Whether a  *)
(* cache's contents are right is OsvSync's and GemnasiumSync's subject.    *)
(***************************************************************************)
EXTENDS Naturals, Sequences, SequencesExt

CONSTANTS
    Registry,     \* the ecosystems, in registry order
    Handles,      \* database handles on osv.db
    Loops,        \* runSync calls that may be under way at once
    Batches,      \* scan batches that may be under way at once
    None,
    Setups,       \* the sets of cells that may be on at first
    MaxFaults,    \* crashes, failures, throws and over-long change sets, together
    MaxTriggers,  \* cron ticks, scheduled sweeps and requests for a project
    MaxEdits      \* switches thrown in the portal

Ecosystems == ToSet(Registry)
Sources == {"osv", "gemnasium"}
Cells == Sources \X Ecosystems
\* What an action of the portal has yet to do.
Edits == [cell : Cells, on : BOOLEAN, ask : BOOLEAN, step : 1..4]

ASSUME RegistryAssumption == IsInjective(Registry) /\ Len(Registry) > 0
ASSUME SetupsAssumption == Setups \subseteq SUBSET Cells
ASSUME NamesAssumption ==
    /\ None \notin Handles \cup Ecosystems \cup Edits /\ "gemnasium" \notin Ecosystems
    /\ Loops \cap Batches = {} /\ "background" \notin Loops \cup Batches
ASSUME BoundsAssumption == MaxFaults \in Nat /\ MaxTriggers \in Nat /\ MaxEdits \in Nat

Caches == Ecosystems \cup {"gemnasium"}
Walkers == Loops \cup Batches

VARIABLES
    enabled, edit, edits,       \* the portal: cell switches, the action under way
    signals,                    \* worker_signals not yet claimed
    pending,                    \* a full sweep waits in scan_requests
    verdict, newest,            \* each cell's latest scan; each source's newest one
    usable,                     \* the caches a scanner accepts
    up, aborted, tick,          \* the worker process, its abort signal, its poller
    osv, gemnasium,             \* the handle of the OSV runtime; is gemnasium's up
    flight,                     \* flight[h][e]: the sync of e running on handle h
    walk,                       \* walk[w]: a sync loop, or a batch
    gemSync,
    faults, triggers,
    asked, outrun, excused,     \* history: see the properties
    threw                       \* history: the sources whose runtime threw when it last started

portal == <<enabled, edit, edits>>
verdicts == <<verdict, newest>>
worker == <<up, aborted, tick>>
runtimes == <<osv, gemnasium>>
bounds == <<faults, triggers>>
syncs == <<flight, walk, gemSync>>
history == <<asked, outrun, excused, threw>>
vars == <<portal, signals, pending, verdicts, usable, worker, runtimes, syncs, bounds, history>>

\* before: was the cache usable when the sync began; owner: who started it.
Flights == [before : BOOLEAN, discarded : BOOLEAN, owner : Walkers \cup {"background"}]
\* A loop and a batch's evidence refresh both visit ecosystems one by one.
Idle == [step |-> "idle", handle |-> None, todo |-> {}, at |-> None, became |-> FALSE, sources |-> {}]
Walks == [step : {"idle", "visit", "scan"}, handle : Handles \cup {None}, todo : SUBSET Ecosystems,
          at : Ecosystems \cup {None}, became : BOOLEAN, sources : SUBSET Sources]

TypeOK ==
    /\ enabled \subseteq Cells /\ edits \in 0..MaxEdits
    /\ edit \in Edits \cup {None}
    /\ signals \subseteq {"reload-sources", "refresh-osv"} /\ pending \in BOOLEAN
    /\ verdict \in [Cells -> {"none", "ok", "not_seeded"}]
    /\ newest \in [Sources -> Ecosystems \cup {None}]
    /\ usable \subseteq Caches
    /\ up \in BOOLEAN /\ aborted \in BOOLEAN /\ tick \in {"drain", "refresh", "claim"}
    /\ osv \in Handles \cup {None} /\ gemnasium \in BOOLEAN
    /\ flight \in [Handles -> [Ecosystems -> Flights \cup {None}]]
    /\ walk \in [Walkers -> Walks]
    /\ gemSync \in {"idle", "refresh", "rebuild"}
    /\ faults \in 0..MaxFaults /\ triggers \in 0..MaxTriggers
    /\ asked \subseteq Cells /\ outrun \subseteq Cells /\ excused \subseteq Cells
    /\ threw \subseteq Sources

-----------------------------------------------------------------------------
(* What the switches ask for and what a scan would say. *)

Enabled(s) == {e \in Ecosystems : <<s, e>> \in enabled}

\* syncedOsvEcosystems.
Synced == UNION {Enabled(s) : s \in Sources}

\* osvCacheNeeded, gemnasiumSourceEnabled: the runtimes that should be up.
Wanted(s) == IF s = "osv" THEN Synced # {} ELSE Enabled("gemnasium") # {}

\* Ecosystems are taken in registry order.
Place(e) == CHOOSE i \in DOMAIN Registry : Registry[i] = e
IsFirst(e, es) == e \in es /\ \A x \in es : Place(e) <= Place(x)
IsLast(e, es) == e \in es /\ \A x \in es : Place(x) <= Place(e)

EvidenceReady(e) == osv # None /\ e \in usable

\* The scanners' verdict on a cell, given by a runtime that is up.
Verdict(cell) ==
    LET ready == IF cell[1] = "osv" THEN cell[2] \in usable
                 ELSE "gemnasium" \in usable /\ EvidenceReady(cell[2])
    IN  IF ready THEN "ok" ELSE "not_seeded"

Running(s) == IF s = "osv" THEN osv # None ELSE gemnasium
Readable(cell) == Running(cell[1]) /\ Verdict(cell) = "ok"
Stale(cell) == cell \in enabled /\ verdict[cell] = "not_seeded" /\ Readable(cell)

\* hasStaleSourceUnavailableScans: the project's newest scan by the source.
HasStale(s) == newest[s] # None /\ verdict[<<s, newest[s]>>] = "not_seeded"

Init ==
    /\ enabled \in Setups /\ edit = None /\ edits = 0
    /\ signals = {} /\ pending = FALSE
    /\ verdict = [c \in Cells |-> "none"] /\ newest = [s \in Sources |-> None]
    /\ usable = {}
    /\ up = FALSE /\ aborted = FALSE /\ tick = "drain"
    /\ osv = None /\ gemnasium = FALSE
    /\ flight = [h \in Handles |-> [e \in Ecosystems |-> None]]
    /\ walk = [w \in Walkers |-> Idle]
    /\ gemSync = "idle"
    /\ faults = 0 /\ triggers = 0
    /\ asked = {} /\ outrun = {} /\ excused = {} /\ threw = {}

Fault == faults < MaxFaults /\ faults' = faults + 1
\* A walk goes on as soon as what it awaited has settled, and a tick of the poller
\* drains and claims in one go: no other task of the worker comes in between.
GoesOn(w) == walk[w].step = "visit" /\ walk[w].at = None
ThreadIsFree == up /\ tick = "drain" /\ \A w \in Walkers : ~GoesOn(w)

Trigger == triggers < MaxTriggers /\ triggers' = triggers + 1

\* The cells in done are scanned.  Whatever else is owed a scan by now is owed it by
\* nobody, unless a sweep waits.
Forgets(done) ==
    /\ asked' = asked \ done
    /\ outrun' = (outrun \ done) \cup {c \in asked' : ~pending' /\ Readable(c)'}
    /\ excused' = (excused \ done) \cup {c \in Cells : ~pending' /\ Stale(c)'}

-----------------------------------------------------------------------------
(* Source runtimes. *)

FreeHandles == {h \in Handles : /\ \A e \in Ecosystems : flight[h][e] = None
                                /\ \A w \in Walkers : walk[w].handle # h}

\* runSync is called: its ecosystems are read once, now.
StartsLoop(l, h) ==
    walk' = [walk EXCEPT ![l] = [Idle EXCEPT !.step = "visit", !.handle = h, !.todo = Synced]]

\* startOsvRuntime, up to its first await.
StartOsv ==
    /\ osv' \in FreeHandles
    /\ \E l \in Loops : walk[l].step = "idle" /\ StartsLoop(l, osv')

StartGemnasium ==
    /\ gemnasium' = TRUE
    /\ gemSync' = IF gemSync = "idle"
                  THEN IF "gemnasium" \in usable THEN "refresh" ELSE "rebuild"
                  ELSE gemSync

\* Mutant: a runtime that starts does not look for verdicts left behind.
Reconciles_no(s, starts) == FALSE

\* reconcileStaleVerdicts of a runtime that starts.
Reconciles(s, starts) ==
    /\ starts
    /\ IF s = "osv" THEN /\ Synced \cap usable # {}
                         /\ \E t \in Sources : HasStale(t)
       ELSE /\ "gemnasium" \in usable
            /\ \E e \in Enabled("gemnasium") : osv' # None /\ e \in usable
            /\ HasStale("gemnasium")

\* The syncToConfig of some controllers, OSV first: a runtime that should be up is
\* started, or throws and stays down; one that should not be is stopped.
SyncToConfig(controllers) ==
    LET down == {s \in controllers : ~Running(s) /\ Wanted(s)}
        stops(s) == s \in controllers /\ ~Wanted(s)
    IN  \E throws \in SUBSET down :
          /\ IF throws = {} THEN UNCHANGED faults ELSE Fault
          /\ threw' = (threw \ controllers) \cup throws
          /\ IF "osv" \in down \ throws THEN StartOsv
             ELSE osv' = (IF stops("osv") THEN None ELSE osv) /\ UNCHANGED walk
          /\ IF "gemnasium" \in down \ throws THEN StartGemnasium
             ELSE gemnasium' = (gemnasium /\ ~stops("gemnasium")) /\ UNCHANGED gemSync
          /\ pending' = (pending \/ \E s \in Sources : Reconciles(s, s \in down \ throws))
          /\ IF pending' THEN UNCHANGED <<outrun, excused>>
             ELSE /\ outrun' = outrun \cup {c \in asked : Readable(c)' /\ ~Readable(c)}
                  /\ excused' = excused \cup {c \in Cells : Stale(c)' /\ ~Stale(c) /\ newest[c[1]] # c[2]}

-----------------------------------------------------------------------------
(* Sync loops and evidence refreshes. *)

\* The cron, or "refresh now" from the settings page.
CronSync ==
    /\ ThreadIsFree /\ ~aborted /\ Trigger
    /\ \/ /\ osv # None
          /\ \E l \in Loops : walk[l].step = "idle" /\ StartsLoop(l, osv)
          /\ UNCHANGED gemSync
       \/ /\ gemnasium /\ gemSync = "idle"
          /\ gemSync' = IF "gemnasium" \in usable THEN "refresh" ELSE "rebuild"
          /\ UNCHANGED walk
    /\ UNCHANGED <<portal, signals, pending, verdicts, usable, worker, runtimes, flight, faults, history>>

\* syncOnce: join the sync running on this handle or start one.  A batch never
\* waits for an unusable cache; the seed it started reports for itself.
Visit(w) ==
    LET h == walk[w].handle
        waits(e) == w \in Loops \/ e \in usable
        started(e) == [before |-> e \in usable, discarded |-> FALSE,
                       owner |-> IF waits(e) THEN w ELSE "background"]
    IN  /\ up /\ ~aborted
        /\ GoesOn(w)
        /\ \E e \in walk[w].todo :
            /\ IsFirst(e, walk[w].todo)
            /\ flight' = IF flight[h][e] # None THEN flight ELSE [flight EXCEPT ![h][e] = started(e)]
            /\ walk' = [walk EXCEPT ![w].todo = @ \ {e}, ![w].at = IF waits(e) THEN e ELSE None]
        /\ UNCHANGED <<portal, signals, pending, verdicts, usable, worker, runtimes, gemSync, bounds, history>>

\* What a walk has to report when it is over.
Reports(w) == walk[w].became

\* The walk is over, or cut short by the abort: one re-scan for all it saw.
EndWalk(w) ==
    /\ up /\ GoesOn(w)
    /\ walk[w].todo = {} \/ aborted
    /\ pending' = (pending \/ Reports(w))
    /\ walk' = [walk EXCEPT ![w] =
                  IF w \in Loops THEN Idle
                  ELSE [Idle EXCEPT !.step = "scan", !.sources = {s \in Sources : Running(s) /\ Enabled(s) # {}}]]
    /\ UNCHANGED <<portal, signals, verdicts, usable, worker, runtimes, flight, gemSync, bounds, history>>

\* Or it throws, as a read of the switches or the queueing of its re-scan may.  So
\* may a batch at any time, which fails its request, and nobody asks again; what it
\* scanned until then stays (see Scan).
WalkThrows(w) ==
    /\ up /\ GoesOn(w)
    /\ Fault
    /\ walk' = [walk EXCEPT ![w] = Idle]
    /\ UNCHANGED <<portal, signals, pending, verdicts, usable, worker, runtimes, flight, gemSync, threw, triggers>>
    /\ IF w \in Batches \/ Reports(w) THEN Forgets({}) ELSE UNCHANGED <<asked, outrun, excused>>

\* The first batch of an export: the ecosystem's rows go.  An incremental pass
\* comes here only when its change set is past the limit.
Discard(h, e) ==
    /\ ThreadIsFree /\ flight[h][e] # None /\ ~flight[h][e].discarded
    /\ IF flight[h][e].before THEN Fault ELSE UNCHANGED faults
    /\ flight' = [flight EXCEPT ![h][e].discarded = TRUE]
    /\ usable' = usable \ {e}
    /\ UNCHANGED <<portal, signals, pending, verdicts, worker, runtimes, walk, gemSync, history, triggers>>

\* What syncEcosystem returns.
Became(f, e) == (~f.before \/ f.discarded) /\ e \in usable'

\* A settled sync is gone from the map; its owner, and nobody who joined, hears
\* that the cache became usable.
Settles(h, e) ==
    LET became == Became(flight[h][e], e)
        owner == flight[h][e].owner
    IN  /\ flight' = [flight EXCEPT ![h][e] = None]
        /\ walk' = [w \in Walkers |->
                      IF walk[w].handle = h /\ walk[w].at = e
                      THEN [walk[w] EXCEPT !.at = None, !.became = @ \/ (became /\ owner = w)]
                      ELSE walk[w]]
        /\ pending' = (pending \/ (became /\ owner = "background"))

\* Seeded, or nothing more to apply.
Land(h, e) ==
    /\ ThreadIsFree /\ flight[h][e] # None
    /\ flight[h][e].before \/ flight[h][e].discarded
    /\ usable' = IF flight[h][e].discarded THEN usable \cup {e} ELSE usable
    /\ Settles(h, e)
    /\ UNCHANGED <<portal, signals, verdicts, worker, runtimes, gemSync, bounds, history>>

\* The sync records its error, an abort's included, and returns.
Fail(h, e) ==
    /\ ThreadIsFree /\ flight[h][e] # None
    /\ IF aborted THEN UNCHANGED faults ELSE Fault
    /\ UNCHANGED usable
    /\ Settles(h, e)
    /\ UNCHANGED <<portal, signals, verdicts, worker, runtimes, gemSync, history, triggers>>

\* It throws instead, in a write of its meta or its status.  A loop that waits
\* for it ends there; a batch goes on.  A loop that had something to report, or
\* a sync that had, is a re-scan lost.
Throw(h, e) ==
    LET dying == {l \in Loops : walk[l].handle = h /\ walk[l].at = e}
        lost == Became(flight[h][e], e) \/ \E l \in dying : walk[l].became
    IN  /\ ThreadIsFree /\ flight[h][e] # None
        /\ Fault
        /\ \/ UNCHANGED usable
           \/ flight[h][e].discarded /\ usable' = usable \cup {e}
        /\ flight' = [flight EXCEPT ![h][e] = None]
        /\ walk' = [w \in Walkers |-> IF w \in dying THEN Idle
                                      ELSE IF walk[w].handle = h /\ walk[w].at = e
                                      THEN [walk[w] EXCEPT !.at = None] ELSE walk[w]]
        /\ UNCHANGED <<portal, signals, pending, verdicts, worker, runtimes, gemSync, threw, triggers>>
        /\ IF lost THEN Forgets({}) ELSE UNCHANGED <<asked, outrun, excused>>

\* gemnasium's runSync: a rebuild never takes a usable cache away.
GemnasiumSettles ==
    /\ ThreadIsFree /\ gemSync # "idle"
    /\ gemSync' = "idle"
    /\ \/ usable' = usable \cup {"gemnasium"} /\ UNCHANGED faults
       \/ UNCHANGED usable /\ IF aborted THEN UNCHANGED faults ELSE Fault
    /\ pending' = (pending \/ (gemSync = "rebuild" /\ "gemnasium" \in usable'))
    /\ UNCHANGED <<portal, signals, verdicts, worker, runtimes, flight, walk, history, triggers>>

\* Or it throws, in a stamp, in the status written when it has ended, or in the queueing
\* of its re-scan: the cache may have become usable, and the re-scan is lost.
GemnasiumThrows ==
    /\ ThreadIsFree /\ gemSync # "idle"
    /\ Fault
    /\ gemSync' = "idle"
    /\ usable' \in {usable, usable \cup {"gemnasium"}}
    /\ UNCHANGED <<portal, signals, pending, verdicts, worker, runtimes, flight, walk, threw, triggers>>
    /\ IF "gemnasium" \in usable' \ usable THEN Forgets({}) ELSE UNCHANGED <<asked, outrun, excused>>

-----------------------------------------------------------------------------
(* Sweeps. *)

\* Mutant: the hold looks at the caches, not at the syncs that rebuild them.
Held_anyUnusable == Caches \ usable # {}

\* runtime.rebuilds.active: a sync is under way whose cache is unusable.
Held ==
    \/ \E h \in Handles, e \in Ecosystems : flight[h][e] # None /\ e \notin usable
    \/ gemSync # "idle" /\ "gemnasium" \notin usable

\* scannersForBatch: the evidence of gemnasium's ecosystems is refreshed first.
StartsBatch(b) ==
    /\ walk[b].step = "idle"
    /\ walk' = [walk EXCEPT ![b] =
                  [Idle EXCEPT !.step = "visit", !.handle = osv,
                               !.todo = IF osv = None THEN {} ELSE Enabled("gemnasium")]]

CanClaim == pending /\ ~Held /\ \E b \in Batches : walk[b].step = "idle"

EmptyTick == ThreadIsFree /\ signals = {} /\ ~CanClaim /\ UNCHANGED vars

\* A tick of the poller first drains the signals, all at once ...
Drain ==
    /\ ThreadIsFree /\ ~aborted
    /\ signals # {} \/ CanClaim
    /\ "refresh-osv" \in signals => \E l \in Loops : walk[l].step = "idle"
    /\ tick' = IF "refresh-osv" \in signals THEN "refresh" ELSE "claim"
    /\ signals' = {}
    /\ UNCHANGED <<portal, verdicts, usable, up, aborted, flight, asked, triggers>>
    /\ IF "reload-sources" \in signals THEN SyncToConfig(Sources)
       ELSE UNCHANGED <<pending, runtimes, walk, gemSync, faults, outrun, excused, threw>>

\* ... of which refresh-osv starts the OSV runtime if it is not up, or a loop on it if
\* it is.  On one that reload-sources just started, it would join the same syncs.
Refresh ==
    /\ up /\ ~aborted /\ tick = "refresh"
    /\ tick' = "claim"
    /\ UNCHANGED <<portal, signals, verdicts, usable, up, aborted, flight, asked, triggers>>
    /\ IF osv = None THEN SyncToConfig({"osv"})
       ELSE /\ \/ \E l \in Loops : walk[l].step = "idle" /\ StartsLoop(l, osv)
               \/ (\A l \in Loops : walk[l].step # "idle") /\ UNCHANGED walk
            /\ UNCHANGED <<pending, runtimes, gemSync, faults, outrun, excused, threw>>

\* Then it claims: a waiting full sweep, unless caches are rebuilding.  The
\* portal may write between the two.
Claim ==
    /\ up /\ ~aborted /\ tick = "claim" /\ \A w \in Walkers : ~GoesOn(w)
    /\ tick' = "drain"
    /\ \/ /\ CanClaim
          /\ pending' = FALSE
          /\ \E b \in Batches : StartsBatch(b)
       \/ /\ ~CanClaim
          /\ UNCHANGED <<pending, walk>>
    /\ UNCHANGED <<portal, signals, verdicts, usable, up, aborted, runtimes, flight, gemSync, bounds, history>>

\* The sweep of the cron, or of a boot that finds it overdue, or a request for the project alone: never held.
OtherScan ==
    /\ ThreadIsFree /\ ~aborted /\ Trigger
    /\ \E b \in Batches : StartsBatch(b)
    /\ UNCHANGED <<portal, signals, pending, verdicts, usable, worker, runtimes, flight, gemSync, faults, history>>

\* The order of a project's scans: each scanner of the batch, each runnable cell.
Before(c, d) == (c[1] = "osv" /\ d[1] = "gemnasium") \/ (c[1] = d[1] /\ Place(c[2]) < Place(d[2]))
PartsOf(cells) == {done \in SUBSET cells : \A c \in done, d \in cells : Before(d, c) => d \in done}

\* runProjectScanners.  An abort stops it; if it throws, the request has failed with a
\* part of the cells scanned.
Scan(b) ==
    LET cells == {c \in enabled : c[1] \in walk[b].sources}
        last(s, done) == {e \in Ecosystems : IsLast(e, {x \in Ecosystems : <<s, x>> \in done})}
    IN  /\ ThreadIsFree /\ walk[b].step = "scan"
        /\ walk' = [walk EXCEPT ![b] = Idle]
        /\ UNCHANGED <<portal, signals, pending, usable, worker, runtimes, flight, gemSync, threw, triggers>>
        /\ IF aborted THEN UNCHANGED <<verdicts, faults, asked, outrun, excused>>
           ELSE \E done \in PartsOf(cells) :
             /\ verdict' = [c \in Cells |-> IF c \in done THEN Verdict(c) ELSE verdict[c]]
             /\ newest' = [s \in Sources |-> IF last(s, done) # {} THEN CHOOSE e \in last(s, done) : TRUE
                                             ELSE newest[s]]
             /\ IF done = cells
                THEN /\ asked' = asked \ done /\ outrun' = outrun \ done /\ excused' = excused \ done
                     /\ UNCHANGED faults
                ELSE Fault /\ Forgets(done)

-----------------------------------------------------------------------------
(* The portal: each statement of an action is a write of its own. *)

\* writeSourceCell's write.  Turning on from the project's page also asks for a scan.
Switch ==
    /\ edit = None /\ edits < MaxEdits
    /\ edits' = edits + 1
    /\ \E c \in Cells, ask \in BOOLEAN :
        /\ ask => c \notin enabled
        /\ enabled' = IF c \in enabled THEN enabled \ {c} ELSE enabled \cup {c}
        /\ edit' = [cell |-> c, on |-> c \notin enabled, ask |-> ask, step |-> 1]
        /\ asked' = asked \ {c}
        /\ outrun' = outrun \ {c}
        /\ excused' = IF c \in enabled \/ ask THEN excused \ {c} ELSE excused \cup {c}
    /\ UNCHANGED <<signals, pending, verdicts, usable, worker, runtimes, syncs, bounds, threw>>

Signal ==
    /\ edit # None /\ edit.step \in {1, 2}
    /\ IF edit.step = 1
       THEN /\ signals' = signals \cup {"reload-sources"}
            /\ edit' = IF edit.ask THEN [edit EXCEPT !.step = IF edit.cell[1] = "osv" THEN 2 ELSE 3] ELSE None
       ELSE signals' = signals \cup {"refresh-osv"} /\ edit' = [edit EXCEPT !.step = 3]
    /\ UNCHANGED <<enabled, edits, pending, verdicts, usable, worker, runtimes, syncs, bounds, history>>

\* Mutant: a sweep that was claimed will do as well.
SweepWillDo_claimed == pending \/ \E b \in Batches : walk[b].step # "idle"

\* enqueueFullSweepUnlessPending: one that waits will do.
SweepWillDo == pending

\* It looks, and queues one unless there is.
AskForScan ==
    /\ edit # None /\ edit.step \in {3, 4}
    /\ IF edit.step = 3 /\ ~SweepWillDo
       THEN edit' = [edit EXCEPT !.step = 4] /\ UNCHANGED <<pending, asked>>
       ELSE /\ edit' = None
            /\ pending' = (pending \/ edit.step = 4)
            /\ asked' = asked \cup {edit.cell}
    /\ UNCHANGED <<enabled, edits, signals, verdicts, usable, worker, runtimes, syncs, bounds, outrun, excused, threw>>

-----------------------------------------------------------------------------
(* The process. *)

\* main: the controllers follow the configuration before the poller's first tick.
Boot ==
    /\ ~up
    /\ up' = TRUE /\ aborted' = FALSE /\ tick' = "drain"
    /\ UNCHANGED <<portal, signals, verdicts, usable, flight, asked, triggers>>
    /\ SyncToConfig(Sources)

\* SIGTERM: timers stop, syncs and batches are told to end.
Shutdown ==
    /\ ThreadIsFree /\ ~aborted
    /\ Fault
    /\ aborted' = TRUE
    /\ osv' = None /\ gemnasium' = FALSE
    /\ UNCHANGED <<portal, signals, pending, verdicts, usable, up, tick, syncs, history, triggers>>

\* What was done in memory is gone, signals claimed and sweeps claimed with it: the
\* next boot sets a running request to failed, and sweeps only if that is overdue.
Gone ==
    /\ up' = FALSE /\ aborted' = FALSE /\ tick' = "drain"
    /\ osv' = None /\ gemnasium' = FALSE
    /\ flight' = [h \in Handles |-> [e \in Ecosystems |-> None]]
    /\ walk' = [w \in Walkers |-> Idle]
    /\ gemSync' = "idle"
    /\ UNCHANGED <<portal, pending, verdicts, history, triggers>>

Exit == up /\ aborted /\ Gone /\ UNCHANGED <<signals, usable, faults>>

\* Signals may have been claimed and not handled; the next image may have newer
\* normalizers, which makes caches unusable.
Crash ==
    /\ up /\ Fault /\ Gone
    /\ signals' \in {signals, {}}
    /\ usable' \in SUBSET usable

-----------------------------------------------------------------------------

FlightStep == \E h \in Handles, e \in Ecosystems : Discard(h, e) \/ Land(h, e)
WalkStep(w) == Visit(w) \/ EndWalk(w)
PortalStep == Signal \/ AskForScan

Next ==
    \/ Switch \/ PortalStep
    \/ Boot \/ Shutdown \/ Exit \/ Crash
    \/ CronSync \/ FlightStep \/ GemnasiumSettles \/ GemnasiumThrows
    \/ \E h \in Handles, e \in Ecosystems : Fail(h, e) \/ Throw(h, e)
    \/ \E w \in Walkers : WalkStep(w) \/ WalkThrows(w)
    \/ EmptyTick \/ Drain \/ Refresh \/ Claim \/ OtherScan
    \/ \E b \in Batches : Scan(b)

Spec == Init /\ [][Next]_vars

\* The portal finishes what it began, a supervisor restarts the worker, the
\* poller ticks, syncs end (each request has a timeout), and so do batches.
\* Nothing is assumed of the cron, whose interval may be days.
Fairness ==
    /\ WF_vars(PortalStep) /\ WF_vars(Boot) /\ WF_vars(Exit)
    /\ WF_vars(Drain) /\ WF_vars(Refresh) /\ WF_vars(Claim)
    /\ \A h \in Handles, e \in Ecosystems : WF_vars(Discard(h, e)) /\ WF_vars(Land(h, e))
    /\ WF_vars(GemnasiumSettles)
    /\ \A w \in Walkers : WF_vars(WalkStep(w))
    /\ \A b \in Batches : WF_vars(Scan(b))

FairSpec == Spec /\ Fairness

-----------------------------------------------------------------------------
(* Properties. *)

\* Nothing is under way that could still make up for a stale verdict.
Quiet ==
    /\ up /\ ~aborted /\ ~pending /\ signals = {} /\ edit = None
    /\ gemSync = "idle"
    /\ \A h \in Handles, e \in Ecosystems : flight[h][e] = None
    /\ \A w \in Walkers : walk[w] = Idle

\* "Nothing else in the system ever revisits those rows" (runSync): when all is
\* quiet, no cell that could be answered still says its cache is not there,
\* whichever of boot, cron, refresh or a batch made the cache usable and however
\* the process came and went.  Excused: what was stale when a sync or a loop threw
\* that had a re-scan to queue, or a batch failed, with no sweep waiting; a cell
\* switched on without asking for a scan; and a verdict that a runtime, when it
\* starts, finds hidden by another ecosystem's.
StaleIsReplaced == Quiet => \A c \in Cells : Stale(c) => c \in excused

\* Without exception, this is false (README).
StaleIsAlwaysReplaced == Quiet => \A c \in Cells : ~Stale(c)

\* "It already scans with the cell on" (turnOnSourceForEcosystemAction): a
\* language turned on from its project is scanned as soon as its cache can be
\* read.  Outrun, with no sweep waiting: a runtime that starts finds the cache readable
\* after the sweep was claimed too early, its signal not drained yet or the start before
\* having thrown, or after the worker had died or been stopped with the sweep claimed; a
\* batch failed; or the sync or the loop threw that had the re-scan to queue.
TurnedOnIsScanned == Quiet => \A c \in asked \ outrun : Running(c[1]) => Verdict(c) = "not_seeded"

\* Without exception, this is false (README).
TurnedOnIsAlwaysScanned == Quiet => \A c \in asked : Running(c[1]) => Verdict(c) = "not_seeded"

\* The runtimes are those the switches ask for, but for one whose last start threw:
\* nobody tries again before the next reload-sources, or the next boot.
RuntimesFollow == \A s \in Sources : IF s \in threw THEN ~Running(s) ELSE Running(s) = Wanted(s)

\* Without exception, this is false (README).
RuntimesAlwaysFollow == Quiet => \A s \in Sources : Running(s) = Wanted(s)

\* No hold is for ever, no re-scan waits for another, no loop for a sync that is
\* gone: once nobody sets anything off, all that was set off ends, the sweep that
\* replaces stale verdicts included.  The runtimes then follow the switches, with
\* signals lost in a crash ("the next boot or the next signal naturally
\* reconciles", claimPendingSignals), but for a start that threw.
ComesToRest == <>[](Quiet /\ RuntimesFollow)
=============================================================================
