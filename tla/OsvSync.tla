------------------------------- MODULE OsvSync -------------------------------
(***************************************************************************)
(* One ecosystem's OSV cache (osv.db) and the syncs that write to it.      *)
(*                                                                         *)
(* Upstream publishes three things: advisory documents, a list of changed  *)
(* ids (modified_id.csv, with an ETag) and a full export (all.zip) that is *)
(* cut now and then.  The worker rebuilds the cache from the export (seed) *)
(* or re-reads the changed documents one by one (incremental pass).        *)
(*                                                                         *)
(* A sync is single-flight per database handle.  Switching the source off  *)
(* drops the handle but not the sync it runs; switching it on again opens  *)
(* another handle on the same file.                                        *)
(***************************************************************************)
EXTENDS Naturals, FiniteSets

CONSTANTS
    Advisories,
    MaxTime,            \* how often upstream changes
    Handles,            \* database handles a worker may have open at once
    NoHandle,           \* the source is off, or the worker is down
    Hidden,             \* what a reader of an unusable cache sees
    IdLimits,           \* values of OSV_INCREMENTAL_MAX_IDS to consider
    MaxFaults,          \* crashes, failed fetches and switch-offs, together
    MaxBuild            \* normalizer versions shipped

ASSUME TimeAssumption == MaxTime \in Nat \ {0}
ASSUME BoundsAssumption == IdLimits \subseteq Nat /\ MaxFaults \in Nat /\ MaxBuild \in Nat \ {0}
ASSUME HandlesAssumption == NoHandle \notin Handles
ASSUME HiddenAssumption == Hidden \notin [Advisories -> 0..MaxTime]

Times == 0..MaxTime
Absent == 0                          \* no rows (removed, or unreadable); also: no cursor, no ETag
Rows == [Advisories -> Times]        \* an advisory's rows are named by their revision
NoRows == [a \in Advisories |-> Absent]

VARIABLES
    time, history,      \* upstream's clock, and its documents at each time
    exported,           \* the time the export was cut
    build,              \* the normalizer version of the running code
    limit,              \* its OSV_INCREMENTAL_MAX_IDS
    rows,               \* osv_advisories
    seedComplete, version, cursor, etag,   \* osv_meta: version is normalizerVersion,
    failing,            \*   cursor lastModified, failing incrementalFailingSince
    current,            \* the live runtime's handle
    flight,             \* flight[h]: the sync running on handle h
    faults,
    mixed,              \* history: the last pass re-read a document that had moved on
    torn                \* history: the last stamp did not get as far as the cursor

upstream == <<time, history, exported>>
meta == <<seedComplete, version, cursor, etag, failing>>
cache == <<rows, meta>>
flaws == <<mixed, torn>>
control == <<build, limit, current, faults>>
vars == <<upstream, cache, control, flight, flaws>>

\* since, tag: the cursor and ETag read before the request; snap: the upstream
\* time the sync works from; staged: re-read but not yet published.
Steps == {"idle", "asking", "pass", "seed", "stream"}
Flights == [step : Steps, since : Times, tag : Times, snap : Times,
            ids : SUBSET Advisories, todo : SUBSET Advisories, staged : Rows]
Idle == [step |-> "idle", since |-> 0, tag |-> 0, snap |-> 0,
         ids |-> {}, todo |-> {}, staged |-> NoRows]

TypeOK ==
    /\ time \in Times \ {0}
    /\ history \in [Times -> Rows]
    /\ exported \in 1..time
    /\ build \in 1..MaxBuild
    /\ rows \in Rows
    /\ seedComplete \in BOOLEAN
    /\ version \in 0..MaxBuild
    /\ cursor \in 0..time
    /\ etag \in 0..time
    /\ failing \in BOOLEAN
    /\ current \in Handles \cup {NoHandle}
    /\ flight \in [Handles -> Flights]
    /\ limit \in IdLimits
    /\ faults \in 0..MaxFaults
    /\ mixed \in BOOLEAN /\ torn \in BOOLEAN

\* osvCacheUsable: what every reader of the cache gates on.
Usable == seedComplete /\ version = build

\* The newest state is history[time]; a document's value is its last revision.
Docs == history[time]

Init ==
    /\ time = 1
    /\ history = [t \in Times |-> IF t = 1 THEN [a \in Advisories |-> 1] ELSE NoRows]
    /\ exported = 1
    /\ build = 1
    /\ limit \in IdLimits
    /\ rows = NoRows
    /\ seedComplete = FALSE
    /\ version = 0
    /\ cursor = Absent
    /\ etag = Absent
    /\ failing = FALSE
    /\ current = NoHandle
    /\ flight = [h \in Handles |-> Idle]
    /\ faults = 0
    /\ mixed = FALSE /\ torn = FALSE

-----------------------------------------------------------------------------
(* Upstream. *)

\* Some advisories are revised and others removed, together: a withdrawal and
\* its replacement are one event.  The export never becomes empty.
FeedChanges ==
    /\ time < MaxTime
    /\ \E changed \in SUBSET Advisories : \E removed \in SUBSET changed :
        /\ changed # {}
        /\ \A a \in removed : Docs[a] # Absent
        /\ LET docs == [a \in Advisories |-> IF a \in removed THEN Absent
                                             ELSE IF a \in changed THEN time + 1 ELSE Docs[a]]
           IN  docs # NoRows /\ history' = [history EXCEPT ![time + 1] = docs]
    /\ time' = time + 1
    /\ UNCHANGED <<exported, cache, control, flight, flaws>>

ExportIsCut ==
    /\ exported < time
    /\ exported' = time
    /\ UNCHANGED <<time, history, cache, control, flight, flaws>>

\* selectChangedIds: the ids the present list dates strictly after t.
ChangedSince(t) ==
    {a \in Advisories : \E s \in Times : t < s /\ s <= time /\ history[s][a] # history[s - 1][a]}

-----------------------------------------------------------------------------
(* The start of a sync. *)

Goes(h, f) == flight' = [flight EXCEPT ![h] = f]

\* syncOnce and syncEcosystem: join a running sync (no step), else seed an
\* unusable cache and bring a usable one up to date.
Begin(h) ==
    /\ current = h
    /\ flight[h].step = "idle"
    /\ Goes(h, IF Usable THEN [Idle EXCEPT !.step = "asking", !.since = cursor, !.tag = etag]
                         ELSE [Idle EXCEPT !.step = "seed"])
    /\ UNCHANGED <<upstream, cache, control, flaws>>

\* Mutant: any stored ETag counts as current.
Unchanged_any(h) == flight[h].tag # Absent

\* 304: upstream still has the list the stored ETag names.
Unchanged(h) == flight[h].tag = time

NothingNew(h) ==
    /\ flight[h].step = "asking"
    /\ Unchanged(h) \/ ChangedSince(flight[h].since) = {}
    /\ etag' = IF Unchanged(h) THEN etag ELSE time
    /\ failing' = FALSE
    /\ Goes(h, Idle)
    /\ UNCHANGED <<upstream, control, flaws, rows, seedComplete, version, cursor>>

IdsArrive(h) ==
    /\ flight[h].step = "asking"
    /\ ~Unchanged(h)
    /\ LET ids == ChangedSince(flight[h].since)
       IN  /\ ids # {}
           /\ Goes(h, IF Cardinality(ids) > limit
                      THEN [Idle EXCEPT !.step = "seed"]
                      ELSE [Idle EXCEPT !.step = "pass", !.snap = time, !.ids = ids, !.todo = ids])
    /\ UNCHANGED <<upstream, cache, control, flaws>>

IdsFail(h) ==
    /\ flight[h].step = "asking"
    /\ faults < MaxFaults
    /\ faults' = faults + 1
    /\ Goes(h, Idle)
    /\ UNCHANGED <<upstream, cache, build, limit, current, flaws>>

-----------------------------------------------------------------------------
(* The incremental pass: re-read every changed document, then publish. *)

\* Mutant: each re-read document is written to the cache at once.
Reread_unstaged(h) ==
    /\ flight[h].step = "pass"
    /\ \E a \in flight[h].todo :
        /\ rows' = [rows EXCEPT ![a] = Docs[a]]
        /\ Goes(h, [flight[h] EXCEPT !.todo = @ \ {a}, !.staged[a] = Docs[a]])
    /\ UNCHANGED <<upstream, meta, control, flaws>>

Reread(h) ==
    /\ flight[h].step = "pass"
    /\ \E a \in flight[h].todo :
        Goes(h, [flight[h] EXCEPT !.todo = @ \ {a}, !.staged[a] = Docs[a]])
    /\ UNCHANGED <<upstream, cache, control, flaws>>

\* A failed re-read drops the pass and the ETag.  A run of failures that has
\* lasted long enough re-seeds; an abort does not count towards it.
RereadFails(h) ==
    /\ flight[h].step = "pass"
    /\ flight[h].todo # {}
    /\ faults < MaxFaults
    /\ faults' = faults + 1
    /\ etag' = Absent
    /\ \/ failing' \in {failing, TRUE} /\ Goes(h, Idle)
       \/ failing /\ UNCHANGED failing /\ Goes(h, [Idle EXCEPT !.step = "seed"])
    /\ UNCHANGED <<upstream, build, limit, current, flaws, rows, seedComplete, version, cursor>>

\* Mutant: the cursor moves to the newest change upstream, not the newest listed.
PublishPass_now(h) ==
    /\ flight[h].step = "pass"
    /\ flight[h].todo = {}
    /\ rows' = [a \in Advisories |-> IF a \in flight[h].ids THEN flight[h].staged[a] ELSE rows[a]]
    /\ cursor' = time
    /\ etag' = flight[h].snap
    /\ failing' = FALSE
    /\ mixed' = \E a \in flight[h].ids : flight[h].staged[a] # history[flight[h].snap][a]
    /\ Goes(h, Idle)
    /\ UNCHANGED <<upstream, control, torn, seedComplete, version>>

\* One transaction: the changed advisories' rows, the cursor and the ETag.
PublishPass(h) ==
    /\ flight[h].step = "pass"
    /\ flight[h].todo = {}
    /\ rows' = [a \in Advisories |-> IF a \in flight[h].ids THEN flight[h].staged[a] ELSE rows[a]]
    /\ cursor' = flight[h].snap
    /\ etag' = flight[h].snap
    /\ failing' = FALSE
    /\ mixed' = \E a \in flight[h].ids : flight[h].staged[a] # history[flight[h].snap][a]
    /\ Goes(h, Idle)
    /\ UNCHANGED <<upstream, control, torn, seedComplete, version>>

-----------------------------------------------------------------------------
(* The seed: stream the export into an emptied cache, then stamp it. *)

\* The rows a batch brings from the export cut at time t.
Batch(base, batch, t) == [a \in Advisories |-> IF a \in batch THEN history[t][a] ELSE base[a]]

\* The download is live: mark the cache unseeded, drop its rows, take a batch.
FirstBatch(h) ==
    /\ flight[h].step = "seed"
    /\ seedComplete' = FALSE
    /\ LET content == {a \in Advisories : history[exported][a] # Absent}
       IN  \E batch \in SUBSET content \ {{}} :
             /\ rows' = Batch(NoRows, batch, exported)
             /\ Goes(h, [Idle EXCEPT !.step = "stream", !.snap = exported, !.todo = content \ batch])
    /\ UNCHANGED <<upstream, control, flaws, version, cursor, etag, failing>>

NextBatch(h) ==
    /\ flight[h].step = "stream"
    /\ \E batch \in SUBSET flight[h].todo \ {{}} :
         /\ rows' = Batch(rows, batch, flight[h].snap)
         /\ Goes(h, [flight[h] EXCEPT !.todo = @ \ batch])
    /\ UNCHANGED <<upstream, control, meta, flaws>>

\* The stream breaks, or the abort signal ends it.
SeedFails(h) ==
    /\ flight[h].step \in {"seed", "stream"}
    /\ faults < MaxFaults
    /\ faults' = faults + 1
    /\ Goes(h, Idle)
    /\ UNCHANGED <<upstream, cache, build, limit, current, flaws>>

\* The first n of the four kinds of write that stamp a finished seed, in order.
Stamp(h, n) ==
    /\ flight[h].step = "stream"
    /\ flight[h].todo = {}
    /\ seedComplete' = TRUE
    /\ version' = IF n >= 2 THEN build ELSE version
    /\ etag' = IF n >= 3 THEN Absent ELSE etag
    /\ failing' = (n < 3 /\ failing)
    /\ cursor' = IF n >= 4 THEN flight[h].snap ELSE cursor

FinishSeed(h) ==
    /\ Stamp(h, 4)
    /\ Goes(h, Idle)
    /\ mixed' = FALSE /\ torn' = FALSE
    /\ UNCHANGED <<upstream, control, rows>>

\* An export without a Last-Modified header leaves the cursor alone.
FinishUndated(h) ==
    /\ faults < MaxFaults
    /\ faults' = faults + 1
    /\ Stamp(h, 3)
    /\ Goes(h, Idle)
    /\ torn' = TRUE
    /\ UNCHANGED <<upstream, build, limit, current, rows, mixed>>

-----------------------------------------------------------------------------
(* The process and the operator's switch. *)

\* Every flight dies.  The next process may run a build with a newer normalizer.
Restart ==
    /\ faults < MaxFaults
    /\ faults' = faults + 1
    /\ current' = NoHandle
    /\ flight' = [h \in Handles |-> Idle]
    /\ build' \in {build} \cup {b \in 1..MaxBuild : b = build + 1}
    /\ UNCHANGED <<upstream, limit>>

Crash == Restart /\ UNCHANGED <<cache, flaws>>

\* The writes that stamp a seed are synchronous but not one transaction.
CrashMidStamp ==
    /\ \E h \in Handles, n \in 1..3 : Stamp(h, n)
    /\ Restart
    /\ torn' = TRUE
    /\ UNCHANGED <<rows, mixed>>

\* createOsvController at boot, or reload() once the source is needed again.
SwitchOn ==
    /\ current = NoHandle
    /\ current' \in {h \in Handles : flight[h].step = "idle"}
    /\ UNCHANGED <<upstream, cache, build, limit, faults, flight, flaws>>

\* reload() with no cell enabled: the cron stops, a running sync does not.
SwitchOff ==
    /\ current # NoHandle
    /\ faults < MaxFaults
    /\ faults' = faults + 1
    /\ current' = NoHandle
    /\ UNCHANGED <<upstream, cache, build, limit, flight, flaws>>

-----------------------------------------------------------------------------

Sync(h) ==
    \/ Begin(h)
    \/ NothingNew(h) \/ IdsArrive(h) \/ IdsFail(h)
    \/ Reread(h) \/ RereadFails(h) \/ PublishPass(h)
    \/ FirstBatch(h) \/ NextBatch(h) \/ SeedFails(h) \/ FinishSeed(h) \/ FinishUndated(h)

Next ==
    \/ FeedChanges
    \/ ExportIsCut
    \/ \E h \in Handles : Sync(h)
    \/ Crash
    \/ CrashMidStamp
    \/ SwitchOn
    \/ SwitchOff

Spec == Init /\ [][Next]_vars

\* The daily cron and the refresh before each batch keep starting syncs, every
\* request is answered or times out, and faults come to an end (MaxFaults).
\* Upstream keeps cutting exports: a change set past MaxIds is re-seeded from
\* the export, again and again until the export has caught up with it.
Fairness ==
    /\ WF_vars(ExportIsCut)
    /\ WF_vars(SwitchOn)
    /\ \A h \in Handles : WF_vars(Sync(h))

FairSpec == Spec /\ Fairness

-----------------------------------------------------------------------------
(* Properties. *)

Newest(s, t) == IF s < t THEN t ELSE s

\* No lost update: a usable cache holds every advisory at least as new as its
\* cursor and its ETag say, so neither the strict "modified after the cursor"
\* nor a 304 can hide a change for good (incrementalSyncOsv).  Not so when the
\* stamp of the seed stopped short of the cursor, at a crash or for want of the
\* header: the one left behind is of another time than the rows.
NothingMissed ==
    Usable /\ ~torn =>
        \A a \in Advisories : \E t \in Newest(cursor, etag) .. time : rows[a] = history[t][a]

\* Without exception, this is false: seedOsv's stamp is not one transaction, and an
\* undated export may be older than the cursor it leaves.
StampIsWhole == Usable =>
    \A a \in Advisories : \E t \in Newest(cursor, etag) .. time : rows[a] = history[t][a]

\* The cache is always one complete upstream state or hidden, and moves only
\* forward while it is shown ("the cache only ever moves from one complete
\* snapshot to the next", incrementalSyncOsv); but for a pass whose documents
\* moved while it re-read them, and a torn stamp.
Shown == INSTANCE AdvisorySnapshot WITH
    view <- IF Usable /\ ~mixed /\ ~torn THEN rows ELSE Hidden,
    asOf <- IF Usable /\ ~mixed /\ ~torn THEN cursor ELSE 0
SnapshotsOnly == Shown!Spec

\* Without exception, this is false: upstream moves during a pass.
PassesAreWhole == ~mixed

\* Once upstream is quiet and the faults are over, the cache catches up and
\* stays usable; a torn stamp may leave it behind until the next seed.
CatchesUp == <>[](Usable /\ (rows = Docs \/ torn))
=============================================================================
