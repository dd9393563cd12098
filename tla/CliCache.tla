------------------------------ MODULE CliCache ------------------------------
(***************************************************************************)
(* The advisory cache of the command-line scanner, shared by every run on  *)
(* the machine: one file of rows per (source, ecosystem), a meta file that *)
(* says what the rows are, a registry cache, and a best-effort lock.       *)
(*                                                                         *)
(* A run plans its downloads before it takes the lock, syncs under it, and *)
(* reads meta and files without it.  Runs overlap, fail, skip a lock that  *)
(* is held, reclaim one that is old, and are killed anywhere; the operator *)
(* upgrades the scanner and deletes the cache.  Rows are abstracted to the *)
(* normalizer that wrote them and the upstream version they are complete   *)
(* up to.                                                                  *)
(***************************************************************************)
EXTENDS Integers, Sequences, FiniteSets, SequencesExt, FiniteSetsExt

CONSTANTS
    Runs,
    OsvCells,      \* one OSV export each
    GemCells,      \* ecosystems of the one gemnasium archive
    Trees,         \* the sets of cells a run may need
    None,
    ExportLags,    \* an OSV export may be older than the list of changes
    Excused,       \* of "doubled", "deleted" and "crossed", what is not promised
    MaxVersion,    \* upgrades of the scanner whose normalizers are newer
    MaxHead,       \* changes upstream
    MaxStarts,     \* runs started
    MaxFetches,    \* registry answers
    MaxFaults      \* failed fetches, kills, ageing locks and deletions, together

Cells == OsvCells \cup GemCells
Versions == 1..MaxVersion
Mixed == 0

ASSUME CellsAssumption == OsvCells \cap GemCells = {} /\ Trees \subseteq SUBSET Cells /\ IsFiniteSet(Cells)
ASSUME ExcusedAssumption == Excused \subseteq {"doubled", "deleted", "crossed"}
ASSUME BoundsAssumption ==
    ExportLags \in BOOLEAN /\
    MaxVersion \in Nat \ {0} /\ MaxHead \in Nat \ {0} /\ {MaxStarts, MaxFetches, MaxFaults} \subseteq Nat

VARIABLES
    version,         \* the scanner a new run is
    head, exported,  \* upstream, and the OSV export that follows it
    file,            \* file[c]: the rows on disk
    meta,            \* meta[c]: what meta.json says of them
    registry,        \* when the registry cache's answer and count were fetched
    cacheLock,       \* who wrote .lock, and is it older than LOCK_STALE_MS
    run,             \* run[r]
    fetches, starts, faults,
    excuse           \* history: what nobody promised to survive

disk == <<file, meta, registry, cacheLock>>
upstream == <<head, exported>>
bounds == <<fetches, starts, faults>>
cliVars == <<version, upstream, disk, run, bounds, excuse>>

Rows == [norm : Versions \cup {Mixed}, at : 0..MaxHead]
States == [norm : Versions, at : 0..MaxHead \cup {None}]  \* at: the cursor, or the sha if known
Passes == [kind : {"seed", "refresh"}, left : SUBSET Cells, to : 0..MaxHead, sha : BOOLEAN]
Locks == [by : Runs \cup {"dead"}, old : BOOLEAN]
Answers == [answer : 0..MaxFetches, count : 0..MaxFetches]

ASSUME NamesAssumption == None \notin Cells \cup Runs \cup Rows \cup States \cup Passes \cup Locks /\ "dead" \notin Runs

NoAnswers == [answer |-> 0, count |-> 0]

\* An item of the plan: one OSV export, or the gemnasium archive.
ItemsOf(tree) == SetToSeq({{c} : c \in tree \cap OsvCells} \cup ({tree \cap GemCells} \ {{}}))
Items == UNION {ToSet(ItemsOf(t)) : t \in Trees}

Gone == [pc |-> "idle", norm |-> 1, tree |-> {}, plan |-> [i \in {} |-> "seed"], todo |-> <<>>, mm |-> [c \in {} |-> None],
         pass |-> None, failed |-> {}, floor |-> [c \in {} |-> 0], got |-> [c \in {} |-> None], mine |-> NoAnswers]

Holding == {"sync", "stamp", "release", "save", "saved"}

CliTypeOK ==
    /\ version \in Versions /\ head \in 1..MaxHead /\ exported \in 1..head
    /\ file \in [Cells -> Rows \cup {None}] /\ meta \in [Cells -> States \cup {None}]
    /\ registry \in Answers
    /\ cacheLock \in Locks \cup {None}
    /\ \A r \in Runs :
        /\ run[r].pc \in Holding \cup {"idle", "lock", "reclaim", "ask", "read", "load", "report", "savelock", "savereclaim"}
        /\ run[r].norm \in Versions /\ run[r].tree \subseteq Cells /\ ToSet(run[r].todo) \subseteq Items
        /\ DOMAIN run[r].plan \subseteq Items /\ run[r].failed \subseteq Items
        /\ \A c \in DOMAIN run[r].mm : run[r].mm[c] \in States \cup {None}
        /\ \A c \in DOMAIN run[r].got : run[r].got[c] \in Rows \cup {None}
        /\ run[r].pass \in Passes \cup {None} /\ run[r].mine \in Answers
    /\ cacheLock # None /\ cacheLock.by # "dead" => run[cacheLock.by].pc \in Holding
    /\ excuse \subseteq {"doubled", "deleted", "crossed"}

-----------------------------------------------------------------------------

\* Mutant: whatever was stamped once.
Seeded_anyNormalizer(m, c, norm) == m[c] # None

\* isSeeded.
Seeded(m, c, norm) == m[c] # None /\ m[c].norm = norm

CliInit ==
    /\ version = 1 /\ head = 1 /\ exported = 1
    /\ file = [c \in Cells |-> None] /\ meta = [c \in Cells |-> None]
    /\ registry = NoAnswers /\ cacheLock = None
    /\ run = [r \in Runs |-> Gone]
    /\ fetches = 0 /\ starts = 0 /\ faults = 0
    /\ excuse = {}

Fault == faults < MaxFaults /\ faults' = faults + 1
Goes(r, pc) == run' = [run EXCEPT ![r].pc = pc]
Active == {r \in Runs : run[r].pc # "idle"}

\* planSync: an item is seeded unless every file of it is current.  The operator
\* may take his time over the consent.
PlanOf(tree, norm) ==
    [i \in ToSet(ItemsOf(tree)) |-> IF \A c \in i : Seeded(meta, c, norm) THEN "refresh" ELSE "seed"]

\* --offline goes straight to the cache.
Start(r) ==
    /\ run[r].pc = "idle" /\ starts < MaxStarts
    /\ starts' = starts + 1
    /\ \E tree \in Trees, offline \in BOOLEAN :
        run' = [run EXCEPT ![r] = [Gone EXCEPT !.pc = IF offline THEN "read" ELSE "lock", !.norm = version, !.tree = tree,
                                               !.plan = IF offline THEN @ ELSE PlanOf(tree, version),
                                               !.todo = IF offline THEN <<>> ELSE ItemsOf(tree),
                                               !.floor = [c \in tree |-> 0]]]
    /\ excuse' = IF \E s \in Active : run[s].norm # version THEN excuse \cup {"crossed"} ELSE excuse
    /\ UNCHANGED <<version, upstream, disk, fetches, faults>>

\* The first download is declined.
Decline(r) ==
    /\ run[r].pc = "lock" /\ run[r].failed = {}
    /\ \E i \in ToSet(run[r].todo) : run[r].plan[i] = "seed"
    /\ run' = [run EXCEPT ![r] = Gone]
    /\ UNCHANGED <<version, upstream, disk, bounds, excuse>>

\* tryAcquireLock, for a sync or for the registry's save.  A held lock skips either.
Acquire(r) ==
    /\ run[r].pc \in {"lock", "savelock"}
    /\ LET sync == run[r].pc = "lock"
       IN  \/ /\ cacheLock = None
              /\ cacheLock' = [by |-> r, old |-> FALSE]
              /\ run' = [run EXCEPT ![r].pc = IF sync THEN "sync" ELSE "save", ![r].mm = meta,
                                    ![r].failed = {}]
           \/ /\ cacheLock # None /\ cacheLock.old
              /\ Goes(r, IF sync THEN "reclaim" ELSE "savereclaim")
              /\ UNCHANGED cacheLock
           \/ /\ cacheLock # None /\ ~cacheLock.old
              /\ run' = [run EXCEPT ![r] = IF sync THEN [@ EXCEPT !.pc = "read", !.failed = {}] ELSE Gone]
              /\ UNCHANGED cacheLock
    /\ UNCHANGED <<version, upstream, file, meta, registry, bounds, excuse>>

\* It was old when looked at; what is removed is whatever is there now.
Reclaim(r) ==
    /\ run[r].pc \in {"reclaim", "savereclaim"}
    /\ cacheLock' = None
    /\ excuse' = IF cacheLock # None /\ cacheLock.by # "dead" THEN excuse \cup {"doubled"} ELSE excuse
    /\ Goes(r, IF run[r].pc = "reclaim" THEN "lock" ELSE "savelock")
    /\ UNCHANGED <<version, upstream, file, meta, registry, bounds>>

-----------------------------------------------------------------------------
(* One item of the plan. *)

Floor(c) == IF c \in OsvCells THEN exported ELSE head

\* What a seed of the item downloads; a commit that could not be looked up is
\* not recorded, and the branch is downloaded.
SeedPass(i) ==
    {[kind |-> "seed", left |-> i, to |-> IF i \subseteq OsvCells THEN exported ELSE head, sha |-> known] :
        known \in (IF i \subseteq OsvCells THEN {TRUE} ELSE BOOLEAN)}

\* What a refresh does: nothing when upstream has not moved, a staged pass when
\* the changes can be had, and a seed when they cannot: too many, a cursor or
\* commit that is not known, an advisory that has failed for two days.
RefreshPass(i, mm) ==
    SeedPass(i)
    \cup (IF \A c \in i : mm[c] # None /\ mm[c].at # None
          THEN {[kind |-> "refresh", left |-> {c \in i : mm[c].at # head}, to |-> head, sha |-> TRUE]}
          ELSE {})

\* The feed answers; rows are staged and nothing is written.
Request(r) ==
    /\ run[r].pc = "sync" /\ run[r].todo # <<>> /\ run[r].pass = None
    /\ LET i == Head(run[r].todo)
       IN  \E p \in IF run[r].plan[i] = "seed" THEN SeedPass(i) ELSE RefreshPass(i, run[r].mm) :
            run' = [run EXCEPT ![r].pass = p,
                               ![r].floor = [c \in DOMAIN @ |-> IF c \in i THEN Floor(c) ELSE @[c]]]
    /\ UNCHANGED <<version, upstream, disk, bounds, excuse>>

\* Mutant: a refresh that cannot re-read everything writes what it has.
Staged_partial(rows, state, pass, norm) ==
    IF pass.kind = "seed" THEN [norm |-> norm, at |-> pass.to]
    ELSE IF rows = None THEN [norm |-> norm, at |-> 0]
    ELSE [norm |-> IF rows.norm = norm THEN norm ELSE Mixed, at |-> rows.at]

\* The rows a pass puts in place: the export, or the surviving rows with what
\* changed since the cursor.  Rows older than the cursor stay older.
Staged(rows, state, pass, norm) ==
    IF pass.kind = "seed" THEN [norm |-> norm, at |-> pass.to]
    ELSE IF rows = None THEN [norm |-> norm, at |-> 0]
    ELSE [norm |-> IF rows.norm = norm THEN norm ELSE Mixed,
          at |-> IF rows.at >= state.at THEN Max({rows.at, pass.to}) ELSE rows.at]

Stamped(pass, norm) == [norm |-> norm, at |-> IF pass.sha THEN pass.to ELSE None]

\* A temporary file is renamed over the file of one cell.  A seed stamps its cells
\* when all are in place, a refresh each at once.
Commit(r) ==
    /\ run[r].pc = "sync" /\ run[r].pass # None
    /\ \E c \in run[r].pass.left :
        /\ file' = [file EXCEPT ![c] = Staged(@, run[r].mm[c], run[r].pass, run[r].norm)]
        /\ run' = [run EXCEPT ![r].pass.left = @ \ {c},
                              ![r].mm[c] = IF run[r].pass.kind = "seed" THEN @ ELSE Stamped(run[r].pass, run[r].norm)]
    /\ UNCHANGED <<version, upstream, meta, registry, cacheLock, bounds, excuse>>

ItemDone(r) ==
    /\ run[r].pc = "sync" /\ run[r].pass # None /\ run[r].pass.left = {}
    /\ LET i == Head(run[r].todo)
       IN  run' = [run EXCEPT ![r].todo = Tail(@), ![r].pass = None,
                              ![r].mm = [c \in DOMAIN @ |-> IF c \in i /\ run[r].pass.kind = "seed"
                                                            THEN Stamped(run[r].pass, run[r].norm) ELSE @[c]]]
    /\ UNCHANGED <<version, upstream, disk, bounds, excuse>>

\* A fetch, a parse or a write fails: what is renamed stays, the rest is dropped.
ItemFails(r) ==
    /\ run[r].pc = "sync" /\ run[r].todo # <<>> /\ Fault
    /\ LET i == Head(run[r].todo)
       IN  run' = [run EXCEPT ![r].todo = Tail(@), ![r].pass = None, ![r].failed = @ \cup {i},
                              ![r].floor = [c \in DOMAIN @ |-> IF c \in i THEN 0 ELSE @[c]]]
    /\ UNCHANGED <<version, upstream, disk, fetches, starts, excuse>>

\* One meta for all the items, then the lock goes.
StampMeta(r) ==
    /\ run[r].pc = "sync" /\ run[r].todo = <<>>
    /\ meta' = run[r].mm
    /\ Goes(r, "release")
    /\ UNCHANGED <<version, upstream, file, registry, cacheLock, bounds, excuse>>

ReleaseLock(r) ==
    /\ run[r].pc \in {"release", "saved"}
    /\ cacheLock' = None
    /\ run' = [run EXCEPT ![r] = IF run[r].pc = "saved" THEN Gone
                                 ELSE [@ EXCEPT !.pc = IF run[r].failed = {} THEN "read" ELSE "ask"]]
    /\ UNCHANGED <<version, upstream, file, meta, registry, bounds, excuse>>

\* The failed items, as they were planned, are tried again or let be.
Retry(r) ==
    /\ run[r].pc = "ask"
    /\ \/ Goes(r, "read")
       \/ run' = [run EXCEPT ![r].pc = "lock", ![r].todo = SetToSeq(run[r].failed)]
    /\ UNCHANGED <<version, upstream, disk, bounds, excuse>>

-----------------------------------------------------------------------------
(* The scan. *)

ReadMeta(r) ==
    /\ run[r].pc = "read"
    /\ run' = [run EXCEPT ![r].pc = "load", ![r].mm = meta]
    /\ UNCHANGED <<version, upstream, disk, bounds, excuse>>

\* The cells the scanners will answer for.
Answered(r) == {c \in run[r].tree : Seeded(run[r].mm, c, run[r].norm)}

\* Rows are read, the registry's are loaded, and some are fetched anew: only a
\* run that fetched has something to save.  What is said of the files is said of
\* each alone, so one step reads them all.
Load(r) ==
    /\ run[r].pc = "load"
    /\ \E half \in SUBSET {"answer", "count"} :
        /\ half # {} => fetches < MaxFetches /\ DOMAIN run[r].plan # {}
        /\ fetches' = IF half = {} THEN fetches ELSE fetches + 1
        /\ run' = [run EXCEPT ![r].pc = IF half = {} THEN "report" ELSE "savelock",
                              ![r].got = [c \in run[r].tree |-> file[c]],
                              ![r].mine = [h \in {"answer", "count"} |-> IF h \in half THEN fetches + 1 ELSE registry[h]]]
    /\ UNCHANGED <<version, upstream, disk, starts, faults, excuse>>

\* Mutant: the newer answer brings its count along.
MergeRow_whole(onDisk, mine) == IF mine.answer > onDisk.answer THEN mine ELSE onDisk

\* mergeRow: each half on its own timestamp.
MergeRow(onDisk, mine) == [h \in {"answer", "count"} |-> Max({onDisk[h], mine[h]})]

Report(r) ==
    /\ run[r].pc = "report"
    /\ run' = [run EXCEPT ![r] = Gone]
    /\ UNCHANGED <<version, upstream, disk, bounds, excuse>>

Save(r) ==
    /\ run[r].pc = "save"
    /\ registry' = MergeRow(registry, run[r].mine)
    /\ Goes(r, "saved")
    /\ UNCHANGED <<version, upstream, file, meta, cacheLock, bounds, excuse>>

-----------------------------------------------------------------------------
(* The surroundings. *)

Publish ==
    /\ \/ head < MaxHead /\ head' = head + 1 /\ exported' = IF ExportLags THEN exported ELSE head'
       \/ exported < head /\ exported' = head /\ UNCHANGED head
    /\ UNCHANGED <<version, disk, run, bounds, excuse>>

Upgrade ==
    /\ version < MaxVersion /\ version' = version + 1
    /\ UNCHANGED <<upstream, disk, run, bounds, excuse>>

\* Half an hour goes by: for a lock left behind, or for a slow download.
LockAges ==
    /\ cacheLock # None /\ ~cacheLock.old
    /\ IF cacheLock.by = "dead" THEN UNCHANGED faults ELSE Fault
    /\ cacheLock' = [cacheLock EXCEPT !.old = TRUE]
    /\ UNCHANGED <<version, upstream, file, meta, registry, run, fetches, starts, excuse>>

\* Ctrl-C, anywhere.
Kill(r) ==
    /\ run[r].pc # "idle" /\ Fault
    /\ run' = [run EXCEPT ![r] = Gone]
    /\ cacheLock' = IF cacheLock # None /\ cacheLock.by = r THEN [cacheLock EXCEPT !.by = "dead"] ELSE cacheLock
    /\ UNCHANGED <<version, upstream, file, meta, registry, fetches, starts, excuse>>

DeleteCache ==
    /\ Fault
    /\ file' = [c \in Cells |-> None] /\ meta' = [c \in Cells |-> None]
    /\ registry' = NoAnswers /\ cacheLock' = None
    /\ excuse' = IF Active # {} THEN excuse \cup {"deleted"} ELSE excuse
    /\ UNCHANGED <<version, upstream, run, fetches, starts>>

Sync(r) == Request(r) \/ Commit(r) \/ ItemDone(r) \/ ItemFails(r) \/ StampMeta(r)
Scan(r) == ReadMeta(r) \/ Load(r) \/ Report(r) \/ Save(r)

CliNext ==
    \/ \E r \in Runs : \/ Start(r) \/ Decline(r) \/ Kill(r)
                       \/ Acquire(r) \/ Reclaim(r) \/ ReleaseLock(r) \/ Retry(r)
                       \/ Sync(r) \/ Scan(r)
    \/ Publish \/ Upgrade \/ LockAges \/ DeleteCache

CliSpec == CliInit /\ [][CliNext]_cliVars

-----------------------------------------------------------------------------
Promised == excuse \cap Excused = {}

(* Properties.  Not promised: what two runs that both hold the lock leave behind *)
(* (one was old, or was reclaimed by two at once), what a deletion under a run   *)
(* leaves, and what two versions of the scanner do to each other's rows.         *)

\* A file and its stamp are two renames, and a kill may come between: whatever is
\* stamped by today's normalizer is there, was written by it, and misses nothing
\* behind its cursor (runSync, writeCacheMeta).
StampsAreTrue ==
    Promised => \A c \in Cells :
        meta[c] # None =>
            /\ file[c] # None
            /\ meta[c].at # None => file[c].at >= meta[c].at
            /\ meta[c].norm = version => file[c].norm = version

\* A gate is passed on these: the cells a run says it answered for it read from
\* files its own normalizer wrote, though meta and files are read apart and
\* another run may be between the two renames (loadEcosystemCache, isSeeded).  And
\* a cell whose sync succeeded, in this run and not in another's, is answered, with
\* nothing older than the OSV export, or the commit, of that moment.
AnswersAreRead ==
    Promised => \A r \in Runs : run[r].pc \in {"report", "savelock"} =>
        /\ \A c \in Answered(r) : run[r].got[c] # None /\ run[r].got[c].norm = run[r].norm
        /\ \A c \in run[r].tree : run[r].floor[c] > 0 =>
               c \in Answered(r) /\ run[r].got[c].at >= run[r].floor[c]

\* "Renaming a run-start snapshot over the file would drop them": no save rolls
\* back the half of a row another run fetched later (mergeRow).
RegistryKeepsNewest ==
    [][Promised' /\ registry' # NoAnswers => \A h \in {"answer", "count"} : registry'[h] >= registry[h]]_registry
=============================================================================
