-------------------------- MODULE FindingLifecycle --------------------------
(***************************************************************************)
(* The life of a project's findings: apps/worker/src/runner.ts runs every  *)
(* advisory feed over the project, in a fixed order, and                   *)
(* packages/db/src/queries/findings.ts merges what each one reports into   *)
(* the findings table.  The first source to report an advisory owns its    *)
(* row (an episode); a later one corroborates it.  When all have run the   *)
(* corroborations are rewritten and the released fix is settled.           *)
(*                                                                         *)
(* One project and one ecosystem in which only feed sources answer, the    *)
(* directory anchored by another ecosystem's manifest.  A feed source does *)
(* no I/O while it matches, so from the first source to the corroborations *)
(* no other task of the worker runs; only the portal, another process, and *)
(* the end of the process can come between.                                *)
(*                                                                         *)
(* Bounds: MaxChanges on changes of the world (lockfiles, feeds, source    *)
(* switches), MaxFaults on failures.  Together they bound the episodes.    *)
(***************************************************************************)
EXTENDS Naturals, Sequences, FiniteSets

CONSTANTS Manifests,      \* the manifests the project may hold
          Advisories,     \* each names the one package it affects
          Order,          \* the sources in the order they run
          Grade,          \* the severity each source gives
          Slots,          \* scans of the project that may overlap
          MaxChanges, MaxFaults,
          MayBeEmpty,     \* a lockfile may list no package at all
          MidScan,        \* the operator may switch a source during a scan
          Legacy          \* the table may hold rows of an older release

Sources == {Order[i] : i \in DOMAIN Order}

\* info, low, moderate, high, critical.
Severities == 0..4

ASSUME ConstantsAssumption ==
  /\ Order \in Seq(Sources)
  /\ \A i, j \in DOMAIN Order : Order[i] = Order[j] => i = j
  /\ Grade \in [Sources -> Severities]
  /\ MaxChanges \in Nat /\ MaxFaults \in Nat
  /\ {MayBeEmpty, MidScan, Legacy} \subseteq BOOLEAN

VARIABLES disk,      \* [Manifests -> Lockfile]: what the project directory holds
          knows,     \* [Sources -> SUBSET Advisories]: what each feed's cache lists
          enabled,   \* the sources whose cell is switched on
          episodes,  \* the findings table: per source and advisory, oldest first
          scan,      \* [Slots -> the state of a running scan]
          changes, faults

vars == <<disk, knows, enabled, episodes, scan, changes, faults>>

\* What a manifest can be: absent, unreadable, readable with no package, or
\* readable with packages, of which `has` are affected.
Lockfile == [is : {"gone", "broken", "empty"}, has : {{}}]
              \cup [is : {"packages"}, has : SUBSET Advisories]
Possible == {f \in Lockfile : f.is = "empty" => MayBeEmpty}

Unsettled == [copies |-> {}, sources |-> {}]
Fix       == [copies : SUBSET Manifests, sources : SUBSET Sources]
Episode   == [open : BOOLEAN, copies : SUBSET Manifests, severity : Severities,
              corroborations : SUBSET Sources, fix : Fix]

\* A finding a scan holds in memory: the row it was merged into, the copies the
\* merge gave it, and the sources that agreed with its owner.
Finding == [source : Sources, advisory : Advisories, episode : Nat,
            copies : SUBSET Manifests, agree : SUBSET Sources]

Outcomes == {"none", "skipped", "ok", "failed", "unreadable", "no_lockfile"}
ScanState == [step : {"idle", "read", "match", "settle"}, since : Nat, next : Nat,
              runnable : SUBSET Sources, inventory : SUBSET Manifests,
              read : SUBSET Manifests, graph : [Manifests -> Lockfile],
              outcome : [Sources -> Outcomes], found : SUBSET Finding]

Absent == [is |-> "gone", has |-> {}]
Idle == [step |-> "idle", since |-> 0, next |-> 1, runnable |-> {},
         inventory |-> {}, read |-> {}, graph |-> [m \in Manifests |-> Absent],
         outcome |-> [s \in Sources |-> "none"], found |-> {}]

\* A row written before installations were recorded.
LegacyEpisode(s) == [open |-> TRUE, copies |-> {}, severity |-> Grade[s],
                     corroborations |-> {}, fix |-> Unsettled]

Init ==
  /\ disk \in [Manifests -> Possible]
  /\ knows \in [Sources -> SUBSET Advisories]
  /\ enabled \in SUBSET Sources
  /\ \E twice \in SUBSET (IF Legacy THEN Sources \X Advisories ELSE {}) :
       episodes = [i \in Sources \X Advisories |->
                     IF i \in twice THEN <<LegacyEpisode(i[1]), LegacyEpisode(i[1])>>
                                    ELSE <<>>]
  /\ scan = [k \in Slots |-> Idle]
  /\ changes = 0 /\ faults = 0

----------------------------------------------------------------------------
\* The world around the scans.

Busy(k)  == scan[k].step = "match"
Turn(k)  == \A j \in Slots \ {k} : ~Busy(j)
Quiet    == \A k \in Slots : scan[k].step = "idle"
Changed  == changes < MaxChanges /\ changes' = changes + 1

DiskChanges ==
  /\ Changed
  /\ \E m \in Manifests, f \in Possible :
       f # disk[m] /\ disk' = [disk EXCEPT ![m] = f]
  /\ UNCHANGED <<knows, enabled, episodes, scan, faults>>

\* The worker's own sync of a feed.
FeedChanges ==
  /\ Changed
  /\ \A k \in Slots : ~Busy(k)
  /\ \E s \in Sources, as \in SUBSET Advisories :
       as # knows[s] /\ knows' = [knows EXCEPT ![s] = as]
  /\ UNCHANGED <<disk, enabled, episodes, scan, faults>>

\* Settings: the built-in source lives in another ecosystem and stays on, so
\* every cell of this one may be switched off.
writeSourceCell ==
  /\ Changed
  /\ MidScan \/ Quiet
  /\ \E s \in Sources :
       enabled' = IF s \in enabled THEN enabled \ {s} ELSE enabled \cup {s}
  /\ UNCHANGED <<disk, knows, episodes, scan, faults>>

----------------------------------------------------------------------------
\* One scan: the inventory and the manifests.

\* Mutant: every source runs whatever the operator chose.
getRunnableSourceCells_all == Sources
getRunnableSourceCells == enabled

\* The cells to run and the manifests to read are taken at the start.
Begin(k) ==
  LET inventory == {m \in Manifests : disk[m].is # "gone"}
  IN  /\ scan[k].step = "idle"
      /\ Turn(k)
      /\ scan' = [scan EXCEPT ![k] =
                    [Idle EXCEPT !.step = IF inventory = {} THEN "match" ELSE "read",
                                 !.since = changes, !.runnable = getRunnableSourceCells,
                                 !.inventory = inventory]]
      /\ UNCHANGED <<disk, knows, enabled, episodes, changes, faults>>

\* One file at a time, each behind an await.  A file gone since is unreadable.
resolveManifest(k) ==
  /\ scan[k].step = "read"
  /\ Turn(k)
  /\ \E m \in scan[k].inventory \ scan[k].read :
       LET read == scan[k].read \cup {m}
           file == IF disk[m].is = "gone" THEN [is |-> "broken", has |-> {}] ELSE disk[m]
       IN  scan' = [scan EXCEPT ![k].read = read, ![k].graph[m] = file,
                                ![k].step = IF read = scan[k].inventory
                                            THEN "match" ELSE "read"]
  /\ UNCHANGED <<disk, knows, enabled, episodes, changes, faults>>

unreadOf(k) == {m \in scan[k].inventory : scan[k].graph[m].is = "broken"}

\* mergeResolvedGraphs answers null when no readable manifest lists a package.
GraphIsNull(k) == \A m \in scan[k].inventory : scan[k].graph[m].is # "packages"

CopiesSeen(k, a) == {m \in scan[k].inventory : a \in scan[k].graph[m].has}

\* no_lockfile stands for a coverage in which no manifest is unauditable.
unresolvedGraphReason(k) == IF unreadOf(k) # {} THEN "unreadable" ELSE "no_lockfile"

----------------------------------------------------------------------------
\* The merge of one source's answer.

OpenOnes(rows)   == {n \in DOMAIN rows : rows[n].open}
pickOldestRow(N) == CHOOSE n \in N : \A other \in N : n <= other

installedThroughUnread(row, unread) ==
  unread # {} /\ (row.copies = {} \/ row.copies \cap unread # {})

\* Mutant: the row is returned as resolved but not written.
resolveFindingRow_noop(row) == row
resolveFindingRow(row) == [row EXCEPT !.open = FALSE]

Opened(s, seen) == [open |-> TRUE, copies |-> seen, severity |-> Grade[s],
                    corroborations |-> {}, fix |-> Unsettled]

\* Mutant: the copies are those of this scan only.
withRetainedCopies_fresh(row, seen, unread) == seen
withRetainedCopies(row, seen, unread) == seen \cup (row.copies \cap unread)

\* Mutant: a continuing episode keeps its last verdict.
Continued_settled(row, s, seen, unread) ==
  [row EXCEPT !.copies = withRetainedCopies(row, seen, unread), !.severity = Grade[s]]
\* The verdict on the fix is withdrawn; corroborations wait for the other sources.
Continued(row, s, seen, unread) ==
  [row EXCEPT !.copies = withRetainedCopies(row, seen, unread),
              !.severity = Grade[s], !.fix = Unsettled]

\* Mutant: every report opens an episode.
MergeReported_append(rows, s, seen, unread) == Append(rows, Opened(s, seen))
\* Reported and open: the oldest row continues, its duplicates are resolved.
\* Reported and not open: a new episode.
MergeReported(rows, s, seen, unread) ==
  LET open == OpenOnes(rows)
  IN  IF open = {} THEN Append(rows, Opened(s, seen))
      ELSE [n \in DOMAIN rows |->
              IF n \notin open THEN rows[n]
              ELSE IF n = pickOldestRow(open) THEN Continued(rows[n], s, seen, unread)
              ELSE resolveFindingRow(rows[n])]

\* Not reported: resolved, unless a manifest nobody read may still hold it.
MergeAbsent(rows, unread) ==
  [n \in DOMAIN rows |->
     IF rows[n].open /\ ~installedThroughUnread(rows[n], unread)
     THEN resolveFindingRow(rows[n]) ELSE rows[n]]

mergeFindingsForScan(k, s, kept) ==
  [i \in Sources \X Advisories |->
     IF i[1] # s THEN episodes[i]
     ELSE IF i[2] \in kept
     THEN MergeReported(episodes[i], s, CopiesSeen(k, i[2]), unreadOf(k))
     ELSE MergeAbsent(episodes[i], unreadOf(k))]

----------------------------------------------------------------------------
\* One scan: every source in turn, each merge in a transaction of its own.

NextSource(k)    == Order[scan[k].next]
Matching(k)   == scan[k].step = "match" /\ scan[k].next \in DOMAIN Order

\* The loop goes on to the next source.
Advance(k, outcome, found) ==
  scan' = [scan EXCEPT ![k].next = @ + 1, ![k].outcome[NextSource(k)] = outcome,
                       ![k].found = found]

\* The cell was not runnable when the scan began.
SkipSource(k) ==
  /\ Matching(k)
  /\ NextSource(k) \notin scan[k].runnable
  /\ Advance(k, "skipped", scan[k].found)
  /\ UNCHANGED <<disk, knows, enabled, episodes, changes, faults>>

\* No graph to match: the scan is recorded, the findings are left alone.
NoGraph(k) ==
  /\ Matching(k)
  /\ NextSource(k) \in scan[k].runnable
  /\ scan[k].inventory # {} /\ GraphIsNull(k)
  /\ Advance(k, unresolvedGraphReason(k), scan[k].found)
  /\ UNCHANGED <<disk, knows, enabled, episodes, changes, faults>>

\* The source's cache is not seeded, not complete or cannot be read.
SourceFails(k) ==
  /\ Matching(k)
  /\ NextSource(k) \in scan[k].runnable
  /\ scan[k].inventory # {} /\ ~GraphIsNull(k)
  /\ faults < MaxFaults /\ faults' = faults + 1
  /\ Advance(k, "failed", scan[k].found)
  /\ UNCHANGED <<disk, knows, enabled, episodes, changes>>

\* The cell's switch is read again here: off, the answer is ok and empty.
matchPackages(k) ==
  {a \in knows[NextSource(k)] : NextSource(k) \in enabled /\ CopiesSeen(k, a) # {}}

\* The survivors after this source: an advisory someone owns gains an agreement,
\* the others become this source's own findings, in the rows the merge gave them.
reconcileAgainstReported(k, s, matched, kept, rows) ==
  LET own(a) == pickOldestRow(OpenOnes(rows[<<s, a>>]))
  IN  {IF f.advisory \in matched THEN [f EXCEPT !.agree = @ \cup {s}] ELSE f :
         f \in scan[k].found}
      \cup {[source |-> s, advisory |-> a, episode |-> own(a),
             copies |-> rows[<<s, a>>][own(a)].copies, agree |-> {}] : a \in kept}

\* With no manifest at all the answer is ok and empty whatever the source's state.
SourceAnswers(k) ==
  /\ Matching(k)
  /\ NextSource(k) \in scan[k].runnable
  /\ scan[k].inventory = {} \/ ~GraphIsNull(k)
  /\ LET s       == NextSource(k)
         matched == matchPackages(k)
         kept    == {a \in matched : \A f \in scan[k].found : f.advisory # a}
         rows    == mergeFindingsForScan(k, s, kept)
     IN  /\ episodes' = rows
         /\ Advance(k, "ok", reconcileAgainstReported(k, s, matched, kept, rows))
  /\ UNCHANGED <<disk, knows, enabled, changes, faults>>

----------------------------------------------------------------------------
\* One scan: the end.

Worst(s, agree) == CHOOSE g \in {Grade[t] : t \in {s} \cup agree} :
                     \A t \in {s} \cup agree : Grade[t] <= g

\* What the scan found in row n of an identity: a row it did not find is left alone.
FoundIn(k, i, n) == {f \in scan[k].found : <<f.source, f.advisory>> = i /\ f.episode = n}

\* Mutant: the row keeps its own source's grade.
Corroborated_graded(row, f) == [row EXCEPT !.corroborations = f.agree]
\* The set is rebuilt in full; only a corroborated row is graded again.
Corroborated(row, f) ==
  [row EXCEPT !.corroborations = f.agree,
              !.severity = IF f.agree = {} THEN @ ELSE Worst(f.source, f.agree)]

applyFindingCorroborations(k) ==
  [i \in Sources \X Advisories |-> [n \in DOMAIN episodes[i] |->
     IF FoundIn(k, i, n) = {} THEN episodes[i][n]
     ELSE Corroborated(episodes[i][n], CHOOSE f \in FoundIn(k, i, n) : TRUE)]]

recordCorroborations(k) ==
  /\ scan[k].step = "match" /\ scan[k].next \notin DOMAIN Order
  /\ episodes' = applyFindingCorroborations(k)
  /\ scan' = [scan EXCEPT ![k].step = "settle"]
  /\ UNCHANGED <<disk, knows, enabled, changes, faults>>

\* The fix clears every source's statement and every copy the scan knew of.
Settled(row, f) == [row EXCEPT !.fix = [copies |-> f.copies, sources |-> {f.source} \cup f.agree]]

applyFixSettlement(k) ==
  [i \in Sources \X Advisories |-> [n \in DOMAIN episodes[i] |->
     IF FoundIn(k, i, n) = {} THEN episodes[i][n]
     ELSE Settled(episodes[i][n], CHOOSE f \in FoundIn(k, i, n) : TRUE)]]

\* Written by row id after the registry answered; the row may have moved on.
verifyFixes(k) ==
  /\ scan[k].step = "settle"
  /\ Turn(k)
  /\ episodes' = applyFixSettlement(k)
  /\ scan' = [scan EXCEPT ![k] = Idle]
  /\ UNCHANGED <<disk, knows, enabled, changes, faults>>

SettlementFails(k) ==
  /\ scan[k].step = "settle"
  /\ Turn(k)
  /\ faults < MaxFaults /\ faults' = faults + 1
  /\ scan' = [scan EXCEPT ![k] = Idle]
  /\ UNCHANGED <<disk, knows, enabled, episodes, changes>>

\* The process ends, or one scan is aborted or its transaction throws: what was
\* merged stays merged, the rest of the scan never happens.
Interrupted(K) ==
  /\ \E k \in K : scan[k].step # "idle"
  /\ faults < MaxFaults /\ faults' = faults + 1
  /\ scan' = [k \in Slots |-> IF k \in K THEN Idle ELSE scan[k]]
  /\ UNCHANGED <<disk, knows, enabled, episodes, changes>>

ScanStep(k) ==
  \/ Begin(k) \/ resolveManifest(k)
  \/ SkipSource(k) \/ NoGraph(k) \/ SourceAnswers(k)
  \/ recordCorroborations(k) \/ verifyFixes(k)

Next ==
  \/ DiskChanges \/ FeedChanges \/ writeSourceCell
  \/ \E k \in Slots : ScanStep(k) \/ SourceFails(k) \/ SettlementFails(k)
  \/ \E k \in Slots : Interrupted({k})
  \/ Interrupted(Slots)

Spec == Init /\ [][Next]_vars

\* The cron schedule starts a scan again and again, and the event loop runs a
\* started scan to its end; nothing else is promised.
Fairness == \A k \in Slots : WF_vars(ScanStep(k))
FairSpec == Spec /\ Fairness

----------------------------------------------------------------------------
\* Properties.

TypeOK ==
  /\ disk \in [Manifests -> Lockfile]
  /\ knows \in [Sources -> SUBSET Advisories]
  /\ enabled \in SUBSET Sources
  /\ episodes \in [Sources \X Advisories -> Seq(Episode)]
  /\ scan \in [Slots -> ScanState]
  /\ changes \in 0..MaxChanges /\ faults \in 0..MaxFaults

\* Installed copies the project really has, and who is asked and knows of them.
Copies(a)    == {m \in Manifests : a \in disk[m].has}
Reporters(a) == {s \in enabled : a \in knows[s]}
Readable     == \A m \in Manifests : disk[m].is # "broken"
OpenRows(a)  == UNION {{<<s, n>> : n \in OpenOnes(episodes[<<s, a>>])} : s \in Sources}
Visible(a)   == {i \in OpenRows(a) : i[1] \in enabled}
RowAt(a, i)  == episodes[<<i[1], a>>][i[2]]

\* The scan is about to settle, every enabled source answered it, and nothing
\* has changed since it began.
Complete(k) ==
  /\ scan[k].step = "settle" /\ scan[k].since = changes
  /\ \A s \in enabled : scan[k].outcome[s] = "ok"

\* When every enabled source has answered a scan and the world held still, the
\* portal shows an affected package iff a source reports it: once, with every
\* readable copy, at the worst grade given -- whatever failed, was switched or
\* was left half done by the scans before.
TruthAfterScan ==
  \A k \in Slots : Complete(k) =>
    \A a \in Advisories :
      /\ (Copies(a) # {} /\ Reporters(a) # {}) =>
           \E i \in Visible(a) :
              /\ Copies(a) \subseteq RowAt(a, i).copies
              /\ RowAt(a, i).severity = Worst(i[1], Reporters(a))
      /\ Readable =>
           Cardinality(Visible(a)) = IF Copies(a) # {} /\ Reporters(a) # {} THEN 1 ELSE 0

\* A settled fix speaks of the copies and of the sources its row shows: no
\* verdict outlives the evidence it was given on.
SettledOnItsEvidence ==
  \A i \in Sources \X Advisories : \A n \in DOMAIN episodes[i] :
    LET row == episodes[i][n]
    IN  row.open /\ row.fix # Unsettled =>
          row.fix = [copies |-> row.copies, sources |-> {i[1]} \cup row.corroborations]

SingleOpen(rows) == \A m, n \in OpenOnes(rows) : m = n

\* An advisory never gets a second open episode from a source: two open rows of
\* one identity are the two an older release left.
NewEpisodesAreSingle ==
  \A i \in Sources \X Advisories :
    SingleOpen(episodes[i]) \/ (Legacy /\ OpenOnes(episodes[i]) = {1, 2})

\* A copy is given up only by a scan that read its manifest, or saw it gone:
\* while a manifest cannot be read, what was found in it stays open.
UnreadCopiesStay ==
  [][\A i \in Sources \X Advisories : \A n \in DOMAIN episodes[i] :
       \A m \in episodes[i][n].copies :
         (episodes[i][n].open /\ ~(episodes'[i][n].open /\ m \in episodes'[i][n].copies))
         => \E k \in Slots : m \notin unreadOf(k) /\ scan[k].step = "match"]_vars

\* While a cell is off nothing happens to its open findings.
DisabledKeepsFindings ==
  [][\A i \in Sources \X Advisories : \A n \in DOMAIN episodes[i] :
       (i[1] \notin enabled /\ episodes[i][n].open) =>
         (episodes'[i][n].open /\ episodes'[i][n].copies = episodes[i][n].copies)]_vars

\* A source that failed to answer a scan loses no agreement by it.  No run
\* checks it: it does (README, section 4).
FailureLeavesAgreement ==
  [][\A k \in Slots : (scan[k].step = "match" /\ scan'[k].step = "settle") =>
       \A i \in Sources \X Advisories : \A n \in DOMAIN episodes[i] :
         \A s \in episodes[i][n].corroborations \ episodes'[i][n].corroborations :
           scan[k].outcome[s] # "failed"]_vars

\* "No lockfile" is said only of a project of which no lockfile was read.  No
\* run checks it: it is also said of an empty one (README, section 4).
NoLockfileMeansNone ==
  \A k \in Slots, s \in Sources :
    scan[k].outcome[s] = "no_lockfile" => scan[k].read = {}

\* A finding whose package is gone from every manifest is gone after a scan of
\* an unchanged project in which nothing failed.
RemovedDisappears ==
  \A k \in Slots, a \in Advisories :
    (/\ scan[k].step = "settle" /\ scan[k].since = changes /\ Readable
     /\ \A s \in enabled : scan[k].outcome[s] \notin {"failed", "skipped"}
     /\ Copies(a) = {})
    => Visible(a) = {}

\* Once the world holds still and every manifest can be read, the portal
\* settles on exactly the affected packages some enabled source reports.
PortalConverges ==
  <>[](Readable =>
         \A a \in Advisories :
           Visible(a) # {} <=> (Copies(a) # {} /\ Reporters(a) # {}))
=============================================================================
