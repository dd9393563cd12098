---------------------------- MODULE GemnasiumSync ----------------------------
(***************************************************************************)
(* The gemnasium cache (gemnasium.db) and the syncs that write to it.      *)
(*                                                                         *)
(* Upstream is a git repository: every commit fixes the content of every   *)
(* advisory file.  A sync asks for the head commit and either compares it  *)
(* with the stored one and applies the changed files (incremental), or     *)
(* streams the whole archive over the existing rows and purges what the    *)
(* archive did not hold (rebuild).  Syncs are started at boot, by cron and *)
(* by "Refresh now", and nothing makes one wait for another.               *)
(***************************************************************************)
EXTENDS Naturals, FiniteSets

CONSTANTS
    Advisories,
    MaxRevision,      \* distinct contents an advisory file can have
    MaxCommit,        \* commits upstream
    Slots,            \* syncs that may run at once
    MaxBreaks,        \* crashes and failed requests, together
    MaxBuild          \* normalizer versions shipped

ASSUME UpstreamAssumption == MaxRevision \in Nat \ {0} /\ MaxCommit \in Nat \ {0}
ASSUME BreaksAssumption == MaxBreaks \in Nat /\ MaxBuild \in Nat \ {0}

Absent == 0                     \* the file, or its row, does not exist
NoSha == 0
Commits == 1..MaxCommit
Rows == [Advisories -> 0..MaxRevision]
NoRows == [a \in Advisories |-> Absent]

VARIABLES
    head, content,              \* upstream: the newest commit, each commit's files
    build,                      \* GEMNASIUM_NORMALIZER_VERSION of the running code
    rows,                       \* gemnasium_advisories
    seedComplete, version, sha, \* gemnasium_meta: version is normalizerVersion, sha headSha
    sync,                       \* sync[i]: the sync in slot i
    strays,                     \* history: rows that may not be those of the commit
    torn,                       \* history: rows purged for a commit that was not recorded
    breaks

upstream == <<head, content>>
meta == <<seedComplete, version, sha>>
gemVars == <<upstream, build, rows, meta, sync, strays, torn, breaks>>

\* The purge and the stamps after it are statements of their own, with no await between.
Stamping == {"purged", "seeded", "versioned"}

\* trusted, from: the meta read before the first request; to: the head commit it
\* answered; snap: the commit the archive holds; seen: the rows streamed so far.
NoSync == [step |-> "idle", trusted |-> FALSE, from |-> NoSha, to |-> NoSha,
         snap |-> NoSha, listed |-> {}, seen |-> {}]

GemTypeOK ==
    /\ head \in Commits
    /\ content \in [Commits -> Rows]
    /\ build \in 1..MaxBuild
    /\ rows \in Rows
    /\ seedComplete \in BOOLEAN
    /\ version \in 0..MaxBuild
    /\ sha \in 0..head
    /\ sync \in [Slots -> [step : {"idle", "asking", "applying", "rebuild", "stream"} \cup Stamping,
                           trusted : BOOLEAN, from : 0..MaxCommit, to : 0..MaxCommit,
                           snap : 0..MaxCommit, listed : SUBSET Advisories, seen : SUBSET Advisories]]
    /\ strays \subseteq Advisories
    /\ torn \subseteq Advisories
    /\ breaks \in 0..MaxBreaks

\* gemnasiumCacheUsable: what the scanner gates on.
Usable == seedComplete /\ version = build

GemInit ==
    /\ head = 1
    /\ content \in [Commits -> Rows]
    /\ \A c \in Commits : content[c] # NoRows
    /\ build = 1
    /\ rows = NoRows
    /\ seedComplete = FALSE
    /\ version = 0
    /\ sha = NoSha
    /\ sync = [i \in Slots |-> NoSync]
    /\ strays = {}
    /\ torn = {}
    /\ breaks = 0

Goes(i, s) == sync' = [sync EXCEPT ![i] = s]
Breaks == breaks < MaxBreaks /\ breaks' = breaks + 1

-----------------------------------------------------------------------------
(* Upstream.  The commits are chosen in GemInit and become visible one by one. *)

HeadMoves ==
    /\ head < MaxCommit
    /\ head' = head + 1
    /\ UNCHANGED <<content, build, rows, meta, sync, strays, torn, breaks>>

Differ(c, d) == {a \in Advisories : content[c][a] # content[d][a]}

\* a at commit c is b at commit d, and git may call that one renamed file.
Moved(c, d, a, b) ==
    /\ content[c][a] # Absent /\ content[d][a] = Absent
    /\ content[c][b] = Absent /\ content[d][b] = content[c][a]

\* fetchGemnasiumChangedPaths reads new_path only, so the old place of a renamed
\* file is not in the list.
Listings(c, d) ==
    {Differ(c, d)} \cup
    {Differ(c, d) \ {p[1]} : p \in {q \in Advisories \X Advisories : Moved(c, d, q[1], q[2])}}

-----------------------------------------------------------------------------
(* The choice between the two paths. *)

\* runSync: the meta is read, then the head commit is asked for.
Begin(i) ==
    /\ sync[i].step = "idle"
    /\ Goes(i, [NoSync EXCEPT !.step = "asking", !.trusted = Usable, !.from = sha])
    /\ UNCHANGED <<upstream, build, rows, meta, strays, torn, breaks>>

Comparable(i) == sync[i].trusted /\ sync[i].from # NoSha

\* Mutant: any stored commit is taken for the present one.
Current_stored(i) == Comparable(i)

\* The head answered is the commit the cache was built from.
Current(i) == Comparable(i) /\ sync[i].from = head

HeadUnchanged(i) ==
    /\ sync[i].step = "asking"
    /\ Current(i)
    /\ Goes(i, NoSync)
    /\ UNCHANGED <<upstream, build, rows, meta, strays, torn, breaks>>

\* Only the commit moves when no listed file concerns this cache.
NothingListed(i) ==
    /\ sync[i].step = "asking"
    /\ Comparable(i) /\ ~Current(i)
    /\ {} \in Listings(sync[i].from, head)
    /\ sha' = head
    /\ strays' = strays \cup Differ(sync[i].from, head)
    /\ Goes(i, NoSync)
    /\ UNCHANGED <<upstream, build, rows, seedComplete, version, torn, breaks>>

StartIncrement(i) ==
    /\ sync[i].step = "asking"
    /\ Comparable(i) /\ ~Current(i)
    /\ \E listed \in Listings(sync[i].from, head) \ {{}} :
         Goes(i, [sync[i] EXCEPT !.step = "applying", !.to = head, !.listed = listed])
    /\ UNCHANGED <<upstream, build, rows, meta, strays, torn, breaks>>

\* No provenance, no answer for the head (to stays null), or a compare that
\* failed, timed out or listed too many files.
StartRebuild(i) ==
    /\ sync[i].step = "asking"
    /\ \E to \in {NoSha, head} :
         /\ Comparable(i) => to # sync[i].from
         /\ Comparable(i) \/ to = NoSha => Breaks
         /\ ~(Comparable(i) \/ to = NoSha) => UNCHANGED breaks
         /\ Goes(i, [NoSync EXCEPT !.step = "rebuild", !.to = to])
    /\ UNCHANGED <<upstream, build, rows, meta, strays, torn>>

-----------------------------------------------------------------------------
(* The two ways of bringing the cache to a commit. *)

\* Every listed file was fetched at one commit; its rows and the commit are
\* published in one transaction.
ApplyIncrement(i) ==
    /\ sync[i].step = "applying"
    /\ rows' = [a \in Advisories |-> IF a \in sync[i].listed THEN content[sync[i].to][a] ELSE rows[a]]
    /\ sha' = sync[i].to
    /\ strays' = (strays \cup Differ(sync[i].from, sync[i].to)) \ sync[i].listed
    /\ torn' = torn \ sync[i].listed
    /\ Goes(i, NoSync)
    /\ UNCHANGED <<upstream, build, seedComplete, version, breaks>>

IncrementFails(i) ==
    /\ sync[i].step = "applying"
    /\ Breaks
    /\ Goes(i, NoSync)
    /\ UNCHANGED <<upstream, build, rows, meta, strays, torn>>

\* The archive opens at the resolved commit, or at the branch when there is none.
OpenArchive(i) ==
    /\ sync[i].step = "rebuild"
    /\ Goes(i, [sync[i] EXCEPT !.step = "stream", !.snap = IF sync[i].to = NoSha THEN head ELSE sync[i].to])
    /\ UNCHANGED <<upstream, build, rows, meta, strays, torn, breaks>>

Archive(i) == {a \in Advisories : content[sync[i].snap][a] # Absent}

\* A batch is written over the rows that are there.
StreamBatch(i) ==
    /\ sync[i].step = "stream"
    /\ \E batch \in SUBSET (Archive(i) \ sync[i].seen) \ {{}} :
        /\ rows' = [a \in Advisories |-> IF a \in batch THEN content[sync[i].snap][a] ELSE rows[a]]
        /\ strays' = strays \cup batch
        /\ torn' = torn \ batch
        /\ Goes(i, [sync[i] EXCEPT !.seen = @ \cup batch])
    /\ UNCHANGED <<upstream, build, meta, breaks>>

\* Mutant: nothing is purged.
Purged_none(i) == rows

\* deleteGemnasiumAdvisoriesExcept: rows the pass did not see go.
Purged(i) == [a \in Advisories |-> IF a \in sync[i].seen THEN rows[a] ELSE Absent]

Unseen(i) == {a \in Advisories \ sync[i].seen : rows[a] # Absent}

\* The whole archive is in: the rest goes, in a transaction of its own, while the meta
\* still names the commit before.
Purge(i) ==
    /\ sync[i].step = "stream"
    /\ sync[i].seen = Archive(i)
    /\ rows' = Purged(i)
    /\ strays' = strays \cup Unseen(i)
    /\ torn' = torn \cup Unseen(i)
    /\ Goes(i, [sync[i] EXCEPT !.step = "purged"])
    /\ UNCHANGED <<upstream, build, meta, breaks>>

StampSeed(i) ==
    /\ sync[i].step = "purged"
    /\ seedComplete' = TRUE
    /\ Goes(i, [sync[i] EXCEPT !.step = "seeded"])
    /\ UNCHANGED <<upstream, build, rows, version, sha, strays, torn, breaks>>

StampVersion(i) ==
    /\ sync[i].step = "seeded"
    /\ version' = build
    /\ Goes(i, [sync[i] EXCEPT !.step = "versioned"])
    /\ UNCHANGED <<upstream, build, rows, seedComplete, sha, strays, torn, breaks>>

\* Only now do the meta say which commit the rows are of.
StampHead(i) ==
    /\ sync[i].step = "versioned"
    /\ sha' = sync[i].to
    /\ strays' = {}
    /\ torn' = {}
    /\ Goes(i, NoSync)
    /\ UNCHANGED <<upstream, build, rows, seedComplete, version, breaks>>

\* Mutant: the purge runs when the stream ends, whichever way it ends.
RebuildFails_purges(i) ==
    /\ sync[i].step = "stream"
    /\ Breaks
    /\ rows' = Purged(i)
    /\ Goes(i, NoSync)
    /\ UNCHANGED <<upstream, build, meta, strays, torn>>

\* The stream breaks, or a write after it throws; what was written before stays.
RebuildFails(i) ==
    /\ sync[i].step \in {"rebuild", "stream"} \cup Stamping
    /\ Breaks
    /\ Goes(i, NoSync)
    /\ UNCHANGED <<upstream, build, rows, meta, strays, torn>>

\* The worker dies and comes back, perhaps as a newer build.
Restart ==
    /\ Breaks
    /\ sync' = [i \in Slots |-> NoSync]
    /\ build' \in {build} \cup {b \in 1..MaxBuild : b = build + 1}
    /\ UNCHANGED <<upstream, rows, meta, strays, torn>>

-----------------------------------------------------------------------------

Step(i) ==
    /\ \A j \in Slots \ {i} : sync[j].step \notin Stamping
    /\ \/ Begin(i)
       \/ HeadUnchanged(i) \/ NothingListed(i) \/ StartIncrement(i) \/ StartRebuild(i)
       \/ ApplyIncrement(i) \/ IncrementFails(i)
       \/ OpenArchive(i) \/ StreamBatch(i) \/ RebuildFails(i)
       \/ Purge(i) \/ StampSeed(i) \/ StampVersion(i) \/ StampHead(i)

GemNext ==
    \/ HeadMoves
    \/ \E i \in Slots : Step(i)
    \/ Restart

GemSpec == GemInit /\ [][GemNext]_gemVars

\* The daily cron keeps starting syncs and every request is answered or times out.
GemFairSpec == GemSpec /\ \A i \in Slots : WF_gemVars(Step(i))

-----------------------------------------------------------------------------
(* Properties. *)

\* No false negative: every advisory live at the recorded commit has a row, even
\* while a rebuild is streaming over the cache, after one broke off, and when
\* upstream moves files (rebuildGemnasium purges only after the whole stream).  The
\* exceptions are the rows a rebuild purged before it failed, or died, on the way to
\* recording its commit: their advisories are gone from some commit upstream reached.
LiveAdvisoriesHaveRows ==
    Usable /\ sha # NoSha =>
        \A a \in Advisories :
            content[sha][a] # Absent /\ rows[a] = Absent =>
                a \in torn /\ \E c \in 1..head : content[c][a] = Absent

\* The same without the exceptions: false between the purge and the last stamp.
NothingIsTorn == Usable /\ sha # NoSha => \A a \in Advisories : content[sha][a] # Absent => rows[a] # Absent

\* Between syncs the rows are those of the recorded commit, but for what a rebuild that
\* did not come to record its commit wrote or purged and what a rename left out of the
\* change list (rebuildGemnasium: "the next compare starts exactly where this pass ended").
RowsMatchSha ==
    Usable /\ sha # NoSha /\ (\A i \in Slots : sync[i].step = "idle") =>
        \A a \in Advisories \ strays : rows[a] = content[sha][a]

\* What that comment says without the exceptions: false, as the strays show.
NoStrays == Usable /\ (\A i \in Slots : sync[i].step = "idle") => \A a \in strays : rows[a] = content[sha][a]

\* Once upstream is quiet and faults are over the cache reaches the head commit
\* and stays usable.
CatchesUp == <>[](Usable /\ sha = head)
=============================================================================
