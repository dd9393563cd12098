----------------------- MODULE CapabilityBaseline -----------------------
(***************************************************************************)
(* The silent baseline.  A release that adds languages would notify every  *)
(* finding that existed all along; instead the findings first seen while   *)
(* the baseline is pending are stamped, the first completed sweep that     *)
(* every source answered claims the baseline, and every enabled target is  *)
(* owed one summary, sent by a single-flight dispatcher.                   *)
(*                                                                         *)
(* The program has one capability, hence one baseline.  Findings are those *)
(* of its ecosystems.  A policy stands for a target's scope and filters:   *)
(* the findings they let through; its fingerprint is the policy itself.    *)
(* One advisory cache stands for those the capability's scans read.  What  *)
(* notifies single findings is module Notifier; here they only enter       *)
(* single, once and for all.                                               *)
(***************************************************************************)
EXTENDS Integers, FiniteSets, Sequences

CONSTANTS
    Findings, Projects, ProjectOf,
    Targets,
    Sweeps,         \* full sweeps that may be under way at once
    Policies,       \* the policies an operator chooses from
    MaxAttempts,    \* MAX_SUMMARY_ATTEMPTS
    Absent,
    MaxFaults,      \* bound: crashes, transports that throw, scans that fail, dry runs
    MaxEdits        \* bound: portal edits and new findings

ASSUME BaselineAssumption ==
    /\ ProjectOf \in [Findings -> Projects]
    /\ Policies \subseteq SUBSET Findings
    /\ MaxAttempts \in Nat \ {0}
    /\ MaxFaults \in Nat /\ MaxEdits \in Nat
    /\ Absent \notin Targets

VARIABLES
    baseline,       \* capability_baselines.state
    stamped,        \* finding events with baseline_of set
    single,         \* finding events without it, told one by one
    old,            \* the findings that were there before the upgrade
    world,          \* the findings the sources would report now
    excused,        \* old findings a claim went ahead without
    usable, failed, \* the cache can be read; its last download failed
    target, muted,
    summary,        \* capability_summary_deliveries, per target
    sweep,          \* the sweeps under way, each up to the end of its dispatch
    queue,          \* the sweeps whose dispatch runs or waits its turn, in order
    delivered,      \* successes recorded, per target
    faults, edits

events == <<stamped, single, old, world, excused>>
cache  == <<usable, failed>>
policy == <<target, muted>>
vars   == <<baseline, events, cache, policy, summary, sweep, queue, delivered, faults, edits>>

NotSweeping == [at |-> "idle"]
Live   == {t \in Targets : target[t].live}
Enabled == {t \in Live : target[t].enabled}

Fault == faults < MaxFaults /\ faults' = faults + 1
Edit  == edits < MaxEdits /\ edits' = edits + 1

(***************************************************************************)
(* Scans.                                                                  *)
(***************************************************************************)

\* The stamp is decided when the event is first recorded, and never again.
Record(found) ==
    LET new == found \ (stamped \cup single)
    IN  IF baseline = "pending"
        THEN stamped' = stamped \cup new /\ UNCHANGED single
        ELSE single' = single \cup new /\ UNCHANGED stamped

FoundIn(p) == {f \in world : ProjectOf[f] = p}

\* A scan the watcher or the portal asked for.
RescanProject(p) ==
    /\ usable
    /\ Record(FoundIn(p))
    /\ UNCHANGED <<baseline, old, world, excused, cache, policy, summary, sweep, queue,
                   delivered, faults, edits>>

StartSweep(s) ==
    /\ sweep[s] = NotSweeping
    /\ sweep' = [sweep EXCEPT ![s] =
           [at |-> "scanning", left |-> Projects, notReady |-> {}, broken |-> {}]]
    /\ UNCHANGED <<baseline, events, cache, policy, summary, queue, delivered, faults, edits>>

\* One project of a sweep: answered, not answered as the cache is not ready, or failed.
\* Each counts as processed.
SweepProject(s, p) ==
    /\ sweep[s].at = "scanning" /\ p \in sweep[s].left
    /\ \/ /\ usable
          /\ Record(FoundIn(p))
          /\ sweep' = [sweep EXCEPT ![s].left = @ \ {p}]
          /\ UNCHANGED faults
       \/ /\ ~usable
          /\ sweep' = [sweep EXCEPT ![s] = [sweep[s] EXCEPT !.left = @ \ {p}, !.notReady = @ \cup {p}]]
          /\ UNCHANGED <<stamped, single, faults>>
       \/ /\ Fault
          /\ sweep' = [sweep EXCEPT ![s] = [sweep[s] EXCEPT !.left = @ \ {p}, !.broken = @ \cup {p}]]
          /\ UNCHANGED <<stamped, single>>
    /\ UNCHANGED <<baseline, old, world, excused, cache, policy, summary, queue, delivered, edits>>

(***************************************************************************)
(* The end of a sweep.                                                     *)
(***************************************************************************)
Eligible(t) == (stamped \cap target[t].policy) \ muted

\* What a summary says: numbers only, so a change in one may be made up for by another.
baselineCountsForTarget(t) ==
    [findings |-> Cardinality(Eligible(t)),
     projects |-> Cardinality({ProjectOf[f] : f \in Eligible(t)})]

\* Mutants: a cache that was not ready holds nothing back, as before 3.8.1; or it holds
\* the baseline even after its download failed.
Waiting_never(s) == FALSE

Waiting_forever(s) == sweep[s].notReady # {}

\* Scans that could not answer hold the baseline while their cache may still come.
Waiting(s) == sweep[s].notReady # {} /\ ~failed

\* The old findings a claim by sweep s goes ahead without, and may: those of projects
\* whose scan failed, and those behind a cache that could not be downloaded.
Excusable(s) ==
    {f \in old : \/ ProjectOf[f] \in sweep[s].broken
                 \/ failed /\ ProjectOf[f] \in sweep[s].notReady}

\* onCompletedSweep: a pending baseline is claimed in one transaction, and a dispatch is
\* queued whether it was claimed or not.
CompleteSweep(s) ==
    /\ sweep[s].at = "scanning" /\ sweep[s].left = {}
    /\ IF baseline = "pending" /\ ~Waiting(s)
       THEN /\ baseline' = "swept"
            /\ summary' = [t \in Targets |->
                  IF t \in Enabled
                  THEN [state |-> "open", counts |-> baselineCountsForTarget(t),
                        policy |-> target[t].policy, attempts |-> 0]
                  ELSE Absent]
            /\ excused' = excused \cup Excusable(s)
       ELSE UNCHANGED <<baseline, summary, excused>>
    /\ sweep' = [sweep EXCEPT ![s] = [at |-> "queued"]]
    /\ queue' = Append(queue, s)
    /\ UNCHANGED <<stamped, single, old, world, cache, policy, delivered, faults, edits>>

(***************************************************************************)
(* The dispatcher: one dispatch at a time, in the order of the queue.      *)
(***************************************************************************)
Open == {t \in Targets : summary[t] # Absent /\ summary[t].state = "open"}

\* Mutant: every dispatch starts at once, as without the queue.
Turn_any(s) == TRUE

Turn(s) == Head(queue) = s

\* listOpenSummaryDeliveries: the open rows as they are now.
StartDispatch(s) ==
    /\ sweep[s].at = "queued" /\ Turn(s)
    /\ sweep' = [sweep EXCEPT ![s] =
           [at |-> "dispatching", left |-> IF baseline = "swept" THEN Open ELSE {},
            seen |-> summary, to |-> Absent]]
    /\ UNCHANGED <<baseline, events, cache, policy, summary, queue, delivered, faults, edits>>

Dispatching(s) == sweep[s].at = "dispatching" /\ sweep[s].to = Absent
Sending(s)     == sweep[s].at = "dispatching" /\ sweep[s].to # Absent

\* Why a summary no longer holds: its target is disabled, or has another policy, or the
\* counts differ.
Stale(s, t) ==
    \/ ~target[t].enabled
    \/ target[t].policy # sweep[s].seen[t].policy
    \/ baselineCountsForTarget(t) # sweep[s].seen[t].counts

\* A row is passed over, its target gone, or closed without a message.
Pass(s, t) ==
    /\ Dispatching(s) /\ t \in sweep[s].left
    /\ \/ t \notin Live /\ UNCHANGED <<summary, faults>>
       \/ /\ t \in Live /\ Stale(s, t)
          /\ summary' = [summary EXCEPT ![t].state = "suppressed"]
          /\ UNCHANGED faults
       \/ /\ t \in Live /\ ~Stale(s, t)
          /\ Fault
          /\ summary' = [summary EXCEPT ![t].state = "dryRun"]
    /\ sweep' = [sweep EXCEPT ![s].left = @ \ {t}]
    /\ UNCHANGED <<baseline, events, cache, policy, queue, delivered, edits>>

\* Or an attempt is recorded, and the summary sent.
Attempt(s, t) ==
    /\ Dispatching(s) /\ t \in sweep[s].left
    /\ t \in Live /\ ~Stale(s, t)
    /\ summary' = [summary EXCEPT ![t].attempts = @ + 1]
    /\ sweep' = [sweep EXCEPT ![s] = [sweep[s] EXCEPT !.left = @ \ {t}, !.to = t]]
    /\ UNCHANGED <<baseline, events, cache, policy, queue, delivered, faults, edits>>

\* An update finds no row once the target is deleted.
Recorded(t, how) == summary' = IF summary[t] = Absent THEN summary ELSE [summary EXCEPT ![t].state = how]

SendSucceeds(s) ==
    /\ Sending(s)
    /\ Recorded(sweep[s].to, "sent")
    /\ delivered' = [delivered EXCEPT ![sweep[s].to] = @ + 1]
    /\ sweep' = [sweep EXCEPT ![s].to = Absent]
    /\ UNCHANGED <<baseline, events, cache, policy, queue, faults, edits>>

Spent(s, t) == sweep[s].seen[t].attempts + 1 >= MaxAttempts

SendFails(s) ==
    /\ Sending(s)
    /\ IF Spent(s, sweep[s].to) THEN Recorded(sweep[s].to, "gaveUp") ELSE UNCHANGED summary
    /\ sweep' = [sweep EXCEPT ![s].to = Absent]
    /\ UNCHANGED <<baseline, events, cache, policy, queue, delivered, faults, edits>>

Returned(s) ==
    /\ sweep' = [sweep EXCEPT ![s] = NotSweeping]
    /\ queue' = Tail(queue)

\* A transport that throws fails its own dispatch; those behind it are served.
SendThrows(s) ==
    /\ Sending(s)
    /\ Fault
    /\ Returned(s)
    /\ UNCHANGED <<baseline, events, cache, policy, summary, delivered, edits>>

\* closeFinishedBaselines, once every row was looked at.
EndDispatch(s) ==
    /\ Dispatching(s) /\ sweep[s].left = {}
    /\ baseline' = IF baseline = "swept" /\ Open = {} THEN "done" ELSE baseline
    /\ Returned(s)
    /\ UNCHANGED <<events, cache, policy, summary, delivered, faults, edits>>

\* A crash loses sweeps, queue and dispatch, and what is known of failed downloads.
Crash ==
    /\ Fault
    /\ sweep' = [s \in Sweeps |-> NotSweeping]
    /\ queue' = <<>>
    /\ failed' = FALSE
    /\ UNCHANGED <<baseline, events, usable, policy, summary, delivered, edits>>

(***************************************************************************)
(* The cache, the portal, and new findings.                                *)
(***************************************************************************)
\* The cache becomes readable before the sync that filled it settles.
CacheLands ==
    /\ ~usable /\ usable' = TRUE
    /\ UNCHANGED <<baseline, events, failed, policy, summary, sweep, queue, delivered, faults, edits>>

\* A sync settles; the cache it leaves behind says whether it failed.
SyncSettles ==
    /\ failed' = ~usable
    /\ UNCHANGED <<baseline, events, usable, policy, summary, sweep, queue, delivered, faults, edits>>

EditTarget(t, on, pol) ==
    /\ Edit
    /\ t \in Live
    /\ target' = [target EXCEPT ![t].enabled = on, ![t].policy = pol]
    /\ UNCHANGED <<baseline, events, cache, muted, summary, sweep, queue, delivered, faults>>

AddTarget(t, pol) ==
    /\ Edit
    /\ target[t] = [live |-> FALSE, enabled |-> FALSE, policy |-> {}] /\ summary[t] = Absent
    /\ target' = [target EXCEPT ![t] = [live |-> TRUE, enabled |-> TRUE, policy |-> pol]]
    /\ UNCHANGED <<baseline, events, cache, muted, summary, sweep, queue, delivered, faults>>

\* The summary row goes with its target.  What is left of a deleted target differs from
\* one that was never created: an id is not used twice.
DeleteTarget(t) ==
    /\ Edit
    /\ t \in Live
    /\ target' = [target EXCEPT ![t].live = FALSE, ![t].enabled = TRUE]
    /\ summary' = [summary EXCEPT ![t] = Absent]
    /\ UNCHANGED <<baseline, events, cache, muted, sweep, queue, delivered, faults>>

ChangeMute(f) ==
    /\ Edit
    /\ muted' = IF f \in muted THEN muted \ {f} ELSE muted \cup {f}
    /\ UNCHANGED <<baseline, events, cache, target, summary, sweep, queue, delivered, faults>>

NewFinding(f) ==
    /\ Edit
    /\ f \notin world /\ world' = world \cup {f}
    /\ UNCHANGED <<baseline, stamped, single, old, excused, cache, policy, summary, sweep, queue,
                   delivered, faults>>

-----------------------------------------------------------------------------
\* The boot after the upgrade: a fresh install has nothing that existed all along.
Init ==
    /\ baseline \in {"pending", "done"}
    /\ world \in SUBSET Findings
    /\ old = IF baseline = "pending" THEN world ELSE {}
    /\ stamped = {} /\ single = {} /\ excused = {}
    /\ usable \in BOOLEAN /\ failed = FALSE
    /\ target \in [Targets -> {[live |-> FALSE, enabled |-> FALSE, policy |-> {}]}
                        \cup [live : {TRUE}, enabled : {TRUE}, policy : Policies]]
    /\ muted = {}
    /\ summary = [t \in Targets |-> Absent]
    /\ sweep = [s \in Sweeps |-> NotSweeping]
    /\ queue = <<>>
    /\ delivered = [t \in Targets |-> 0]
    /\ faults = 0 /\ edits = 0

Dispatch(s) ==
    \/ StartDispatch(s)
    \/ \E t \in Targets : Pass(s, t) \/ Attempt(s, t)
    \/ SendSucceeds(s) \/ SendFails(s) \/ SendThrows(s) \/ EndDispatch(s)

Next ==
    \/ \E p \in Projects : RescanProject(p)
    \/ \E s \in Sweeps :
          StartSweep(s) \/ CompleteSweep(s) \/ Dispatch(s)
              \/ \E p \in Projects : SweepProject(s, p)
    \/ Crash
    \/ CacheLands \/ SyncSettles
    \/ \E t \in Targets :
          \/ \E on \in BOOLEAN, pol \in Policies : EditTarget(t, on, pol)
          \/ \E pol \in Policies : AddTarget(t, pol)
          \/ DeleteTarget(t)
    \/ \E f \in Findings : ChangeMute(f) \/ NewFinding(f)

Spec == Init /\ [][Next]_vars

\* The scheduler sweeps for ever, a sweep gets through its projects, a dispatch through
\* its rows, and a sync that runs settles.  A channel may go on failing.
FairSpec ==
    /\ Spec
    /\ \A s \in Sweeps :
          /\ WF_vars(StartSweep(s))
          /\ WF_vars(\E p \in Projects : SweepProject(s, p))
          /\ WF_vars(CompleteSweep(s))
          /\ WF_vars(Dispatch(s))
    /\ WF_vars(SyncSettles)

-----------------------------------------------------------------------------
TypeOK ==
    /\ baseline \in {"pending", "swept", "done"}
    /\ stamped \subseteq Findings /\ single \subseteq Findings /\ stamped \cap single = {}
    /\ old \subseteq world /\ world \subseteq Findings /\ excused \subseteq old
    /\ usable \in BOOLEAN /\ failed \in BOOLEAN
    /\ target \in [Targets -> [live : BOOLEAN, enabled : BOOLEAN, policy : SUBSET Findings]]
    /\ muted \subseteq Findings
    /\ summary \in [Targets -> {Absent} \cup
          [state : {"open", "sent", "suppressed", "dryRun", "gaveUp"},
           counts : [findings : Nat, projects : Nat], policy : SUBSET Findings, attempts : Nat]]
    /\ queue \in Seq(Sweeps)
    /\ \A s \in Sweeps : sweep[s].at = "dispatching" =>
          sweep[s].left \subseteq Targets /\ sweep[s].to \in Targets \cup {Absent}
    /\ delivered \in [Targets -> Nat]
    /\ faults \in 0..MaxFaults /\ edits \in 0..MaxEdits

\* The comment on recordSummaryAttempt: a crash repeats a summary within the budget.
AttemptsWithinBudget ==
    \A t \in Targets : summary[t] # Absent => summary[t].attempts <= MaxAttempts

\* A finding that was there all along is never told by itself, but for those a claim had
\* to go ahead without: a sweep does not end the baseline while a cache it needed may come.
OldNewsIsSilent == single \cap old \subseteq excused

Settled(t) == summary[t] # Absent /\ summary[t].state # "open"

\* Two overlapping dispatches make one sender call per summary: no target has two
\* successes, the row of a summary on its way is open for as long as its target exists,
\* and a settled row, suppressed ones included, stays as it is until the target is
\* deleted, even under a dispatch that read it while it was open.
OneSummary ==
    [][/\ \A t \in Targets : delivered'[t] <= 1 /\ (Settled(t) => summary'[t] \in {Absent, summary[t]})
       /\ \A s \in Sweeps : Sending(s)' => ~Settled(sweep[s].to)']_vars

\* The baseline ends, whatever the caches and channels do: a failed download releases it,
\* a dead channel is given up on, and a lost attempt is made again.
BaselineEnds == <>[](baseline = "done")

=============================================================================
