---------------------------- MODULE Notifier ----------------------------
(***************************************************************************)
(* The notifier: what one scan of a project records in the event ledger,   *)
(* which (event, target) pairs it selects, and the messages it posts, with *)
(* the delivery ledger written around every post.                          *)
(*                                                                         *)
(* Lanes are the scans under way at once: the scheduler, the request       *)
(* poller and the watcher may all scan one project at the same time.  They *)
(* share one thread and yield it at each await (thread).  The portal edits *)
(* targets and mutes from another process, between any two statements.     *)
(*                                                                         *)
(* Events are the findings and, for a failed scan, the project itself (one *)
(* failure signature per project).  Time is kept only as an order: older   *)
(* holds the pairs whose event was first seen before the target existed.   *)
(* The prod/dev and cell filters act on an event exactly as the severity   *)
(* filter does and are folded into it; an expired mute stops matching at   *)
(* once, so expiry and the operator's unmute are one action.               *)
(***************************************************************************)
EXTENDS Integers, FiniteSets

CONSTANTS
    Findings,       \* finding identities (project, source, ecosystem, advisory, package)
    Projects, Roots,
    ProjectOf,      \* the project of each finding
    RootOf,         \* the root of each project
    Targets,        \* notification targets that may ever be created
    Lanes,          \* scans that may be under way at once
    Grades,         \* severities
    Silent,         \* the findings in the ecosystems of a capability being baselined
    Filters,        \* the severity filters an operator chooses from
    Scopes,         \* the root and project lists an operator chooses from
    None, Free, NoTarget,
    MaxFaults,      \* bound: crashes, failed scans, failed posts and dry runs
    MaxEdits        \* bound: portal edits, changes of the findings, end of the baseline

ASSUME NotifierAssumption ==
    /\ ProjectOf \in [Findings -> Projects]
    /\ RootOf \in [Projects -> Roots]
    /\ Findings \cap Projects = {}
    /\ Silent \subseteq Findings
    /\ Filters \subseteq SUBSET Grades
    /\ Scopes \subseteq [roots : SUBSET Roots, projects : SUBSET Projects]
    /\ None \notin Grades
    /\ Free \notin Lanes
    /\ NoTarget \notin Targets
    /\ MaxFaults \in Nat /\ MaxEdits \in Nat

Events == Findings \cup Projects

ProjOf(e) == IF e \in Projects THEN e ELSE ProjectOf[e]

VARIABLES
    world,      \* the grade the sources give each finding now, or None
    open,       \* the findings table: the grade of each open row, or None
    event,      \* notification_events: None, or severity and baseline stamp
    delivery,   \* notification_deliveries, per event and target
    older,      \* pairs whose event was first seen before the target was created
    target,     \* notification_targets and their scope rows
    writes,     \* the scope writes a portal action has still to make, per target
    asked,      \* the projects the operator ever put in a target's scope
    mutes,      \* active mutes: of a finding, or of a whole project
    pending,    \* whether the silent baseline is still pending
    lane, thread,
    accepted,   \* how many messages about the event the target's channel took
    crowd,      \* history: the most passes that held the pair at one time
    faults, edits

ledger == <<event, delivery, older>>
portal == <<target, writes, asked, mutes>>
lanes  == <<lane, thread>>
told   == <<accepted, crowd>>
vars   == <<world, open, ledger, portal, pending, lanes, told, faults, edits>>

Idle   == [at |-> "idle"]
Live   == {t \in Targets : target[t].state = "live"}
NoScope == [roots |-> {}, projects |-> {}]

(***************************************************************************)
(* Which target would be told about which event.                           *)
(***************************************************************************)
\* Zero rows in both scope tables mean everything; otherwise the lists add up.
InScope(s, p) == s = NoScope \/ RootOf[p] \in s.roots \/ p \in s.projects

Muted(e) == e \in mutes \/ ProjOf(e) \in mutes

\* Scan failures pass the severity filter; both kinds obey scope and mutes.
Eligible(ev, e, t) ==
    /\ e \in Findings => ev[e].severity \in target[t].filter
    /\ InScope(target[t].scope, ProjOf(e))
    /\ ~Muted(e)

\* Mutant: a success recorded for the pair does not stop the next pass.
Dispatchable_again(ev, p, t) ==
    {e \in Events :
        /\ ProjOf(e) = p
        /\ ev[e] # None
        /\ t \in Live /\ target[t].enabled
        /\ <<e, t>> \notin older \/ delivery[<<e, t>>] = "placeholder"
        /\ ~ev[e].silent
        /\ Eligible(ev, e, t)}

\* The rows selectDispatchablePairs returns for project p and target t.  A backfill's
\* placeholder keeps its null first attempt through every retry, so it stays exempt
\* from the creation gate.
Dispatchable(ev, p, t) ==
    {e \in Events :
        /\ ProjOf(e) = p
        /\ ev[e] # None
        /\ t \in Live /\ target[t].enabled
        /\ delivery[<<e, t>>] # "done"
        /\ <<e, t>> \notin older \/ delivery[<<e, t>>] = "placeholder"
        /\ ~ev[e].silent
        /\ Eligible(ev, e, t)}

(***************************************************************************)
(* A scan, and the event ledger.                                           *)
(***************************************************************************)
\* Mutant: a severity frozen at its first value.

Upserted_frozen(e, sev) ==
    IF event[e] = None
    THEN [severity |-> sev, silent |-> pending /\ e \in Silent]
    ELSE event[e]

\* The baseline stamp is decided at the first sighting; the severity is refreshed.
Upserted(e, sev) ==
    IF event[e] = None
    THEN [severity |-> sev, silent |-> pending /\ e \in Silent]
    ELSE [event[e] EXCEPT !.severity = IF sev = None THEN @ ELSE sev]

\* A project is scanned and its findings merged; the outcome is kept in memory.
StartScan(l, p) ==
    /\ lane[l] = Idle /\ thread = Free
    /\ LET found == [f \in Findings |-> IF ProjectOf[f] = p THEN world[f] ELSE None]
       IN  /\ open' = [f \in Findings |-> IF ProjectOf[f] = p THEN found[f] ELSE open[f]]
           /\ lane' = [lane EXCEPT ![l] =
                  [at |-> "scanned", project |-> p, found |-> found, failed |-> FALSE]]
    /\ UNCHANGED <<world, ledger, portal, pending, thread, told, faults, edits>>

\* A scan that fails reports nothing and leaves the rows as they are.
FailScan(l, p) ==
    /\ lane[l] = Idle /\ thread = Free
    /\ faults < MaxFaults /\ faults' = faults + 1
    /\ lane' = [lane EXCEPT ![l] =
           [at |-> "scanned", project |-> p,
            found |-> [f \in Findings |-> None], failed |-> TRUE]]
    /\ UNCHANGED <<world, open, ledger, portal, pending, thread, told, edits>>

\* The passes that have selected a pair and not come to the end of it.
Due(s, e, t) == s.at = "sending" /\ (e \in s.groups[t] \/ (t = s.to /\ e \in s.failures \cup s.message))
Passes(e, t) == {l \in Lanes : Due(lane[l], e, t)}

\* notifyForCompletedScan up to its first await: the events are upserted, the pairs of
\* the whole project selected and grouped by target.  A dry run posts nothing.
Notify(l, dry) ==
    /\ lane[l].at = "scanned" /\ thread = Free
    /\ dry => faults < MaxFaults
    /\ faults' = IF dry THEN faults + 1 ELSE faults
    /\ LET p    == lane[l].project
           seen == {f \in Findings : lane[l].found[f] # None}
                       \cup (IF lane[l].failed THEN {p} ELSE {})
           Sev(e) == IF e \in Findings THEN lane[l].found[e] ELSE None
           ev   == [e \in Events |-> IF e \in seen THEN Upserted(e, Sev(e)) ELSE event[e]]
       IN  /\ event' = ev
           /\ lane' = [lane EXCEPT ![l] =
                  [at |-> "sending", found |-> lane[l].found,
                   groups |-> [t \in Targets |-> IF dry THEN {} ELSE Dispatchable(ev, p, t)],
                   to |-> NoTarget, failures |-> {}, message |-> {}, text |-> {}]]
    /\ thread' = l
    /\ crowd' = [x \in Events \X Targets |->
           IF Cardinality(Passes(x[1], x[2])') > crowd[x] THEN Cardinality(Passes(x[1], x[2])') ELSE crowd[x]]
    /\ UNCHANGED <<world, open, delivery, older, portal, pending, accepted, edits>>

(***************************************************************************)
(* Posting the messages of one pass, target by target.                     *)
(***************************************************************************)
\* The findings a message of this pass can describe: found by its scan, or open now.
Describable(l) == {f \in Findings : lane[l].found[f] # None \/ open[f] # None}

\* Mutant: every finding event of the group is recorded, described or not.
Matched_all(l, es) == es \cap Findings

\* The events of a findings message: only those it describes are recorded with it.
Matched(l, es) == es \cap Describable(l)

\* Mutant: an attempt fills in the null first attempt of a backfill's placeholder.
Attempted_stamped(d) == IF d = "done" THEN d ELSE "tried"

\* A row as recordAttempt leaves it: only a new row gets a first attempt.
Attempted(d) == IF d = "none" THEN "tried" ELSE d

\* The attempt is recorded before the post.  For a target deleted since the selection
\* the insert breaks a foreign key, which ends the whole pass.
Post(l, t, es, rest, groups) ==
    \/ /\ es = {}
       /\ lane' = [lane EXCEPT ![l].to = t, ![l].failures = rest, ![l].groups = groups]
       /\ UNCHANGED <<delivery, thread>>
    \/ /\ es # {} /\ t \in Live
       /\ delivery' = [x \in Events \X Targets |->
              IF x \in es \X {t} THEN Attempted(delivery[x]) ELSE delivery[x]]
       /\ lane' = [lane EXCEPT ![l].to = t, ![l].failures = rest, ![l].groups = groups,
                               ![l].message = es, ![l].text = es \cap (Describable(l) \cup Projects)]
       /\ thread' = Free
    \/ /\ es # {} /\ t \notin Live
       /\ lane' = [lane EXCEPT ![l] = Idle]
       /\ thread' = Free
       /\ UNCHANGED delivery

Running(l) == thread = l /\ lane[l].at = "sending" /\ lane[l].message = {}

\* The next target: its findings go out first, as one message.
NextGroup(l) ==
    /\ Running(l) /\ lane[l].failures = {}
    /\ \E t \in Targets :
          /\ lane[l].groups[t] # {}
          /\ Post(l, t, Matched(l, lane[l].groups[t]), lane[l].groups[t] \cap Projects,
                  [lane[l].groups EXCEPT ![t] = {}])
    /\ UNCHANGED <<world, open, event, older, portal, pending, told, faults, edits>>

\* Then each of its scan failures, in a message of its own.
NextFailure(l) ==
    /\ Running(l)
    /\ \E e \in lane[l].failures :
          Post(l, lane[l].to, {e}, lane[l].failures \ {e}, lane[l].groups)
    /\ UNCHANGED <<world, open, event, older, portal, pending, told, faults, edits>>

Finish(l) ==
    /\ Running(l) /\ lane[l].failures = {}
    /\ \A t \in Targets : lane[l].groups[t] = {}
    /\ lane' = [lane EXCEPT ![l] = Idle]
    /\ thread' = Free
    /\ UNCHANGED <<world, open, ledger, portal, pending, told, faults, edits>>

Waiting(l) == lane[l].at = "sending" /\ lane[l].message # {}

\* How many messages about each pair the channels have taken, once those of ls are in.
Taken(ls) ==
    [x \in Events \X Targets |->
        accepted[x] + Cardinality({l \in ls : x \in lane[l].text \X {lane[l].to}})]

\* The answer, recorded for every event of the message.  A row whose target was deleted
\* has lost its link, and the update finds nothing.
Succeed(l) ==
    /\ Waiting(l) /\ thread = Free
    /\ delivery' = [x \in Events \X Targets |->
           IF x \in lane[l].message \X {lane[l].to} /\ delivery[x] # "none"
           THEN "done" ELSE delivery[x]]
    /\ accepted' = Taken({l})
    /\ lane' = [lane EXCEPT ![l].message = {}, ![l].text = {}]
    /\ thread' = l
    /\ UNCHANGED <<world, open, event, older, portal, pending, crowd, faults, edits>>

\* An error or a timeout, after which the channel may or may not have taken the message.
Fail(l) ==
    /\ Waiting(l) /\ thread = Free
    /\ faults < MaxFaults /\ faults' = faults + 1
    /\ \E ls \in SUBSET {l} : accepted' = Taken(ls)
    /\ lane' = [lane EXCEPT ![l].message = {}, ![l].text = {}]
    /\ thread' = l
    /\ UNCHANGED <<world, open, ledger, portal, pending, crowd, edits>>

\* The worker dies: every pass is lost, what it wrote stays, and any message on its way
\* may have arrived.
Crash ==
    /\ faults < MaxFaults /\ faults' = faults + 1
    /\ \E l \in Lanes : lane[l] # Idle
    /\ \E ls \in SUBSET {l \in Lanes : Waiting(l)} : accepted' = Taken(ls)
    /\ lane' = [l \in Lanes |-> Idle]
    /\ thread' = Free
    /\ UNCHANGED <<world, open, ledger, portal, pending, crowd, edits>>

(***************************************************************************)
(* The portal, and the world outside.                                      *)
(***************************************************************************)
Edit == edits < MaxEdits /\ edits' = edits + 1

Covered(s) == {p \in Projects : InScope(s, p)}

\* The target row is inserted first; its roots and its projects are two writes more.
CreateTarget(t, on, filter, s) ==
    /\ Edit
    /\ target[t].state = "none"
    /\ target' = [target EXCEPT ![t] =
           [state |-> "live", enabled |-> on, filter |-> filter, scope |-> NoScope]]
    /\ older' = older \cup {<<e, t>> : e \in {x \in Events : event[x] # None}}
    /\ writes' = [writes EXCEPT ![t] = [left |-> {"roots", "projects"}, scope |-> s]]
    /\ asked' = [asked EXCEPT ![t] = Covered(s)]
    /\ UNCHANGED <<world, open, event, delivery, mutes, pending, lanes, told, faults>>

\* An edit writes the row, then the roots, then the projects.
UpdateTarget(t, on, filter, s) ==
    /\ Edit
    /\ t \in Live /\ writes[t].left = {}
    /\ target' = [target EXCEPT ![t].enabled = on, ![t].filter = filter]
    /\ writes' = [writes EXCEPT ![t] = [left |-> {"roots", "projects"}, scope |-> s]]
    /\ asked' = [asked EXCEPT ![t] = @ \cup Covered(s)]
    /\ UNCHANGED <<world, open, ledger, mutes, pending, lanes, told, faults>>

\* Each list is replaced in a transaction of its own.
WriteScope(t) ==
    /\ t \in Live /\ writes[t].left # {}
    /\ LET part == IF "roots" \in writes[t].left THEN "roots" ELSE "projects"
       IN  /\ target' = [target EXCEPT ![t].scope[part] = writes[t].scope[part]]
           /\ writes' = [writes EXCEPT ![t].left = @ \ {part}]
    /\ UNCHANGED <<world, open, ledger, asked, mutes, pending, lanes, told, faults, edits>>

ToggleTarget(t) ==
    /\ Edit
    /\ t \in Live
    /\ target' = [target EXCEPT ![t].enabled = ~@]
    /\ UNCHANGED <<world, open, ledger, writes, asked, mutes, pending, lanes, told, faults>>

\* The target's delivery rows lose their link to it.
DeleteTarget(t) ==
    /\ Edit
    /\ t \in Live
    /\ target' = [target EXCEPT ![t].state = "gone", ![t].scope = NoScope]
    /\ writes' = [writes EXCEPT ![t].left = {}]
    /\ delivery' = [x \in Events \X Targets |-> IF x[2] = t THEN "none" ELSE delivery[x]]
    /\ UNCHANGED <<world, open, event, older, asked, mutes, pending, lanes, told, faults>>

\* "Send historical": a placeholder for every eligible event that has no row yet.
Backfill(t) ==
    /\ Edit
    /\ t \in Live
    /\ delivery' = [x \in Events \X Targets |->
           IF /\ x[2] = t /\ delivery[x] = "none"
              /\ event[x[1]] # None
              /\ ~event[x[1]].silent
              /\ Eligible(event, x[1], t)
           THEN "placeholder" ELSE delivery[x]]
    /\ UNCHANGED <<world, open, event, older, portal, pending, lanes, told, faults>>

\* A mute is added, lifted, or expires.
ChangeMute(x) ==
    /\ Edit
    /\ mutes' = IF x \in mutes THEN mutes \ {x} ELSE mutes \cup {x}
    /\ UNCHANGED <<world, open, ledger, target, writes, asked, pending, lanes, told, faults>>

\* A finding appears, is graded anew, or is fixed.
ChangeFinding(f, g) ==
    /\ Edit
    /\ g # world[f] /\ world' = [world EXCEPT ![f] = g]
    /\ UNCHANGED <<open, ledger, portal, pending, lanes, told, faults>>

\* A completed sweep claims the baseline: nothing is stamped any more.
EndBaseline ==
    /\ Edit
    /\ pending /\ pending' = FALSE
    /\ UNCHANGED <<world, open, ledger, portal, lanes, told, faults>>

-----------------------------------------------------------------------------
Init ==
    /\ world \in [Findings -> Grades \cup {None}]
    /\ open = [f \in Findings |-> None]
    /\ event = [e \in Events |-> None]
    /\ delivery = [x \in Events \X Targets |-> "none"]
    /\ older = {}
    /\ \E old \in SUBSET Targets, filter \in Filters, s \in Scopes :
          /\ target = [t \in Targets |->
                IF t \in old
                THEN [state |-> "live", enabled |-> TRUE, filter |-> filter, scope |-> s]
                ELSE [state |-> "none", enabled |-> FALSE, filter |-> {}, scope |-> NoScope]]
          /\ asked = [t \in Targets |-> IF t \in old THEN Covered(s) ELSE {}]
    /\ writes = [t \in Targets |-> [left |-> {}, scope |-> NoScope]]
    /\ mutes = {}
    /\ pending \in BOOLEAN
    /\ lane = [l \in Lanes |-> Idle] /\ thread = Free
    /\ accepted = [x \in Events \X Targets |-> 0]
    /\ crowd = [x \in Events \X Targets |-> 0]
    /\ faults = 0 /\ edits = 0

Step(l) ==
    \/ \E dry \in BOOLEAN : Notify(l, dry)
    \/ NextGroup(l) \/ NextFailure(l) \/ Finish(l)
    \/ Succeed(l) \/ Fail(l)

Next ==
    \/ \E l \in Lanes :
          \/ \E p \in Projects : StartScan(l, p) \/ FailScan(l, p)
          \/ Step(l)
    \/ Crash
    \/ \E t \in Targets :
          \/ \E on \in BOOLEAN, filter \in Filters, s \in Scopes :
                CreateTarget(t, on, filter, s) \/ UpdateTarget(t, on, filter, s)
          \/ WriteScope(t) \/ ToggleTarget(t) \/ DeleteTarget(t) \/ Backfill(t)
    \/ \E x \in Events : ChangeMute(x)
    \/ \E f \in Findings, g \in Grades \cup {None} : ChangeFinding(f, g)
    \/ EndBaseline

Spec == Init /\ [][Next]_vars

\* Sweeps keep scanning every project; the event loop serves every pass in turn; a
\* channel answers; a portal action that began finishes.
FairSpec ==
    /\ Spec
    /\ \A p \in Projects : SF_vars(\E l \in Lanes : StartScan(l, p))
    /\ \A l \in Lanes : SF_vars(Step(l))
    /\ \A t \in Targets : WF_vars(WriteScope(t))

-----------------------------------------------------------------------------
Maybe == Grades \cup {None}

TypeOK ==
    /\ world \in [Findings -> Maybe] /\ open \in [Findings -> Maybe]
    /\ event \in [Events -> {None} \cup [severity : Maybe, silent : BOOLEAN]]
    /\ \A e \in Events : event[e] # None =>
          /\ (event[e].severity = None) <=> (e \in Projects)
          /\ event[e].silent => e \in Silent
    /\ delivery \in [Events \X Targets -> {"none", "placeholder", "tried", "done"}]
    /\ older \subseteq Events \X Targets
    /\ target \in [Targets -> [state : {"none", "live", "gone"}, enabled : BOOLEAN,
                               filter : SUBSET Grades,
                               scope : [roots : SUBSET Roots, projects : SUBSET Projects]]]
    /\ writes \in [Targets -> [left : SUBSET {"roots", "projects"},
                               scope : [roots : SUBSET Roots, projects : SUBSET Projects]]]
    /\ asked \in [Targets -> SUBSET Projects]
    /\ mutes \subseteq Events /\ pending \in BOOLEAN
    /\ \A l \in Lanes :
          lane[l] = Idle \/ lane[l].at = "scanned" \/
              /\ lane[l].at = "sending"
              /\ lane[l].to \in Targets \cup {NoTarget}
              /\ lane[l].message \subseteq Events
              /\ lane[l].text \subseteq lane[l].message
              /\ \A e \in lane[l].message : event[e] # None /\ ~event[e].silent
    /\ thread \in Lanes \cup {Free}
    /\ accepted \in [Events \X Targets -> Nat]
    /\ crowd \in [Events \X Targets -> 0..Cardinality(Lanes)]
    /\ faults \in 0..MaxFaults /\ edits \in 0..MaxEdits

\* A delivery is only ever marked successful for an event some message described and the
\* channel took.  Two open findings were once marked notified for good by a message that
\* listed nothing.
OnlyToldIsDone ==
    \A x \in Events \X Targets : delivery[x] = "done" => accepted[x] > 0

\* A pair is told once by each of the passes that held it at the same time, and again only
\* because of a fault: a failed post or a crash costs at most one message more of each of
\* them.  Where no two passes ever held it, that is one message, and one more per fault, as
\* postAndRecord claims of a crash.
FewDuplicates ==
    \A x \in Events \X Targets : accepted[x] <= crowd[x] * (1 + faults)

\* "At most one duplicate per target" from a crash between the post and the record of its
\* success (postAndRecord), and none without: false (README).
OnlyFaultsRepeat ==
    \A x \in Events \X Targets : accepted[x] <= 1 + faults

\* A target is told of an event older than itself only where the operator asked for the
\* history, and keeps the right to it through every failed attempt.
NoBackflood ==
    \A x \in older : accepted[x] > 0 => x[2] \notin Live \/ delivery[x] \in {"placeholder", "done"}

\* setTargetRoots says dispatch never observes a half-applied scope: whatever a target is
\* told of lies in a scope the operator gave it.
ScopeNeverHalfApplied ==
    \A e \in Events, t \in Targets : accepted[<<e, t>>] > 0 => ProjOf(e) \in asked[t]

\* What has to be told: recorded, still open with a grade the target wants, in scope, not
\* muted, not silent, and not from before the target's time.
Owed(e, t) ==
    /\ t \in Live /\ target[t].enabled
    /\ event[e] # None /\ ~event[e].silent
    /\ <<e, t>> \notin older \/ delivery[<<e, t>>] = "placeholder"
    /\ e \in Findings => world[e] \in target[t].filter
    /\ InScope(target[t].scope, ProjOf(e))
    /\ ~Muted(e)

\* Every event a target goes on being owed is told to it in the end: through lost posts,
\* crashes, dry runs, passes that others overtake, and a grade that rises
\* after the event was first recorded.
EveryEventIsTold ==
    \A e \in Events, t \in Targets :
        <>[]Owed(e, t) => <>(delivery[<<e, t>>] = "done")

=============================================================================
