--------------------------- MODULE RegistryClient ---------------------------
(***************************************************************************)
(* The cache-first clients of the package registries, as the settlement of *)
(* a scan uses them: a lookup answers from the store or joins or starts a  *)
(* fetch, every request goes through the client's limiter, an answer is    *)
(* stored, a failure is not, and what the Go proxy's list omits is checked *)
(* version by version and written beside the list.                         *)
(*                                                                         *)
(* What a registry holds for a package is a revision that only grows, 0    *)
(* while there is no such package; an ETag is the revision it validates.   *)
(* Requests carry at most one tick of the clock (REGISTRY_TIMEOUT_MS).     *)
(***************************************************************************)
EXTENDS Integers, Sequences, SequencesExt, FiniteSetsExt

CONSTANTS
    Names,         \* packages of one registry
    Clients,       \* one per scan batch
    Scans,         \* settlements, numbered: an idle one is as good as another
    ClientOf,      \* ClientOf[s]: the client a settlement is given
    Stated,        \* Stated[n]: unlisted fix versions its advisories state, Go's only
    None,
    Concurrency,   \* REGISTRY_FETCH_CONCURRENCY
    Window,        \* REGISTRY_FRESH_MS, in ticks
    CheckCap,      \* GO_INFO_CHECKS_PER_MODULE
    MaxTime, MaxChanges, MaxLookups

ASSUME MapsAssumption == Scans \subseteq Nat /\ ClientOf \in [Scans -> Clients] /\ Stated \in [Names -> SUBSET Nat]
ASSUME NamesAssumption == None \notin Names \cup Clients /\ \A n \in Names : None \notin Stated[n]
ASSUME LimitsAssumption == {Concurrency, CheckCap, Window} \subseteq Nat \ {0}
ASSUME BoundsAssumption == {MaxTime, MaxChanges, MaxLookups} \subseteq Nat

VARIABLES
    clock,
    held,          \* held[n][t]: the revisions the registry held at time t
    pushed,        \* pushed[n][v]: when an unlisted version was pushed, if it was
    store,         \* store[n]: the row, if any
    flight,        \* flight[c]: the requests running or waiting, by what they ask
    queue,         \* queue[c]: those waiting, in order
    slots,         \* slots[c]: the limiter's count
    scan,          \* scan[s]
    changes, lookups

world == <<clock, held, pushed>>
client == <<flight, queue, slots>>
bounds == <<changes, lookups>>
vars == <<world, store, client, scan, bounds>>

Times == 0..MaxTime
Revisions == 0..(1 + MaxChanges)
NoChecks(n) == [v \in Stated[n] |-> None]
Checks == [published : BOOLEAN, at : Times]

\* A row: not found is revision 0.  A summary written by an older release may no
\* longer be one this client reads.
Rows == UNION {[rev : Revisions, at : Times, read : BOOLEAN, info : [Stated[n] -> Checks \cup {None}]] : n \in Names}
NotFound(row) == row.rev = 0

\* What is asked: the package, or one version of it.
Lists == Names \X {None}
Infos == {job \in Names \X UNION Range(Stated) : job[2] \in Stated[job[1]]}
Jobs == Lists \cup Infos

ASSUME JobsAssumption == IsFiniteSet(Jobs)

Idle == [pc |-> "idle", at |-> 0, entry |-> <<>>, check |-> <<>>]

TypeOK ==
    /\ clock \in Times
    /\ held \in [Names -> [Times -> SUBSET Revisions]]
    /\ \A n \in Names : store[n] = None \/ store[n] \in Rows
    /\ \A c \in Clients :
        /\ DOMAIN flight[c] \subseteq Jobs
        /\ ToSet(queue[c]) = {job \in DOMAIN flight[c] : flight[c][job].sent = FALSE}
        /\ IsInjective(queue[c])
        /\ slots[c] \in 0..Concurrency
    /\ \A s \in Scans : scan[s].pc \in {"idle", "lookup", "check"}
    /\ changes \in 0..MaxChanges /\ lookups \in 0..MaxLookups

Now(n) == Max(held[n][clock])

Init ==
    /\ clock = 0
    /\ held \in {[n \in Names |-> [t \in Times |-> IF t = 0 THEN {r} ELSE {}]] : r \in {0, 1}}
    /\ pushed = [n \in Names |-> NoChecks(n)]
    /\ store \in {[n \in Names |-> None]} \cup
                 {[n \in Names |-> [rev |-> Now(n), at |-> 0, read |-> read, info |-> NoChecks(n)]] : read \in BOOLEAN}
    /\ flight = [c \in Clients |-> [job \in {} |-> None]]
    /\ queue = [c \in Clients |-> <<>>]
    /\ slots = [c \in Clients |-> 0]
    /\ scan = [s \in Scans |-> Idle]
    /\ changes = 0 /\ lookups = 0

-----------------------------------------------------------------------------
(* The limiter: createLimiter. *)

Sent(prev) == [sent |-> TRUE, prev |-> prev, reply |-> None, late |-> FALSE]

\* New requests run while there are slots, and the others wait in order.
Submit(c, prevOf) ==
    LET seq == SetToSeq(DOMAIN prevOf)
        go  == Min({Len(seq), Concurrency - slots[c]})
        Opened(job) == [Sent(prevOf[job]) EXCEPT !.sent = \E i \in 1..go : seq[i] = job]
    IN  /\ flight' = [flight EXCEPT ![c] = [job \in DOMAIN prevOf \cup DOMAIN @ |->
                                               IF job \in DOMAIN prevOf THEN Opened(job) ELSE @[job]]]
        /\ queue' = [queue EXCEPT ![c] = @ \o SubSeq(seq, go + 1, Len(seq))]
        /\ slots' = [slots EXCEPT ![c] = @ + go]

\* Mutant: the slot is freed and the next one woken.
Finish_freed(c, job) ==
    LET rest == [j \in DOMAIN flight[c] \ {job} |-> flight[c][j]]
    IN  IF queue[c] = <<>>
        THEN /\ flight' = [flight EXCEPT ![c] = rest]
             /\ slots' = [slots EXCEPT ![c] = @ - 1]
             /\ UNCHANGED queue
        ELSE /\ flight' = [flight EXCEPT ![c] = [rest EXCEPT ![Head(queue[c])].sent = TRUE]]
             /\ queue' = [queue EXCEPT ![c] = Tail(@)]
             /\ slots' = [slots EXCEPT ![c] = @ - 1]

\* Mutant: a finished request wakes no one.
Finish_silent(c, job) ==
    /\ flight' = [flight EXCEPT ![c] = [j \in DOMAIN flight[c] \ {job} |-> flight[c][j]]]
    /\ slots' = [slots EXCEPT ![c] = @ - 1]
    /\ UNCHANGED queue

\* A finished request hands its slot to the first that waits.
Finish(c, job) ==
    LET rest == [j \in DOMAIN flight[c] \ {job} |-> flight[c][j]]
    IN  IF queue[c] = <<>>
        THEN /\ flight' = [flight EXCEPT ![c] = rest]
             /\ slots' = [slots EXCEPT ![c] = @ - 1]
             /\ UNCHANGED queue
        ELSE /\ flight' = [flight EXCEPT ![c] = [rest EXCEPT ![Head(queue[c])].sent = TRUE]]
             /\ queue' = [queue EXCEPT ![c] = Tail(@)]
             /\ UNCHANGED slots

-----------------------------------------------------------------------------
(* A settlement. *)

\* What waits for nothing more runs before the next event (JavaScript's microtasks).
Quiet == \A s \in Scans :
    /\ scan[s].pc = "lookup" => None \in Range(scan[s].entry)
    /\ scan[s].pc = "check" => \E n \in DOMAIN scan[s].check : "asked" \in Range(scan[s].check[n].outcome)
                              /\ \A m \in DOMAIN scan[s].check : scan[s].check[m].recorded \/ "asked" \in Range(scan[s].check[m].outcome)

Fresh(at, t) == t >= at - Window

\* fromCache: the row answers, unless its summary cannot be read.
Serves(row, at) == row # None /\ Fresh(at, row.at) /\ (row.read \/ NotFound(row))

Entry(status, row) == [status |-> status, rev |-> row.rev, at |-> row.at, info |-> row.info]
Answer(row) == Entry(IF NotFound(row) THEN "not_found" ELSE "ok", row)
NoAnswer(n) == [status |-> "error", rev |-> 0, at |-> 0, info |-> NoChecks(n)]

\* lookup: fresh rows are answers, every other package is fetched or its fetch joined.
Lookup(s) ==
    /\ Quiet /\ scan[s].pc = "idle" /\ (\A t \in Scans : t < s => scan[t].pc # "idle")
    /\ lookups < MaxLookups
    /\ lookups' = lookups + 1
    /\ \E names \in SUBSET Names \ {{}} :
        /\ scan' = [scan EXCEPT ![s] = [Idle EXCEPT !.pc = "lookup", !.at = clock,
                        !.entry = [n \in names |-> IF Serves(store[n], clock) THEN Answer(store[n]) ELSE None]]]
        /\ Submit(ClientOf[s],
                  [job \in {<<n, None>> : n \in {m \in names : ~Serves(store[m], clock)}} \ DOMAIN flight[ClientOf[s]] |->
                      store[job[1]]])
    /\ UNCHANGED <<world, store, changes>>

\* Only a summary that can be read is worth validating.
Held(prev) == prev # None /\ prev.read /\ ~NotFound(prev)

\* The registry answers, as it is when it does.
Serve(c, job) ==
    /\ Quiet /\ job \in DOMAIN flight[c] /\ flight[c][job].sent /\ flight[c][job].reply = None
    /\ LET n == job[1]
           prev == flight[c][job].prev
           reply == IF job \in Infos THEN [published |-> pushed[n][job[2]] # None]
                    ELSE [rev |-> Now(n), same |-> Held(prev) /\ prev.rev = Now(n)]
       IN  flight' = [flight EXCEPT ![c][job].reply = reply]
    /\ UNCHANGED <<world, store, queue, slots, scan, bounds>>

\* Those of the client's settlements that wait for a package or a version of one.
Told(c, n, entry) ==
    scan' = [s \in Scans |-> IF ClientOf[s] = c /\ scan[s].pc = "lookup" /\ n \in DOMAIN scan[s].entry /\ scan[s].entry[n] = None
                             THEN [scan[s] EXCEPT !.entry[n] = entry] ELSE scan[s]]

\* settleFetch, an answer: a summary held keeps its checks, whether a new one
\* replaces it or the registry confirms it.
Arrive(c, n) ==
    LET job == <<n, None>>
    IN  /\ Quiet /\ job \in DOMAIN flight[c] /\ flight[c][job].reply # None
        /\ LET prev == flight[c][job].prev
               row == [rev |-> IF flight[c][job].reply.same THEN prev.rev ELSE flight[c][job].reply.rev, at |-> clock, read |-> TRUE,
                       info |-> IF Held(prev) /\ flight[c][job].reply.rev # 0 THEN prev.info ELSE NoChecks(n)]
           IN  store' = [store EXCEPT ![n] = row] /\ Told(c, n, Answer(row))
        /\ Finish(c, job)
        /\ UNCHANGED <<world, bounds>>

\* settleFetch, none: an outage, a timeout, an abort, an answer that cannot be
\* read.  A summary held is served, marked stale.
Unreachable(c, n) ==
    LET job == <<n, None>>
        prev == flight[c][job].prev
    IN  /\ Quiet /\ job \in DOMAIN flight[c] /\ flight[c][job].sent
        /\ Told(c, n, IF Held(prev) THEN Entry("stale", prev) ELSE NoAnswer(n))
        /\ Finish(c, job)
        /\ UNCHANGED <<world, store, bounds>>

-----------------------------------------------------------------------------
(* The stated versions a Go list does not have. *)

\* A publication is known for good, an absence for a window.
Known(check, at) == check # None /\ (check.published \/ Fresh(at, check.at))

\* Of those not known, the lowest are asked about.
Asked(entry, n, at) ==
    LET unknown == {v \in Stated[n] : ~Known(entry.info[v], at)}
    IN  {v \in unknown : Cardinality({w \in unknown : w < v}) < CheckCap}

Outcome(published) == IF published THEN "published" ELSE "absent"

Outcomes(entry, n) ==
    [v \in Stated[n] |-> CASE Known(entry.info[v], clock) -> Outcome(entry.info[v].published)
                           [] v \in Asked(entry, n, clock) -> "asked"
                           [] OTHER -> "unconfirmed"]

\* viewOf: once every package is answered, the versions of those that have a list.
Look(s) ==
    LET listed == {n \in DOMAIN scan[s].entry : scan[s].entry[n].status \in {"ok", "stale"}}
        outcomes == [n \in listed |-> Outcomes(scan[s].entry[n], n)]
    IN  /\ scan[s].pc = "lookup" /\ None \notin Range(scan[s].entry)
        /\ scan' = [scan EXCEPT ![s].pc = "check",
                                ![s].check = [n \in listed |-> [outcome |-> outcomes[n], fresh |-> <<>>, recorded |-> FALSE]]]
        /\ Submit(ClientOf[s],
                  [job \in {i \in Infos : i[1] \in listed /\ outcomes[i[1]][i[2]] = "asked"} \ DOMAIN flight[ClientOf[s]] |-> None])
        /\ UNCHANGED <<world, store, bounds>>

\* New checks among old ones, whose place they take.
Joined(fresh, old) == [v \in DOMAIN fresh \cup DOMAIN old |-> IF v \in DOMAIN fresh THEN fresh[v] ELSE old[v]]

\* Mutant: no answer is read as no such version.
CheckedAs_absent(reply) == IF reply = None THEN "absent" ELSE Outcome(reply.published)

CheckedAs(reply) == IF reply = None THEN "unconfirmed" ELSE Outcome(reply.published)

\* A check is answered, or fails; whoever waits for it hears.
Checked(c, job) ==
    /\ Quiet /\ job \in DOMAIN flight[c] /\ flight[c][job].sent
    /\ \E reply \in {None, flight[c][job].reply} :
        scan' = [s \in Scans |->
            IF ClientOf[s] = c /\ scan[s].pc = "check" /\ job[1] \in DOMAIN scan[s].check
               /\ scan[s].check[job[1]].outcome[job[2]] = "asked"
            THEN [scan[s] EXCEPT !.check[job[1]].outcome[job[2]] = CheckedAs(reply),
                                 !.check[job[1]].fresh =
                                    IF reply = None THEN @
                                    ELSE Joined([v \in {job[2]} |-> [published |-> reply.published, at |-> clock]], @)]
            ELSE scan[s]]
    /\ Finish(c, job)
    /\ UNCHANGED <<world, store, bounds>>

\* Mutant: the checks join the row the settlement was served.
Record_served(s, n) ==
    /\ scan[s].pc = "check" /\ n \in DOMAIN scan[s].check /\ ~scan[s].check[n].recorded
    /\ "asked" \notin Range(scan[s].check[n].outcome)
    /\ store' = IF Held(store[n]) /\ scan[s].check[n].fresh # <<>>
                THEN [store EXCEPT ![n] = [rev |-> scan[s].entry[n].rev, at |-> scan[s].entry[n].at, read |-> TRUE,
                                           info |-> Joined(scan[s].check[n].fresh, scan[s].entry[n].info)]]
                ELSE store
    /\ scan' = [scan EXCEPT ![s].check[n].recorded = TRUE]
    /\ UNCHANGED <<world, client, bounds>>

\* record: new checks join the row as it is now; a row gone, or unreadable, keeps none.
Record(s, n) ==
    /\ scan[s].pc = "check" /\ n \in DOMAIN scan[s].check /\ ~scan[s].check[n].recorded
    /\ "asked" \notin Range(scan[s].check[n].outcome)
    /\ store' = IF Held(store[n]) /\ scan[s].check[n].fresh # <<>>
                THEN [store EXCEPT ![n].info = Joined(scan[s].check[n].fresh, @)] ELSE store
    /\ scan' = [scan EXCEPT ![s].check[n].recorded = TRUE]
    /\ UNCHANGED <<world, client, bounds>>

Settle(s) ==
    /\ scan[s].pc = "check" /\ \A n \in DOMAIN scan[s].check : scan[s].check[n].recorded
    /\ scan' = [scan EXCEPT ![s] = Idle]
    /\ UNCHANGED <<world, store, client, bounds>>

-----------------------------------------------------------------------------
(* The surroundings. *)

\* A request is given one tick.
Tick ==
    /\ Quiet /\ clock < MaxTime
    /\ \A c \in Clients : \A job \in DOMAIN flight[c] : flight[c][job].sent => ~flight[c][job].late
    /\ clock' = clock + 1
    /\ held' = [n \in Names |-> [held[n] EXCEPT ![clock + 1] = {Now(n)}]]
    /\ flight' = [c \in Clients |-> [job \in DOMAIN flight[c] |-> [flight[c][job] EXCEPT !.late = flight[c][job].sent]]]
    /\ UNCHANGED <<pushed, store, queue, slots, scan, bounds>>

Release(n) ==
    /\ Quiet /\ changes < MaxChanges /\ changes' = changes + 1
    /\ held' = [held EXCEPT ![n][clock] = @ \cup {Now(n) + 1}]
    /\ UNCHANGED <<clock, pushed, store, client, scan, lookups>>

Push(n, v) ==
    /\ Quiet /\ pushed[n][v] = None /\ changes < MaxChanges /\ changes' = changes + 1
    /\ pushed' = [pushed EXCEPT ![n][v] = clock]
    /\ UNCHANGED <<clock, held, store, client, scan, lookups>>

Ends(c) == (\E n \in Names : Arrive(c, n) \/ Unreachable(c, n)) \/ (\E job \in Infos : Checked(c, job))
Step(s) == Look(s) \/ Settle(s) \/ \E n \in Names : Record(s, n)

Next ==
    \/ \E c \in Clients : Ends(c) \/ \E job \in Jobs : Serve(c, job)
    \/ \E s \in Scans : Lookup(s) \/ Step(s)
    \/ Tick
    \/ \E n \in Names : Release(n) \/ \E v \in Stated[n] : Push(n, v)

Spec == Init /\ [][Next]_vars

\* A request ends, at the latest by its timeout, and what follows needs no one else.
Fairness ==
    /\ \A c \in Clients : \A n \in Names : WF_vars(Arrive(c, n) \/ Unreachable(c, n))
    /\ \A c \in Clients : \A job \in Infos : WF_vars(Checked(c, job))
    /\ \A s \in Scans : WF_vars(Step(s))

FairSpec == Spec /\ Fairness

-----------------------------------------------------------------------------

\* checkedAt is "when the registry gave the data that is being served": every row
\* and every answer is what the registry held then, give or take the time of one
\* request, and one served as current is no older than the window.
AnswersAreDated ==
    LET Dated(n, row) == row.rev \in UNION {held[n][t] : t \in {row.at, row.at - 1} \cap Times}
    IN  /\ \A n \in Names : store[n] # None => Dated(n, store[n])
        /\ \A s \in Scans : \A n \in DOMAIN scan[s].entry :
            scan[s].entry[n] # None /\ scan[s].entry[n].status # "error" =>
                /\ Dated(n, scan[s].entry[n])
                /\ scan[s].entry[n].status # "stale" => Fresh(scan[s].at, scan[s].entry[n].at)

\* "confirmed absent" is never a failure: a version a settlement reads as absent was
\* so when it was asked about, or in the window if that was before, and one it reads
\* as published is (createGoRegistryClient).
VersionsAreTrue ==
    \A s \in Scans : \A n \in DOMAIN scan[s].check : \A v \in Stated[n] :
        LET outcome == scan[s].check[n].outcome[v]
        IN  /\ outcome = "published" => pushed[n][v] # None
            /\ outcome = "absent" /\ pushed[n][v] # None =>
                 pushed[n][v] >= scan[s].at - 1 - (IF scan[s].entry[n].info[v] = None THEN 0 ELSE Window)

\* What a settlement is told of a registry is true of it (registry-client.ts, go-registry.ts).
AnswersAreTrue == AnswersAreDated /\ VersionsAreTrue

\* "At most REGISTRY_FETCH_CONCURRENCY requests in flight", whoever finishes while
\* others wait and arrive (createLimiter).
LimitHolds == \A c \in Clients : \* the count is of what runs
    Cardinality({job \in DOMAIN flight[c] : flight[c][job].sent}) = slots[c] /\ slots[c] <= Concurrency

\* A package is fetched by one request at a time, so a slow answer never lands over
\* a newer one (inFlight, settleFetch).
StoreGoesForward ==
    [][\A n \in Names : store[n] # None => store'[n] # None /\ store'[n].rev >= store[n].rev]_store

\* A scan's settlement always ends: no request is forgotten in the limiter.
EverySettlementEnds == \A s \in Scans : scan[s].pc # "idle" ~> scan[s].pc = "idle"

\* "A confirmed publication is kept for good" (go-registry.ts:18).
PublicationsAreKept ==
    [][\A n \in Names : store[n] # None => \A v \in Stated[n] :
        store[n].info[v] # None /\ store[n].info[v].published /\ store'[n] # None /\ store'[n].rev # 0 =>
            store'[n].info[v] # None /\ store'[n].info[v].published]_store
=============================================================================
