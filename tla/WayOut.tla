------------------------------- MODULE WayOut -------------------------------
(***************************************************************************)
(* The way out of findings no release fixes, computed at the end of a      *)
(* project scan: for each finding the dependency paths to the installed    *)
(* copy, a verdict for each path shown, and replacements.                  *)
(*                                                                         *)
(* Paths are read best first from one stack per total length.  A verdict   *)
(* climbs a path from the vulnerable package to the direct dependency and  *)
(* asks of release after release whether it drops the package.  Nothing    *)
(* else runs in between; all findings of the scan share the walks.         *)
(***************************************************************************)
EXTENDS ClosureWalk, Sequences, SequencesExt, FiniteSetsExt

CONSTANTS
    Requests,       \* the targets, in the order they are asked about
    Node,           \* lockfile nodes, 1..N
    MaxChains,      \* MAX_REMEDIATION_CHAINS
    MaxPaths,       \* PATH_LIMITS.paths
    MaxExpansions   \* PATH_LIMITS.expansions

NodeCount == Cardinality(Node)

\* What a scan is handed: installed releases, edges between them, roots, replacements.
ScanInput(w) ==
    /\ w.release \in [Node -> Release]
    /\ w.edges \subseteq Node \X Node
    /\ w.roots \in Seq(ToSet(w.roots)) /\ \A r \in ToSet(w.roots) : r.node \in Node
    /\ \A n \in Name : w.replacement[n] \in Name \cup {None} /\ w.registry[n].latest \in Version \cup {None}

ASSUME NodeAssumption == NodeCount \in Nat /\ Node = 1..NodeCount
ASSUME LimitsAssumption == {MaxChains, MaxPaths, MaxExpansions} \subseteq Nat \ {0}
ASSUME RequestsAssumption == Requests \in Seq(Target) /\ Requests # <<>>
ASSUME InputAssumption == \A w \in Worlds : ScanInput(w)

VARIABLES
    req,        \* which request
    phase,      \* begin, shown, production, count, chains, alternatives; done, failed
    dist,       \* edges from a node to the nearest vulnerable copy, None if it reaches none
    walk,       \* walkPaths under way and what its visitor holds
    found,      \* findChains: the paths shown, how many more, dev only
    at,         \* walkChain under way: chain, level, tried, escaping, stuck
    verdicts,   \* of the request's chains so far
    options,    \* replacements looked at for the request: package -> outcome
    guidance    \* what is handed back, one per finished request

question == <<req, phase, dist, walk, found, at, verdicts, options, guidance>>
vars == <<world, walker, question>>

target == Requests[req]
release == world.release   \* release[n]: name and version of a node
roots == world.roots       \* sequence of [importer, node, kind]

----------------------------------------------------------------------------
(* Paths *)

\* The elements of s that are in a set, in their order.
Those(s, keep) ==
    LET those[i \in 0..Len(s)] ==
            IF i = 0 THEN <<>>
            ELSE IF s[i] \in keep THEN Append(those[i - 1], s[i])
            ELSE those[i - 1]
    IN  those[Len(s)]

VulnerableTo(t) == {n \in Node : release[n] \in Copies(t)}
Vulnerable == VulnerableTo(target)
Parents(m) == {n \in Node : <<n, m>> \in world.edges}
Children(n) == {m \in Node : <<n, m>> \in world.edges}

\* Nodes with a vulnerable copy at most k edges below.
Within[k \in 0..NodeCount] ==
    IF k = 0 THEN Vulnerable
    ELSE UNION {{m} \cup Parents(m) : m \in Within[k - 1]}
Distances == [n \in Node |-> IF n \in Within[NodeCount] THEN Min({k \in 0..NodeCount : n \in Within[k]}) ELSE None]
Reaching == {n \in Node : dist[n] # None}

Rank(r) == IF r.kind = "dev" THEN 1 ELSE 0
Reaches(r) == r.node \in Reaching
\* Shortest first, and of one length production before development.
Ordered ==
    FlattenSeq([k \in 1..(2 * NodeCount + 2) |->
        Those(roots, {r \in ToSet(roots) : Reaches(r) /\ 2 * dist[r.node] + Rank(r) + 1 = k})])
Production == Those(Ordered, {r \in ToSet(Ordered) : r.kind # "dev"})

Partial(r, ids) == [root |-> r, ids |-> ids]
Total(p) == Len(p.ids) - 1 + dist[Last(p.ids)]
OfTotal(l, ps) == Those(ps, {p \in ToSet(ps) : Total(p) = l})
PathKey(p) == <<p.root.importer, p.root.kind, [i \in DOMAIN p.ids |-> release[p.ids[i]]]>>

\* One stack per total length; its head is read next.
StartWalk(from) ==
    [stacks |-> [l \in 0..(2 * NodeCount) |-> OfTotal(l, [i \in DOMAIN from |-> Partial(from[i], <<from[i].node>>)])],
     expanded |-> 0, visited |-> 0, shown |-> <<>>, filled |-> 0]

Unread == {l \in DOMAIN walk.stacks : walk.stacks[l] # <<>>}
Shortest == Min(Unread)
Current == Head(walk.stacks[Shortest])
Onward(p) ==
    LET open == Those([i \in Node |-> i], {c \in Children(Last(p.ids)) : dist[c] # None} \ ToSet(p.ids))
    IN  [i \in DOMAIN open |-> Partial(p.root, Append(p.ids, open[i]))]
Pushed(onward) ==
    [l \in DOMAIN walk.stacks |->
        IF l = Shortest THEN OfTotal(l, onward) \o Tail(walk.stacks[l]) ELSE walk.stacks[l] \o OfTotal(l, onward)]

Limit == IF phase = "production" THEN 1 ELSE MaxChains
Same(p) == {i \in DOMAIN walk.shown : PathKey(walk.shown[i].path) = PathKey(p)}

\* The visitor of collect: a path that displays like one shown adds to it.
Shown(p) ==
    IF Same(p) # {}
    THEN [i \in DOMAIN walk.shown |->
            IF i \in Same(p) THEN [walk.shown[i] EXCEPT !.count = @ + 1] ELSE walk.shown[i]]
    ELSE IF walk.filled = 0 THEN Append(walk.shown, [path |-> p, count |-> 1])
    ELSE walk.shown

\* Whether a cycle lies on the way from a root to a vulnerable copy.
Live == {n \in Reaching : dist[n] > 0}
From[k \in 0..NodeCount] ==
    IF k = 0 THEN {Ordered[i].node : i \in DOMAIN Ordered} \cap Live
    ELSE UNION {{n} \cup (Children(n) \cap Live) : n \in From[k - 1]}
Below(n) ==
    LET below[k \in 1..NodeCount] ==
            IF k = 1 THEN Children(n) \cap Live
            ELSE UNION {{m} \cup (Children(m) \cap Live) : m \in below[k - 1]}
    IN  below[NodeCount]
Cyclic == \E n \in From[NodeCount] : n \in Below(n)

\* countFrom: with no cycle a node has as many paths as its children together.
CountFrom[k \in 0..NodeCount] ==
    [n \in Node |-> IF n \notin Reaching THEN 0
                    ELSE IF dist[n] = 0 THEN 1
                    ELSE IF k = 0 THEN 0
                    ELSE MapThenSumSet(LAMBDA c : CountFrom[k - 1][c], Children(n))]
Counts(shown) == [i \in DOMAIN shown |-> shown[i].count]
SumSeq(s) == FoldSeq(+, 0, s)

Climb(shown, i) ==
    [chain |-> i, level |-> IF i \in DOMAIN shown THEN Len(shown[i].path.ids) - 1 ELSE 0,
     tried |-> 0, escaping |-> None, stuck |-> <<>>]

NoDistance == <<>>
NoOptions == [n \in {} |-> {}]
NoWalk == [stacks |-> <<>>, expanded |-> 0, visited |-> 0, shown |-> <<>>, filled |-> 0]
NothingFound == [shown |-> <<>>, more |-> 0, atLeast |-> FALSE, devOnly |-> None]

Counted(shown, n, exact) ==
    /\ found' = [shown |-> shown,
                 more |-> Max({0, n - SumSeq(Counts(shown))}),
                 atLeast |-> ~exact,
                 devOnly |-> Production = <<>>]
    /\ at' = Climb(shown, 1)
    /\ phase' = "chains"
    /\ walk' = NoWalk

\* countPaths: by adding up, or one by one when there is a cycle.
Count(shown) ==
    IF Cyclic
    THEN /\ phase' = "count"
         /\ found' = [found EXCEPT !.shown = shown]
         /\ \E from \in {Ordered} : walk' = StartWalk(from)
         /\ UNCHANGED at
    ELSE Counted(shown, SumSeq([i \in DOMAIN Ordered |-> CountFrom[NodeCount][Ordered[i].node]]), TRUE)

Kept(shown) == SubSeq(shown, 1, Min({MaxChains - 1, Len(shown)}))

\* Mutant: a production path is looked for only while there is room for it.
LacksProduction_room(shown) ==
    /\ Production # <<>> /\ Len(shown) < MaxChains
    /\ \A i \in DOMAIN shown : shown[i].path.root.kind = "dev"

\* The reader must see a production path when one exists.
LacksProduction(shown) ==
    /\ Production # <<>>
    /\ \A i \in DOMAIN shown : shown[i].path.root.kind = "dev"

Ended(w, exact) ==
    CASE phase = "shown" ->
            IF LacksProduction(w.shown)
            THEN /\ phase' = "production"
                 /\ found' = [found EXCEPT !.shown = w.shown]
                 /\ \E from \in {Production} : walk' = StartWalk(from)
                 /\ UNCHANGED at
            ELSE Count(w.shown)
      [] phase = "production" -> Count(Kept(found.shown) \o w.shown)
      [] phase = "count" -> Counted(found.shown, w.visited, exact)

----------------------------------------------------------------------------
(* Steps of findChains *)

FindChains ==
    /\ phase = "begin"
    /\ dist = NoDistance
    /\ dist' = Distances
    /\ UNCHANGED <<world, walker, req, phase, walk, found, at, verdicts, options, guidance>>

StartPaths ==
    /\ phase = "begin"
    /\ dist # NoDistance
    /\ IF Ordered = <<>>
       THEN /\ verdicts' = <<[kind |-> "unknown", at |-> target]>>
            /\ phase' = "chains"
            /\ UNCHANGED walk
       ELSE /\ phase' = "shown"
            /\ \E from \in {Ordered} : walk' = StartWalk(from)
            /\ UNCHANGED verdicts
    /\ UNCHANGED <<world, walker, req, dist, found, at, options, guidance>>

Walking == phase \in {"shown", "production", "count"}
AtCopy == dist[Last(Current.ids)] = 0
\* collect reads on through the length that filled its list, and no further.
Past == phase # "count" /\ walk.filled # 0 /\ Len(Current.ids) > walk.filled

Extend ==
    /\ Walking
    /\ Unread # {} /\ ~AtCopy /\ walk.expanded < MaxExpansions
    /\ \E onward \in {Onward(Current)} : walk' = [walk EXCEPT !.stacks = Pushed(onward), !.expanded = @ + 1]
    /\ UNCHANGED <<world, walker, req, phase, dist, found, at, verdicts, options, guidance>>

Seen ==
    LET shown == IF phase = "count" THEN <<>> ELSE Shown(Current)
    IN  [walk EXCEPT !.stacks[Shortest] = Tail(@),
                     !.visited = @ + 1,
                     !.shown = shown,
                     !.filled = IF @ = 0 /\ Len(shown) >= Limit THEN Len(Current.ids) ELSE @]

Visit ==
    /\ Walking
    /\ Unread # {} /\ AtCopy /\ ~Past
    /\ IF walk.visited + 1 < MaxPaths
       THEN walk' = Seen /\ UNCHANGED <<phase, found, at>>
       ELSE Ended(Seen, FALSE)
    /\ UNCHANGED <<world, walker, req, dist, verdicts, options, guidance>>

EndWalk ==
    /\ Walking
    /\ Unread # {} => IF AtCopy THEN Past ELSE walk.expanded = MaxExpansions
    /\ Ended(walk, Unread = {})
    /\ UNCHANGED <<world, walker, req, dist, verdicts, options, guidance>>

----------------------------------------------------------------------------
(* Steps of walkChain, admit and findEscape *)

chain == [i \in DOMAIN found.shown[at.chain].path.ids |-> release[found.shown[at.chain].path.ids[i]]]
Climbing == phase = "chains" /\ at.chain \in DOMAIN found.shown
ancestor == chain[at.level]

Newer(r) == {v \in Published(r[1]) : r[2] < v}
Untried == {v \in Newer(ancestor) : at.tried < v}
Candidate == <<ancestor[1], Min(Untried)>>

Conclude(v) ==
    /\ verdicts' = Append(verdicts, v)
    /\ at' = Climb(found.shown, at.chain + 1)
    /\ UNCHANGED <<world, walker, req, phase, dist, walk, found, options, guidance>>

Move(a) ==
    /\ at' = a
    /\ UNCHANGED <<world, walker, req, phase, dist, walk, found, verdicts, options, guidance>>

Direct ==
    /\ Climbing
    /\ Len(chain) = 1
    /\ Conclude([kind |-> "direct"])

NoData ==
    /\ Climbing
    /\ Len(chain) > 1 /\ ~registry[ancestor[1]].ok
    /\ Conclude([kind |-> "unknown", at |-> ancestor[1]])

Asking == Climbing /\ Len(chain) > 1 /\ registry[ancestor[1]].ok /\ Untried # {}
Known(v) == <<Candidate, target>> \in DOMAIN memo /\ memo[<<Candidate, target>>] = v

Ask ==
    /\ Asking
    /\ expandLevel(Candidate, target) \/ reaches(Candidate, target)
    /\ UNCHANGED question

StillReaches ==
    /\ Asking
    /\ Known("yes")
    /\ Move([at EXCEPT !.tried = Candidate[2]])

Unproven ==
    /\ Asking
    /\ Known("unknown")
    /\ Conclude([kind |-> "unknown", at |-> ancestor[1]])

\* The range the installed parent declares; none if the registry does not say.
Declared(parent, n) ==
    IF /\ registry[parent[1]].ok
       /\ parent[2] \in Published(parent[1])
       /\ n \in DOMAIN registry[parent[1]].edges[parent[2]]
    THEN registry[parent[1]].edges[parent[2]][n]
    ELSE {}

Upgrade(r) == [kind |-> "upgrade", release |-> r]

\* Mutant: the parent is not asked.
Admit_always(r) == Conclude(Upgrade(r))

\* Does the parent admit the release that escapes?  If not, it must move too.
Admit(r) ==
    LET declared == Declared(chain[at.level - 1], r[1])
    IN  IF at.level = 1 THEN Conclude(Upgrade(r))
        ELSE IF declared = {} THEN Conclude([kind |-> "unknown", at |-> chain[at.level - 1][1]])
        ELSE IF r[2] \in declared THEN Conclude(Upgrade(r))
        ELSE Move([at EXCEPT !.level = @ - 1, !.tried = 0, !.escaping = r[2]])

Escapes ==
    /\ Asking
    /\ Known("no")
    /\ Admit(Candidate)

NoEscape ==
    /\ Climbing
    /\ Len(chain) > 1 /\ registry[ancestor[1]].ok /\ Untried = {}
    /\ IF at.escaping # None
       THEN Conclude([kind |-> "blocked", release |-> <<chain[at.level + 1][1], at.escaping>>, by |-> ancestor[1]])
       ELSE IF at.level > 1
       THEN Move([at EXCEPT !.level = @ - 1, !.tried = 0, !.stuck = Append(@, ancestor[1])])
       ELSE Conclude([kind |-> "noEscape", packages |-> Append(at.stuck, ancestor[1])])

----------------------------------------------------------------------------
(* Steps of alternativesFor *)

HasEntry(n) == world.replacement[n] # None
Stuck(v) ==
    CASE v.kind = "noEscape" -> v.packages
      [] v.kind = "blocked" -> <<v.by>>
      [] v.kind = "direct" -> <<world.target[target].name>>
      [] OTHER -> <<>>
\* Of the packages a chain is stuck on those with an entry; the others have nothing to offer.
Wanted ==
    {n \in UNION {ToSet(Stuck(verdicts[i])) : i \in DOMAIN verdicts}
            \cup (IF world.unmaintained THEN {world.target[target].name} ELSE {}) : HasEntry(n)}

ChainsDone ==
    /\ phase = "chains"
    /\ at.chain \notin DOMAIN found.shown
    /\ phase' = "alternatives"
    /\ UNCHANGED <<world, walker, req, dist, walk, found, at, verdicts, options, guidance>>

Replacement(n) == <<world.replacement[n], registry[world.replacement[n]].latest>>
Offer(n, outcome) ==
    /\ options' = Put(options, n, outcome)
    /\ UNCHANGED <<world, walker, req, phase, dist, walk, found, at, verdicts, guidance>>

moduleOption(n) ==
    LET r == Replacement(n)
    IN  /\ phase = "alternatives"
        /\ n \in Wanted \ DOMAIN options
        /\ IF ~registry[r[1]].ok \/ r[2] = None THEN Offer(n, "unverified")
           ELSE IF <<r, target>> \in DOMAIN memo
           THEN Offer(n, CASE memo[<<r, target>>] = "yes" -> "left out"
                           [] memo[<<r, target>>] = "no" -> "verified"
                           [] OTHER -> "unverified")
           ELSE /\ expandLevel(r, target) \/ reaches(r, target)
                /\ UNCHANGED question

NextRequest ==
    /\ phase = "alternatives"
    /\ Wanted \subseteq DOMAIN options
    /\ guidance' = Append(guidance, [found |-> found, verdicts |-> verdicts, options |-> options])
    /\ req' = IF req < Len(Requests) THEN req + 1 ELSE req
    /\ phase' = IF req < Len(Requests) THEN "begin" ELSE "done"
    /\ found' = NothingFound
    /\ at' = Climb(<<>>, 1)
    /\ verdicts' = <<>>
    /\ options' = NoOptions
    /\ dist' = NoDistance
    /\ UNCHANGED <<world, walker, walk>>

\* The registry client's own store throws: settlements stand, no way out is handed back.
StoreFails ==
    /\ phase \in {"chains", "alternatives"}
    /\ phase' = "failed"
    /\ guidance' = <<>>
    /\ walks' = [k \in {} |-> {}] /\ memo' = [k \in {} |-> {}]
    /\ found' = NothingFound /\ at' = Climb(<<>>, 1) /\ verdicts' = <<>> /\ options' = NoOptions
    /\ UNCHANGED <<world, req, dist, walk>>

----------------------------------------------------------------------------
\* settleFix answered none_released: nothing published at or above the installed copy is safe.
NoneReleased(w) ==
    \A t \in Target :
        LET n == w.target[t].name
            installed == {w.release[i][2] : i \in {j \in Node : w.release[j] \in {<<n, v>> : v \in w.target[t].affected}}}
        IN  w.registry[n].ok /\ \A v \in DOMAIN w.registry[n].edges : v \in w.target[t].affected \/ \E i \in installed : v < i

Init ==
    /\ WalkInit
    /\ NoneReleased(world)
    /\ req = 1
    /\ phase = "begin"
    /\ dist = NoDistance
    /\ walk = NoWalk
    /\ found = NothingFound
    /\ at = Climb(<<>>, 1)
    /\ verdicts = <<>>
    /\ options = NoOptions
    /\ guidance = <<>>

Next ==
    \/ FindChains \/ StartPaths \/ Extend \/ Visit \/ EndWalk
    \/ Direct \/ NoData \/ Ask \/ StillReaches \/ Unproven \/ Escapes \/ NoEscape \/ ChainsDone
    \/ \E n \in Name : moduleOption(n)
    \/ NextRequest \/ StoreFails

Spec == Init /\ [][Next]_vars /\ WF_vars(Next)

----------------------------------------------------------------------------
(* Properties *)

Phases == {"begin", "shown", "production", "count", "chains", "alternatives", "done", "failed"}
Partials == [root : ToSet(roots), ids : SeqOf(Node, NodeCount)]
Shows == [path : Partials, count : Nat \ {0}]

\* Every variable keeps its type.
TypeOK ==
    /\ req \in DOMAIN Requests /\ phase \in Phases
    /\ \A k \in DOMAIN walks :
          /\ k[1] \in Name /\ walks[k].nodes \subseteq Release /\ walks[k].lost \subseteq Name
          /\ walks[k].frontier \subseteq Name \X SUBSET Version
    /\ DOMAIN memo \subseteq Release \X Target
    /\ \A a \in DOMAIN memo : memo[a] \in {"yes", "no", "unknown"}
    /\ Walking => \A l \in DOMAIN walk.stacks : ToSet(walk.stacks[l]) \subseteq Partials
    /\ Len(found.shown) <= MaxChains /\ ToSet(found.shown) \subseteq Shows
    /\ found.more \in Nat /\ found.atLeast \in BOOLEAN
    /\ at.level \in 0..NodeCount - 1 /\ at.escaping \in Version \cup {None}
    /\ DOMAIN options \subseteq Name /\ Len(guidance) <= Len(Requests)

\* A release said to drop the package does: some set of releases holds it and all that any of its members
\* brings in, with no range left unresolved and no affected copy (judge in closure.ts).
NoIsProven ==
    phase = "done" =>
        \A r \in Release, t \in Target :
            <<r, t>> \in DOMAIN memo /\ memo[<<r, t>>] = "no" =>
                \E S \in SUBSET Listed : r \in S /\ Closed(S) /\ Resolved(S) /\ S \cap Copies(t) = {}

\* A release said to reach the package does: there is no install of it without an affected copy.
YesIsWitnessed ==
    phase = "done" =>
        \A r \in Release, t \in Target :
            <<r, t>> \in DOMAIN memo /\ memo[<<r, t>>] = "yes" =>
                \A S \in SUBSET Listed : r \in S /\ Closed(S) => S \cap Copies(t) # {}

\* No verdict on a release misleads (the contract of reaches, closure.ts:17).
ReachIsTrue == NoIsProven /\ YesIsWitnessed

\* The reference: the least set of releases an install of r may be.
Further(S) == S \cup UNION {UNION {Answer(q) : q \in EdgesOf(x)} : x \in S}
Install(r) ==
    LET within[k \in 0..Cardinality(Listed)] == IF k = 0 THEN {r} ELSE Further(within[k - 1])
    IN  within[Cardinality(Listed)]
Holds(r, t) == Install(r) \cap Copies(t) # {}
Drops(r, t) == Install(r) \cap Copies(t) = {} /\ Resolved(Install(r))

NoneNewerDrops(a, t) == \A v \in {w \in Published(a[1]) : a[2] < w} : Holds(<<a[1], v>>, t)
PathOf(g, i) == [j \in DOMAIN g.found.shown[i].path.ids |-> release[g.found.shown[i].path.ids[j]]]

UpgradeIsTrue(v, path, t) ==
    \E l \in 1..Len(path) - 1 :
        LET r == v.release
        IN  /\ r[1] = path[l][1] /\ path[l][2] < r[2]
            /\ Drops(r, t)
            /\ \A u \in Published(r[1]) : path[l][2] < u /\ u < r[2] => Holds(<<r[1], u>>, t)
            /\ l = 1 \/ r[2] \in Declared(path[l - 1], r[1])
BlockedIsTrue(v, path, t) ==
    \E l \in 2..Len(path) - 1 :
        LET r == v.release
        IN  /\ r[1] = path[l][1] /\ path[l][2] < r[2] /\ Drops(r, t)
            /\ v.by = path[l - 1][1]
            /\ r[2] \notin Declared(path[l - 1], r[1])
            /\ NoneNewerDrops(path[l - 1], t)
NoEscapeIsTrue(v, path, t) ==
    /\ v.packages = [l \in 1..Len(path) - 1 |-> path[Len(path) - l][1]]
    /\ \A l \in 1..Len(path) - 1 : NoneNewerDrops(path[l], t)

VerdictIsTrue(v, path, t) ==
    /\ v.kind = "direct" <=> Len(path) = 1
    /\ v.kind = "upgrade" => UpgradeIsTrue(v, path, t)
    /\ v.kind = "blocked" => BlockedIsTrue(v, path, t)
    /\ v.kind = "noEscape" => NoEscapeIsTrue(v, path, t)
OptionIsTrue(n, outcome, t) ==
    /\ outcome = "verified" => Drops(Replacement(n), t)
    /\ outcome = "left out" => Holds(Replacement(n), t)

\* What the guidance claims of a path is so, by the registry: the upgrade drops the package, is the lowest
\* newer release that does and is admitted by the installed parent; of what is blocked or has no escape no
\* newer release drops it; a replacement is offered only if it does without the package.
ClaimsAreTrue ==
    \A i \in DOMAIN guidance :
        LET g == guidance[i]
        IN  /\ \A c \in DOMAIN g.found.shown : VerdictIsTrue(g.verdicts[c], PathOf(g, c), Requests[i])
            /\ \A n \in DOMAIN g.options : OptionIsTrue(n, g.options[n], Requests[i])

\* Where the registry answers, every range resolves and the lockfile is as the registry says, no verdict is
\* unknown: an unknown comes of a real cause only (closure.ts:28).
NothingIsMissing ==
    /\ \A n \in Name : registry[n].ok
    /\ Resolved(Listed)
    /\ \A e \in world.edges : Declared(release[e[1]], release[e[2]][1]) # {}
UnknownHasACause ==
    NothingIsMissing =>
        \A i \in DOMAIN guidance :
            /\ \A c \in DOMAIN guidance[i].found.shown : guidance[i].verdicts[c].kind # "unknown"
            /\ \A n \in DOMAIN guidance[i].options :
                  guidance[i].options[n] = "unverified" => Replacement(n) \notin Listed

\* What the reader of a finding is told of its way out is true, and silence has a reason (remediation.ts).
GuidanceIsTrue == ClaimsAreTrue /\ UnknownHasACause

\* The reference: every simple path from a root to its first vulnerable copy.
Paths == {[root |-> roots[i], ids |-> s] : i \in DOMAIN roots, s \in SeqOf(Node, NodeCount)}
IsPath(p, t) ==
    /\ p.ids # <<>> /\ p.ids[1] = p.root.node
    /\ IsInjective(p.ids)
    /\ \A j \in 1..Len(p.ids) - 1 : <<p.ids[j], p.ids[j + 1]>> \in world.edges /\ p.ids[j] \notin VulnerableTo(t)
    /\ Last(p.ids) \in VulnerableTo(t)
SimplePaths(t) == {p \in Paths : IsPath(p, t)}

ShownIn(g) == {g.found.shown[i].path : i \in DOMAIN g.found.shown}
Hidden(g, t) == {p \in SimplePaths(t) : \A d \in ShownIn(g) : PathKey(d) # PathKey(p)}
IsProduction(p) == p.root.kind # "dev"

\* The paths shown are distinct and the shortest, all of them if they fit, except that a shortest production
\* path takes the last place when none came before it; dev only means that no production path exists.
PathsAreTheShortest ==
    \A i \in DOMAIN guidance :
        LET g == guidance[i]
            all == SimplePaths(Requests[i])
            hidden == Hidden(g, Requests[i])
        IN  /\ ShownIn(g) \subseteq all
            /\ \A j, k \in DOMAIN g.found.shown : PathKey(g.found.shown[j].path) = PathKey(g.found.shown[k].path) => j = k
            /\ hidden # {} => Len(g.found.shown) = MaxChains
            /\ \A p \in hidden, d \in ShownIn(g) :
                  \/ Len(d.ids) <= Len(p.ids)
                  \/ IsProduction(d) /\ ~IsProduction(p) /\ \A e \in ShownIn(g) \ {d} : ~IsProduction(e)
            /\ (\E p \in all : IsProduction(p)) => \E d \in ShownIn(g) : IsProduction(d)
            /\ g.found.devOnly = (IF all = {} THEN None ELSE \A p \in all : ~IsProduction(p))

\* The number of further paths is theirs, or, where a cycle made the count stop early, not more.
MoreIsHonest ==
    \A i \in DOMAIN guidance :
        LET hidden == Cardinality(Hidden(guidance[i], Requests[i]))
        IN  IF guidance[i].found.atLeast THEN guidance[i].found.more <= hidden
            ELSE guidance[i].found.more = hidden

\* The paths shown and the number left are those of the lockfile (findChains).
PathsAreRight == PathsAreTheShortest /\ MoreIsHonest

\* Whatever cycles the lockfile and the registry hold, the computation ends.
EveryRequestEnds == <>(phase \in {"done", "failed"})

\* Stated by core/src/remediation.ts:47 of a blocked path and not so: some release of the blocking package
\* may admit the release that escapes and still reach the package another way.
BlockedAdmitsNone ==
    \A i \in DOMAIN guidance : \A c \in DOMAIN guidance[i].found.shown :
        LET v == guidance[i].verdicts[c]
        IN  v.kind = "blocked" =>
                \A u \in Published(v.by) : v.release[2] \notin Declared(<<v.by, u>>, v.release[1])
=============================================================================
