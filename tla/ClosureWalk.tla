----------------------------- MODULE ClosureWalk -----------------------------
(***************************************************************************)
(* What installing a release would bring in, read from the registry, and   *)
(* whether an affected copy of a package is part of it.                    *)
(*                                                                         *)
(* A walk expands one set of dependency edges level by level.  Releases    *)
(* that declare the same edges share a walk, and so do all questions: a    *)
(* question stops a walk as soon as it has its answer and the next one     *)
(* takes it up where it stands.  A version range is the set of versions it *)
(* accepts, the empty set a specifier npm does not send to the registry.   *)
(***************************************************************************)
EXTENDS Naturals, FiniteSets

CONSTANTS
    Name,       \* packages
    Version,    \* versions, in their order
    Target,     \* the vulnerable packages asked about
    None,
    Worlds      \* what registry, lockfile and advisories may hold

Release == Name \X Version

\* What the registry holds of a package: for each published version the ranges it declares.
Edges(s) ==
    /\ DOMAIN s.edges \subseteq Version
    /\ \A v \in DOMAIN s.edges : DOMAIN s.edges[v] \subseteq Name

ASSUME FiniteAssumption == IsFiniteSet(Name) /\ IsFiniteSet(Version)
ASSUME VersionAssumption == Version \subseteq Nat /\ None \notin Version
ASSUME WorldAssumption == \A w \in Worlds : \A n \in Name : Edges(w.registry[n])

VARIABLES
    world,      \* the member of Worlds this project scan runs in
    walks,      \* walks[k]: the expansion of the edge set k
    memo        \* memo[r, t]: whether r reaches t, once known

walker == <<walks, memo>>

registry == world.registry
Published(n) == DOMAIN registry[n].edges
Listed == {x \in Release : x[2] \in Published(x[1])}
Copies(t) == {<<world.target[t].name, v>> : v \in world.target[t].affected}

\* The releases an install of a range picks: one, or none at all.
Picks(n, range) ==
    LET fits == range \cap Published(n)
        current == fits \ registry[n].deprecated
        pool == IF current = {} THEN fits ELSE current
    IN  IF registry[n].latest \in current THEN {registry[n].latest}
        ELSE {v \in pool : \A w \in pool : w <= v}

Answer(q) == IF registry[q[1]].ok THEN {<<q[1], v>> : v \in Picks(q[1], q[2])} ELSE {}

EdgesOf(r) ==
    IF r[2] \in Published(r[1])
    THEN {<<m, registry[r[1]].edges[r[2]][m]>> : m \in DOMAIN registry[r[1]].edges[r[2]]}
    ELSE {}

WalkKey_name(r) == <<r[1], {}>>    \* Mutant: one walk for all releases of a package
WalkKey(r) == <<r[1], EdgesOf(r)>>
WalkOf(r) ==
    IF WalkKey(r) \in DOMAIN walks THEN walks[WalkKey(r)]
    ELSE [nodes |-> {}, lost |-> {}, frontier |-> EdgesOf(r)]

\* Mutant: what was read before is read again.
Level_again(w) ==
    LET got == UNION {Answer(q) : q \in w.frontier}
    IN  [nodes |-> w.nodes \cup got,
         lost |-> w.lost \cup {q[1] : q \in {p \in w.frontier : Answer(p) = {}}},
         frontier |-> UNION {EdgesOf(x) : x \in got}]

\* One level: what the frontier asks for, and what that asks for in turn.
Level(w) ==
    LET got == UNION {Answer(q) : q \in w.frontier}
    IN  [nodes |-> w.nodes \cup got,
         lost |-> w.lost \cup {q[1] : q \in {p \in w.frontier : Answer(p) = {}}},
         frontier |-> UNION {EdgesOf(x) : x \in got \ w.nodes}]

\* A yes needs one affected copy, a no everything, of a release that is published.
Judge(r, t) ==
    LET w == WalkOf(r)
    IN  IF (w.nodes \cup {r}) \cap Copies(t) # {} THEN "yes"
        ELSE IF w.frontier # {} THEN "open"
        ELSE IF w.lost # {} \/ r \notin Listed THEN "unknown"
        ELSE "no"

Put(f, k, v) == [x \in DOMAIN f \cup {k} |-> IF x = k THEN v ELSE f[x]]

WalkInit ==
    /\ world \in Worlds
    /\ walks = [k \in {} |-> {}]
    /\ memo = [k \in {} |-> {}]

expandLevel(r, t) ==
    /\ <<r, t>> \notin DOMAIN memo
    /\ Judge(r, t) = "open"
    /\ walks' = Put(walks, WalkKey(r), Level(WalkOf(r)))
    /\ UNCHANGED <<world, memo>>

reaches(r, t) ==
    /\ <<r, t>> \notin DOMAIN memo
    /\ Judge(r, t) # "open"
    /\ memo' = Put(memo, <<r, t>>, Judge(r, t))
    /\ UNCHANGED <<world, walks>>

\* Sets of releases an install may be: with a release, all it brings in.
Closed(S) == \A x \in S : \A q \in EdgesOf(x) : Answer(q) \subseteq S
Resolved(S) == \A x \in S : \A q \in EdgesOf(x) : Answer(q) # {}
=============================================================================
