------------------------------- MODULE MCWayOut -------------------------------
\* Lockfile: app@1, lib@1, the vulnerable vuln@2 and a peer variant of lib@1; heir replaces app.
EXTENDS WayOut, TLC
CONSTANTS app, lib, vuln, heir, cve1, cve2

MCNames == {app, lib, vuln, heir}
MCVersions == 1..3
MCNodes == 1..4
MCRelease == <<<<app, 1>>, <<lib, 1>>, <<vuln, 2>>, <<lib, 1>>>>

Root(n, k) == [importer |-> 1, node |-> n, kind |-> k]
MCRoots == {<<Root(1, "dev"), Root(1, "optional")>>,
            <<Root(1, "dev"), Root(2, "dev"), Root(4, "prod")>>,
            <<Root(2, "prod"), Root(3, "dev")>>}
MCPossible == {<<1, 2>>, <<1, 3>>, <<1, 4>>, <<2, 1>>, <<2, 3>>, <<2, 4>>, <<4, 3>>, <<4, 1>>}

All == MCVersions
Entry(last, es) == [ok |-> TRUE, latest |-> last, deprecated |-> {}, edges |-> es]
T(aff) == [name |-> vuln, affected |-> aff]
Plain == (app :> Entry(1, 1 :> (lib :> All @@ vuln :> All))
       @@ lib :> Entry(1, 1 :> (vuln :> All @@ app :> All))
       @@ vuln :> Entry(2, [v \in 1..2 |-> <<>>])
       @@ heir :> Entry(1, 1 :> <<>>))

\* Any lockfile over a plain registry.
PathWorlds ==
    {[registry |-> Plain, target |-> (cve1 :> T({2}) @@ cve2 :> [name |-> heir, affected |-> {1}]), release |-> MCRelease, edges |-> es, roots |-> rs,
      replacement |-> [n \in MCNames |-> None], unmaintained |-> FALSE] : es \in SUBSET MCPossible, rs \in MCRoots}

\* Any registry behind one lockfile.
NoDeps == <<>>
OfA == {NoDeps, vuln :> All, vuln :> {1}, lib :> {1, 2}, lib :> All}
OfB == {NoDeps, vuln :> All, vuln :> {}, app :> All}
\* What the installed releases declare: lib's range, or nothing of lib.
OfA1 == {lib :> {1} @@ vuln :> All, lib :> {1, 2} @@ vuln :> All, vuln :> All}
Behind(rs, gone, la, dep) ==
    {[registry |-> (app :> [ok |-> gone # app, latest |-> la, deprecated |-> {}, edges |-> <<r[1], r[2], r[3]>>]
                 @@ lib :> [ok |-> gone # lib, latest |-> 3, deprecated |-> dep, edges |-> <<vuln :> All, r[4], r[5]>>]
                 @@ vuln :> Entry(3, [v \in 1..3 |-> <<>>])
                 @@ heir :> Entry(1, 1 :> (lib :> {2, 3}))),
      target |-> (cve1 :> T({2, 3}) @@ cve2 :> T({1, 2, 3})), release |-> MCRelease,
      edges |-> {<<1, 2>>, <<2, 3>>}, roots |-> <<Root(1, "prod"), Root(2, "dev")>>,
      replacement |-> [n \in MCNames |-> IF n = app THEN heir ELSE None], unmaintained |-> FALSE] : r \in rs}
RegistryWorlds ==
    Behind(OfA1 \X OfA \X OfA \X OfB \X OfB, None, 3, {})
    \cup Behind(OfA1 \X OfA \X {NoDeps, vuln :> {1}, lib :> All} \X OfB \X {NoDeps}, None, 2, {3})
    \cup Behind(OfA1 \X OfA \X {NoDeps, lib :> All} \X {NoDeps} \X {NoDeps}, lib, 3, {})
    \cup Behind({lib :> {1}} \X {NoDeps} \X {NoDeps} \X OfB \X OfB, app, 3, {})

\* The tag of a replacement may name a release the registry no longer has.
GoneLatest == {[w EXCEPT !.registry[heir].latest = 2] : w \in Behind({lib :> {1}} \X {NoDeps, vuln :> All} \X {vuln :> All} \X {NoDeps, vuln :> All} \X {NoDeps, vuln :> All}, None, 3, {})}

MCWorlds == PathWorlds \cup RegistryWorlds \cup GoneLatest
MCRequests == <<cve1, cve2>>
MCTargets == {cve1, cve2}
===============================================================================
