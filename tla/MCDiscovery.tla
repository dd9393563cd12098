---------------------------- MODULE MCDiscovery ----------------------------
\* Two roots, one inside the other: top/app/lib, and a vendor directory in app.
EXTENDS Discovery, TLC
CONSTANTS top, app, lib, vendor

MCParent == (top :> None) @@ (app :> top) @@ (lib :> app) @@ (vendor :> app)
Loose == <<"cargo", "loose">>
Lock == <<"cargo", "lock">>
MCContents == {{}, {PackageJson}, {Loose}, {Lock}}
Tree(t, a, l, v) == (top :> t) @@ (app :> a) @@ (lib :> l) @@ (vendor :> v)
MCTrees == {Tree({}, {PackageJson, Lock}, {Loose}, {Lock}),         \* an npm project and what it owns
            Tree({Lock}, {}, {PackageJson}, {PackageJson}),         \* npm projects below another
            Tree({Lock}, {Loose}, {Loose}, {Lock})}                 \* a workspace
MCLists == {<<top>>, <<app, top>>}
MCModes == {{}, {"search"}, {"read", "search"}}
\* The instance is one of those the theorem is about.
ASSUME CalmAssumption == Calm
=============================================================================
