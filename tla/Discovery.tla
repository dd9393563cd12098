----------------------------- MODULE Discovery -----------------------------
(***************************************************************************)
(* From the directories on disk to the projects and manifests the database *)
(* holds: the walk of a root, the pass that reconciles what it found, and  *)
(* the re-reading of one project when it is scanned.                       *)
(*                                                                         *)
(* A pass runs without an await, so no other pass comes between its steps; *)
(* the portal is another process and the disk is anyone's: both may change *)
(* between any two of them.  A file is its ecosystem and whether it locks, *)
(* a manifest is a directory with a file, a project is its directory.      *)
(***************************************************************************)
EXTENDS Naturals, FiniteSets, Sequences, Functions

CONSTANTS
    Dirs,           \* directories
    Parent,         \* Parent[d]: the directory d lies in, or None
    RootDirs,       \* directories that may be roots
    Mounts,         \* those of them that are mount points
    DockerRoots,    \* those of them under /roots
    SkipDirs,       \* directories named in MANIFEST_SKIP
    Trees,          \* what the directories may hold at first
    Lists,          \* the roots that may be registered at first
    Contents,       \* what a directory may come to hold
    Modes,          \* permissions: sets of "read" (list) and "search" (enter)
    MountStates,    \* of "up", "gone" and "bare", the empty mount point
    MaxChanges,     \* of disk and portal, requests and restarts, together
    Overlap,        \* a pass may begin while a batch is scanned
    Steady,         \* no root drops between its check and its walk, no tag is set during a pass
    None

Ecosystems == {"npm", "cargo"}
SubEcosystems == Ecosystems \ {"npm"}
PackageJson == <<"npm", "loose">>
Manifests == Dirs \X Ecosystems \X {"lock", "loose"}
\* What the walk makes of a directory: whose it is, whether that is an npm project, whether
\* its manifests are left out.  What is recorded of a project.
Claimed == [owner : Dirs \cup {None}, npm : BOOLEAN, off : BOOLEAN]
Rows == [manifests : SUBSET Manifests, tagged : BOOLEAN]

ASSUME RootAssumption == Mounts \cup DockerRoots \subseteq RootDirs /\ RootDirs \subseteq Dirs /\ IsFiniteSet(RootDirs)
ASSUME ParentAssumption == Parent \in [Dirs -> Dirs \cup {None}] /\ None \notin Dirs
\* No directory lies within itself: every set of directories has a topmost one.
ASSUME TreeAssumption == \A ds \in (SUBSET Dirs) \ {{}} : \E d \in ds : Parent[d] \notin ds
ASSUME ListsAssumption == \A l \in Lists : l \in Seq(RootDirs) /\ l \in Injection(DOMAIN l, RootDirs)
ASSUME NamesAssumption == None \notin Claimed \cup Rows
ASSUME ChangesAssumption == MaxChanges \in Nat

VARIABLES
    files,      \* files[d]: the manifests and lockfiles of d
    mode,       \* mode[d]: what the worker may do in d
    ignores,    \* <<a, d>>: an ignore file in a excludes d
    mount,      \* mount[r]: the state of the mount at r
    roots,      \* the table of roots, in the order of their labels
    row,        \* row[r, d]: the project at d under root r, or None
    pass,       \* the pass under way
    batch,      \* copies of the projects that are yet to be scanned
    changes

disk == <<files, mode, ignores, mount>>
discoveryVars == <<disk, roots, row, pass, batch, changes>>

Nothing == [x \in {} |-> {}]
\* f as a table: TLC works out all its values, once, when it compares it.
Table(f) == CHOOSE t \in {f} : t = f
\* f, and g where f is not defined.
Over(f, g) == [x \in DOMAIN f \cup DOMAIN g |-> IF x \in DOMAIN f THEN f[x] ELSE g[x]]

Above == LET up[d \in Dirs] == {d} \cup IF Parent[d] = None THEN {} ELSE up[Parent[d]]
         IN  Table(up)
Below(d) == {x \in Dirs : d \in Above[x]}
Keys == UNION {{r} \X Below(r) : r \in RootDirs}
Elements(s) == {s[i] : i \in 1..Len(s)}
Registered == Elements(roots)

-----------------------------------------------------------------------------
(* What the worker can see, and what a walk makes of it.                   *)

Present(d) == \A m \in Above[d] \cap Mounts : mount[m] = "up" \/ (m = d /\ mount[m] = "bare")
Reached(d) == Present(d) /\ \A a \in Above[d] \ {d} : "search" \in mode[a]
Bare(d) == d \in Mounts /\ mount[d] = "bare"

\* Which directories are entries of their parent, resolve, can be listed, and show their files.
Seen == [entries |-> {d \in Dirs : Present(d)},
         exists |-> {d \in Dirs : Reached(d)},
         lists |-> {d \in Dirs : Reached(d) /\ "read" \in mode[d]},
         looks |-> {d \in Dirs : Reached(d) /\ "search" \in mode[d] /\ ~Bare(d)}]
\* Everything that is there, whatever its permissions and whether it is mounted.
Whole == [entries |-> Dirs, exists |-> Dirs, lists |-> Dirs, looks |-> Dirs]

fileExists(v, d, f) == d \in v.looks /\ f \in files[d]

\* A Cargo.toml is covered by a lock above it, within the project.
coveredByLock(v, d, p, e) ==
    e = "cargo" /\ \E a \in (Above[d] \ {d}) \cap Below(p) : fileExists(v, a, <<e, "lock">>)

detectManifestsInSync(v, d, p, ecosystems) ==
    LET locked == {e \in ecosystems : fileExists(v, d, <<e, "lock">>)}
        loose == {e \in ecosystems \ locked :
                     fileExists(v, d, <<e, "loose">>) /\ ~coveredByLock(v, d, p, e)}
    IN  {<<d, e, "lock">> : e \in locked} \cup {<<d, e, "loose">> : e \in loose}

\* Any ignore file from the walk's root down to the parent may exclude a directory.
classifySkip(v, root, d) ==
    \E a \in (Above[d] \ {d}) \cap Below(root) : a \in v.looks /\ <<a, d>> \in ignores

Unclaimed == [owner |-> None, npm |-> FALSE, off |-> FALSE]

\* The four rules of where a project begins; s is what the walk brings down to d.
claimDirectory(v, d, s) ==
    IF ~s.npm /\ fileExists(v, d, PackageJson)
    THEN [owner |-> d, npm |-> TRUE, off |-> FALSE]
    ELSE IF s.owner = None /\ ~s.off /\ detectManifestsInSync(v, d, d, SubEcosystems) # {}
    THEN [owner |-> d, npm |-> FALSE, off |-> FALSE]
    ELSE s

\* What a directory is found to be, None where the walk does not come; up is what its parent is.
walkDirectory(v, root, d, up) ==
    LET off == up.off \/ d \in SkipDirs
    IN  IF \/ up = None \/ Parent[d] \notin v.lists \/ d \notin v.entries
           \/ up.npm /\ off
           \/ classifySkip(v, root, d)
        THEN None
        ELSE claimDirectory(v, d, [up EXCEPT !.off = off])

\* The walk comes to each directory at or below start from its parent.
Claims(v, root, start) ==
    LET at[d \in Below(start)] == IF d = start THEN claimDirectory(v, d, Unclaimed)
                                  ELSE walkDirectory(v, root, d, at[Parent[d]])
    IN  Table(at)

walk(v, root, start) ==
    LET at == Claims(v, root, start)
        came == {d \in Below(start) : at[d] # None}
        Of(d, p) == detectManifestsInSync(v, d, p, IF d = p /\ at[p].npm THEN Ecosystems ELSE SubEcosystems)
    IN  [found |-> [p \in {d \in came : at[d].owner = d} |->
                       UNION {Of(d, p) : d \in {x \in came : at[x].owner = p /\ ~at[x].off}}],
         errors |-> came \ v.lists]

discoverProjectsInTree(v, root) ==
    IF root \in v.exists THEN walk(v, root, root) ELSE [found |-> Nothing, errors |-> {}]

\* Mutant: only the ignore files of the project itself.
rediscoverProject_own(v, root, p) ==
    IF p \in v.exists THEN walk(v, p, p) ELSE [found |-> Nothing, errors |-> {}]
rediscoverProject(v, root, p) ==
    IF p \in v.exists THEN walk(v, root, p) ELSE [found |-> Nothing, errors |-> {}]

\* Mutant: what was recorded stays, read or not.
withUnreadManifests_all(now, recorded, errors) ==
    now \cup {m \in recorded : \A n \in now : <<n[1], n[2]>> # <<m[1], m[2]>>}
\* What lies behind an error is kept, one manifest of an ecosystem to a directory.
withUnreadManifests(now, recorded, errors) ==
    now \cup {m \in recorded : /\ \A n \in now : <<n[1], n[2]>> # <<m[1], m[2]>>
                               /\ Above[m[1]] \cap errors # {}}

-----------------------------------------------------------------------------
(* The pass and the scan.                                                  *)

Idle == [on |-> FALSE, only |-> None, todo |-> <<>>, checked |-> FALSE, recorded |-> Nothing,
         walked |-> {}, incomplete |-> {}, found |-> Nothing, done |-> {}, onDisk |-> Nothing]

DiscoveryInit ==
    /\ files \in Trees
    /\ mode = [d \in Dirs |-> {"read", "search"}]
    /\ ignores = {}
    /\ mount = [r \in Mounts |-> "up"]
    /\ roots \in Lists
    /\ row = [k \in Keys |-> None]
    /\ pass = Idle
    /\ batch = {}
    /\ changes = 0

Change == changes < MaxChanges /\ changes' = changes + 1

MayStart == ~pass.on /\ (Overlap \/ batch = {})

\* discoverProjects opens with what is recorded; `only` is the root a request names.
Discover(rs, only) ==
    /\ MayStart
    /\ pass' = [Idle EXCEPT !.on = TRUE, !.only = only, !.todo = rs, !.recorded = row]
    /\ UNCHANGED <<disk, roots, row, batch>>

runFullSweep == Discover(roots, None) /\ UNCHANGED changes

runRootSweep(r) == r \in Registered /\ Discover(<<r>>, r) /\ Change

\* A batch holds copies of the rows it was made from.
Copies(ks) == {<<k, row[k].manifests>> : k \in {x \in ks : row[x] # None}}

runSingleProject(k) ==
    /\ MayStart /\ row[k] # None
    /\ batch' = batch \cup Copies({k})
    /\ Change
    /\ UNCHANGED <<disk, roots, row, pass>>

\* Mutant: a root that is not there is walked like the others.
CheckRoot_any ==
    /\ pass.on /\ pass.todo # <<>> /\ ~pass.checked
    /\ pass' = [pass EXCEPT !.checked = TRUE]
    /\ UNCHANGED <<disk, roots, row, batch, changes>>

\* A root whose path is not there is left out of the pass.
CheckRoot ==
    /\ pass.on /\ pass.todo # <<>> /\ ~pass.checked
    /\ pass' = IF Head(pass.todo) \in Seen.exists THEN [pass EXCEPT !.checked = TRUE]
                ELSE [pass EXCEPT !.todo = Tail(@)]
    /\ UNCHANGED <<disk, roots, row, batch, changes>>

WalkRoot ==
    LET r == Head(pass.todo)
        tree == discoverProjectsInTree(Seen, r)
        Recorded(p) == IF pass.recorded[r, p] = None THEN {} ELSE pass.recorded[r, p].manifests
    IN  /\ pass.checked
        /\ pass' = [pass EXCEPT
               !.checked = FALSE,
               !.todo = Tail(@),
               !.walked = @ \cup {r},
               !.incomplete = IF tree.errors = {} THEN @ ELSE @ \cup {r},
               !.found = Over([p \in DOMAIN tree.found |->
                             [root |-> r, manifests |-> withUnreadManifests(tree.found[p], Recorded(p), tree.errors)]], @),
               !.onDisk = Over([x \in {r} |-> walk(Whole, x, x).found], @)]
        /\ UNCHANGED <<disk, roots, row, batch, changes>>

Walked == pass.on /\ pass.todo = <<>>
Unwritten == DOMAIN pass.found \ pass.done

\* A project is written with the tags it had when the pass began; without its root, it cannot be.
upsertProject(p) ==
    LET k == <<pass.found[p].root, p>>
        prior == pass.recorded[k]
    IN  /\ Walked /\ p \in Unwritten
        /\ IF k[1] \notin Registered THEN pass' = Idle /\ UNCHANGED row
           ELSE /\ row' = [row EXCEPT ![k] = [manifests |-> pass.found[p].manifests,
                                              tagged |-> prior # None /\ prior.tagged]]
                /\ pass' = [pass EXCEPT !.done = @ \cup {p}]
        /\ UNCHANGED <<disk, roots, batch, changes>>

\* Recorded under a root walked to its end, and not found there.
Missing ==
    {k \in Keys : /\ k[1] \in pass.walked \ pass.incomplete
                  /\ pass.recorded[k] # None
                  /\ k[2] \in DOMAIN pass.found => pass.found[k[2]].root # k[1]}

deleteProject(k) ==
    /\ Walked /\ Unwritten = {} /\ k \in Missing \ pass.done
    /\ row' = [row EXCEPT ![k] = None]
    /\ pass' = [pass EXCEPT !.done = @ \cup {k}]
    /\ UNCHANGED <<disk, roots, batch, changes>>

\* listProjects, or listProjectsByRoot: what the batch will scan.
ListProjects ==
    /\ Walked /\ Unwritten = {} /\ Missing \subseteq pass.done
    /\ batch' = batch \cup Copies({k \in Keys : pass.only \in {None, k[1]}})
    /\ pass' = Idle
    /\ UNCHANGED <<disk, roots, row, changes>>

\* The project is read again as its scan begins, and compared with the batch's copy of it.
refreshProjectInventory(e) ==
    LET k == e[1]
        tree == rediscoverProject(Seen, k[1], k[2])
        now == withUnreadManifests(tree.found[k[2]], e[2], tree.errors)
    IN  /\ e \in batch /\ ~pass.on
        /\ row' = IF k[1] \in Registered /\ row[k] # None /\ k[2] \in DOMAIN tree.found /\ now # e[2]
                  THEN [row EXCEPT ![k].manifests = now] ELSE row
        /\ batch' = batch \ {e}
        /\ UNCHANGED <<disk, roots, pass, changes>>

-----------------------------------------------------------------------------
(* The portal, the worker's boot, and the disk.                            *)

Precedes(s, a, b) == \E i, j \in DOMAIN s : i < j /\ s[i] = a /\ s[j] = b

\* The table when it holds the roots rs: those but new keep their order, and the labels of
\* new, which order the table, may be anything.
Relisted(rs, new) == {s \in Injection(1..Cardinality(rs), rs) : \A a, b \in rs \ new : Precedes(s, a, b) <=> Precedes(roots, a, b)}

\* A root is added, or given another label.
upsertRootAction(r) ==
    /\ Change
    /\ roots' \in Relisted(Registered \cup {r}, {r}) \ {roots}
    /\ UNCHANGED <<disk, row, pass, batch>>

deleteRootAction(r) ==
    /\ r \in Registered /\ Change
    /\ roots' \in Relisted(Registered \ {r}, {})
    /\ row' = [k \in Keys |-> IF k[1] = r THEN None ELSE row[k]]
    /\ UNCHANGED <<disk, pass, batch>>

setProjectTagsAction(k) ==
    /\ row[k] # None /\ Change
    /\ Steady => ~pass.on
    /\ row' = [row EXCEPT ![k].tagged = ~@]
    /\ UNCHANGED <<disk, roots, pass, batch>>

\* discoverDockerRoots adds the mounts found under /roots, pruneDockerRoots removes those not found.
Restart ==
    LET mounted == {r \in DockerRoots : Present(r)}
        stale == (DockerRoots \cap Registered) \ mounted
    IN  /\ Change
        /\ pass' = Idle /\ batch' = {}
        /\ roots' \in Relisted((Registered \ stale) \cup mounted, mounted \ Registered)
        /\ row' = [k \in Keys |-> IF k[1] \in stale THEN None ELSE row[k]]
        /\ UNCHANGED disk

\* The root found there is still there when it is walked.
Stays == Steady /\ pass.checked => Reached(Head(pass.todo))'

EditFiles(d) ==
    /\ Change
    /\ \E c \in Contents : files' = [files EXCEPT ![d] = c]
    /\ UNCHANGED <<mode, ignores, mount, roots, row, pass, batch>>

Chmod(d) ==
    /\ Change
    /\ \E m \in Modes : mode' = [mode EXCEPT ![d] = m]
    /\ UNCHANGED <<files, ignores, mount, roots, row, pass, batch>>
    /\ Stays

Ignore(a, d) ==
    /\ Change
    /\ ignores' = IF <<a, d>> \in ignores THEN ignores \ {<<a, d>>} ELSE ignores \cup {<<a, d>>}
    /\ UNCHANGED <<files, mode, mount, roots, row, pass, batch>>

Mount(r) ==
    /\ Change
    /\ \E s \in MountStates : mount' = [mount EXCEPT ![r] = s]
    /\ UNCHANGED <<files, mode, ignores, roots, row, pass, batch>>
    /\ Stays

Worker ==
    \/ CheckRoot
    \/ WalkRoot
    \/ \E p \in Dirs : upsertProject(p)
    \/ \E k \in Keys : deleteProject(k)
    \/ ListProjects
    \/ \E e \in batch : refreshProjectInventory(e)

DiscoveryNext ==
    \/ Worker
    \/ runFullSweep
    \/ \E r \in RootDirs : runRootSweep(r)
    \/ \E k \in Keys : runSingleProject(k)
    \/ \E r \in RootDirs : upsertRootAction(r)
    \/ \E r \in RootDirs : deleteRootAction(r)
    \/ \E k \in Keys : setProjectTagsAction(k)
    \/ Restart
    \/ \E d \in Dirs : EditFiles(d)
    \/ \E d \in Dirs : Chmod(d)
    \/ \E d \in Dirs : \E a \in Above[d] \ {d} : Ignore(a, d)
    \/ \E r \in Mounts : Mount(r)

DiscoverySpec == DiscoveryInit /\ [][DiscoveryNext]_discoveryVars
\* The worker runs on (WF_vars(Worker): a step is enabled unless idle), and cron starts sweeps.
Fairness ==
    /\ []<>(~pass.on /\ batch = {}) \/ []<><<Worker>>_discoveryVars
    /\ WF_discoveryVars(runFullSweep)
DiscoveryFairSpec == DiscoverySpec /\ Fairness

-----------------------------------------------------------------------------
(* Properties.                                                             *)

\* What is on disk under root r: as the pass walked it, or else as it is now.
OnDisk(r) == IF r \in DOMAIN pass.onDisk THEN pass.onDisk[r] ELSE walk(Whole, r, r).found

MayGo(k) ==
    \/ k[1] \notin Registered'
    \/ k[2] \notin DOMAIN OnDisk(k[1])
    \/ \E r \in DOMAIN pass.onDisk \ {k[1]} : k[2] \in DOMAIN pass.onDisk[r]

\* A project leaves the database, with its history, only if its root was removed,
\* if nothing anchored it when its root was walked, or if the pass found it under another root;
\* a manifest leaves it only if it was not there; tags change at the operator's hand.
\* An unreadable directory or a missing mount takes nothing away.
OnDiskIsKept ==
    [][\A k \in Keys : row[k] # None /\ row'[k] # row[k] =>
          IF row'[k] = None THEN MayGo(k)
          ELSE /\ \A m \in row[k].manifests \ row'[k].manifests :
                      k[2] \in DOMAIN OnDisk(k[1]) => m \notin OnDisk(k[1])[k[2]]
               /\ row'[k].tagged # row[k].tagged => UNCHANGED <<pass, batch>>]_discoveryVars

\* Calm weather, in which OnDiskIsKept is proved: passes and batches do not overlap, a root
\* checked is there when it is walked, no mount point lies below a root or comes up empty,
\* and a directory that can be listed can be entered.
Calm ==
    /\ Steady /\ ~Overlap /\ "bare" \notin MountStates
    /\ \A m \in Modes : "read" \in m => "search" \in m
    /\ \A r \in RootDirs : \A d \in Below(r) : d \in Mounts => d = r

\* A scan that re-reads its project finds what a pass over the root would have found.
RefreshAgrees ==
    \A r \in RootDirs :
        LET tree == discoverProjectsInTree(Seen, r)
        IN  \A p \in DOMAIN tree.found :
                LET again == rediscoverProject(Seen, r, p)
                IN  /\ p \in DOMAIN again.found
                    /\ again.found[p] = tree.found[p]
                    /\ again.errors = tree.errors \cap Below(p)

Clear == /\ \A d \in Dirs : mode[d] = {"read", "search"}
         /\ \A r \in Mounts : mount[r] = "up"

\* A project of several roots belongs to the last of them.
Roster ==
    LET trees == Table([i \in 1..Len(roots) |-> discoverProjectsInTree(Seen, roots[i]).found])
        Latest(i, p) == \A j \in DOMAIN trees : p \in DOMAIN trees[j] => j <= i
    IN  UNION {{<<<<roots[i], p>>, trees[i][p]>> : p \in {q \in DOMAIN trees[i] : Latest(i, q)}} : i \in DOMAIN trees}

\* Once the disk is readable and nothing changes any more, the sweeps make the
\* database hold the projects on disk and no others, with the manifests they have,
\* whatever was unreadable, unmounted or removed in between.
RosterConverges == <>[](Clear => Copies(Keys) = Roster)
=============================================================================
